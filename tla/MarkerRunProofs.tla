--------------------------- MODULE MarkerRunProofs ---------------------------
(***************************************************************************)
(* Proofs about MarkerRun for every set of foreign rules, every chain      *)
(* length and any number of edits and failures.                            *)
(***************************************************************************)
EXTENDS MarkerRun, TLAPS

-----------------------------------------------------------------------------
(***************************************************************************)
(* Sequences of rules.                                                     *)
(***************************************************************************)

\* BoundedSeq is what its name says.
LEMMA Bounded ==
  ASSUME NEW S, NEW n \in Nat, NEW s
  PROVE  s \in BoundedSeq(S, n) <=> s \in Seq(S) /\ Len(s) <= n
<1>1. ASSUME s \in Seq(S), Len(s) <= n PROVE s \in BoundedSeq(S, n)
  <2>1. Len(s) \in 0..n /\ s \in [1..Len(s) -> S]
    BY <1>1
  <2> QED BY <2>1 DEF BoundedSeq, SeqOf
<1>2. ASSUME s \in BoundedSeq(S, n) PROVE s \in Seq(S) /\ Len(s) <= n
  <2>1. PICK m \in 0..n : s \in [1..m -> S]
    BY <1>2 DEF BoundedSeq, SeqOf
  <2>2. s \in Seq(S) /\ Len(s) = m
    BY <2>1
  <2> QED BY <2>2
<1> QED BY <1>1, <1>2

\* iptables -R.
LEMMA Replaced ==
  ASSUME NEW S, NEW s \in Seq(S), NEW e \in S, NEW k \in 1..Len(s)
  PROVE  /\ [s EXCEPT ![k] = e] \in Seq(S) /\ Len([s EXCEPT ![k] = e]) = Len(s)
         /\ DOMAIN [s EXCEPT ![k] = e] = 1..Len(s)
         /\ [s EXCEPT ![k] = e][k] = e
         /\ \A i \in 1..Len(s) : i # k => [s EXCEPT ![k] = e][i] = s[i]
<1>1. s \in [1..Len(s) -> S] /\ Len(s) \in Nat
  OBVIOUS
<1>2. [s EXCEPT ![k] = e] \in [1..Len(s) -> S]
  BY <1>1
<1>3. [s EXCEPT ![k] = e] \in Seq(S) /\ Len([s EXCEPT ![k] = e]) = Len(s)
  BY <1>1, <1>2
<1> QED BY <1>1, <1>2, <1>3

\* iptables -D.
LEMMA Removed ==
  ASSUME NEW S, NEW s \in Seq(S), NEW k \in 1..Len(s)
  PROVE  /\ RemoveAt(s, k) \in Seq(S) /\ Len(RemoveAt(s, k)) = Len(s) - 1
         /\ DOMAIN RemoveAt(s, k) = 1..(Len(s) - 1)
         /\ \A i \in 1..(Len(s) - 1) : i < k => RemoveAt(s, k)[i] = s[i]
         /\ \A i \in 1..(Len(s) - 1) : i >= k => RemoveAt(s, k)[i] = s[i + 1]
<1> DEFINE a == SubSeq(s, 1, k - 1)
           b == SubSeq(s, k + 1, Len(s))
<1>1. a \in Seq(S) /\ Len(a) = k - 1 /\ \A i \in 1..(k - 1) : a[i] = s[i]
  OBVIOUS
<1>2. b \in Seq(S) /\ Len(b) = Len(s) - k /\ \A i \in 1..(Len(s) - k) : b[i] = s[k + i]
  OBVIOUS
<1>3. RemoveAt(s, k) = a \o b
  BY DEF RemoveAt
<1> HIDE DEF a, b
<1>4. a \o b \in Seq(S) /\ Len(a \o b) = Len(s) - 1 /\ DOMAIN (a \o b) = 1..(Len(s) - 1)
  <2>1. a \o b \in Seq(S)
    BY <1>1, <1>2
  <2>2. Len(a \o b) = Len(s) - 1
    BY <1>1, <1>2
  <2> QED BY <2>1, <2>2
<1>5. ASSUME NEW i \in 1..(Len(s) - 1), i < k PROVE (a \o b)[i] = s[i]
  BY <1>1, <1>2, <1>5
<1>6. ASSUME NEW i \in 1..(Len(s) - 1), i >= k PROVE (a \o b)[i] = s[i + 1]
  <2>1. (a \o b)[i] = b[i - (k - 1)]
    BY <1>1, <1>2, <1>6
  <2>2. i - (k - 1) \in 1..(Len(s) - k) /\ k + (i - (k - 1)) = i + 1
    BY <1>6
  <2> QED BY <1>2, <2>1, <2>2
<1> QED BY <1>3, <1>4, <1>5, <1>6

\* iptables -I.
IsInserted(t, s, k, e) ==
    /\ Len(t) = Len(s) + 1 /\ DOMAIN t = 1..(Len(s) + 1)
    /\ t[k] = e
    /\ \A i \in 1..(Len(s) + 1) : i < k => t[i] = s[i]
    /\ \A i \in 1..(Len(s) + 1) : i > k => t[i] = s[i - 1]

\* That is what InsertAt returns.
LEMMA Inserted ==
  ASSUME NEW S, NEW s \in Seq(S), NEW e \in S, NEW k \in 1..(Len(s) + 1)
  PROVE  InsertAt(s, k, e) \in Seq(S) /\ IsInserted(InsertAt(s, k, e), s, k, e)
<1> DEFINE a == SubSeq(s, 1, k - 1)
           b == SubSeq(s, k, Len(s))
           c == a \o <<e>>
<1>1. a \in Seq(S) /\ Len(a) = k - 1 /\ \A i \in 1..(k - 1) : a[i] = s[i]
  OBVIOUS
<1>2. b \in Seq(S) /\ Len(b) = Len(s) - k + 1 /\ \A i \in 1..(Len(s) - k + 1) : b[i] = s[k + i - 1]
  OBVIOUS
<1>3. InsertAt(s, k, e) = c \o b
  BY DEF InsertAt
<1> HIDE DEF a, b
<1>4. c \in Seq(S) /\ Len(c) = k /\ c[k] = e /\ \A i \in 1..(k - 1) : c[i] = s[i]
  BY <1>1
<1> HIDE DEF c
<1>5. c \o b \in Seq(S) /\ Len(c \o b) = Len(s) + 1 /\ DOMAIN (c \o b) = 1..(Len(s) + 1)
  <2>0. c \in Seq(S) /\ b \in Seq(S)
    BY <1>2, <1>4
  <2>1. c \o b \in Seq(S)
    BY <2>0
  <2>2. Len(c \o b) = Len(c) + Len(b)
    BY <2>0
  <2>3. Len(c) + Len(b) = Len(s) + 1
    BY <1>2, <1>4
  <2> QED BY <2>1, <2>2, <2>3
<1>6. \A i \in 1..k : (c \o b)[i] = c[i]
  BY <1>2, <1>4
<1>7. ASSUME NEW i \in 1..(Len(s) + 1), i > k PROVE (c \o b)[i] = s[i - 1]
  <2>1. (c \o b)[i] = b[i - k]
    BY <1>2, <1>4, <1>7
  <2>2. i - k \in 1..(Len(s) - k + 1) /\ k + (i - k) - 1 = i - 1
    BY <1>7
  <2> QED BY <1>2, <2>1, <2>2
<1>8. (c \o b)[k] = e /\ \A i \in 1..(Len(s) + 1) : i < k => (c \o b)[i] = s[i]
  BY <1>4, <1>6
<1> QED BY <1>3, <1>5, <1>7, <1>8 DEF IsInserted

-----------------------------------------------------------------------------
(***************************************************************************)
(* Types.                                                                  *)
(***************************************************************************)
Matches == [found : BOOLEAN, line : Ours, lineNumber : 0..MaxRules, chainExists : BOOLEAN]

\* The table.
TypeTable == chainExists \in BOOLEAN /\ elsewhere \in Ours \cup {"none"} /\ rules \in Seq(Rules) /\ Len(rules) <= MaxRules

\* Remove writes only after it has found a rule, and a rule that is found has a
\* number: -D is never given line 0.
TypeOp ==
    /\ owned \in Ours \cup {"none"}
    /\ pc \in {"idle", "read", "create", "apply", "verify"}
    /\ op \in {"ensure", "remove"}
    /\ result \in {"none", "ok", "error", "conflict"}
    /\ match \in Matches
    /\ match.found => match.lineNumber # 0
    /\ pc = "apply" /\ op = "remove" => match.found
    /\ pc = "create" => op = "ensure"

\* The run, and the operation within it.
TypeRun ==
    /\ edits \in 0..MaxEdits
    /\ stage \in {"idle", "report", "scan", "ensure"} \cup Checks /\ supported \in BOOLEAN
    /\ stage \in {"scan", "ensure"} => supported
    /\ pc # "idle" /\ op = "ensure" => stage = "ensure"

\* The invariant.
RunInv == TypeTable /\ TypeOp /\ TypeRun

(***************************************************************************)
(* The place of the marker, if the others keep their rules before it and   *)
(* insert none while an operation is under way.  Ensure and Remove use the *)
(* number of the last rule for the number of the marker: that is right as  *)
(* long as the marker is the last rule, also when rules were deleted after *)
(* the table was read, since then the number is too large and the command  *)
(* fails.                                                                  *)
(***************************************************************************)
LastInv ==
    /\ \A i \in Carrying : i = Len(rules)
    /\ pc \in {"create", "apply"} /\ op = "ensure" /\ ~match.found => Carrying = {}
    /\ pc = "create" => ~match.found
    /\ pc = "apply" /\ match.found =>
        \/ match.lineNumber > Len(rules)
        \/ match.lineNumber = Len(rules) /\ Len(rules) \in Carrying

-----------------------------------------------------------------------------
\* The invariant contains the types.
LEMMA RunInvTypes == RunInv => RunTypeOK
<1> SUFFICES ASSUME RunInv PROVE RunTypeOK
  OBVIOUS
<1>1. rules \in BoundedSeq(Rules, MaxRules)
  BY Bounded, ConstantsAssumption DEF RunInv, TypeTable
<1>2. TypeOK
  BY <1>1 DEF RunInv, TypeTable, TypeOp, TypeRun, Matches, TypeOK
<1> QED BY <1>2 DEF RunInv, TypeRun, RunTypeOK

\* It holds at first.
LEMMA RunInitInv == RunInit => RunInv /\ LastInv
<1> SUFFICES ASSUME RunInit PROVE RunInv /\ LastInv
  OBVIOUS
<1>1. TypeTable
  <2>1. rules \in Seq(Rules) /\ Len(rules) <= MaxRules
    BY ConstantsAssumption DEF RunInit, Init
  <2> QED BY <2>1 DEF RunInit, Init, TypeTable
<1>2. match = NoMatch /\ NoMatch \in Matches /\ NoMatch.found = FALSE
  BY ConstantsAssumption DEF RunInit, Init, NoMatch, Matches, Ours
<1>3. TypeOp
  BY <1>2 DEF RunInit, Init, TypeOp
<1>4. TypeRun
  BY ConstantsAssumption DEF RunInit, Init, TypeRun
<1>5. LastInv
  BY DEF RunInit, Init, LastInv, Carrying
<1> QED BY <1>1, <1>3, <1>4, <1>5 DEF RunInv

\* What reading the table returns.
LEMMA ReadMatchType ==
  ASSUME TypeTable
  PROVE  /\ ReadMatch \in Matches /\ ReadMatch.lineNumber = Len(rules)
         /\ ReadMatch.found <=> Carrying # {}
         /\ ReadMatch.found => Len(rules) # 0
<1>1. Len(rules) \in 0..MaxRules /\ DOMAIN rules = 1..Len(rules)
  BY ConstantsAssumption DEF TypeTable
<1>2. (IF Carrying = {} THEN "marker" ELSE rules[CHOOSE i \in Carrying : TRUE]) \in Ours
  <2>1. Carrying # {} => (CHOOSE i \in Carrying : TRUE) \in Carrying
    OBVIOUS
  <2> QED BY <2>1 DEF Carrying, Ours
<1>3. Carrying # {} => Len(rules) # 0
  BY <1>1 DEF Carrying
<1>4. chainExists \in BOOLEAN /\ (Carrying # {}) \in BOOLEAN
  BY DEF TypeTable
<1>5. ReadMatch \in Matches
  BY <1>1, <1>2, <1>4 DEF ReadMatch, Matches
<1>6. ReadMatch.lineNumber = Len(rules) /\ (ReadMatch.found <=> Carrying # {})
  BY DEF ReadMatch
<1> QED BY <1>3, <1>5, <1>6

\* An operation that returns.
LEMMA Finishes ==
  ASSUME TypeOp, NEW res \in {"ok", "error", "conflict"}, Finish(res), owned' \in Ours \cup {"none"}
  PROVE  TypeOp' /\ pc' = "idle" /\ op' = op
BY DEF TypeOp, Finish

\* What Ensure or Remove has in hand after reading.
LEMMA ReadOp ==
  ASSUME TypeTable, TypeOp, Read
  PROVE  TypeOp' /\ op' = op
<1>1. CASE \E res \in {"ok", "error", "conflict"} : Finish(res) /\ owned' \in Ours \cup {"none"}
  BY <1>1, Finishes
<1>2. CASE /\ match' = ReadMatch /\ pc' \in {"apply", "create"} /\ UNCHANGED <<op, result, owned>>
           /\ pc' = "apply" /\ op = "remove" => ReadMatch.found
           /\ pc' = "create" => op = "ensure"
  <2>1. match' \in Matches /\ (match'.found => match'.lineNumber # 0)
    BY <1>2, ReadMatchType
  <2> QED BY <1>2, <2>1 DEF TypeOp
<1> QED BY <1>1, <1>2 DEF Read, TypeOp, Ours

\* The later steps of an operation.
LEMMA OtherOps ==
  ASSUME TypeTable, TypeOp, Create \/ Apply \/ Verify \/ CommandFails
  PROVE  TypeOp' /\ op' = op
<1>1. CASE \E res \in {"ok", "error", "conflict"} : Finish(res) /\ owned' \in Ours \cup {"none"}
  BY <1>1, Finishes
<1>2. CASE pc = "create" /\ pc' = "apply" /\ UNCHANGED <<op, match, result, owned>>
  BY <1>2 DEF TypeOp
<1>3. CASE pc' = "verify" /\ UNCHANGED <<op, match, result, owned>>
  BY <1>3 DEF TypeOp
<1> QED BY <1>1, <1>2, <1>3 DEF Create, Apply, Verify, CommandFails, TypeOp, Ours

\* The manager's steps keep the chain a chain.
LEMMA ManagerTable ==
  ASSUME TypeTable, TypeOp, ManagerStep \/ CommandFails
  PROVE  TypeTable'
<1>1. CASE UNCHANGED <<rules, elsewhere>> /\ chainExists' \in BOOLEAN
  BY <1>1 DEF TypeTable
<1>2. CASE Apply
  <2>1. UNCHANGED <<chainExists, elsewhere>>
    BY <1>2 DEF Apply
  <2>2. /\ rules \in Seq(Rules) /\ "marker" \in Rules /\ Len(rules) \in Nat /\ match.lineNumber \in Nat
        /\ DOMAIN rules = 1..Len(rules)
    BY DEF TypeTable, TypeOp, Matches, Rules, Ours
  <2>3. CASE /\ match.found /\ match.lineNumber <= Len(rules)
             /\ rules' = [rules EXCEPT ![match.lineNumber] = "marker"]
    <3>0. match.lineNumber \in 1..Len(rules)
      BY <2>2, <2>3 DEF TypeOp
    <3>1. rules' \in Seq(Rules) /\ Len(rules') = Len(rules)
      BY <2>2, <2>3, <3>0, Replaced
    <3> QED BY <2>1, <3>1 DEF TypeTable
  <2>4. CASE Len(rules) < MaxRules /\ rules' = Append(rules, "marker")
    <3>1. rules' \in Seq(Rules) /\ Len(rules') = Len(rules) + 1
      BY <2>2, <2>4
    <3> QED BY <2>1, <2>2, <2>4, <3>1, ConstantsAssumption DEF TypeTable
  <2>5. CASE op = "remove" /\ match.lineNumber <= Len(rules) /\ rules' = RemoveAt(rules, match.lineNumber)
    <3>0. match.lineNumber # 0
      BY <1>2, <2>5 DEF Apply, TypeOp
    <3>1. match.lineNumber \in 1..Len(rules)
      BY <2>2, <2>5, <3>0
    <3>2. /\ RemoveAt(rules, match.lineNumber) \in Seq(Rules)
          /\ Len(RemoveAt(rules, match.lineNumber)) = Len(rules) - 1
      BY <2>2, <3>1, Removed, Zenon
    <3>3. rules' \in Seq(Rules) /\ Len(rules') = Len(rules) - 1
      BY <2>5, <3>2
    <3> QED BY <2>1, <2>2, <3>3, ConstantsAssumption DEF TypeTable
  <2>6. CASE UNCHANGED rules
    BY <2>1, <2>6 DEF TypeTable
  <2> QED BY <1>2, <2>3, <2>4, <2>5, <2>6 DEF Apply
<1> QED BY <1>1, <1>2 DEF ManagerStep, Read, Create, Verify, CommandFails, TypeTable, tableVars

\* So do the edits of others.
LEMMA EditTable ==
  ASSUME TypeTable, Edit
  PROVE  TypeTable'
<1>1. UNCHANGED elsewhere /\ \E kind \in EditKinds : EditRules(kind)
  BY DEF Edit
<1>2. rules \in Seq(Rules) /\ Len(rules) \in Nat /\ "stale" \in Rules /\ DOMAIN rules = 1..Len(rules)
  BY DEF TypeTable, Rules, Ours
<1>3. chainExists' \in BOOLEAN
  BY <1>1 DEF EditRules, TypeTable
<1>4. CASE UNCHANGED rules
  BY <1>1, <1>3, <1>4 DEF TypeTable
<1>5. ASSUME NEW r \in ForeignRules, NEW i \in 1..(Len(rules) + 1), rules' = InsertAt(rules, i, r), Len(rules) < MaxRules - 1
      PROVE  TypeTable'
  <2>0. r \in Rules
    BY DEF Rules
  <2>1. rules' \in Seq(Rules) /\ Len(rules') = Len(rules) + 1
    BY <1>2, <1>5, <2>0, Inserted DEF IsInserted
  <2> QED BY <1>1, <1>2, <1>3, <1>5, <2>1, ConstantsAssumption DEF TypeTable
<1>6. ASSUME NEW i \in DOMAIN rules, rules' = RemoveAt(rules, i) PROVE TypeTable'
  <2>1. rules' \in Seq(Rules) /\ Len(rules') = Len(rules) - 1
    BY <1>2, <1>6, Removed
  <2> QED BY <1>1, <1>2, <1>3, <2>1, ConstantsAssumption DEF TypeTable
<1>7. ASSUME NEW i \in Carrying, rules' = [rules EXCEPT ![i] = "stale"] PROVE TypeTable'
  <2>0. i \in 1..Len(rules)
    BY <1>2 DEF Carrying
  <2>1. rules' \in Seq(Rules) /\ Len(rules') = Len(rules)
    BY <1>2, <1>7, <2>0, Replaced
  <2> QED BY <1>1, <1>3, <2>1 DEF TypeTable
<1> QED BY <1>1, <1>4, <1>5, <1>6, <1>7 DEF EditRules

\* Steps of a run that use neither the table nor the manager.
LEMMA RunStays ==
  ASSUME RunInv, UNCHANGED <<tableVars, opVars>>, TypeRun'
  PROVE  RunInv'
<1>1. TypeTable'
  BY DEF RunInv, TypeTable, tableVars
<1>2. TypeOp'
  BY DEF RunInv, TypeOp, opVars
<1> QED BY <1>1, <1>2 DEF RunInv

\* A check of the preflight.
LEMMA CheckedInv ==
  ASSUME RunInv, NEW ok \in BOOLEAN, NEW check \in Checks, NEW next \in Checks \cup {"report"},
         Checked(check, ok, next), edits' \in 0..MaxEdits
  PROVE  RunInv'
<1>1. supported' \in BOOLEAN
  BY DEF Checked, RunInv, TypeRun
<1>2. pc' = pc /\ op' = op /\ stage = check /\ stage' = next /\ stage # "ensure"
  BY DEF Checked, opVars, Checks
<1>3. ~(pc' # "idle" /\ op' = "ensure")
  BY <1>2 DEF RunInv, TypeRun
<1>4. TypeRun'
  BY <1>1, <1>2, <1>3 DEF TypeRun, Checks
<1> QED BY <1>4, RunStays DEF Checked

\* A step of a run.
LEMMA StageInv ==
  ASSUME RunInv, StartRun \/ RunStep \/ RunFails
  PROVE  RunInv'
<1>0. edits \in 0..MaxEdits /\ TypeRun /\ hasReservedTOSConflict \in BOOLEAN
  BY DEF RunInv, TypeRun, hasReservedTOSConflict
<1>1. edits < MaxEdits => edits + 1 \in 0..MaxEdits
  BY <1>0, ConstantsAssumption
<1>2. CASE StartRun
  <2>1. TypeRun'
    BY <1>0, <1>2 DEF StartRun, TypeRun, vars, opVars, Checks
  <2> QED BY <1>2, <2>1, RunStays DEF StartRun, vars
<1>3. ASSUME NEW check \in Checks, NEW next \in Checks, Probed(check, next) PROVE RunInv'
  <2>1. edits' \in 0..MaxEdits
    BY <1>0, <1>1, <1>3 DEF Probed
  <2> QED BY <1>3, <2>1, CheckedInv DEF Probed
<1>4. CASE CheckHost \/ CheckKernel \/ CheckIPv4
  BY <1>3, <1>4 DEF CheckHost, CheckKernel, CheckIPv4, Checks
<1>5. CASE CheckTOS
  BY <1>0, <1>5, CheckedInv DEF CheckTOS, Checks
<1>6. CASE CheckExternalConflicts
  BY <1>0, <1>6, CheckedInv DEF CheckExternalConflicts, Checks
<1>7. CASE Report
  <2>1. TypeRun'
    BY <1>0, <1>7 DEF Report, TypeRun, vars, opVars
  <2> QED BY <1>7, <2>1, RunStays DEF Report, vars
<1>8. CASE ScanRules
  <2>1. CASE stage' = "idle" /\ UNCHANGED vars
    <3>1. TypeRun'
      BY <1>0, <1>8, <2>1 DEF ScanRules, TypeRun, vars, opVars
    <3> QED BY <2>1, <3>1, RunStays DEF vars
  <2>2. CASE stage' = "ensure" /\ BeginEnsure
    <3>1. TypeRun'
      BY <1>0, <1>8, <2>2 DEF ScanRules, TypeRun, BeginEnsure
    <3>2. TypeTable' /\ TypeOp'
      BY <2>2 DEF RunInv, TypeTable, TypeOp, BeginEnsure, tableVars
    <3> QED BY <3>1, <3>2 DEF RunInv
  <2> QED BY <1>8, <2>1, <2>2 DEF ScanRules
<1>9. CASE RunFails
  <2>1. TypeRun'
    BY <1>0, <1>1, <1>9 DEF RunFails, TypeRun, opVars
  <2> QED BY <1>9, <2>1, RunStays DEF RunFails
<1> QED BY <1>2, <1>4, <1>5, <1>6, <1>7, <1>8, <1>9 DEF RunStep

\* Every step.
LEMMA RunNextInv == RunInv /\ [RunNext]_runVars => RunInv'
<1> SUFFICES ASSUME RunInv, [RunNext]_runVars PROVE RunInv'
  OBVIOUS
<1>0. TypeTable /\ TypeOp /\ TypeRun /\ edits \in 0..MaxEdits
  BY DEF RunInv, TypeRun
<1>1. edits < MaxEdits => edits + 1 \in 0..MaxEdits
  BY <1>0, ConstantsAssumption
<1>2. CASE StartRun \/ RunStep \/ RunFails
  BY <1>2, StageInv
<1>3. CASE RemoveMarker
  <2>1. TypeRun'
    BY <1>0, <1>1, <1>3 DEF RemoveMarker, BeginRemove, TypeRun, preflightVars
  <2>2. TypeTable' /\ TypeOp'
    BY <1>0, <1>3 DEF RemoveMarker, BeginRemove, TypeTable, TypeOp, tableVars
  <2> QED BY <2>1, <2>2 DEF RunInv
<1>4. CASE (ManagerStep \/ CommandFails) /\ Ends
  <2>1. TypeOp' /\ op' = op /\ TypeTable'
    BY <1>0, <1>4, ReadOp, OtherOps, ManagerTable DEF ManagerStep
  <2>2. pc # "idle" /\ edits' \in 0..MaxEdits
    BY <1>0, <1>1, <1>4 DEF ManagerStep, CommandFails, Read, Create, Apply, Verify
  <2>3. TypeRun'
    BY <1>0, <1>4, <2>1, <2>2 DEF Ends, TypeRun
  <2> QED BY <2>1, <2>3 DEF RunInv
<1>5. CASE (Edit \/ CopyElsewhere) /\ UNCHANGED preflightVars
  <2>1. TypeTable'
    BY <1>0, <1>5, EditTable DEF CopyElsewhere, TypeTable
  <2>2. UNCHANGED opVars /\ edits' \in 0..MaxEdits
    BY <1>0, <1>1, <1>5 DEF Edit, CopyElsewhere
  <2>3. TypeOp'
    BY <1>0, <2>2 DEF TypeOp, opVars
  <2>4. TypeRun'
    BY <1>0, <1>5, <2>2 DEF TypeRun, opVars, preflightVars
  <2> QED BY <2>1, <2>3, <2>4 DEF RunInv
<1>6. CASE UNCHANGED runVars
  <2>1. TypeRun'
    BY <1>0, <1>6 DEF TypeRun, runVars, vars, opVars, preflightVars
  <2> QED BY <1>6, <2>1, RunStays DEF runVars, vars
<1> QED BY <1>2, <1>3, <1>4, <1>5, <1>6 DEF RunNext

\* In every reachable state.
LEMMA RunReachable == RunSpec => []RunInv
<1>1. RunInit => RunInv
  BY RunInitInv
<1> QED BY <1>1, RunNextInv, PTL DEF RunSpec

\* Every variable keeps its type, only a run that got past the preflight is
\* inside Ensure, and no command of the manager makes the chain anything but a
\* chain, whatever others do to it at any time.
THEOREM TypeCorrect == RunSpec => []RunTypeOK
BY RunReachable, RunInvTypes, PTL

-----------------------------------------------------------------------------
(***************************************************************************)
(* The marker is last.                                                     *)
(***************************************************************************)

\* The positions of a chain.
LEMMA ChainType ==
  ASSUME TypeTable
  PROVE  rules \in Seq(Rules) /\ Len(rules) \in Nat /\ DOMAIN rules = 1..Len(rules)
BY DEF TypeTable

\* Nobody touches the chain, and no operation is about to write.
LEMMA LastRests ==
  ASSUME LastInv, UNCHANGED rules, pc' \in {"idle", "read", "verify"} \/ (UNCHANGED <<pc, op, match>>)
  PROVE  LastInv'
BY DEF LastInv, Carrying

\* Reading: the number of rules is the number of the marker, if there is one.
LEMMA LastRead ==
  ASSUME RunInv, LastInv, Read
  PROVE  LastInv'
<1>1. UNCHANGED rules /\ Carrying' = Carrying /\ TypeTable
  BY DEF Read, tableVars, Carrying, RunInv
<1>2. CASE pc' = "idle"
  BY <1>1, <1>2, LastRests
<1>3. CASE match' = ReadMatch /\ pc' = (IF ReadMatch.found \/ ReadMatch.chainExists THEN "apply" ELSE "create")
  <2>1. match'.lineNumber = Len(rules) /\ (match'.found <=> Carrying # {})
    BY <1>1, <1>3, ReadMatchType
  <2>2. Carrying # {} => Len(rules) \in Carrying
    BY DEF LastInv
  <2>3. pc' = "create" => ~match'.found
    BY <1>3
  <2> QED BY <1>1, <2>1, <2>2, <2>3 DEF LastInv
<1>4. CASE match' = ReadMatch /\ pc' = "apply" /\ ReadMatch.found
  <2>1. match'.lineNumber = Len(rules) /\ (match'.found <=> Carrying # {})
    BY <1>1, <1>4, ReadMatchType
  <2>2. Carrying # {} => Len(rules) \in Carrying
    BY DEF LastInv
  <2> QED BY <1>1, <1>4, <2>1, <2>2 DEF LastInv
<1> QED BY <1>2, <1>3, <1>4 DEF Read, Finish

\* Every write of the manager is to the end of the chain: it replaces or removes
\* the marker, or appends one where there was none.
WriteAt(n, m, k) ==
    /\ DOMAIN rules = 1..m /\ Len(rules) = m
    /\ DOMAIN rules' = 1..k /\ Len(rules') = k
    /\ m \in {n, n + 1} /\ k \in {n, n + 1}
    /\ \A i \in 1..n : rules'[i] = rules[i] /\ rules[i] \notin Ours
    /\ m = n + 1 => rules[m] \in Ours
    /\ k = n + 1 => rules'[k] = "marker"

\* Every write is one.
LEMMA WritesLast ==
  ASSUME RunInv, LastInv, Apply, rules' # rules
  PROVE  \E n, m, k \in Nat : WriteAt(n, m, k)
<1>1. /\ rules \in Seq(Rules) /\ match.lineNumber \in Nat /\ "marker" \in Rules
  BY ChainType DEF RunInv, TypeOp, Matches, Rules, Ours
<1>2. PICK m \in Nat : m = Len(rules) /\ DOMAIN rules = 1..m
  BY <1>1
<1>3. \A i \in 1..m : rules[i] \in Ours => i = m
  BY <1>2 DEF LastInv, Carrying
<1>4. ASSUME match.found, match.lineNumber <= Len(rules)
      PROVE  match.lineNumber = m /\ m \in 1..m /\ m - 1 \in Nat /\ rules[m] \in Ours
  <2>1. pc = "apply"
    BY DEF Apply
  <2>2. match.lineNumber = m /\ m \in Carrying
    BY <1>1, <1>2, <1>4, <2>1 DEF LastInv
  <2> QED BY <1>2, <2>2 DEF Carrying
<1>5. ASSUME m \in 1..m PROVE \A i \in 1..(m - 1) : i \in 1..m /\ i # m /\ rules[i] \notin Ours
  BY <1>3
<1>6. CASE match.found /\ match.lineNumber <= Len(rules) /\ rules' = [rules EXCEPT ![match.lineNumber] = "marker"]
  <2>1. /\ m \in 1..Len(rules) /\ rules' = [rules EXCEPT ![m] = "marker"]
    BY <1>2, <1>4, <1>6
  <2>2. /\ Len(rules') = Len(rules) /\ DOMAIN rules' = 1..Len(rules) /\ rules'[m] = "marker"
        /\ \A i \in 1..Len(rules) : i # m => rules'[i] = rules[i]
    BY <1>1, <2>1, Replaced
  <2>3. /\ Len(rules') = m /\ DOMAIN rules' = 1..m /\ rules'[m] = "marker"
        /\ \A i \in 1..m : i # m => rules'[i] = rules[i]
    BY <1>2, <2>2
  <2>4. WriteAt(m - 1, m, m)
    BY <1>2, <1>4, <1>5, <1>6, <2>3 DEF WriteAt
  <2> QED BY <1>4, <1>6, <2>4
<1>7. CASE op = "ensure" /\ ~match.found /\ rules' = Append(rules, "marker")
  <2>1. /\ Len(rules') = m + 1 /\ DOMAIN rules' = 1..(m + 1) /\ rules'[m + 1] = "marker"
        /\ \A i \in 1..m : rules'[i] = rules[i]
    BY <1>1, <1>2, <1>7
  <2>2. \A i \in 1..m : rules[i] \notin Ours
    BY <1>2, <1>7 DEF Apply, LastInv, Carrying
  <2>3. WriteAt(m, m, m + 1)
    BY <1>2, <2>1, <2>2 DEF WriteAt
  <2> QED BY <2>3
<1>8. CASE op = "remove" /\ match.lineNumber <= Len(rules) /\ rules' = RemoveAt(rules, match.lineNumber)
  <2>1. match.found
    BY <1>8 DEF Apply, RunInv, TypeOp
  <2>2. /\ m \in 1..Len(rules) /\ rules' = RemoveAt(rules, m)
    BY <1>2, <1>4, <1>8, <2>1
  <2>3. /\ Len(rules') = Len(rules) - 1 /\ DOMAIN rules' = 1..(Len(rules) - 1)
        /\ \A i \in 1..(Len(rules) - 1) : i < m => rules'[i] = rules[i]
    BY <1>1, <2>2, Removed
  <2>4. /\ Len(rules') = m - 1 /\ DOMAIN rules' = 1..(m - 1)
        /\ \A i \in 1..(m - 1) : rules'[i] = rules[i]
    BY <1>2, <2>3
  <2>5. WriteAt(m - 1, m, m - 1)
    BY <1>2, <1>4, <1>5, <1>8, <2>1, <2>4, SMTT(20) DEF WriteAt
  <2> QED BY <1>4, <1>8, <2>1, <2>5
<1> QED BY <1>6, <1>7, <1>8 DEF Apply

\* So the marker stays the last rule.
LEMMA LastApply ==
  ASSUME RunInv, LastInv, Apply
  PROVE  LastInv'
<1>1. pc' \in {"idle", "verify"}
  BY DEF Apply, Finish
<1>2. CASE rules' = rules
  BY <1>1, <1>2, LastRests
<1>3. CASE rules' # rules
  <2>1. PICK n, m, k \in Nat : WriteAt(n, m, k)
    BY <1>3, WritesLast
  <2>2. \A i \in 1..k : rules'[i] \in Ours => i = k
    <3>1. /\ k \in {n, n + 1}
          /\ \A i \in 1..n : rules'[i] \notin Ours
      BY <2>1 DEF WriteAt
    <3> QED BY <3>1
  <2>3. \A i \in Carrying' : i = Len(rules')
    BY <2>1, <2>2 DEF Carrying, WriteAt
  <2> QED BY <1>1, <2>3 DEF LastInv
<1> QED BY <1>2, <1>3

\* What others do leaves the marker the last rule; a rule that is deleted while
\* an operation is under way makes the number in its hand too large.
LEMMA LastEdit ==
  ASSUME ~BehindMarker, "insert" \notin Concurrent, RunInv, LastInv, Edit
  PROVE  LastInv'
<1>1. UNCHANGED <<pc, op, match>>
  BY DEF Edit, opVars
<1>2. rules \in Seq(Rules) /\ "stale" \in Ours /\ "stale" \in Rules
  BY ChainType DEF RunInv, Ours, Rules
<1>3. PICK m \in Nat : m = Len(rules) /\ DOMAIN rules = 1..m
  BY <1>2
<1>4. \A i \in 1..m : rules[i] \in Ours => i = m
  BY <1>3 DEF LastInv, Carrying
<1>5. CASE UNCHANGED rules
  BY <1>1, <1>5, LastRests
<1>6. ASSUME pc = "idle", NEW r \in ForeignRules, NEW k \in 1..(Len(rules) + 1),
             \A j \in Carrying : k <= j, rules' = InsertAt(rules, k, r)
      PROVE  LastInv'
  <2>1. r \in Rules /\ r \notin Ours /\ k \in 1..(m + 1)
    BY <1>3, ConstantsAssumption DEF Rules
  <2>2. \A j \in 1..m : rules[j] \in Ours => k <= j
    BY <1>3, <1>6 DEF Carrying
  <2>3. /\ DOMAIN rules' = 1..(Len(rules) + 1) /\ Len(rules') = Len(rules) + 1
        /\ rules'[k] = r
        /\ \A i \in 1..(Len(rules) + 1) : i < k => rules'[i] = rules[i]
        /\ \A i \in 1..(Len(rules) + 1) : i > k => rules'[i] = rules[i - 1]
    <3>1. IsInserted(InsertAt(rules, k, r), rules, k, r)
      BY <1>2, <2>1, Inserted
    <3>2. IsInserted(rules', rules, k, r)
      BY <1>6, <3>1
    <3> QED BY <3>2 DEF IsInserted
  <2>4. /\ DOMAIN rules' = 1..(m + 1) /\ Len(rules') = m + 1
        /\ rules'[k] = r
        /\ \A i \in 1..(m + 1) : i < k => rules'[i] = rules[i]
        /\ \A i \in 1..(m + 1) : i > k => rules'[i] = rules[i - 1]
    BY <1>3, <2>3
  <2>5. ASSUME NEW j \in 1..(m + 1), rules'[j] \in Ours PROVE j = m + 1
    <3>1. CASE j < k
      <4>1. j \in 1..m /\ rules'[j] = rules[j]
        BY <2>1, <2>4, <3>1
      <4> QED BY <2>1, <2>2, <2>5, <3>1, <4>1
    <3>2. CASE j = k
      BY <2>1, <2>4, <2>5, <3>2
    <3>3. CASE j > k
      <4>1. j - 1 \in 1..m /\ rules'[j] = rules[j - 1]
        BY <2>1, <2>4, <3>3
      <4> QED BY <1>4, <2>5, <4>1
    <3> QED BY <2>1, <3>1, <3>2, <3>3
  <2>6. \A j \in Carrying' : j = Len(rules')
    BY <2>4, <2>5 DEF Carrying
  <2> QED BY <1>1, <1>6, <2>6 DEF LastInv
<1>7. ASSUME NEW k \in DOMAIN rules, rules' = RemoveAt(rules, k) PROVE LastInv'
  <2>1. k \in 1..Len(rules) /\ k \in 1..m
    BY <1>3, <1>7
  <2>2. /\ DOMAIN rules' = 1..(Len(rules) - 1) /\ Len(rules') = Len(rules) - 1
        /\ \A i \in 1..(Len(rules) - 1) : i < k => rules'[i] = rules[i]
        /\ \A i \in 1..(Len(rules) - 1) : i >= k => rules'[i] = rules[i + 1]
    BY <1>2, <1>7, <2>1, Removed
  <2>3. /\ DOMAIN rules' = 1..(m - 1) /\ Len(rules') = m - 1
        /\ \A i \in 1..(m - 1) : i < k => rules'[i] = rules[i]
        /\ \A i \in 1..(m - 1) : i >= k => rules'[i] = rules[i + 1]
    BY <1>3, <2>2
  <2>4. ASSUME NEW j \in 1..(m - 1), rules'[j] \in Ours
        PROVE  j = m - 1 /\ \E i \in 1..m : rules[i] \in Ours
    <3>1. CASE j < k
      <4>1. j \in 1..m /\ j # m /\ rules'[j] = rules[j]
        BY <2>3, <3>1
      <4> QED BY <1>4, <2>4, <4>1
    <3>2. CASE j >= k
      <4>1. j + 1 \in 1..m /\ rules'[j] = rules[j + 1]
        BY <2>3, <3>2
      <4> QED BY <1>4, <2>4, <4>1
    <3> QED BY <2>1, <3>1, <3>2
  <2>5. /\ \A j \in Carrying' : j = Len(rules')
        /\ Carrying = {} => Carrying' = {}
    BY <1>3, <2>3, <2>4 DEF Carrying
  <2>6. ASSUME pc = "apply", match.found PROVE match.lineNumber > Len(rules')
    <3>1. match.lineNumber \in Nat
      BY DEF RunInv, TypeOp, Matches
    <3>2. match.lineNumber > m \/ match.lineNumber = m
      BY <1>3, <2>6 DEF LastInv
    <3>3. match.lineNumber > m - 1
      BY <3>1, <3>2
    <3> QED BY <2>3, <3>3
  <2> QED BY <1>1, <2>5, <2>6 DEF LastInv
<1>8. ASSUME NEW k \in Carrying, rules' = [rules EXCEPT ![k] = "stale"] PROVE LastInv'
  <2>1. k \in 1..Len(rules)
    BY <1>3, <1>8 DEF Carrying
  <2>2. /\ DOMAIN rules' = 1..Len(rules) /\ Len(rules') = Len(rules)
        /\ rules'[k] = "stale" /\ \A i \in 1..Len(rules) : i # k => rules'[i] = rules[i]
    BY <1>2, <1>8, <2>1, Replaced
  <2>3. /\ DOMAIN rules' = 1..m
        /\ rules'[k] = "stale" /\ \A i \in 1..m : i # k => rules'[i] = rules[i]
    BY <1>3, <2>2
  <2>4. Carrying' = Carrying
    BY <1>2, <1>3, <1>8, <2>3 DEF Carrying
  <2> QED BY <1>1, <2>2, <2>4 DEF LastInv
<1> QED BY <1>5, <1>6, <1>7, <1>8 DEF Edit, EditRules

\* Every step.
LEMMA LastNext ==
  ASSUME ~BehindMarker, "insert" \notin Concurrent, RunInv, RunInv', LastInv, [RunNext]_runVars
  PROVE  LastInv'
<1>1. CASE UNCHANGED <<rules, pc, op, match>>
  BY <1>1, LastRests
<1>2. CASE Verify \/ CommandFails
  <2>1. UNCHANGED rules /\ pc' = "idle"
    BY <1>2 DEF Verify, CommandFails, Finish, tableVars
  <2> QED BY <2>1, LastRests
<1>3. CASE BeginEnsure \/ BeginRemove
  BY <1>3, LastRests DEF BeginEnsure, BeginRemove, tableVars
<1>4. CASE Create
  <2>1. UNCHANGED rules /\ Carrying' = Carrying /\ pc = "create"
    BY <1>4 DEF Create, Carrying
  <2>2. CASE pc' = "apply" /\ UNCHANGED <<op, match, result>>
    BY <2>1, <2>2 DEF LastInv
  <2>3. CASE pc' = "idle"
    BY <2>1, <2>3, LastRests
  <2> QED BY <1>4, <2>2, <2>3 DEF Create, Finish
<1>5. CASE Edit
  BY <1>5, LastEdit
<1>6. CASE StartRun \/ RunStep \/ RunFails \/ RemoveMarker \/ CopyElsewhere \/ UNCHANGED runVars
  <2>1. \/ UNCHANGED <<rules, pc, op, match>>
        \/ BeginEnsure \/ BeginRemove
    BY <1>6 DEF StartRun, RunStep, RunFails, RemoveMarker, CopyElsewhere, runVars, CheckHost, CheckKernel, CheckIPv4,
       CheckTOS, CheckExternalConflicts, Probed, Checked, Report, ScanRules, vars, tableVars, opVars
  <2> QED BY <1>1, <1>3, <2>1
<1> QED BY <1>2, <1>4, <1>5, <1>6, LastRead, LastApply DEF RunNext, ManagerStep

\* In every reachable state.
LEMMA LastReachable ==
  ASSUME ~BehindMarker, "insert" \notin Concurrent
  PROVE  RunSpec => [](RunInv /\ LastInv)
<1>1. RunInv /\ RunInv' /\ LastInv /\ [RunNext]_runVars => LastInv'
  BY LastNext
<1> QED BY <1>1, RunInitInv, RunNextInv, PTL DEF RunSpec

\* The chain never holds two rules with the agent's comment, whatever others
\* delete, change or copy between its reads and its writes, if they keep their
\* rules before the marker and insert them between operations.
THEOREM Unique ==
  ASSUME ~BehindMarker, "insert" \notin Concurrent
  PROVE  RunSpec => []MarkerUnique
<1>1. LastInv => MarkerUnique
  BY DEF LastInv, MarkerUnique
<1> QED BY <1>1, LastReachable, PTL

-----------------------------------------------------------------------------
\* A write to the end of the chain, where no foreign rule is, keeps the foreign
\* rules and their order.
LEMMA OrderKept ==
  ASSUME RunInv, LastInv, Apply
  PROVE  ForeignOrder' = ForeignOrder
<1>1. CASE rules' = rules
  BY <1>1 DEF ForeignOrder
<1>2. CASE rules' # rules
  <2>1. PICK n, m, k \in Nat : WriteAt(n, m, k)
    BY <1>2, WritesLast
  <2>2. /\ DOMAIN rules = 1..m /\ DOMAIN rules' = 1..k
        /\ m \in {n, n + 1} /\ k \in {n, n + 1}
        /\ \A i \in 1..n : rules'[i] = rules[i] /\ rules[i] \notin Ours
        /\ m = n + 1 => rules[m] \in Ours
        /\ k = n + 1 => rules'[k] \in Ours
    BY <2>1 DEF WriteAt, Ours
  <2>3. \A i \in DOMAIN rules : rules[i] \in ForeignRules => i \in 1..n
    BY <2>2, ConstantsAssumption
  <2>4. \A i \in DOMAIN rules' : rules'[i] \in ForeignRules => i \in 1..n
    BY <2>2, ConstantsAssumption
  <2>5. 1..n \subseteq DOMAIN rules /\ 1..n \subseteq DOMAIN rules'
    BY <2>2
  <2>6. ASSUME NEW p \in ForeignRules \X ForeignRules
        PROVE  p \in ForeignOrder <=> p \in ForeignOrder'
    <3>1. p[1] \in ForeignRules /\ p[2] \in ForeignRules
      OBVIOUS
    <3>2. p \in ForeignOrder <=> \E i, j \in 1..n : i <= j /\ rules[i] = p[1] /\ rules[j] = p[2]
      BY <2>3, <2>5, <3>1 DEF ForeignOrder
    <3>3. p \in ForeignOrder' <=> \E i, j \in 1..n : i <= j /\ rules'[i] = p[1] /\ rules'[j] = p[2]
      BY <2>4, <2>5, <3>1 DEF ForeignOrder
    <3> QED BY <2>2, <3>2, <3>3
  <2> QED BY <2>6 DEF ForeignOrder
<1> QED BY <1>1, <1>2

\* Neither Ensure nor Remove ever changes, removes or reorders a rule of another
\* owner, under the same two conditions, although both address the marker by
\* the number of the last rule of a chain that others shorten meanwhile.
THEOREM ForeignKept ==
  ASSUME ~BehindMarker, "insert" \notin Concurrent
  PROVE  RunSpec => ForeignRulesKept
<1>1. RunInv /\ RunInv' /\ LastInv /\ [RunNext]_runVars => [pc' # pc => ForeignOrder' = ForeignOrder]_vars
  <2> SUFFICES ASSUME RunInv, RunInv', LastInv, [RunNext]_runVars, pc' # pc PROVE ForeignOrder' = ForeignOrder
    OBVIOUS
  <2>1. CASE rules' = rules
    BY <2>1 DEF ForeignOrder
  <2>2. CASE rules' # rules
    <3>1. Apply
      BY <2>2 DEF RunNext, StartRun, RunStep, RunFails, RemoveMarker, CopyElsewhere, runVars, CheckHost, CheckKernel,
         CheckIPv4, CheckTOS, CheckExternalConflicts, Probed, Checked, Report, ScanRules, vars, tableVars, opVars,
         BeginEnsure, BeginRemove, ManagerStep, CommandFails, Read, Create, Verify, Edit
    <3> QED BY <3>1, OrderKept
  <2> QED BY <2>1, <2>2
<1> QED BY <1>1, LastReachable, PTL DEF RunSpec, ForeignRulesKept
==============================================================================
