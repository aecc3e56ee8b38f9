----------------------------- MODULE MarkerRule -----------------------------
(***************************************************************************)
(* MarkerRuleManager: the agent's one rule in a chain of the mangle table. *)
(*                                                                         *)
(* Ensure and Remove read the table (iptables-nft -S), decide, write one   *)
(* command and read again.  Other users of iptables edit the same chain.   *)
(* A rule is "marker" (the desired line), "stale" (the same comment with   *)
(* another body) or a rule of somebody else.                               *)
(***************************************************************************)
EXTENDS Integers, Sequences, SequencesExt

CONSTANTS
    ForeignRules,  \* rules of other owners
    BehindMarker,  \* others may have rules behind the marker
    Concurrent,    \* kinds of edits others may make while an operation is under way
    MaxRules, MaxEdits  \* bounds: length of the chain, edits of others and failed commands

Ours == {"marker", "stale"}
EditKinds == {"create", "insert", "delete", "change"}

ASSUME ConstantsAssumption ==
    /\ ForeignRules \cap Ours = {}
    /\ BehindMarker \in BOOLEAN /\ Concurrent \subseteq EditKinds
    /\ MaxRules \in Nat /\ MaxEdits \in Nat

Rules == Ours \cup ForeignRules

VARIABLES
    chainExists,  \* the chain has been created
    rules,        \* its rules, in order
    elsewhere,    \* a rule with the comment in another chain, or "none"
    owned,        \* fingerprint of the rule the ownership state records
    pc, op, match,
    result,       \* of the last finished operation
    edits

tableVars == <<chainExists, rules, elsewhere>>
opVars == <<pc, op, match, result, owned>>
vars == <<tableVars, opVars, edits>>

NoMatch == [found |-> FALSE, line |-> "marker", lineNumber |-> 0, chainExists |-> FALSE]

\* Every variable has its type.
TypeOK ==
    /\ chainExists \in BOOLEAN /\ elsewhere \in Ours \cup {"none"}
    /\ rules \in BoundedSeq(Rules, MaxRules)
    /\ owned \in Ours \cup {"none"}
    /\ pc \in {"idle", "read", "create", "apply", "verify"}
    /\ op \in {"ensure", "remove"}
    /\ match \in [found : BOOLEAN, line : Ours, lineNumber : 0..MaxRules, chainExists : BOOLEAN]
    /\ result \in {"none", "ok", "error", "conflict"}
    /\ edits \in 0..MaxEdits

Init ==
    /\ chainExists = FALSE /\ rules = <<>> /\ elsewhere = "none"
    /\ owned = "none"
    /\ pc = "idle" /\ op = "ensure" /\ match = NoMatch /\ result = "none"
    /\ edits = 0

-----------------------------------------------------------------------------
(***************************************************************************)
(* readMarkerRule.                                                         *)
(***************************************************************************)
Carrying == {i \in DOMAIN rules : rules[i] \in Ours}

\* The comment in another chain, or twice in this one, is a conflict.
ReadConflict == elsewhere # "none" \/ \E i, j \in Carrying : i # j

\* Mutant: the line is remembered before the comment is looked for.
ReadMatchAnyLine ==
    [found |-> Carrying # {},
     line |-> IF rules = <<>> THEN "marker" ELSE Last(rules),
     lineNumber |-> Len(rules),
     chainExists |-> chainExists]

\* Mutant: the counter starts again at every rule.
ReadMatchFirstLine ==
    [found |-> Carrying # {},
     line |-> IF Carrying = {} THEN "marker" ELSE rules[CHOOSE i \in Carrying : TRUE],
     lineNumber |-> IF rules = <<>> THEN 0 ELSE 1,
     chainExists |-> chainExists]

\* lineNumber is incremented at every rule of the chain, so when the loop ends
\* it is the number of rules, wherever the match was.
ReadMatch ==
    [found |-> Carrying # {},
     line |-> IF Carrying = {} THEN "marker" ELSE rules[CHOOSE i \in Carrying : TRUE],
     lineNumber |-> Len(rules),
     chainExists |-> chainExists]

Finish(res) == pc' = "idle" /\ result' = res /\ UNCHANGED <<op, match>>

-----------------------------------------------------------------------------
(***************************************************************************)
(* Ensure and Remove.                                                      *)
(***************************************************************************)
BeginEnsure ==
    /\ pc = "idle" /\ pc' = "read" /\ op' = "ensure"
    /\ UNCHANGED <<tableVars, match, result, owned, edits>>

BeginRemove ==
    /\ pc = "idle" /\ pc' = "read" /\ op' = "remove" /\ owned # "none"
    /\ edits < MaxEdits /\ edits' = edits + 1
    /\ UNCHANGED <<tableVars, match, result, owned>>

\* The first read, and what Ensure or Remove decides from it.
Read ==
    /\ pc = "read"
    /\ \/ ReadConflict /\ Finish("conflict") /\ UNCHANGED owned
       \/ /\ ~ReadConflict /\ op = "ensure" /\ ReadMatch.found /\ ReadMatch.line = "marker"
          /\ Finish("ok") /\ owned' = "marker"
       \/ /\ ~ReadConflict /\ op = "ensure" /\ ~(ReadMatch.found /\ ReadMatch.line = "marker")
          /\ match' = ReadMatch
          /\ pc' = IF ReadMatch.found \/ ReadMatch.chainExists THEN "apply" ELSE "create"
          /\ UNCHANGED <<op, result, owned>>
       \/ /\ ~ReadConflict /\ op = "remove" /\ ~ReadMatch.found
          /\ Finish("ok") /\ owned' = "none"
       \/ /\ ~ReadConflict /\ op = "remove" /\ ReadMatch.found
          /\ IF ReadMatch.line = owned
             THEN match' = ReadMatch /\ pc' = "apply" /\ UNCHANGED <<op, result>>
             ELSE Finish("conflict")
          /\ UNCHANGED owned
    /\ UNCHANGED <<tableVars, edits>>

\* iptables -N fails if the chain is there meanwhile.
Create ==
    /\ pc = "create"
    /\ \/ ~chainExists /\ chainExists' = TRUE /\ pc' = "apply" /\ UNCHANGED <<op, match, result>>
       \/ chainExists /\ Finish("error") /\ UNCHANGED chainExists
    /\ UNCHANGED <<rules, elsewhere, owned, edits>>

\* Mutant: Ensure appends even if it has found a rule to replace.
ApplyAppends ==
    /\ pc = "apply" /\ Len(rules) < MaxRules
    /\ rules' = Append(rules, "marker")
    /\ pc' = "verify" /\ UNCHANGED <<op, match, result>>
    /\ UNCHANGED <<chainExists, elsewhere, owned, edits>>

\* iptables -R, -A or -D.
Apply ==
    /\ pc = "apply"
    /\ \/ /\ op = "ensure" /\ match.found /\ match.lineNumber <= Len(rules)
          /\ rules' = [rules EXCEPT ![match.lineNumber] = "marker"]
          /\ pc' = "verify" /\ UNCHANGED <<op, match, result>>
       \/ /\ op = "ensure" /\ ~match.found /\ Len(rules) < MaxRules
          /\ rules' = Append(rules, "marker")
          /\ pc' = "verify" /\ UNCHANGED <<op, match, result>>
       \/ /\ op = "remove" /\ match.lineNumber <= Len(rules)
          /\ rules' = RemoveAt(rules, match.lineNumber)
          /\ pc' = "verify" /\ UNCHANGED <<op, match, result>>
       \/ /\ match.found /\ match.lineNumber > Len(rules)
          /\ Finish("error") /\ UNCHANGED rules
    /\ UNCHANGED <<chainExists, elsewhere, owned, edits>>

\* The second read decides whether the operation succeeded.
Verify ==
    /\ pc = "verify"
    /\ \/ ReadConflict /\ Finish("conflict") /\ UNCHANGED owned
       \/ /\ ~ReadConflict /\ op = "ensure"
          /\ IF ReadMatch.found /\ ReadMatch.line = "marker"
             THEN Finish("ok") /\ owned' = "marker"
             ELSE Finish("error") /\ UNCHANGED owned
       \/ /\ ~ReadConflict /\ op = "remove"
          /\ IF ReadMatch.found THEN Finish("error") /\ UNCHANGED owned
             ELSE Finish("ok") /\ owned' = "none"
    /\ UNCHANGED <<tableVars, edits>>

\* An iptables command fails (the xtables lock, a cancelled context) and changes
\* nothing.
CommandFails ==
    /\ pc # "idle" /\ edits < MaxEdits /\ edits' = edits + 1
    /\ Finish("error")
    /\ UNCHANGED <<tableVars, owned>>

ManagerStep == Read \/ Create \/ Apply \/ Verify

-----------------------------------------------------------------------------
(***************************************************************************)
(* Other users of iptables.                                                *)
(***************************************************************************)
EditRules(kind) ==
    \/ /\ kind = "create" /\ ~chainExists
       /\ chainExists' = TRUE /\ UNCHANGED rules
    \/ /\ kind = "insert" /\ chainExists /\ Len(rules) < MaxRules - 1
       /\ \E r \in ForeignRules \ ToSet(rules), i \in 1..(Len(rules) + 1) :
            /\ BehindMarker \/ \A j \in Carrying : i <= j
            /\ rules' = InsertAt(rules, i, r)
       /\ UNCHANGED chainExists
    \/ /\ kind = "delete" /\ \E i \in DOMAIN rules : rules' = RemoveAt(rules, i)
       /\ UNCHANGED chainExists
    \/ /\ kind = "change" /\ \E i \in Carrying : rules' = [rules EXCEPT ![i] = "stale"]
       /\ UNCHANGED chainExists

Edit ==
    /\ edits < MaxEdits /\ edits' = edits + 1
    /\ \E kind \in EditKinds : (pc = "idle" \/ kind \in Concurrent) /\ EditRules(kind)
    /\ UNCHANGED <<elsewhere, opVars>>

\* Somebody copies the rule into another chain, and takes the copy away.
CopyElsewhere ==
    /\ \/ elsewhere = "none" /\ edits < MaxEdits /\ edits' = edits + 1 /\ elsewhere' \in Ours
       \/ elsewhere # "none" /\ elsewhere' = "none" /\ UNCHANGED edits
    /\ UNCHANGED <<chainExists, rules, opVars>>

Next == BeginEnsure \/ BeginRemove \/ ManagerStep \/ CommandFails \/ Edit \/ CopyElsewhere

Spec == Init /\ [][Next]_vars

-----------------------------------------------------------------------------
(***************************************************************************)
(* Properties.                                                             *)
(***************************************************************************)
\* The foreign rules in the chain and their order; no foreign rule is in it
\* twice, so this is all there is to know about them.
ForeignOrder ==
    {p \in ForeignRules \X ForeignRules :
        \E i, j \in DOMAIN rules : i <= j /\ rules[i] = p[1] /\ rules[j] = p[2]}

\* Neither Ensure nor Remove changes, removes or reorders a rule of another
\* owner ("Do not overwrite, delete, or take ownership of ... iptables ...
\* objects that cannot be proven to belong to FNCache").
ForeignRulesKept == [][pc' # pc => ForeignOrder' = ForeignOrder]_vars

\* There is never more than one rule with the comment in the chain.
MarkerUnique == \A i, j \in Carrying : i = j
=============================================================================
