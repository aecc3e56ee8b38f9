--------------------------- MODULE TCFiltersProofs ---------------------------
(***************************************************************************)
(* Proofs about TCFilters for every set of managers, links and programs,   *)
(* and for every bound.                                                    *)
(***************************************************************************)
EXTENDS TCFilters, TLAPS

USE ConstantsAssumption

(***************************************************************************)
(* Types.                                                                  *)
(***************************************************************************)
Steps == {"idle", "f_del"} \cup EnsureSteps \cup ListSteps
\* What a manager has concluded from its last listing.
Verdict == {"nothing", "same", "conflict", "absent"}

\* The conjuncts of TypeOK: the kernel,
TypeKernel ==
    /\ link \in used \cup {NoLink} /\ used \subseteq LinkIDs
    /\ clsact \in BOOLEAN /\ filters \in [Positions -> Filters]
    /\ pins \in [Programs -> 1..MaxVersion]
    /\ ~clsact => filters = [p \in Positions |-> NoFilter]
    /\ link = NoLink => ~clsact

\* the managers,
TypeManagers ==
    /\ pc \in [Managers -> Steps]
    /\ op \in [Managers -> {"none", "ensure", "remove"}]
    /\ spec \in [Managers -> Specs \cup {NoSpec}]
    /\ seen \in [Managers -> Verdict]
    /\ fd \in [Managers -> 0..MaxVersion]
    /\ outcome \in [Managers -> {"none", "ok", "failed"}]

\* history and bounds,
TypeHistory == witnessed \in [Managers -> BOOLEAN] /\ moves \in 0..MaxMoves

\* and what a manager has in hand at each step.
Phases ==
    \A m \in Managers :
        /\ pc[m] = "idle" <=> spec[m] = NoSpec
        /\ pc[m] \in EnsureSteps => op[m] = "ensure"
        /\ pc[m] = "f_del" => op[m] = "remove"
        /\ fd[m] # 0 <=> pc[m] = "f_add"

\* Together they are TypeOK.
LEMMA TypeParts == TypeOK <=> TypeKernel /\ TypeManagers /\ TypeHistory /\ Phases
BY DEF TypeOK, TypeKernel, TypeManagers, TypeHistory, Phases, Steps, Verdict

\* The records that stand for nothing are none of the real ones.
LEMMA Sentinels ==
  /\ NoFilter # Foreign
  /\ NoSpec \notin Specs
  /\ \A s \in Specs : /\ Wanted(s) \notin {NoFilter, Foreign}
                      /\ Wanted(s) \in Filters
                      /\ s.link \in LinkIDs /\ s.program \in Programs /\ s.id \in 1..MaxVersion
  /\ NoFilter \in Filters /\ Foreign \in Filters
<1>1. NoFilter.id = 0 /\ Foreign.id = 0 /\ NoFilter.on # Foreign.on /\ NoSpec.id = 0
  BY DEF NoFilter, Foreign, NoSpec, NoLink
<1>2. ASSUME NEW s \in Specs
      PROVE  /\ s.link \in LinkIDs /\ s.program \in Programs /\ s.id \in 1..MaxVersion /\ s.id # 0
             /\ Wanted(s).id = s.id /\ Wanted(s) \in [id : 1..MaxVersion, on : LinkIDs]
  BY <1>2 DEF Specs, Wanted
<1>3. NoSpec \notin Specs
  BY <1>1, <1>2
<1>4. \A s \in Specs : Wanted(s) \notin {NoFilter, Foreign}
  BY <1>1, <1>2
<1> QED BY <1>1, <1>2, <1>3, <1>4 DEF Filters

\* The types hold at first.
LEMMA TypeInit == Init => TypeOK
<1> SUFFICES ASSUME Init PROVE TypeOK
  OBVIOUS
<1>1. TypeKernel
  <2>1. filters \in [Positions -> Filters] /\ pins \in [Programs -> 1..MaxVersion]
    BY Sentinels DEF Init
  <2>2. link \in used \cup {NoLink} /\ used \subseteq LinkIDs
    BY DEF Init
  <2>3. clsact = FALSE /\ filters = [p \in Positions |-> NoFilter]
    BY Zenon DEF Init
  <2> QED BY <2>1, <2>2, <2>3, Zenon DEF TypeKernel
<1>2. TypeManagers
  BY DEF Init, TypeManagers, Steps, Verdict
<1>3. TypeHistory
  BY DEF Init, TypeHistory
<1>4. Phases
  BY DEF Init, Phases, EnsureSteps
<1> QED BY <1>1, <1>2, <1>3, <1>4, TypeParts

\* The history variable keeps its type: what an operation promises is true or
\* false.
LEMMA TypeWitness ==
  ASSUME TypeHistory, Witness
  PROVE  witnessed' \in [Managers -> BOOLEAN]
<1>1. \A o, s, l, f : Holds(o, s, l, f) \in BOOLEAN
  BY DEF Holds
<1>2. \A m \in Managers : witnessed[m] \in BOOLEAN
  BY DEF TypeHistory
<1> DEFINE W(m) == IF outcome'[m] = "failed" THEN FALSE
                   ELSE IF pc[m] # "idle" THEN witnessed[m] \/ Holds(op[m], spec[m], link', filters')
                   ELSE IF pc'[m] # "idle" THEN Holds(op'[m], spec'[m], link, filters)
                   ELSE witnessed[m]
<1>3. \A m \in Managers : W(m) \in BOOLEAN
  BY <1>1, <1>2
<1>4. witnessed' = [m \in Managers |-> W(m)]
  BY DEF Witness
<1> HIDE DEF W
<1> QED BY <1>3, <1>4

\* A manager that goes on to a step, or returns, keeps the types.
LEMMA TypeGoto ==
  ASSUME TypeManagers, NEW m \in Managers, NEW step \in Steps, Goto(m, step),
         seen' \in [Managers -> Verdict], fd' \in [Managers -> 0..MaxVersion]
  PROVE  TypeManagers'
BY DEF TypeManagers, Goto

\* A call that returns leaves the types,
LEMMA TypeDone ==
  ASSUME TypeManagers, NEW m \in Managers, NEW result \in {"ok", "failed"}, Done(m, result),
         seen' \in [Managers -> Verdict], fd' \in [Managers -> 0..MaxVersion]
  PROVE  TypeManagers'
<1>1. pc' \in [Managers -> Steps] /\ op' \in [Managers -> {"none", "ensure", "remove"}]
  BY DEF TypeManagers, Done, Steps
<1>2. spec' \in [Managers -> Specs \cup {NoSpec}] /\ outcome' \in [Managers -> {"none", "ok", "failed"}]
  BY DEF TypeManagers, Done
<1> QED BY <1>1, <1>2 DEF TypeManagers

\* The phases of the managers after such a step.
LEMMA PhasesGoto ==
  ASSUME TypeManagers, Phases, NEW m \in Managers, NEW step \in Steps \ {"idle", "f_add"}, Goto(m, step),
         pc[m] # "idle",
         step \in EnsureSteps => op[m] = "ensure", step = "f_del" => op[m] = "remove",
         fd' = [fd EXCEPT ![m] = 0] \/ (fd[m] = 0 /\ fd' = fd)
  PROVE  Phases'
<1>1. pc'[m] = step /\ fd'[m] = 0 /\ op' = op /\ spec' = spec
  BY DEF TypeManagers, Goto
<1>2. \A n \in Managers \ {m} : pc'[n] = pc[n] /\ fd'[n] = fd[n]
  BY DEF TypeManagers, Goto
<1> QED BY <1>1, <1>2 DEF Phases

\* and leaves its manager with nothing in hand.
LEMMA PhasesDone ==
  ASSUME TypeManagers, Phases, NEW m \in Managers, NEW result, Done(m, result),
         fd' = [fd EXCEPT ![m] = 0] \/ (fd[m] = 0 /\ fd' = fd)
  PROVE  Phases'
<1>1. pc'[m] = "idle" /\ spec'[m] = NoSpec /\ fd'[m] = 0
  BY DEF TypeManagers, Done
<1>2. \A n \in Managers \ {m} :
        pc'[n] = pc[n] /\ fd'[n] = fd[n] /\ op'[n] = op[n] /\ spec'[n] = spec[n]
  BY DEF TypeManagers, Done
<1> QED BY <1>1, <1>2 DEF Phases, EnsureSteps

\* What an operation at work was asked to do is a specification, and it has no
\* program open except to add its filter.
LEMMA Working ==
  ASSUME TypeOK, NEW m \in Managers, pc[m] # "idle"
  PROVE  /\ spec[m] \in Specs /\ spec[m].program \in Positions
         /\ spec[m].link \in LinkIDs /\ spec[m].id \in 1..MaxVersion
         /\ pc[m] # "f_add" => fd[m] = 0
BY TypeParts, Sentinels DEF TypeManagers, Phases, Positions

\* The netlink calls of a manager keep the types.
LEMMA TypeStep ==
  ASSUME TypeOK, NEW m \in Managers, ManagerStep(m)
  PROVE  TypeKernel' /\ TypeManagers' /\ Phases' /\ UNCHANGED moves
<1> USE TypeParts
<1>0. /\ Steps = {"idle", "f_del", "q_list", "q_add", "q_relist", "load", "f_add", "f_in", "f_eg"}
      /\ EnsureSteps = {"q_list", "q_add", "q_relist", "load", "f_add"}
  BY DEF Steps, EnsureSteps, ListSteps
<1>1. CASE ListQdiscs(m)
  <2>1. UNCHANGED <<kernelVars, seen, fd, moves>> /\ pc[m] \in {"q_list", "q_relist"} /\ fd[m] = 0
    BY <1>1, Working DEF ListQdiscs
  <2>2. TypeKernel' /\ seen' \in [Managers -> Verdict] /\ fd' \in [Managers -> 0..MaxVersion]
    BY <2>1 DEF TypeKernel, TypeManagers, kernelVars
  <2>3. op[m] = "ensure"
    BY <1>0, <2>1 DEF Phases
  <2>4. (\E step \in {"f_in", "q_add"} : Goto(m, step)) \/ Done(m, "failed")
    BY <1>1 DEF ListQdiscs
  <2> QED BY <1>0, <2>1, <2>2, <2>3, <2>4, TypeGoto, TypeDone, PhasesGoto, PhasesDone
<1>2. CASE AddClsact(m)
  <2>1. UNCHANGED <<link, used, filters, pins, seen, fd, moves>> /\ pc[m] = "q_add" /\ fd[m] = 0
    BY <1>2, Working DEF AddClsact
  <2>2. seen' \in [Managers -> Verdict] /\ fd' \in [Managers -> 0..MaxVersion]
    BY <2>1 DEF TypeManagers
  <2>3. op[m] = "ensure" /\ spec[m].link \in LinkIDs
    BY <1>0, <2>1, Working DEF Phases
  <2>4. TypeKernel'
    <3>1. CASE lookupLink(m) /\ clsact' = TRUE
      <4>1. link # NoLink
        BY <2>3, <3>1 DEF lookupLink
      <4> QED BY <2>1, <3>1, <4>1 DEF TypeKernel
    <3>2. CASE UNCHANGED clsact
      BY <2>1, <3>2 DEF TypeKernel
    <3> QED BY <1>2, <3>1, <3>2 DEF AddClsact
  <2>5. \E step \in {"f_in", "q_relist"} : Goto(m, step)
    BY <1>2 DEF AddClsact
  <2> QED BY <1>0, <2>1, <2>2, <2>3, <2>4, <2>5, TypeGoto, PhasesGoto
<1>3. CASE ListIngress(m)
  <2>1. UNCHANGED <<kernelVars, fd, moves>> /\ pc[m] = "f_in" /\ fd[m] = 0
    BY <1>3, Working DEF ListIngress
  <2>2. TypeKernel' /\ fd' \in [Managers -> 0..MaxVersion]
    BY <2>1 DEF TypeKernel, TypeManagers, kernelVars
  <2>3. Verdicts(m) \subseteq Verdict
    BY DEF Verdicts, Verdict
  <2>4. seen' \in [Managers -> Verdict]
    BY <1>3, <2>3 DEF ListIngress, TypeManagers
  <2>5. Goto(m, "f_eg") \/ Done(m, "failed")
    BY <1>3 DEF ListIngress
  <2> QED BY <1>0, <2>1, <2>2, <2>4, <2>5, TypeGoto, TypeDone, PhasesGoto, PhasesDone
<1>4. CASE ListEgress(m)
  <2>1. UNCHANGED <<kernelVars, fd, moves>> /\ pc[m] = "f_eg" /\ fd[m] = 0
    BY <1>4, Working DEF ListEgress
  <2>2. TypeKernel' /\ fd' \in [Managers -> 0..MaxVersion]
    BY <2>1 DEF TypeKernel, TypeManagers, kernelVars
  <2>3. seen' \in [Managers -> Verdict]
    BY <1>4 DEF ListEgress, TypeManagers, Verdict
  <2>4. \/ op[m] = "ensure" /\ Goto(m, "load")
        \/ op[m] = "remove" /\ Goto(m, "f_del")
        \/ \E result \in {"ok", "failed"} : Done(m, result)
    BY <1>4 DEF ListEgress, Act
  <2> QED BY <1>0, <2>1, <2>2, <2>3, <2>4, TypeGoto, TypeDone, PhasesGoto, PhasesDone
<1>5. CASE Load(m)
  <2>1. UNCHANGED <<kernelVars, seen, moves>> /\ pc[m] = "load" /\ fd[m] = 0
    BY <1>5, Working DEF Load
  <2>2. TypeKernel' /\ seen' \in [Managers -> Verdict]
    BY <2>1 DEF TypeKernel, TypeManagers, kernelVars
  <2>3. pins[spec[m].program] \in 1..MaxVersion
    BY <2>1, Working, Sentinels DEF TypeKernel
  <2>4. fd' \in [Managers -> 0..MaxVersion]
    BY <1>5, <2>3 DEF Load, TypeManagers
  <2>5. CASE Done(m, "failed") /\ UNCHANGED fd
    BY <2>1, <2>2, <2>4, <2>5, TypeDone, PhasesDone
  <2>6. CASE Goto(m, "f_add") /\ fd' = [fd EXCEPT ![m] = pins[spec[m].program]]
    <3>1. op[m] = "ensure" /\ spec[m] # NoSpec
      BY <1>0, <2>1, Working, Sentinels DEF Phases
    <3>2. pc'[m] = "f_add" /\ fd'[m] # 0 /\ UNCHANGED <<op, spec>>
      BY <2>3, <2>6 DEF Goto, TypeManagers
    <3>3. \A n \in Managers \ {m} : pc'[n] = pc[n] /\ fd'[n] = fd[n]
      BY <2>6 DEF Goto, TypeManagers
    <3>4. Phases'
      BY <3>1, <3>2, <3>3 DEF Phases
    <3> QED BY <1>0, <2>1, <2>2, <2>4, <2>6, <3>4, TypeGoto
  <2> QED BY <1>5, <2>5, <2>6 DEF Load
<1>6. CASE AddFilter(m)
  <2>1. UNCHANGED <<link, used, clsact, pins, seen, moves>> /\ pc[m] = "f_add" /\ fd' = [fd EXCEPT ![m] = 0]
    BY <1>6 DEF AddFilter
  <2>2. fd' \in [Managers -> 0..MaxVersion] /\ seen' \in [Managers -> Verdict]
    BY <2>1 DEF TypeManagers
  <2>3. fd[m] \in 1..MaxVersion /\ spec[m].link \in LinkIDs
    BY <2>1, Working DEF Phases, TypeManagers
  <2>4. filters' \in [Positions -> Filters] /\ (~clsact => UNCHANGED filters)
    BY <1>6, <2>3 DEF AddFilter, TypeKernel, Filters
  <2>5. TypeKernel'
    BY <2>1, <2>4 DEF TypeKernel
  <2>6. \E result \in {"ok", "failed"} : Done(m, result)
    BY <1>6 DEF AddFilter
  <2> QED BY <2>1, <2>2, <2>5, <2>6, TypeDone, PhasesDone
<1>7. CASE DeleteFilter(m)
  <2>1. UNCHANGED <<link, used, clsact, pins, seen, fd, moves>> /\ pc[m] = "f_del" /\ fd[m] = 0
    BY <1>7, Working DEF DeleteFilter
  <2>2. fd' \in [Managers -> 0..MaxVersion] /\ seen' \in [Managers -> Verdict]
    BY <2>1 DEF TypeManagers
  <2>3. filters' \in [Positions -> Filters]
    BY <1>7, Sentinels DEF DeleteFilter, TypeKernel
  <2>4. ~clsact => UNCHANGED filters
    BY <1>7, <2>1, Working DEF DeleteFilter, TypeKernel
  <2>5. TypeKernel'
    BY <2>1, <2>3, <2>4 DEF TypeKernel
  <2>6. \E result \in {"ok", "failed"} : Done(m, result)
    BY <1>7 DEF DeleteFilter
  <2> QED BY <2>1, <2>2, <2>5, <2>6, TypeDone, PhasesDone
<1> QED BY <1>1, <1>2, <1>3, <1>4, <1>5, <1>6, <1>7 DEF ManagerStep

\* So do calls of a manager, and netlink calls that fail.
LEMMA TypeCall ==
  ASSUME TypeOK, NEW m \in Managers, Calls(m) \/ CallFails(m)
  PROVE  TypeKernel' /\ TypeManagers' /\ Phases' /\ moves' \in 0..MaxMoves
<1> USE TypeParts
<1>0. /\ Steps = {"idle", "f_del", "q_list", "q_add", "q_relist", "load", "f_add", "f_in", "f_eg"}
      /\ EnsureSteps = {"q_list", "q_add", "q_relist", "load", "f_add"}
  BY DEF Steps, EnsureSteps, ListSteps
<1>1. CASE Calls(m)
  <2>1. PICK operation \in {"ensure", "remove"}, s \in Specs : Call(m, operation, s)
    BY <1>1 DEF Calls
  <2>2. TypeKernel' /\ moves' \in 0..MaxMoves
    BY <2>1 DEF Call, TypeKernel, TypeHistory, kernelVars
  <2>3. TypeManagers'
    BY <1>0, <2>1 DEF Call, TypeManagers
  <2>4. /\ pc'[m] = (IF operation = "ensure" THEN "q_list" ELSE "f_in")
        /\ op'[m] = operation /\ spec'[m] # NoSpec /\ fd[m] = 0 /\ UNCHANGED fd
    BY <2>1, Sentinels DEF Call, TypeManagers, Phases
  <2>5. \A n \in Managers \ {m} : pc'[n] = pc[n] /\ op'[n] = op[n] /\ spec'[n] = spec[n]
    BY <2>1 DEF Call, TypeManagers
  <2>6. Phases'
    BY <1>0, <2>4, <2>5 DEF Phases
  <2> QED BY <2>2, <2>3, <2>6
<1>2. CASE CallFails(m)
  <2>1. TypeKernel' /\ moves' \in 0..MaxMoves
    BY <1>2 DEF CallFails, TypeKernel, TypeHistory, kernelVars
  <2>2. seen' \in [Managers -> Verdict] /\ fd' \in [Managers -> 0..MaxVersion]
    BY <1>2 DEF CallFails, TypeManagers, Verdict
  <2>3. \/ pc[m] = "q_add" /\ Goto(m, "q_relist")
        \/ Done(m, "failed")
    BY <1>2 DEF CallFails
  <2>4. pc[m] # "idle" /\ fd' = [fd EXCEPT ![m] = 0]
    BY <1>2 DEF CallFails
  <2>5. pc[m] = "q_add" => op[m] = "ensure"
    BY <1>0 DEF Phases
  <2> QED BY <1>0, <2>1, <2>2, <2>3, <2>4, <2>5, TypeGoto, TypeDone, PhasesGoto, PhasesDone
<1> QED BY <1>1, <1>2

\* And so do the others.
LEMMA TypeOthers ==
  ASSUME TypeOK, Others
  PROVE  TypeKernel' /\ TypeManagers' /\ Phases' /\ moves' \in 0..MaxMoves
<1> USE TypeParts
<1>1. Move
  BY DEF Others, LinkDelete, ClsactDelete, LinkAdd, OtherAttach, Detach, Reload
<1>2. TypeManagers' /\ Phases' /\ moves' \in 0..MaxMoves
  BY <1>1 DEF Move, TypeManagers, Phases, TypeHistory, managerVars
<1>3. TypeKernel'
  <2>1. CASE LinkDelete \/ ClsactDelete
    BY <2>1, Sentinels DEF LinkDelete, ClsactDelete, Empty, TypeKernel
  <2>2. CASE \E l \in LinkIDs : LinkAdd(l)
    <3>1. UNCHANGED <<clsact, filters, pins>> /\ ~clsact
      BY <2>2 DEF LinkAdd, TypeKernel
    <3>2. link' \in used' \cup {NoLink} /\ used' \subseteq LinkIDs
      BY <2>2 DEF LinkAdd, TypeKernel
    <3> QED BY <3>1, <3>2 DEF TypeKernel
  <2>3. CASE \E p \in Positions : OtherAttach(p) \/ Detach(p)
    <3>1. UNCHANGED <<link, used, clsact, pins>> /\ filters' \in [Positions -> Filters]
      BY <2>3, Sentinels DEF OtherAttach, Detach, TypeKernel
    <3>2. clsact
      BY <2>3 DEF OtherAttach, Detach, TypeKernel
    <3> QED BY <3>1, <3>2 DEF TypeKernel
  <2>4. CASE \E p \in Programs : Reload(p)
    BY <2>4 DEF Reload, TypeKernel
  <2> QED BY <2>1, <2>2, <2>3, <2>4 DEF Others
<1> QED BY <1>2, <1>3

\* Every variable of the TC managers and of the kernel keeps its type.
THEOREM TypeCorrect == Spec => []TypeOK
<1>1. TypeOK /\ [Next]_vars => TypeOK'
  <2> SUFFICES ASSUME TypeOK, [Next]_vars PROVE TypeOK'
    OBVIOUS
  <2>1. CASE Next
    <3>1. witnessed' \in [Managers -> BOOLEAN]
      BY <2>1, TypeParts, TypeWitness DEF Next
    <3>2. TypeKernel' /\ TypeManagers' /\ Phases' /\ moves' \in 0..MaxMoves
      BY <2>1, TypeParts, TypeStep, TypeCall, TypeOthers DEF Next, TypeHistory
    <3> QED BY <3>1, <3>2 DEF TypeOK, TypeKernel, TypeManagers, TypeHistory, Phases, Steps, Verdict
  <2>2. CASE UNCHANGED vars
    BY <2>2 DEF TypeOK, vars, kernelVars, managerVars
  <2> QED BY <2>1, <2>2
<1> QED BY <1>1, TypeInit, PTL DEF Spec

-----------------------------------------------------------------------------
(***************************************************************************)
(* A filter is on the link it was meant for.                               *)
(***************************************************************************)

\* The steps of a manager that change no filter: nothing but a new filter or
\* none is ever written by one.
LEMMA FiltersWritten ==
  ASSUME TypeOK, NEW m \in Managers, Calls(m) \/ ManagerStep(m) \/ CallFails(m)
  PROVE  /\ UNCHANGED link
         /\ \/ UNCHANGED filters
            \/ /\ AddFilter(m) /\ link = spec[m].link /\ filters[spec[m].program] = NoFilter
               /\ filters' = [filters EXCEPT ![spec[m].program] = [id |-> fd[m], on |-> spec[m].link]]
            \/ /\ DeleteFilter(m) /\ link = spec[m].link
               /\ filters' = [filters EXCEPT ![spec[m].program] = NoFilter]
<1>1. CASE ListQdiscs(m) \/ ListIngress(m) \/ ListEgress(m) \/ Load(m) \/ CallFails(m) \/ Calls(m)
  BY <1>1 DEF ListQdiscs, ListIngress, ListEgress, Load, CallFails, Calls, Call, kernelVars
<1>2. CASE AddClsact(m)
  BY <1>2 DEF AddClsact
<1>3. CASE AddFilter(m)
  BY <1>3 DEF AddFilter, lookupLink
<1>4. CASE DeleteFilter(m)
  BY <1>4 DEF DeleteFilter, lookupLink
<1> QED BY <1>1, <1>2, <1>3, <1>4 DEF ManagerStep

\* A filter of FNCache is only ever on the link it was meant for, although
\* every netlink call addresses the link by an ifindex that is reused: the
\* kernel never has a filter without clsact, so a link that takes over the
\* address starts without filters, and lookupLink compares name and MAC
\* address when one is added.
THEOREM OwnLink == Spec => []FilterOnOwnLink
<1>1. Init => FilterOnOwnLink
  BY DEF Init, FilterOnOwnLink
<1>2. TypeOK /\ FilterOnOwnLink /\ [Next]_vars => FilterOnOwnLink'
  <2> SUFFICES ASSUME TypeOK, FilterOnOwnLink, [Next]_vars,
                      NEW p \in Positions, filters'[p] \notin {NoFilter, Foreign}
               PROVE  filters'[p].on = link'
    BY DEF FilterOnOwnLink
  <2>0. TypeKernel
    BY TypeParts
  <2>1. ASSUME NEW m \in Managers, Calls(m) \/ ManagerStep(m) \/ CallFails(m)
        PROVE  filters'[p].on = link'
    <3>1. CASE UNCHANGED filters
      BY <2>1, <3>1, FiltersWritten DEF FilterOnOwnLink
    <3>2. CASE /\ link = spec[m].link
               /\ filters' = [filters EXCEPT ![spec[m].program] = [id |-> fd[m], on |-> spec[m].link]]
      BY <2>0, <2>1, <3>2, FiltersWritten DEF FilterOnOwnLink, TypeKernel
    <3>3. CASE filters' = [filters EXCEPT ![spec[m].program] = NoFilter]
      BY <2>0, <2>1, <3>3, FiltersWritten DEF FilterOnOwnLink, TypeKernel
    <3> QED BY <2>1, <3>1, <3>2, <3>3, FiltersWritten
  <2>2. CASE LinkDelete \/ ClsactDelete
    BY <2>2 DEF LinkDelete, ClsactDelete, Empty
  <2>3. CASE \E l \in LinkIDs : LinkAdd(l)
    <3>1. filters[p] = NoFilter /\ filters' = filters
      BY <2>0, <2>3 DEF LinkAdd, TypeKernel
    <3> QED BY <3>1
  <2>4. CASE \E q \in Positions : OtherAttach(q) \/ Detach(q)
    BY <2>0, <2>4 DEF OtherAttach, Detach, TypeKernel, FilterOnOwnLink
  <2>5. CASE \E q \in Programs : Reload(q)
    BY <2>5 DEF Reload, FilterOnOwnLink
  <2>6. CASE UNCHANGED vars
    BY <2>6 DEF vars, kernelVars, FilterOnOwnLink
  <2> QED BY <2>1, <2>2, <2>3, <2>4, <2>5, <2>6 DEF Next, Others
<1> QED BY <1>1, <1>2, TypeCorrect, PTL DEF Spec

-----------------------------------------------------------------------------
(***************************************************************************)
(* An operation that returned "ok" took effect.                            *)
(***************************************************************************)

\* Of one manager: what it has learned from a listing was true when it listed,
\* and the program it has opened is the one it was asked for.
Effect(m) ==
    /\ pc[m] # "idle" => outcome[m] = "none"
    /\ pc[m] = "idle" /\ outcome[m] = "ok" => witnessed[m]
    /\ seen[m] # "nothing" => pc[m] = "f_eg"
    /\ seen[m] = "same" /\ op[m] = "ensure" => witnessed[m]
    /\ seen[m] = "absent" /\ op[m] = "remove" => witnessed[m]
    /\ pc[m] = "f_add" => fd[m] = spec[m].id

\* The invariant behind CallsTakeEffect.
EffectInv == \A m \in Managers : Effect(m)

\* A step of somebody else does not take from a manager what it knows.
LEMMA EffectFrame ==
  ASSUME TypeOK, EffectInv, NEW n \in Managers, Witness,
         pc'[n] = pc[n], op'[n] = op[n], spec'[n] = spec[n], seen'[n] = seen[n],
         fd'[n] = fd[n], outcome'[n] = outcome[n]
  PROVE  Effect(n)'
<1>1. Effect(n)
  BY DEF EffectInv
<1>2. outcome[n] # "failed" /\ witnessed[n] => witnessed'[n]
  BY DEF Witness
<1> QED BY <1>1, <1>2 DEF Effect

\* Steps of a manager after which it is still at work.
LEMMA EffectGoto ==
  ASSUME TypeOK, EffectInv, Witness, NEW m \in Managers, NEW step, Goto(m, step),
         step # "idle", pc[m] # "idle",
         seen'[m] \in {"nothing", seen[m]}, step # "f_eg" => seen'[m] = "nothing",
         step = "f_add" => fd'[m] = spec[m].id
  PROVE  Effect(m)'
<1>1. pc'[m] = step /\ op' = op /\ spec' = spec /\ outcome' = outcome
  BY TypeParts DEF Goto, TypeManagers
<1>2. Effect(m)
  BY DEF EffectInv
<1>3. witnessed[m] => witnessed'[m]
  BY <1>1, <1>2 DEF Witness, Effect
<1> QED BY <1>1, <1>2, <1>3 DEF Effect

\* An operation that returns.
LEMMA EffectDone ==
  ASSUME TypeOK, Witness, NEW m \in Managers, NEW result, Done(m, result),
         pc[m] # "idle", seen'[m] = "nothing",
         result = "ok" => witnessed[m] \/ Holds(op[m], spec[m], link', filters')
  PROVE  Effect(m)'
<1>1. pc'[m] = "idle" /\ outcome'[m] = result
  BY TypeParts DEF Done, TypeManagers
<1>2. result = "ok" => witnessed'[m]
  BY <1>1 DEF Witness
<1> QED BY <1>1, <1>2 DEF Effect

\* What a listing says is true of the link it was made on.
LEMMA VerdictTrue ==
  ASSUME TypeOK, NEW m \in Managers, pc[m] # "idle", lookupLink(m), NEW v \in Verdicts(m)
  PROVE  /\ v = "same" => Holds("ensure", spec[m], link, filters)
         /\ v = "absent" => Holds("remove", spec[m], link, filters)
<1>1. spec[m] \in Specs /\ Wanted(spec[m]) # NoFilter
  BY Working, Sentinels
<1>2. v = "same" => filters[spec[m].program] = Wanted(spec[m])
  BY DEF Verdicts
<1>3. v = "absent" => filters[spec[m].program] = NoFilter
  BY DEF Verdicts
<1> QED BY <1>1, <1>2, <1>3 DEF Holds, lookupLink

\* Every netlink call of a manager keeps what is known of it.
LEMMA EffectStep ==
  ASSUME TypeOK, EffectInv, Witness, NEW m \in Managers, ManagerStep(m)
  PROVE  Effect(m)'
<1>0. /\ Effect(m) /\ TypeManagers /\ TypeKernel
      /\ pc[m] # "f_eg" => seen[m] = "nothing"
  BY TypeParts DEF EffectInv, Effect
<1>1. CASE ListQdiscs(m)
  <2>1. pc[m] \in {"q_list", "q_relist"} /\ UNCHANGED seen
    BY <1>1 DEF ListQdiscs
  <2>2. (\E step \in {"f_in", "q_add"} : Goto(m, step)) \/ Done(m, "failed")
    BY <1>1 DEF ListQdiscs
  <2> QED BY <1>0, <2>1, <2>2, EffectGoto, EffectDone
<1>2. CASE AddClsact(m)
  <2>1. pc[m] = "q_add" /\ UNCHANGED seen
    BY <1>2 DEF AddClsact
  <2>2. \E step \in {"f_in", "q_relist"} : Goto(m, step)
    BY <1>2 DEF AddClsact
  <2> QED BY <1>0, <2>1, <2>2, EffectGoto
<1>3. CASE ListIngress(m)
  <2>1. pc[m] = "f_in" /\ seen[m] = "nothing" /\ UNCHANGED <<link, filters>>
    BY <1>0, <1>3 DEF ListIngress, kernelVars
  <2>2. CASE UNCHANGED seen
    BY <1>0, <1>3, <2>1, <2>2, EffectGoto, EffectDone DEF ListIngress
  <2>3. CASE /\ lookupLink(m) /\ Goto(m, "f_eg")
             /\ \E v \in Verdicts(m) : seen' = [seen EXCEPT ![m] = v]
    <3>1. PICK v \in Verdicts(m) : seen' = [seen EXCEPT ![m] = v]
      BY <2>3
    <3>2. seen'[m] = v
      BY <1>0, <3>1 DEF TypeManagers
    <3>3. pc'[m] = "f_eg" /\ UNCHANGED <<op, spec, outcome>>
      BY <1>0, <2>3 DEF TypeManagers, Goto
    <3>4. outcome'[m] = "none"
      BY <1>0, <2>1, <3>3 DEF Effect
    <3>5. witnessed'[m] = (witnessed[m] \/ Holds(op[m], spec[m], link, filters))
      BY <2>1, <3>4 DEF Witness
    <3>6. /\ v = "same" /\ op[m] = "ensure" => witnessed'[m]
          /\ v = "absent" /\ op[m] = "remove" => witnessed'[m]
      BY <2>1, <2>3, <3>5, VerdictTrue
    <3> QED BY <3>2, <3>3, <3>4, <3>6 DEF Effect
  <2> QED BY <1>3, <2>2, <2>3 DEF ListIngress
<1>4. CASE ListEgress(m)
  <2>1. pc[m] = "f_eg" /\ seen'[m] = "nothing" /\ UNCHANGED <<link, filters>>
    BY <1>0, <1>4 DEF ListEgress, TypeManagers, kernelVars
  <2>2. CASE ~lookupLink(m)
    BY <1>4, <2>1, <2>2, EffectDone DEF ListEgress
  <2>3. CASE lookupLink(m)
    <3>1. PICK v \in IF SpecHook(spec[m]) = "egress" THEN Verdicts(m) ELSE {seen[m]} : Act(m, v)
      BY <1>4, <2>3 DEF ListEgress
    <3>2. /\ v = "same" /\ op[m] = "ensure" => witnessed[m] \/ Holds(op[m], spec[m], link', filters')
          /\ v = "absent" /\ op[m] = "remove" => witnessed[m] \/ Holds(op[m], spec[m], link', filters')
      <4>1. CASE v \in Verdicts(m)
        BY <2>1, <2>3, <4>1, VerdictTrue
      <4>2. CASE v = seen[m]
        BY <1>0, <4>2 DEF Effect
      <4> QED BY <3>1, <4>1, <4>2
    <3>3. CASE Done(m, "ok")
      <4>1. \/ v = "same" /\ op[m] = "ensure"
            \/ v = "absent" /\ op[m] = "remove"
        <5>1. outcome'[m] = "ok" /\ outcome[m] = "none"
          BY <1>0, <2>1, <3>3 DEF Done, TypeManagers, Effect
        <5>2. ~Goto(m, "load") /\ ~Goto(m, "f_del")
          BY <5>1 DEF Goto
        <5>3. ~Done(m, "failed")
          BY <1>0, <5>1 DEF Done, TypeManagers
        <5> QED BY <3>1, <5>2, <5>3 DEF Act
      <4> QED BY <2>1, <3>2, <3>3, <4>1, EffectDone
    <3>4. CASE Done(m, "failed")
      BY <2>1, <3>4, EffectDone
    <3>5. CASE Goto(m, "load") \/ Goto(m, "f_del")
      BY <2>1, <3>5, EffectGoto
    <3> QED BY <3>1, <3>3, <3>4, <3>5 DEF Act
  <2> QED BY <2>2, <2>3
<1>5. CASE Load(m)
  <2>1. pc[m] = "load" /\ UNCHANGED seen
    BY <1>5 DEF Load
  <2>2. CASE Done(m, "failed")
    BY <1>0, <2>1, <2>2, EffectDone
  <2>3. CASE Goto(m, "f_add") /\ fd' = [fd EXCEPT ![m] = spec[m].id]
    <3>1. fd'[m] = spec[m].id
      BY <1>0, <2>3 DEF TypeManagers
    <3> QED BY <1>0, <2>1, <2>3, <3>1, EffectGoto
  <2> QED BY <1>5, <2>2, <2>3 DEF Load
<1>6. CASE AddFilter(m)
  <2>1. pc[m] = "f_add" /\ op[m] = "ensure" /\ fd[m] = spec[m].id /\ UNCHANGED <<link, seen>>
    BY <1>0, <1>6, TypeParts DEF AddFilter, Effect, Phases, EnsureSteps
  <2>2. spec[m].program \in Positions
    BY <2>1, Working
  <2>3. CASE Done(m, "failed")
    BY <1>0, <2>1, <2>3, EffectDone
  <2>4. CASE /\ Done(m, "ok") /\ lookupLink(m)
             /\ filters' = [filters EXCEPT ![spec[m].program] = [id |-> fd[m], on |-> spec[m].link]]
    <3>1. filters'[spec[m].program] = Wanted(spec[m])
      BY <1>0, <2>1, <2>2, <2>4 DEF TypeKernel, Wanted
    <3>2. Holds(op[m], spec[m], link', filters')
      BY <2>1, <2>4, <3>1 DEF Holds, lookupLink
    <3> QED BY <1>0, <2>1, <2>4, <3>2, EffectDone
  <2> QED BY <1>6, <2>3, <2>4 DEF AddFilter
<1>7. CASE DeleteFilter(m)
  <2>1. pc[m] = "f_del" /\ op[m] = "remove" /\ UNCHANGED seen
    BY <1>0, <1>7, TypeParts DEF DeleteFilter, Phases
  <2>2. spec[m].program \in Positions /\ spec[m] \in Specs
    BY <2>1, Working
  <2>3. CASE Done(m, "failed")
    BY <1>0, <2>1, <2>3, EffectDone
  <2>4. CASE Done(m, "ok") /\ filters' = [filters EXCEPT ![spec[m].program] = NoFilter]
    <3>1. filters'[spec[m].program] # Wanted(spec[m])
      BY <1>0, <2>2, <2>4, Sentinels DEF TypeKernel
    <3>2. Holds(op[m], spec[m], link', filters')
      BY <2>1, <3>1 DEF Holds
    <3> QED BY <1>0, <2>1, <2>4, <3>2, EffectDone
  <2> QED BY <1>7, <2>3, <2>4 DEF DeleteFilter
<1> QED BY <1>1, <1>2, <1>3, <1>4, <1>5, <1>6, <1>7 DEF ManagerStep

\* A step of manager m leaves the others alone.
LEMMA OneManager ==
  ASSUME TypeOK, NEW m \in Managers, Calls(m) \/ ManagerStep(m) \/ CallFails(m),
         NEW n \in Managers, n # m
  PROVE  /\ pc'[n] = pc[n] /\ op'[n] = op[n] /\ spec'[n] = spec[n] /\ seen'[n] = seen[n]
         /\ fd'[n] = fd[n] /\ outcome'[n] = outcome[n]
<1> USE TypeParts DEF TypeManagers, Goto, Done
<1>1. CASE Calls(m)
  BY <1>1 DEF Calls, Call
<1>2. CASE CallFails(m)
  BY <1>2 DEF CallFails
<1>3. CASE ListQdiscs(m) \/ AddClsact(m)
  BY <1>3 DEF ListQdiscs, AddClsact
<1>4. CASE ListIngress(m)
  BY <1>4 DEF ListIngress
<1>5. CASE ListEgress(m)
  BY <1>5 DEF ListEgress, Act
<1>6. CASE Load(m) \/ AddFilter(m) \/ DeleteFilter(m)
  BY <1>6 DEF Load, AddFilter, DeleteFilter
<1> QED BY <1>1, <1>2, <1>3, <1>4, <1>5, <1>6 DEF ManagerStep

\* Every step.
LEMMA EffectNext == TypeOK /\ EffectInv /\ [Next]_vars => EffectInv'
<1> SUFFICES ASSUME TypeOK, EffectInv, [Next]_vars, NEW n \in Managers PROVE Effect(n)'
  BY DEF EffectInv
<1>1. CASE UNCHANGED vars
  BY <1>1 DEF vars, kernelVars, managerVars, EffectInv, Effect
<1>2. CASE Others /\ Witness
  <2>1. UNCHANGED managerVars
    BY <1>2 DEF Others, LinkDelete, ClsactDelete, LinkAdd, OtherAttach, Detach, Reload, Move
  <2> QED BY <1>2, <2>1, EffectFrame DEF managerVars
<1>3. ASSUME NEW m \in Managers, Calls(m) \/ ManagerStep(m) \/ CallFails(m), Witness
      PROVE  Effect(n)'
  <2>1. CASE n # m
    BY <1>3, <2>1, OneManager, EffectFrame
  <2>2. CASE n = m /\ ManagerStep(m)
    BY <1>3, <2>2, EffectStep
  <2>3. CASE n = m /\ CallFails(m)
    <3>1. seen'[m] = "nothing" /\ pc[m] # "idle"
      BY <2>3, TypeParts DEF CallFails, TypeManagers
    <3>2. Goto(m, "q_relist") \/ Done(m, "failed")
      BY <2>3 DEF CallFails
    <3> QED BY <1>3, <2>3, <3>1, <3>2, EffectGoto, EffectDone
  <2>4. CASE n = m /\ Calls(m)
    <3>1. PICK operation \in {"ensure", "remove"}, s \in Specs : Call(m, operation, s)
      BY <2>4 DEF Calls
    <3>2. pc[m] = "idle" /\ UNCHANGED seen /\ outcome'[m] = "none" /\ pc'[m] \in {"q_list", "f_in"}
      BY <3>1, TypeParts DEF Call, TypeManagers
    <3>3. seen'[m] = "nothing"
      BY <3>2 DEF EffectInv, Effect
    <3> QED BY <2>4, <3>2, <3>3 DEF Effect
  <2> QED BY <1>3, <2>1, <2>2, <2>3, <2>4
<1> QED BY <1>1, <1>2, <1>3 DEF Next

\* An operation that returned without an error was true at an instant of its
\* run: with any number of managers, and whatever others do to the link, its
\* qdisc, its filters and the pinned programs between any two netlink calls.
THEOREM TakesEffect == Spec => []CallsTakeEffect
<1>1. Init => EffectInv
  BY DEF Init, EffectInv, Effect
<1>2. EffectInv => CallsTakeEffect
  BY DEF EffectInv, Effect, CallsTakeEffect
<1> QED BY <1>1, <1>2, EffectNext, TypeCorrect, PTL DEF Spec

-----------------------------------------------------------------------------
(***************************************************************************)
(* Filters of other owners.                                                *)
(***************************************************************************)

\* A filter that a remove has found and will delete is not another owner's.
DoomedInv == \A p \in Positions : Doomed(p) => filters[p] # Foreign

\* The filter is doomed by the listing that finds it.
LEMMA DoomedStep ==
  ASSUME TypeOK, EffectInv, DoomedInv, NEW m \in Managers,
         Calls(m) \/ ManagerStep(m) \/ CallFails(m),
         NEW p \in Positions, op'[m] = "remove", spec'[m].program = p,
         pc'[m] = "f_del" \/ seen'[m] = "same"
  PROVE  filters[p] # Foreign
<1>0. TypeManagers /\ Effect(m)
  BY TypeParts DEF EffectInv
<1>1. CASE CallFails(m) \/ Calls(m)
  BY <1>0, <1>1 DEF CallFails, Calls, Call, Goto, Done, TypeManagers, Effect
<1>2. CASE ListQdiscs(m) \/ AddClsact(m) \/ Load(m) \/ AddFilter(m) \/ DeleteFilter(m)
  BY <1>0, <1>2 DEF ListQdiscs, AddClsact, Load, AddFilter, DeleteFilter, Goto, Done, TypeManagers, Effect
<1>3. CASE ListIngress(m)
  <2>1. pc[m] = "f_in" /\ seen[m] # "same"
    BY <1>0, <1>3 DEF ListIngress, Effect
  <2>2. Goto(m, "f_eg") /\ \E v \in Verdicts(m) : seen' = [seen EXCEPT ![m] = v]
    BY <1>0, <1>3, <2>1 DEF ListIngress, Goto, Done, TypeManagers
  <2>3. "same" \in Verdicts(m) /\ spec' = spec
    BY <1>0, <2>2 DEF Goto, TypeManagers
  <2>4. filters[p] = Wanted(spec[m])
    BY <2>3 DEF Verdicts
  <2> QED BY <2>1, <2>4, Working, Sentinels
<1>4. CASE ListEgress(m)
  <2>1. pc[m] = "f_eg" /\ seen'[m] = "nothing"
    BY <1>0, <1>4 DEF ListEgress, TypeManagers
  <2>2. PICK v \in IF SpecHook(spec[m]) = "egress" THEN Verdicts(m) ELSE {seen[m]} :
          op[m] = "remove" /\ v = "same" /\ Goto(m, "f_del")
    BY <1>0, <1>4, <2>1 DEF ListEgress, Act, Goto, Done, TypeManagers
  <2>3. CASE v \in Verdicts(m)
    <3>1. filters[p] = Wanted(spec[m])
      BY <2>2, <2>3 DEF Verdicts, Goto
    <3> QED BY <2>1, <3>1, Working, Sentinels
  <2>4. CASE v = seen[m]
    BY <2>2, <2>4 DEF DoomedInv, Doomed, Goto
  <2> QED BY <2>2, <2>3, <2>4
<1> QED BY <1>1, <1>2, <1>3, <1>4 DEF ManagerStep

\* Every step, if nobody takes over a filter.
LEMMA DoomedNext ==
  ASSUME ~Takeover, TypeOK, EffectInv, DoomedInv, [Next]_vars
  PROVE  DoomedInv'
<1> SUFFICES ASSUME NEW p \in Positions, Doomed(p)' PROVE filters'[p] # Foreign
  BY DEF DoomedInv
<1>0. TypeKernel
  BY TypeParts
<1>1. CASE UNCHANGED vars
  BY <1>1 DEF vars, kernelVars, managerVars, DoomedInv, Doomed
<1>2. CASE Others
  <2>1. UNCHANGED managerVars
    BY <1>2 DEF Others, LinkDelete, ClsactDelete, LinkAdd, OtherAttach, Detach, Reload, Move
  <2>2. Doomed(p) /\ filters[p] # Foreign
    BY <2>1 DEF managerVars, Doomed, DoomedInv
  <2>3. CASE LinkDelete \/ ClsactDelete
    BY <2>3, Sentinels DEF LinkDelete, ClsactDelete, Empty
  <2>4. CASE UNCHANGED filters
    BY <2>2, <2>4
  <2>5. CASE \E q \in Positions : OtherAttach(q) \/ Detach(q)
    BY <1>0, <2>2, <2>5, Sentinels DEF OtherAttach, Detach, TypeKernel
  <2> QED BY <1>2, <2>3, <2>4, <2>5 DEF Others, LinkAdd, Reload
<1>3. ASSUME NEW m \in Managers, Calls(m) \/ ManagerStep(m) \/ CallFails(m)
      PROVE  filters'[p] # Foreign
  <2>1. filters[p] # Foreign
    <3>1. PICK n \in Managers : /\ op'[n] = "remove" /\ spec'[n].program = p
                                /\ pc'[n] = "f_del" \/ seen'[n] = "same"
      BY DEF Doomed
    <3>2. CASE n # m
      BY <1>3, <3>1, <3>2, OneManager DEF DoomedInv, Doomed
    <3>3. CASE n = m
      BY <1>3, <3>1, <3>3, DoomedStep
    <3> QED BY <3>2, <3>3
  <2>2. CASE UNCHANGED filters
    BY <2>1, <2>2
  <2>3. CASE /\ AddFilter(m)
             /\ filters' = [filters EXCEPT ![spec[m].program] = [id |-> fd[m], on |-> spec[m].link]]
    <3>1. fd[m] # 0
      BY <2>3, TypeParts DEF AddFilter, Phases
    <3>2. [id |-> fd[m], on |-> spec[m].link] # Foreign
      BY <3>1 DEF Foreign
    <3> QED BY <1>0, <2>1, <2>3, <3>2 DEF TypeKernel
  <2>4. CASE filters' = [filters EXCEPT ![spec[m].program] = NoFilter]
    BY <1>0, <2>1, <2>4, Sentinels DEF TypeKernel
  <2> QED BY <1>3, <2>2, <2>3, <2>4, FiltersWritten
<1> QED BY <1>1, <1>2, <1>3 DEF Next

\* As long as nobody attaches a filter between the listing of a remove and its
\* delete, no manager takes away or replaces a filter of another owner.
THEOREM ForeignKept ==
  ASSUME ~Takeover
  PROVE  Spec => ForeignFiltersKept
<1>1. Init => EffectInv /\ DoomedInv
  BY DEF Init, EffectInv, Effect, DoomedInv, Doomed
<1>2. ASSUME TypeOK, EffectInv, DoomedInv, Next, \E m \in Managers : pc'[m] # pc[m],
             NEW p \in Positions, filters[p] = Foreign
      PROVE  filters'[p] = Foreign
  <2>0. TypeKernel
    BY <1>2, TypeParts
  <2>1. ~Others
    BY <1>2 DEF Others, LinkDelete, ClsactDelete, LinkAdd, OtherAttach, Detach, Reload, Move, managerVars
  <2>2. PICK m \in Managers : Calls(m) \/ ManagerStep(m) \/ CallFails(m)
    BY <1>2, <2>1 DEF Next
  <2>3. CASE UNCHANGED filters
    BY <1>2, <2>3
  <2>4. CASE /\ filters[spec[m].program] = NoFilter
             /\ filters' = [filters EXCEPT ![spec[m].program] = [id |-> fd[m], on |-> spec[m].link]]
    BY <1>2, <2>0, <2>4, Sentinels DEF TypeKernel
  <2>5. CASE DeleteFilter(m) /\ filters' = [filters EXCEPT ![spec[m].program] = NoFilter]
    <3>1. pc[m] = "f_del" /\ op[m] = "remove"
      BY <1>2, <2>5, TypeParts DEF DeleteFilter, Phases
    <3>2. Doomed(spec[m].program) /\ spec[m].program \in Positions
      BY <1>2, <3>1, Working DEF Doomed
    <3>3. spec[m].program # p
      BY <1>2, <3>2 DEF DoomedInv
    <3> QED BY <1>2, <2>0, <2>5, <3>3 DEF TypeKernel
  <2> QED BY <1>2, <2>2, <2>3, <2>4, <2>5, FiltersWritten
<1>3. TypeOK /\ EffectInv /\ DoomedInv /\ [Next]_vars =>
        [(\E m \in Managers : pc'[m] # pc[m]) =>
            \A p \in Positions : filters[p] = Foreign => filters'[p] = Foreign]_vars
  BY <1>2
<1>4. TypeOK /\ EffectInv /\ DoomedInv /\ [Next]_vars => DoomedInv'
  BY DoomedNext
<1> QED BY <1>1, <1>3, <1>4, EffectNext, TypeCorrect, PTL DEF Spec, ForeignFiltersKept
==============================================================================
