------------------------------ MODULE TCFilters ------------------------------
(***************************************************************************)
(* TCManager over linuxTCBackend: EnsureFilter and RemoveFilter as the     *)
(* netlink calls they are made of, against a kernel that others change     *)
(* between any two of them.                                                *)
(*                                                                         *)
(* The module looks at one address: a namespace path with its inode and an *)
(* ifindex in it.  All of them are reused, so the link found there changes;*)
(* name and MAC address tell links apart.  Each call opens its own handle  *)
(* in the namespace, checks the link, and then asks for one thing; a       *)
(* replaced link is in another namespace than the handle, so check and     *)
(* request are one step.                                                   *)
(***************************************************************************)
EXTENDS Integers

CONSTANTS
    Managers,          \* TC managers at work on the node
    LinkIDs, FirstLink,\* links that have the address one after the other
    Programs, HookOf,  \* the pinned programs and the hook each belongs to
    MaxVersion,        \* bound: program IDs, counted per program
    MaxMoves,          \* bound: steps of others and failing calls
    Takeover           \* others attach between a manager's list and its delete

Hooks == {"ingress", "egress"}
NoLink == "no link"

ASSUME ConstantsAssumption ==
    /\ FirstLink \in LinkIDs /\ NoLink \notin LinkIDs
    /\ HookOf \in [Programs -> Hooks] /\ Hooks \cap Programs = {}
    /\ MaxVersion \in Nat \ {0} /\ MaxMoves \in Nat /\ Takeover \in BOOLEAN

NoFilter == [id |-> 0, on |-> NoLink]
Foreign == [id |-> 0, on |-> "foreign"]

\* fixedAttachments: one handle per program, all at FixedTCPriority.  The name
\* of a hook stands for any other handle at that priority.
Positions == Programs \cup Hooks
At(hook) == {hook} \cup {p \in Programs : HookOf[p] = hook}

Filters == {NoFilter, Foreign} \cup [id : 1..MaxVersion, on : LinkIDs]
Specs == [link : LinkIDs, program : Programs, id : 1..MaxVersion]
NoSpec == [link |-> NoLink, program |-> "none", id |-> 0]

VARIABLES
    link, used,     \* the link at the address; links it has had so far
    clsact, filters,\* the qdisc of that link, and its filters
    pins,           \* pins[p]: the ID of the pinned program
    pc, op, spec,   \* of a manager: its next call, and what it was asked to do
    seen,           \* what the listing of its hook said, until both are listed
    fd,             \* the ID of the program it has opened
    outcome,        \* of its last operation
    witnessed,      \* history: the operation was true at an instant of its run
    moves

kernelVars == <<link, used, clsact, filters, pins>>
managerVars == <<pc, op, spec, seen, fd, outcome>>
vars == <<kernelVars, managerVars, witnessed, moves>>

EnsureSteps == {"q_list", "q_add", "q_relist", "load", "f_add"}
ListSteps == {"f_in", "f_eg"}

\* Every variable has its type, a link without clsact has no filters, and a
\* program is open only while its filter is being added.
TypeOK ==
    /\ link \in used \cup {NoLink} /\ used \subseteq LinkIDs
    /\ clsact \in BOOLEAN /\ filters \in [Positions -> Filters]
    /\ pins \in [Programs -> 1..MaxVersion]
    /\ pc \in [Managers -> {"idle", "f_del"} \cup EnsureSteps \cup ListSteps]
    /\ op \in [Managers -> {"none", "ensure", "remove"}] /\ spec \in [Managers -> Specs \cup {NoSpec}]
    /\ seen \in [Managers -> {"nothing", "same", "conflict", "absent"}]
    /\ fd \in [Managers -> 0..MaxVersion]
    /\ outcome \in [Managers -> {"none", "ok", "failed"}]
    /\ witnessed \in [Managers -> BOOLEAN] /\ moves \in 0..MaxMoves
    /\ ~clsact => filters = [p \in Positions |-> NoFilter]
    /\ link = NoLink => ~clsact
    /\ \A m \in Managers :
        /\ pc[m] = "idle" <=> spec[m] = NoSpec
        /\ pc[m] \in EnsureSteps => op[m] = "ensure"
        /\ pc[m] = "f_del" => op[m] = "remove"
        /\ fd[m] # 0 <=> pc[m] = "f_add"

Init ==
    /\ link = FirstLink /\ used = {FirstLink}
    /\ clsact = FALSE /\ filters = [p \in Positions |-> NoFilter]
    /\ pins = [p \in Programs |-> 1]
    /\ pc = [m \in Managers |-> "idle"] /\ op = [m \in Managers |-> "none"]
    /\ spec = [m \in Managers |-> NoSpec] /\ seen = [m \in Managers |-> "nothing"]
    /\ fd = [m \in Managers |-> 0] /\ outcome = [m \in Managers |-> "none"]
    /\ witnessed = [m \in Managers |-> FALSE] /\ moves = 0

-----------------------------------------------------------------------------
Wanted(s) == [id |-> s.id, on |-> s.link]
SpecHook(s) == HookOf[s.program]

\* What an operation promises, of link l with filters f.
Holds(operation, s, l, f) ==
    LET there == l = s.link /\ f[s.program] = Wanted(s)
    IN  IF operation = "ensure" THEN there ELSE ~there

\* Kept by every step, of whatever actor: was the operation true at its call, or
\* has it been since?  Of no interest once it has failed.
Witness ==
    witnessed' = [m \in Managers |->
        IF outcome'[m] = "failed" THEN FALSE
        ELSE IF pc[m] # "idle" THEN witnessed[m] \/ Holds(op[m], spec[m], link', filters')
        ELSE IF pc'[m] # "idle" THEN Holds(op'[m], spec'[m], link, filters)
        ELSE witnessed[m]]

\* Mutant: the link is looked up by its ifindex only.
lookupLinkByIndex(m) == link # NoLink

\* lookupLink: ifindex, name and MAC address.
lookupLink(m) == link = spec[m].link

Goto(m, step) == pc' = [pc EXCEPT ![m] = step] /\ UNCHANGED <<op, spec, outcome>>

Done(m, result) ==
    /\ pc' = [pc EXCEPT ![m] = "idle"] /\ outcome' = [outcome EXCEPT ![m] = result]
    /\ op' = [op EXCEPT ![m] = "none"] /\ spec' = [spec EXCEPT ![m] = NoSpec]

\* A manager is called, with a link and a program ID observed some time ago.
Call(m, operation, s) ==
    /\ pc[m] = "idle"
    /\ s.link \in used /\ s.id <= pins[s.program]
    /\ op' = [op EXCEPT ![m] = operation] /\ spec' = [spec EXCEPT ![m] = s]
    /\ outcome' = [outcome EXCEPT ![m] = "none"]
    /\ pc' = [pc EXCEPT ![m] = IF operation = "ensure" THEN "q_list" ELSE "f_in"]
    /\ UNCHANGED <<kernelVars, seen, fd, moves>>

\* Mutant: any qdisc is taken for clsact.
hasAnyQdisc == link # NoLink

hasClsact == clsact

\* EnsureClsact: list the qdiscs; add clsact; if that fails, for whatever
\* reason, list again.
ListQdiscs(m) ==
    /\ pc[m] \in {"q_list", "q_relist"}
    /\ \/ lookupLink(m) /\ hasClsact /\ Goto(m, "f_in")
       \/ lookupLink(m) /\ ~hasClsact /\ pc[m] = "q_list" /\ Goto(m, "q_add")
       \/ (~lookupLink(m) \/ (~hasClsact /\ pc[m] = "q_relist")) /\ Done(m, "failed")
    /\ UNCHANGED <<kernelVars, seen, fd, moves>>

AddClsact(m) ==
    /\ pc[m] = "q_add"
    /\ \/ lookupLink(m) /\ ~clsact /\ clsact' = TRUE /\ Goto(m, "f_in")
       \/ (~lookupLink(m) \/ clsact) /\ UNCHANGED clsact /\ Goto(m, "q_relist")
    /\ UNCHANGED <<link, used, filters, pins, seen, fd, moves>>

\* sameFilter, isFixedAttachment: what a listing says to a manager.  If its own
\* filter and a conflicting one are both there, the kernel's order decides.
Verdicts(m) ==
    LET s == spec[m]
        mine == filters[s.program]
        others == {p \in At(SpecHook(s)) \ {s.program} : filters[p] = Foreign}
    IN  (IF mine = Wanted(s) THEN {"same"} ELSE {})
        \cup (IF mine \notin {NoFilter, Wanted(s)} THEN {"conflict"} ELSE {})
        \cup (IF op[m] = "ensure" /\ others # {} THEN {"conflict"} ELSE {})
        \cup (IF mine = NoFilter /\ (op[m] = "remove" \/ others = {}) THEN {"absent"} ELSE {})

\* Mutant: a remove does not look at the program of the filter it found.
ActRemovesAny(m, verdict) ==
    \/ op[m] = "ensure" /\ verdict = "same" /\ Done(m, "ok")
    \/ op[m] = "ensure" /\ verdict = "absent" /\ Goto(m, "load")
    \/ op[m] = "ensure" /\ verdict = "conflict" /\ Done(m, "failed")
    \/ op[m] = "remove" /\ verdict = "absent" /\ Done(m, "ok")
    \/ op[m] = "remove" /\ verdict # "absent" /\ Goto(m, "f_del")

\* EnsureFilter and RemoveFilter, once both hooks are listed.
Act(m, verdict) ==
    \/ op[m] = "ensure" /\ verdict = "same" /\ Done(m, "ok")
    \/ op[m] = "ensure" /\ verdict = "absent" /\ Goto(m, "load")
    \/ op[m] = "remove" /\ verdict = "absent" /\ Done(m, "ok")
    \/ op[m] = "remove" /\ verdict = "same" /\ Goto(m, "f_del")
    \/ verdict = "conflict" /\ Done(m, "failed")

\* ListFilters: ingress, then egress; only the hook of the filter counts.
ListIngress(m) ==
    /\ pc[m] = "f_in"
    /\ \/ ~lookupLink(m) /\ Done(m, "failed") /\ UNCHANGED seen
       \/ /\ lookupLink(m) /\ Goto(m, "f_eg")
          /\ \/ SpecHook(spec[m]) = "egress" /\ UNCHANGED seen
             \/ /\ SpecHook(spec[m]) = "ingress"
                /\ \E v \in Verdicts(m) : seen' = [seen EXCEPT ![m] = v]
    /\ UNCHANGED <<kernelVars, fd, moves>>

ListEgress(m) ==
    /\ pc[m] = "f_eg"
    /\ \/ ~lookupLink(m) /\ Done(m, "failed")
       \/ /\ lookupLink(m)
          /\ \E v \in IF SpecHook(spec[m]) = "egress" THEN Verdicts(m) ELSE {seen[m]} : Act(m, v)
    /\ seen' = [seen EXCEPT ![m] = "nothing"]
    /\ UNCHANGED <<kernelVars, fd, moves>>

\* Mutant: the ID of the pinned program is not compared.
LoadUnchecked(m) ==
    /\ pc[m] = "load" /\ Goto(m, "f_add")
    /\ fd' = [fd EXCEPT ![m] = pins[spec[m].program]]
    /\ UNCHANGED <<kernelVars, seen, moves>>

\* AttachFilter: open the pinned program and compare its ID.
Load(m) ==
    /\ pc[m] = "load"
    /\ LET id == pins[spec[m].program] IN
       \/ id = spec[m].id /\ Goto(m, "f_add") /\ fd' = [fd EXCEPT ![m] = id]
       \/ id # spec[m].id /\ Done(m, "failed") /\ UNCHANGED fd
    /\ UNCHANGED <<kernelVars, seen, moves>>

\* Mutant: the program is not closed when the kernel refuses the filter.
AddFilterLeaks(m) ==
    /\ pc[m] = "f_add"
    /\ LET p == spec[m].program
           free == lookupLink(m) /\ clsact /\ filters[p] = NoFilter
       IN  \/ /\ free /\ Done(m, "ok") /\ fd' = [fd EXCEPT ![m] = 0]
              /\ filters' = [filters EXCEPT ![p] = [id |-> fd[m], on |-> spec[m].link]]
           \/ ~free /\ Done(m, "failed") /\ UNCHANGED <<filters, fd>>
    /\ UNCHANGED <<link, used, clsact, pins, seen, moves>>

\* addFilter, with NLM_F_CREATE and NLM_F_EXCL.
AddFilter(m) ==
    /\ pc[m] = "f_add"
    /\ LET p == spec[m].program
           free == lookupLink(m) /\ clsact /\ filters[p] = NoFilter
       IN  \/ /\ free /\ Done(m, "ok")
              /\ filters' = [filters EXCEPT ![p] = [id |-> fd[m], on |-> spec[m].link]]
           \/ ~free /\ Done(m, "failed") /\ UNCHANGED filters
    /\ fd' = [fd EXCEPT ![m] = 0]
    /\ UNCHANGED <<link, used, clsact, pins, seen, moves>>

\* deleteFilter: whatever is at the position by now.
DeleteFilter(m) ==
    /\ pc[m] = "f_del"
    /\ LET p == spec[m].program
           found == lookupLink(m) /\ filters[p] # NoFilter
       IN  \/ /\ found /\ Done(m, "ok")
              /\ filters' = [filters EXCEPT ![p] = NoFilter]
           \/ ~found /\ Done(m, "failed") /\ UNCHANGED filters
    /\ UNCHANGED <<link, used, clsact, pins, seen, fd, moves>>

\* A handle or a program cannot be opened, the kernel refuses, or the context is
\* done.
CallFails(m) ==
    /\ pc[m] # "idle" /\ moves < MaxMoves /\ moves' = moves + 1
    /\ IF pc[m] = "q_add" THEN Goto(m, "q_relist") ELSE Done(m, "failed")
    /\ seen' = [seen EXCEPT ![m] = "nothing"] /\ fd' = [fd EXCEPT ![m] = 0]
    /\ UNCHANGED kernelVars

ManagerStep(m) ==
    \/ ListQdiscs(m) \/ AddClsact(m) \/ ListIngress(m) \/ ListEgress(m)
    \/ Load(m) \/ AddFilter(m) \/ DeleteFilter(m)

-----------------------------------------------------------------------------
\* The others: CNI plugins, users of TC, an agent that reloads the collection.
Move ==
    /\ moves < MaxMoves /\ moves' = moves + 1
    /\ UNCHANGED managerVars

Empty == clsact' = FALSE /\ filters' = [p \in Positions |-> NoFilter]

LinkDelete == Move /\ link # NoLink /\ link' = NoLink /\ Empty /\ UNCHANGED <<used, pins>>

LinkAdd(l) ==
    /\ Move /\ link = NoLink /\ l \notin used
    /\ link' = l /\ used' = used \cup {l}
    /\ UNCHANGED <<clsact, filters, pins>>

ClsactDelete == Move /\ clsact /\ Empty /\ UNCHANGED <<link, used, pins>>

\* A remove has found its filter and will delete what it then finds.
Doomed(p) ==
    \E m \in Managers :
        /\ op[m] = "remove" /\ spec[m].program = p
        /\ pc[m] = "f_del" \/ seen[m] = "same"

OtherAttach(p) ==
    /\ Move /\ clsact /\ filters[p] = NoFilter
    /\ Takeover \/ ~Doomed(p)
    /\ filters' = [filters EXCEPT ![p] = Foreign]
    /\ UNCHANGED <<link, used, clsact, pins>>

\* Others may also remove a filter of FNCache by hand.
Detach(p) ==
    /\ Move /\ filters[p] # NoFilter
    /\ filters' = [filters EXCEPT ![p] = NoFilter]
    /\ UNCHANGED <<link, used, clsact, pins>>

Reload(p) ==
    /\ Move /\ pins[p] < MaxVersion
    /\ pins' = [pins EXCEPT ![p] = @ + 1]
    /\ UNCHANGED <<link, used, clsact, filters>>

Others ==
    \/ LinkDelete \/ ClsactDelete
    \/ \E l \in LinkIDs : LinkAdd(l)
    \/ \E p \in Positions : OtherAttach(p) \/ Detach(p)
    \/ \E p \in Programs : Reload(p)

Calls(m) == \E operation \in {"ensure", "remove"}, s \in Specs : Call(m, operation, s)

Next ==
    /\ \/ \E m \in Managers : Calls(m) \/ ManagerStep(m) \/ CallFails(m)
       \/ Others
    /\ Witness

Spec == Init /\ [][Next]_vars

EnsureNow(m, p) ==
    \E s \in Specs : s = [link |-> link, program |-> p, id |-> pins[p]] /\ Call(m, "ensure", s)

\* An operation that was begun goes on, and each run of an agent ensures every
\* filter anew, on the link and with the ID it has just observed.
Fairness ==
    /\ \A m \in Managers : WF_vars(ManagerStep(m) /\ Witness)
    /\ \A p \in Programs : SF_vars((\E m \in Managers : EnsureNow(m, p)) /\ Witness)

FairSpec == Spec /\ Fairness

-----------------------------------------------------------------------------
\* A filter of FNCache is only ever on the link it was meant for, although the
\* link at its address may be another one by the time of each netlink call
\* ("TC link MAC identity mismatch").
FilterOnOwnLink ==
    \A p \in Positions : filters[p] \notin {NoFilter, Foreign} => filters[p].on = link

\* An operation that returned without an error was true at some instant between
\* its call and its return: the filter with this very program was attached to
\* this very link, or it was not.  Lists, comparisons and changes are separate
\* calls, and other managers work on the same position.
CallsTakeEffect ==
    \A m \in Managers : pc[m] = "idle" /\ outcome[m] = "ok" => witnessed[m]

\* A step of a manager never takes away or replaces a filter of another owner
\* ("refusing to remove a filter with a different program identity").
ForeignFiltersKept ==
    [][(\E m \in Managers : pc'[m] # pc[m]) =>
            \A p \in Positions : filters[p] = Foreign => filters'[p] = Foreign]_vars

\* No filter stands in the way of the pinned version of a program.
Unopposed(p) ==
    /\ link # NoLink
    /\ filters[p] \in {NoFilter, [id |-> pins[p], on |-> link]}
    /\ \A q \in At(HookOf[p]) : filters[q] # Foreign

\* Once nothing stands in its way any more, the filter is attached again and
\* again, whatever half-done operations, deleted qdiscs and replaced links came
\* before, and although other managers may remove it.
Converges ==
    \A p \in Programs :
        <>[]Unopposed(p) => []<>(filters[p] = [id |-> pins[p], on |-> link])
==============================================================================
