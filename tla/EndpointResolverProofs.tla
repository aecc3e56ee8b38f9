----------------------- MODULE EndpointResolverProofs -----------------------
(***************************************************************************)
(* Proofs about EndpointResolver for any number of pods, sandboxes and     *)
(* threads and every list of snapshots.                                    *)
(***************************************************************************)
EXTENDS EndpointResolver, NetNSProofs, LinkPlanProofs

(***************************************************************************)
(* Types, and what a scan has in hand at each of its steps.                *)
(***************************************************************************)
Steps == {"list", "status", "stat", "run_ns", "in_ns", "host_veth"}

\* The list and its endpoints.
TypeScan ==
    /\ pc \in {"idle", "next"} \cup Steps
    /\ list \in Manifests \cup {<<>>} /\ pos \in 1..(Len(list) + 1)
    /\ endpoints \in [Pods -> Endpoints \cup {NoEndpoint}]
    /\ outcome \in {"none", "ok", "failed"}

\* What is known of the pod being resolved.
TypeResolve ==
    /\ first \in Infos /\ id \in Sandboxes \cup {NoSandbox}
    /\ peer \in Links \cup {NoLink, ContextDone} /\ host \in Links \cup {NoLink}
    /\ hostIfIndex \in Nat

\* The node, and what happened to the scan.
TypeWorld ==
    /\ life \in [Sandboxes -> {"none", "up", "exited", "stopped", "gone"}]
    /\ cancelled \in BOOLEAN /\ undisturbed \subseteq Pods
    /\ faults \in 0..MaxFaults

\* One call of WithNetNS at a time, made by the scan.
TypeCall == CallInv /\ SingleCall /\ (stack # <<>> <=> pc = "in_ns")

\* The answer of the first ResolveSandbox names a sandbox of the pod and its
\* PID; the inode is of whatever the PID led to.
FirstOK ==
    /\ first.id \in Sandboxes /\ PodOf[first.id] = Pod.uid
    /\ first.pid = PidOf[first.id] /\ first.inode \in Inodes

\* A scan that resolves a pod.
Progress ==
    /\ pos <= Len(list)
    /\ pc \in {"status", "stat"} => id \in Sandboxes /\ PodOf[id] = Pod.uid
    /\ pc \in {"run_ns", "in_ns", "host_veth"} => first # NoInfo
    /\ first # NoInfo => FirstOK
    /\ pc = "host_veth" => peer \in Links
    /\ pc \in {"list", "status", "stat"} /\ first # NoInfo => peer \in Links /\ host \in Links
    /\ peer = ContextDone => cancelled

\* The invariant.
ScanInv == TypeScan /\ TypeResolve /\ TypeWorld /\ TypeCall /\ (pc \in Steps => Progress)

\* The invariant contains the types.
LEMMA ScanInvTypes == ScanInv => TypeOK
<1> SUFFICES ASSUME ScanInv PROVE TypeOK
  OBVIOUS
<1>1. NetNSTypeOK
  <2>1. CallTypes /\ faults \in 0..MaxFaults /\ DOMAIN stack \subseteq {1}
    BY DEF ScanInv, TypeCall, CallInv, TypeWorld, SingleCall
  <2>2. Len(stack) \in Nat /\ DOMAIN stack = 1..Len(stack)
    BY <2>1 DEF CallTypes
  <2>3. Len(stack) <= 1
    <3>1. CASE Len(stack) >= 2
      <4>1. 2 \in DOMAIN stack
        BY <2>2, <3>1
      <4> QED BY <2>1, <4>1
    <3> QED BY <2>2, <3>1
  <2> QED BY <2>1, <2>2, <2>3 DEF NetNSTypeOK, CallTypes, MaxDepth
<1> QED BY <1>1 DEF ScanInv, TypeScan, TypeResolve, TypeWorld, TypeCall, TypeOK, Steps

\* The absent values are not values.
LEMMA Constants ==
  /\ NoInfo \in Infos /\ NoInfo.id = NoSandbox /\ NoSandbox \notin Sandboxes
  /\ NoLink \notin Links /\ ContextDone \notin Links /\ NoLink # ContextDone
BY WorldAssumption DEF NoInfo, Infos, Sandboxes, Namespaces, NoLink, ContextDone, Links, NoSandbox

\* The snapshot being looked at.
LEMMA PodType ==
  ASSUME TypeScan
  PROVE  /\ list \in Seq(PodSnapshots) /\ Len(list) \in Nat /\ pos \in Nat \ {0}
         /\ pos <= Len(list) => Pod \in PodSnapshots /\ Pod.uid \in Pods
<1>1. list \in Seq(PodSnapshots)
  <2>1. <<>> \in Seq(PodSnapshots) /\ Manifests \subseteq Seq(PodSnapshots)
    BY ManifestsAssumption
  <2>2. list \in Manifests \/ list = <<>>
    BY DEF TypeScan
  <2> QED BY <2>1, <2>2
<1>2. Len(list) \in Nat /\ pos \in Nat \ {0}
  BY <1>1 DEF TypeScan
<1>3. ASSUME pos <= Len(list) PROVE Pod \in PodSnapshots
  BY <1>1, <1>2, <1>3 DEF Pod
<1> QED BY <1>1, <1>2, <1>3 DEF PodSnapshots

\* It holds at first.
LEMMA ScanInit == Init => ScanInv
<1> SUFFICES ASSUME Init PROVE ScanInv
  OBVIOUS
<1>1. TypeScan
  BY DEF Init, TypeScan
<1>2. TypeResolve
  <2>1. first = NoInfo /\ id = NoSandbox /\ peer = NoLink /\ host = NoLink /\ hostIfIndex = 0
    BY DEF Init
  <2> QED BY <2>1, Constants DEF TypeResolve
<1>3. TypeWorld
  <2>1. life \in [Sandboxes -> {"none", "up", "exited", "stopped", "gone"}]
    BY DEF Init
  <2>2. cancelled \in BOOLEAN /\ undisturbed \subseteq Pods
    BY DEF Init
  <2>3. faults \in 0..MaxFaults
    BY ConstantsAssumption DEF Init, NetNSInit
  <2> QED BY <2>1, <2>2, <2>3 DEF TypeWorld
<1>4. TypeCall
  BY InitHome DEF Init, NetNSInit, TypeCall, HomeInv, SingleCall
<1> QED BY <1>1, <1>2, <1>3, <1>4 DEF ScanInv, Init, Steps

-----------------------------------------------------------------------------
\* Skipping a pod and failing a scan.
LEMMA Leaves ==
  ASSUME TypeScan, pos <= Len(list), Skip \/ Fail
  PROVE  TypeScan' /\ pc' \in {"idle", "next"}
<1>1. pos' \in 1..(Len(list') + 1) /\ list' = list
  BY PodType DEF Skip, Fail, TypeScan
<1> QED BY <1>1 DEF Skip, Fail, TypeScan

\* A step that calls no namespace function.
LEMMA CallKept ==
  ASSUME TypeCall, UNCHANGED <<ns, parked, stack>>, pc # "in_ns", pc' # "in_ns"
  PROVE  TypeCall'
<1>1. CallInv'
  BY DEF TypeCall, CallInv, CallTypes, Owned, CallbackInTarget
<1> QED BY <1>1 DEF TypeCall, SingleCall

\* A scan that leaves a pod has nothing in hand.
LEMMA LeavesInv ==
  ASSUME ScanInv, TypeScan', TypeResolve', TypeWorld', TypeCall', pc' \in {"idle", "next"}
  PROVE  ScanInv'
BY DEF ScanInv, Steps

\* A scan that goes on with the same pod.
LEMMA SamePod ==
  ASSUME UNCHANGED scanVars
  PROVE  list' = list /\ pos' = pos /\ Pod' = Pod
BY DEF scanVars, Pod

\* A scan begins.
LEMMA StartScanInv ==
  ASSUME ScanInv, NEW pods \in Manifests, StartScan(pods)
  PROVE  ScanInv'
<1>1. TypeScan'
  <2>1. pods \in Seq(PodSnapshots)
    BY ManifestsAssumption
  <2>2. pos' \in 1..(Len(list') + 1) /\ list' \in Manifests
    BY <2>1 DEF StartScan
  <2> QED BY <2>2 DEF StartScan, Goto, TypeScan
<1>2. TypeResolve' /\ TypeWorld' /\ TypeCall' /\ pc' = "next"
  <2>1. TypeCall'
    BY CallKept DEF ScanInv, StartScan, Goto, netnsVars
  <2> QED BY <2>1 DEF ScanInv, StartScan, Goto, TypeResolve, TypeWorld, resolveVars, netnsVars
<1> QED BY <1>1, <1>2, LeavesInv

\* The next snapshot.
LEMMA NextPodInv ==
  ASSUME ScanInv, NextPod
  PROVE  ScanInv'
<1>0. TypeScan /\ TypeResolve /\ TypeWorld /\ TypeCall /\ pc = "next"
  BY DEF ScanInv, NextPod
<1>1. TypeResolve' /\ first' = NoInfo /\ peer' = NoLink
  BY Constants DEF NextPod, ForgetPod, TypeResolve
<1>2. TypeWorld' /\ UNCHANGED <<ns, parked, stack>>
  BY <1>0 DEF NextPod, TypeWorld, historyVars, netnsVars
<1>3. CASE pos <= Len(list) /\ (Skip \/ Fail)
  <2>1. TypeScan' /\ pc' \in {"idle", "next"}
    BY <1>0, <1>3, Leaves
  <2>2. TypeCall'
    BY <1>0, <1>2, <2>1, CallKept
  <2> QED BY <1>1, <1>2, <2>1, <2>2, LeavesInv
<1>4. CASE pc' = "idle" /\ outcome' = "ok" /\ UNCHANGED <<list, pos, endpoints>>
  <2>1. TypeScan' /\ TypeCall'
    BY <1>0, <1>2, <1>4, CallKept DEF TypeScan
  <2> QED BY <1>1, <1>2, <1>4, <2>1, LeavesInv
<1>5. CASE pos <= Len(list) /\ pc' = "list" /\ UNCHANGED scanVars
  <2>1. TypeScan' /\ TypeCall'
    BY <1>0, <1>2, <1>5, CallKept DEF TypeScan, scanVars, Steps
  <2>2. Progress'
    BY <1>1, <1>5, Constants DEF Progress, scanVars
  <2> QED BY <1>1, <1>2, <2>1, <2>2 DEF ScanInv
<1> QED BY <1>3, <1>4, <1>5 DEF NextPod, Goto

\* The runtime names a sandbox of the pod.
LEMMA ListInv ==
  ASSUME ScanInv, ListPodSandbox
  PROVE  ScanInv'
<1>0. TypeScan /\ TypeResolve /\ TypeWorld /\ TypeCall /\ Progress /\ pc = "list"
  BY DEF ScanInv, ListPodSandbox, Steps
<1>1. UNCHANGED <<first, peer, host, hostIfIndex>> /\ TypeWorld' /\ UNCHANGED <<cancelled, ns, parked, stack>>
  BY <1>0 DEF ListPodSandbox, TypeWorld, historyVars, netnsVars
<1>2. CASE Skip \/ Fail
  <2>1. TypeScan' /\ pc' \in {"idle", "next"} /\ UNCHANGED id
    <3>1. UNCHANGED id
      BY <1>2 DEF ListPodSandbox, Skip, Fail, Goto
    <3> QED BY <1>0, <1>2, <3>1, Leaves DEF Progress
  <2>2. TypeCall' /\ TypeResolve'
    BY <1>0, <1>1, <2>1, CallKept DEF TypeResolve
  <2> QED BY <1>1, <2>1, <2>2, LeavesInv
<1>3. CASE id' \in ReadySandboxes /\ pc' = "status" /\ UNCHANGED scanVars
  <2>1. id' \in Sandboxes /\ PodOf[id'] = Pod.uid
    BY <1>3 DEF ReadySandboxes
  <2>2. TypeScan' /\ TypeCall' /\ TypeResolve'
    BY <1>0, <1>1, <1>3, <2>1, CallKept DEF TypeScan, TypeResolve, scanVars, Steps
  <2>3. Progress'
    BY <1>0, <1>1, <1>3, <2>1, SamePod DEF Progress, FirstOK
  <2> QED BY <1>1, <2>2, <2>3 DEF ScanInv
<1> QED BY <1>2, <1>3 DEF ListPodSandbox, Goto

\* Its status.
LEMMA StatusInv ==
  ASSUME ScanInv, PodSandboxStatus
  PROVE  ScanInv'
<1>0. TypeScan /\ TypeResolve /\ TypeWorld /\ TypeCall /\ Progress /\ pc = "status"
  BY DEF ScanInv, PodSandboxStatus, Steps
<1>1. UNCHANGED resolveVars /\ TypeWorld' /\ UNCHANGED <<cancelled, ns, parked, stack>>
  BY <1>0 DEF PodSandboxStatus, TypeWorld, historyVars, netnsVars
<1>2. TypeResolve'
  BY <1>0, <1>1 DEF TypeResolve, resolveVars
<1>3. CASE Skip
  BY <1>0, <1>1, <1>2, <1>3, Leaves, CallKept, LeavesInv DEF Progress
<1>4. CASE pc' = "stat" /\ UNCHANGED scanVars
  <2>1. TypeScan' /\ TypeCall'
    BY <1>0, <1>1, <1>4, CallKept DEF TypeScan, scanVars, Steps
  <2>2. Progress'
    BY <1>0, <1>1, <1>4, SamePod DEF Progress, FirstOK, resolveVars
  <2> QED BY <1>1, <1>2, <2>1, <2>2 DEF ScanInv
<1> QED BY <1>3, <1>4 DEF PodSandboxStatus, Goto

\* The second answer is compared with the first.
LEMMA AcceptInv ==
  ASSUME TypeScan, Progress, pc = "stat", first # NoInfo, first \in Infos, NEW info, Accept(info)
  PROVE  TypeScan' /\ pc' \in {"idle", "next"}
<1>1. CASE Skip \/ Fail
  BY <1>1, Leaves DEF Progress
<1>2. CASE /\ endpoints' = [endpoints EXCEPT ![Pod.uid] = [info |-> first, peer |-> peer, host |-> host]]
           /\ pc' = "next" /\ pos' = pos + 1 /\ UNCHANGED <<list, outcome>>
  <2>1. [info |-> first, peer |-> peer, host |-> host] \in Endpoints
    BY DEF Progress, Endpoints
  <2>2. Pod.uid \in Pods /\ pos <= Len(list)
    BY PodType DEF Progress
  <2>3. endpoints' \in [Pods -> Endpoints \cup {NoEndpoint}]
    BY <1>2, <2>1, <2>2 DEF TypeScan
  <2>4. pos' \in 1..(Len(list') + 1)
    BY <1>2, <2>2, PodType
  <2> QED BY <1>2, <2>3, <2>4 DEF TypeScan
<1> QED BY <1>1, <1>2 DEF Accept, Goto

\* The PID of the sandbox leads to a namespace.
LEMMA BehindType ==
  ASSUME NEW pid \in Nat, NEW found \in Behind(pid), found # NoProcess
  PROVE  found \in Namespaces /\ InodeOf[found] \in Inodes /\ InodeOf[found] \in Nat
<1>1. found \in Namespaces
  BY DEF Behind, Namespaces, Sandboxes
<1> QED BY <1>1, Inodes1, ConstantsAssumption DEF Namespaces

\* What its PID leads to: the first answer, or the end of the second.
LEMMA StatInv ==
  ASSUME ScanInv, StatNetNS
  PROVE  ScanInv'
<1>0. TypeScan /\ TypeResolve /\ TypeWorld /\ TypeCall /\ Progress /\ pc = "stat"
  BY DEF ScanInv, StatNetNS, Steps
<1>1. UNCHANGED <<id, peer, host, hostIfIndex, cancelled, ns, parked, stack>> /\ TypeWorld'
  BY <1>0 DEF StatNetNS, TypeWorld, historyVars, netnsVars
<1>2. ASSUME TypeScan', pc' \in {"idle", "next"}, first' = first PROVE ScanInv'
  <2>1. TypeResolve' /\ TypeCall'
    BY <1>0, <1>1, <1>2, CallKept DEF TypeResolve
  <2> QED BY <1>1, <1>2, <2>1, LeavesInv
<1>3. CASE Skip /\ UNCHANGED first
  BY <1>0, <1>2, <1>3, Leaves DEF Progress
<1>4. CASE first # NoInfo /\ \E info : Accept(info) /\ UNCHANGED first
  BY <1>0, <1>2, <1>4, AcceptInv DEF TypeResolve
<1>5. ASSUME NEW found \in Behind(PidOf[id]), found # NoProcess, first = NoInfo,
             first' = [id |-> id, pid |-> PidOf[id], inode |-> InodeOf[found]],
             pc' = "run_ns", UNCHANGED scanVars
      PROVE  ScanInv'
  <2>1. id \in Sandboxes /\ PidOf[id] \in Nat /\ PodOf[id] = Pod.uid
    BY <1>0, WorldAssumption DEF Progress
  <2>2. InodeOf[found] \in Inodes /\ InodeOf[found] \in Nat
    BY <1>5, <2>1, BehindType
  <2> DEFINE info == [id |-> id, pid |-> PidOf[id], inode |-> InodeOf[found]]
  <2>3. info \in Infos /\ info.id = id /\ info.pid = PidOf[id] /\ info.inode \in Inodes
    BY <2>1, <2>2 DEF Infos
  <2>4. first' = info
    BY <1>5
  <2> HIDE DEF info
  <2>5. TypeResolve' /\ TypeScan' /\ TypeCall'
    <3>1. TypeResolve'
      BY <1>0, <1>1, <2>3, <2>4 DEF TypeResolve
    <3>2. TypeScan'
      BY <1>0, <1>5 DEF TypeScan, scanVars, Steps
    <3> QED BY <1>0, <1>1, <1>5, <3>1, <3>2, CallKept
  <2>6. FirstOK' /\ first' # NoInfo
    BY <1>5, <2>1, <2>3, <2>4, SamePod, Constants DEF FirstOK
  <2>7. Progress'
    BY <1>0, <1>1, <1>5, <2>6, SamePod DEF Progress
  <2> QED BY <1>1, <2>5, <2>7 DEF ScanInv
<1> QED BY <1>3, <1>4, <1>5 DEF StatNetNS, Goto

\* The host end of the veth pair.
LEMMA HostVethInv ==
  ASSUME ScanInv, NEW t \in Threads, HostVeth(t)
  PROVE  ScanInv'
<1>0. TypeScan /\ TypeResolve /\ TypeWorld /\ TypeCall /\ Progress /\ pc = "host_veth"
  BY DEF ScanInv, HostVeth, Steps
<1>1. UNCHANGED <<first, id, peer, hostIfIndex, cancelled, ns, parked, stack>> /\ TypeWorld'
  BY <1>0 DEF HostVeth, TypeWorld, historyVars, netnsVars
<1>2. CASE (Skip \/ Fail) /\ UNCHANGED host
  BY <1>0, <1>1, <1>2, Leaves, CallKept, LeavesInv DEF Progress, TypeResolve
<1>3. CASE host' \in LinkByIndex(ns[t], hostIfIndex) /\ pc' = "list" /\ UNCHANGED scanVars
  <2>1. host' \in Links
    <3>1. ns[t] \in Namespaces
      BY <1>0 DEF TypeCall, CallInv, CallTypes
    <3> QED BY <1>3, <3>1 DEF LinkByIndex, Links, Namespaces, Sandboxes
  <2>2. TypeScan' /\ TypeCall' /\ TypeResolve'
    <3>1. TypeScan'
      BY <1>0, <1>3 DEF TypeScan, scanVars, Steps
    <3> QED BY <1>0, <1>1, <1>3, <2>1, <3>1, CallKept DEF TypeResolve
  <2>3. Progress'
    BY <1>0, <1>1, <1>3, <2>1, SamePod DEF Progress, FirstOK
  <2> QED BY <1>1, <2>2, <2>3 DEF ScanInv
<1> QED BY <1>2, <1>3 DEF HostVeth, Goto

\* A call that fails.
LEMMA CallFailsInv ==
  ASSUME ScanInv, CallFails
  PROVE  ScanInv'
<1>0. TypeScan /\ TypeResolve /\ TypeWorld /\ TypeCall /\ Progress /\ pc # "in_ns"
  BY DEF ScanInv, CallFails, Steps
<1>1. TypeWorld'
  BY <1>0, ConstantsAssumption DEF CallFails, TypeWorld, Fault
<1>2. UNCHANGED <<resolveVars, ns, parked, stack>> /\ Skip
  BY DEF CallFails
<1>3. TypeResolve'
  BY <1>0, <1>2 DEF TypeResolve, resolveVars
<1> QED BY <1>0, <1>1, <1>2, <1>3, Leaves, CallKept, LeavesInv DEF Progress

-----------------------------------------------------------------------------
(***************************************************************************)
(* The call of WithNetNS.                                                  *)
(***************************************************************************)

\* What the scan does to the state of NetNSManager is what NetNS says.
LEMMA CallStep ==
  ASSUME TypeCall, SingleCall', stack' # <<>> <=> pc' = "in_ns", NetNSStep
  PROVE  TypeCall'
BY CallInvStep DEF TypeCall

\* WithNetNS is called,
LEMMA RunNSInv ==
  ASSUME ScanInv, RunNS
  PROVE  ScanInv'
<1>0. TypeScan /\ TypeResolve /\ TypeWorld /\ TypeCall /\ Progress /\ pc = "run_ns"
  BY DEF ScanInv, RunNS, Steps
<1>1. UNCHANGED resolveVars /\ UNCHANGED <<life, cancelled, undisturbed>>
  BY DEF RunNS, historyVars
<1>2. TypeResolve'
  BY <1>0, <1>1 DEF TypeResolve, resolveVars
<1>3. TypeWorld'
  BY <1>0, <1>1 DEF TypeWorld, RunNS, netnsVars, WithNetNS
<1>4. CASE Fail /\ UNCHANGED netnsVars
  BY <1>0, <1>2, <1>3, <1>4, Leaves, CallKept, LeavesInv DEF Progress, netnsVars
<1>5. ASSUME pc' = "in_ns", UNCHANGED scanVars, NEW t \in Threads, WithNetNS(t, first.inode)
      PROVE  ScanInv'
  <2>1. first.inode \in Inodes /\ CallTypes /\ stack = <<>>
    BY <1>0 DEF Progress, FirstOK, TypeCall, CallInv
  <2>3. SingleCall' /\ stack' # <<>>
    BY <1>5, <2>1, CallBegins
  <2>4. TypeCall'
    BY <1>0, <1>5, <2>1, <2>3, CallStep DEF NetNSStep
  <2>5. TypeScan'
    BY <1>0, <1>5 DEF TypeScan, scanVars, Steps
  <2>6. Progress'
    BY <1>0, <1>1, <1>5, SamePod DEF Progress, FirstOK, resolveVars
  <2> QED BY <1>2, <1>3, <2>4, <2>5, <2>6 DEF ScanInv
<1> QED BY <1>4, <1>5 DEF RunNS, Goto

\* A step inside the call that does not end it, or does and leaves the pod.
LEMMA InCall ==
  ASSUME ScanInv, pc = "in_ns", NetNSStep, UNCHANGED resolveVars, TypeWorld', UNCHANGED cancelled,
         \/ stack' = <<>> /\ (Skip \/ Fail)
         \/ stack' # <<>> /\ UNCHANGED <<pc, scanVars>>,
         SingleCall'
  PROVE  ScanInv'
<1>0. TypeScan /\ TypeResolve /\ TypeCall /\ Progress
  BY DEF ScanInv, Steps
<1>1. TypeResolve'
  BY <1>0 DEF TypeResolve, resolveVars
<1>2. CASE stack' = <<>> /\ (Skip \/ Fail)
  <2>1. TypeScan' /\ pc' \in {"idle", "next"}
    BY <1>0, <1>2, Leaves DEF Progress
  <2>2. TypeCall'
    BY <1>0, <1>2, <2>1, CallStep
  <2> QED BY <1>1, <2>1, <2>2, LeavesInv
<1>3. CASE stack' # <<>> /\ UNCHANGED <<pc, scanVars>>
  <2>1. TypeCall'
    BY <1>0, <1>3, CallStep
  <2>2. TypeScan'
    BY <1>0, <1>3 DEF TypeScan, scanVars
  <2>3. Progress'
    BY <1>0, <1>3, SamePod DEF Progress, FirstOK, resolveVars
  <2> QED BY <1>1, <2>1, <2>2, <2>3 DEF ScanInv
<1> QED BY <1>2, <1>3

\* opens the namespace of the thread,
LEMMA OpenSelfInv ==
  ASSUME ScanInv, OpenSelfInCall
  PROVE  ScanInv'
<1>0. TypeWorld /\ CallTypes /\ SingleCall /\ pc = "in_ns" /\ OpenSelf /\ NetNSStep
  BY DEF ScanInv, TypeCall, CallInv, OpenSelfInCall, NetNSStep
<1>1. UNCHANGED resolveVars /\ UNCHANGED <<life, cancelled>> /\ SingleCall'
  BY <1>0, CallStaysSingle DEF OpenSelfInCall
<1>2. TypeWorld'
  <2>1. faults' \in 0..MaxFaults
    BY <1>0, ConstantsAssumption DEF OpenSelf, Fault, TypeWorld
  <2>2. undisturbed' \subseteq Pods
    BY <1>0 DEF OpenSelfInCall, TypeWorld
  <2> QED BY <1>0, <1>1, <2>1, <2>2 DEF TypeWorld
<1>3. \/ stack' = <<>> /\ Fail
      \/ stack' # <<>> /\ UNCHANGED <<pc, scanVars>>
  BY DEF OpenSelfInCall
<1> QED BY <1>0, <1>1, <1>2, <1>3, InCall

\* enters the other one,
LEMMA EnterInv ==
  ASSUME ScanInv, EnterInCall
  PROVE  ScanInv'
<1>0. TypeWorld /\ CallTypes /\ SingleCall /\ pc = "in_ns"
  BY DEF ScanInv, TypeCall, CallInv, EnterInCall
<1>1. UNCHANGED resolveVars /\ UNCHANGED <<life, cancelled>>
  BY DEF EnterInCall
<1>2. \/ EnterFails /\ Fail
      \/ \E found \in Namespaces : Enter(found) /\ UNCHANGED <<pc, scanVars>>
  BY DEF EnterInCall
<1>3. TypeWorld'
  <2>1. faults' \in 0..MaxFaults
    BY <1>0, ConstantsAssumption DEF EnterInCall, Enter, Fault, TypeWorld
  <2>2. undisturbed' \subseteq Pods
    BY <1>0 DEF EnterInCall, TypeWorld
  <2> QED BY <1>0, <1>1, <2>1, <2>2 DEF TypeWorld
<1>4. NetNSStep /\ SingleCall'
  BY <1>0, <1>2, CallStaysSingle DEF NetNSStep
<1>5. \/ stack' = <<>> /\ Fail
      \/ stack' # <<>> /\ UNCHANGED <<pc, scanVars>>
  BY <1>0, <1>2, CallSteps
<1> QED BY <1>0, <1>1, <1>3, <1>4, <1>5, InCall

\* runs the callback,
LEMMA PodEth0Inv ==
  ASSUME ScanInv, PodEth0
  PROVE  ScanInv'
<1>0. /\ TypeScan /\ TypeResolve /\ TypeWorld /\ TypeCall /\ Progress /\ CallTypes /\ SingleCall
      /\ pc = "in_ns" /\ Return
  BY DEF ScanInv, TypeCall, CallInv, PodEth0, Steps
<1>1. UNCHANGED <<life, pc, first, id, host, cancelled, undisturbed>> /\ UNCHANGED scanVars
  BY DEF PodEth0, historyVars
<1>2. stack' # <<>> /\ SingleCall'
  BY <1>0, CallSteps, CallStaysSingle
<1>3. TypeCall'
  BY <1>0, <1>1, <1>2, CallStep DEF NetNSStep
<1>4. ns[Top.thread] \in Namespaces
  <2>1. stack # <<>>
    BY <1>0 DEF Return, Active
  <2> QED BY <1>0, <2>1, TheCall DEF CallTypes
<1>5. /\ peer' \in Links \cup {NoLink, ContextDone} /\ hostIfIndex' \in Nat
      /\ peer' = ContextDone => cancelled
  <2> DEFINE n == ns[Top.thread]
  <2>1. n \in Namespaces /\ (n # "host" => n \in Sandboxes)
    BY <1>4 DEF Namespaces, Sandboxes
  <2>2. <<"eth0", n>> \in Links
    BY <2>1 DEF Links
  <2>3. \/ cancelled /\ peer' = ContextDone /\ hostIfIndex' = 0
        \/ n = "host" /\ peer' = <<"eth0", n>> /\ hostIfIndex' = NodeIdx
        \/ n # "host" /\ peer' = <<"eth0", n>> /\ hostIfIndex' = HostIdxOf[n]
        \/ peer' = NoLink /\ hostIfIndex' = 0
    BY DEF PodEth0
  <2> HIDE DEF n
  <2>4. hostIfIndex' \in Nat
    BY <2>1, <2>3, WorldAssumption
  <2> QED BY <2>2, <2>3, <2>4, Constants
<1>6. TypeResolve' /\ TypeScan' /\ TypeWorld'
  <2>1. TypeResolve'
    BY <1>0, <1>1, <1>5 DEF TypeResolve
  <2>2. TypeScan'
    BY <1>0, <1>1 DEF TypeScan, scanVars
  <2>3. TypeWorld'
    BY <1>0, <1>1 DEF TypeWorld, Return
  <2> QED BY <2>1, <2>2, <2>3
<1>7. Progress'
  BY <1>0, <1>1, <1>5, SamePod DEF Progress, FirstOK
<1> QED BY <1>3, <1>6, <1>7 DEF ScanInv

\* and goes back.
LEMMA RestoreInv ==
  ASSUME ScanInv, RestoreInCall
  PROVE  ScanInv'
<1>0. /\ TypeScan /\ TypeResolve /\ TypeWorld /\ TypeCall /\ Progress /\ CallTypes /\ SingleCall
      /\ pc = "in_ns" /\ Restore /\ NetNSStep
  BY DEF ScanInv, TypeCall, CallInv, RestoreInCall, Steps, NetNSStep
<1>1. UNCHANGED resolveVars /\ UNCHANGED <<life, cancelled>> /\ SingleCall' /\ stack' = <<>>
  BY <1>0, CallStaysSingle, CallSteps DEF RestoreInCall
<1>2. TypeWorld'
  <2>1. faults' \in 0..MaxFaults
    BY <1>0, ConstantsAssumption DEF Restore, Fault, TypeWorld
  <2>2. undisturbed' \subseteq Pods
    BY <1>0 DEF RestoreInCall, TypeWorld
  <2> QED BY <1>0, <1>1, <2>1, <2>2 DEF TypeWorld
<1>3. CASE Skip \/ Fail
  BY <1>0, <1>1, <1>2, <1>3, InCall
<1>4. CASE peer \in Links /\ pc' = "host_veth" /\ UNCHANGED scanVars
  <2>1. TypeCall'
    BY <1>0, <1>1, <1>4, CallStep
  <2>2. TypeScan' /\ TypeResolve'
    BY <1>0, <1>1, <1>4 DEF TypeScan, TypeResolve, scanVars, resolveVars, Steps
  <2>3. Progress'
    BY <1>0, <1>1, <1>4, SamePod DEF Progress, FirstOK, resolveVars
  <2> QED BY <1>2, <2>1, <2>2, <2>3 DEF ScanInv
<1> QED BY <1>3, <1>4 DEF RestoreInCall, Goto

-----------------------------------------------------------------------------
\* Steps that are not the scan's.
LEMMA WorldInv ==
  ASSUME ScanInv, TypeWorld', UNCHANGED <<pc, scanVars, resolveVars>>, cancelled => cancelled', TypeCall'
  PROVE  ScanInv'
<1>1. TypeScan' /\ TypeResolve'
  BY DEF ScanInv, TypeScan, TypeResolve, scanVars, resolveVars
<1>2. ASSUME Progress PROVE Progress'
  BY <1>2, SamePod DEF Progress, FirstOK, resolveVars
<1> QED BY <1>1, <1>2 DEF ScanInv

\* Cancellation.
LEMMA CancelInv ==
  ASSUME ScanInv, Cancel
  PROVE  ScanInv'
<1>1. TypeWorld'
  BY ConstantsAssumption DEF ScanInv, Cancel, TypeWorld, Fault
<1>2. TypeCall'
  BY DEF ScanInv, Cancel, TypeCall, SingleCall, CallInv, CallTypes, Owned, CallbackInTarget
<1> QED BY <1>1, <1>2, WorldInv DEF Cancel

\* Sandboxes that come and go.
LEMMA SandboxInv ==
  ASSUME ScanInv, NEW s \in Sandboxes, StartSandbox(s) \/ StopSandbox(s)
  PROVE  ScanInv'
<1>1. UNCHANGED <<cancelled, pc, scanVars, resolveVars, ns, parked, stack, faults>>
  BY DEF StartSandbox, StopSandbox, netnsVars
<1>2. TypeWorld'
  <2>1. life \in [Sandboxes -> {"none", "up", "exited", "stopped", "gone"}] /\ undisturbed \subseteq Pods
    BY DEF ScanInv, TypeWorld
  <2>2. \E new \in {"up", "exited", "stopped", "gone"} : life' = [life EXCEPT ![s] = new]
    BY DEF StartSandbox, StopSandbox
  <2>3. undisturbed' \subseteq undisturbed
    BY DEF StartSandbox, StopSandbox, Disturb
  <2>4. life' \in [Sandboxes -> {"none", "up", "exited", "stopped", "gone"}]
    BY <2>1, <2>2
  <2> QED BY <1>1, <2>1, <2>3, <2>4 DEF ScanInv, TypeWorld
<1>3. TypeCall'
  BY <1>1 DEF ScanInv, TypeCall, SingleCall, CallInv, CallTypes, Owned, CallbackInTarget
<1> QED BY <1>1, <1>2, <1>3, WorldInv

\* Threads that are replaced.
LEMMA ReplaceInv ==
  ASSUME ScanInv, NEW t \in Threads, ReplaceThread(t)
  PROVE  ScanInv'
<1>1. UNCHANGED <<life, pc, scanVars, resolveVars, cancelled, undisturbed, stack, faults>> /\ Spawn(t)
  BY DEF ReplaceThread, historyVars, Spawn
<1>2. TypeWorld'
  BY <1>1 DEF ScanInv, TypeWorld
<1>3. TypeCall'
  BY <1>1, CallStep DEF ScanInv, TypeCall, SingleCall, NetNSStep
<1> QED BY <1>1, <1>2, <1>3, WorldInv

\* Every step.
LEMMA ScanNext == ScanInv /\ [Next]_vars => ScanInv'
<1> SUFFICES ASSUME ScanInv, [Next]_vars PROVE ScanInv'
  OBVIOUS
<1>1. CASE UNCHANGED vars
  <2>1. TypeWorld' /\ TypeCall'
    BY <1>1 DEF vars, historyVars, netnsVars, ScanInv, TypeWorld, TypeCall, SingleCall, CallInv, CallTypes, Owned,
       CallbackInTarget
  <2> QED BY <1>1, <2>1, WorldInv DEF vars, historyVars
<1> QED BY <1>1, StartScanInv, NextPodInv, ListInv, StatusInv, StatInv, RunNSInv, OpenSelfInv, EnterInv, PodEth0Inv,
           RestoreInv, HostVethInv, CallFailsInv, CancelInv, ReplaceInv, SandboxInv DEF Next, ScanStep

\* In every reachable state.
LEMMA ScanReachable == Spec => []ScanInv
BY ScanInit, ScanNext, PTL DEF Spec

\* Every variable keeps its type; in particular the scan never looks past the
\* end of its list, and a call of WithNetNS is in progress exactly while a pod's
\* eth0 is being read.
THEOREM TypeCorrect == Spec => []TypeOK
BY ScanReachable, ScanInvTypes, PTL

\* eth0 is read in a namespace with the inode that the runtime's PID led to,
\* for every list, and whatever is cancelled, stopped or fails on the way.
THEOREM ReadsInTarget == Spec => []CallbackInTarget
<1>1. ScanInv => CallbackInTarget
  BY DEF ScanInv, TypeCall, CallInv
<1> QED BY <1>1, ScanReachable, PTL

-----------------------------------------------------------------------------
(***************************************************************************)
(* Threads.                                                                *)
(***************************************************************************)

\* What the scan does to the threads is a step of WithNetNS.
LEMMA NetStep ==
  ASSUME ScanInv, [Next]_vars
  PROVE  NetNSStep \/ UNCHANGED <<ns, parked, stack>>
<1>1. RunNS => NetNSStep \/ UNCHANGED <<ns, parked, stack>>
  <2>1. pc = "run_ns" => first.inode \in Inodes
    BY DEF ScanInv, Steps, Progress, FirstOK
  <2> QED BY <2>1 DEF RunNS, NetNSStep, netnsVars
<1>2. OpenSelfInCall \/ EnterInCall \/ PodEth0 \/ RestoreInCall => NetNSStep
  BY DEF OpenSelfInCall, EnterInCall, PodEth0, RestoreInCall, NetNSStep
<1>3. \A t \in Threads : ReplaceThread(t) => NetNSStep
  BY DEF ReplaceThread, NetNSStep
<1> QED BY <1>1, <1>2, <1>3 DEF Next, ScanStep, StartScan, NextPod, ListPodSandbox, PodSandboxStatus, StatNetNS,
           HostVeth, CallFails, Cancel, StartSandbox, StopSandbox, vars, netnsVars

\* The scan makes one call at a time, so the threads return.
LEMMA HomeNext ==
  ASSUME Leader \notin FailingThreads, ScanInv, HomeInv, [Next]_vars
  PROVE  HomeInv'
<1>1. CASE UNCHANGED <<ns, parked, stack>>
  BY <1>1 DEF HomeInv, PoolIsHome, Pool, Locked, CallInv, CallTypes, Owned, CallbackInTarget
<1>2. CASE NetNSStep
  <2>1. CallTypes /\ SingleCall'
    BY ScanNext DEF ScanInv, TypeCall, CallInv
  <2>2. (\E t \in Threads, target \in Inodes : WithNetNS(t, target)) => stack = <<>>
    BY <2>1, SinglePush
  <2> QED BY <1>2, <2>2, HomeInvStep
<1> QED BY <1>1, <1>2, NetStep

\* In every reachable state.
LEMMA HomeReachable ==
  ASSUME Leader \notin FailingThreads
  PROVE  Spec => [](ScanInv /\ HomeInv)
<1>1. ScanInv /\ HomeInv /\ [Next]_vars => HomeInv'
  BY HomeNext
<1>2. Init => HomeInv
  BY InitHome DEF Init
<1> QED BY <1>1, <1>2, ScanInit, ScanNext, PTL DEF Spec

\* No thread of the pool is left in a pod's namespace by a scan, whatever fails
\* in it, if going back never fails on the thread-group leader.
THEOREM PoolStaysHome ==
  ASSUME Leader \notin FailingThreads
  PROVE  Spec => []PoolIsHome
<1>1. HomeInv => PoolIsHome
  BY DEF HomeInv
<1> QED BY <1>1, HomeReachable, PTL

-----------------------------------------------------------------------------
(***************************************************************************)
(* What was read at different times belongs together, if the runtime       *)
(* notices the exit of a pause process before its PID is used again.       *)
(***************************************************************************)

\* Ready sandboxes have their PIDs, wired ones their ifindexes, to themselves.
NodeInv ==
    /\ \A s, u \in Sandboxes : Ready(s) /\ Ready(u) /\ PidOf[s] = PidOf[u] => s = u
    /\ \A s, u \in Sandboxes : Wired(s) /\ Wired(u) /\ HostIdxOf[s] = HostIdxOf[u] => s = u

\* The peer link is the first sandbox's, and so is the ifindex it names.
PeerOK == peer = <<"eth0", first.id>> /\ hostIfIndex = HostIdxOf[first.id]
\* The host link is the first sandbox's.
HostOK == host = <<"veth", first.id>>

\* What has been read is right as long as the sandbox of the first answer is
\* ready, and right for good once the runtime has named that sandbox again.
ReadOK ==
    /\ life[first.id] # "none"
    /\ Ready(first.id) =>
        /\ first.inode = InodeOf[first.id]
        /\ pc = "in_ns" /\ Top.stage = "run" => ns[Top.thread] = first.id
        /\ pc = "in_ns" /\ Top.stage = "restore" => peer = ContextDone \/ PeerOK
        /\ pc \in {"host_veth", "list"} => PeerOK
        /\ pc = "list" => HostOK
    /\ pc = "in_ns" => Top.target = first.inode
    /\ pc \in {"status", "stat"} /\ id = first.id => PeerOK /\ HostOK /\ first.inode = InodeOf[first.id]

\* The invariant behind EndpointCoherent.
CoherentInv ==
    /\ NodeInv /\ EndpointCoherent
    /\ pc \in {"status", "stat"} => life[id] # "none"
    /\ pc \in Steps /\ first # NoInfo => ReadOK

\* A scan fails because of its list, of a failed call or cancellation, or of
\* the pod itself: one that nothing has happened to is still there.
FailInv ==
    /\ FailsForItsPod
    /\ outcome = "failed" => pc = "idle"
    /\ cancelled => undisturbed = {}
    /\ pc \in {"status", "stat"} /\ Pod.uid \in undisturbed => Ready(id)
    /\ pc \in Steps /\ first # NoInfo /\ Pod.uid \in undisturbed => life[first.id] = "up"

\* The pods of the first n snapshots that the scan must have found.
Found(n) ==
    \A j \in 1..n, s \in Sandboxes :
        /\ list[j].kind = "running" /\ list[j].uid = PodOf[s]
        /\ PodOf[s] \in undisturbed /\ Settled(PodOf[s]) /\ life[s] = "up"
        => IsEndpointOf(endpoints[PodOf[s]], s)

\* A scan that has not failed has found them as far as it got.
FoundInv ==
    /\ outcome # "failed" => Found(pos - 1)
    /\ outcome = "ok" => pos = Len(list) + 1 /\ pc = "idle"

\* It holds at first.
LEMMA CoherentInit == Init => CoherentInv
<1> SUFFICES ASSUME Init PROVE CoherentInv
  OBVIOUS
<1>1. NodeInv
  BY DEF Init, NodeInv, Ready, Wired
<1>2. EndpointCoherent
  BY DEF Init, EndpointCoherent
<1> QED BY <1>1, <1>2 DEF Init, CoherentInv, Steps

\* The PID of a ready sandbox leads to that sandbox or nowhere.
LEMMA BehindReady ==
  ASSUME ~PidReuse, NodeInv, NEW s \in Sandboxes, Ready(s), NEW found \in Behind(PidOf[s]), found # NoProcess
  PROVE  found = s /\ life[s] = "up"
<1>1. CASE PidTaken(PidOf[s])
  <2>1. found \in Sandboxes /\ PidOf[found] = PidOf[s] /\ life[found] = "up"
    BY <1>1 DEF Behind
  <2>2. Ready(found)
    BY <2>1 DEF Ready
  <2> QED BY <2>1, <2>2 DEF NodeInv
<1>2. CASE ~PidTaken(PidOf[s])
  BY <1>2 DEF Behind, PidReserved
<1> QED BY <1>1, <1>2

\* Nodes and endpoints that do not change.
LEMMA CoherentKept ==
  ASSUME CoherentInv, UNCHANGED <<life, endpoints>>
  PROVE  NodeInv' /\ EndpointCoherent'
BY DEF CoherentInv, NodeInv, EndpointCoherent, Ready, Wired, IsEndpointOf

\* A scan with nothing in hand.
LEMMA CoherentLeaves ==
  ASSUME NodeInv', EndpointCoherent', pc' \in {"idle", "next"}
  PROVE  CoherentInv'
BY DEF CoherentInv, Steps

\* Skipping, failing, starting or ending a scan.
LEMMA CoherentQuits ==
  ASSUME CoherentInv, UNCHANGED life,
         Skip \/ Fail \/ (pc' = "idle" /\ UNCHANGED endpoints) \/ \E pods \in Manifests : StartScan(pods)
  PROVE  CoherentInv'
<1>1. pc' \in {"idle", "next"}
  BY DEF Skip, Fail, StartScan, Goto
<1>2. CASE UNCHANGED endpoints
  BY <1>1, <1>2, CoherentKept, CoherentLeaves
<1>3. CASE \E pods \in Manifests : StartScan(pods)
  <2>1. endpoints' = [p \in Pods |-> NoEndpoint]
    BY <1>3 DEF StartScan
  <2>2. EndpointCoherent'
    BY <2>1 DEF EndpointCoherent
  <2>3. NodeInv'
    BY DEF CoherentInv, NodeInv, Ready, Wired
  <2> QED BY <1>1, <2>2, <2>3, CoherentLeaves
<1> QED BY <1>2, <1>3 DEF Skip, Fail

\* The next snapshot.
LEMMA CoherentNextPod ==
  ASSUME ScanInv, CoherentInv, NextPod
  PROVE  CoherentInv'
<1>1. UNCHANGED life /\ first' = NoInfo
  BY DEF NextPod, ForgetPod
<1>2. CASE pc' = "list" /\ UNCHANGED scanVars
  <2>1. NodeInv' /\ EndpointCoherent'
    BY <1>1, <1>2, CoherentKept DEF scanVars
  <2> QED BY <1>1, <1>2, <2>1 DEF CoherentInv
<1> QED BY <1>1, <1>2, CoherentQuits DEF NextPod, Goto

\* The second time the runtime names a ready sandbox: if it is the first one,
\* everything read in between was read while it was ready.
LEMMA CoherentList ==
  ASSUME ScanInv, CoherentInv, ListPodSandbox
  PROVE  CoherentInv'
<1>1. UNCHANGED <<life, first, peer, host, hostIfIndex>> /\ pc = "list"
  BY DEF ListPodSandbox
<1>2. CASE Skip \/ Fail
  BY <1>1, <1>2, CoherentQuits
<1>3. CASE id' \in ReadySandboxes /\ pc' = "status" /\ UNCHANGED scanVars
  <2>1. id' \in Sandboxes /\ Ready(id')
    BY <1>3 DEF ReadySandboxes
  <2>2. NodeInv' /\ EndpointCoherent'
    BY <1>1, <1>3, CoherentKept DEF scanVars
  <2>3. life'[id'] # "none"
    BY <1>1, <2>1 DEF Ready
  <2>4. ASSUME first # NoInfo PROVE ReadOK'
    <3>1. ReadOK
      BY <1>1, <2>4 DEF CoherentInv, Steps
    <3>2. ASSUME id' = first.id PROVE PeerOK' /\ HostOK' /\ first.inode = InodeOf[first.id]
      BY <1>1, <2>1, <3>1, <3>2 DEF ReadOK, PeerOK, HostOK
    <3> QED BY <1>1, <1>3, <3>1, <3>2 DEF ReadOK, Ready
  <2> QED BY <1>1, <1>3, <2>2, <2>3, <2>4 DEF CoherentInv
<1> QED BY <1>2, <1>3 DEF ListPodSandbox, Goto

\* A status changes nothing.
LEMMA CoherentStatus ==
  ASSUME ScanInv, CoherentInv, PodSandboxStatus
  PROVE  CoherentInv'
<1>1. UNCHANGED life /\ UNCHANGED <<first, id, peer, host, hostIfIndex>> /\ pc = "status"
  BY DEF PodSandboxStatus, resolveVars
<1>2. CASE Skip
  BY <1>1, <1>2, CoherentQuits
<1>3. CASE pc' = "stat" /\ UNCHANGED scanVars
  <2>1. NodeInv' /\ EndpointCoherent'
    BY <1>1, <1>3, CoherentKept DEF scanVars
  <2>2. ReadOK => ReadOK'
    BY <1>1, <1>3 DEF ReadOK, Ready, PeerOK, HostOK
  <2> QED BY <1>1, <1>3, <2>1, <2>2 DEF CoherentInv, Steps
<1> QED BY <1>2, <1>3 DEF PodSandboxStatus, Goto

\* The endpoint that is accepted.
LEMMA CoherentAccept ==
  ASSUME ScanInv, CoherentInv, pc = "stat", first # NoInfo, UNCHANGED life,
         NEW info, info.id = id, Accept(info)
  PROVE  CoherentInv'
<1>1. CASE Skip \/ Fail
  BY <1>1, CoherentQuits
<1>2. CASE /\ info = first /\ pc' = "next"
           /\ endpoints' = [endpoints EXCEPT ![Pod.uid] = [info |-> first, peer |-> peer, host |-> host]]
  <2>1. ReadOK /\ FirstOK /\ Pod.uid \in Pods /\ first \in Infos
    BY PodType DEF CoherentInv, ScanInv, Progress, TypeResolve, Steps
  <2>2. PeerOK /\ HostOK /\ first.inode = InodeOf[first.id]
    BY <1>2, <2>1 DEF ReadOK
  <2>3. first = [id |-> first.id, pid |-> PidOf[first.id], inode |-> InodeOf[first.id]]
    BY <2>1, <2>2 DEF FirstOK, Infos
  <2> DEFINE e == [info |-> first, peer |-> peer, host |-> host]
  <2>4. IsEndpointOf(e, first.id)
    BY <2>2, <2>3 DEF IsEndpointOf, PeerOK, HostOK
  <2>5. endpoints' = [endpoints EXCEPT ![Pod.uid] = e] /\ endpoints \in [Pods -> Endpoints \cup {NoEndpoint}]
    BY <1>2 DEF ScanInv, TypeScan
  <2> HIDE DEF e
  <2>6. ASSUME NEW p \in Pods, endpoints'[p] # NoEndpoint
        PROVE  \E s \in Sandboxes : PodOf[s] = p /\ IsEndpointOf(endpoints'[p], s)
    <3>1. CASE p = Pod.uid
      BY <2>1, <2>4, <2>5, <3>1 DEF FirstOK
    <3>2. CASE p # Pod.uid
      BY <2>5, <2>6, <3>2 DEF CoherentInv, EndpointCoherent
    <3> QED BY <3>1, <3>2
  <2>7. EndpointCoherent'
    BY <2>6 DEF EndpointCoherent, IsEndpointOf
  <2>8. NodeInv'
    BY DEF CoherentInv, NodeInv, Ready, Wired
  <2> QED BY <1>2, <2>7, <2>8, CoherentLeaves
<1> QED BY <1>1, <1>2 DEF Accept, SameSandbox, Goto

\* The first answer, and the end of the second.
LEMMA CoherentStat ==
  ASSUME ~PidReuse, ScanInv, CoherentInv, StatNetNS
  PROVE  CoherentInv'
<1>1. UNCHANGED <<life, id, peer, host, hostIfIndex>> /\ pc = "stat" /\ id \in Sandboxes /\ life[id] # "none"
  BY DEF StatNetNS, ScanInv, Progress, Steps, CoherentInv
<1>2. CASE Skip /\ UNCHANGED first
  BY <1>1, <1>2, CoherentQuits
<1>3. ASSUME NEW found \in Behind(PidOf[id]), first # NoInfo,
             Accept([id |-> id, pid |-> PidOf[id], inode |-> InodeOf[found]])
      PROVE  CoherentInv'
  <2> DEFINE info == [id |-> id, pid |-> PidOf[id], inode |-> InodeOf[found]]
  <2>1. info.id = id /\ Accept(info)
    BY <1>3
  <2> HIDE DEF info
  <2> QED BY <1>1, <1>3, <2>1, CoherentAccept
<1>4. ASSUME NEW found \in Behind(PidOf[id]), found # NoProcess,
             first' = [id |-> id, pid |-> PidOf[id], inode |-> InodeOf[found]],
             pc' = "run_ns", UNCHANGED scanVars
      PROVE  CoherentInv'
  <2>1. NodeInv' /\ EndpointCoherent'
    BY <1>1, <1>4, CoherentKept DEF scanVars
  <2>2. first'.id = id /\ first'.inode = InodeOf[found]
    BY <1>4
  <2>3. Ready(id) => InodeOf[found] = InodeOf[id]
    BY <1>1, <1>4, BehindReady DEF CoherentInv
  <2>4. ReadOK'
    BY <1>1, <1>4, <2>2, <2>3 DEF ReadOK, Ready
  <2> QED BY <1>1, <1>4, <2>1, <2>4 DEF CoherentInv
<1> QED BY <1>2, <1>3, <1>4 DEF StatNetNS, Goto

\* WithNetNS is called with the inode of the first answer.
LEMMA CoherentRunNS ==
  ASSUME ScanInv, CoherentInv, RunNS
  PROVE  CoherentInv'
<1>1. UNCHANGED <<life, first, id, peer, host, hostIfIndex>> /\ pc = "run_ns"
  BY DEF RunNS, resolveVars
<1>2. CASE Fail
  BY <1>1, <1>2, CoherentQuits
<1>3. ASSUME pc' = "in_ns", UNCHANGED scanVars, NEW t \in Threads, WithNetNS(t, first.inode)
      PROVE  CoherentInv'
  <2>1. NodeInv' /\ EndpointCoherent'
    BY <1>1, <1>3, CoherentKept DEF scanVars
  <2>2. first # NoInfo /\ ReadOK /\ first.inode \in Inodes /\ stack = <<>> /\ CallTypes
    BY <1>1 DEF ScanInv, Progress, FirstOK, Steps, CoherentInv, TypeCall, CallInv
  <2>3. Top'.stage = "open_self" /\ Top'.target = first.inode
    BY <1>3, <2>2, CallBegins
  <2>4. ReadOK'
    BY <1>1, <1>3, <2>2, <2>3 DEF ReadOK, Ready
  <2> QED BY <1>1, <1>3, <2>1, <2>4 DEF CoherentInv
<1> QED BY <1>2, <1>3 DEF RunNS, Goto

\* A step in the call that does not leave the pod.
LEMMA InCallCoherent ==
  ASSUME ScanInv, CoherentInv, pc = "in_ns", UNCHANGED <<life, pc, scanVars, first>>,
         Top'.target = Top.target,
         Ready(first.id) =>
            /\ Top'.stage = "run" => ns'[Top'.thread] = first.id
            /\ Top'.stage = "restore" => peer' = ContextDone \/ PeerOK'
  PROVE  CoherentInv'
<1>1. NodeInv' /\ EndpointCoherent'
  BY CoherentKept DEF scanVars
<1>2. first # NoInfo /\ ReadOK
  BY DEF ScanInv, Progress, CoherentInv, Steps
<1>3. ReadOK'
  BY <1>2 DEF ReadOK, Ready
<1> QED BY <1>1, <1>3 DEF CoherentInv

\* Nothing is read before the namespace is entered.
LEMMA CoherentOpenSelf ==
  ASSUME ScanInv, CoherentInv, OpenSelfInCall
  PROVE  CoherentInv'
<1>1. UNCHANGED <<life, first>> /\ pc = "in_ns" /\ OpenSelf /\ CallTypes /\ SingleCall
  BY DEF OpenSelfInCall, resolveVars, ScanInv, TypeCall, CallInv
<1>2. CASE stack' = <<>>
  BY <1>1, <1>2, CoherentQuits DEF OpenSelfInCall
<1>3. CASE stack' # <<>>
  <2>1. Top'.stage = "open_target" /\ Top'.target = Top.target
    BY <1>1, <1>3, CallSteps
  <2> QED BY <1>1, <1>3, <2>1, InCallCoherent DEF OpenSelfInCall
<1> QED BY <1>2, <1>3

\* If the sandbox is still ready, its PID leads to it.
LEMMA CoherentEnter ==
  ASSUME ~PidReuse, ScanInv, CoherentInv, EnterInCall
  PROVE  CoherentInv'
<1>1. /\ UNCHANGED <<life, first>> /\ pc = "in_ns" /\ CallTypes /\ SingleCall /\ stack # <<>>
      /\ first # NoInfo /\ FirstOK
  BY DEF EnterInCall, resolveVars, ScanInv, TypeCall, CallInv, Progress, Steps
<1>2. CASE Fail
  BY <1>1, <1>2, CoherentQuits
<1>3. ASSUME NEW found \in Behind(first.pid), found \in Namespaces, Enter(found), UNCHANGED <<pc, scanVars>>
      PROVE  CoherentInv'
  <2>1. Top'.stage = "run" /\ Top'.target = Top.target /\ Top'.thread = Top.thread /\ Top.thread \in Threads
    BY <1>1, <1>3, CallSteps, TheCall
  <2>2. ns'[Top'.thread] = found
    BY <1>1, <1>3, <2>1 DEF Enter, CallTypes
  <2>3. Ready(first.id) => found = first.id
    <3>1. found # NoProcess
      BY <1>3, WorldAssumption
    <3> QED BY <1>1, <1>3, <3>1, BehindReady DEF FirstOK, CoherentInv
  <2> QED BY <1>1, <1>3, <2>1, <2>2, <2>3, InCallCoherent
<1> QED BY <1>2, <1>3 DEF EnterInCall

\* eth0 is read in its namespace, while its veth pair exists.
LEMMA CoherentPodEth0 ==
  ASSUME ScanInv, CoherentInv, PodEth0
  PROVE  CoherentInv'
<1>1. /\ UNCHANGED <<life, pc, scanVars, first>> /\ pc = "in_ns" /\ Return /\ CallTypes /\ SingleCall
      /\ stack # <<>> /\ first # NoInfo /\ FirstOK /\ ReadOK
  BY DEF PodEth0, ScanInv, TypeCall, CallInv, Progress, Steps, CoherentInv
<1>2. Top'.stage = "restore" /\ Top'.target = Top.target /\ Top.stage = "run"
  BY <1>1, CallSteps DEF Return, Active
<1>3. ASSUME Ready(first.id) PROVE peer' = ContextDone \/ PeerOK'
  <2>1. ns[Top.thread] = first.id /\ Wired(first.id)
    BY <1>1, <1>2, <1>3 DEF ReadOK, Ready, Wired
  <2>2. first.id # "host"
    BY <1>1, ConstantsAssumption DEF FirstOK, Sandboxes
  <2>3. peer' = ContextDone \/ (peer' = <<"eth0", first.id>> /\ hostIfIndex' = HostIdxOf[first.id])
    BY <2>1, <2>2 DEF PodEth0
  <2> QED BY <1>1, <2>3 DEF PeerOK
<1> QED BY <1>1, <1>2, <1>3, InCallCoherent

\* The callback has read eth0, or was cancelled, or found none.
LEMMA CoherentRestore ==
  ASSUME ScanInv, CoherentInv, RestoreInCall
  PROVE  CoherentInv'
<1>1. /\ UNCHANGED <<life, first, id, peer, host, hostIfIndex>> /\ pc = "in_ns" /\ Top.stage = "restore"
      /\ first # NoInfo /\ ReadOK
  BY DEF RestoreInCall, Restore, Active, resolveVars, ScanInv, Progress, Steps, CoherentInv
<1>2. CASE Skip \/ Fail
  BY <1>1, <1>2, CoherentQuits
<1>3. CASE peer \in Links /\ pc' = "host_veth" /\ UNCHANGED scanVars
  <2>1. NodeInv' /\ EndpointCoherent'
    BY <1>1, <1>3, CoherentKept DEF scanVars
  <2>2. peer # ContextDone
    BY <1>3, Constants
  <2>3. ReadOK'
    BY <1>1, <1>3, <2>2 DEF ReadOK, Ready, PeerOK
  <2> QED BY <1>1, <1>3, <2>1, <2>3 DEF CoherentInv
<1> QED BY <1>2, <1>3 DEF RestoreInCall, Goto

\* The host end is looked up on a thread that is home, and no other wired
\* sandbox has its ifindex.
LEMMA CoherentHostVeth ==
  ASSUME ScanInv, HomeInv, CoherentInv, NEW t \in Threads, HostVeth(t)
  PROVE  CoherentInv'
<1>1. /\ UNCHANGED <<life, first, id, peer, hostIfIndex>> /\ pc = "host_veth" /\ ns[t] = "host"
      /\ first # NoInfo /\ FirstOK /\ ReadOK
  BY DEF HostVeth, HomeInv, PoolIsHome, ScanInv, Progress, Steps, CoherentInv
<1>2. CASE Skip \/ Fail
  BY <1>1, <1>2, CoherentQuits
<1>3. CASE host' \in LinkByIndex("host", hostIfIndex) /\ pc' = "list" /\ UNCHANGED scanVars
  <2>1. NodeInv' /\ EndpointCoherent'
    BY <1>1, <1>3, CoherentKept DEF scanVars
  <2>2. ASSUME Ready(first.id) PROVE host' = <<"veth", first.id>>
    <3>1. PeerOK /\ first.id \in Sandboxes /\ Wired(first.id)
      BY <1>1, <2>2 DEF ReadOK, FirstOK, Ready, Wired
    <3>2. HostIdxOf[first.id] # NodeIdx
      BY <3>1, WorldAssumption
    <3>3. PICK s \in Sandboxes : Wired(s) /\ HostIdxOf[s] = HostIdxOf[first.id] /\ host' = <<"veth", s>>
      BY <1>3, <3>1, <3>2 DEF LinkByIndex, PeerOK
    <3>4. s = first.id
      BY <3>1, <3>3 DEF CoherentInv, NodeInv
    <3> QED BY <3>3, <3>4
  <2>3. ReadOK'
    BY <1>1, <1>3, <2>2 DEF ReadOK, Ready, PeerOK, HostOK
  <2> QED BY <1>1, <1>3, <2>1, <2>3 DEF CoherentInv
<1> QED BY <1>1, <1>2, <1>3 DEF HostVeth, Goto

\* Cancelling a scan and replacing a thread.
LEMMA CoherentAside ==
  ASSUME ScanInv, CoherentInv, Cancel \/ (\E t \in Threads : ReplaceThread(t)) \/ UNCHANGED vars
  PROVE  CoherentInv'
<1>1. UNCHANGED <<life, pc, endpoints, first, id, peer, host, hostIfIndex, stack>>
  BY DEF Cancel, ReplaceThread, Spawn, scanVars, resolveVars, vars, netnsVars
<1>2. NodeInv' /\ EndpointCoherent'
  BY <1>1, CoherentKept
<1>3. Top' = Top
  BY <1>1 DEF Top
<1>4. pc = "in_ns" => ns'[Top.thread] = ns[Top.thread]
  <2>1. CASE UNCHANGED ns
    BY <2>1
  <2>2. ASSUME NEW t \in Threads, Spawn(t), pc = "in_ns" PROVE ns'[Top.thread] = ns[Top.thread]
    <3>1. CallTypes /\ Owned /\ SingleCall /\ stack # <<>>
      BY <2>2 DEF ScanInv, TypeCall, CallInv
    <3>2. Top.thread \in Threads /\ Top.thread \notin parked
      BY <3>1, TheCall DEF Owned
    <3> QED BY <2>2, <3>1, <3>2 DEF Spawn, CallTypes
  <2> QED BY <2>1, <2>2 DEF Cancel, ReplaceThread, vars, netnsVars
<1>5. ReadOK => ReadOK'
  BY <1>1, <1>3, <1>4 DEF ReadOK, Ready, PeerOK, HostOK
<1> QED BY <1>1, <1>2, <1>5 DEF CoherentInv

\* A sandbox that was ready once and is not any more never is again.
LEMMA LivesOnce ==
  ASSUME TypeWorld, NEW s \in Sandboxes, StartSandbox(s) \/ StopSandbox(s), NEW u \in Sandboxes
  PROVE  /\ life'[u] = "none" => life[u] = "none"
         /\ life[u] # "none" /\ Ready(u)' => Ready(u)
         /\ u # s => life'[u] = life[u]
BY DEF TypeWorld, StartSandbox, StopSandbox, Ready

\* Sandboxes that come and go: what was read of one that is gone need not be
\* right.
LEMMA CoherentSandbox ==
  ASSUME ~PidReuse, ScanInv, CoherentInv, NEW s \in Sandboxes, StartSandbox(s) \/ StopSandbox(s)
  PROVE  CoherentInv'
<1>0. TypeWorld /\ life \in [Sandboxes -> {"none", "up", "exited", "stopped", "gone"}]
  BY DEF ScanInv, TypeWorld
<1>1. UNCHANGED <<pc, endpoints, first, id, peer, host, hostIfIndex, ns, stack>>
  BY DEF StartSandbox, StopSandbox, scanVars, resolveVars, netnsVars
<1>2. NodeInv'
  <2>1. CASE StartSandbox(s)
    <3>1. life' = [life EXCEPT ![s] = "up"]
      BY <2>1 DEF StartSandbox
    <3>2. \A u \in Sandboxes : Ready(u) => PidOf[u] # PidOf[s]
      BY <2>1 DEF StartSandbox, PidReserved
    <3>3. ASSUME NEW u \in Sandboxes, Wired(u), HostIdxOf[u] = HostIdxOf[s] PROVE FALSE
      <4>1. <<"veth", u>> \in LinkByIndex("host", HostIdxOf[s])
        BY <3>3 DEF LinkByIndex
      <4> QED BY <2>1, <4>1 DEF StartSandbox
    <3>4. \A u \in Sandboxes \ {s} : (Ready(u)' <=> Ready(u)) /\ (Wired(u)' <=> Wired(u))
      BY <1>0, <3>1 DEF Ready, Wired
    <3> QED BY <3>2, <3>3, <3>4 DEF CoherentInv, NodeInv
  <2>2. CASE StopSandbox(s)
    <3>1. \A u \in Sandboxes : (Ready(u)' => Ready(u)) /\ (Wired(u)' => Wired(u))
      BY <1>0, <2>2 DEF StopSandbox, Ready, Wired
    <3> QED BY <3>1 DEF CoherentInv, NodeInv
  <2> QED BY <2>1, <2>2
<1>3. EndpointCoherent'
  BY <1>1 DEF CoherentInv, EndpointCoherent, IsEndpointOf
<1>4. pc \in {"status", "stat"} => life'[id] # "none"
  BY <1>0, LivesOnce DEF CoherentInv, ScanInv, Progress, Steps
<1>5. ASSUME pc \in Steps, first # NoInfo PROVE ReadOK'
  <2>1. first.id \in Sandboxes /\ ReadOK
    BY <1>5 DEF CoherentInv, ScanInv, Progress, FirstOK
  <2>2. life'[first.id] # "none" /\ (Ready(first.id)' => Ready(first.id))
    <3>1. life[first.id] # "none"
      BY <2>1 DEF ReadOK
    <3>2. first' = first
      BY <1>1
    <3> QED BY <1>0, <2>1, <3>1, <3>2 DEF TypeWorld, StartSandbox, StopSandbox, Ready
  <2>3. Top' = Top
    BY <1>1 DEF Top
  <2> QED BY <1>1, <2>1, <2>2, <2>3 DEF ReadOK, PeerOK, HostOK
<1> QED BY <1>1, <1>2, <1>3, <1>4, <1>5 DEF CoherentInv

\* Every step.
LEMMA CoherentNext ==
  ASSUME ~PidReuse, ScanInv, HomeInv, CoherentInv, [Next]_vars
  PROVE  CoherentInv'
<1>1. CASE CallFails
  BY <1>1, CoherentQuits DEF CallFails
<1>2. CASE \E pods \in Manifests : StartScan(pods)
  BY <1>2, CoherentQuits DEF StartScan
<1> QED BY <1>1, <1>2, CoherentNextPod, CoherentList, CoherentStatus, CoherentStat, CoherentRunNS, CoherentOpenSelf,
           CoherentEnter, CoherentPodEth0, CoherentRestore, CoherentHostVeth, CoherentAside, CoherentSandbox
           DEF Next, ScanStep

\* In every reachable state.
LEMMA CoherentReachable ==
  ASSUME ~PidReuse, Leader \notin FailingThreads
  PROVE  Spec => [](ScanInv /\ HomeInv /\ CoherentInv)
<1>1. ScanInv /\ HomeInv /\ CoherentInv /\ [Next]_vars => CoherentInv'
  BY CoherentNext
<1> QED BY <1>1, CoherentInit, HomeReachable, PTL DEF Spec

\* Sandbox, PID, namespace and both ends of the veth pair of every endpoint the
\* resolver returns belong to one sandbox of its pod, although PIDs, inodes
\* and ifindexes are reused between the reads.
THEOREM Coherent ==
  ASSUME ~PidReuse, Leader \notin FailingThreads
  PROVE  Spec => []EndpointCoherent
<1>1. CoherentInv => EndpointCoherent
  BY DEF CoherentInv
<1> QED BY <1>1, CoherentReachable, PTL

-----------------------------------------------------------------------------
(***************************************************************************)
(* Why a scan fails.                                                       *)
(***************************************************************************)

\* A scan that leaves the pod without failing.
LEMMA FailLeaves ==
  ASSUME FailInv, pc' \in {"idle", "next"}, outcome' # "failed", cancelled' => undisturbed' = {}
  PROVE  FailInv'
BY DEF FailInv, FailsForItsPod, Steps

\* A scan that fails, with a reason.
LEMMA FailFails ==
  ASSUME FailInv, Fail, cancelled' => undisturbed' = {},
         BadList(list) \/ undisturbed' = {} \/ Pod.uid \notin undisturbed'
  PROVE  FailInv'
BY DEF FailInv, FailsForItsPod, Steps, Fail, Pod, BadList

\* A scan that skips the pod.
LEMMA FailSkips ==
  ASSUME FailInv, pc # "idle", Skip, UNCHANGED historyVars \/ undisturbed' = {}
  PROVE  FailInv'
<1>1. outcome' # "failed" /\ pc' = "next" /\ (cancelled' => undisturbed' = {})
  BY DEF Skip, FailInv, historyVars
<1> QED BY <1>1, FailLeaves

\* A scan that goes on with the pod.
LEMMA FailGoesOn ==
  ASSUME FailInv, pc # "idle", pc' \in Steps, UNCHANGED <<scanVars, historyVars>>,
         pc' \in {"status", "stat"} /\ Pod.uid \in undisturbed => Ready(id)',
         first' # NoInfo /\ Pod.uid \in undisturbed => life'[first'.id] = "up"
  PROVE  FailInv'
<1>1. outcome' # "failed" /\ Pod' = Pod /\ undisturbed' = undisturbed
  BY SamePod DEF FailInv, scanVars, historyVars
<1>2. cancelled' => undisturbed' = {}
  BY DEF FailInv, historyVars
<1> QED BY <1>1, <1>2 DEF FailInv, FailsForItsPod

\* It holds at first.
LEMMA FailInit == Init => FailInv
BY DEF Init, FailInv, FailsForItsPod, Steps

\* A scan begins.
LEMMA FailStartScan ==
  ASSUME FailInv, NEW pods \in Manifests, StartScan(pods)
  PROVE  FailInv'
<1>1. pc' = "next" /\ outcome' = "none" /\ cancelled' = FALSE
  BY DEF StartScan, Goto
<1> QED BY <1>1, FailLeaves

\* Two different snapshots of one pod, or one that is incomplete.
LEMMA FailNextPod ==
  ASSUME ScanInv, FailInv, NextPod
  PROVE  FailInv'
<1>1. /\ UNCHANGED <<life, historyVars>> /\ first' = NoInfo /\ pc = "next"
      /\ cancelled' => undisturbed' = {}
  BY DEF NextPod, ForgetPod, FailInv, historyVars
<1>2. CASE pc' = "idle" /\ outcome' = "ok"
  BY <1>1, <1>2, FailLeaves
<1>3. CASE Skip
  BY <1>1, <1>3, FailSkips
<1>4. CASE cancelled /\ Fail
  BY <1>1, <1>4, FailFails DEF FailInv, historyVars
<1>5. CASE pos <= Len(list) /\ ~(\A i \in Earlier : list[i] = Pod) /\ Fail
  <2>1. PICK i \in 1..(pos - 1) : list[i].uid = Pod.uid /\ list[i] # Pod
    BY <1>5 DEF Earlier
  <2>2. i \in DOMAIN list /\ pos \in DOMAIN list
    BY <1>5, <2>1, PodType DEF ScanInv
  <2>3. BadList(list)
    BY <2>1, <2>2 DEF BadList, Pod
  <2> QED BY <1>1, <1>5, <2>3, FailFails
<1>6. CASE pos <= Len(list) /\ Pod.kind = "incomplete" /\ Fail
  <2>1. pos \in DOMAIN list
    BY <1>6, PodType DEF ScanInv
  <2>2. BadList(list)
    BY <1>6, <2>1 DEF BadList, Pod
  <2> QED BY <1>1, <1>6, <2>2, FailFails
<1>7. CASE pc' = "list" /\ UNCHANGED scanVars
  BY <1>1, <1>7, FailGoesOn DEF Steps
<1> QED BY <1>2, <1>3, <1>4, <1>5, <1>6, <1>7 DEF NextPod, Goto

\* Between the scan's calls only cancellation fails it.
LEMMA FailCancelled ==
  ASSUME FailInv, cancelled, Fail, UNCHANGED historyVars
  PROVE  FailInv'
BY FailFails DEF FailInv, historyVars

\* The runtime names a ready sandbox.
LEMMA FailList ==
  ASSUME ScanInv, FailInv, ListPodSandbox
  PROVE  FailInv'
<1>1. UNCHANGED <<life, first, historyVars>> /\ pc = "list"
  BY DEF ListPodSandbox
<1>2. CASE Skip
  BY <1>1, <1>2, FailSkips
<1>3. CASE cancelled /\ Fail
  BY <1>1, <1>3, FailCancelled
<1>4. CASE id' \in ReadySandboxes /\ pc' = "status" /\ UNCHANGED scanVars
  <2>1. Ready(id)'
    BY <1>1, <1>4 DEF ReadySandboxes, Ready
  <2>2. first' # NoInfo /\ Pod.uid \in undisturbed => life'[first'.id] = "up"
    BY <1>1 DEF FailInv, Steps
  <2> QED BY <1>1, <1>4, <2>1, <2>2, FailGoesOn DEF Steps
<1> QED BY <1>2, <1>3, <1>4 DEF ListPodSandbox, Goto

\* A sandbox of an undisturbed pod is still ready.
LEMMA FailStatus ==
  ASSUME ScanInv, FailInv, PodSandboxStatus
  PROVE  FailInv'
<1>1. UNCHANGED <<life, first, id, historyVars>> /\ pc = "status"
  BY DEF PodSandboxStatus, resolveVars
<1>2. CASE Skip
  BY <1>1, <1>2, FailSkips
<1>3. CASE pc' = "stat" /\ UNCHANGED scanVars
  <2>1. Pod.uid \in undisturbed => Ready(id)'
    BY <1>1 DEF FailInv, Ready
  <2>2. first' # NoInfo /\ Pod.uid \in undisturbed => life'[first'.id] = "up"
    BY <1>1 DEF FailInv, Steps
  <2> QED BY <1>1, <1>3, <2>1, <2>2, FailGoesOn DEF Steps
<1> QED BY <1>2, <1>3 DEF PodSandboxStatus, Goto

\* Its PID leads to it.
LEMMA FailStat ==
  ASSUME ~PidReuse, ScanInv, CoherentInv, FailInv, StatNetNS
  PROVE  FailInv'
<1>1. UNCHANGED <<life, id, historyVars>> /\ pc = "stat" /\ id \in Sandboxes
  BY DEF StatNetNS, ScanInv, Progress, Steps
<1>2. CASE Skip
  BY <1>1, <1>2, FailSkips
<1>3. CASE cancelled /\ Fail
  BY <1>1, <1>3, FailCancelled
<1>4. CASE pc' = "next" /\ UNCHANGED outcome
  <2>1. outcome' # "failed" /\ (cancelled' => undisturbed' = {})
    BY <1>1, <1>4 DEF FailInv, historyVars
  <2> QED BY <1>4, <2>1, FailLeaves
<1>5. ASSUME NEW found \in Behind(PidOf[id]), found # NoProcess, first' = [id |-> id, pid |-> PidOf[id], inode |-> InodeOf[found]],
             pc' = "run_ns", UNCHANGED scanVars
      PROVE  FailInv'
  <2>1. Pod.uid \in undisturbed => life[id] = "up"
    BY <1>1, <1>5, BehindReady DEF FailInv, CoherentInv
  <2>2. first'.id = id
    BY <1>5
  <2> QED BY <1>1, <1>5, <2>1, <2>2, FailGoesOn DEF Steps
<1> QED BY <1>2, <1>3, <1>4, <1>5 DEF StatNetNS, Accept, Goto

\* Only cancellation fails the scan here.
LEMMA FailRunNS ==
  ASSUME ScanInv, FailInv, RunNS
  PROVE  FailInv'
<1>1. UNCHANGED <<life, first, historyVars>> /\ pc = "run_ns"
  BY DEF RunNS, resolveVars
<1>2. CASE cancelled /\ Fail
  BY <1>1, <1>2, FailCancelled
<1>3. CASE pc' = "in_ns" /\ UNCHANGED scanVars
  <2>1. first' # NoInfo /\ Pod.uid \in undisturbed => life'[first'.id] = "up"
    BY <1>1 DEF FailInv, Steps
  <2> QED BY <1>1, <1>3, <2>1, FailGoesOn DEF Steps
<1> QED BY <1>2, <1>3 DEF RunNS, Goto

\* A step in the call that neither ends it nor fails.
LEMMA InCallFail ==
  ASSUME FailInv, pc = "in_ns", UNCHANGED <<life, pc, scanVars, first, historyVars>>
  PROVE  FailInv'
<1>1. first' # NoInfo /\ Pod.uid \in undisturbed => life'[first'.id] = "up"
  BY DEF FailInv, Steps
<1> QED BY <1>1, FailGoesOn DEF Steps

\* The PID of a sandbox that is up leads to it.
LEMMA BehindUp ==
  ASSUME NodeInv, NEW s \in Sandboxes, life[s] = "up", NEW found \in Behind(PidOf[s])
  PROVE  found = s
<1>1. PidTaken(PidOf[s])
  BY DEF PidTaken
<1>2. found \in Sandboxes /\ PidOf[found] = PidOf[s] /\ life[found] = "up"
  BY <1>1 DEF Behind
<1> QED BY <1>2 DEF NodeInv, Ready

\* The path leads elsewhere only if the sandbox is not up any more.
LEMMA FailEnter ==
  ASSUME ScanInv, CoherentInv, FailInv, EnterInCall
  PROVE  FailInv'
<1>1. UNCHANGED <<life, first, cancelled>> /\ pc = "in_ns" /\ first # NoInfo /\ FirstOK /\ ReadOK
  BY DEF EnterInCall, resolveVars, ScanInv, Progress, Steps, CoherentInv
<1>2. CASE UNCHANGED <<pc, scanVars, undisturbed>>
  BY <1>1, <1>2, InCallFail DEF historyVars
<1>3. CASE Fail /\ undisturbed' = {}
  BY <1>3, FailFails
<1>4. ASSUME NEW found \in Behind(first.pid), ~(found \in Namespaces /\ InodeOf[found] = Top.target),
             Fail, UNCHANGED undisturbed
      PROVE  FailInv'
  <2>1. CASE Pod.uid \in undisturbed
    <3>1. life[first.id] = "up" /\ Ready(first.id)
      BY <1>1, <2>1 DEF FailInv, Steps, Ready
    <3>2. found = first.id /\ found \in Namespaces
      BY <1>1, <1>4, <3>1, BehindUp DEF FirstOK, CoherentInv, Namespaces, Sandboxes
    <3> QED BY <1>1, <1>4, <3>1, <3>2 DEF ReadOK
  <2>2. CASE Pod.uid \notin undisturbed
    <3>1. cancelled' => undisturbed' = {}
      BY <1>1, <1>4 DEF FailInv
    <3> QED BY <1>4, <2>2, <3>1, FailFails
  <2> QED BY <2>1, <2>2
<1> QED BY <1>2, <1>3, <1>4 DEF EnterInCall

\* A failure in the call is not the fault of any pod.
LEMMA FailInCall ==
  ASSUME ScanInv, FailInv, OpenSelfInCall \/ PodEth0 \/ RestoreInCall
  PROVE  FailInv'
<1>1. UNCHANGED <<life, first, cancelled>> /\ pc = "in_ns" /\ first # NoInfo /\ Progress
  BY DEF OpenSelfInCall, PodEth0, RestoreInCall, resolveVars, historyVars, ScanInv, Progress, Steps
<1>2. CASE UNCHANGED <<pc, scanVars, undisturbed>>
  BY <1>1, <1>2, InCallFail DEF historyVars
<1>3. CASE Fail /\ undisturbed' = {}
  BY <1>3, FailFails
<1>4. CASE RestoreInCall /\ UNCHANGED undisturbed
  <2>1. UNCHANGED historyVars
    BY <1>1, <1>4 DEF historyVars
  <2>2. CASE Skip
    BY <1>1, <2>1, <2>2, FailSkips
  <2>3. CASE peer = ContextDone /\ Fail
    BY <1>1, <2>1, <2>3, FailCancelled DEF Progress
  <2>4. CASE pc' = "host_veth" /\ UNCHANGED scanVars
    <3>1. first' # NoInfo /\ Pod.uid \in undisturbed => life'[first'.id] = "up"
      BY <1>1 DEF FailInv, Steps
    <3> QED BY <1>1, <2>1, <2>4, <3>1, FailGoesOn DEF Steps
  <2>5. CASE Fail /\ undisturbed' = {}
    BY <2>5, FailFails
  <2> QED BY <1>4, <2>2, <2>3, <2>4, <2>5 DEF RestoreInCall, Goto
<1> QED BY <1>2, <1>3, <1>4 DEF OpenSelfInCall, PodEth0, RestoreInCall, historyVars

\* Only cancellation fails the scan here.
LEMMA FailHostVeth ==
  ASSUME ScanInv, FailInv, NEW t \in Threads, HostVeth(t)
  PROVE  FailInv'
<1>1. UNCHANGED <<life, first, historyVars>> /\ pc = "host_veth"
  BY DEF HostVeth
<1>2. CASE Skip
  BY <1>1, <1>2, FailSkips
<1>3. CASE cancelled /\ Fail
  BY <1>1, <1>3, FailCancelled
<1>4. CASE pc' = "list" /\ UNCHANGED scanVars
  <2>1. first' # NoInfo /\ Pod.uid \in undisturbed => life'[first'.id] = "up"
    BY <1>1 DEF FailInv, Steps
  <2> QED BY <1>1, <1>4, <2>1, FailGoesOn DEF Steps
<1> QED BY <1>2, <1>3, <1>4 DEF HostVeth, Goto

\* A sandbox that starts or stops disturbs its pod.
LEMMA FailSandbox ==
  ASSUME ScanInv, FailInv, NEW s \in Sandboxes, StartSandbox(s) \/ StopSandbox(s)
  PROVE  FailInv'
<1>0. TypeWorld
  BY DEF ScanInv
<1>1. /\ UNCHANGED <<cancelled, pc, scanVars, first, id>> /\ undisturbed' = undisturbed \ {PodOf[s]}
      /\ UNCHANGED <<list, pos, outcome>>
  BY DEF StartSandbox, StopSandbox, Disturb, resolveVars, scanVars
<1>2. Pod' = Pod
  BY <1>1, SamePod
<1>3. FailsForItsPod'
  BY <1>1 DEF FailInv, FailsForItsPod, BadList
<1>4. ASSUME pc \in {"status", "stat"}, Pod.uid \in undisturbed' PROVE Ready(id)'
  <2>1. id \in Sandboxes /\ PodOf[id] = Pod.uid /\ Ready(id)
    BY <1>1, <1>4 DEF ScanInv, Progress, Steps, FailInv
  <2>2. life'[id] = life[id]
    BY <1>0, <1>1, <1>4, <2>1, LivesOnce
  <2> QED BY <1>1, <2>1, <2>2 DEF Ready
<1>5. ASSUME pc \in Steps, first # NoInfo, Pod.uid \in undisturbed' PROVE life'[first.id] = "up"
  <2>1. first.id \in Sandboxes /\ PodOf[first.id] = Pod.uid /\ life[first.id] = "up"
    BY <1>1, <1>5 DEF ScanInv, Progress, FirstOK, FailInv
  <2> QED BY <1>0, <1>1, <1>5, <2>1, LivesOnce
<1>6. cancelled' => undisturbed' = {}
  BY <1>1 DEF FailInv
<1> QED BY <1>1, <1>2, <1>3, <1>4, <1>5, <1>6 DEF FailInv

\* Cancelling a scan, replacing a thread, and doing nothing.
LEMMA FailAside ==
  ASSUME FailInv, Cancel \/ (\E t \in Threads : ReplaceThread(t)) \/ UNCHANGED vars
  PROVE  FailInv'
<1>1. /\ UNCHANGED <<life, pc, list, pos, outcome, first, id>>
      /\ (UNCHANGED <<cancelled, undisturbed>>) \/ undisturbed' = {}
  BY DEF Cancel, ReplaceThread, scanVars, resolveVars, vars, historyVars
<1>2. CASE UNCHANGED <<cancelled, undisturbed>>
  BY <1>1, <1>2 DEF FailInv, FailsForItsPod, Pod, Ready, BadList
<1>3. CASE undisturbed' = {}
  BY <1>1, <1>3 DEF FailInv, FailsForItsPod, Pod, BadList
<1> QED BY <1>1, <1>2, <1>3

\* Every step.
LEMMA FailNext ==
  ASSUME ~PidReuse, ScanInv, CoherentInv, FailInv, [Next]_vars
  PROVE  FailInv'
<1>1. CASE CallFails
  BY <1>1, FailSkips DEF CallFails
<1> QED BY <1>1, FailStartScan, FailNextPod, FailList, FailStatus, FailStat, FailRunNS, FailInCall, FailEnter,
           FailHostVeth, FailAside, FailSandbox DEF Next, ScanStep

\* In every reachable state.
LEMMA FailReachable ==
  ASSUME ~PidReuse, Leader \notin FailingThreads
  PROVE  Spec => [](ScanInv /\ HomeInv /\ CoherentInv /\ FailInv)
<1>1. ScanInv /\ HomeInv /\ CoherentInv /\ FailInv /\ [Next]_vars => FailInv'
  BY FailNext
<1> QED BY <1>1, FailInit, CoherentReachable, PTL DEF Spec

\* A scan fails only because its list is bad, because a call failed or the
\* agent was stopped, or because something happened to the pod it was resolving:
\* what other pods do in the meantime never fails it.
THEOREM FailsOnlyForItsPod ==
  ASSUME ~PidReuse, Leader \notin FailingThreads
  PROVE  Spec => []FailsForItsPod
<1>1. FailInv => FailsForItsPod
  BY DEF FailInv
<1> QED BY <1>1, FailReachable, PTL

-----------------------------------------------------------------------------
(***************************************************************************)
(* What a scan finds.  Validate refuses an endpoint whose two links have   *)
(* the same ifindex, so nothing is found for a pod whose veth happens to   *)
(* have the ifindex that eth0 has in every pod.                            *)
(***************************************************************************)

\* A sandbox of the pod in hand that the scan must find.
Steady(s) == PodOf[s] = Pod.uid /\ PodOf[s] \in undisturbed /\ Settled(PodOf[s]) /\ life[s] = "up"

\* The steady sandbox is the one the runtime names.
LEMMA TheSandbox ==
  ASSUME ScanInv, FailInv, pc \in Steps, NEW s \in Sandboxes, Steady(s)
  PROVE  /\ ~cancelled
         /\ pc \in {"status", "stat"} => id = s
         /\ first # NoInfo => first.id = s
         /\ \A u \in Sandboxes : PodOf[u] = Pod.uid /\ Ready(u) => u = s
<1>1. Pod.uid \in undisturbed /\ ~cancelled
  BY DEF Steady, FailInv
<1>2. \A u \in Sandboxes : PodOf[u] = Pod.uid /\ Ready(u) => u = s
  BY DEF Steady, Settled, Ready
<1>3. pc \in {"status", "stat"} => id \in Sandboxes /\ PodOf[id] = Pod.uid /\ Ready(id)
  BY <1>1 DEF ScanInv, Progress, FailInv
<1>4. first # NoInfo => first.id \in Sandboxes /\ PodOf[first.id] = Pod.uid /\ Ready(first.id)
  BY <1>1 DEF ScanInv, Progress, FirstOK, FailInv, Ready
<1> QED BY <1>1, <1>2, <1>3, <1>4

\* The list is as far as it was, and pods were at most disturbed.
LEMMA FoundKept ==
  ASSUME FoundInv, UNCHANGED <<list, pos, endpoints, life>>, undisturbed' \subseteq undisturbed, outcome # "failed"
  PROVE  Found(pos - 1)'
<1>1. \A s \in Sandboxes : Settled(PodOf[s])' => Settled(PodOf[s])
  BY DEF Settled, Ready
<1>2. Found(pos - 1) /\ (pos - 1)' = pos - 1
  BY DEF FoundInv
<1>3. \A p : endpoints'[p] = endpoints[p]
  OBVIOUS
<1> QED BY <1>1, <1>2, <1>3 DEF Found, IsEndpointOf

\* The scan skips a pod it does not have to find, or has found before.
LEMMA FoundSkips ==
  ASSUME ScanInv, FailInv, FoundInv, pc # "idle", pos <= Len(list), Skip, UNCHANGED life,
         undisturbed' \subseteq undisturbed,
         \/ Pod.kind # "running" \/ undisturbed' = {} \/ ~\E s \in Sandboxes : Steady(s)
         \/ \E i \in 1..(pos - 1) : list[i] = Pod
  PROVE  FoundInv'
<1>1. /\ pos' = pos + 1 /\ UNCHANGED <<list, endpoints, outcome>> /\ pos \in Nat \ {0}
      /\ outcome # "failed" /\ outcome # "ok"
  BY PodType DEF Skip, FailInv, FoundInv, ScanInv
<1>2. ASSUME NEW j \in 1..pos, NEW s \in Sandboxes, list[j].kind = "running", list[j].uid = PodOf[s],
             PodOf[s] \in undisturbed', Settled(PodOf[s])', life[s] = "up"
      PROVE  IsEndpointOf(endpoints[PodOf[s]], s)
  <2>1. PodOf[s] \in undisturbed /\ Settled(PodOf[s])
    BY <1>2 DEF Settled, Ready
  <2>2. \A i \in 1..(pos - 1) : list[i] = list[j] => IsEndpointOf(endpoints[PodOf[s]], s)
    BY <1>1, <1>2, <2>1 DEF FoundInv, Found
  <2>3. CASE j = pos
    <3>1. Steady(s) /\ Pod = list[j] /\ Pod.kind = "running"
      BY <1>2, <2>1, <2>3 DEF Steady, Pod
    <3> QED BY <1>2, <2>2, <3>1
  <2>4. CASE j # pos
    BY <1>1, <2>2, <2>4
  <2> QED BY <2>3, <2>4
<1>3. Found(pos - 1)'
  <2>1. (pos - 1)' = pos
    BY <1>1
  <2> QED BY <1>1, <1>2, <2>1 DEF Found, IsEndpointOf
<1> QED BY <1>1, <1>3 DEF FoundInv

\* A scan that fails or ends, or goes on with the pod.
LEMMA FoundStays ==
  ASSUME FailInv, FoundInv, UNCHANGED <<list, pos, endpoints, life>>, undisturbed' \subseteq undisturbed,
         pc # "idle" \/ (UNCHANGED <<pc, outcome>>),
         \/ outcome' = "failed" \/ UNCHANGED outcome
         \/ outcome' = "ok" /\ pos = Len(list) + 1 /\ pc' = "idle"
  PROVE  FoundInv'
<1>1. CASE outcome' = "failed"
  BY <1>1 DEF FoundInv
<1>2. CASE outcome' # "failed"
  <2>1. outcome # "failed"
    BY <1>2 DEF FailInv
  <2>2. Found(pos - 1)'
    BY <2>1, FoundKept
  <2> QED BY <1>2, <2>2 DEF FoundInv
<1> QED BY <1>1, <1>2

\* It holds at first.
LEMMA FoundInit == Init => FoundInv
<1> SUFFICES ASSUME Init PROVE FoundInv
  OBVIOUS
<1>1. pos - 1 = 0 /\ outcome = "none"
  BY DEF Init
<1> QED BY <1>1 DEF FoundInv, Found

\* A scan begins: nothing is to be found yet.
LEMMA FoundStartScan ==
  ASSUME NEW pods \in Manifests, StartScan(pods)
  PROVE  FoundInv'
<1>1. (pos - 1)' = 0 /\ outcome' = "none"
  BY DEF StartScan
<1> QED BY <1>1 DEF FoundInv, Found

\* A snapshot is passed over only if it is no running pod or a repetition.
LEMMA FoundNextPod ==
  ASSUME ScanInv, FailInv, FoundInv, NextPod
  PROVE  FoundInv'
<1>1. UNCHANGED <<life, undisturbed>> /\ pc = "next" /\ Len(list) \in Nat /\ pos \in 1..(Len(list) + 1)
  BY PodType DEF NextPod, historyVars, ScanInv, TypeScan
<1>2. CASE pos > Len(list) /\ pc' = "idle" /\ outcome' = "ok" /\ UNCHANGED <<list, pos, endpoints>>
  <2>1. pos = Len(list) + 1
    BY <1>1, <1>2
  <2> QED BY <1>1, <1>2, <2>1, FoundStays
<1>3. CASE Fail \/ (UNCHANGED scanVars)
  BY <1>1, <1>3, FoundStays DEF Fail, scanVars
<1>4. CASE pos <= Len(list) /\ Earlier # {} /\ (\A i \in Earlier : list[i] = Pod) /\ Skip
  BY <1>1, <1>4, FoundSkips DEF Earlier
<1>5. CASE pos <= Len(list) /\ Pod.kind \in {"pending", "deleting", "host_network"} /\ Skip
  BY <1>1, <1>5, FoundSkips
<1> QED BY <1>2, <1>3, <1>4, <1>5 DEF NextPod, Goto

\* Each of the reads skips only a pod that has no steady sandbox.
LEMMA FoundSkipsAt ==
  ASSUME ScanInv, FailInv, FoundInv, pc \in Steps, Skip, UNCHANGED <<life, undisturbed>>,
         \A s \in Sandboxes : ~Steady(s)
  PROVE  FoundInv'
BY FoundSkips DEF ScanInv, Progress, Steps

\* A step with the pod that is no answer yet.
LEMMA FoundGoesOn ==
  ASSUME FailInv, FoundInv, pc \in Steps, Fail \/ (UNCHANGED scanVars), UNCHANGED life,
         UNCHANGED undisturbed \/ undisturbed' = {}
  PROVE  FoundInv'
BY FoundStays DEF Steps, Fail, scanVars

\* A steady pod has exactly one ready sandbox.
LEMMA FoundList ==
  ASSUME ScanInv, FailInv, FoundInv, ListPodSandbox
  PROVE  FoundInv'
<1>1. UNCHANGED <<life, undisturbed>> /\ pc = "list" /\ pc \in Steps
  BY DEF ListPodSandbox, historyVars, Steps
<1>2. ASSUME Cardinality(ReadySandboxes) # 1, NEW s \in Sandboxes, Steady(s) PROVE FALSE
  <2>1. ReadySandboxes = {s}
    BY <1>1, <1>2, TheSandbox DEF ReadySandboxes, Steady, Ready
  <2>2. Cardinality({s}) = 1
    BY FS_Singleton, Zenon
  <2> QED BY <1>2, <2>1, <2>2
<1> QED BY <1>1, <1>2, FoundSkipsAt, FoundGoesOn DEF ListPodSandbox

\* It is still ready.
LEMMA FoundStatus ==
  ASSUME ScanInv, FailInv, FoundInv, PodSandboxStatus
  PROVE  FoundInv'
<1>1. UNCHANGED <<life, undisturbed>> /\ pc = "status" /\ pc \in Steps
  BY DEF PodSandboxStatus, historyVars, Steps
<1>2. ASSUME NEW s \in Sandboxes, Steady(s) PROVE Ready(id) /\ ~cancelled
  BY <1>1, <1>2, TheSandbox DEF Steady, Ready
<1> QED BY <1>1, <1>2, FoundSkipsAt, FoundGoesOn DEF PodSandboxStatus

\* The second answer for a steady sandbox is the first one again.
LEMMA SteadyAccepted ==
  ASSUME EthIdx \notin {HostIdxOf[u] : u \in Sandboxes},
         ScanInv, CoherentInv, FailInv, pc = "stat", NEW s \in Sandboxes, Steady(s), first # NoInfo,
         NEW found \in Behind(PidOf[id])
  PROVE  /\ [id |-> id, pid |-> PidOf[id], inode |-> InodeOf[found]] = first
         /\ IfIndex(peer) # IfIndex(host)
<1>1. id = s /\ first.id = s /\ life[s] = "up" /\ first \in Infos /\ FirstOK /\ ReadOK
  BY TheSandbox DEF Steady, Steps, ScanInv, TypeResolve, Progress, CoherentInv
<1>2. found = s
  BY <1>1, BehindUp DEF CoherentInv
<1>3. PeerOK /\ HostOK /\ first.inode = InodeOf[s] /\ first.pid = PidOf[s]
  BY <1>1 DEF ReadOK, FirstOK
<1>4. first = [id |-> s, pid |-> PidOf[s], inode |-> InodeOf[s]]
  BY <1>1, <1>3 DEF Infos
<1>5. s # "host"
  BY ConstantsAssumption DEF Sandboxes
<1>6. IfIndex(peer) = EthIdx
  BY <1>1, <1>3, <1>5 DEF IfIndex, PeerOK
<1>7. IfIndex(host) = HostIdxOf[s]
  BY <1>1, <1>3 DEF IfIndex, HostOK
<1> QED BY <1>1, <1>2, <1>4, <1>6, <1>7

\* An endpoint that is accepted is the one of the steady sandbox, if there is
\* one.
LEMMA FoundAccepts ==
  ASSUME ScanInv, CoherentInv', FailInv, FoundInv, pc = "stat", UNCHANGED <<life, undisturbed>>, first # NoInfo,
         endpoints' = [endpoints EXCEPT ![Pod.uid] = [info |-> first, peer |-> peer, host |-> host]],
         pos' = pos + 1, UNCHANGED <<list, outcome>>
  PROVE  FoundInv'
<1>1. /\ pos \in Nat \ {0} /\ outcome # "failed" /\ outcome # "ok" /\ Pod.uid \in Pods
      /\ endpoints \in [Pods -> Endpoints \cup {NoEndpoint}] /\ pc \in Steps
  BY PodType DEF FailInv, FoundInv, ScanInv, Progress, Steps, TypeScan
<1>2. IsEndpointOf(endpoints'[Pod.uid], first.id)
  <2> DEFINE e == [info |-> first, peer |-> peer, host |-> host]
  <2>1. endpoints'[Pod.uid] = e /\ e.info = first
    BY <1>1
  <2>2. e # NoEndpoint
    BY <2>1 DEF NoEndpoint
  <2> HIDE DEF e
  <2>3. PICK u \in Sandboxes : IsEndpointOf(endpoints'[Pod.uid], u)
    BY <1>1, <2>1, <2>2 DEF CoherentInv, EndpointCoherent, IsEndpointOf
  <2>4. first = [id |-> u, pid |-> PidOf[u], inode |-> InodeOf[u]]
    BY <2>1, <2>3 DEF IsEndpointOf
  <2>5. first.id = u
    BY <2>4
  <2> QED BY <2>3, <2>5
<1>3. ASSUME NEW j \in 1..pos, NEW s \in Sandboxes, list[j].kind = "running", list[j].uid = PodOf[s],
             PodOf[s] \in undisturbed, Settled(PodOf[s]), life[s] = "up"
      PROVE  IsEndpointOf(endpoints'[PodOf[s]], s)
  <2>1. CASE PodOf[s] = Pod.uid
    <3>1. Steady(s)
      BY <1>3, <2>1 DEF Steady
    <3>2. first.id = s
      BY <1>1, <3>1, TheSandbox
    <3> QED BY <1>2, <2>1, <3>2
  <2>2. CASE PodOf[s] # Pod.uid
    <3>1. j # pos /\ j \in 1..(pos - 1)
      BY <1>1, <1>3, <2>2 DEF Pod
    <3>2. IsEndpointOf(endpoints[PodOf[s]], s)
      BY <1>1, <1>3, <3>1 DEF FoundInv, Found
    <3>3. endpoints'[PodOf[s]] = endpoints[PodOf[s]]
      BY <1>1, <2>2, WorldAssumption
    <3> QED BY <3>2, <3>3
  <2> QED BY <2>1, <2>2
<1>4. Found(pos - 1)'
  <2>1. (pos - 1)' = pos
    BY <1>1
  <2> QED BY <1>3, <2>1 DEF Found, Settled, Ready, IsEndpointOf
<1> QED BY <1>1, <1>4 DEF FoundInv

\* The second answer is the first, and the endpoint is accepted.
LEMMA FoundStat ==
  ASSUME EthIdx \notin {HostIdxOf[s] : s \in Sandboxes},
         ScanInv, CoherentInv, CoherentInv', FailInv, FoundInv, StatNetNS
  PROVE  FoundInv'
<1>1. UNCHANGED <<life, undisturbed>> /\ pc = "stat" /\ pc \in Steps
  BY DEF StatNetNS, historyVars, Steps
<1>2. PICK found \in Behind(PidOf[id]) :
         IF found = NoProcess THEN Skip /\ UNCHANGED first
         ELSE LET info == [id |-> id, pid |-> PidOf[id], inode |-> InodeOf[found]]
              IN  IF first = NoInfo
                  THEN first' = info /\ Goto("run_ns") /\ UNCHANGED scanVars
                  ELSE Accept(info) /\ UNCHANGED first
  BY DEF StatNetNS
<1>3. CASE found = NoProcess
  <2>1. ASSUME NEW s \in Sandboxes, Steady(s) PROVE FALSE
    <3>1. id = s /\ life[s] = "up"
      BY <1>1, <2>1, TheSandbox DEF Steady
    <3>2. found = s
      BY <1>2, <3>1, BehindUp DEF CoherentInv
    <3> QED BY <1>3, <3>2, WorldAssumption DEF Sandboxes, Namespaces
  <2> QED BY <1>1, <1>2, <1>3, <2>1, FoundSkipsAt
<1>4. CASE UNCHANGED scanVars
  BY <1>1, <1>4, FoundGoesOn
<1>5. CASE found # NoProcess /\ first # NoInfo
  <2> DEFINE info == [id |-> id, pid |-> PidOf[id], inode |-> InodeOf[found]]
  <2>1. Accept(info)
    BY <1>2, <1>5
  <2>2. ASSUME NEW s \in Sandboxes, Steady(s) PROVE info = first /\ IfIndex(peer) # IfIndex(host)
    BY <1>1, <1>5, <2>2, SteadyAccepted
  <2> HIDE DEF info
  <2>3. CASE Fail
    BY <1>1, <2>3, FoundGoesOn
  <2>4. CASE (info # first \/ IfIndex(peer) = IfIndex(host)) /\ Skip
    BY <1>1, <2>2, <2>4, FoundSkipsAt
  <2> QED BY <1>1, <1>5, <2>1, <2>3, <2>4, FoundAccepts DEF Accept, SameSandbox
<1> QED BY <1>2, <1>3, <1>4, <1>5

\* In the call, and after it.
LEMMA FoundInCall ==
  ASSUME ScanInv, CoherentInv, FailInv, FoundInv, RunNS \/ OpenSelfInCall \/ EnterInCall \/ PodEth0 \/ RestoreInCall
  PROVE  FoundInv'
<1>1. pc \in Steps /\ UNCHANGED life /\ (UNCHANGED undisturbed \/ undisturbed' = {})
  BY DEF RunNS, OpenSelfInCall, EnterInCall, PodEth0, RestoreInCall, Steps, historyVars
<1>2. CASE Fail \/ (UNCHANGED scanVars)
  BY <1>1, <1>2, FoundGoesOn
<1>3. CASE RestoreInCall /\ UNCHANGED undisturbed /\ peer = NoLink /\ Skip
  <2>1. ASSUME NEW s \in Sandboxes, Steady(s) PROVE FALSE
    <3>1. pc = "in_ns" /\ Top.stage = "restore" /\ first # NoInfo /\ ReadOK
      BY <1>1, <1>3 DEF RestoreInCall, Restore, Active, ScanInv, Progress, CoherentInv
    <3>2. first.id = s /\ Ready(s)
      BY <1>1, <2>1, <3>1, TheSandbox DEF Steady, Ready
    <3>3. peer = ContextDone \/ peer = <<"eth0", s>>
      BY <3>1, <3>2 DEF ReadOK, PeerOK
    <3> QED BY <1>3, <3>3 DEF NoLink, ContextDone
  <2> QED BY <1>1, <1>3, <2>1, FoundSkipsAt
<1> QED BY <1>2, <1>3 DEF RunNS, OpenSelfInCall, EnterInCall, PodEth0, RestoreInCall

\* The host end is there.
LEMMA FoundHostVeth ==
  ASSUME ScanInv, HomeInv, CoherentInv, FailInv, FoundInv, NEW t \in Threads, HostVeth(t)
  PROVE  FoundInv'
<1>1. UNCHANGED <<life, undisturbed>> /\ pc = "host_veth" /\ pc \in Steps /\ ns[t] = "host"
  BY DEF HostVeth, historyVars, Steps, HomeInv, PoolIsHome
<1>2. ASSUME NEW s \in Sandboxes, Steady(s) PROVE LinkByIndex("host", hostIfIndex) # {}
  <2>1. first # NoInfo /\ ReadOK
    BY <1>1 DEF ScanInv, Progress, CoherentInv
  <2>2. first.id = s /\ Ready(s) /\ Wired(s)
    BY <1>1, <1>2, <2>1, TheSandbox DEF Steady, Ready, Wired
  <2>3. hostIfIndex = HostIdxOf[s]
    BY <1>1, <2>1, <2>2 DEF ReadOK, PeerOK
  <2>4. <<"veth", s>> \in LinkByIndex("host", hostIfIndex)
    BY <2>2, <2>3 DEF LinkByIndex
  <2> QED BY <2>4
<1> QED BY <1>1, <1>2, FoundSkipsAt, FoundGoesOn DEF HostVeth

\* A sandbox that starts or stops disturbs its pod and no other.
LEMMA FoundSandbox ==
  ASSUME ScanInv, FoundInv, NEW s \in Sandboxes, StartSandbox(s) \/ StopSandbox(s)
  PROVE  FoundInv'
<1>1. UNCHANGED <<list, pos, endpoints, outcome, pc>> /\ undisturbed' = undisturbed \ {PodOf[s]}
  BY DEF StartSandbox, StopSandbox, Disturb, scanVars
<1>2. \A u \in Sandboxes : PodOf[u] \in undisturbed' => life'[u] = life[u]
  BY <1>1, LivesOnce DEF ScanInv
<1>3. ASSUME NEW u \in Sandboxes, PodOf[u] \in undisturbed', Settled(PodOf[u])' PROVE Settled(PodOf[u])
  BY <1>2, <1>3 DEF Settled, Ready
<1>4. ASSUME outcome # "failed" PROVE Found(pos - 1)'
  BY <1>1, <1>2, <1>3, <1>4 DEF FoundInv, Found, IsEndpointOf
<1> QED BY <1>1, <1>4 DEF FoundInv

\* Cancellation, threads that are replaced.
LEMMA FoundAside ==
  ASSUME FailInv, FoundInv, Cancel \/ (\E t \in Threads : ReplaceThread(t)) \/ UNCHANGED vars
  PROVE  FoundInv'
<1>1. UNCHANGED <<life, pc, list, pos, endpoints, outcome>> /\ undisturbed' \subseteq undisturbed
  BY DEF Cancel, ReplaceThread, scanVars, vars, historyVars
<1> QED BY <1>1, FoundStays

\* Every step.
LEMMA FoundNext ==
  ASSUME EthIdx \notin {HostIdxOf[s] : s \in Sandboxes},
         ScanInv, HomeInv, CoherentInv, CoherentInv', FailInv, FoundInv, [Next]_vars
  PROVE  FoundInv'
<1>1. CASE CallFails
  BY <1>1, FoundSkips DEF CallFails, ScanInv, Progress, Steps
<1> QED BY <1>1, FoundStartScan, FoundNextPod, FoundList, FoundStatus, FoundStat, FoundInCall, FoundHostVeth,
           FoundAside, FoundSandbox DEF Next, ScanStep

\* After a successful scan, every running pod of the list that nothing happened
\* to has the endpoint of the one sandbox it has: neither the pods that came,
\* went or were skipped meanwhile, nor repetitions in the list, nor reused PIDs,
\* inodes and ifindexes hide it.  This is what a plan is merged from.
THEOREM ScanFindsPods ==
  ASSUME ~PidReuse, Leader \notin FailingThreads, EthIdx \notin {HostIdxOf[s] : s \in Sandboxes}
  PROVE  Spec => [](pc = "idle" /\ outcome = "ok" => Found(Len(list)))
<1>1. ScanInv /\ HomeInv /\ CoherentInv /\ CoherentInv' /\ FailInv /\ FoundInv /\ [Next]_vars => FoundInv'
  BY FoundNext
<1>2. ScanInv /\ FoundInv => (pc = "idle" /\ outcome = "ok" => Found(Len(list)))
  <2> SUFFICES ASSUME ScanInv, FoundInv, outcome = "ok" PROVE Found(Len(list))
    OBVIOUS
  <2>1. pos - 1 = Len(list)
    BY PodType DEF FoundInv, ScanInv
  <2> QED BY <2>1 DEF FoundInv
<1> QED BY <1>1, <1>2, FoundInit, FailReachable, PTL DEF Spec

-----------------------------------------------------------------------------
(***************************************************************************)
(* What a plan is made of.  Two endpoints of one scan may have been read   *)
(* at times when the same inode or ifindex belonged to different           *)
(* sandboxes; but a sandbox that was up all the time shares neither with   *)
(* any sandbox the scan has met.                                           *)
(***************************************************************************)
Apart(u, s) == InodeOf[u] # InodeOf[s] /\ HostIdxOf[u] # HostIdxOf[s]

\* The sandbox is up, and so it was when the scan began.
Kept(s) == life[s] = "up" /\ PodOf[s] \in undisturbed

\* u shares nothing with any other sandbox that was up all the time.
ApartFromKept(u) == \A s \in Sandboxes : Kept(s) /\ s # u => Apart(u, s)

\* The sandboxes the scan has met: the one the runtime named last, the one of
\* the first answer, and those of the endpoints.
ApartInv ==
    /\ \A s, u \in Sandboxes : Wired(s) /\ Wired(u) /\ s # u => Apart(u, s)
    /\ pc \in {"status", "stat"} => ApartFromKept(id)
    /\ pc \in Steps /\ first # NoInfo => ApartFromKept(first.id)
    /\ \A p \in Pods, u \in Sandboxes : IsEndpointOf(endpoints[p], u) => ApartFromKept(u)

\* At first there is nothing.
LEMMA ApartInit == Init => ApartInv
<1> SUFFICES ASSUME Init PROVE ApartInv
  OBVIOUS
<1>1. \A p \in Pods, u \in Sandboxes : ~IsEndpointOf(endpoints[p], u)
  BY Constants DEF Init, IsEndpointOf, NoEndpoint
<1> QED BY <1>1 DEF Init, ApartInv, Wired, Steps

\* A step of a scan.
LEMMA ApartStep ==
  ASSUME ApartInv, UNCHANGED <<life, endpoints>>, undisturbed' \subseteq undisturbed,
         pc' \in {"status", "stat"} => ApartFromKept(id'),
         pc' \in Steps /\ first' # NoInfo => ApartFromKept(first'.id)
  PROVE  ApartInv'
<1>1. \A s \in Sandboxes : Kept(s)' => Kept(s)
  BY DEF Kept
<1>2. \A s, u \in Sandboxes : Wired(s)' /\ Wired(u)' /\ s # u => Apart(u, s)
  BY DEF ApartInv, Wired
<1>3. \A p \in Pods, u \in Sandboxes : IsEndpointOf(endpoints[p], u)' => ApartFromKept(u)'
  BY <1>1 DEF ApartInv, IsEndpointOf, ApartFromKept, Apart
<1>4. pc' \in {"status", "stat"} => ApartFromKept(id)'
  BY <1>1 DEF ApartFromKept, Apart
<1>5. pc' \in Steps /\ first' # NoInfo => ApartFromKept(first.id)'
  BY <1>1 DEF ApartFromKept, Apart
<1> QED BY <1>2, <1>3, <1>4, <1>5 DEF ApartInv, Apart

\* Skipping a pod, failing and ending a scan.
LEMMA ApartLeaves ==
  ASSUME ApartInv, UNCHANGED <<life, endpoints>>, undisturbed' \subseteq undisturbed, pc' \in {"idle", "next"}
  PROVE  ApartInv'
BY ApartStep DEF Steps

\* A new scan has met nobody.
LEMMA ApartStartScan ==
  ASSUME ApartInv, NEW pods \in Manifests, StartScan(pods)
  PROVE  ApartInv'
<1>1. pc' = "next" /\ UNCHANGED life /\ endpoints' = [p \in Pods |-> NoEndpoint]
  BY DEF StartScan, Goto
<1>2. \A p \in Pods, u \in Sandboxes : ~IsEndpointOf(endpoints'[p], u)
  BY <1>1, Constants DEF IsEndpointOf, NoEndpoint
<1>3. \A p \in Pods, u \in Sandboxes : ~IsEndpointOf(endpoints[p], u)'
  BY <1>2 DEF IsEndpointOf
<1>4. \A s, u \in Sandboxes : Wired(s)' /\ Wired(u)' /\ s # u => Apart(u, s)
  BY <1>1 DEF ApartInv, Wired
<1> QED BY <1>1, <1>3, <1>4 DEF ApartInv, Steps, Apart

\* The sandbox the runtime names is there, together with all that were up.
LEMMA ApartList ==
  ASSUME ApartInv, ListPodSandbox
  PROVE  ApartInv'
<1>1. UNCHANGED <<life, first, undisturbed>> /\ pc = "list"
  BY DEF ListPodSandbox, historyVars
<1>2. CASE Skip \/ Fail
  BY <1>1, <1>2, ApartLeaves DEF Skip, Fail
<1>3. CASE id' \in ReadySandboxes /\ pc' = "status" /\ UNCHANGED scanVars
  <2>1. id' \in Sandboxes /\ Wired(id')
    BY <1>3 DEF ReadySandboxes, Ready, Wired
  <2>2. \A s \in Sandboxes : Kept(s) => Wired(s)
    BY DEF Kept, Wired
  <2>3. ApartFromKept(id')
    BY <2>1, <2>2 DEF ApartInv, ApartFromKept
  <2>4. first # NoInfo => ApartFromKept(first.id)
    BY <1>1 DEF ApartInv, Steps
  <2> QED BY <1>1, <1>3, <2>3, <2>4, ApartStep DEF scanVars
<1> QED BY <1>2, <1>3 DEF ListPodSandbox, Goto

\* The first answer names the sandbox the runtime named, and so does the
\* endpoint that is accepted.
LEMMA ApartStat ==
  ASSUME ScanInv, ApartInv, StatNetNS
  PROVE  ApartInv'
<1>1. UNCHANGED <<life, id, undisturbed>> /\ pc = "stat" /\ ApartFromKept(id)
  BY DEF StatNetNS, historyVars, ApartInv
<1>2. CASE Skip \/ Fail
  BY <1>1, <1>2, ApartLeaves DEF Skip, Fail
<1>3. ASSUME NEW found, first' = [id |-> id, pid |-> PidOf[id], inode |-> InodeOf[found]],
             pc' = "run_ns", UNCHANGED scanVars
      PROVE  ApartInv'
  <2>1. first'.id = id
    BY <1>3
  <2> QED BY <1>1, <1>3, <2>1, ApartStep DEF scanVars
<1>4. ASSUME first # NoInfo, UNCHANGED first, pc' = "next",
             endpoints' = [endpoints EXCEPT ![Pod.uid] = [info |-> first, peer |-> peer, host |-> host]]
      PROVE  ApartInv'
  <2>1. ApartFromKept(first.id) /\ endpoints \in [Pods -> Endpoints \cup {NoEndpoint}]
    BY <1>1, <1>4 DEF ApartInv, Steps, ScanInv, TypeScan
  <2> DEFINE e == [info |-> first, peer |-> peer, host |-> host]
  <2>2. e.info = first
    OBVIOUS
  <2>3. endpoints' = [endpoints EXCEPT ![Pod.uid] = e]
    BY <1>4
  <2> HIDE DEF e
  <2>4. ASSUME NEW p \in Pods, NEW u \in Sandboxes, IsEndpointOf(endpoints'[p], u) PROVE ApartFromKept(u)
    <3>1. CASE p = Pod.uid
      <4>1. first.id = u
        BY <2>1, <2>2, <2>3, <2>4, <3>1 DEF IsEndpointOf
      <4> QED BY <2>1, <4>1
    <3>2. CASE p # Pod.uid
      BY <2>1, <2>3, <2>4, <3>2 DEF ApartInv
    <3> QED BY <3>1, <3>2
  <2>5. \A p \in Pods, u \in Sandboxes : IsEndpointOf(endpoints[p], u)' => ApartFromKept(u)'
    BY <1>1, <2>4 DEF IsEndpointOf, ApartFromKept, Kept, Apart
  <2>6. \A s, u \in Sandboxes : Wired(s)' /\ Wired(u)' /\ s # u => Apart(u, s)
    BY <1>1 DEF ApartInv, Wired
  <2> QED BY <1>4, <2>5, <2>6 DEF ApartInv, Steps, Apart
<1> QED BY <1>2, <1>3, <1>4 DEF StatNetNS, Accept, Goto

\* The other steps keep the first answer and the endpoints.
LEMMA ApartGoesOn ==
  ASSUME ScanInv, ApartInv,
         \/ NextPod \/ PodSandboxStatus \/ RunNS \/ OpenSelfInCall \/ EnterInCall \/ PodEth0 \/ RestoreInCall
         \/ (\E t \in Threads : HostVeth(t)) \/ CallFails \/ Cancel \/ (\E t \in Threads : ReplaceThread(t))
         \/ UNCHANGED vars
  PROVE  ApartInv'
<1>1. UNCHANGED <<life, endpoints>>
  BY DEF NextPod, PodSandboxStatus, RunNS, OpenSelfInCall, EnterInCall, PodEth0, RestoreInCall, HostVeth, CallFails,
     Cancel, ReplaceThread, vars, scanVars, Skip, Fail
<1>2. undisturbed' \subseteq undisturbed
  BY DEF NextPod, PodSandboxStatus, RunNS, OpenSelfInCall, EnterInCall, PodEth0, RestoreInCall, HostVeth, CallFails,
     Cancel, ReplaceThread, vars, historyVars
<1>3. CASE NextPod
  <2>1. pc' \in {"idle", "next", "list"} /\ first' = NoInfo
    BY <1>3 DEF NextPod, ForgetPod, Skip, Fail, Goto
  <2> QED BY <1>1, <1>2, <2>1, ApartStep
<1>4. CASE pc' \in {"idle", "next"}
  BY <1>1, <1>2, <1>4, ApartLeaves
<1>5. CASE first' = first /\ pc \in Steps /\ pc' \notin {"status", "stat"}
  BY <1>1, <1>2, <1>5, ApartStep DEF ApartInv
<1>6. CASE first' = first /\ id' = id /\ pc = "status" /\ pc' = "stat"
  BY <1>1, <1>2, <1>6, ApartStep DEF ApartInv, Steps
<1>7. CASE first' = first /\ id' = id /\ pc' = pc
  BY <1>1, <1>2, <1>7, ApartStep DEF ApartInv
<1>8. CASE PodSandboxStatus \/ CallFails
  BY <1>4, <1>6, <1>8 DEF PodSandboxStatus, CallFails, resolveVars, Skip, Goto
<1>9. CASE RunNS \/ (\E t \in Threads : HostVeth(t))
  BY <1>4, <1>5, <1>9 DEF RunNS, HostVeth, resolveVars, Skip, Fail, Goto, Steps
<1>10. CASE OpenSelfInCall \/ EnterInCall \/ PodEth0 \/ RestoreInCall
  <2>1. pc = "in_ns" /\ first' = first
    BY <1>10 DEF OpenSelfInCall, EnterInCall, PodEth0, RestoreInCall, resolveVars
  <2>2. pc' \in {"idle", "next", "in_ns", "host_veth"}
    BY <1>10, <2>1 DEF OpenSelfInCall, EnterInCall, PodEth0, RestoreInCall, Skip, Fail, Goto
  <2> QED BY <1>5, <2>1, <2>2 DEF Steps
<1>11. CASE Cancel \/ (\E t \in Threads : ReplaceThread(t)) \/ UNCHANGED vars
  BY <1>7, <1>11 DEF Cancel, ReplaceThread, vars, resolveVars
<1> QED BY <1>3, <1>8, <1>9, <1>10, <1>11

\* A sandbox that starts takes what is free, and its pod is disturbed.
LEMMA ApartSandbox ==
  ASSUME ScanInv, ApartInv, NEW s \in Sandboxes, StartSandbox(s) \/ StopSandbox(s)
  PROVE  ApartInv'
<1>0. TypeWorld /\ life \in [Sandboxes -> {"none", "up", "exited", "stopped", "gone"}]
  BY DEF ScanInv, TypeWorld
<1>1. UNCHANGED <<pc, endpoints, first, id>> /\ undisturbed' = undisturbed \ {PodOf[s]}
  BY DEF StartSandbox, StopSandbox, scanVars, resolveVars, Disturb
<1>2. \A u \in Sandboxes : Kept(u)' => Kept(u)
  BY <1>0, <1>1, LivesOnce DEF Kept
<1>3. \A w, u \in Sandboxes : Wired(w)' /\ Wired(u)' /\ w # u => Apart(u, w)
  <2>1. CASE StartSandbox(s)
    <3>1. life' = [life EXCEPT ![s] = "up"]
      BY <2>1 DEF StartSandbox
    <3>2. ASSUME NEW u \in Sandboxes, Wired(u) PROVE Apart(u, s) /\ Apart(s, u)
      <4>1. InodeOf[u] # InodeOf[s]
        BY <2>1, <3>2 DEF StartSandbox, Pinned
      <4>2. HostIdxOf[u] = HostIdxOf[s] => <<"veth", u>> \in LinkByIndex("host", HostIdxOf[s])
        BY <3>2 DEF LinkByIndex
      <4>3. LinkByIndex("host", HostIdxOf[s]) = {}
        BY <2>1 DEF StartSandbox
      <4> QED BY <4>1, <4>2, <4>3 DEF Apart
    <3>3. \A u \in Sandboxes \ {s} : Wired(u)' <=> Wired(u)
      BY <1>0, <3>1 DEF Wired
    <3> QED BY <3>2, <3>3 DEF ApartInv
  <2>2. CASE StopSandbox(s)
    <3>1. \A u \in Sandboxes : Wired(u)' => Wired(u)
      BY <1>0, <2>2 DEF StopSandbox, Wired
    <3> QED BY <3>1 DEF ApartInv
  <2> QED BY <2>1, <2>2
<1>4. \A p \in Pods, u \in Sandboxes : IsEndpointOf(endpoints[p], u)' => ApartFromKept(u)'
  BY <1>1, <1>2 DEF ApartInv, IsEndpointOf, ApartFromKept, Apart
<1>5. pc' \in {"status", "stat"} => ApartFromKept(id)'
  BY <1>1, <1>2 DEF ApartInv, ApartFromKept, Apart
<1>6. pc' \in Steps /\ first' # NoInfo => ApartFromKept(first.id)'
  BY <1>1, <1>2 DEF ApartInv, ApartFromKept, Apart
<1> QED BY <1>3, <1>4, <1>5, <1>6 DEF ApartInv, Apart

\* Every step.
LEMMA ApartNext ==
  ASSUME ScanInv, ApartInv, [Next]_vars
  PROVE  ApartInv'
BY ApartStartScan, ApartList, ApartStat, ApartGoesOn, ApartSandbox DEF Next, ScanStep

\* The two links a sandbox contributes to a plan.
PeerLinkOf(s) == <<InodeOf[s], EthIdx, <<"eth0", s>>>>
HostLinkOf(s) == <<0, HostIdxOf[s], <<"veth", s>>>>

\* Their types and keys.
LEMMA LinksOf ==
  ASSUME NEW s \in Sandboxes
  PROVE  /\ PeerLinkOf(s) \in Nat \X Nat \X Links /\ HostLinkOf(s) \in Nat \X Nat \X Links
         /\ Key(PeerLinkOf(s)) = <<InodeOf[s], EthIdx>> /\ Key(HostLinkOf(s)) = <<0, HostIdxOf[s]>>
<1>1. s \in Namespaces /\ s # "host"
  BY ConstantsAssumption DEF Sandboxes, Namespaces
<1>2. <<"eth0", s>> \in Links /\ <<"veth", s>> \in Links
  BY <1>1 DEF Links
<1>3. InodeOf[s] \in Nat /\ EthIdx \in Nat /\ HostIdxOf[s] \in Nat
  BY <1>1, ConstantsAssumption, WorldAssumption DEF Namespaces
<1> QED BY <1>2, <1>3 DEF PeerLinkOf, HostLinkOf, Key

\* What an endpoint contributes.
LEMMA LinksOfEndpoint ==
  ASSUME NEW p \in Pods, NEW s \in Sandboxes, IsEndpointOf(endpoints[p], s)
  PROVE  EndpointLinks[p] = <<PeerLinkOf(s), HostLinkOf(s)>>
<1> DEFINE e == endpoints[p]
<1>1. e.info.id = s /\ e.info.inode = InodeOf[s] /\ e.peer = <<"eth0", s>> /\ e.host = <<"veth", s>>
  BY DEF IsEndpointOf
<1>2. e # NoEndpoint
  BY <1>1, Constants DEF NoEndpoint
<1>3. s # "host"
  BY ConstantsAssumption DEF Sandboxes
<1>4. IfIndex(e.peer) = EthIdx /\ IfIndex(e.host) = HostIdxOf[s]
  BY <1>1, <1>3 DEF IfIndex
<1> QED BY <1>1, <1>2, <1>4 DEF EndpointLinks, PeerLinkOf, HostLinkOf

\* A sandbox that was up all the time and was found is in the plan.
LEMMA PlanCovers ==
  ASSUME EthIdx \notin {HostIdxOf[s] : s \in Sandboxes}, EndpointCoherent, ApartInv,
         NEW base \in TCLinks, NEW s \in Sandboxes, Kept(s), IsEndpointOf(endpoints[PodOf[s]], s)
  PROVE  {PeerLinkOf(s), HostLinkOf(s)} \subseteq Plan(base)
<1> DEFINE S == Nat \X Nat \X Links
           el == EndpointLinks
           u == PodOf[s]
<1>1. DOMAIN el = Pods /\ u \in Pods
  BY WorldAssumption DEF EndpointLinks
<1>2. \A p \in Pods : endpoints[p] = NoEndpoint => el[p] = <<>>
  BY DEF EndpointLinks
<1>3. \A p \in Pods : el[p] # <<>> =>
         \E w \in Sandboxes : PodOf[w] = p /\ IsEndpointOf(endpoints[p], w) /\ el[p] = <<PeerLinkOf(w), HostLinkOf(w)>>
  BY <1>2, LinksOfEndpoint DEF EndpointCoherent
<1>4. el[u] = <<PeerLinkOf(s), HostLinkOf(s)>>
  BY <1>1, LinksOfEndpoint
<1>5. PICK bound \in Nat : Pods \subseteq 0..bound
  BY WorldAssumption, FiniteBounded
<1>6. base \in Seq(S)
  BY TCLinksAssumption
<1> HIDE DEF S, el
<1>7. \A w \in Sandboxes : PeerLinkOf(w) \in S /\ HostLinkOf(w) \in S
  BY LinksOf DEF S
<1>8. IsLinkMap(el, S)
  BY <1>1, <1>3, <1>7 DEF IsLinkMap
<1>9. Key(PeerLinkOf(s)) # Key(HostLinkOf(s))
  BY LinksOf
<1>10. ASSUME NEW v \in Pods, v # u, el[v] # <<>>
       PROVE  /\ Key(el[v][1]) # Key(PeerLinkOf(s)) /\ Key(el[v][2]) # Key(PeerLinkOf(s))
              /\ Key(el[v][1]) # Key(HostLinkOf(s)) /\ Key(el[v][2]) # Key(HostLinkOf(s))
  <2>1. PICK w \in Sandboxes : PodOf[w] = v /\ IsEndpointOf(endpoints[v], w) /\ el[v] = <<PeerLinkOf(w), HostLinkOf(w)>>
    BY <1>3, <1>10
  <2>2. InodeOf[w] # InodeOf[s] /\ HostIdxOf[w] # HostIdxOf[s]
    BY <1>10, <2>1 DEF ApartInv, ApartFromKept, Apart
  <2>3. el[v][1] = PeerLinkOf(w) /\ el[v][2] = HostLinkOf(w)
    BY <2>1
  <2> QED BY <2>2, <2>3, LinksOf
<1>11. OnlyOf(el, u, Key(PeerLinkOf(s))) /\ OnlyOf(el, u, Key(HostLinkOf(s)))
  BY <1>1, <1>10 DEF OnlyOf
<1>12. {PeerLinkOf(s), HostLinkOf(s)} \subseteq Visited(mergeEndpointLinks(base, el))
  BY <1>1, <1>4, <1>5, <1>6, <1>7, <1>8, <1>9, <1>11, MergeVisits
<1> QED BY <1>12 DEF Plan, el

\* The plan that follows a successful scan has both ends of the veth pair of
\* every running pod of the list that nothing happened to: neither stale links
\* of the manifest with the same keys, nor the endpoints of pods that came and
\* went during the scan, which may have left their inode or ifindex to others,
\* take their places.
THEOREM PlanCovered ==
  ASSUME ~PidReuse, Leader \notin FailingThreads, EthIdx \notin {HostIdxOf[s] : s \in Sandboxes}
  PROVE  Spec => []PlanCoversPods
<1>1. ScanInv /\ ApartInv /\ [Next]_vars => ApartInv'
  BY ApartNext
<1>2. /\ ScanInv /\ EndpointCoherent /\ ApartInv
      /\ (pc = "idle" /\ outcome = "ok" => Found(Len(list)))
      => PlanCoversPods
  <2> SUFFICES ASSUME ScanInv, EndpointCoherent, ApartInv, Found(Len(list)),
                      NEW base \in TCLinks, NEW i \in DOMAIN list, NEW s \in Sandboxes,
                      list[i].kind = "running", list[i].uid = PodOf[s],
                      PodOf[s] \in undisturbed, Settled(PodOf[s]), life[s] = "up"
               PROVE  {PeerLinkOf(s), HostLinkOf(s)} \subseteq Plan(base)
    BY DEF PlanCoversPods, PeerLinkOf, HostLinkOf
  <2>1. i \in 1..Len(list)
    BY PodType DEF ScanInv
  <2>2. IsEndpointOf(endpoints[PodOf[s]], s)
    BY <2>1 DEF Found
  <2> QED BY <2>2, PlanCovers DEF Kept
<1>3. Spec => []ScanInv
  BY ScanReachable
<1> QED BY <1>1, <1>2, <1>3, ApartInit, Coherent, ScanFindsPods, PTL DEF Spec
==============================================================================
