-------------------------- MODULE EndpointResolver --------------------------
(***************************************************************************)
(* EndpointScanner.Scan, LinuxEndpointResolver.Resolve and                 *)
(* CRISandboxResolver.ResolveSandbox, composed with NetNSManager (NetNS)   *)
(* and with a node on which sandboxes come and go.                         *)
(*                                                                         *)
(* To resolve a pod the agent asks the runtime for the pod's sandbox and   *)
(* its PID, reads the inode behind /proc/PID/ns/net, enters that namespace *)
(* to read eth0, reads the other end of the veth pair on the host, and     *)
(* asks the runtime a second time.  Every read is a step of its own, and   *)
(* PIDs, inodes and host ifindexes are reused.                             *)
(*                                                                         *)
(* A sandbox is a member of PodNets: it has one network namespace, a pod,  *)
(* a PID and a host ifindex for life, and it lives once.                   *)
(***************************************************************************)
EXTENDS NetNS, LinkPlan, FiniteSets

CONSTANTS
    Pods,              \* UIDs of pods; natural numbers, so that they can be sorted
    PodOf, PidOf,      \* the pod and the PID of the pause process of a sandbox
    HostIdxOf,         \* the ifindex of the host end of its veth pair
    EthIdx,            \* the ifindex of eth0 in a pod
    NodeIdx,           \* the ifindex of the node's own eth0
    Manifests,         \* lists of pod snapshots the agent is started with
    TCLinks,           \* lists of links the manifest may name
    PidReuse           \* a PID may be reused before the runtime has seen the exit

Sandboxes == PodNets
NoSandbox == "no sandbox"
NoProcess == "no process"

ASSUME WorldAssumption ==
    /\ {NoSandbox, NoProcess} \cap Namespaces = {}
    /\ Pods \subseteq Nat /\ IsFiniteSet(Pods)
    /\ PodOf \in [Sandboxes -> Pods] /\ PidOf \in [Sandboxes -> Nat]
    /\ HostIdxOf \in [Sandboxes -> Nat]
    /\ EthIdx \in Nat /\ NodeIdx \in Nat /\ NodeIdx \notin {HostIdxOf[s] : s \in Sandboxes}
    /\ \A s \in Sandboxes : InodeOf[s] # InodeOf["host"]
    /\ PidReuse \in BOOLEAN

\* What validatePodSnapshot tells apart, and the resource version.
SnapshotKinds == {"running", "pending", "deleting", "host_network", "incomplete"}
PodSnapshots == [uid : Pods, kind : SnapshotKinds, version : Nat]

ASSUME ManifestsAssumption == Manifests \subseteq Seq(PodSnapshots)

\* A link is known by its name and MAC address, which are never reused.
Links == ({"eth0"} \X Namespaces) \cup ({"veth"} \X Sandboxes)

\* The links of the manifest, as LinkPlan has them.
ASSUME TCLinksAssumption == TCLinks \subseteq Seq(Nat \X Nat \X Links)

NoLink == <<"none", "none">>
ContextDone == <<"none", "context done">>
NoInfo == [id |-> NoSandbox, pid |-> 0, inode |-> 0]
Infos == [id : Sandboxes \cup {NoSandbox}, pid : Nat, inode : Nat]
Endpoints == [info : Infos, peer : Links, host : Links]
NoEndpoint == [info |-> NoInfo, peer |-> NoLink, host |-> NoLink]

VARIABLES
    life,       \* life[s]: none, up, exited (the runtime still says ready),
                \*   stopped (the veth pair is still there), gone
    pc,         \* the next step of the scan
    list, pos,  \* the snapshots to scan and the position in them
    endpoints,  \* the endpoints found so far
    outcome,    \* of the last scan: none, ok, failed
    first,      \* what the first ResolveSandbox returned
    id,         \* the sandbox the runtime named last
    peer, host, hostIfIndex,   \* the links read in between
    cancelled,  \* the context of the scan is done
    undisturbed \* history: pods for which nothing has changed or failed since
                \*   the scan began

resolveVars == <<first, id, peer, host, hostIfIndex>>
scanVars == <<list, pos, endpoints, outcome>>
historyVars == <<cancelled, undisturbed>>
vars == <<life, pc, scanVars, resolveVars, historyVars, netnsVars>>

\* Every variable has its type.
TypeOK ==
    /\ NetNSTypeOK
    /\ life \in [Sandboxes -> {"none", "up", "exited", "stopped", "gone"}]
    /\ pc \in {"idle", "next", "list", "status", "stat", "run_ns", "in_ns", "host_veth"}
    /\ list \in Manifests \cup {<<>>} /\ pos \in 1..(Len(list) + 1)
    /\ endpoints \in [Pods -> Endpoints \cup {NoEndpoint}]
    /\ outcome \in {"none", "ok", "failed"}
    /\ first \in Infos /\ id \in Sandboxes \cup {NoSandbox}
    /\ peer \in Links \cup {NoLink, ContextDone} /\ host \in Links \cup {NoLink}
    /\ hostIfIndex \in Nat
    /\ cancelled \in BOOLEAN /\ undisturbed \subseteq Pods
    /\ stack # <<>> <=> pc = "in_ns"

Init ==
    /\ NetNSInit
    /\ life = [s \in Sandboxes |-> "none"]
    /\ pc = "idle" /\ list = <<>> /\ pos = 1
    /\ endpoints = [p \in Pods |-> NoEndpoint] /\ outcome = "none"
    /\ first = NoInfo /\ id = NoSandbox
    /\ peer = NoLink /\ host = NoLink /\ hostIfIndex = 0
    /\ cancelled = FALSE /\ undisturbed = {}

-----------------------------------------------------------------------------
\* The node.
Ready(s) == life[s] \in {"up", "exited"}
Wired(s) == life[s] \in {"up", "exited", "stopped"}
Pinned(s) == Wired(s) \/ \E t \in Threads : ns[t] = s

PidTaken(pid) == \E s \in Sandboxes : PidOf[s] = pid /\ life[s] = "up"
PidReserved(pid) == ~PidReuse /\ \E s \in Sandboxes : PidOf[s] = pid /\ Ready(s)

\* The namespaces /proc/PID/ns/net may lead to now; a free PID may belong to
\* some process of the host.
Behind(pid) ==
    IF PidTaken(pid) THEN {s \in Sandboxes : PidOf[s] = pid /\ life[s] = "up"}
    ELSE {NoProcess} \cup (IF PidReserved(pid) THEN {} ELSE {"host"})

LinkByIndex(n, index) ==
    IF n = "host"
    THEN {<<"veth", s>> : s \in {s \in Sandboxes : Wired(s) /\ HostIdxOf[s] = index}}
         \cup (IF index = NodeIdx THEN {<<"eth0", "host">>} ELSE {})
    ELSE IF Wired(n) /\ index = EthIdx THEN {<<"eth0", n>>} ELSE {}

IfIndex(link) ==
    IF link = <<"eth0", "host">> THEN NodeIdx
    ELSE IF link[1] = "veth" THEN HostIdxOf[link[2]] ELSE EthIdx

Disturb(s) == undisturbed' = undisturbed \ {PodOf[s]}

\* A sandbox starts: with a free PID, a free ifindex and a free inode.
StartSandbox(s) ==
    /\ life[s] = "none"
    /\ ~PidTaken(PidOf[s]) /\ ~PidReserved(PidOf[s])
    /\ LinkByIndex("host", HostIdxOf[s]) = {}
    /\ \A other \in Sandboxes : Pinned(other) => InodeOf[other] # InodeOf[s]
    /\ life' = [life EXCEPT ![s] = "up"] /\ Disturb(s)
    /\ UNCHANGED <<cancelled, pc, scanVars, resolveVars, netnsVars>>

\* The pause process exits, the runtime notices, the network is torn down.
StopSandbox(s) ==
    /\ \/ life[s] = "up" /\ life' = [life EXCEPT ![s] = "exited"]
       \/ life[s] = "exited" /\ life' = [life EXCEPT ![s] = "stopped"]
       \/ life[s] = "stopped" /\ life' = [life EXCEPT ![s] = "gone"]
    /\ Disturb(s)
    /\ UNCHANGED <<cancelled, pc, scanVars, resolveVars, netnsVars>>

-----------------------------------------------------------------------------
\* EndpointScanner.Scan.
Goto(step) == pc' = step
Pod == list[pos]

\* Mutant: the scan ends at the first endpoint that is not ready.
SkipEndsScan == pc' = "idle" /\ outcome' = "ok" /\ UNCHANGED <<list, pos, endpoints>>

\* Mutant: an endpoint that is not ready is tried again at once.
SkipRetries == pc' = "next" /\ UNCHANGED <<list, pos, endpoints, outcome>>

\* Mutant: an endpoint that is not ready fails the scan.
SkipFails == pc' = "idle" /\ outcome' = "failed" /\ UNCHANGED <<list, pos, endpoints>>

\* isEndpointSkipError: ErrEndpointNotReady, ErrStaleObject, ErrUnsupported.
Skip == pc' = "next" /\ pos' = pos + 1 /\ UNCHANGED <<list, endpoints, outcome>>

\* Any other error fails the whole scan.
Fail == pc' = "idle" /\ outcome' = "failed" /\ UNCHANGED <<list, pos, endpoints>>

\* Mutant: a scan starts where the last one ended.
StartScanKeepsPosition(pods) ==
    /\ pc = "idle"
    /\ list' = pods /\ outcome' = "none" /\ Goto("next") /\ UNCHANGED pos
    /\ endpoints' = [p \in Pods |-> NoEndpoint]
    /\ cancelled' = FALSE /\ undisturbed' = Pods
    /\ UNCHANGED <<life, resolveVars, netnsVars>>

StartScan(pods) ==
    /\ pc = "idle"
    /\ list' = pods /\ pos' = 1 /\ outcome' = "none" /\ Goto("next")
    /\ endpoints' = [p \in Pods |-> NoEndpoint]
    /\ cancelled' = FALSE /\ undisturbed' = Pods
    /\ UNCHANGED <<life, resolveVars, netnsVars>>

ForgetPod ==
    /\ first' = NoInfo /\ id' = NoSandbox
    /\ peer' = NoLink /\ host' = NoLink /\ hostIfIndex' = 0

Earlier == {i \in 1..(pos - 1) : list[i].uid = Pod.uid}

\* The next snapshot of the list: the end, a repetition, or validatePodSnapshot.
NextPod ==
    /\ pc = "next"
    /\ \/ /\ pos > Len(list) /\ Goto("idle") /\ outcome' = "ok"
          /\ UNCHANGED <<list, pos, endpoints>>
       \/ pos <= Len(list) /\ cancelled /\ Fail
       \/ /\ pos <= Len(list) /\ ~cancelled /\ Earlier # {}
          /\ IF \A i \in Earlier : list[i] = Pod THEN Skip ELSE Fail
       \/ /\ pos <= Len(list) /\ ~cancelled /\ Earlier = {}
          /\ \/ Pod.kind = "incomplete" /\ Fail
             \/ Pod.kind \in {"pending", "deleting", "host_network"} /\ Skip
             \/ Pod.kind = "running" /\ Goto("list") /\ UNCHANGED scanVars
    /\ ForgetPod
    /\ UNCHANGED <<life, historyVars, netnsVars>>

-----------------------------------------------------------------------------
\* CRISandboxResolver.ResolveSandbox, called twice.
ReadySandboxes == {s \in Sandboxes : PodOf[s] = Pod.uid /\ Ready(s)}

\* The ready sandboxes with the pod's UID; there must be exactly one.
ListPodSandbox ==
    /\ pc = "list"
    /\ \/ cancelled /\ Fail /\ UNCHANGED id
       \/ ~cancelled /\ Cardinality(ReadySandboxes) # 1 /\ Skip /\ UNCHANGED id
       \/ /\ ~cancelled /\ Cardinality(ReadySandboxes) = 1
          /\ id' \in ReadySandboxes /\ Goto("status") /\ UNCHANGED scanVars
    /\ UNCHANGED <<life, first, peer, host, hostIfIndex, historyVars, netnsVars>>

\* Its status: still ready, and with a PID.
PodSandboxStatus ==
    /\ pc = "status"
    /\ IF Ready(id) /\ ~cancelled THEN Goto("stat") /\ UNCHANGED scanVars ELSE Skip
    /\ UNCHANGED <<life, resolveVars, historyVars, netnsVars>>

\* Mutant: the second answer is not compared with the first.
SameSandboxUnchecked(second) == second.id \in Sandboxes

\* Resolve compares the second answer with the first.
SameSandbox(second) == second = first

\* LinuxEndpointResolver.Validate and the end of Resolve.
Accept(info) ==
    \/ ~SameSandbox(info) /\ Skip
    \/ SameSandbox(info) /\ cancelled /\ Fail
    \/ SameSandbox(info) /\ ~cancelled /\ IfIndex(peer) = IfIndex(host) /\ Skip
    \/ /\ SameSandbox(info) /\ ~cancelled /\ IfIndex(peer) # IfIndex(host)
       /\ endpoints' = [endpoints EXCEPT ![Pod.uid] = [info |-> first, peer |-> peer, host |-> host]]
       /\ Goto("next") /\ pos' = pos + 1 /\ UNCHANGED <<list, outcome>>

\* stat /proc/PID/ns/net; what follows depends on the round.
StatNetNS ==
    /\ pc = "stat"
    /\ \E found \in Behind(PidOf[id]) :
         IF found = NoProcess THEN Skip /\ UNCHANGED first
         ELSE LET info == [id |-> id, pid |-> PidOf[id], inode |-> InodeOf[found]]
              IN  IF first = NoInfo
                  THEN first' = info /\ Goto("run_ns") /\ UNCHANGED scanVars
                  ELSE Accept(info) /\ UNCHANGED first
    /\ UNCHANGED <<life, id, peer, host, hostIfIndex, historyVars, netnsVars>>

-----------------------------------------------------------------------------
\* The links, between the two calls.
RunNS ==
    /\ pc = "run_ns"
    /\ \/ cancelled /\ Fail /\ UNCHANGED netnsVars
       \/ /\ ~cancelled /\ Goto("in_ns") /\ UNCHANGED scanVars
          /\ \E t \in Threads : WithNetNS(t, first.inode)
    /\ UNCHANGED <<life, resolveVars, historyVars>>

\* A call that ended early, with the callback not run, fails the scan.
OpenSelfInCall ==
    /\ pc = "in_ns" /\ OpenSelf
    /\ IF stack' = <<>> THEN Fail /\ undisturbed' = {} ELSE UNCHANGED <<pc, scanVars, undisturbed>>
    /\ UNCHANGED <<life, cancelled, resolveVars>>

EnterInCall ==
    /\ pc = "in_ns" /\ Active("open_target")
    /\ \E found \in Behind(first.pid) :
         \/ /\ found \in Namespaces /\ Enter(found)
            /\ UNCHANGED <<pc, scanVars, undisturbed>>
         \/ /\ ~(found \in Namespaces /\ InodeOf[found] = Top.target)
            /\ EnterFails /\ Fail /\ UNCHANGED <<undisturbed, faults>>
         \/ EnterFails /\ Fail /\ undisturbed' = {} /\ Fault
    /\ UNCHANGED <<life, cancelled, resolveVars>>

\* The callback: eth0 of the namespace the thread is in, and its iflink.
PodEth0 ==
    /\ pc = "in_ns" /\ Return
    /\ LET n == ns[Top.thread] IN
       IF cancelled THEN peer' = ContextDone /\ hostIfIndex' = 0
       ELSE IF n = "host" THEN peer' = <<"eth0", n>> /\ hostIfIndex' = NodeIdx
       ELSE IF Wired(n) THEN peer' = <<"eth0", n>> /\ hostIfIndex' = HostIdxOf[n]
       ELSE peer' = NoLink /\ hostIfIndex' = 0
    /\ UNCHANGED <<life, pc, scanVars, first, id, host, historyVars>>

\* The call returns: with a safety error if the thread could not go back,
\* otherwise with the callback's error.
RestoreInCall ==
    /\ pc = "in_ns" /\ Restore
    /\ IF parked' # parked THEN Fail /\ undisturbed' = {}
       ELSE /\ UNCHANGED undisturbed
            /\ \/ peer = ContextDone /\ Fail
               \/ peer = NoLink /\ Skip
               \/ peer \in Links /\ Goto("host_veth") /\ UNCHANGED scanVars
    /\ UNCHANGED <<life, cancelled, resolveVars>>

\* The host end, by its ifindex, in the namespace of whatever thread the
\* goroutine runs on.
HostVeth(t) ==
    /\ pc = "host_veth" /\ t \in Pool
    /\ LET found == LinkByIndex(ns[t], hostIfIndex) IN
       \/ cancelled /\ Fail /\ UNCHANGED host
       \/ ~cancelled /\ found = {} /\ Skip /\ UNCHANGED host
       \/ ~cancelled /\ host' \in found /\ Goto("list") /\ UNCHANGED scanVars
    /\ UNCHANGED <<life, first, id, peer, hostIfIndex, historyVars, netnsVars>>

\* A CRI call, the PID in its answer, stat or a netlink call fails: the pod is
\* skipped.
CallFails ==
    /\ pc \in {"list", "status", "stat", "host_veth"} /\ ~cancelled /\ Skip
    /\ undisturbed' = {} /\ Fault
    /\ UNCHANGED <<life, cancelled, resolveVars, ns, parked, stack>>

\* The agent is asked to stop.
Cancel ==
    /\ pc # "idle" /\ ~cancelled /\ cancelled' = TRUE
    /\ undisturbed' = {} /\ Fault
    /\ UNCHANGED <<life, pc, scanVars, resolveVars, ns, parked, stack>>

ReplaceThread(t) ==
    /\ Spawn(t)
    /\ UNCHANGED <<life, pc, scanVars, resolveVars, historyVars>>

ScanStep ==
    \/ NextPod
    \/ ListPodSandbox \/ PodSandboxStatus \/ StatNetNS
    \/ RunNS \/ OpenSelfInCall \/ EnterInCall \/ PodEth0 \/ RestoreInCall
    \/ \E t \in Threads : HostVeth(t)
    \/ CallFails

Next ==
    \/ \E pods \in Manifests : StartScan(pods)
    \/ ScanStep \/ Cancel
    \/ \E t \in Threads : ReplaceThread(t)
    \/ \E s \in Sandboxes : StartSandbox(s) \/ StopSandbox(s)

Spec == Init /\ [][Next]_vars

\* A scan goes on; the runtime replaces threads; every manifest is used again
\* and again, since each run of the agent scans.  Nothing is assumed of the
\* sandboxes.
Fairness ==
    /\ WF_vars(ScanStep)
    /\ \A t \in Threads : WF_vars(ReplaceThread(t))
    /\ \A pods \in Manifests : SF_vars(StartScan(pods))

FairSpec == Spec /\ Fairness

-----------------------------------------------------------------------------
IsEndpointOf(e, s) ==
    /\ e.info = [id |-> s, pid |-> PidOf[s], inode |-> InodeOf[s]]
    /\ e.peer = <<"eth0", s>> /\ e.host = <<"veth", s>>

\* Sandbox, PID, namespace and both ends of the veth pair of a resolved endpoint
\* belong to one sandbox of its pod, although each was read at another time and
\* all of them may have been given to another pod in between ("sandbox identity
\* changed during endpoint resolution").
EndpointCoherent ==
    \A p \in Pods : endpoints[p] # NoEndpoint =>
        \E s \in Sandboxes : PodOf[s] = p /\ IsEndpointOf(endpoints[p], s)

\* The pod has exactly one ready sandbox, and that one is up.
Settled(p) ==
    \E s \in Sandboxes :
        /\ PodOf[s] = p /\ life[s] = "up"
        /\ \A other \in Sandboxes : PodOf[other] = p /\ Ready(other) => other = s

EndpointLinks ==
    [p \in Pods |->
        LET e == endpoints[p]
        IN  IF e = NoEndpoint THEN <<>>
            ELSE <<<<e.info.inode, IfIndex(e.peer), e.peer>>, <<0, IfIndex(e.host), e.host>>>>]

\* RunOnce: what the TC scan of a run will look at.
Plan(base) == Visited(mergeEndpointLinks(base, EndpointLinks))

\* After a successful scan, every running pod of the list that nothing happened
\* to during the scan has both ends of its veth pair in the plan, under their
\* present identity: other pods that came, went or were skipped meanwhile, and
\* stale links in the manifest that reuse its keys, do not hide them.
PlanCoversPods ==
    pc = "idle" /\ outcome = "ok" =>
        \A base \in TCLinks, i \in DOMAIN list, s \in Sandboxes :
            /\ list[i].kind = "running" /\ list[i].uid = PodOf[s]
            /\ PodOf[s] \in undisturbed /\ Settled(PodOf[s]) /\ life[s] = "up"
            => {<<InodeOf[s], EthIdx, <<"eth0", s>>>>, <<0, HostIdxOf[s], <<"veth", s>>>>} \subseteq Plan(base)

BadList(l) ==
    \/ \E i \in DOMAIN l : l[i].kind = "incomplete"
    \/ \E i, j \in DOMAIN l : l[i].uid = l[j].uid /\ l[i] # l[j]

\* A scan fails only because of its list, or because something happened to the
\* very pod it was resolving: pods that are gone, not ready or ambiguous are
\* skipped ("TestEndpointScannerSkipsRecoverableEndpointErrors").
FailsForItsPod ==
    outcome = "failed" =>
        BadList(list) \/ undisturbed = {} \/ list[pos].uid \notin undisturbed

\* Once a pod has settled, every good list that names it finds its sandbox
\* again and again, whatever was left of calls that failed before.
Resolves ==
    \A p \in Pods :
        (\E l \in Manifests : ~BadList(l) /\ [uid |-> p, kind |-> "running", version |-> 1] \in {l[i] : i \in DOMAIN l})
        /\ <>[]Settled(p)
        => []<>(/\ pc = "idle" /\ outcome = "ok"
                /\ \E s \in Sandboxes : life[s] = "up" /\ PodOf[s] = p /\ IsEndpointOf(endpoints[p], s))
=============================================================================
