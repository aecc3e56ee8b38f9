------------------------------ MODULE FastPath ------------------------------
(***************************************************************************)
(* The four TC programs of bpf/tc_prog_kern.c and the maps they share.     *)
(*                                                                         *)
(* Packets are processed concurrently (one per CPU); every map operation   *)
(* of a program is a step of its own, so programs interleave with each     *)
(* other, with LRU eviction and with the agent.  A packet of a local pod   *)
(* passes tc_masq on the host veth and, if it is left to Flannel, tc_init_e*)
(* on the underlay.  A VXLAN packet passes tc_restore on the underlay and, *)
(* if it is left to Flannel, tc_init_in on the pod's eth0.                 *)
(*                                                                         *)
(* The TOS field is the set of mark bits it has ("miss" 0x04, "est" 0x08); *)
(* sum is the TOS the IPv4 header checksum was computed over.              *)
(***************************************************************************)
EXTENDS Integers, FiniteSets

CONSTANTS
    Packets,    \* packets in flight at a time
    Flows, Locals, Remotes, Hosts,
    LocalOf, RemoteOf,   \* addresses of a flow, from the local pod's side
    HomeOf,     \* the host Flannel routes a remote address to, at first
    Carries,    \* the <<packet, flow, direction>> the traffic consists of
    TrafficTOS, \* mark bits the traffic carries by itself
    Elements,   \* elements of policy_cache
    Recycling,  \* an element may be reused while a program holds a pointer to it
    Evictable,  \* LRU maps under pressure
    Heartbeats, Timeout, ForceFlags,  \* what a manifest may say of heartbeat and FORCE_PASS
    MaxTime, MaxPods, MaxMoves, MaxFaults  \* bounds

Dirs == {"egress", "ingress"}
Marks == {"miss", "est"}
NoHost == "none"
NoElement == "none"
NoDevice == <<"none", 0>>
Underlay == <<"underlay", 0>>
LRUMaps == {"policy_cache", "egressip_cache", "egress_cache", "ingress_cache", "devmap"}

ASSUME ConstantsAssumption ==
    /\ LocalOf \in [Flows -> Locals] /\ RemoteOf \in [Flows -> Remotes]
    /\ HomeOf \in [Remotes -> Hosts]
    /\ Carries \subseteq Packets \X Flows \X Dirs
    /\ TrafficTOS \subseteq SUBSET Marks
    /\ NoHost \notin Hosts /\ NoElement \notin Elements /\ Flows # {}
    /\ Locals \cap {Underlay[1], NoDevice[1]} = {}
    /\ Recycling \in BOOLEAN /\ Evictable \subseteq LRUMaps
    /\ Heartbeats \subseteq 1..MaxTime /\ ForceFlags \subseteq BOOLEAN
    /\ {Timeout, MaxTime, MaxPods, MaxMoves, MaxFaults} \subseteq Nat /\ MaxPods # 0

\* The host veth of the n-th pod with a local address.
VethOf(l, n) == <<l, n>>
Veths == Locals \X (1..MaxPods)
Devices == Veths \cup {Underlay, NoDevice}

VARIABLES
    control,   \* control_map
    now,       \* bpf_ktime_get_ns
    policyAt,  \* policy_cache: flow -> its element
    ready,     \* the value of an element: its ready bits
    egressip,  \* egressip_cache: remote address -> host
    egress,    \* egress_cache: hosts whose outer header is cached
    ingress,   \* ingress_cache: local address -> host veth of its pod
    devmap,    \* devmap has the underlay device
    wired,     \* local address -> pod the programs are attached to
    pod,       \* local address -> pod that has it (0: none yet)
    route,     \* remote address -> host that has it
    homes,     \* history: remote address -> hosts that have had it
    ct,        \* conntrack: directions the stack has seen of a flow
    seen,      \* history: directions in which a flow was learned
    pkt,       \* the packets; wired is history: the pod wired when an incoming one came
    moves, faults

mapVars == <<policyAt, ready, egressip, egress, ingress, devmap>>
nodeVars == <<control, now, wired, pod, route, homes>>
countVars == <<moves, faults>>
vars == <<mapVars, nodeVars, ct, seen, pkt, countVars>>

MasqStages == {"masq", "masq_policy", "masq_egressip", "masq_egress", "masq_ingress",
               "masq_encap", "masq_store"}
RestoreStages == {"restore", "restore_dev", "restore_policy", "restore_ingress",
                  "restore_egressip", "restore_decap", "restore_store"}
LearnStages == {"init_e", "init_in", "init_in_ingress", "insert", "lookup", "mark",
                "learn_egress", "learn_egressip", "clear"}
Fates == {"redirected", "dropped", "delivered"}
Stages == {"idle", "stack"} \cup MasqStages \cup RestoreStages \cup LearnStages \cup Fates

Idle == [at |-> "idle", flow |-> CHOOSE f \in Flows : TRUE, dir |-> "egress", tos |-> {}, sum |-> {},
         local |-> FALSE, host |-> NoHost, elem |-> NoElement, dev |-> NoDevice, rewritten |-> FALSE,
         wired |-> 0]

\* Every variable has its type.
TypeOK ==
    /\ control \in [abi : {0, 1}, enabled : BOOLEAN, force : BOOLEAN, hb : 0..MaxTime, timeout : {0, Timeout}]
    /\ now \in 0..MaxTime
    /\ policyAt \in [Flows -> Elements \cup {NoElement}]
    /\ ready \in [Elements -> SUBSET Dirs]
    /\ egressip \in [Remotes -> Hosts \cup {NoHost}] /\ egress \subseteq Hosts
    /\ ingress \in [Locals -> Veths \cup {NoDevice}]
    /\ devmap \in BOOLEAN
    /\ wired \in [Locals -> 0..MaxPods] /\ pod \in [Locals -> 0..MaxPods]
    /\ route \in [Remotes -> Hosts] /\ homes \in [Remotes -> SUBSET Hosts]
    /\ ct \in [Flows -> SUBSET Dirs] /\ seen \in [Flows -> SUBSET Dirs]
    /\ pkt \in [Packets -> [at : Stages, flow : Flows, dir : Dirs, tos : SUBSET Marks,
                            sum : SUBSET Marks, local : BOOLEAN, host : Hosts \cup {NoHost},
                            elem : Elements \cup {NoElement}, dev : Devices, rewritten : BOOLEAN,
                            wired : 0..MaxPods]]
    /\ moves \in 0..MaxMoves /\ faults \in 0..MaxFaults

Init ==
    /\ control = [abi |-> 1, enabled |-> FALSE, force |-> FALSE, hb |-> 0, timeout |-> 0]
    /\ now = 0
    /\ policyAt = [f \in Flows |-> NoElement] /\ ready = [e \in Elements |-> {}]
    /\ egressip = [r \in Remotes |-> NoHost] /\ egress = {}
    /\ ingress = [l \in Locals |-> NoDevice] /\ devmap = FALSE
    /\ wired = [l \in Locals |-> 0] /\ pod = [l \in Locals |-> 1]
    /\ route = HomeOf /\ homes = [r \in Remotes |-> {HomeOf[r]}]
    /\ ct = [f \in Flows |-> {}] /\ seen = [f \in Flows |-> {}]
    /\ pkt = [p \in Packets |-> Idle]
    /\ moves = 0 /\ faults = 0

-----------------------------------------------------------------------------
(***************************************************************************)
(* Helpers of common_kern.h.                                               *)
(***************************************************************************)

\* Mutant: the heartbeat must have begun but never runs out.
ControlAllowsForever ==
    /\ control.abi = 1 /\ control.enabled /\ ~control.force
    /\ control.timeout # 0 /\ now >= control.hb

\* oncache_control_allows
ControlAllows ==
    /\ control.abi = 1 /\ control.enabled /\ ~control.force
    /\ control.timeout # 0
    /\ now >= control.hb /\ now - control.hb <= control.timeout

\* oncache_redirect_target_valid
RedirectTargetValid(target, current) == target # NoDevice /\ target # current

At(p, stage) == pkt[p].at = stage
Flow(p) == pkt[p].flow
LocalAddr(p) == LocalOf[Flow(p)]
RemoteAddr(p) == RemoteOf[Flow(p)]

\* Mutant: one direction is enough.
EitherReady(f) == policyAt[f] # NoElement /\ ready[policyAt[f]] # {}

\* The action of flow f allows both directions (ingress_ready & egress_ready).
BothReady(f) == policyAt[f] # NoElement /\ ready[policyAt[f]] = Dirs

Fault == faults < MaxFaults /\ faults' = faults + 1

\* The packet goes on at another stage and nothing else about it changes.
Goto(p, stage) == pkt' = [pkt EXCEPT ![p].at = stage] /\ UNCHANGED countVars

\* set_ip_tos writes the TOS byte only; the header checksum stays as it was.
\* A failing bpf_skb_store_bytes leaves the packet alone.
SetTOS(p, tos, stage) ==
    /\ \/ pkt' = [pkt EXCEPT ![p].tos = tos, ![p].at = stage] /\ UNCHANGED faults
       \/ pkt' = [pkt EXCEPT ![p].at = stage] /\ Fault
    /\ UNCHANGED moves

\* The packet is marked as missed and left to Flannel.
Miss(p) == SetTOS(p, pkt[p].tos \cup {"miss"}, "stack")

\* The gate at the start of every program.
Gate(p, hook, next, pass) ==
    /\ At(p, hook)
    /\ Goto(p, IF ControlAllows THEN next ELSE pass)
    /\ UNCHANGED <<mapVars, nodeVars, ct, seen>>

-----------------------------------------------------------------------------
(***************************************************************************)
(* tc_masq: a packet of a local pod, on the host veth.                     *)
(***************************************************************************)
MasqLookup(p) ==
    /\ \/ /\ At(p, "masq_policy")
          /\ IF BothReady(Flow(p)) THEN Goto(p, "masq_egressip") ELSE Miss(p)
       \/ /\ At(p, "masq_egressip")
          /\ \/ /\ egressip[RemoteAddr(p)] # NoHost
                /\ pkt' = [pkt EXCEPT ![p].host = egressip[RemoteAddr(p)], ![p].at = "masq_egress"]
                /\ UNCHANGED countVars
             \/ egressip[RemoteAddr(p)] = NoHost /\ Miss(p)
       \/ /\ At(p, "masq_egress")
          /\ IF pkt[p].host \in egress THEN Goto(p, "masq_ingress") ELSE Miss(p)
       \/ /\ At(p, "masq_ingress")
          /\ Goto(p, IF /\ ingress[LocalAddr(p)] # NoDevice
                        /\ RedirectTargetValid(Underlay, VethOf(LocalAddr(p), pod[LocalAddr(p)]))
                     THEN "masq_encap" ELSE "stack")
    /\ UNCHANGED <<mapVars, nodeVars, ct, seen>>

\* Mutant: a store that fails after adjust_room leaves the packet to Flannel.
MasqEncapFallsBack(p) ==
    /\ \/ /\ At(p, "masq_encap")
          /\ pkt' = [pkt EXCEPT ![p].rewritten = TRUE, ![p].at = "masq_store"]
          /\ UNCHANGED faults
       \/ /\ At(p, "masq_store")
          /\ pkt' = [pkt EXCEPT ![p].at = "stack"] /\ Fault
    /\ UNCHANGED <<mapVars, nodeVars, ct, seen, moves>>

\* adjust_room, then the outer header, its lengths and the UDP source port.
MasqEncap(p) ==
    /\ \/ /\ At(p, "masq_encap")
          /\ \/ /\ pkt' = [pkt EXCEPT ![p].rewritten = TRUE, ![p].at = "masq_store"]
                /\ UNCHANGED faults
             \/ pkt' = [pkt EXCEPT ![p].at = "stack"] /\ Fault
       \/ /\ At(p, "masq_store")
          /\ \/ /\ pkt' = [pkt EXCEPT ![p].dev = Underlay, ![p].at = "redirected"]
                /\ UNCHANGED faults
             \/ pkt' = [pkt EXCEPT ![p].at = "dropped"] /\ Fault
    /\ UNCHANGED <<mapVars, nodeVars, ct, seen, moves>>

tc_masq(p) ==
    Gate(p, "masq", "masq_policy", "stack") \/ MasqLookup(p) \/ MasqEncap(p)

(***************************************************************************)
(* tc_restore: a VXLAN packet, on the underlay.                            *)
(***************************************************************************)
RestoreLookup(p) ==
    /\ \/ /\ At(p, "restore_dev")
          /\ Goto(p, IF devmap /\ pkt[p].local THEN "restore_policy" ELSE "stack")
       \/ /\ At(p, "restore_policy")
          /\ IF BothReady(Flow(p)) THEN Goto(p, "restore_ingress") ELSE Miss(p)
       \/ /\ At(p, "restore_ingress")
          /\ \/ /\ ingress[LocalAddr(p)] # NoDevice
                /\ pkt' = [pkt EXCEPT ![p].dev = ingress[LocalAddr(p)], ![p].at = "restore_egressip"]
                /\ UNCHANGED countVars
             \/ ingress[LocalAddr(p)] = NoDevice /\ Miss(p)
       \/ /\ At(p, "restore_egressip")
          /\ Goto(p, IF egressip[RemoteAddr(p)] # NoHost /\ RedirectTargetValid(pkt[p].dev, Underlay)
                     THEN "restore_decap" ELSE "stack")
    /\ UNCHANGED <<mapVars, nodeVars, ct, seen>>

RestoreDecap(p) ==
    /\ \/ /\ At(p, "restore_decap")
          /\ \/ /\ pkt' = [pkt EXCEPT ![p].rewritten = TRUE, ![p].at = "restore_store"]
                /\ UNCHANGED faults
             \/ pkt' = [pkt EXCEPT ![p].at = "stack"] /\ Fault
       \/ /\ At(p, "restore_store")
          /\ \/ pkt' = [pkt EXCEPT ![p].at = "redirected"] /\ UNCHANGED faults
             \/ pkt' = [pkt EXCEPT ![p].at = "dropped"] /\ Fault
    /\ UNCHANGED <<mapVars, nodeVars, ct, seen, moves>>

tc_restore(p) ==
    Gate(p, "restore", "restore_dev", "stack") \/ RestoreLookup(p) \/ RestoreDecap(p)

-----------------------------------------------------------------------------
(***************************************************************************)
(* Learning, shared by tc_init_e and tc_init_in.                           *)
(***************************************************************************)

\* What follows the policy update.
AfterPolicy(p) == IF pkt[p].dir = "egress" THEN "learn_egress" ELSE "clear"

\* The free elements, minus those a program still points to if the kernel
\* waits for it.
FreeElements ==
    {e \in Elements : /\ \A f \in Flows : policyAt[f] # e
                      /\ Recycling \/ \A q \in Packets : pkt[q].elem # e}

\* Mutant: a failed insert is ignored, nobody looks the element up.
PolicyInsertOnly(p) ==
    /\ At(p, "insert")
    /\ seen' = [seen EXCEPT ![Flow(p)] = @ \cup {pkt[p].dir}]
    /\ \/ /\ policyAt[Flow(p)] = NoElement
          /\ \E e \in FreeElements :
                /\ policyAt' = [policyAt EXCEPT ![Flow(p)] = e]
                /\ ready' = [ready EXCEPT ![e] = {pkt[p].dir}]
       \/ /\ policyAt[Flow(p)] # NoElement \/ FreeElements = {}
          /\ UNCHANGED <<policyAt, ready>>
    /\ Goto(p, AfterPolicy(p))
    /\ UNCHANGED <<egressip, egress, ingress, devmap, nodeVars, ct>>

\* bpf_map_update_elem(&policy_cache, ..., BPF_NOEXIST): fails if the flow has
\* an element, or if there is no free one.
PolicyInsert(p) ==
    /\ At(p, "insert")
    /\ seen' = [seen EXCEPT ![Flow(p)] = @ \cup {pkt[p].dir}]
    /\ \/ /\ policyAt[Flow(p)] = NoElement
          /\ \E e \in FreeElements :
                /\ policyAt' = [policyAt EXCEPT ![Flow(p)] = e]
                /\ ready' = [ready EXCEPT ![e] = {pkt[p].dir}]
          /\ Goto(p, AfterPolicy(p))
       \/ /\ policyAt[Flow(p)] # NoElement \/ FreeElements = {}
          /\ Goto(p, "lookup") /\ UNCHANGED <<policyAt, ready>>
    /\ UNCHANGED <<egressip, egress, ingress, devmap, nodeVars, ct>>

\* The lookup after a failed insert; the element may be gone again.
PolicyLookup(p) ==
    /\ At(p, "lookup")
    /\ pkt' = [pkt EXCEPT ![p].elem = policyAt[Flow(p)],
                          ![p].at = IF policyAt[Flow(p)] = NoElement THEN AfterPolicy(p) ELSE "mark"]
    /\ UNCHANGED <<mapVars, nodeVars, ct, seen, countVars>>

\* Mutant: the whole action is written instead of one field of it.
PolicyMarkOverwrites(p) ==
    /\ At(p, "mark")
    /\ ready' = [ready EXCEPT ![pkt[p].elem] = {pkt[p].dir}]
    /\ pkt' = [pkt EXCEPT ![p].elem = NoElement, ![p].at = AfterPolicy(p)]
    /\ UNCHANGED <<policyAt, egressip, egress, ingress, devmap, nodeVars, ct, seen, countVars>>

\* oncache_policy_mark_ready sets one field under the spin lock, through the pointer.
PolicyMark(p) ==
    /\ At(p, "mark")
    /\ ready' = [ready EXCEPT ![pkt[p].elem] = @ \cup {pkt[p].dir}]
    /\ pkt' = [pkt EXCEPT ![p].elem = NoElement, ![p].at = AfterPolicy(p)]
    /\ UNCHANGED <<policyAt, egressip, egress, ingress, devmap, nodeVars, ct, seen, countVars>>

\* Mutant: the key is too short and covers every remote address.
LearnHeadersForAll(p) ==
    /\ \/ /\ At(p, "learn_egress")
          /\ egress' = egress \cup {pkt[p].host} /\ UNCHANGED egressip
          /\ Goto(p, "learn_egressip")
       \/ /\ At(p, "learn_egressip")
          /\ egressip' = [r \in Remotes |-> IF egressip[r] = NoHost THEN pkt[p].host ELSE egressip[r]]
          /\ UNCHANGED egress
          /\ Goto(p, "clear")
    /\ UNCHANGED <<policyAt, ready, ingress, devmap, nodeVars, ct, seen>>

\* egress_cache and egressip_cache are only written where they have no entry.
LearnHeaders(p) ==
    /\ \/ /\ At(p, "learn_egress")
          /\ egress' = egress \cup {pkt[p].host} /\ UNCHANGED egressip
          /\ Goto(p, "learn_egressip")
       \/ /\ At(p, "learn_egressip")
          /\ egressip' = IF egressip[RemoteAddr(p)] = NoHost
                         THEN [egressip EXCEPT ![RemoteAddr(p)] = pkt[p].host] ELSE egressip
          /\ UNCHANGED egress
          /\ Goto(p, "clear")
    /\ UNCHANGED <<policyAt, ready, ingress, devmap, nodeVars, ct, seen>>

\* The marks are taken off and the packet leaves the node or reaches the pod.
ClearMarks(p) ==
    /\ At(p, "clear")
    /\ SetTOS(p, {}, "delivered")
    /\ UNCHANGED <<mapVars, nodeVars, ct, seen>>

\* The start of tc_init_e, on the underlay: only marked packets are learned from.
InitE(p) ==
    /\ At(p, "init_e")
    /\ Goto(p, IF ControlAllows /\ pkt[p].tos = Marks THEN "insert" ELSE "delivered")
    /\ UNCHANGED <<mapVars, nodeVars, ct, seen>>

\* The start of tc_init_in, on eth0: the entry of the pod's address must exist.
\* The MAC addresses of the packet take the place of those the agent wrote.
InitIn(p) ==
    /\ \/ /\ At(p, "init_in")
          /\ Goto(p, IF ControlAllows /\ pkt[p].tos = Marks THEN "init_in_ingress" ELSE "delivered")
       \/ /\ At(p, "init_in_ingress")
          /\ Goto(p, IF ingress[LocalAddr(p)] = NoDevice THEN "delivered" ELSE "insert")
    /\ UNCHANGED <<mapVars, nodeVars, ct, seen>>

\* tc_init_e and tc_init_in share the policy update and the last step.
Learn(p) == InitE(p) \/ InitIn(p) \/ PolicyInsert(p) \/ PolicyLookup(p) \/ PolicyMark(p)
                \/ LearnHeaders(p) \/ ClearMarks(p)

-----------------------------------------------------------------------------
(***************************************************************************)
(* Traffic and the kernel's own path.                                      *)
(***************************************************************************)

\* A packet enters the node: from a pod on its host veth (tc_masq runs if the
\* pod is wired), or as a VXLAN packet on the underlay, addressed to this
\* node's MAC and IP or (a fault) not.
Arrive(p, f, dir, tos) ==
    /\ At(p, "idle") /\ <<p, f, dir>> \in Carries /\ tos \in TrafficTOS
    /\ pod[LocalOf[f]] # 0
    /\ \E loc \in BOOLEAN :
        /\ IF loc THEN UNCHANGED faults ELSE dir = "ingress" /\ Fault
        /\ pkt' = [pkt EXCEPT ![p] =
             [Idle EXCEPT !.flow = f, !.dir = dir, !.tos = tos, !.sum = tos, !.local = loc,
                 !.wired = IF dir = "ingress" THEN wired[LocalOf[f]] ELSE 0,
                 !.at = IF dir = "ingress" THEN "restore"
                        ELSE IF wired[LocalOf[f]] = pod[LocalOf[f]] THEN "masq" ELSE "stack"]]
    /\ UNCHANGED <<mapVars, nodeVars, ct, seen, moves>>

\* The packet takes Flannel's path.  IP input drops a header whose checksum is
\* wrong; conntrack sees the rest, and the marker rule sets "est" (and corrects
\* the checksum) on a missed packet of an established flow.  A VXLAN packet for
\* another node is not decapsulated.
Stack(p) ==
    LET f == Flow(p)
        both == ct[f] \cup {pkt[p].dir}
        marks == IF "miss" \in pkt[p].tos /\ both = Dirs THEN {"est"} ELSE {}
    IN
    /\ At(p, "stack")
    /\ \/ /\ pkt[p].tos # pkt[p].sum \/ (pkt[p].dir = "ingress" /\ ~pkt[p].local)
          /\ pkt' = [pkt EXCEPT ![p].at = "dropped"] /\ UNCHANGED ct
       \/ /\ pkt[p].tos = pkt[p].sum /\ (pkt[p].dir = "ingress" => pkt[p].local)
          /\ ct' = [ct EXCEPT ![f] = both]
          /\ pkt' = [pkt EXCEPT ![p].tos = @ \cup marks, ![p].sum = @ \cup marks,
                ![p].host = IF pkt[p].dir = "egress" THEN route[RemoteOf[f]] ELSE NoHost,
                ![p].at = IF pkt[p].dir = "egress" THEN "init_e"
                          ELSE IF wired[LocalOf[f]] = pod[LocalOf[f]] THEN "init_in" ELSE "delivered"]
    /\ UNCHANGED <<mapVars, nodeVars, seen, countVars>>

\* The packet has left; its slot is free again.
Depart(p) ==
    /\ pkt[p].at \in Fates
    /\ pkt' = [pkt EXCEPT ![p] = Idle]
    /\ UNCHANGED <<mapVars, nodeVars, ct, seen, countVars>>

(***************************************************************************)
(* The agent, as ControlPlane has it, and the rest of the node.            *)
(***************************************************************************)
Disable ==
    /\ control.enabled /\ Fault
    /\ control' = [control EXCEPT !.enabled = FALSE]
    /\ UNCHANGED <<mapVars, now, wired, pod, route, homes, ct, seen, pkt, moves>>

\* Mutant: the entry gets the index of the wrong device.
WireUnderlay(l) ==
    /\ ~control.enabled /\ pod[l] # 0
    /\ wired' = [wired EXCEPT ![l] = pod[l]]
    /\ ingress' = [ingress EXCEPT ![l] = Underlay]
    /\ devmap' = TRUE
    /\ UNCHANGED <<policyAt, ready, egressip, egress, control, now, pod, route, homes, ct, seen, pkt, countVars>>

\* Mutant: an entry the address already has is kept.
WireKeepsEntry(l) ==
    /\ ~control.enabled /\ pod[l] # 0
    /\ wired' = [wired EXCEPT ![l] = pod[l]]
    /\ ingress' = [ingress EXCEPT ![l] = IF @ = NoDevice THEN VethOf(l, pod[l]) ELSE @]
    /\ devmap' = TRUE
    /\ UNCHANGED <<policyAt, ready, egressip, egress, control, now, pod, route, homes, ct, seen, pkt, countVars>>

\* Ensure wires one endpoint.  Its entry has the index of the host veth and the
\* MAC addresses of both ends, so the programs can use it at once; it takes the
\* place of any other the address has.
Wire(l) ==
    /\ ~control.enabled /\ pod[l] # 0
    /\ wired' = [wired EXCEPT ![l] = pod[l]]
    /\ ingress' = [ingress EXCEPT ![l] = VethOf(l, pod[l])]
    /\ devmap' = TRUE
    /\ UNCHANGED <<policyAt, ready, egressip, egress, control, now, pod, route, homes, ct, seen, pkt, countVars>>

\* Heartbeat, timeout and flags are copied from the manifest.
Publish ==
    /\ ~control.enabled /\ \A l \in Locals : pod[l] = wired[l]
    /\ \E h \in Heartbeats, force \in ForceFlags :
        control' = [control EXCEPT !.enabled = TRUE, !.hb = h, !.timeout = Timeout, !.force = force]
    /\ UNCHANGED <<mapVars, now, wired, pod, route, homes, ct, seen, pkt, countVars>>

Tick ==
    /\ now < MaxTime /\ now' = now + 1
    /\ UNCHANGED <<mapVars, control, wired, pod, route, homes, ct, seen, pkt, countVars>>

\* LRU eviction.
Evict ==
    /\ Fault
    /\ \/ /\ "policy_cache" \in Evictable
          /\ \E f \in Flows : /\ policyAt[f] # NoElement
                              /\ policyAt' = [policyAt EXCEPT ![f] = NoElement]
          /\ UNCHANGED <<egressip, egress, ingress, devmap>>
       \/ /\ "egressip_cache" \in Evictable
          /\ \E r \in Remotes : /\ egressip[r] # NoHost
                                /\ egressip' = [egressip EXCEPT ![r] = NoHost]
          /\ UNCHANGED <<policyAt, egress, ingress, devmap>>
       \/ /\ "egress_cache" \in Evictable
          /\ \E h \in egress : egress' = egress \ {h}
          /\ UNCHANGED <<policyAt, egressip, ingress, devmap>>
       \/ /\ "ingress_cache" \in Evictable
          /\ \E l \in Locals : /\ ingress[l] # NoDevice
                               /\ ingress' = [ingress EXCEPT ![l] = NoDevice]
          /\ UNCHANGED <<policyAt, egressip, egress, devmap>>
       \/ /\ "devmap" \in Evictable /\ devmap /\ devmap' = FALSE
          /\ UNCHANGED <<policyAt, egressip, egress, ingress>>
    /\ UNCHANGED <<ready, nodeVars, ct, seen, pkt, moves>>

\* A remote address moves to another host; a local pod is replaced by another
\* one with the same address.
Move ==
    /\ moves < MaxMoves /\ moves' = moves + 1
    /\ \/ /\ \E r \in Remotes, h \in Hosts :
                /\ h # route[r] /\ route' = [route EXCEPT ![r] = h]
                /\ homes' = [homes EXCEPT ![r] = @ \cup {h}]
          /\ UNCHANGED pod
       \/ /\ \E l \in Locals : pod[l] < MaxPods /\ pod' = [pod EXCEPT ![l] = @ + 1]
          /\ UNCHANGED <<route, homes>>
    /\ UNCHANGED <<mapVars, control, now, wired, ct, seen, pkt, faults>>

PacketStep(p) == tc_masq(p) \/ tc_restore(p) \/ Learn(p) \/ Stack(p) \/ Depart(p)
Traffic(p) == \E f \in Flows, dir \in Dirs, tos \in TrafficTOS : Arrive(p, f, dir, tos)

Next ==
    \/ \E p \in Packets : PacketStep(p) \/ Traffic(p)
    \/ Disable \/ (\E l \in Locals : Wire(l)) \/ Publish
    \/ Tick \/ Evict \/ Move

Spec == Init /\ [][Next]_vars

\* A packet in flight goes on, traffic keeps coming, time passes, and the agent
\* completes the run it has begun.  Faults are bounded, so a helper does not
\* fail for ever.
Fairness ==
    /\ \A p \in Packets : WF_vars(PacketStep(p) \/ Traffic(p))
    /\ \A l \in Locals : WF_vars(wired[l] # pod[l] /\ Wire(l))
    /\ WF_vars(Publish) /\ WF_vars(Tick)

FairSpec == Spec /\ Fairness

-----------------------------------------------------------------------------
(***************************************************************************)
(* Properties.                                                             *)
(***************************************************************************)

\* A packet takes the fast path only if its flow was learned in both directions
\* (tc_masq: "Must the ingress and egress both allow the flow, or will cause
\* conntrack problem").
RedirectOnlyApproved ==
    \A p \in Packets : At(p, "redirected") => seen[Flow(p)] = Dirs

\* While a flow keeps its element, no learning program of either direction
\* loses a ready bit another one has set (test: "ready bits preserved under
\* concurrency").
ReadyBitsKept ==
    [][\A f \in Flows : policyAt[f] # NoElement /\ policyAt'[f] = policyAt[f]
            => ready[policyAt[f]] \subseteq ready'[policyAt[f]]]_vars

\* A packet whose headers a program has begun to rewrite never goes back to
\* Flannel: what fails after adjust_room drops it.
NoHalfRewrite ==
    \A p \in Packets : pkt[p].rewritten => pkt[p].at \notin {"stack", "delivered"}

\* tc_masq sends a packet only to a host Flannel has sent packets of its own
\* remote address to.  (Entries are never invalidated, so "has sent" is all the
\* programs guarantee.)
RedirectFollowsFlannel ==
    \A p \in Packets : At(p, "redirected") /\ pkt[p].dir = "egress" =>
        pkt[p].host \in homes[RemoteAddr(p)]

\* tc_restore hands a packet to the veth of the pod that had its address and was
\* wired when the packet came, or of a later one: once a run of the agent has
\* wired the new pod of a reused address, the entry of the deleted one serves
\* only packets that were already there.
RedirectFindsPod ==
    \A p \in Packets : At(p, "redirected") /\ pkt[p].dir = "ingress" =>
        \E n \in pkt[p].wired..wired[LocalAddr(p)] : pkt[p].dev = VethOf(LocalAddr(p), n)

\* A packet the programs leave to Flannel has a header the stack accepts.
FallbackIntact ==
    \A p \in Packets : At(p, "stack") => pkt[p].tos = pkt[p].sum

\* While the agent's wiring is current and the control map allows it, both
\* directions of every flow keep reaching the fast path, whatever was evicted,
\* failed or reset before, unless egressip_cache holds a host that the remote
\* address has left: BPF_NOEXIST keeps that entry, and when the header of the
\* old host is evicted from egress_cache no packet brings it back.
FlowsGoFast ==
    <>[](/\ ControlAllows /\ wired = pod
         /\ \A r \in Remotes : egressip[r] \in {NoHost, route[r]}) =>
        \A f \in Flows, dir \in Dirs :
            []<>(\E p \in Packets : At(p, "redirected") /\ Flow(p) = f /\ pkt[p].dir = dir)

\* Once the manifest's heartbeat has run out the fast path stays off, even if
\* the agent publishes that manifest again.
FastPathExpires ==
    <>[](now > control.hb + control.timeout) => <>[](\A p \in Packets : ~At(p, "redirected"))
=============================================================================
