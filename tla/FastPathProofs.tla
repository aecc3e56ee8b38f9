--------------------------- MODULE FastPathProofs ---------------------------
(***************************************************************************)
(* Proofs about FastPath for any number of packets in flight, flows,       *)
(* addresses, hosts and elements of policy_cache.                          *)
(***************************************************************************)
EXTENDS FastPath, TLAPS

USE ConstantsAssumption

(***************************************************************************)
(* Types.                                                                  *)
(***************************************************************************)
PacketSet == [at : Stages, flow : Flows, dir : Dirs, tos : SUBSET Marks, sum : SUBSET Marks,
              local : BOOLEAN, host : Hosts \cup {NoHost}, elem : Elements \cup {NoElement},
              dev : Devices, rewritten : BOOLEAN, wired : 0..MaxPods]

\* The conjuncts of TypeOK: packets,
TypePackets == pkt \in [Packets -> PacketSet]

\* the BPF maps,
TypeMaps ==
    /\ policyAt \in [Flows -> Elements \cup {NoElement}]
    /\ ready \in [Elements -> SUBSET Dirs]
    /\ egressip \in [Remotes -> Hosts \cup {NoHost}] /\ egress \subseteq Hosts
    /\ ingress \in [Locals -> Veths \cup {NoDevice}]
    /\ devmap \in BOOLEAN

\* the control map, the clock, the pods and the routes,
TypeNode ==
    /\ control \in [abi : {0, 1}, enabled : BOOLEAN, force : BOOLEAN, hb : 0..MaxTime, timeout : {0, Timeout}]
    /\ now \in 0..MaxTime
    /\ wired \in [Locals -> 0..MaxPods] /\ pod \in [Locals -> 0..MaxPods]
    /\ route \in [Remotes -> Hosts] /\ homes \in [Remotes -> SUBSET Hosts]

\* conntrack and what it has seen,
TypeFlows == ct \in [Flows -> SUBSET Dirs] /\ seen \in [Flows -> SUBSET Dirs]
\* and the bounded counters.
TypeCounts == moves \in 0..MaxMoves /\ faults \in 0..MaxFaults

\* Together they are TypeOK.
LEMMA TypeParts == TypeOK <=> TypePackets /\ TypeMaps /\ TypeNode /\ TypeFlows /\ TypeCounts
BY DEF TypeOK, TypePackets, PacketSet, TypeMaps, TypeNode, TypeFlows, TypeCounts

\* A free packet slot.
LEMMA IdlePacket ==
  /\ Idle \in PacketSet /\ Idle.at = "idle" /\ Idle.elem = NoElement /\ Idle.rewritten = FALSE
  /\ Idle.wired = 0 /\ LocalOf[Idle.flow] \in Locals
<1>1. (CHOOSE f \in Flows : TRUE) \in Flows
  OBVIOUS
<1> QED BY <1>1 DEF Idle, PacketSet, Stages, Dirs, Devices

\* The types hold at first.
LEMMA TypeInit == Init => TypeOK
<1> SUFFICES ASSUME Init PROVE TypeOK
  OBVIOUS
<1>1. TypePackets
  BY IdlePacket DEF Init, TypePackets
<1>2. TypeMaps
  <2>1. policyAt \in [Flows -> Elements \cup {NoElement}] /\ ready \in [Elements -> SUBSET Dirs]
    BY DEF Init
  <2>2. egressip \in [Remotes -> Hosts \cup {NoHost}] /\ egress \subseteq Hosts
    BY DEF Init
  <2>3. ingress \in [Locals -> Veths \cup {NoDevice}]
    BY DEF Init
  <2>4. devmap \in BOOLEAN
    BY DEF Init
  <2> QED BY <2>1, <2>2, <2>3, <2>4 DEF TypeMaps
<1>3. TypeNode
  <2>1. control \in [abi : {0, 1}, enabled : BOOLEAN, force : BOOLEAN, hb : 0..MaxTime, timeout : {0, Timeout}]
    BY DEF Init
  <2>2. wired \in [Locals -> 0..MaxPods] /\ pod \in [Locals -> 0..MaxPods] /\ now \in 0..MaxTime
    BY DEF Init
  <2>3. route \in [Remotes -> Hosts] /\ homes \in [Remotes -> SUBSET Hosts]
    BY DEF Init
  <2> QED BY <2>1, <2>2, <2>3 DEF TypeNode
<1>4. TypeFlows /\ TypeCounts
  BY DEF Init, TypeFlows, TypeCounts
<1> QED BY <1>1, <1>2, <1>3, <1>4, TypeParts

-----------------------------------------------------------------------------
(***************************************************************************)
(* What a step does to a packet.                                           *)
(***************************************************************************)

\* Packet p becomes new, and no other one changes.
Becomes(p, new) == pkt'[p] = new /\ \A q \in Packets \ {p} : pkt'[q] = pkt[q]

\* Packet p goes on to a stage, with the same flow, direction and history.
MovesTo(p, stage) ==
    /\ \A q \in Packets \ {p} : pkt'[q] = pkt[q]
    /\ pkt'[p].at = stage /\ pkt'[p].flow = pkt[p].flow /\ pkt'[p].dir = pkt[p].dir
    /\ pkt'[p].wired = pkt[p].wired

\* Nothing else of what the invariants below look at changes with it.
Keeps(p) ==
    /\ pkt'[p].host = pkt[p].host /\ pkt'[p].elem = pkt[p].elem
    /\ pkt'[p].dev = pkt[p].dev /\ pkt'[p].rewritten = pkt[p].rewritten

\* One packet is replaced by another.
LEMMA Update ==
  ASSUME TypePackets, NEW p \in Packets, NEW new \in PacketSet, pkt' = [pkt EXCEPT ![p] = new]
  PROVE  TypePackets' /\ Becomes(p, new)
BY DEF TypePackets, Becomes

\* Every field of a packet has its type.
LEMMA PacketTypes ==
  ASSUME TypePackets, NEW p \in Packets
  PROVE  /\ pkt[p] \in PacketSet /\ Flow(p) \in Flows
         /\ LocalAddr(p) \in Locals /\ RemoteAddr(p) \in Remotes
         /\ pkt[p].at \in Stages /\ pkt[p].dir \in Dirs /\ pkt[p].tos \in SUBSET Marks
         /\ pkt[p].sum \in SUBSET Marks
         /\ pkt[p].host \in Hosts \cup {NoHost} /\ pkt[p].elem \in Elements \cup {NoElement}
         /\ pkt[p].dev \in Devices /\ pkt[p].rewritten \in BOOLEAN /\ pkt[p].wired \in 0..MaxPods
<1>1. pkt[p] \in PacketSet
  BY DEF TypePackets
<1>2. pkt[p].flow \in Flows
  BY <1>1 DEF PacketSet
<1> QED BY <1>1, <1>2 DEF PacketSet, Flow, LocalAddr, RemoteAddr

\* A packet goes to another hook and is otherwise the same.
LEMMA GotoPacket ==
  ASSUME TypePackets, NEW p \in Packets, NEW stage \in Stages, Goto(p, stage)
  PROVE  TypePackets' /\ MovesTo(p, stage) /\ Keeps(p) /\ UNCHANGED countVars
<1> DEFINE new == [pkt[p] EXCEPT !.at = stage]
<1>1. /\ new \in PacketSet /\ new.at = stage /\ new.flow = pkt[p].flow /\ new.dir = pkt[p].dir /\ new.wired = pkt[p].wired
      /\ new.host = pkt[p].host /\ new.elem = pkt[p].elem
      /\ new.dev = pkt[p].dev /\ new.rewritten = pkt[p].rewritten
  BY PacketTypes DEF PacketSet
<1>2. pkt' = [pkt EXCEPT ![p] = new] /\ UNCHANGED countVars
  BY DEF Goto
<1> HIDE DEF new
<1>3. TypePackets' /\ Becomes(p, new)
  BY <1>1, <1>2, Update
<1> QED BY <1>1, <1>2, <1>3 DEF MovesTo, Keeps, Becomes

\* set_ip_tos: it may fail, and the packet goes on.
LEMMA SetTOSPacket ==
  ASSUME TypePackets, TypeCounts, NEW p \in Packets, NEW stage \in Stages, NEW tos \in SUBSET Marks,
         SetTOS(p, tos, stage)
  PROVE  TypePackets' /\ MovesTo(p, stage) /\ Keeps(p) /\ TypeCounts'
<1> DEFINE new(t) == [pkt[p] EXCEPT !.tos = t, !.at = stage]
<1>0. pkt[p] \in PacketSet
  BY PacketTypes
<1>1. ASSUME NEW t \in SUBSET Marks
      PROVE  /\ new(t) \in PacketSet /\ new(t).at = stage /\ new(t).flow = pkt[p].flow
             /\ new(t).dir = pkt[p].dir /\ new(t).wired = pkt[p].wired /\ new(t).host = pkt[p].host /\ new(t).elem = pkt[p].elem
             /\ new(t).dev = pkt[p].dev /\ new(t).rewritten = pkt[p].rewritten
  BY <1>0, <1>1 DEF PacketSet
<1>2. PICK t \in SUBSET Marks : pkt' = [pkt EXCEPT ![p] = new(t)]
  <2>1. CASE pkt' = [pkt EXCEPT ![p].tos = tos, ![p].at = stage]
    BY <2>1 DEF TypePackets
  <2>2. CASE pkt' = [pkt EXCEPT ![p].at = stage]
    <3>1. pkt[p].tos \in SUBSET Marks /\ pkt[p] \in PacketSet
      BY PacketTypes
    <3>2. [pkt[p] EXCEPT !.at = stage] = new(pkt[p].tos)
      BY <3>1 DEF PacketSet
    <3>3. pkt' = [pkt EXCEPT ![p] = [pkt[p] EXCEPT !.at = stage]]
      BY <2>2
    <3> QED BY <3>1, <3>2, <3>3
  <2> QED BY <2>1, <2>2 DEF SetTOS
<1>3. TypeCounts'
  BY DEF SetTOS, Fault, TypeCounts
<1> HIDE DEF new
<1>4. TypePackets' /\ Becomes(p, new(t))
  BY <1>1, <1>2, Update
<1> QED BY <1>1, <1>3, <1>4 DEF MovesTo, Keeps, Becomes

-----------------------------------------------------------------------------
(***************************************************************************)
(* Where a packet comes from and where it is sent.                         *)
(***************************************************************************)
EgressStages == MasqStages \cup {"init_e", "learn_egress", "learn_egressip"}
\* The stages of a packet that comes from the overlay.
IngressStages == RestoreStages \cup {"init_in", "init_in_ingress"}

\* The host of an outgoing packet has been chosen, by tc_masq or by Flannel.
HostKnown == {"masq_egress", "masq_ingress", "masq_encap", "masq_store", "redirected",
              "init_e", "insert", "lookup", "mark", "learn_egress", "learn_egressip"}

\* The device of an incoming packet has been checked.
DeviceKnown == {"restore_decap", "restore_store", "redirected"}

\* The veth of a pod the address has been wired to, from the n-th on.
OwnVeth(l, from, dev) == \E n \in from..wired[l] : dev = VethOf(l, n)

\* Of one packet: the stages it can be at, and what is known there.
PathOK(p) ==
    /\ pkt[p].at \in EgressStages => pkt[p].dir = "egress"
    /\ pkt[p].at \in IngressStages => pkt[p].dir = "ingress"
    /\ pkt[p].rewritten => pkt[p].at \in {"masq_store", "restore_store", "redirected", "dropped"}
    /\ pkt[p].dir = "egress" /\ pkt[p].at \in HostKnown => pkt[p].host \in homes[RemoteOf[pkt[p].flow]]
    /\ pkt[p].at = "restore_egressip" /\ pkt[p].dev # NoDevice => OwnVeth(LocalOf[pkt[p].flow], pkt[p].wired, pkt[p].dev)
    /\ pkt[p].dir = "ingress" /\ pkt[p].at \in DeviceKnown => OwnVeth(LocalOf[pkt[p].flow], pkt[p].wired, pkt[p].dev)
    /\ pkt[p].wired <= wired[LocalOf[pkt[p].flow]]

\* The caches the agent and the programs fill, and Flannel's routes.
CachesOK ==
    /\ \A r \in Remotes : egressip[r] # NoHost => egressip[r] \in homes[r]
    /\ \A r \in Remotes : route[r] \in homes[r]
    /\ \A l \in Locals : ingress[l] \in {NoDevice, VethOf(l, wired[l])} /\ wired[l] <= pod[l]

\* The invariant.
PathInv == CachesOK /\ \A p \in Packets : PathOK(p)

\* It holds at first.
LEMMA PathInit == Init => PathInv
<1> SUFFICES ASSUME Init PROVE PathInv
  OBVIOUS
<1>1. CachesOK
  BY DEF Init, TypeNode, CachesOK
<1>2. ASSUME NEW p \in Packets PROVE PathOK(p)
  <2>1. pkt[p] = Idle
    BY DEF Init
  <2>2. pkt[p].wired <= wired[LocalOf[pkt[p].flow]]
    BY <2>1, IdlePacket DEF Init
  <2> QED BY <2>1, <2>2, IdlePacket DEF PathOK, EgressStages, IngressStages, MasqStages, RestoreStages,
             HostKnown, DeviceKnown
<1> QED BY <1>1, <1>2 DEF PathInv

\* Hosts that have had an address are not forgotten, and the agent wires later
\* pods, never earlier ones.
Grows ==
    /\ \A r \in Remotes : homes[r] \subseteq homes'[r]
    /\ \A l \in Locals : wired[l] \in Nat /\ wired'[l] \in Nat /\ wired[l] <= wired'[l]

\* So a packet that does not change stays on its way.
LEMMA PathFrame ==
  ASSUME TypePackets, NEW q \in Packets, PathOK(q), Grows, pkt'[q] = pkt[q]
  PROVE  PathOK(q)'
<1>1. pkt[q].flow \in Flows /\ RemoteOf[pkt[q].flow] \in Remotes /\ LocalOf[pkt[q].flow] \in Locals
  BY PacketTypes DEF Flow
<1>2. pkt[q].wired \in Nat
  BY PacketTypes
<1>3. \A d : OwnVeth(LocalOf[pkt[q].flow], pkt[q].wired, d) => OwnVeth(LocalOf[pkt[q].flow], pkt[q].wired, d)'
  BY <1>1, <1>2 DEF OwnVeth, Grows
<1>4. pkt[q].wired <= wired[LocalOf[pkt[q].flow]] => pkt[q].wired <= wired'[LocalOf[pkt[q].flow]]
  BY <1>1, <1>2 DEF Grows
<1> QED BY <1>1, <1>3, <1>4 DEF PathOK, Grows

\* Flannel's part of the state is left alone by the programs.
LEMMA NodeFrame ==
  ASSUME TypeOK
  PROVE  UNCHANGED nodeVars => TypeNode' /\ Grows
BY TypeParts DEF TypeNode, nodeVars, Grows

\* A step of a program that changes no map: all that is to be shown is that
\* the packet itself stays on its way.
LEMMA PathPacket ==
  ASSUME TypeOK, PathInv, NEW p \in Packets, NEW stage, MovesTo(p, stage),
         UNCHANGED <<mapVars, nodeVars>>, PathOK(p)'
  PROVE  PathInv'
<1>1. Grows
  BY NodeFrame
<1>2. \A q \in Packets : PathOK(q)'
  BY <1>1, PathFrame, TypeParts DEF PathInv, MovesTo
<1>3. CachesOK'
  BY DEF PathInv, CachesOK, mapVars, nodeVars
<1> QED BY <1>2, <1>3 DEF PathInv

\* A step to a stage where no more is known of the packet than before.
LEMMA PathKept ==
  ASSUME TypeOK, PathInv, NEW p \in Packets, NEW stage \in Stages, MovesTo(p, stage), Keeps(p),
         UNCHANGED nodeVars,
         stage \in EgressStages => pkt[p].dir = "egress",
         stage \in IngressStages => pkt[p].dir = "ingress",
         stage \in HostKnown /\ pkt[p].dir = "egress" => pkt[p].at \in HostKnown,
         stage = "restore_egressip" => pkt[p].at = "restore_egressip",
         stage \in DeviceKnown /\ pkt[p].dir = "ingress" =>
            \/ pkt[p].at \in DeviceKnown
            \/ pkt[p].at = "restore_egressip" /\ pkt[p].dev # NoDevice,
         pkt[p].rewritten => stage \in {"masq_store", "restore_store", "redirected", "dropped"}
  PROVE  PathOK(p)'
<1>1. PathOK(p)
  BY DEF PathInv
<1>2. UNCHANGED <<homes, wired>>
  BY DEF nodeVars
<1> QED BY <1>1, <1>2 DEF PathOK, MovesTo, Keeps, OwnVeth

\* The conjuncts of TypeOK after a step.
LEMMA TypeJoin ==
  ASSUME TypePackets', TypeMaps', TypeNode', TypeFlows', TypeCounts'
  PROVE  TypeOK'
BY DEF TypeOK, TypePackets, PacketSet, TypeMaps, TypeNode, TypeFlows, TypeCounts

\* A step of a packet that writes no map.
LEMMA TypeQuiet ==
  ASSUME TypeOK, UNCHANGED <<mapVars, nodeVars, ct, seen>>, TypePackets', TypeCounts'
  PROVE  TypeOK'
<1>1. TypeMaps' /\ TypeNode' /\ TypeFlows'
  BY TypeParts DEF TypeMaps, TypeNode, TypeFlows, mapVars, nodeVars
<1> QED BY <1>1, TypeJoin

-----------------------------------------------------------------------------
(***************************************************************************)
(* tc_masq and tc_restore.                                                 *)
(***************************************************************************)

\* The packet is left to Flannel, with or without the miss bit.
LEMMA PathStack ==
  ASSUME TypeOK, PathInv, NEW p \in Packets, Goto(p, "stack") \/ Miss(p),
         UNCHANGED <<mapVars, nodeVars, ct, seen>>, ~pkt[p].rewritten
  PROVE  TypeOK' /\ PathInv'
<1>0. TypePackets /\ TypeCounts /\ "stack" \in Stages
  BY TypeParts DEF Stages
<1>1. TypePackets' /\ TypeCounts' /\ MovesTo(p, "stack") /\ Keeps(p)
  <2>1. CASE Goto(p, "stack")
    BY <1>0, <2>1, GotoPacket DEF TypeCounts, countVars
  <2>2. CASE Miss(p)
    <3>1. pkt[p].tos \cup {"miss"} \in SUBSET Marks
      BY <1>0, PacketTypes DEF Marks
    <3> QED BY <1>0, <2>2, <3>1, SetTOSPacket DEF Miss
  <2> QED BY <2>1, <2>2
<1>2. PathOK(p)'
  BY <1>0, <1>1, PathKept DEF EgressStages, IngressStages, MasqStages, RestoreStages, HostKnown, DeviceKnown
<1> QED BY <1>1, <1>2, PathPacket, TypeQuiet

\* The next lookup of tc_masq or tc_restore, with what was known before.
LEMMA PathGoto ==
  ASSUME TypeOK, PathInv, NEW p \in Packets, NEW stage \in MasqStages \cup RestoreStages, Goto(p, stage),
         UNCHANGED <<mapVars, nodeVars, ct, seen>>, ~pkt[p].rewritten,
         stage \in MasqStages => pkt[p].at \in MasqStages,
         stage \in RestoreStages => pkt[p].at \in RestoreStages,
         stage \in HostKnown => pkt[p].at \in HostKnown,
         stage \in DeviceKnown \cup {"restore_egressip"} =>
            pkt[p].at = "restore_egressip" /\ pkt[p].dev # NoDevice
  PROVE  TypeOK' /\ PathInv'
<1>0. TypePackets /\ TypeCounts /\ stage \in Stages /\ PathOK(p)
  BY TypeParts DEF Stages, PathInv
<1>1. TypePackets' /\ TypeCounts' /\ MovesTo(p, stage) /\ Keeps(p)
  BY <1>0, GotoPacket DEF TypeCounts, countVars
<1>2. /\ stage \in EgressStages => pkt[p].dir = "egress"
      /\ stage \in IngressStages => pkt[p].dir = "ingress"
  BY <1>0 DEF PathOK, EgressStages, IngressStages, MasqStages, RestoreStages
<1>3. PathOK(p)'
  BY <1>0, <1>1, <1>2, PathKept
<1> QED BY <1>1, <1>3, PathPacket, TypeQuiet

\* A packet at a stage before adjust_room has not been rewritten.
LEMMA NotRewritten ==
  ASSUME TypeOK, PathInv, NEW p \in Packets,
         pkt[p].at \notin {"masq_store", "restore_store", "redirected", "dropped"}
  PROVE  ~pkt[p].rewritten
BY DEF PathInv, PathOK

\* oncache_control_allows, at the entry of both fast paths.
LEMMA PathGate ==
  ASSUME TypeOK, PathInv, NEW p \in Packets,
         Gate(p, "masq", "masq_policy", "stack") \/ Gate(p, "restore", "restore_dev", "stack")
  PROVE  TypeOK' /\ PathInv'
<1>1. UNCHANGED <<mapVars, nodeVars, ct, seen>> /\ pkt[p].at \in {"masq", "restore"}
  BY DEF Gate, At
<1>2. ~pkt[p].rewritten
  BY <1>1, NotRewritten
<1>3. \/ Goto(p, "stack")
      \/ pkt[p].at = "masq" /\ Goto(p, "masq_policy")
      \/ pkt[p].at = "restore" /\ Goto(p, "restore_dev")
  BY DEF Gate, At
<1> QED BY <1>1, <1>2, <1>3, PathStack, PathGoto DEF MasqStages, RestoreStages, HostKnown, DeviceKnown

\* The lookups of the egress fast path.
LEMMA PathMasqLookup ==
  ASSUME TypeOK, PathInv, NEW p \in Packets, MasqLookup(p)
  PROVE  TypeOK' /\ PathInv'
<1>0. TypePackets /\ TypeCounts /\ TypeMaps /\ PathOK(p)
  BY TypeParts DEF PathInv
<1>1. /\ UNCHANGED <<mapVars, nodeVars, ct, seen>>
      /\ pkt[p].at \in {"masq_policy", "masq_egressip", "masq_egress", "masq_ingress"}
  BY DEF MasqLookup, At
<1>2. ~pkt[p].rewritten
  BY <1>1, NotRewritten
<1>3. CASE /\ pkt[p].at = "masq_egressip" /\ egressip[RemoteAddr(p)] # NoHost
           /\ pkt' = [pkt EXCEPT ![p].host = egressip[RemoteAddr(p)], ![p].at = "masq_egress"]
           /\ UNCHANGED countVars
  <2> DEFINE host == egressip[RemoteAddr(p)]
             new == [pkt[p] EXCEPT !.host = host, !.at = "masq_egress"]
  <2>1. pkt[p] \in PacketSet /\ RemoteAddr(p) \in Remotes
    BY <1>0, PacketTypes
  <2>2. host \in Hosts \cup {NoHost} /\ host \in homes[RemoteAddr(p)]
    BY <1>3, <2>1, <1>0 DEF TypeMaps, PathInv, CachesOK
  <2>3. pkt' = [pkt EXCEPT ![p] = new]
    BY <1>0, <1>3 DEF TypePackets
  <2> HIDE DEF host
  <2>4. /\ new \in PacketSet /\ new.at = "masq_egress" /\ new.host = host /\ new.flow = pkt[p].flow
        /\ new.dir = pkt[p].dir /\ new.wired = pkt[p].wired /\ new.rewritten = pkt[p].rewritten
    BY <2>1, <2>2 DEF PacketSet, Stages, MasqStages
  <2> HIDE DEF new
  <2>5. TypePackets' /\ Becomes(p, new)
    BY <1>0, <2>3, <2>4, Update
  <2>6. MovesTo(p, "masq_egress")
    BY <2>4, <2>5 DEF MovesTo, Becomes
  <2>7. pkt[p].dir = "egress" /\ UNCHANGED <<homes, wired>>
    BY <1>0, <1>1, <1>3 DEF PathOK, EgressStages, MasqStages, nodeVars
  <2>8. PathOK(p)'
    <3>1. /\ pkt'[p].at = "masq_egress" /\ pkt'[p].dir = "egress" /\ ~pkt'[p].rewritten
          /\ pkt'[p].host = host /\ pkt'[p].flow = pkt[p].flow /\ pkt'[p].wired = pkt[p].wired
      BY <1>2, <2>4, <2>5, <2>7 DEF Becomes
    <3>2. pkt'[p].host \in homes'[RemoteOf[pkt'[p].flow]]
      BY <2>2, <2>7, <3>1 DEF RemoteAddr, Flow
    <3>3. pkt'[p].wired <= wired'[LocalOf[pkt'[p].flow]]
      BY <1>0, <2>7, <3>1 DEF PathOK
    <3> QED BY <3>1, <3>2, <3>3 DEF PathOK, IngressStages, RestoreStages, DeviceKnown
  <2>9. TypeCounts'
    BY <1>0, <1>3 DEF TypeCounts, countVars
  <2> QED BY <1>1, <2>5, <2>6, <2>8, <2>9, PathPacket, TypeQuiet
<1>4. CASE \/ Goto(p, "stack") \/ Miss(p)
           \/ pkt[p].at = "masq_policy" /\ Goto(p, "masq_egressip")
           \/ pkt[p].at = "masq_egress" /\ Goto(p, "masq_ingress")
           \/ pkt[p].at = "masq_ingress" /\ Goto(p, "masq_encap")
  BY <1>1, <1>2, <1>4, PathStack, PathGoto DEF MasqStages, RestoreStages, HostKnown, DeviceKnown
<1> QED BY <1>3, <1>4 DEF MasqLookup, At

\* The lookups of the ingress fast path.
LEMMA PathRestoreLookup ==
  ASSUME TypeOK, PathInv, NEW p \in Packets, RestoreLookup(p)
  PROVE  TypeOK' /\ PathInv'
<1>0. TypePackets /\ TypeCounts /\ TypeMaps /\ PathOK(p)
  BY TypeParts DEF PathInv
<1>1. /\ UNCHANGED <<mapVars, nodeVars, ct, seen>>
      /\ pkt[p].at \in {"restore_dev", "restore_policy", "restore_ingress", "restore_egressip"}
  BY DEF RestoreLookup, At
<1>2. ~pkt[p].rewritten
  BY <1>1, NotRewritten
<1>3. CASE /\ pkt[p].at = "restore_ingress"
           /\ pkt' = [pkt EXCEPT ![p].dev = ingress[LocalAddr(p)], ![p].at = "restore_egressip"]
           /\ UNCHANGED countVars
  <2> DEFINE dev == ingress[LocalAddr(p)]
             new == [pkt[p] EXCEPT !.dev = dev, !.at = "restore_egressip"]
  <2>1. pkt[p] \in PacketSet /\ LocalAddr(p) \in Locals
    BY <1>0, PacketTypes
  <2>2. dev \in Devices /\ (dev # NoDevice => OwnVeth(LocalAddr(p), pkt[p].wired, dev))
    <3>1. dev \in Devices /\ dev \in {NoDevice, VethOf(LocalAddr(p), wired[LocalAddr(p)])}
      BY <2>1, <1>0 DEF TypeMaps, PathInv, CachesOK, Devices
    <3>2. pkt[p].wired \in Nat /\ wired[LocalAddr(p)] \in Nat /\ pkt[p].wired <= wired[LocalAddr(p)]
      BY <2>1, <1>0, TypeParts, PacketTypes DEF TypeNode, PathOK, LocalAddr, Flow
    <3>3. wired[LocalAddr(p)] \in pkt[p].wired..wired[LocalAddr(p)]
      BY <3>2
    <3> QED BY <3>1, <3>3 DEF OwnVeth
  <2>3. pkt' = [pkt EXCEPT ![p] = new]
    BY <1>0, <1>3 DEF TypePackets
  <2> HIDE DEF dev
  <2>4. /\ new \in PacketSet /\ new.at = "restore_egressip" /\ new.dev = dev /\ new.flow = pkt[p].flow
        /\ new.dir = pkt[p].dir /\ new.wired = pkt[p].wired /\ new.rewritten = pkt[p].rewritten
    BY <2>1, <2>2 DEF PacketSet, Stages, RestoreStages
  <2> HIDE DEF new
  <2>5. TypePackets' /\ Becomes(p, new)
    BY <1>0, <2>3, <2>4, Update
  <2>6. MovesTo(p, "restore_egressip")
    BY <2>4, <2>5 DEF MovesTo, Becomes
  <2>7. pkt[p].dir = "ingress" /\ UNCHANGED wired
    BY <1>0, <1>1, <1>3 DEF PathOK, IngressStages, RestoreStages, nodeVars
  <2>8. PathOK(p)'
    <3>1. /\ pkt'[p].at = "restore_egressip" /\ pkt'[p].dir = "ingress" /\ ~pkt'[p].rewritten
          /\ pkt'[p].dev = dev /\ pkt'[p].flow = pkt[p].flow /\ pkt'[p].wired = pkt[p].wired
      BY <1>2, <2>4, <2>5, <2>7 DEF Becomes
    <3>2. dev # NoDevice => \E n \in pkt'[p].wired..wired'[LocalOf[pkt'[p].flow]] :
                              pkt'[p].dev = VethOf(LocalOf[pkt'[p].flow], n)
      <4>1. wired' = wired /\ LocalOf[pkt'[p].flow] = LocalAddr(p) /\ pkt'[p].wired = pkt[p].wired
        BY <2>7, <3>1 DEF LocalAddr, Flow
      <4> QED BY <2>2, <3>1, <4>1 DEF OwnVeth
    <3>3. pkt'[p].wired <= wired'[LocalOf[pkt'[p].flow]]
      BY <1>0, <2>7, <3>1 DEF PathOK
    <3> QED BY <3>1, <3>2, <3>3 DEF PathOK, EgressStages, MasqStages, DeviceKnown, HostKnown, OwnVeth
  <2>9. TypeCounts'
    BY <1>0, <1>3 DEF TypeCounts, countVars
  <2> QED BY <1>1, <2>5, <2>6, <2>8, <2>9, PathPacket, TypeQuiet
<1>4. CASE \/ Goto(p, "stack") \/ Miss(p)
           \/ pkt[p].at = "restore_dev" /\ Goto(p, "restore_policy")
           \/ pkt[p].at = "restore_policy" /\ Goto(p, "restore_ingress")
           \/ pkt[p].at = "restore_egressip" /\ pkt[p].dev # NoDevice /\ Goto(p, "restore_decap")
  BY <1>1, <1>2, <1>4, PathStack, PathGoto DEF MasqStages, RestoreStages, HostKnown, DeviceKnown
<1> QED BY <1>3, <1>4 DEF RestoreLookup, At, RedirectTargetValid

\* Only the stage of the packet changes.
LEMMA StagePacket ==
  ASSUME TypePackets, NEW p \in Packets, NEW stage \in Stages, pkt' = [pkt EXCEPT ![p].at = stage]
  PROVE  TypePackets' /\ MovesTo(p, stage) /\ Keeps(p)
<1> DEFINE new == [pkt[p] EXCEPT !.at = stage]
<1>1. /\ new \in PacketSet /\ new.at = stage /\ new.flow = pkt[p].flow /\ new.dir = pkt[p].dir /\ new.wired = pkt[p].wired
      /\ new.host = pkt[p].host /\ new.elem = pkt[p].elem
      /\ new.dev = pkt[p].dev /\ new.rewritten = pkt[p].rewritten
  BY PacketTypes DEF PacketSet
<1>2. pkt' = [pkt EXCEPT ![p] = new]
  OBVIOUS
<1> HIDE DEF new
<1>3. TypePackets' /\ Becomes(p, new)
  BY <1>1, <1>2, Update
<1> QED BY <1>1, <1>3 DEF MovesTo, Keeps, Becomes

\* adjust_room: the packet is rewritten from here on.
LEMMA PathRewrite ==
  ASSUME TypeOK, PathInv, NEW p \in Packets, NEW stage \in {"masq_store", "restore_store"},
         pkt' = [pkt EXCEPT ![p].rewritten = TRUE, ![p].at = stage],
         \/ pkt[p].at = "masq_encap" /\ stage = "masq_store"
         \/ pkt[p].at = "restore_decap" /\ stage = "restore_store",
         UNCHANGED <<mapVars, nodeVars, ct, seen>>, TypeCounts'
  PROVE  TypeOK' /\ PathInv'
<1>0. TypePackets /\ PathOK(p)
  BY TypeParts DEF PathInv
<1> DEFINE new == [pkt[p] EXCEPT !.rewritten = TRUE, !.at = stage]
<1>1. /\ new \in PacketSet /\ new.at = stage /\ new.flow = pkt[p].flow /\ new.dir = pkt[p].dir /\ new.wired = pkt[p].wired
      /\ new.host = pkt[p].host /\ new.dev = pkt[p].dev
  <2>1. pkt[p] \in PacketSet /\ stage \in Stages
    BY <1>0, PacketTypes DEF Stages, MasqStages, RestoreStages
  <2> QED BY <2>1 DEF PacketSet
<1>2. pkt' = [pkt EXCEPT ![p] = new]
  BY <1>0 DEF TypePackets
<1> HIDE DEF new
<1>3. TypePackets' /\ Becomes(p, new)
  BY <1>0, <1>1, <1>2, Update
<1>4. MovesTo(p, stage)
  BY <1>1, <1>3 DEF MovesTo, Becomes
<1>5. UNCHANGED <<homes, wired>>
  BY DEF nodeVars
<1>6. /\ pkt'[p].at = stage /\ pkt'[p].flow = pkt[p].flow /\ pkt'[p].dir = pkt[p].dir
      /\ pkt'[p].host = pkt[p].host /\ pkt'[p].dev = pkt[p].dev /\ pkt'[p].wired = pkt[p].wired
  BY <1>1, <1>3 DEF Becomes
<1>7. PathOK(p)'
  <2>0. pkt'[p].wired <= wired'[LocalOf[pkt'[p].flow]]
    BY <1>0, <1>5, <1>6 DEF PathOK
  <2>1. CASE pkt[p].at = "masq_encap" /\ stage = "masq_store"
    <3>1. pkt[p].dir = "egress" /\ pkt[p].host \in homes[RemoteOf[pkt[p].flow]]
      BY <1>0, <2>1 DEF PathOK, EgressStages, MasqStages, HostKnown
    <3>2. pkt'[p].at = "masq_store" /\ pkt'[p].dir = "egress" /\ pkt'[p].host \in homes'[RemoteOf[pkt'[p].flow]]
      BY <1>5, <1>6, <2>1, <3>1
    <3> QED BY <2>0, <3>2 DEF PathOK, IngressStages, RestoreStages
  <2>2. CASE pkt[p].at = "restore_decap" /\ stage = "restore_store"
    <3>1. pkt[p].dir = "ingress" /\ OwnVeth(LocalOf[pkt[p].flow], pkt[p].wired, pkt[p].dev)
      BY <1>0, <2>2 DEF PathOK, IngressStages, RestoreStages, DeviceKnown
    <3>2. /\ pkt'[p].at = "restore_store" /\ pkt'[p].dir = "ingress"
          /\ OwnVeth(LocalOf[pkt[p].flow], pkt[p].wired, pkt[p].dev)'
      BY <1>5, <1>6, <2>2, <3>1 DEF OwnVeth
    <3>3. OwnVeth(LocalOf[pkt[p].flow], pkt[p].wired, pkt[p].dev)' <=>
            \E n \in pkt'[p].wired..wired'[LocalOf[pkt'[p].flow]] :
               pkt'[p].dev = VethOf(LocalOf[pkt'[p].flow], n)
      BY <1>6 DEF OwnVeth
    <3> QED BY <2>0, <3>2, <3>3 DEF PathOK, OwnVeth, EgressStages, MasqStages
  <2> QED BY <2>1, <2>2
<1> QED BY <1>3, <1>4, <1>7, PathPacket, TypeQuiet

\* The packet is redirected or dropped, or (not rewritten yet) left to Flannel.
LEMMA PathFate ==
  ASSUME TypeOK, PathInv, NEW p \in Packets, NEW stage \in {"stack", "dropped", "redirected"},
         pkt' = [pkt EXCEPT ![p].at = stage],
         stage = "stack" => ~pkt[p].rewritten,
         stage = "redirected" => pkt[p].at = "restore_store",
         UNCHANGED <<mapVars, nodeVars, ct, seen>>, TypeCounts'
  PROVE  TypeOK' /\ PathInv'
<1>0. TypePackets /\ PathOK(p) /\ stage \in Stages
  BY TypeParts DEF PathInv, Stages, Fates
<1>1. TypePackets' /\ MovesTo(p, stage) /\ Keeps(p)
  BY <1>0, StagePacket
<1>2. PathOK(p)'
  <2>1. stage = "redirected" => pkt[p].dir = "ingress" /\ pkt[p].at \in DeviceKnown
    BY <1>0 DEF PathOK, IngressStages, RestoreStages, DeviceKnown
  <2>2. stage \notin EgressStages /\ stage \notin IngressStages /\ stage # "restore_egressip"
    BY DEF EgressStages, IngressStages, MasqStages, RestoreStages
  <2>3. stage \in HostKnown \/ stage \in DeviceKnown => stage = "redirected"
    BY DEF HostKnown, DeviceKnown
  <2> QED BY <1>0, <1>1, <2>1, <2>2, <2>3, PathKept
<1> QED BY <1>1, <1>2, PathPacket, TypeQuiet

\* A helper that fails counts once.
LEMMA FaultTypes ==
  ASSUME TypeCounts, UNCHANGED moves, UNCHANGED faults \/ Fault
  PROVE  TypeCounts'
BY DEF TypeCounts, Fault

\* bpf_skb_adjust_room and the outer header, which may fail half way.
LEMMA PathMasqEncap ==
  ASSUME TypeOK, PathInv, NEW p \in Packets, MasqEncap(p)
  PROVE  TypeOK' /\ PathInv'
<1>0. TypePackets /\ TypeCounts /\ PathOK(p)
  BY TypeParts DEF PathInv
<1>1. /\ UNCHANGED <<mapVars, nodeVars, ct, seen, moves>> /\ (UNCHANGED faults \/ Fault)
      /\ pkt[p].at \in {"masq_encap", "masq_store"}
  BY DEF MasqEncap, At
<1>2. TypeCounts'
  BY <1>0, <1>1, FaultTypes
<1>3. CASE pkt[p].at = "masq_store" /\ pkt' = [pkt EXCEPT ![p].dev = Underlay, ![p].at = "redirected"]
  <2> DEFINE new == [pkt[p] EXCEPT !.dev = Underlay, !.at = "redirected"]
  <2>1. /\ new \in PacketSet /\ new.at = "redirected" /\ new.flow = pkt[p].flow /\ new.dir = pkt[p].dir /\ new.wired = pkt[p].wired
        /\ new.host = pkt[p].host
    <3>1. pkt[p] \in PacketSet /\ "redirected" \in Stages /\ Underlay \in Devices
      BY <1>0, PacketTypes DEF Stages, Fates, Devices
    <3> QED BY <3>1 DEF PacketSet
  <2>2. pkt' = [pkt EXCEPT ![p] = new]
    BY <1>0, <1>3 DEF TypePackets
  <2> HIDE DEF new
  <2>3. TypePackets' /\ Becomes(p, new)
    BY <1>0, <2>1, <2>2, Update
  <2>4. MovesTo(p, "redirected")
    BY <2>1, <2>3 DEF MovesTo, Becomes
  <2>5. UNCHANGED <<homes, wired>>
    BY <1>1 DEF nodeVars
  <2>6. pkt[p].dir = "egress" /\ pkt[p].at \in HostKnown
    BY <1>0, <1>3 DEF PathOK, EgressStages, MasqStages, HostKnown
  <2>7. PathOK(p)'
    BY <1>0, <2>1, <2>3, <2>5, <2>6 DEF PathOK, Becomes, EgressStages, IngressStages, MasqStages, RestoreStages
  <2> QED BY <1>1, <1>2, <2>3, <2>4, <2>7, PathPacket, TypeQuiet
<1>4. CASE pkt[p].at = "masq_encap" /\ pkt' = [pkt EXCEPT ![p].rewritten = TRUE, ![p].at = "masq_store"]
  BY <1>1, <1>2, <1>4, PathRewrite
<1>5. CASE pkt[p].at = "masq_encap" /\ pkt' = [pkt EXCEPT ![p].at = "stack"]
  BY <1>1, <1>2, <1>5, PathFate, NotRewritten
<1>6. CASE pkt' = [pkt EXCEPT ![p].at = "dropped"]
  BY <1>1, <1>2, <1>6, PathFate
<1> QED BY <1>3, <1>4, <1>5, <1>6 DEF MasqEncap, At

\* The same on the way in.
LEMMA PathRestoreDecap ==
  ASSUME TypeOK, PathInv, NEW p \in Packets, RestoreDecap(p)
  PROVE  TypeOK' /\ PathInv'
<1>0. TypeCounts
  BY TypeParts
<1>1. /\ UNCHANGED <<mapVars, nodeVars, ct, seen, moves>> /\ (UNCHANGED faults \/ Fault)
  BY DEF RestoreDecap
<1>2. TypeCounts'
  BY <1>0, <1>1, FaultTypes
<1>3. CASE pkt[p].at = "restore_decap" /\ pkt' = [pkt EXCEPT ![p].rewritten = TRUE, ![p].at = "restore_store"]
  BY <1>1, <1>2, <1>3, PathRewrite
<1>4. CASE pkt[p].at = "restore_decap" /\ pkt' = [pkt EXCEPT ![p].at = "stack"]
  BY <1>1, <1>2, <1>4, PathFate, NotRewritten
<1>5. CASE pkt' = [pkt EXCEPT ![p].at = "dropped"]
  BY <1>1, <1>2, <1>5, PathFate
<1>6. CASE pkt[p].at = "restore_store" /\ pkt' = [pkt EXCEPT ![p].at = "redirected"]
  BY <1>1, <1>2, <1>6, PathFate
<1> QED BY <1>3, <1>4, <1>5, <1>6 DEF RestoreDecap, At

-----------------------------------------------------------------------------
(***************************************************************************)
(* The learning programs.                                                  *)
(***************************************************************************)

\* A step of a program that changes maps too.
LEMMA PathMaps ==
  ASSUME TypeOK, PathInv, NEW p \in Packets, UNCHANGED nodeVars, CachesOK', PathOK(p)',
         \A q \in Packets \ {p} : pkt'[q] = pkt[q]
  PROVE  PathInv'
<1>1. Grows
  BY NodeFrame
<1>2. \A q \in Packets : PathOK(q)'
  BY <1>1, PathFrame, TypeParts DEF PathInv
<1> QED BY <1>2 DEF PathInv

\* A learning program goes on with the headers (tc_init_e) or the marks.
LEMMA PathAfterPolicy ==
  ASSUME TypeOK, PathInv, NEW p \in Packets, pkt[p].at \in {"insert", "lookup", "mark"},
         NEW stage, stage = AfterPolicy(p) \/ stage \in {"lookup", "mark"},
         MovesTo(p, stage), pkt'[p].host = pkt[p].host, pkt'[p].rewritten = pkt[p].rewritten,
         UNCHANGED nodeVars
  PROVE  PathOK(p)'
<1>1. PathOK(p) /\ ~pkt[p].rewritten /\ UNCHANGED <<homes, wired>>
  BY NotRewritten DEF PathInv, nodeVars
<1>2. stage \in {"learn_egress", "clear", "lookup", "mark"} /\ (stage = "learn_egress" => pkt[p].dir = "egress")
  BY DEF AfterPolicy
<1>3. pkt[p].at \in HostKnown
  BY DEF HostKnown
<1> QED BY <1>1, <1>2, <1>3 DEF PathOK, MovesTo, EgressStages, IngressStages, MasqStages, RestoreStages,
           DeviceKnown

\* Where a packet goes after the policy entry.
LEMMA AfterPolicyStage ==
  ASSUME NEW p \in Packets
  PROVE  AfterPolicy(p) \in Stages /\ AfterPolicy(p) \in {"learn_egress", "clear"}
BY DEF AfterPolicy, Stages, LearnStages

\* The insert of a policy entry, which may find one already there.
LEMMA PathPolicyInsert ==
  ASSUME TypeOK, PathInv, NEW p \in Packets, PolicyInsert(p)
  PROVE  TypeOK' /\ PathInv'
<1>0. TypePackets /\ TypeMaps /\ TypeNode /\ TypeFlows /\ TypeCounts
  BY TypeParts
<1>1. Flow(p) \in Flows /\ pkt[p].dir \in Dirs
  BY <1>0, PacketTypes
<1>2. PICK stage \in Stages : Goto(p, stage) /\ (stage = AfterPolicy(p) \/ stage = "lookup")
  BY AfterPolicyStage DEF PolicyInsert, Stages, LearnStages
<1>3. TypePackets' /\ MovesTo(p, stage) /\ Keeps(p) /\ UNCHANGED countVars
  BY <1>0, <1>2, GotoPacket
<1>4. UNCHANGED <<egressip, egress, ingress, devmap, nodeVars, ct>> /\ pkt[p].at = "insert"
  BY DEF PolicyInsert, At
<1>5. policyAt' \in [Flows -> Elements \cup {NoElement}] /\ ready' \in [Elements -> SUBSET Dirs]
  <2>1. policyAt \in [Flows -> Elements \cup {NoElement}] /\ ready \in [Elements -> SUBSET Dirs]
    BY <1>0 DEF TypeMaps
  <2>2. {pkt[p].dir} \in SUBSET Dirs
    BY <1>1
  <2>3. \/ UNCHANGED <<policyAt, ready>>
        \/ \E e \in Elements : /\ policyAt' = [policyAt EXCEPT ![Flow(p)] = e]
                              /\ ready' = [ready EXCEPT ![e] = {pkt[p].dir}]
    BY DEF PolicyInsert, FreeElements
  <2> QED BY <1>1, <2>1, <2>2, <2>3
<1>6. seen' \in [Flows -> SUBSET Dirs]
  BY <1>0, <1>1 DEF TypeFlows, PolicyInsert
<1>7. TypeMaps' /\ TypeNode' /\ TypeFlows' /\ TypeCounts'
  <2>1. TypeMaps'
    BY <1>0, <1>4, <1>5 DEF TypeMaps
  <2>2. TypeNode'
    BY <1>4, NodeFrame
  <2> QED BY <2>1, <2>2, <1>0, <1>3, <1>4, <1>6 DEF TypeFlows, TypeCounts, countVars
<1>8. CachesOK'
  BY <1>4 DEF PathInv, CachesOK, nodeVars
<1>9. PathOK(p)'
  BY <1>2, <1>3, <1>4, PathAfterPolicy DEF Keeps
<1> QED BY <1>3, <1>4, <1>7, <1>8, <1>9, TypeJoin, PathMaps DEF MovesTo

\* A packet takes or gives up its pointer to an element.
LEMMA ElemPacket ==
  ASSUME TypePackets, NEW p \in Packets, NEW e \in Elements \cup {NoElement}, NEW stage \in Stages,
         pkt' = [pkt EXCEPT ![p].elem = e, ![p].at = stage]
  PROVE  /\ TypePackets' /\ MovesTo(p, stage) /\ pkt'[p].elem = e
         /\ pkt'[p].host = pkt[p].host /\ pkt'[p].rewritten = pkt[p].rewritten
<1> DEFINE new == [pkt[p] EXCEPT !.elem = e, !.at = stage]
<1>1. /\ new \in PacketSet /\ new.at = stage /\ new.flow = pkt[p].flow /\ new.dir = pkt[p].dir /\ new.wired = pkt[p].wired
      /\ new.host = pkt[p].host /\ new.elem = e /\ new.rewritten = pkt[p].rewritten
  <2>1. pkt[p] \in PacketSet
    BY PacketTypes
  <2> QED BY <2>1 DEF PacketSet
<1>2. pkt' = [pkt EXCEPT ![p] = new]
  BY DEF TypePackets
<1> HIDE DEF new
<1>3. TypePackets' /\ Becomes(p, new)
  BY <1>1, <1>2, Update
<1> QED BY <1>1, <1>3 DEF MovesTo, Becomes

\* The lookup after a failed insert moves to the mark, with the element found.
LEMMA LookupPacket ==
  ASSUME TypeOK, NEW p \in Packets, PolicyLookup(p)
  PROVE  \E stage \in Stages :
            /\ stage = IF policyAt[Flow(p)] = NoElement THEN AfterPolicy(p) ELSE "mark"
            /\ TypePackets' /\ MovesTo(p, stage) /\ pkt'[p].elem = policyAt[Flow(p)]
            /\ pkt'[p].host = pkt[p].host /\ pkt'[p].rewritten = pkt[p].rewritten
<1> DEFINE e == policyAt[Flow(p)]
           stage == IF policyAt[Flow(p)] = NoElement THEN AfterPolicy(p) ELSE "mark"
<1>1. e \in Elements \cup {NoElement} /\ stage \in Stages /\ TypePackets
  BY TypeParts, PacketTypes, AfterPolicyStage DEF TypeMaps, Stages, LearnStages
<1>2. pkt' = [pkt EXCEPT ![p].elem = e, ![p].at = stage]
  BY DEF PolicyLookup
<1> HIDE DEF e, stage
<1>3. /\ TypePackets' /\ MovesTo(p, stage) /\ pkt'[p].elem = e
      /\ pkt'[p].host = pkt[p].host /\ pkt'[p].rewritten = pkt[p].rewritten
  BY <1>1, <1>2, ElemPacket
<1> QED BY <1>1, <1>3 DEF e, stage

\* The lookup after a failed insert.
LEMMA PathPolicyLookup ==
  ASSUME TypeOK, PathInv, NEW p \in Packets, PolicyLookup(p)
  PROVE  TypeOK' /\ PathInv'
<1>1. PICK stage \in Stages :
        /\ stage = AfterPolicy(p) \/ stage = "mark"
        /\ TypePackets' /\ MovesTo(p, stage)
        /\ pkt'[p].host = pkt[p].host /\ pkt'[p].rewritten = pkt[p].rewritten
  BY LookupPacket
<1>2. UNCHANGED <<mapVars, nodeVars, ct, seen, countVars>> /\ pkt[p].at = "lookup"
  BY DEF PolicyLookup, At
<1>3. TypeCounts'
  BY <1>2, TypeParts DEF TypeCounts, countVars
<1>4. PathOK(p)'
  BY <1>1, <1>2, PathAfterPolicy
<1> QED BY <1>1, <1>2, <1>3, <1>4, PathPacket, TypeQuiet

\* The mark is set through the pointer, which is given up.
LEMMA MarkPacket ==
  ASSUME TypeOK, NEW p \in Packets, PolicyMark(p)
  PROVE  /\ TypePackets' /\ MovesTo(p, AfterPolicy(p)) /\ pkt'[p].elem = NoElement
         /\ pkt'[p].host = pkt[p].host /\ pkt'[p].rewritten = pkt[p].rewritten
<1>1. TypePackets /\ AfterPolicy(p) \in Stages
  BY TypeParts, AfterPolicyStage
<1>2. pkt' = [pkt EXCEPT ![p].elem = NoElement, ![p].at = AfterPolicy(p)]
  BY DEF PolicyMark
<1> QED BY <1>1, <1>2, ElemPacket

\* The mark is written into the element that was found, whoever owns it by
\* then.
LEMMA PathPolicyMark ==
  ASSUME TypeOK, PathInv, NEW p \in Packets, PolicyMark(p)
  PROVE  TypeOK' /\ PathInv'
<1>0. TypePackets /\ TypeMaps /\ TypeNode /\ TypeFlows /\ TypeCounts
  BY TypeParts
<1>1. /\ TypePackets' /\ MovesTo(p, AfterPolicy(p))
      /\ pkt'[p].host = pkt[p].host /\ pkt'[p].rewritten = pkt[p].rewritten
  BY MarkPacket
<1>2. /\ UNCHANGED <<policyAt, egressip, egress, ingress, devmap, nodeVars, ct, seen, countVars>>
      /\ pkt[p].at = "mark"
  BY DEF PolicyMark, At
<1>3. ready' \in [Elements -> SUBSET Dirs]
  <2>1. ready \in [Elements -> SUBSET Dirs] /\ pkt[p].dir \in Dirs
    BY <1>0, PacketTypes DEF TypeMaps
  <2>2. ready' = [ready EXCEPT ![pkt[p].elem] = @ \cup {pkt[p].dir}]
    BY DEF PolicyMark
  <2> QED BY <2>1, <2>2
<1>4. TypeMaps' /\ TypeNode' /\ TypeFlows' /\ TypeCounts'
  <2>1. TypeMaps'
    BY <1>0, <1>2, <1>3 DEF TypeMaps
  <2>2. TypeNode'
    BY <1>2, NodeFrame
  <2> QED BY <2>1, <2>2, <1>0, <1>2 DEF TypeFlows, TypeCounts, countVars
<1>5. CachesOK'
  BY <1>2 DEF PathInv, CachesOK, nodeVars
<1>6. PathOK(p)'
  BY <1>1, <1>2, PathAfterPolicy
<1> QED BY <1>1, <1>2, <1>4, <1>5, <1>6, TypeJoin, PathMaps DEF MovesTo

\* The host a header is learned for has had the remote address.
LEMMA PathLearnHeaders ==
  ASSUME TypeOK, PathInv, NEW p \in Packets, LearnHeaders(p)
  PROVE  TypeOK' /\ PathInv'
<1>0. TypePackets /\ TypeMaps /\ TypeNode /\ TypeFlows /\ TypeCounts /\ PathOK(p)
  BY TypeParts DEF PathInv
<1>1. UNCHANGED <<policyAt, ready, ingress, devmap, nodeVars, ct, seen>>
      /\ pkt[p].at \in {"learn_egress", "learn_egressip"}
  BY DEF LearnHeaders, At
<1>2. PICK stage \in {"learn_egressip", "clear"} : Goto(p, stage)
  BY DEF LearnHeaders
<1>3. TypePackets' /\ MovesTo(p, stage) /\ Keeps(p) /\ UNCHANGED countVars
  BY <1>0, <1>2, GotoPacket DEF Stages, LearnStages
<1>4. pkt[p].dir = "egress" /\ ~pkt[p].rewritten /\ pkt[p].host \in homes[RemoteAddr(p)]
  <2>1. pkt[p].dir = "egress"
    BY <1>0, <1>1 DEF PathOK, EgressStages
  <2> QED BY <1>0, <1>1, <2>1, NotRewritten DEF PathOK, HostKnown, RemoteAddr, Flow
<1>5. RemoteAddr(p) \in Remotes /\ pkt[p].host \in Hosts
  BY <1>0, <1>4, PacketTypes DEF TypeNode
<1>6. TypeMaps'
  <2>1. egress' \subseteq Hosts
    BY <1>0, <1>5 DEF TypeMaps, LearnHeaders
  <2>2. egressip' \in [Remotes -> Hosts \cup {NoHost}]
    BY <1>0, <1>5 DEF TypeMaps, LearnHeaders
  <2> QED BY <1>0, <1>1, <2>1, <2>2 DEF TypeMaps
<1>7. TypeNode' /\ TypeFlows' /\ TypeCounts'
  BY <1>0, <1>1, <1>3, NodeFrame DEF TypeFlows, TypeCounts, countVars
<1>8. CachesOK'
  <2>1. UNCHANGED <<homes, route, pod, wired, ingress>>
    BY <1>1 DEF nodeVars
  <2>2. \A r \in Remotes : egressip'[r] # NoHost => egressip'[r] \in homes[r]
    BY <1>0, <1>4, <1>5 DEF LearnHeaders, PathInv, CachesOK, TypeMaps
  <2> QED BY <2>1, <2>2 DEF PathInv, CachesOK
<1>9. PathOK(p)'
  BY <1>1, <1>3, <1>4, PathKept DEF Stages, LearnStages, EgressStages, IngressStages, MasqStages, RestoreStages,
     HostKnown, DeviceKnown
<1> QED BY <1>1, <1>3, <1>6, <1>7, <1>8, <1>9, TypeJoin, PathMaps DEF MovesTo

\* The packet is delivered, with or without the marks.
LEMMA PathDeliver ==
  ASSUME TypeOK, PathInv, NEW p \in Packets, NEW stage \in {"insert", "init_in_ingress", "delivered"},
         TypePackets', MovesTo(p, stage), Keeps(p), UNCHANGED nodeVars,
         \/ stage = "delivered" /\ pkt[p].at \in {"init_e", "init_in", "init_in_ingress", "clear"}
         \/ stage = "insert" /\ pkt[p].at \in {"init_e", "init_in_ingress"}
         \/ stage = "init_in_ingress" /\ pkt[p].at = "init_in"
  PROVE  PathOK(p)'
<1>1. PathOK(p) /\ ~pkt[p].rewritten
  BY NotRewritten DEF PathInv
<1>2. stage = "init_in_ingress" => pkt[p].dir = "ingress"
  BY <1>1 DEF PathOK, IngressStages
<1>3. stage = "insert" /\ pkt[p].dir = "egress" => pkt[p].at \in HostKnown
  BY <1>1 DEF PathOK, IngressStages, HostKnown
<1> QED BY <1>1, <1>2, <1>3, PathKept DEF Stages, LearnStages, Fates, EgressStages, IngressStages, MasqStages,
           RestoreStages, HostKnown, DeviceKnown

\* The TOS bits of a packet that is done.
LEMMA PathClearMarks ==
  ASSUME TypeOK, PathInv, NEW p \in Packets, ClearMarks(p)
  PROVE  TypeOK' /\ PathInv'
<1>1. UNCHANGED <<mapVars, nodeVars, ct, seen>> /\ pkt[p].at = "clear" /\ SetTOS(p, {}, "delivered")
  BY DEF ClearMarks, At
<1>2. TypePackets' /\ MovesTo(p, "delivered") /\ Keeps(p) /\ TypeCounts'
  BY <1>1, TypeParts, SetTOSPacket DEF Stages, Fates
<1>3. PathOK(p)'
  BY <1>1, <1>2, PathDeliver
<1> QED BY <1>1, <1>2, <1>3, PathPacket, TypeQuiet

\* What the egress initialiser learns.
LEMMA PathInitE ==
  ASSUME TypeOK, PathInv, NEW p \in Packets, InitE(p)
  PROVE  TypeOK' /\ PathInv'
<1>1. UNCHANGED <<mapVars, nodeVars, ct, seen>> /\ pkt[p].at = "init_e"
  BY DEF InitE, At
<1>2. PICK stage \in {"insert", "delivered"} : Goto(p, stage)
  BY DEF InitE
<1>3. TypePackets' /\ MovesTo(p, stage) /\ Keeps(p) /\ UNCHANGED countVars
  BY <1>2, TypeParts, GotoPacket DEF Stages, LearnStages, Fates
<1>4. TypeCounts'
  BY <1>3, TypeParts DEF TypeCounts, countVars
<1>5. PathOK(p)'
  BY <1>1, <1>3, PathDeliver
<1> QED BY <1>1, <1>3, <1>4, <1>5, PathPacket, TypeQuiet

\* tc_init_in needs an entry the agent has made, and makes none.
LEMMA PathInitIn ==
  ASSUME TypeOK, PathInv, NEW p \in Packets, InitIn(p)
  PROVE  TypeOK' /\ PathInv'
<1>1. UNCHANGED <<mapVars, nodeVars, ct, seen>>
  BY DEF InitIn
<1>2. PICK stage \in {"insert", "init_in_ingress", "delivered"} :
        /\ Goto(p, stage) /\ pkt[p].at \in {"init_in", "init_in_ingress"}
        /\ stage = "insert" => pkt[p].at = "init_in_ingress"
        /\ stage = "init_in_ingress" => pkt[p].at = "init_in"
  BY DEF InitIn, At
<1>3. TypePackets' /\ MovesTo(p, stage) /\ Keeps(p) /\ UNCHANGED countVars
  BY <1>2, TypeParts, GotoPacket DEF Stages, LearnStages, Fates
<1>4. TypeCounts'
  BY <1>3, TypeParts DEF TypeCounts, countVars
<1>5. PathOK(p)'
  BY <1>1, <1>2, <1>3, PathDeliver
<1> QED BY <1>1, <1>3, <1>4, <1>5, PathPacket, TypeQuiet

-----------------------------------------------------------------------------
(***************************************************************************)
(* Traffic and the kernel's own path.                                      *)
(***************************************************************************)
LEMMA ArrivedPacket ==
  ASSUME TypeOK, NEW p \in Packets, NEW f \in Flows, NEW dir \in Dirs, NEW tos \in TrafficTOS,
         Arrive(p, f, dir, tos)
  PROVE  /\ TypePackets' /\ TypeCounts' /\ \A q \in Packets \ {p} : pkt'[q] = pkt[q]
         /\ pkt'[p].at \in {"restore", "masq", "stack"} /\ pkt'[p].flow = f /\ pkt'[p].dir = dir
         /\ pkt'[p].at = "restore" => dir = "ingress"
         /\ pkt'[p].at = "masq" => dir = "egress"
         /\ pkt'[p].elem = NoElement /\ ~pkt'[p].rewritten /\ pkt'[p].wired \in {0, wired[LocalOf[f]]}
<1>0. TypePackets /\ TypeCounts /\ tos \in SUBSET Marks
  BY TypeParts
<1> DEFINE at == IF dir = "ingress" THEN "restore"
                 ELSE IF wired[LocalOf[f]] = pod[LocalOf[f]] THEN "masq" ELSE "stack"
           since == IF dir = "ingress" THEN wired[LocalOf[f]] ELSE 0
           new(loc) == [Idle EXCEPT !.flow = f, !.dir = dir, !.tos = tos, !.sum = tos, !.local = loc,
                                    !.wired = since, !.at = at]
<1>1. /\ at \in Stages /\ at \in {"restore", "masq", "stack"}
      /\ (at = "restore" => dir = "ingress") /\ (at = "masq" => dir = "egress")
  BY DEF Stages, MasqStages, RestoreStages, Dirs
<1>2. PICK loc \in BOOLEAN : pkt' = [pkt EXCEPT ![p] = new(loc)] /\ (UNCHANGED faults \/ Fault)
  BY DEF Arrive
<1>3. UNCHANGED moves
  BY DEF Arrive
<1>4. since \in 0..MaxPods /\ since \in {0, wired[LocalOf[f]]}
  BY TypeParts DEF TypeNode
<1> HIDE DEF at, since
<1>5. /\ new(loc) \in PacketSet /\ new(loc).at = at /\ new(loc).flow = f /\ new(loc).dir = dir
      /\ new(loc).elem = NoElement /\ new(loc).rewritten = FALSE /\ new(loc).wired = since
  BY <1>0, <1>1, <1>4, IdlePacket DEF PacketSet
<1> HIDE DEF new
<1>6. TypePackets' /\ Becomes(p, new(loc))
  BY <1>0, <1>2, <1>5, Update
<1>7. TypeCounts'
  BY <1>0, <1>2, <1>3, FaultTypes
<1> QED BY <1>1, <1>4, <1>5, <1>6, <1>7 DEF Becomes

\* A packet arrives.
LEMMA PathArrive ==
  ASSUME TypeOK, PathInv, NEW p \in Packets, NEW f \in Flows, NEW dir \in Dirs, NEW tos \in TrafficTOS,
         Arrive(p, f, dir, tos)
  PROVE  TypeOK' /\ PathInv'
<1>1. UNCHANGED <<mapVars, nodeVars, ct, seen>>
  BY DEF Arrive
<1>2. CachesOK'
  BY <1>1 DEF PathInv, CachesOK, mapVars, nodeVars
<1>3. pkt'[p].wired <= wired'[LocalOf[f]]
  <2>1. wired[LocalOf[f]] \in Nat /\ wired' = wired
    BY <1>1, TypeParts DEF TypeNode, nodeVars
  <2> QED BY <2>1, ArrivedPacket
<1>4. PathOK(p)'
  BY <1>3, ArrivedPacket DEF PathOK, EgressStages, IngressStages, MasqStages, RestoreStages, HostKnown, DeviceKnown
<1> QED BY <1>1, <1>2, <1>4, ArrivedPacket, PathMaps, TypeQuiet

\* A packet leaves, and its slot is free.
LEMMA DepartedPacket ==
  ASSUME TypeOK, NEW p \in Packets, Depart(p)
  PROVE  TypePackets' /\ pkt'[p] = Idle /\ \A q \in Packets \ {p} : pkt'[q] = pkt[q]
BY TypeParts, IdlePacket, Update DEF Depart, Becomes

\* Leaving disturbs nothing.
LEMMA PathDepart ==
  ASSUME TypeOK, PathInv, NEW p \in Packets, Depart(p)
  PROVE  TypeOK' /\ PathInv'
<1>1. UNCHANGED <<mapVars, nodeVars, ct, seen, countVars>>
  BY DEF Depart
<1>2. CachesOK'
  BY <1>1 DEF PathInv, CachesOK, mapVars, nodeVars
<1>3. TypeCounts'
  BY <1>1, TypeParts DEF TypeCounts, countVars
<1>4. Idle.wired <= wired'[LocalOf[Idle.flow]]
  BY <1>1, TypeParts, IdlePacket DEF TypeNode, nodeVars, PacketSet
<1>5. PathOK(p)'
  BY <1>4, DepartedPacket, IdlePacket DEF PathOK, EgressStages, IngressStages, MasqStages, RestoreStages, HostKnown,
     DeviceKnown
<1> QED BY <1>1, <1>2, <1>3, <1>5, DepartedPacket, PathMaps, TypeQuiet

\* Flannel routes an outgoing packet and delivers an incoming one.
LEMMA StackPacket ==
  ASSUME TypeOK, NEW p \in Packets, Stack(p)
  PROVE  /\ TypePackets' /\ \A q \in Packets \ {p} : pkt'[q] = pkt[q]
         /\ pkt'[p].flow = pkt[p].flow /\ pkt'[p].dir = pkt[p].dir
         /\ pkt'[p].elem = pkt[p].elem /\ pkt'[p].rewritten = pkt[p].rewritten
         /\ pkt'[p].wired = pkt[p].wired
         /\ pkt'[p].at \in {"dropped", "init_e", "init_in", "delivered"}
         /\ pkt'[p].at = "init_e" => pkt[p].dir = "egress" /\ pkt'[p].host = route[RemoteAddr(p)]
         /\ pkt'[p].at = "init_in" => pkt[p].dir = "ingress"
<1>0. TypePackets /\ TypeNode
  BY TypeParts
<1>1. /\ pkt[p] \in PacketSet /\ pkt[p].tos \in SUBSET Marks /\ pkt[p].sum \in SUBSET Marks
      /\ pkt[p].dir \in Dirs /\ RemoteAddr(p) \in Remotes
  BY <1>0, PacketTypes
<1>2. CASE pkt' = [pkt EXCEPT ![p].at = "dropped"]
  <2>1. TypePackets' /\ MovesTo(p, "dropped") /\ Keeps(p)
    <3>1. "dropped" \in Stages
      BY DEF Stages, Fates
    <3> QED BY <1>0, <1>2, <3>1, StagePacket
  <2> QED BY <2>1 DEF MovesTo, Keeps
<1>3. CASE pkt' # [pkt EXCEPT ![p].at = "dropped"]
  <2> DEFINE f == pkt[p].flow
             marks == IF "miss" \in pkt[p].tos /\ ct[f] \cup {pkt[p].dir} = Dirs THEN {"est"} ELSE {}
             tos == pkt[p].tos \cup marks
             sum == pkt[p].sum \cup marks
             host == IF pkt[p].dir = "egress" THEN route[RemoteOf[f]] ELSE NoHost
             at == IF pkt[p].dir = "egress" THEN "init_e"
                   ELSE IF wired[LocalOf[f]] = pod[LocalOf[f]] THEN "init_in" ELSE "delivered"
             new == [pkt[p] EXCEPT !.tos = tos, !.sum = sum, !.host = host, !.at = at]
  <2>1. marks \in SUBSET Marks
    BY DEF Marks
  <2>2. host \in Hosts \cup {NoHost} /\ (at = "init_e" => pkt[p].dir = "egress" /\ host = route[RemoteAddr(p)])
    BY <1>0, <1>1 DEF TypeNode, RemoteAddr, Flow
  <2>3. at \in Stages /\ at \in {"init_e", "init_in", "delivered"} /\ (at = "init_in" => pkt[p].dir = "ingress")
    BY <1>1 DEF Stages, LearnStages, Fates, Dirs
  <2>4. pkt' = [pkt EXCEPT ![p].tos = @ \cup marks, ![p].sum = @ \cup marks, ![p].host = host, ![p].at = at]
    BY <1>3 DEF Stack, Flow
  <2> HIDE DEF marks, host, at
  <2>5. pkt' = [pkt EXCEPT ![p] = new]
    BY <1>0, <2>4 DEF TypePackets
  <2>6. tos \in SUBSET Marks /\ sum \in SUBSET Marks
    BY <1>1, <2>1
  <2> HIDE DEF tos, sum
  <2>7. /\ new \in PacketSet /\ new.at = at /\ new.flow = pkt[p].flow /\ new.dir = pkt[p].dir /\ new.wired = pkt[p].wired
        /\ new.host = host /\ new.elem = pkt[p].elem /\ new.rewritten = pkt[p].rewritten
    BY <1>1, <2>2, <2>3, <2>6 DEF PacketSet
  <2> HIDE DEF new
  <2>8. TypePackets' /\ Becomes(p, new)
    BY <1>0, <2>5, <2>7, Update
  <2> QED BY <2>2, <2>3, <2>7, <2>8 DEF Becomes
<1> QED BY <1>2, <1>3

\* The kernel's own stack, between the hooks.
LEMMA PathStackStep ==
  ASSUME TypeOK, PathInv, NEW p \in Packets, Stack(p)
  PROVE  TypeOK' /\ PathInv'
<1>0. TypePackets /\ TypeMaps /\ TypeNode /\ TypeFlows /\ TypeCounts
  BY TypeParts
<1>1. UNCHANGED <<mapVars, nodeVars, seen, countVars>> /\ pkt[p].at = "stack"
  BY DEF Stack, At
<1>2. CachesOK'
  BY <1>1 DEF PathInv, CachesOK, mapVars, nodeVars
<1>3. PathOK(p)'
  <2>1. ~pkt[p].rewritten
    BY <1>1, NotRewritten
  <2>2. RemoteAddr(p) \in Remotes /\ route[RemoteAddr(p)] \in homes[RemoteAddr(p)] /\ homes' = homes
    BY <1>0, <1>1, PacketTypes DEF PathInv, CachesOK, nodeVars
  <2>3. pkt[p].wired <= wired'[LocalOf[pkt[p].flow]]
    BY <1>1 DEF PathInv, PathOK, nodeVars
  <2> QED BY <2>1, <2>2, <2>3, StackPacket DEF PathOK, EgressStages, IngressStages, MasqStages, RestoreStages,
             HostKnown, DeviceKnown, RemoteAddr, Flow
<1>4. ct' \in [Flows -> SUBSET Dirs]
  <2>1. Flow(p) \in Flows /\ pkt[p].dir \in Dirs /\ ct \in [Flows -> SUBSET Dirs]
    BY <1>0, PacketTypes DEF TypeFlows
  <2>2. ct' = ct \/ ct' = [ct EXCEPT ![Flow(p)] = ct[Flow(p)] \cup {pkt[p].dir}]
    BY DEF Stack
  <2> QED BY <2>1, <2>2
<1>5. TypeMaps' /\ TypeNode' /\ TypeFlows' /\ TypeCounts'
  <2>1. TypeMaps'
    BY <1>0, <1>1 DEF TypeMaps, mapVars
  <2>2. TypeNode'
    BY <1>1, NodeFrame
  <2> QED BY <2>1, <2>2, <1>0, <1>1, <1>4 DEF TypeFlows, TypeCounts, countVars
<1> QED BY <1>1, <1>2, <1>3, <1>5, StackPacket, PathMaps, TypeJoin

-----------------------------------------------------------------------------
(***************************************************************************)
(* The agent and the rest of the node.                                     *)
(***************************************************************************)

\* No packet is touched: the caches are all there is to look at.
LEMMA PathQuiet ==
  ASSUME TypeOK, PathInv, UNCHANGED pkt, Grows, CachesOK'
  PROVE  PathInv'
BY PathFrame, TypeParts DEF PathInv

\* The agent publishes or disables the control entry, or time passes.
LEMMA PathControl ==
  ASSUME TypeOK, PathInv, Disable \/ Publish \/ Tick
  PROVE  TypeOK' /\ PathInv'
<1>0. TypePackets /\ TypeMaps /\ TypeNode /\ TypeFlows /\ TypeCounts
  BY TypeParts
<1>1. UNCHANGED <<mapVars, wired, pod, route, homes, ct, seen, pkt, moves>>
  BY DEF Disable, Publish, Tick, countVars
<1>2. control' \in [abi : {0, 1}, enabled : BOOLEAN, force : BOOLEAN, hb : 0..MaxTime, timeout : {0, Timeout}]
  <2>1. control \in [abi : {0, 1}, enabled : BOOLEAN, force : BOOLEAN, hb : 0..MaxTime, timeout : {0, Timeout}]
    BY <1>0 DEF TypeNode
  <2>2. CASE Disable
    BY <2>1, <2>2 DEF Disable
  <2>3. CASE Publish
    <3>1. PICK h \in Heartbeats, force \in ForceFlags :
            control' = [control EXCEPT !.enabled = TRUE, !.hb = h, !.timeout = Timeout, !.force = force]
      BY <2>3 DEF Publish
    <3>2. h \in 0..MaxTime /\ force \in BOOLEAN
      OBVIOUS
    <3> QED BY <2>1, <3>1, <3>2
  <2>4. CASE Tick
    BY <2>1, <2>4 DEF Tick
  <2> QED BY <2>2, <2>3, <2>4
<1>3. now' \in 0..MaxTime
  <2>1. now \in 0..MaxTime /\ MaxTime \in Nat
    BY <1>0 DEF TypeNode
  <2>2. now' = now \/ (now < MaxTime /\ now' = now + 1)
    BY DEF Disable, Publish, Tick
  <2> QED BY <2>1, <2>2
<1>4. TypeCounts'
  <2>1. UNCHANGED moves /\ (UNCHANGED faults \/ Fault)
    BY DEF Disable, Publish, Tick, countVars
  <2> QED BY <1>0, <2>1, FaultTypes
<1>5. TypeNode' /\ Grows
  BY <1>0, <1>1, <1>2, <1>3 DEF TypeNode, Grows
<1>6. TypePackets' /\ TypeMaps' /\ TypeFlows'
  <2>1. TypeMaps'
    BY <1>0, <1>1 DEF TypeMaps, mapVars
  <2> QED BY <2>1, <1>0, <1>1 DEF TypePackets, TypeFlows
<1>7. CachesOK'
  BY <1>1 DEF PathInv, CachesOK, mapVars
<1> QED BY <1>1, <1>4, <1>5, <1>6, <1>7, PathQuiet, TypeJoin

\* The agent writes the veth of the pod that has the address.
LEMMA PathWire ==
  ASSUME TypeOK, PathInv, NEW l \in Locals, Wire(l)
  PROVE  TypeOK' /\ PathInv'
<1>0. TypePackets /\ TypeMaps /\ TypeNode /\ TypeFlows /\ TypeCounts
  BY TypeParts
<1>1. UNCHANGED <<policyAt, ready, egressip, egress, control, now, pod, route, homes, ct, seen, pkt, countVars>>
  BY DEF Wire
<1>2. pod[l] \in 1..MaxPods
  BY <1>0 DEF TypeNode, Wire
<1> DEFINE new == VethOf(l, pod[l])
<1>3. new \in Veths \cup {NoDevice}
  BY <1>2 DEF VethOf, Veths
<1>4. ingress' = [ingress EXCEPT ![l] = new] /\ devmap' = TRUE /\ wired' = [wired EXCEPT ![l] = pod[l]]
  BY DEF Wire
<1> HIDE DEF new
<1>5. ingress \in [Locals -> Veths \cup {NoDevice}] /\ wired \in [Locals -> 0..MaxPods]
  BY <1>0 DEF TypeMaps, TypeNode
<1>6. TypeMaps'
  <2>1. ingress' \in [Locals -> Veths \cup {NoDevice}]
    BY <1>3, <1>4, <1>5
  <2>2. devmap' \in BOOLEAN
    BY <1>4
  <2> QED BY <1>0, <1>1, <2>1, <2>2 DEF TypeMaps
<1>7. wired' \in [Locals -> 0..MaxPods] /\ \A m \in Locals : wired[m] <= wired'[m] /\ wired'[m] <= pod[m]
  BY <1>2, <1>4, <1>5, <1>0 DEF PathInv, CachesOK, TypeNode
<1>8. TypeNode' /\ Grows
  BY <1>0, <1>1, <1>5, <1>7 DEF TypeNode, Grows
<1>9. TypePackets' /\ TypeFlows' /\ TypeCounts'
  BY <1>0, <1>1 DEF TypePackets, TypeFlows, TypeCounts, countVars
<1>10. CachesOK'
  <2>1. \A m \in Locals : ingress'[m] \in {NoDevice, VethOf(m, wired'[m])}
    BY <1>4, <1>5 DEF PathInv, CachesOK, new
  <2> QED BY <1>1, <1>7, <2>1 DEF PathInv, CachesOK
<1> QED BY <1>1, <1>6, <1>8, <1>9, <1>10, PathQuiet, TypeJoin

\* Eviction takes entries away and adds none.
LEMMA PathEvict ==
  ASSUME TypeOK, PathInv, Evict
  PROVE  TypeOK' /\ PathInv'
<1>0. TypePackets /\ TypeMaps /\ TypeNode /\ TypeFlows /\ TypeCounts
  BY TypeParts
<1>1. UNCHANGED <<ready, nodeVars, ct, seen, pkt, moves>> /\ Fault
  BY DEF Evict
<1>2. policyAt' \in [Flows -> Elements \cup {NoElement}]
  BY <1>0 DEF TypeMaps, Evict
<1>3. /\ egressip' \in [Remotes -> Hosts \cup {NoHost}]
      /\ \A r \in Remotes : egressip'[r] # NoHost => egressip'[r] = egressip[r]
  BY <1>0 DEF TypeMaps, Evict
<1>4. egress' \subseteq Hosts /\ devmap' \in BOOLEAN
  BY <1>0 DEF TypeMaps, Evict
<1>5. /\ ingress' \in [Locals -> Veths \cup {NoDevice}]
      /\ \A l \in Locals : ingress'[l] \in {NoDevice, ingress[l]}
  <2>1. ingress \in [Locals -> Veths \cup {NoDevice}]
    BY <1>0 DEF TypeMaps
  <2>2. ingress' = ingress \/ \E l \in Locals : ingress' = [ingress EXCEPT ![l] = NoDevice]
    BY DEF Evict
  <2> QED BY <2>1, <2>2
<1>6. TypeMaps'
  BY <1>0, <1>1, <1>2, <1>3, <1>4, <1>5 DEF TypeMaps
<1>7. TypeNode' /\ Grows
  BY <1>1, NodeFrame
<1>8. TypePackets' /\ TypeFlows' /\ TypeCounts'
  BY <1>0, <1>1, FaultTypes DEF TypePackets, TypeFlows
<1>9. CachesOK'
  <2>1. CachesOK /\ UNCHANGED <<route, homes, pod, wired>>
    BY <1>1 DEF PathInv, nodeVars
  <2>2. \A r \in Remotes : /\ egressip'[r] # NoHost => egressip'[r] \in homes'[r]
                           /\ route'[r] \in homes'[r]
    BY <1>3, <2>1 DEF CachesOK
  <2>3. \A l \in Locals : ingress'[l] \in {NoDevice, VethOf(l, wired'[l])} /\ wired'[l] <= pod'[l]
    BY <1>5, <2>1 DEF CachesOK
  <2> QED BY <2>2, <2>3 DEF CachesOK
<1> QED BY <1>1, <1>6, <1>7, <1>8, <1>9, PathQuiet, TypeJoin

\* What an address has had is remembered when it moves.
LEMMA PathMove ==
  ASSUME TypeOK, PathInv, Move
  PROVE  TypeOK' /\ PathInv'
<1>0. TypePackets /\ TypeMaps /\ TypeNode /\ TypeFlows /\ TypeCounts
  BY TypeParts
<1>1. UNCHANGED <<mapVars, control, now, wired, ct, seen, pkt, faults>> /\ moves < MaxMoves /\ moves' = moves + 1
  BY DEF Move
<1>2. /\ route' \in [Remotes -> Hosts] /\ homes' \in [Remotes -> SUBSET Hosts]
      /\ \A r \in Remotes : route'[r] \in homes'[r] /\ homes[r] \subseteq homes'[r]
  BY <1>0 DEF TypeNode, PathInv, CachesOK, Move
<1>3. pod' \in [Locals -> 0..MaxPods] /\ \A l \in Locals : pod[l] <= pod'[l]
  BY <1>0 DEF TypeNode, Move
<1>4. TypeNode' /\ Grows
  BY <1>0, <1>1, <1>2, <1>3 DEF TypeNode, Grows
<1>5. TypePackets' /\ TypeMaps' /\ TypeFlows' /\ TypeCounts'
  <2>1. TypeMaps'
    BY <1>0, <1>1 DEF TypeMaps, mapVars
  <2> QED BY <2>1, <1>0, <1>1 DEF TypePackets, TypeFlows, TypeCounts
<1>6. CachesOK'
  <2>1. \A l \in Locals : wired[l] <= pod'[l]
    BY <1>0, <1>3 DEF PathInv, CachesOK, TypeNode
  <2> QED BY <1>1, <1>2, <2>1 DEF PathInv, CachesOK, mapVars
<1> QED BY <1>1, <1>4, <1>5, <1>6, PathQuiet, TypeJoin

\* Every step.
LEMMA PathNext == TypeOK /\ PathInv /\ [Next]_vars => TypeOK' /\ PathInv'
<1> SUFFICES ASSUME TypeOK, PathInv, [Next]_vars PROVE TypeOK' /\ PathInv'
  OBVIOUS
<1>1. CASE UNCHANGED vars
  <2>1. TypeOK'
    BY <1>1 DEF vars, mapVars, nodeVars, countVars, TypeOK
  <2>2. UNCHANGED pkt /\ UNCHANGED <<mapVars, nodeVars>>
    BY <1>1 DEF vars
  <2>3. CachesOK'
    BY <2>2 DEF PathInv, CachesOK, mapVars, nodeVars
  <2> QED BY <2>1, <2>2, <2>3, PathQuiet, NodeFrame
<1>2. ASSUME NEW p \in Packets, PacketStep(p) PROVE TypeOK' /\ PathInv'
  BY <1>2, PathGate, PathMasqLookup, PathMasqEncap, PathRestoreLookup, PathRestoreDecap, PathInitE, PathInitIn,
     PathPolicyInsert, PathPolicyLookup, PathPolicyMark, PathLearnHeaders, PathClearMarks, PathStackStep, PathDepart
     DEF PacketStep, tc_masq, tc_restore, Learn
<1>3. ASSUME NEW p \in Packets, Traffic(p) PROVE TypeOK' /\ PathInv'
  BY <1>3, PathArrive DEF Traffic
<1>4. CASE Disable \/ Publish \/ Tick
  BY <1>4, PathControl
<1>5. ASSUME NEW l \in Locals, Wire(l) PROVE TypeOK' /\ PathInv'
  BY <1>5, PathWire
<1>6. CASE Evict
  BY <1>6, PathEvict
<1>7. CASE Move
  BY <1>7, PathMove
<1> QED BY <1>1, <1>2, <1>3, <1>4, <1>5, <1>6, <1>7 DEF Next

\* In every reachable state.
LEMMA Reachable == Spec => [](TypeOK /\ PathInv)
BY TypeInit, PathInit, PathNext, PTL DEF Spec

\* Every variable keeps its type: the maps of bpf/tc_prog_kern.c hold what the
\* programs expect to find in them.
THEOREM TypeCorrect == Spec => []TypeOK
BY Reachable, PTL

\* What fails after bpf_skb_adjust_room drops the packet: a rewritten packet is
\* never left to Flannel and never delivered.
THEOREM NeverHalfRewritten == Spec => []NoHalfRewrite
<1>1. TypeOK /\ PathInv => NoHalfRewrite
  BY DEF PathInv, PathOK, NoHalfRewrite
<1> QED BY <1>1, Reachable, PTL

\* tc_masq sends a packet only to a host Flannel sends or has sent packets of
\* its address to, whatever was evicted, moved or rewired meanwhile.
THEOREM FollowsFlannel == Spec => []RedirectFollowsFlannel
<1>1. TypeOK /\ PathInv => RedirectFollowsFlannel
  BY DEF PathInv, PathOK, RedirectFollowsFlannel, At, HostKnown, RemoteAddr, Flow
<1> QED BY <1>1, Reachable, PTL

\* tc_restore never hands a packet to the veth of a pod that the agent had
\* replaced in ingress_cache before the packet came, however often an address
\* is reused.
THEOREM FindsPod == Spec => []RedirectFindsPod
<1>1. TypeOK /\ PathInv => RedirectFindsPod
  BY DEF PathInv, PathOK, RedirectFindsPod, At, DeviceKnown, OwnVeth, LocalAddr, Flow
<1> QED BY <1>1, Reachable, PTL

-----------------------------------------------------------------------------
(***************************************************************************)
(* Both directions are learned before a packet takes the fast path, if the *)
(* kernel does not reuse an element while a program still points to it.    *)
(***************************************************************************)

\* The stages after the lookup in policy_cache that found both ready bits.
FastStages == {"masq_egressip", "masq_egress", "masq_ingress", "masq_encap", "masq_store",
               "restore_ingress", "restore_egressip", "restore_decap", "restore_store", "redirected"}

\* Of one packet: what it may rely on, and what its pointer points to.  The
\* last conjunct is what BPF_NOEXIST and the grace period buy: the element may
\* have been evicted, but it is not another flow's.
ApprovedOK(p) ==
    /\ pkt[p].at \in FastStages => seen[pkt[p].flow] = Dirs
    /\ pkt[p].at \in {"lookup", "mark"} => pkt[p].dir \in seen[pkt[p].flow]
    /\ pkt[p].elem # NoElement => pkt[p].at = "mark"
    /\ \A f \in Flows : pkt[p].elem # NoElement /\ policyAt[f] = pkt[p].elem => f = pkt[p].flow

\* No two flows share an element, and its ready bits were learned.
ElementsOK ==
    /\ \A f, g \in Flows : policyAt[f] = policyAt[g] /\ policyAt[f] # NoElement => f = g
    /\ \A f \in Flows : policyAt[f] # NoElement => ready[policyAt[f]] \subseteq seen[f]

\* The invariant behind RedirectOnlyApproved.
ApprovedInv == ElementsOK /\ \A p \in Packets : ApprovedOK(p)

\* Initially no element is in use and no packet in flight.
LEMMA ApprovedInit == Init => ApprovedInv
<1> SUFFICES ASSUME Init PROVE ApprovedInv
  OBVIOUS
<1>1. ElementsOK
  BY DEF Init, ElementsOK
<1>2. ASSUME NEW p \in Packets PROVE ApprovedOK(p)
  <2>1. pkt[p] = Idle
    BY DEF Init
  <2> QED BY <2>1, IdlePacket DEF ApprovedOK, FastStages
<1> QED BY <1>1, <1>2 DEF ApprovedInv

\* A packet with both ready bits set has been learned in both directions.
LEMMA ReadyIsSeen ==
  ASSUME TypeOK, ApprovedInv, NEW f \in Flows, BothReady(f)
  PROVE  seen[f] = Dirs
<1>1. seen[f] \in SUBSET Dirs
  BY TypeParts DEF TypeFlows
<1> QED BY <1>1 DEF ApprovedInv, ElementsOK, BothReady

\* A packet goes on to another stage; the policy cache is not touched.
LEMMA ApprovedMove ==
  ASSUME TypeOK, ApprovedInv, NEW p \in Packets, NEW stage, MovesTo(p, stage), pkt'[p].elem = pkt[p].elem,
         UNCHANGED <<policyAt, ready, seen>>, pkt[p].at # "mark", stage \notin {"lookup", "mark"},
         stage \in FastStages => pkt[p].at \in FastStages \/ BothReady(Flow(p))
  PROVE  ApprovedInv'
<1>1. ElementsOK'
  BY DEF ApprovedInv, ElementsOK
<1>2. Flow(p) \in Flows
  BY TypeParts, PacketTypes
<1>3. ApprovedOK(p)'
  BY <1>2, ReadyIsSeen DEF ApprovedInv, ApprovedOK, MovesTo, Flow
<1>4. \A q \in Packets \ {p} : ApprovedOK(q)'
  BY DEF ApprovedInv, ApprovedOK, MovesTo
<1> QED BY <1>1, <1>3, <1>4 DEF ApprovedInv

\* The same, if no packet changes.
LEMMA ApprovedQuiet ==
  ASSUME ApprovedInv, UNCHANGED <<policyAt, ready, seen, pkt>>
  PROVE  ApprovedInv'
BY DEF ApprovedInv, ElementsOK, ApprovedOK

\* A step to the stack or on to the next lookup.
LEMMA ApprovedGoto ==
  ASSUME TypeOK, ApprovedInv, NEW p \in Packets, NEW stage \in Stages,
         \/ Goto(p, stage)
         \/ stage = "stack" /\ Miss(p)
         \/ pkt' = [pkt EXCEPT ![p].at = stage],
         UNCHANGED <<policyAt, ready, seen>>, pkt[p].at # "mark", stage \notin {"lookup", "mark"},
         stage \in FastStages => pkt[p].at \in FastStages \/ BothReady(Flow(p))
  PROVE  ApprovedInv'
<1>0. TypePackets /\ TypeCounts
  BY TypeParts
<1>1. MovesTo(p, stage) /\ Keeps(p)
  <2>1. CASE Goto(p, stage)
    BY <1>0, <2>1, GotoPacket
  <2>2. CASE stage = "stack" /\ Miss(p)
    <3>1. pkt[p].tos \cup {"miss"} \in SUBSET Marks
      BY <1>0, PacketTypes DEF Marks
    <3> QED BY <1>0, <2>2, <3>1, SetTOSPacket DEF Miss
  <2>3. CASE pkt' = [pkt EXCEPT ![p].at = stage]
    BY <1>0, <2>3, StagePacket
  <2> QED BY <2>1, <2>2, <2>3
<1> QED BY <1>1, ApprovedMove DEF Keeps

\* tc_masq and tc_restore: policy_cache is only read.
LEMMA ApprovedGate ==
  ASSUME TypeOK, ApprovedInv, NEW p \in Packets,
         Gate(p, "masq", "masq_policy", "stack") \/ Gate(p, "restore", "restore_dev", "stack")
  PROVE  ApprovedInv'
<1>1. UNCHANGED <<policyAt, ready, seen>> /\ pkt[p].at # "mark"
  BY DEF Gate, At, mapVars
<1>2. \E stage \in {"stack", "masq_policy", "restore_dev"} : Goto(p, stage)
  BY DEF Gate
<1> QED BY <1>1, <1>2, ApprovedGoto DEF Stages, MasqStages, RestoreStages, FastStages

\* The element the egress fast path holds has been marked for the flow of the
\* packet.
LEMMA ApprovedMasqLookup ==
  ASSUME TypeOK, ApprovedInv, NEW p \in Packets, MasqLookup(p)
  PROVE  ApprovedInv'
<1>0. TypePackets
  BY TypeParts
<1>1. UNCHANGED <<policyAt, ready, seen>> /\ pkt[p].at # "mark"
  BY DEF MasqLookup, At, mapVars
<1>2. CASE /\ pkt[p].at = "masq_egressip"
           /\ pkt' = [pkt EXCEPT ![p].host = egressip[RemoteAddr(p)], ![p].at = "masq_egress"]
  <2>1. MovesTo(p, "masq_egress") /\ pkt'[p].elem = pkt[p].elem
    BY <1>0, <1>2 DEF MovesTo, TypePackets, PacketSet
  <2> QED BY <1>1, <1>2, <2>1, ApprovedMove DEF FastStages
<1>3. CASE \/ Goto(p, "stack") \/ Miss(p)
           \/ pkt[p].at = "masq_policy" /\ BothReady(Flow(p)) /\ Goto(p, "masq_egressip")
           \/ pkt[p].at = "masq_egress" /\ Goto(p, "masq_ingress")
           \/ pkt[p].at = "masq_ingress" /\ Goto(p, "masq_encap")
  BY <1>1, <1>3, ApprovedGoto DEF Stages, MasqStages, FastStages
<1> QED BY <1>2, <1>3 DEF MasqLookup, At

\* So has the one of the ingress fast path.
LEMMA ApprovedRestoreLookup ==
  ASSUME TypeOK, ApprovedInv, NEW p \in Packets, RestoreLookup(p)
  PROVE  ApprovedInv'
<1>0. TypePackets
  BY TypeParts
<1>1. UNCHANGED <<policyAt, ready, seen>> /\ pkt[p].at # "mark"
  BY DEF RestoreLookup, At, mapVars
<1>2. CASE /\ pkt[p].at = "restore_ingress"
           /\ pkt' = [pkt EXCEPT ![p].dev = ingress[LocalAddr(p)], ![p].at = "restore_egressip"]
  <2>1. MovesTo(p, "restore_egressip") /\ pkt'[p].elem = pkt[p].elem
    BY <1>0, <1>2 DEF MovesTo, TypePackets, PacketSet
  <2> QED BY <1>1, <1>2, <2>1, ApprovedMove DEF FastStages
<1>3. CASE \/ Goto(p, "stack") \/ Miss(p)
           \/ Goto(p, "restore_policy")
           \/ pkt[p].at = "restore_policy" /\ BothReady(Flow(p)) /\ Goto(p, "restore_ingress")
           \/ pkt[p].at = "restore_egressip" /\ Goto(p, "restore_decap")
  BY <1>1, <1>3, ApprovedGoto DEF Stages, RestoreStages, FastStages
<1> QED BY <1>2, <1>3 DEF RestoreLookup, At

\* Rewriting looks at no element.
LEMMA ApprovedRewrite ==
  ASSUME TypeOK, ApprovedInv, NEW p \in Packets, MasqEncap(p) \/ RestoreDecap(p)
  PROVE  ApprovedInv'
<1>0. TypePackets
  BY TypeParts
<1>1. /\ UNCHANGED <<policyAt, ready, seen>>
      /\ pkt[p].at \in {"masq_encap", "masq_store", "restore_decap", "restore_store"}
  BY DEF MasqEncap, RestoreDecap, At, mapVars
<1>2. pkt[p].at # "mark" /\ pkt[p].at \in FastStages
  BY <1>1 DEF FastStages
<1>3. ASSUME NEW stage \in {"masq_store", "restore_store"},
             pkt' = [pkt EXCEPT ![p].rewritten = TRUE, ![p].at = stage]
      PROVE  ApprovedInv'
  <2>1. MovesTo(p, stage) /\ pkt'[p].elem = pkt[p].elem
    BY <1>0, <1>3 DEF MovesTo, TypePackets, PacketSet
  <2> QED BY <1>1, <1>2, <2>1, ApprovedMove
<1>4. CASE pkt' = [pkt EXCEPT ![p].dev = Underlay, ![p].at = "redirected"]
  <2>1. MovesTo(p, "redirected") /\ pkt'[p].elem = pkt[p].elem
    BY <1>0, <1>4 DEF MovesTo, TypePackets, PacketSet
  <2> QED BY <1>1, <1>2, <2>1, ApprovedMove
<1>5. ASSUME NEW stage \in {"stack", "dropped", "redirected"}, pkt' = [pkt EXCEPT ![p].at = stage]
      PROVE  ApprovedInv'
  BY <1>1, <1>2, <1>5, ApprovedGoto DEF Stages, Fates
<1> QED BY <1>3, <1>4, <1>5 DEF MasqEncap, RestoreDecap

\* The insert takes an element that no flow has and, since the kernel waits
\* for the programs, that no program points to.
LEMMA ApprovedInsert ==
  ASSUME ~Recycling, TypeOK, ApprovedInv, NEW p \in Packets, PolicyInsert(p)
  PROVE  ApprovedInv'
<1>0. TypePackets /\ TypeMaps /\ TypeFlows
  BY TypeParts
<1> DEFINE fl == pkt[p].flow
           d == pkt[p].dir
<1>1. fl \in Flows /\ d \in Dirs /\ pkt[p].at = "insert" /\ pkt[p].elem = NoElement
  BY <1>0, PacketTypes DEF PolicyInsert, At, Flow, ApprovedInv, ApprovedOK
<1>2. PICK stage \in Stages : Goto(p, stage) /\ (stage \in {"learn_egress", "clear"} \/ stage = "lookup")
  BY AfterPolicyStage DEF PolicyInsert, Stages, LearnStages
<1>3. MovesTo(p, stage) /\ Keeps(p)
  BY <1>0, <1>2, GotoPacket
<1>4. seen' = [seen EXCEPT ![fl] = @ \cup {d}] /\ seen \in [Flows -> SUBSET Dirs]
  BY <1>0 DEF PolicyInsert, Flow, TypeFlows
<1>5. d \in seen'[fl] /\ \A f \in Flows : seen[f] \subseteq seen'[f] /\ seen'[f] \subseteq Dirs
  BY <1>1, <1>4
<1>6. \/ UNCHANGED <<policyAt, ready>>
      \/ \E e \in Elements : /\ \A f \in Flows : policyAt[f] # e
                             /\ \A q \in Packets : pkt[q].elem # e
                             /\ policyAt[fl] = NoElement
                             /\ policyAt' = [policyAt EXCEPT ![fl] = e]
                             /\ ready' = [ready EXCEPT ![e] = {d}]
  BY DEF PolicyInsert, FreeElements, Flow
<1>7. ElementsOK'
  <2>1. CASE UNCHANGED <<policyAt, ready>>
    BY <1>5, <2>1 DEF ApprovedInv, ElementsOK
  <2>2. ASSUME NEW e \in Elements, \A f \in Flows : policyAt[f] # e,
               policyAt' = [policyAt EXCEPT ![fl] = e], ready' = [ready EXCEPT ![e] = {d}]
        PROVE  ElementsOK'
    <3>1. policyAt \in [Flows -> Elements \cup {NoElement}] /\ ready \in [Elements -> SUBSET Dirs]
      BY <1>0 DEF TypeMaps
    <3>2. policyAt'[fl] = e /\ \A f \in Flows \ {fl} : policyAt'[f] = policyAt[f]
      BY <1>1, <2>2, <3>1
    <3>3. ready'[e] = {d} /\ \A x \in Elements \ {e} : ready'[x] = ready[x]
      BY <2>2, <3>1
    <3>4. \A f, g \in Flows : policyAt'[f] = policyAt'[g] /\ policyAt'[f] # NoElement => f = g
      BY <2>2, <3>2 DEF ApprovedInv, ElementsOK
    <3>5. ASSUME NEW f \in Flows, policyAt'[f] # NoElement PROVE ready'[policyAt'[f]] \subseteq seen'[f]
      <4>1. CASE f = fl
        BY <1>5, <3>2, <3>3, <4>1
      <4>2. CASE f # fl
        <5>1. policyAt'[f] = policyAt[f] /\ policyAt[f] \in Elements \ {e}
          BY <2>2, <3>1, <3>2, <3>5, <4>2
        <5> QED BY <1>5, <3>3, <5>1 DEF ApprovedInv, ElementsOK
      <4> QED BY <4>1, <4>2
    <3> QED BY <3>4, <3>5 DEF ElementsOK
  <2> QED BY <1>6, <2>1, <2>2
<1>8. ASSUME NEW q \in Packets, NEW f \in Flows, pkt[q].elem # NoElement, policyAt'[f] = pkt[q].elem
      PROVE  f = pkt[q].flow
  <2>1. policyAt \in [Flows -> Elements \cup {NoElement}]
    BY <1>0 DEF TypeMaps
  <2>2. policyAt[f] = pkt[q].elem
    BY <1>1, <1>6, <1>8, <2>1
  <2> QED BY <1>8, <2>2 DEF ApprovedInv, ApprovedOK
<1>9. ApprovedOK(p)'
  BY <1>1, <1>2, <1>3, <1>5 DEF ApprovedOK, MovesTo, Keeps, FastStages
<1>10. ASSUME NEW q \in Packets \ {p} PROVE ApprovedOK(q)'
  <2>1. pkt'[q] = pkt[q] /\ pkt[q].flow \in Flows /\ ApprovedOK(q)
    BY <1>0, <1>3, PacketTypes DEF MovesTo, ApprovedInv, Flow
  <2>2. seen[pkt[q].flow] \subseteq seen'[pkt[q].flow] /\ seen'[pkt[q].flow] \subseteq Dirs
    BY <1>5, <2>1
  <2> QED BY <1>8, <2>1, <2>2 DEF ApprovedOK
<1> QED BY <1>7, <1>9, <1>10 DEF ApprovedInv

\* The element found belongs to the flow.
LEMMA ApprovedLookup ==
  ASSUME TypeOK, ApprovedInv, NEW p \in Packets, PolicyLookup(p)
  PROVE  ApprovedInv'
<1>0. TypePackets /\ TypeMaps
  BY TypeParts
<1>1. PICK stage \in Stages :
        /\ stage = IF policyAt[Flow(p)] = NoElement THEN AfterPolicy(p) ELSE "mark"
        /\ MovesTo(p, stage) /\ pkt'[p].elem = policyAt[Flow(p)]
  BY LookupPacket
<1>2. UNCHANGED <<policyAt, ready, seen>> /\ pkt[p].at = "lookup"
  BY DEF PolicyLookup, At, mapVars
<1>3. pkt[p].flow \in Flows /\ ApprovedOK(p) /\ AfterPolicy(p) \in {"learn_egress", "clear"}
  BY <1>0, PacketTypes, AfterPolicyStage DEF ApprovedInv, Flow
<1>4. ElementsOK'
  BY <1>2 DEF ApprovedInv, ElementsOK
<1>5. ApprovedOK(p)'
  <2>1. stage \notin FastStages /\ (pkt'[p].elem # NoElement => stage = "mark")
    BY <1>1, <1>3 DEF FastStages
  <2>2. \A f \in Flows : pkt'[p].elem # NoElement /\ policyAt[f] = pkt'[p].elem => f = pkt[p].flow
    BY <1>1, <1>3 DEF ApprovedInv, ElementsOK, Flow
  <2>3. pkt[p].dir \in seen[pkt[p].flow]
    BY <1>2, <1>3 DEF ApprovedOK
  <2> QED BY <1>1, <1>2, <2>1, <2>2, <2>3 DEF ApprovedOK, MovesTo
<1>6. \A q \in Packets \ {p} : ApprovedOK(q)'
  BY <1>1, <1>2 DEF ApprovedInv, ApprovedOK, MovesTo
<1> QED BY <1>4, <1>5, <1>6 DEF ApprovedInv

\* The bit goes to the flow's own element, or to one that no flow has.
LEMMA ApprovedMark ==
  ASSUME TypeOK, ApprovedInv, NEW p \in Packets, PolicyMark(p)
  PROVE  ApprovedInv'
<1>0. TypePackets /\ TypeMaps
  BY TypeParts
<1>1. MovesTo(p, AfterPolicy(p)) /\ pkt'[p].elem = NoElement
  BY MarkPacket
<1>2. UNCHANGED <<policyAt, seen>> /\ pkt[p].at = "mark"
  BY DEF PolicyMark, At
<1>3. AfterPolicy(p) \in {"learn_egress", "clear"} /\ ApprovedOK(p)
  BY AfterPolicyStage DEF ApprovedInv
<1>4. ASSUME NEW f \in Flows, policyAt[f] # NoElement PROVE ready'[policyAt[f]] \subseteq seen[f]
  <2>1. ready \in [Elements -> SUBSET Dirs] /\ policyAt[f] \in Elements
    BY <1>0, <1>4 DEF TypeMaps
  <2>2. ready' = [ready EXCEPT ![pkt[p].elem] = @ \cup {pkt[p].dir}]
    BY DEF PolicyMark
  <2>3. ready[policyAt[f]] \subseteq seen[f]
    BY <1>4 DEF ApprovedInv, ElementsOK
  <2>4. CASE policyAt[f] = pkt[p].elem
    <3>1. pkt[p].dir \in seen[f]
      BY <1>2, <1>3, <1>4, <2>4 DEF ApprovedOK
    <3> QED BY <2>1, <2>2, <2>3, <2>4, <3>1
  <2>5. CASE policyAt[f] # pkt[p].elem
    BY <2>1, <2>2, <2>3, <2>5
  <2> QED BY <2>4, <2>5
<1>5. ElementsOK'
  BY <1>2, <1>4 DEF ApprovedInv, ElementsOK
<1>6. ApprovedOK(p)'
  BY <1>1, <1>3 DEF ApprovedOK, MovesTo, FastStages
<1>7. \A q \in Packets \ {p} : ApprovedOK(q)'
  BY <1>1, <1>2 DEF ApprovedInv, ApprovedOK, MovesTo
<1> QED BY <1>5, <1>6, <1>7 DEF ApprovedInv

\* The rest of the learning programs, Flannel's path and the traffic.
LEMMA ApprovedLearnRest ==
  ASSUME TypeOK, ApprovedInv, NEW p \in Packets, InitE(p) \/ InitIn(p) \/ LearnHeaders(p) \/ ClearMarks(p)
  PROVE  ApprovedInv'
<1>1. /\ UNCHANGED <<policyAt, ready, seen>>
      /\ pkt[p].at \in {"init_e", "init_in", "init_in_ingress", "learn_egress", "learn_egressip", "clear"}
  BY DEF InitE, InitIn, LearnHeaders, ClearMarks, At, mapVars
<1>2. CASE ClearMarks(p)
  <2>1. TypePackets /\ TypeCounts /\ "delivered" \in Stages /\ SetTOS(p, {}, "delivered")
    BY <1>2, TypeParts DEF ClearMarks, Stages, Fates
  <2>2. MovesTo(p, "delivered") /\ Keeps(p)
    BY <2>1, SetTOSPacket
  <2> QED BY <1>1, <2>2, ApprovedMove DEF Keeps, FastStages
<1>3. CASE InitE(p) \/ InitIn(p) \/ LearnHeaders(p)
  <2>1. \E stage \in {"insert", "delivered", "init_in_ingress", "learn_egressip", "clear"} : Goto(p, stage)
    BY <1>3 DEF InitE, InitIn, LearnHeaders
  <2> QED BY <1>1, <2>1, ApprovedGoto DEF Stages, LearnStages, Fates, FastStages
<1> QED BY <1>2, <1>3

\* Packets that come and go.
LEMMA ApprovedTraffic ==
  ASSUME TypeOK, ApprovedInv, NEW p \in Packets, Stack(p) \/ Depart(p) \/ Traffic(p)
  PROVE  ApprovedInv'
<1>1. policyAt' = policyAt /\ ready' = ready /\ seen' = seen
  <2>1. Stack(p) => UNCHANGED <<mapVars, seen>>
    BY Zenon DEF Stack
  <2>2. Depart(p) => UNCHANGED <<mapVars, seen>>
    BY Zenon DEF Depart
  <2>3. ASSUME NEW f \in Flows, NEW dir \in Dirs, NEW tos \in TrafficTOS, Arrive(p, f, dir, tos)
        PROVE  UNCHANGED <<mapVars, seen>>
    BY <2>3, Zenon DEF Arrive
  <2>4. UNCHANGED <<mapVars, seen>>
    BY <2>1, <2>2, <2>3, Zenon DEF Traffic
  <2> QED BY <2>4 DEF mapVars
<1>2. ElementsOK'
  BY <1>1 DEF ApprovedInv, ElementsOK
<1>3. pkt[p].at # "mark" /\ ApprovedOK(p)
  BY DEF Stack, Depart, Traffic, Arrive, At, Fates, ApprovedInv
<1>4. /\ \A q \in Packets \ {p} : pkt'[q] = pkt[q]
      /\ pkt'[p].elem = NoElement /\ pkt'[p].at \notin FastStages /\ pkt'[p].at \notin {"lookup", "mark"}
  <2>1. CASE Stack(p)
    BY <1>3, <2>1, StackPacket DEF ApprovedOK, FastStages
  <2>2. CASE Depart(p)
    BY <2>2, DepartedPacket, IdlePacket DEF FastStages
  <2>3. CASE Traffic(p)
    BY <2>3, ArrivedPacket DEF Traffic, FastStages
  <2> QED BY <2>1, <2>2, <2>3
<1>5. \A q \in Packets : ApprovedOK(q)'
  BY <1>1, <1>4 DEF ApprovedInv, ApprovedOK
<1> QED BY <1>2, <1>5 DEF ApprovedInv

\* Eviction frees an element; a program may still point to it.
LEMMA ApprovedEvict ==
  ASSUME TypeOK, ApprovedInv, Evict
  PROVE  ApprovedInv'
<1>1. UNCHANGED <<ready, seen, pkt>>
  BY DEF Evict
<1>2. \A f \in Flows : policyAt'[f] # NoElement => policyAt'[f] = policyAt[f]
  BY TypeParts DEF TypeMaps, Evict
<1>3. ElementsOK'
  BY <1>1, <1>2 DEF ApprovedInv, ElementsOK
<1>4. \A q \in Packets : ApprovedOK(q)'
  BY <1>1, <1>2 DEF ApprovedInv, ApprovedOK
<1> QED BY <1>3, <1>4 DEF ApprovedInv

\* Every step.
LEMMA ApprovedNext ==
  ASSUME ~Recycling, TypeOK, ApprovedInv, [Next]_vars
  PROVE  ApprovedInv'
<1>1. ASSUME NEW p \in Packets, PacketStep(p) PROVE ApprovedInv'
  BY <1>1, ApprovedGate, ApprovedMasqLookup, ApprovedRestoreLookup, ApprovedRewrite, ApprovedInsert, ApprovedLookup,
     ApprovedMark, ApprovedLearnRest, ApprovedTraffic DEF PacketStep, tc_masq, tc_restore, Learn
<1>2. CASE Disable \/ Publish \/ Tick \/ Move \/ (\E l \in Locals : Wire(l)) \/ UNCHANGED vars
  <2>1. UNCHANGED <<policyAt, ready, seen, pkt>>
    BY <1>2 DEF Disable, Publish, Tick, Move, Wire, vars, mapVars
  <2> QED BY <2>1, ApprovedQuiet
<1> QED BY <1>1, <1>2, ApprovedEvict, ApprovedTraffic DEF Next

\* A packet is redirected only if learning programs have seen its flow in both
\* directions ("Must the ingress and egress both allow the flow"), provided an
\* element of policy_cache is not reused while a program points to it.
THEOREM OnlyApproved ==
  ASSUME ~Recycling
  PROVE  Spec => []RedirectOnlyApproved
<1>1. TypeOK /\ ApprovedInv /\ [Next]_vars => ApprovedInv'
  BY ApprovedNext
<1>2. ApprovedInv => RedirectOnlyApproved
  BY DEF ApprovedInv, ApprovedOK, RedirectOnlyApproved, FastStages, At, Flow
<1> QED BY <1>1, <1>2, ApprovedInit, TypeCorrect, PTL DEF Spec

-----------------------------------------------------------------------------
(***************************************************************************)
(* Ready bits.                                                             *)
(***************************************************************************)

\* Only the insert overwrites an element, and the one it takes is free.
LEMMA ReadyStep ==
  ASSUME TypeOK, [Next]_vars, NEW f \in Flows, policyAt[f] # NoElement
  PROVE  ready[policyAt[f]] \subseteq ready'[policyAt[f]]
<1>0. ready \in [Elements -> SUBSET Dirs] /\ policyAt[f] \in Elements
  BY TypeParts DEF TypeMaps
<1>1. ASSUME NEW p \in Packets, PolicyInsert(p) PROVE ready[policyAt[f]] \subseteq ready'[policyAt[f]]
  <2>1. ready' = ready \/ \E e \in Elements : e # policyAt[f] /\ ready' = [ready EXCEPT ![e] = {pkt[p].dir}]
    BY <1>1 DEF PolicyInsert, FreeElements
  <2> QED BY <1>0, <2>1
<1>2. ASSUME NEW p \in Packets, PolicyMark(p) PROVE ready[policyAt[f]] \subseteq ready'[policyAt[f]]
  <2>1. ready' = [ready EXCEPT ![pkt[p].elem] = ready[pkt[p].elem] \cup {pkt[p].dir}]
    BY <1>2 DEF PolicyMark
  <2> QED BY <1>0, <2>1
<1>3. ASSUME NEW p \in Packets, PacketStep(p) \/ Traffic(p)
      PROVE  UNCHANGED ready \/ PolicyInsert(p) \/ PolicyMark(p)
  <2>1. CASE tc_masq(p)
    <3>1. UNCHANGED mapVars
      BY <2>1, Zenon DEF tc_masq, Gate, MasqLookup, MasqEncap
    <3> QED BY <3>1 DEF mapVars
  <2>2. CASE tc_restore(p)
    <3>1. UNCHANGED mapVars
      BY <2>2, Zenon DEF tc_restore, Gate, RestoreLookup, RestoreDecap
    <3> QED BY <3>1 DEF mapVars
  <2>3. CASE Learn(p)
    BY <2>3, SMTT(20) DEF Learn, InitE, InitIn, PolicyLookup, LearnHeaders, ClearMarks, mapVars
  <2>4. CASE Stack(p) \/ Depart(p) \/ Traffic(p)
    BY <2>4 DEF Stack, Depart, Traffic, Arrive, mapVars
  <2> QED BY <1>3, <2>1, <2>2, <2>3, <2>4 DEF PacketStep
<1>4. Disable \/ (\E l \in Locals : Wire(l)) \/ Publish \/ Tick \/ Evict \/ Move => UNCHANGED ready
  BY DEF Disable, Wire, Publish, Tick, Evict, Move, mapVars
<1>5. UNCHANGED vars => UNCHANGED ready
  BY DEF vars, mapVars
<1> QED BY <1>1, <1>2, <1>3, <1>4, <1>5 DEF Next

\* While a flow keeps its element no step takes a ready bit away, even if the
\* kernel reuses evicted elements at once.
THEOREM ReadyBits == Spec => ReadyBitsKept
<1>1. TypeOK /\ [Next]_vars =>
        [\A f \in Flows : policyAt[f] # NoElement /\ policyAt'[f] = policyAt[f]
            => ready[policyAt[f]] \subseteq ready'[policyAt[f]]]_vars
  BY ReadyStep
<1> QED BY <1>1, TypeCorrect, PTL DEF Spec, ReadyBitsKept
==============================================================================
