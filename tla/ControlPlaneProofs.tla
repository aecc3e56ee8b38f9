------------------------- MODULE ControlPlaneProofs -------------------------
(***************************************************************************)
(* Proofs about ControlPlane for every set of agents, endpoints, addresses,*)
(* maps and generations, and for every bound.                              *)
(***************************************************************************)
EXTENDS ControlPlane, TLAPS

USE ConstantsAssumption, NamesAssumption

\* The initial state is well typed.
LEMMA TypeInit == Init => TypeOK
<1> USE DEF Init, ZeroControl, NoOwner, SnapShots, Stages, NoProgram, Foreign
<1>1. Init => TypeKernel
  <2>1. ZeroControl \in [abi : {0, 1}, enabled : BOOLEAN, gen : Gens \cup {0}]
    OBVIOUS
  <2>2. NoOwner \in SnapShots
    OBVIOUS
  <2>3. Init => /\ progPins \in [Programs -> ProgramIDs \cup {NoProgram}]
                /\ filters \in [Slots -> ProgramIDs \cup {NoProgram, Foreign}]
                /\ ingress \in [IPs -> Endpoints \cup {NoEndpoint}]
    OBVIOUS
  <2>4. Init => mapPins \subseteq MapNames /\ loads \in 0..MaxLoads
    OBVIOUS
  <2>5. Init => marker \in BOOLEAN /\ devmap \in BOOLEAN
    OBVIOUS
  <2>6. Init => control = ZeroControl /\ owned = NoOwner
    BY Zenon
  <2> HIDE DEF Init, ZeroControl, NoOwner, SnapShots, NoProgram, Foreign
  <2> QED BY <2>1, <2>2, <2>3, <2>4, <2>5, <2>6 DEF TypeKernel
<1>2. Init => TypeFlow
  BY DEF TypeFlow
<1>3. Init => TypeRun
  BY DEF TypeRun
<1> QED BY <1>1, <1>2, <1>3 DEF TypeOK

\* A group of variables that a step leaves alone keeps its types.
LEMMA TypeFrame ==
  ASSUME TypeOK
  PROVE  /\ UNCHANGED kernelVars => TypeKernel'
         /\ UNCHANGED runVars => TypeRun'
         /\ UNCHANGED <<podVars, pc, outcome, faults>> => TypeFlow'
BY DEF TypeOK, TypeKernel, TypeFlow, TypeRun, kernelVars, runVars, podVars

\* A run's steps before and after Ensure keep the types.
LEMMA TypeOuter ==
  ASSUME TypeOK, NEW a \in Agents,
         \/ Start(a) \/ Prepare(a) \/ Disable(a) \/ Discover(a) \/ Scan(a)
         \/ Verify(a) \/ CommitScan(a) \/ CommitStore(a) \/ Publish(a) \/ StageError(a)
         \/ Kill(a)
  PROVE  TypeOK'
<1> USE DEF Goto, Abort, Disturb, At
<1>1. CASE Start(a)
  <2>1. TypeKernel'
    BY <1>1, TypeFrame DEF Start
  <2>2. TypeFlow'
    BY <1>1 DEF TypeOK, TypeFlow, podVars, Stages, AfterDisable, EnsureStages, LoadWindow, Start
  <2>3. TypeRun'
    BY <1>1 DEF TypeOK, TypeKernel, TypeFlow, TypeRun, Start, NoOwner, SnapShots, NoProgram
  <2> QED BY <2>1, <2>2, <2>3 DEF TypeOK
<1>2. CASE Prepare(a)
  <2>1. TypeKernel'
    BY <1>2, TypeFrame DEF Prepare
  <2>2. TypeFlow'
    BY <1>2 DEF TypeOK, TypeFlow, podVars, Stages, AfterDisable, EnsureStages, LoadWindow, Prepare
  <2>3. TypeRun'
    BY <1>2, SMTT(20) DEF TypeOK, TypeKernel, TypeFlow, TypeRun, Prepare
  <2> QED BY <2>1, <2>2, <2>3 DEF TypeOK
<1>3. CASE Disable(a)
  <2>1. TypeKernel'
    BY <1>3 DEF TypeOK, TypeKernel, TypeRun, Disable
  <2>2. TypeFlow'
    BY <1>3 DEF TypeOK, TypeFlow, podVars, Stages, AfterDisable, EnsureStages, LoadWindow, Disable
  <2>3. TypeRun'
    BY <1>3, TypeFrame DEF Disable
  <2> QED BY <2>1, <2>2, <2>3 DEF TypeOK
<1>4. CASE Discover(a)
  <2>1. TypeKernel'
    BY <1>4, TypeFrame DEF Discover
  <2>2. TypeFlow'
    BY <1>4 DEF TypeOK, TypeFlow, podVars, Stages, AfterDisable, EnsureStages, LoadWindow, Discover
  <2>3. TypeRun'
    <3>1. supported' \in [Agents -> BOOLEAN]
      BY <1>4 DEF TypeOK, TypeRun, Discover
    <3>2. eps' \in [Agents -> SUBSET Endpoints]
      BY <1>4, SMTT(20) DEF TypeOK, TypeFlow, TypeRun, Discover
    <3> QED BY <1>4, <3>1, <3>2 DEF TypeOK, TypeRun, Discover
  <2> QED BY <2>1, <2>2, <2>3 DEF TypeOK
<1>5. CASE Scan(a)
  <2>1. TypeKernel'
    BY <1>5, TypeFrame DEF Scan
  <2>2. TypeFlow'
    BY <1>5 DEF TypeOK, TypeFlow, podVars, Stages, AfterDisable, EnsureStages, LoadWindow, Scan
  <2>3. TypeRun'
    BY <1>5, TypeFrame DEF Scan
  <2> QED BY <2>1, <2>2, <2>3 DEF TypeOK
<1>6. CASE Verify(a)
  <2>1. TypeKernel'
    BY <1>6, TypeFrame DEF Verify
  <2>2. TypeFlow'
    BY <1>6 DEF TypeOK, TypeFlow, podVars, Stages, AfterDisable, EnsureStages, LoadWindow, Verify
  <2>3. TypeRun'
    BY <1>6, TypeFrame DEF Verify
  <2> QED BY <2>1, <2>2, <2>3 DEF TypeOK
<1>7. CASE CommitScan(a)
  <2>1. TypeKernel'
    BY <1>7, TypeFrame DEF CommitScan
  <2>2. TypeFlow'
    BY <1>7 DEF TypeOK, TypeFlow, podVars, Stages, AfterDisable, EnsureStages, LoadWindow, CommitScan
  <2>3. TypeRun'
    <3>1. [gen |-> gen[a], ids |-> progPins, eps |-> eps[a]] \in SnapShots
      BY DEF TypeOK, TypeKernel, TypeRun, SnapShots
    <3>2. snap' \in [Agents -> SnapShots]
      BY <1>7, <3>1 DEF TypeOK, TypeRun, CommitScan
    <3> QED BY <1>7, <3>2 DEF TypeOK, TypeRun, CommitScan
  <2> QED BY <2>1, <2>2, <2>3 DEF TypeOK
<1>8. CASE CommitStore(a)
  <2>1. TypeKernel'
    BY <1>8 DEF TypeOK, TypeKernel, TypeRun, CommitStore
  <2>2. TypeFlow'
    BY <1>8 DEF TypeOK, TypeFlow, podVars, Stages, AfterDisable, EnsureStages, LoadWindow, CommitStore
  <2>3. TypeRun'
    BY <1>8, TypeFrame DEF CommitStore
  <2> QED BY <2>1, <2>2, <2>3 DEF TypeOK
<1>9. CASE Publish(a)
  <2>1. TypeKernel'
    BY <1>9 DEF TypeOK, TypeKernel, TypeRun, Publish
  <2>2. TypeFlow'
    BY <1>9 DEF TypeOK, TypeFlow, podVars, Stages, AfterDisable, EnsureStages, LoadWindow, Publish
  <2>3. TypeRun'
    BY <1>9, TypeFrame DEF Publish
  <2> QED BY <2>1, <2>2, <2>3 DEF TypeOK
<1>10. CASE StageError(a)
  <2>1. TypeKernel'
    BY <1>10, TypeFrame DEF StageError
  <2>2. TypeFlow'
    BY <1>10 DEF TypeOK, TypeFlow, podVars, Stages, AfterDisable, EnsureStages, LoadWindow, StageError
  <2>3. TypeRun'
    BY <1>10, TypeFrame DEF StageError
  <2> QED BY <2>1, <2>2, <2>3 DEF TypeOK
<1>11. CASE Kill(a)
  <2>1. TypeKernel'
    BY <1>11, TypeFrame DEF Kill
  <2>2. TypeFlow'
    BY <1>11 DEF TypeOK, TypeFlow, podVars, Stages, AfterDisable, EnsureStages, LoadWindow, Kill
  <2>3. TypeRun'
    BY <1>11, TypeFrame DEF Kill
  <2> QED BY <2>1, <2>2, <2>3 DEF TypeOK
<1> QED BY <1>1, <1>2, <1>3, <1>4, <1>5, <1>6, <1>7, <1>8, <1>9, <1>10, <1>11

\* Unpin keeps the types of what it writes.
LEMMA TypeUnpin ==
  ASSUME TypeOK, NEW a \in Agents, Unpin(a)
  PROVE  /\ mapPins' \subseteq MapNames
         /\ progPins' \in [Programs -> ProgramIDs \cup {NoProgram}]
         /\ control' \in [abi : {0, 1}, enabled : BOOLEAN, gen : Gens \cup {0}]
         /\ ingress' \in [IPs -> Endpoints \cup {NoEndpoint}]
         /\ devmap' \in BOOLEAN
<1>1. mapPins' \subseteq MapNames /\ devmap' \in BOOLEAN
  BY DEF TypeOK, TypeKernel, Unpin
<1>2. progPins' \in [Programs -> ProgramIDs \cup {NoProgram}]
  BY DEF TypeOK, TypeKernel, Unpin
<1>3. control' \in [abi : {0, 1}, enabled : BOOLEAN, gen : Gens \cup {0}]
  BY DEF TypeOK, TypeKernel, Unpin, ZeroControl
<1>4. ingress' \in [IPs -> Endpoints \cup {NoEndpoint}]
  BY DEF TypeOK, TypeKernel, Unpin
<1> QED BY <1>1, <1>2, <1>3, <1>4

\* So do the steps of EnsureCollection.
LEMMA TypeCollection ==
  ASSUME TypeOK, NEW a \in Agents,
         \/ LoadAndPin(a) \/ LoadMap(a) \/ LoadPrograms(a) \/ PinProgram(a) \/ PinnedAll(a)
         \/ Initialize(a) \/ LoadError(a)
  PROVE  TypeOK'
<1> USE DEF Goto, Abort, Disturb, At
<1>1. CASE LoadAndPin(a)
  <2>1. TypeKernel'
    BY <1>1, TypeFrame DEF LoadAndPin
  <2>2. TypeFlow'
    BY <1>1 DEF TypeOK, TypeFlow, podVars, Stages, AfterDisable, EnsureStages, LoadWindow, LoadAndPin
  <2>3. TypeRun'
    <3>1. newMaps' \in [Agents -> SUBSET MapNames]
      BY <1>1 DEF TypeOK, TypeRun, LoadAndPin
    <3>2. newProgs' \in [Agents -> SUBSET Programs]
      BY <1>1 DEF TypeOK, TypeRun, LoadAndPin
    <3> QED BY <1>1, <3>1, <3>2 DEF TypeOK, TypeRun, LoadAndPin
  <2> QED BY <2>1, <2>2, <2>3 DEF TypeOK
<1>2. CASE LoadMap(a)
  <2>1. TypeKernel'
    BY <1>2 DEF TypeOK, TypeKernel, TypeRun, LoadMap
  <2>2. TypeFlow'
    BY <1>2 DEF TypeOK, TypeFlow, podVars, Stages, AfterDisable, EnsureStages, LoadWindow, LoadMap
  <2>3. TypeRun'
    BY <1>2, TypeFrame DEF LoadMap
  <2> QED BY <2>1, <2>2, <2>3 DEF TypeOK
<1>3. CASE LoadPrograms(a)
  <2>1. TypeKernel'
    BY <1>3 DEF TypeOK, TypeKernel, TypeRun, LoadPrograms, ProgramIDs
  <2>2. TypeFlow'
    BY <1>3 DEF TypeOK, TypeFlow, podVars, Stages, AfterDisable, EnsureStages, LoadWindow, LoadPrograms
  <2>3. TypeRun'
    BY <1>3 DEF TypeOK, TypeKernel, TypeFlow, TypeRun, LoadPrograms, ProgramIDs
  <2> QED BY <2>1, <2>2, <2>3 DEF TypeOK
<1>4. CASE PinProgram(a)
  <2>1. TypeKernel'
    <3>1. CASE Unpin(a)
      BY <1>4, <3>1, TypeUnpin DEF TypeOK, TypeKernel, PinProgram
    <3>2. CASE ~Unpin(a)
      <4>1. PICK p \in Programs : progPins' = [progPins EXCEPT ![p] = ids[a][p]]
        BY <1>4, <3>2 DEF PinProgram
      <4>2. ids[a][p] \in ProgramIDs \cup {NoProgram}
        BY DEF TypeOK, TypeRun
      <4>3. progPins' \in [Programs -> ProgramIDs \cup {NoProgram}]
        BY <4>1, <4>2 DEF TypeOK, TypeKernel
      <4> QED BY <1>4, <3>2, <4>3 DEF TypeOK, TypeKernel, PinProgram
    <3> QED BY <3>1, <3>2
  <2>2. TypeFlow'
    BY <1>4 DEF TypeOK, TypeFlow, podVars, Stages, AfterDisable, EnsureStages, LoadWindow, PinProgram
  <2>3. TypeRun'
    <3>1. newProgs' \in [Agents -> SUBSET Programs]
      BY <1>4, SMTT(20) DEF TypeOK, TypeRun, PinProgram
    <3> QED BY <1>4, <3>1 DEF TypeOK, TypeRun, PinProgram
  <2> QED BY <2>1, <2>2, <2>3 DEF TypeOK
<1>5. CASE PinnedAll(a)
  <2>1. TypeKernel'
    BY <1>5, TypeFrame DEF PinnedAll
  <2>2. TypeFlow'
    BY <1>5 DEF TypeOK, TypeFlow, podVars, Stages, AfterDisable, EnsureStages, LoadWindow, PinnedAll
  <2>3. TypeRun'
    BY <1>5, TypeFrame DEF PinnedAll
  <2> QED BY <2>1, <2>2, <2>3 DEF TypeOK
<1>6. CASE Initialize(a)
  <2>1. TypeKernel'
    BY <1>6 DEF TypeOK, TypeKernel, TypeRun, Initialize, ZeroControl
  <2>2. TypeFlow'
    BY <1>6 DEF TypeOK, TypeFlow, podVars, Stages, AfterDisable, EnsureStages, LoadWindow, Initialize
  <2>3. TypeRun'
    BY <1>6, TypeFrame DEF Initialize
  <2> QED BY <2>1, <2>2, <2>3 DEF TypeOK
<1>7. CASE LoadError(a)
  <2>1. TypeKernel'
    <3>1. CASE Unpin(a)
      BY <1>7, <3>1, TypeUnpin DEF TypeOK, TypeKernel, LoadError
    <3>2. CASE ~Unpin(a)
      BY <1>7, <3>2 DEF TypeOK, TypeKernel, LoadError
    <3> QED BY <3>1, <3>2
  <2>2. TypeFlow'
    BY <1>7 DEF TypeOK, TypeFlow, podVars, Stages, AfterDisable, EnsureStages, LoadWindow, LoadError
  <2>3. TypeRun'
    BY <1>7, TypeFrame DEF LoadError
  <2> QED BY <2>1, <2>2, <2>3 DEF TypeOK
<1> QED BY <1>1, <1>2, <1>3, <1>4, <1>5, <1>6, <1>7

\* EnsureFilter keeps the type of the filters, whatever program it attaches.
LEMMA TypeFilter ==
  ASSUME TypeOK, NEW a \in Agents, NEW l, NEW p \in Programs, NEW next,
         EnsureFilter(a, <<l, p>>, next)
  PROVE  TypeKernel'
<1>1. ids[a][p] \in ProgramIDs \cup {NoProgram, Foreign}
  BY DEF TypeOK, TypeRun
<1>2. filters' \in [Slots -> ProgramIDs \cup {NoProgram, Foreign}]
  BY <1>1 DEF TypeOK, TypeKernel, EnsureFilter
<1> QED BY <1>2 DEF TypeOK, TypeKernel, EnsureFilter

\* And the rest of Ensure.
LEMMA TypeEnsure ==
  ASSUME TypeOK, NEW a \in Agents,
         \/ EnsureMarker(a) \/ Rescan(a) \/ EnsureBase(a) \/ NextEndpoint(a) \/ EnsureEndpoint(a)
         \/ EnsureEndpointMaps(a)
  PROVE  TypeOK'
<1> USE DEF Goto, Abort, Disturb, At
<1>1. CASE EnsureMarker(a)
  <2>1. TypeKernel'
    BY <1>1 DEF TypeOK, TypeKernel, TypeRun, EnsureMarker
  <2>2. TypeFlow'
    BY <1>1 DEF TypeOK, TypeFlow, podVars, Stages, AfterDisable, EnsureStages, LoadWindow, EnsureMarker
  <2>3. TypeRun'
    BY <1>1, TypeFrame DEF EnsureMarker
  <2> QED BY <2>1, <2>2, <2>3 DEF TypeOK
<1>2. CASE Rescan(a)
  <2>1. TypeKernel'
    BY <1>2, TypeFrame DEF Rescan
  <2>2. TypeFlow'
    BY <1>2 DEF TypeOK, TypeFlow, podVars, Stages, AfterDisable, EnsureStages, LoadWindow, Rescan
  <2>3. TypeRun'
    BY <1>2 DEF TypeOK, TypeKernel, TypeFlow, TypeRun, Rescan
  <2> QED BY <2>1, <2>2, <2>3 DEF TypeOK
<1>3. CASE EnsureBase(a)
  <2>1. TypeKernel'
    BY <1>3, TypeFilter DEF EnsureBase, Programs, BasePrograms
  <2>2. TypeFlow'
    BY <1>3 DEF TypeOK, TypeFlow, podVars, Stages, AfterDisable, EnsureStages, LoadWindow, EnsureBase, EnsureFilter
  <2>3. TypeRun'
    <3>1. todo' \in [Agents -> SUBSET Endpoints]
      BY <1>3 DEF TypeOK, TypeRun, EnsureBase, runVars
    <3> QED BY <1>3, <3>1 DEF TypeOK, TypeRun, EnsureBase, runVars
  <2> QED BY <2>1, <2>2, <2>3 DEF TypeOK
<1>4. CASE NextEndpoint(a)
  <2>1. TypeKernel'
    BY <1>4, TypeFrame DEF NextEndpoint
  <2>2. TypeFlow'
    BY <1>4 DEF TypeOK, TypeFlow, podVars, Stages, AfterDisable, EnsureStages, LoadWindow, NextEndpoint
  <2>3. TypeRun'
    BY <1>4, SMTT(20) DEF TypeOK, TypeKernel, TypeFlow, TypeRun, NextEndpoint
  <2> QED BY <2>1, <2>2, <2>3 DEF TypeOK
<1>5. CASE EnsureEndpoint(a)
  <2>1. TypeKernel'
    BY <1>5, TypeFilter DEF EnsureEndpoint, Programs, EndpointPrograms
  <2>2. TypeFlow'
    BY <1>5 DEF TypeOK, TypeFlow, podVars, Stages, AfterDisable, EnsureStages, LoadWindow, EnsureEndpoint, EnsureFilter
  <2>3. TypeRun'
    BY <1>5, TypeFrame DEF EnsureEndpoint
  <2> QED BY <2>1, <2>2, <2>3 DEF TypeOK
<1>6. CASE EnsureEndpointMaps(a)
  <2>1. TypeKernel'
    <3>1. ingress' \in [IPs -> Endpoints \cup {NoEndpoint}] /\ devmap' \in BOOLEAN
      BY <1>6 DEF TypeOK, TypeKernel, TypeRun, EnsureEndpointMaps, kernelVars
    <3> QED BY <1>6, <3>1 DEF TypeOK, TypeKernel, EnsureEndpointMaps, kernelVars
  <2>2. TypeFlow'
    BY <1>6 DEF TypeOK, TypeFlow, podVars, Stages, AfterDisable, EnsureStages, LoadWindow, EnsureEndpointMaps
  <2>3. TypeRun'
    <3>1. todo' \in [Agents -> SUBSET Endpoints]
      BY <1>6 DEF TypeOK, TypeRun, EnsureEndpointMaps, runVars
    <3> QED BY <1>6, <3>1 DEF TypeOK, TypeRun, EnsureEndpointMaps, runVars
  <2> QED BY <2>1, <2>2, <2>3 DEF TypeOK
<1> QED BY <1>1, <1>2, <1>3, <1>4, <1>5, <1>6

\* The rest of the node keeps the types.
LEMMA TypeEnvironment ==
  ASSUME TypeOK, Environment
  PROVE  TypeOK'
<1>1. CASE \E a \in Agents : Kill(a)
  BY <1>1, TypeOuter
<1>2. CASE Reboot
  <2>1. TypeKernel' /\ TypeFlow'
    <3>1. ZeroControl \in [abi : {0, 1}, enabled : BOOLEAN, gen : Gens \cup {0}]
      BY DEF ZeroControl
    <3>2. TypeKernel'
      BY <1>2, <3>1 DEF TypeOK, TypeKernel, Reboot
    <3>3. TypeFlow'
      BY <1>2 DEF TypeOK, TypeFlow, Disturb, Reboot, Stages
    <3> QED BY <3>2, <3>3
  <2>2. TypeRun'
    BY <1>2, TypeFrame DEF Reboot, ZeroControl, NoProgram, Stages
  <2> QED BY <2>1, <2>2 DEF TypeOK
<1>3. CASE \E e \in Endpoints : PodAdd(e)
  <2>1. TypeKernel' /\ TypeFlow'
    BY <1>3 DEF TypeOK, TypeKernel, TypeFlow, Disturb, kernelVars, podVars, PodAdd
  <2>2. TypeRun'
    BY <1>3, TypeFrame DEF PodAdd
  <2> QED BY <2>1, <2>2 DEF TypeOK
<1>4. CASE \E e \in Endpoints : PodDelete(e)
  <2>1. TypeKernel' /\ TypeFlow'
    BY <1>4 DEF TypeOK, TypeKernel, TypeFlow, Disturb, kernelVars, podVars, PodDelete, NoProgram
  <2>2. TypeRun'
    BY <1>4, TypeFrame DEF PodDelete, NoProgram
  <2> QED BY <2>1, <2>2 DEF TypeOK
<1>5. CASE \E s \in Slots : ForeignAttach(s)
  <2>1. TypeKernel' /\ TypeFlow'
    BY <1>5 DEF TypeOK, TypeKernel, TypeFlow, Disturb, kernelVars, podVars, ForeignAttach
  <2>2. TypeRun'
    BY <1>5, TypeFrame DEF ForeignAttach
  <2> QED BY <2>1, <2>2 DEF TypeOK
<1>6. CASE \E s \in Slots : ForeignDetach(s)
  <2>1. TypeKernel' /\ TypeFlow'
    BY <1>6 DEF TypeOK, TypeKernel, TypeFlow, Disturb, kernelVars, podVars, ForeignDetach
  <2>2. TypeRun'
    BY <1>6, TypeFrame DEF ForeignDetach
  <2> QED BY <2>1, <2>2 DEF TypeOK
<1>7. CASE MarkerFlush
  <2>1. TypeKernel' /\ TypeFlow'
    <3>1. TypeKernel'
      BY <1>7 DEF TypeOK, TypeKernel, MarkerFlush
    <3>2. TypeFlow'
      BY <1>7 DEF TypeOK, TypeFlow, Disturb, podVars, MarkerFlush
    <3> QED BY <3>1, <3>2
  <2>2. TypeRun'
    BY <1>7, TypeFrame DEF MarkerFlush
  <2> QED BY <2>1, <2>2 DEF TypeOK
<1>8. CASE \E i \in IPs : Evict(i)
  <2>1. TypeKernel' /\ TypeFlow'
    BY <1>8 DEF TypeOK, TypeKernel, TypeFlow, Disturb, kernelVars, podVars, Evict
  <2>2. TypeRun'
    BY <1>8, TypeFrame DEF Evict
  <2> QED BY <2>1, <2>2 DEF TypeOK
<1> QED BY <1>1, <1>2, <1>3, <1>4, <1>5, <1>6, <1>7, <1>8 DEF Environment

\* Every step keeps the types.
LEMMA TypeStep == TypeOK /\ [Next]_vars => TypeOK'
<1> SUFFICES ASSUME TypeOK, [Next]_vars PROVE TypeOK'
  OBVIOUS
<1>1. CASE \E a \in Agents : Start(a) \/ AgentStep(a)
  BY <1>1, TypeOuter, TypeCollection, TypeEnsure DEF AgentStep, EnsureCollection
<1>2. CASE Environment
  BY <1>2, TypeEnvironment
<1>3. CASE UNCHANGED vars
  BY <1>3, TypeFrame DEF vars, TypeOK
<1> QED BY <1>1, <1>2, <1>3 DEF Next

\* Every variable keeps its type, for any number of agents.
THEOREM TypeCorrect == Spec => []TypeOK
BY TypeInit, TypeStep, PTL DEF Spec
-----------------------------------------------------------------------------
(***************************************************************************)
(* Safety, for a node on which one agent runs at a time.                   *)
(***************************************************************************)
SafeInv == PodInv /\ EnsureInv /\ CommitInv /\ ReconcilingIsDisabled /\ FastPathWired

\* The inductive invariant holds initially.
LEMMA SafeInit == Init => IInv
<1>1. Init => PodInv
  BY DEF Init, PodInv, NoOwner
<1>2. Init => EnsureInv /\ CommitInv /\ ReconcilingIsDisabled
  BY DEF Init, EnsureInv, EndpointLoop, CommitInv, ReconcilingIsDisabled, AfterDisable, EnsureStages, LoadWindow
<1>3. Init => FastPathWired
  BY DEF Init, FastPathWired, ZeroControl
<1> QED BY <1>1, <1>2, <1>3, TypeInit DEF IInv

\* The steps of a run before and after Ensure keep the invariant.
LEMMA SafeOuter ==
  ASSUME OneAgent, IInv, NEW a \in Agents,
         \/ Start(a) \/ Prepare(a) \/ Disable(a) \/ Discover(a) \/ Scan(a)
         \/ Verify(a) \/ CommitScan(a) \/ CommitStore(a) \/ Publish(a) \/ StageError(a)
         \/ Kill(a)
  PROVE  SafeInv'
<1> USE DEF OneAgent, IInv, Goto, Abort, At, kernelVars, podVars, runVars
<1>1. CASE Start(a)
  <2>1. PodInv'
    BY <1>1 DEF TypeOK, TypeRun, PodInv, Start, NoOwner
  <2>2. EnsureInv'
    BY <1>1 DEF TypeOK, TypeFlow, TypeRun, EnsureInv, EntryOK, EndpointLoop, Start
  <2>3. CommitInv'
    BY <1>1 DEF TypeOK, TypeFlow, CommitInv, Start
  <2>4. ReconcilingIsDisabled'
    BY <1>1 DEF TypeOK, TypeFlow, ReconcilingIsDisabled, AfterDisable, EnsureStages, LoadWindow, Start
  <2>5. FastPathWired'
    BY <1>1 DEF FastPathWired, ControlPinned, WiredFor, CollectionReady, ReconcilingIsDisabled, AfterDisable, EnsureStages, LoadWindow, Start
  <2> QED BY <2>1, <2>2, <2>3, <2>4, <2>5 DEF SafeInv
<1>2. CASE Prepare(a)
  <2>1. PodInv'
    BY <1>2 DEF PodInv, Prepare
  <2>2. EnsureInv'
    BY <1>2 DEF TypeOK, TypeFlow, TypeRun, EnsureInv, EntryOK, EndpointLoop, Prepare
  <2>3. CommitInv'
    BY <1>2 DEF TypeOK, TypeFlow, CommitInv, Prepare
  <2>4. ReconcilingIsDisabled'
    BY <1>2 DEF TypeOK, TypeFlow, ReconcilingIsDisabled, AfterDisable, EnsureStages, LoadWindow, Prepare
  <2>5. FastPathWired'
    BY <1>2 DEF FastPathWired, ControlPinned, WiredFor, CollectionReady, ReconcilingIsDisabled, AfterDisable, EnsureStages, LoadWindow, Prepare
  <2> QED BY <2>1, <2>2, <2>3, <2>4, <2>5 DEF SafeInv
<1>3. CASE Disable(a)
  <2>1. PodInv'
    BY <1>3 DEF PodInv, Disable
  <2>2. EnsureInv'
    BY <1>3 DEF TypeOK, TypeFlow, TypeRun, EnsureInv, EntryOK, EndpointLoop, Disable
  <2>3. CommitInv'
    BY <1>3 DEF TypeOK, TypeFlow, CommitInv, Disable
  <2>4. ReconcilingIsDisabled'
    <3>1. CASE control.enabled' = FALSE
      BY <1>3, <3>1 DEF ReconcilingIsDisabled
    <3>2. CASE UNCHANGED control /\ ~ControlPinned
      BY <3>2, Zenon DEF FastPathWired, ReconcilingIsDisabled
    <3>3. CASE UNCHANGED control /\ Abort(a)
      <4>1. pc'[a] \notin AfterDisable
        BY <3>3 DEF TypeOK, TypeFlow, AfterDisable, EnsureStages, LoadWindow
      <4> QED BY <4>1 DEF ReconcilingIsDisabled
    <3> QED BY <1>3, <3>1, <3>2, <3>3 DEF Disable, TypeOK, TypeKernel
  <2>5. FastPathWired'
    <3>1. CASE control.enabled' = FALSE
      BY <3>1 DEF FastPathWired
    <3>2. CASE UNCHANGED control
      BY <1>3, <3>2 DEF FastPathWired, ControlPinned, WiredFor, CollectionReady, Disable
    <3> QED BY <1>3, <3>1, <3>2 DEF Disable, TypeOK, TypeKernel
  <2> QED BY <2>1, <2>2, <2>3, <2>4, <2>5 DEF SafeInv
<1>4. CASE Discover(a)
  <2>1. PodInv'
    <3>1. eps'[a] \subseteq live \/ eps'[a] = eps[a]
      BY <1>4 DEF TypeOK, TypeRun, Discover
    <3> QED BY <1>4, <3>1 DEF PodInv, Discover
  <2>2. EnsureInv'
    BY <1>4 DEF TypeOK, TypeFlow, TypeRun, EnsureInv, EntryOK, EndpointLoop, Discover
  <2>3. CommitInv'
    BY <1>4 DEF TypeOK, TypeFlow, CommitInv, Discover
  <2>4. ReconcilingIsDisabled'
    BY <1>4 DEF TypeOK, TypeFlow, ReconcilingIsDisabled, AfterDisable, EnsureStages, LoadWindow, Discover
  <2>5. FastPathWired'
    BY <1>4 DEF FastPathWired, ControlPinned, WiredFor, CollectionReady, ReconcilingIsDisabled, AfterDisable, EnsureStages, LoadWindow, Discover
  <2> QED BY <2>1, <2>2, <2>3, <2>4, <2>5 DEF SafeInv
<1>5. CASE Scan(a)
  <2>1. PodInv'
    BY <1>5 DEF PodInv, Scan
  <2>2. EnsureInv'
    BY <1>5 DEF TypeOK, TypeFlow, TypeRun, EnsureInv, EntryOK, EndpointLoop, Scan
  <2>3. CommitInv'
    BY <1>5 DEF TypeOK, TypeFlow, CommitInv, Scan
  <2>4. ReconcilingIsDisabled'
    BY <1>5 DEF TypeOK, TypeFlow, ReconcilingIsDisabled, AfterDisable, EnsureStages, LoadWindow, Scan
  <2>5. FastPathWired'
    BY <1>5 DEF FastPathWired, ControlPinned, WiredFor, CollectionReady, ReconcilingIsDisabled, AfterDisable, EnsureStages, LoadWindow, Scan
  <2> QED BY <2>1, <2>2, <2>3, <2>4, <2>5 DEF SafeInv
<1>6. CASE Verify(a)
  <2>1. PodInv'
    BY <1>6 DEF PodInv, Verify
  <2>2. EnsureInv'
    BY <1>6 DEF TypeOK, TypeFlow, TypeRun, EnsureInv, EntryOK, EndpointLoop, Verify
  <2>3. CommitInv'
    BY <1>6 DEF TypeOK, TypeFlow, CommitInv, Verify
  <2>4. ReconcilingIsDisabled'
    BY <1>6 DEF TypeOK, TypeFlow, ReconcilingIsDisabled, AfterDisable, EnsureStages, LoadWindow, Verify
  <2>5. FastPathWired'
    BY <1>6 DEF FastPathWired, ControlPinned, WiredFor, CollectionReady, ReconcilingIsDisabled, AfterDisable, EnsureStages, LoadWindow, Verify
  <2> QED BY <2>1, <2>2, <2>3, <2>4, <2>5 DEF SafeInv
<1>7. CASE CommitScan(a)
  <2>1. PodInv'
    <3>1. snap'[a].eps \in {eps[a], snap[a].eps}
      BY <1>7 DEF TypeOK, TypeRun, CommitScan
    <3> QED BY <1>7, <3>1 DEF PodInv, CommitScan
  <2>2. EnsureInv'
    BY <1>7 DEF TypeOK, TypeFlow, TypeRun, EnsureInv, EntryOK, EndpointLoop, CommitScan
  <2>3. CommitInv'
    <3>1. CASE VerifyState(a)
      <4> DEFINE r == [gen |-> gen[a], ids |-> progPins, eps |-> eps[a]]
      <4>1. snap'[a] = r /\ pc'[a] = "commit_store" /\ UNCHANGED <<kernelVars, podVars, gen>>
        BY <1>7, <3>1 DEF TypeOK, TypeFlow, TypeRun, CommitScan
      <4>2. r.gen = gen[a] /\ r.ids = progPins /\ r.eps = eps[a]
        OBVIOUS
      <4>3. supported[a] /\ todo[a] = {}
        BY <1>7, <3>1 DEF VerifyState, CommitScan, EnsureInv
      <4>4. \A e \in eps[a] : EntryOK(e)
        BY <1>7, <4>3 DEF CommitScan, EnsureInv
      <4>5. eps[a] # {} => devmap
        BY <1>7, <4>3 DEF CommitScan, EnsureInv
      <4>6. \A s \in SlotsOf((eps[a] \cap live) \cup {Underlay}) : filters[s] = progPins[s[2]]
        BY <3>1 DEF VerifyState, SlotsOf
      <4>7. WiredFor(snap[a])'
        <5> HIDE DEF r
        <5> QED BY <3>1, <4>1, <4>2, <4>4, <4>5, <4>6 DEF WiredFor, VerifyState, CollectionReady, EntryOK
      <4> QED BY <4>1, <4>2, <4>7 DEF CommitInv
    <3>2. CASE ~VerifyState(a)
      BY <1>7, <3>2 DEF TypeOK, TypeFlow, CommitInv, CommitScan
    <3> QED BY <3>1, <3>2
  <2>4. ReconcilingIsDisabled'
    BY <1>7 DEF TypeOK, TypeFlow, ReconcilingIsDisabled, AfterDisable, EnsureStages, LoadWindow, CommitScan
  <2>5. FastPathWired'
    BY <1>7 DEF FastPathWired, ControlPinned, WiredFor, CollectionReady, ReconcilingIsDisabled, AfterDisable, EnsureStages, LoadWindow, CommitScan
  <2> QED BY <2>1, <2>2, <2>3, <2>4, <2>5 DEF SafeInv
<1>8. CASE CommitStore(a)
  <2>1. PodInv'
    BY <1>8 DEF PodInv, CommitStore
  <2>2. EnsureInv'
    BY <1>8 DEF TypeOK, TypeFlow, TypeRun, EnsureInv, EntryOK, EndpointLoop, CommitStore
  <2>3. CommitInv'
    <3>1. WiredFor(snap[a]) /\ snap[a].gen = gen[a]
      BY <1>8 DEF CommitStore, CommitInv
    <3>2. pc'[a] # "commit_store"
      BY <1>8 DEF TypeOK, TypeFlow, CommitStore
    <3>3. WiredFor(owned)' /\ owned'.gen = gen'[a]
      BY <1>8, <3>1 DEF CommitStore, WiredFor, CollectionReady
    <3> QED BY <3>2, <3>3 DEF CommitInv
  <2>4. ReconcilingIsDisabled'
    BY <1>8 DEF TypeOK, TypeFlow, ReconcilingIsDisabled, AfterDisable, EnsureStages, LoadWindow, CommitStore
  <2>5. FastPathWired'
    BY <1>8 DEF FastPathWired, ControlPinned, WiredFor, CollectionReady, ReconcilingIsDisabled, AfterDisable, EnsureStages, LoadWindow, CommitStore
  <2> QED BY <2>1, <2>2, <2>3, <2>4, <2>5 DEF SafeInv
<1>9. CASE Publish(a)
  <2>1. PodInv'
    BY <1>9 DEF PodInv, Publish
  <2>2. EnsureInv'
    BY <1>9 DEF TypeOK, TypeFlow, TypeRun, EnsureInv, EntryOK, EndpointLoop, Publish
  <2>3. CommitInv'
    BY <1>9 DEF TypeOK, TypeFlow, CommitInv, Publish
  <2>4. ReconcilingIsDisabled'
    BY <1>9 DEF TypeOK, TypeFlow, ReconcilingIsDisabled, AfterDisable, EnsureStages, LoadWindow, Publish
  <2>5. FastPathWired'
    <3>1. WiredFor(owned) /\ owned.gen = gen[a]
      BY <1>9 DEF Publish, CommitInv
    <3>2. CASE UNCHANGED control
      BY <1>9, <3>2 DEF FastPathWired, ControlPinned, WiredFor, CollectionReady, Publish
    <3>3. CASE /\ ControlPinned /\ control.abi = 1
               /\ control' = [control EXCEPT !.enabled = TRUE, !.gen = gen[a]]
      <4>1. control'.abi = 1 /\ control'.gen = gen[a]
        BY <3>3 DEF TypeOK, TypeKernel
      <4>2. ControlPinned' /\ WiredFor(owned)' /\ owned' = owned
        BY <1>9, <3>1, <3>3 DEF ControlPinned, WiredFor, CollectionReady, Publish
      <4> QED BY <3>1, <4>1, <4>2 DEF FastPathWired
    <3> QED BY <1>9, <3>2, <3>3 DEF Publish
  <2> QED BY <2>1, <2>2, <2>3, <2>4, <2>5 DEF SafeInv
<1>10. CASE StageError(a)
  <2>1. PodInv'
    BY <1>10 DEF PodInv, StageError
  <2>2. EnsureInv'
    BY <1>10 DEF TypeOK, TypeFlow, TypeRun, EnsureInv, EntryOK, EndpointLoop, StageError
  <2>3. CommitInv'
    BY <1>10 DEF TypeOK, TypeFlow, CommitInv, StageError
  <2>4. ReconcilingIsDisabled'
    BY <1>10 DEF TypeOK, TypeFlow, ReconcilingIsDisabled, AfterDisable, EnsureStages, LoadWindow, StageError
  <2>5. FastPathWired'
    BY <1>10 DEF FastPathWired, ControlPinned, WiredFor, CollectionReady, ReconcilingIsDisabled, AfterDisable, EnsureStages, LoadWindow, StageError
  <2> QED BY <2>1, <2>2, <2>3, <2>4, <2>5 DEF SafeInv
<1>11. CASE Kill(a)
  <2>1. PodInv'
    BY <1>11 DEF PodInv, Kill
  <2>2. EnsureInv'
    BY <1>11 DEF TypeOK, TypeFlow, TypeRun, EnsureInv, EntryOK, EndpointLoop, Kill
  <2>3. CommitInv'
    BY <1>11 DEF TypeOK, TypeFlow, CommitInv, Kill
  <2>4. ReconcilingIsDisabled'
    BY <1>11 DEF TypeOK, TypeFlow, ReconcilingIsDisabled, AfterDisable, EnsureStages, LoadWindow, Kill
  <2>5. FastPathWired'
    BY <1>11 DEF FastPathWired, ControlPinned, WiredFor, CollectionReady, ReconcilingIsDisabled, AfterDisable, EnsureStages, LoadWindow, Kill
  <2> QED BY <2>1, <2>2, <2>3, <2>4, <2>5 DEF SafeInv
<1> QED BY <1>1, <1>2, <1>3, <1>4, <1>5, <1>6, <1>7, <1>8, <1>9, <1>10, <1>11

\* So do the steps of EnsureCollection: the fast path is off, and nothing is committed yet.
LEMMA SafeCollection ==
  ASSUME OneAgent, IInv, NEW a \in Agents,
         \/ LoadAndPin(a) \/ LoadMap(a) \/ LoadPrograms(a) \/ PinProgram(a) \/ PinnedAll(a)
         \/ Initialize(a) \/ LoadError(a)
  PROVE  SafeInv'
<1> USE DEF OneAgent, IInv, Goto, Abort, At, kernelVars, podVars, runVars
<1>1. CASE LoadAndPin(a)
  <2>1. PodInv'
    BY <1>1 DEF PodInv, LoadAndPin
  <2>2. EnsureInv'
    BY <1>1 DEF TypeOK, TypeFlow, TypeRun, EnsureInv, EntryOK, EndpointLoop, LoadAndPin
  <2>3. CommitInv'
    BY <1>1 DEF TypeOK, TypeFlow, CommitInv, LoadAndPin
  <2>4. ReconcilingIsDisabled'
    BY <1>1 DEF TypeOK, TypeFlow, ReconcilingIsDisabled, AfterDisable, EnsureStages, LoadWindow, LoadAndPin
  <2>5. FastPathWired'
    BY <1>1 DEF FastPathWired, ControlPinned, WiredFor, CollectionReady, ReconcilingIsDisabled, AfterDisable, EnsureStages, LoadWindow, LoadAndPin
  <2> QED BY <2>1, <2>2, <2>3, <2>4, <2>5 DEF SafeInv
<1>2. CASE LoadMap(a)
  <2>1. PodInv'
    BY <1>2 DEF PodInv, LoadMap
  <2>2. EnsureInv'
    BY <1>2 DEF TypeOK, TypeFlow, TypeRun, EnsureInv, EntryOK, EndpointLoop, LoadMap
  <2>3. CommitInv'
    BY <1>2 DEF TypeOK, TypeFlow, CommitInv, LoadMap
  <2>4. ReconcilingIsDisabled'
    BY <1>2 DEF TypeOK, TypeFlow, ReconcilingIsDisabled, AfterDisable, EnsureStages, LoadWindow, LoadMap
  <2>5. FastPathWired'
    BY <1>2 DEF FastPathWired, ControlPinned, WiredFor, CollectionReady, ReconcilingIsDisabled, AfterDisable, EnsureStages, LoadWindow, LoadMap
  <2> QED BY <2>1, <2>2, <2>3, <2>4, <2>5 DEF SafeInv
<1>3. CASE LoadPrograms(a)
  <2>1. PodInv'
    BY <1>3 DEF PodInv, LoadPrograms
  <2>2. EnsureInv'
    BY <1>3 DEF TypeOK, TypeFlow, TypeRun, EnsureInv, EntryOK, EndpointLoop, LoadPrograms
  <2>3. CommitInv'
    BY <1>3 DEF TypeOK, TypeFlow, CommitInv, LoadPrograms
  <2>4. ReconcilingIsDisabled'
    BY <1>3 DEF TypeOK, TypeFlow, ReconcilingIsDisabled, AfterDisable, EnsureStages, LoadWindow, LoadPrograms
  <2>5. FastPathWired'
    BY <1>3 DEF FastPathWired, ControlPinned, WiredFor, CollectionReady, ReconcilingIsDisabled, AfterDisable, EnsureStages, LoadWindow, LoadPrograms
  <2> QED BY <2>1, <2>2, <2>3, <2>4, <2>5 DEF SafeInv
<1>4. CASE PinProgram(a)
  <2>1. PodInv'
    BY <1>4 DEF PodInv, PinProgram, Unpin
  <2>2. EnsureInv'
    BY <1>4 DEF TypeOK, TypeFlow, TypeRun, EnsureInv, EntryOK, EndpointLoop, PinProgram, Unpin
  <2>3. CommitInv'
    BY <1>4 DEF TypeOK, TypeFlow, CommitInv, PinProgram, Unpin
  <2>4. ReconcilingIsDisabled'
    BY <1>4 DEF TypeOK, TypeFlow, ReconcilingIsDisabled, AfterDisable, EnsureStages, LoadWindow, PinProgram, Unpin
  <2>5. FastPathWired'
    <3>1. ~control.enabled
      BY <1>4 DEF PinProgram, ReconcilingIsDisabled, AfterDisable, EnsureStages, LoadWindow
    <3>2. ~control.enabled'
      BY <1>4, <3>1 DEF PinProgram, Unpin, ZeroControl
    <3> QED BY <3>2 DEF FastPathWired
  <2> QED BY <2>1, <2>2, <2>3, <2>4, <2>5 DEF SafeInv
<1>5. CASE PinnedAll(a)
  <2>1. PodInv'
    BY <1>5 DEF PodInv, PinnedAll
  <2>2. EnsureInv'
    BY <1>5 DEF TypeOK, TypeFlow, TypeRun, EnsureInv, EntryOK, EndpointLoop, PinnedAll
  <2>3. CommitInv'
    BY <1>5 DEF TypeOK, TypeFlow, CommitInv, PinnedAll
  <2>4. ReconcilingIsDisabled'
    BY <1>5 DEF TypeOK, TypeFlow, ReconcilingIsDisabled, AfterDisable, EnsureStages, LoadWindow, PinnedAll
  <2>5. FastPathWired'
    BY <1>5 DEF FastPathWired, ControlPinned, WiredFor, CollectionReady, ReconcilingIsDisabled, AfterDisable, EnsureStages, LoadWindow, PinnedAll
  <2> QED BY <2>1, <2>2, <2>3, <2>4, <2>5 DEF SafeInv
<1>6. CASE Initialize(a)
  <2>1. PodInv'
    BY <1>6 DEF PodInv, Initialize
  <2>2. EnsureInv'
    BY <1>6 DEF TypeOK, TypeFlow, TypeRun, EnsureInv, EntryOK, EndpointLoop, Initialize
  <2>3. CommitInv'
    BY <1>6 DEF TypeOK, TypeFlow, CommitInv, Initialize
  <2>4. ReconcilingIsDisabled'
    BY <1>6 DEF ReconcilingIsDisabled, Initialize, ZeroControl
  <2>5. FastPathWired'
    BY <1>6 DEF FastPathWired, Initialize, ZeroControl
  <2> QED BY <2>1, <2>2, <2>3, <2>4, <2>5 DEF SafeInv
<1>7. CASE LoadError(a)
  <2>1. PodInv'
    BY <1>7 DEF PodInv, LoadError, Unpin
  <2>2. EnsureInv'
    BY <1>7 DEF TypeOK, TypeFlow, TypeRun, EnsureInv, EntryOK, EndpointLoop, LoadError, Unpin
  <2>3. CommitInv'
    BY <1>7 DEF TypeOK, TypeFlow, CommitInv, LoadError, Unpin
  <2>4. ReconcilingIsDisabled'
    BY <1>7 DEF TypeOK, TypeFlow, ReconcilingIsDisabled, AfterDisable, EnsureStages, LoadWindow, LoadError, Unpin
  <2>5. FastPathWired'
    <3>1. ~control.enabled
      BY <1>7 DEF LoadError, ReconcilingIsDisabled, AfterDisable, EnsureStages, LoadWindow
    <3>2. ~control.enabled'
      BY <1>7, <3>1 DEF LoadError, Unpin, ZeroControl
    <3> QED BY <3>2 DEF FastPathWired
  <2> QED BY <2>1, <2>2, <2>3, <2>4, <2>5 DEF SafeInv
<1> QED BY <1>1, <1>2, <1>3, <1>4, <1>5, <1>6, <1>7

\* And the rest of Ensure, which wires the endpoints one by one.
LEMMA SafeEnsure ==
  ASSUME OneAgent, IInv, NEW a \in Agents,
         \/ EnsureMarker(a) \/ Rescan(a) \/ EnsureBase(a) \/ NextEndpoint(a) \/ EnsureEndpoint(a)
         \/ EnsureEndpointMaps(a)
  PROVE  SafeInv'
<1> USE DEF OneAgent, IInv, Goto, Abort, At, kernelVars, podVars, runVars
<1>1. CASE EnsureMarker(a)
  <2>1. PodInv'
    BY <1>1 DEF PodInv, EnsureMarker
  <2>2. EnsureInv'
    BY <1>1 DEF TypeOK, TypeFlow, TypeRun, EnsureInv, EntryOK, EndpointLoop, EnsureMarker
  <2>3. CommitInv'
    BY <1>1 DEF TypeOK, TypeFlow, CommitInv, EnsureMarker
  <2>4. ReconcilingIsDisabled'
    BY <1>1 DEF TypeOK, TypeFlow, ReconcilingIsDisabled, AfterDisable, EnsureStages, LoadWindow, EnsureMarker
  <2>5. FastPathWired'
    BY <1>1 DEF FastPathWired, ControlPinned, WiredFor, CollectionReady, ReconcilingIsDisabled, AfterDisable, EnsureStages, LoadWindow, EnsureMarker
  <2> QED BY <2>1, <2>2, <2>3, <2>4, <2>5 DEF SafeInv
<1>2. CASE Rescan(a)
  <2>1. PodInv'
    BY <1>2 DEF PodInv, Rescan
  <2>2. EnsureInv'
    BY <1>2 DEF TypeOK, TypeFlow, TypeRun, EnsureInv, EntryOK, EndpointLoop, Rescan
  <2>3. CommitInv'
    BY <1>2 DEF TypeOK, TypeFlow, CommitInv, Rescan
  <2>4. ReconcilingIsDisabled'
    BY <1>2 DEF TypeOK, TypeFlow, ReconcilingIsDisabled, AfterDisable, EnsureStages, LoadWindow, Rescan
  <2>5. FastPathWired'
    BY <1>2 DEF FastPathWired, ControlPinned, WiredFor, CollectionReady, ReconcilingIsDisabled, AfterDisable, EnsureStages, LoadWindow, Rescan
  <2> QED BY <2>1, <2>2, <2>3, <2>4, <2>5 DEF SafeInv
<1>3. CASE EnsureBase(a)
  <2>1. PodInv'
    BY <1>3 DEF PodInv, EnsureBase, EnsureFilter
  <2>2. EnsureInv'
    BY <1>3 DEF TypeOK, TypeFlow, TypeRun, EnsureInv, EntryOK, EndpointLoop, EnsureBase, EnsureFilter
  <2>3. CommitInv'
    BY <1>3 DEF TypeOK, TypeFlow, CommitInv, EnsureBase, EnsureFilter
  <2>4. ReconcilingIsDisabled'
    BY <1>3 DEF TypeOK, TypeFlow, ReconcilingIsDisabled, AfterDisable, EnsureStages, LoadWindow, EnsureBase, EnsureFilter
  <2>5. FastPathWired'
    BY <1>3 DEF FastPathWired, ControlPinned, WiredFor, CollectionReady, ReconcilingIsDisabled, AfterDisable, EnsureStages, LoadWindow, EnsureBase, EnsureFilter
  <2> QED BY <2>1, <2>2, <2>3, <2>4, <2>5 DEF SafeInv
<1>4. CASE NextEndpoint(a)
  <2>1. PodInv'
    BY <1>4 DEF PodInv, NextEndpoint
  <2>2. EnsureInv'
    <3>1. CASE todo[a] = {} /\ pc' = [pc EXCEPT ![a] = "verify"] /\ UNCHANGED cur
      BY <1>4, <3>1 DEF TypeOK, TypeFlow, EnsureInv, EntryOK, EndpointLoop, NextEndpoint
    <3>2. CASE \E e \in todo[a] : cur' = [cur EXCEPT ![a] = e]
      <4>1. cur'[a] \in eps[a]
        BY <1>4, <3>2 DEF TypeOK, TypeRun, EnsureInv, EndpointLoop, NextEndpoint
      <4>2. pc'[a] \in {"peer", "idle"}
        BY <1>4, <3>2 DEF TypeOK, TypeFlow, NextEndpoint
      <4> QED BY <1>4, <4>1, <4>2 DEF EnsureInv, EntryOK, EndpointLoop, NextEndpoint
    <3> QED BY <1>4, <3>1, <3>2 DEF NextEndpoint
  <2>3. CommitInv'
    BY <1>4 DEF TypeOK, TypeFlow, CommitInv, NextEndpoint
  <2>4. ReconcilingIsDisabled'
    BY <1>4 DEF TypeOK, TypeFlow, ReconcilingIsDisabled, AfterDisable, EnsureStages, LoadWindow, NextEndpoint
  <2>5. FastPathWired'
    BY <1>4 DEF FastPathWired, ControlPinned, WiredFor, CollectionReady, ReconcilingIsDisabled, AfterDisable, EnsureStages, LoadWindow, NextEndpoint
  <2> QED BY <2>1, <2>2, <2>3, <2>4, <2>5 DEF SafeInv
<1>5. CASE EnsureEndpoint(a)
  <2>1. PodInv'
    BY <1>5 DEF PodInv, EnsureEndpoint, EnsureFilter
  <2>2. EnsureInv'
    BY <1>5 DEF TypeOK, TypeFlow, TypeRun, EnsureInv, EntryOK, EndpointLoop, EnsureEndpoint, EnsureFilter
  <2>3. CommitInv'
    BY <1>5 DEF TypeOK, TypeFlow, CommitInv, EnsureEndpoint, EnsureFilter
  <2>4. ReconcilingIsDisabled'
    BY <1>5 DEF TypeOK, TypeFlow, ReconcilingIsDisabled, AfterDisable, EnsureStages, LoadWindow, EnsureEndpoint, EnsureFilter
  <2>5. FastPathWired'
    BY <1>5 DEF FastPathWired, ControlPinned, WiredFor, CollectionReady, ReconcilingIsDisabled, AfterDisable, EnsureStages, LoadWindow, EnsureEndpoint, EnsureFilter
  <2> QED BY <2>1, <2>2, <2>3, <2>4, <2>5 DEF SafeInv
<1>6. CASE EnsureEndpointMaps(a)
  <2>1. PodInv'
    BY <1>6 DEF PodInv, EnsureEndpointMaps
  <2>2. EnsureInv'
    <3>1. CASE At(a, "ingress_cache") /\ OtherMaps \subseteq mapPins
      <4>1. /\ ingress' = [ingress EXCEPT ![IPOf[cur[a]]] = cur[a]]
            /\ pc' = [pc EXCEPT ![a] = "devmap"]
            /\ UNCHANGED <<live, dead, eps, todo, cur, devmap, supported>>
        BY <1>6, <3>1 DEF EnsureEndpointMaps
      <4>2. cur[a] \in eps[a] /\ eps[a] \subseteq Endpoints
        BY <3>1 DEF EnsureInv, EndpointLoop, TypeOK, TypeRun
      <4>3. EntryOK(cur[a])'
        BY <4>1, <4>2 DEF EntryOK, TypeOK, TypeKernel
      <4>4. \A e \in eps[a] \ todo[a] : EntryOK(e)
        BY <3>1 DEF EnsureInv, EndpointLoop
      <4>5. ASSUME NEW e \in eps[a] \ todo[a] PROVE EntryOK(e)'
        <5>1. CASE IPOf[e] = IPOf[cur[a]]
          BY <4>2, <4>3, <5>1, <4>1 DEF PodInv, EntryOK
        <5>2. CASE IPOf[e] # IPOf[cur[a]]
          BY <4>1, <4>2, <4>4, <5>2 DEF EntryOK, TypeOK, TypeKernel
        <5> QED BY <5>1, <5>2
      <4>6. pc'[a] = "devmap"
        BY <4>1 DEF TypeOK, TypeFlow
      <4> QED BY <3>1, <4>1, <4>2, <4>3, <4>5, <4>6 DEF EnsureInv, EndpointLoop
    <3>2. CASE At(a, "devmap") /\ OtherMaps \subseteq mapPins
      <4>1. /\ devmap' /\ todo'[a] = todo[a] \ {cur[a]} /\ pc'[a] = "endpoint"
            /\ UNCHANGED <<live, dead, eps, cur, ingress, supported>>
        BY <1>6, <3>2 DEF EnsureEndpointMaps, TypeOK, TypeFlow, TypeRun
      <4>2. EntryOK(cur[a]) /\ \A e \in eps[a] \ todo[a] : EntryOK(e)
        BY <3>2 DEF EnsureInv, EndpointLoop
      <4>3. \A e \in eps[a] \ todo'[a] : EntryOK(e)
        BY <4>1, <4>2
      <4>4. todo[a] \subseteq eps[a]
        BY <3>2 DEF EnsureInv, EndpointLoop
      <4> QED BY <4>1, <4>3, <4>4 DEF EnsureInv, EndpointLoop, EntryOK
    <3>3. CASE Abort(a)
      BY <3>3 DEF TypeOK, TypeFlow, EnsureInv, EndpointLoop
    <3> QED BY <1>6, <3>1, <3>2, <3>3 DEF EnsureEndpointMaps
  <2>3. CommitInv'
    BY <1>6 DEF TypeOK, TypeFlow, CommitInv, EnsureEndpointMaps
  <2>4. ReconcilingIsDisabled'
    BY <1>6 DEF TypeOK, TypeFlow, ReconcilingIsDisabled, AfterDisable, EnsureStages, LoadWindow, EnsureEndpointMaps
  <2>5. FastPathWired'
    BY <1>6 DEF FastPathWired, ControlPinned, WiredFor, CollectionReady, ReconcilingIsDisabled, AfterDisable, EnsureStages, LoadWindow, EnsureEndpointMaps
  <2> QED BY <2>1, <2>2, <2>3, <2>4, <2>5 DEF SafeInv
<1> QED BY <1>1, <1>2, <1>3, <1>4, <1>5, <1>6

\* A slot that carries the recorded program is neither free nor foreign, so
\* another owner's attach and detach leave it alone.
LEMMA KeptWiring ==
  ASSUME TypeOK, NEW s \in Slots, ForeignAttach(s) \/ ForeignDetach(s),
         NEW r, WiredFor(r)
  PROVE  WiredFor(r)'
<1>1. \A p \in Programs : progPins[p] \notin {NoProgram, Foreign}
  BY DEF TypeOK, TypeKernel, WiredFor, CollectionReady, ProgramIDs, NoProgram, Foreign
<1>2. /\ filters[s] \in {NoProgram, Foreign}
      /\ \A t \in Slots : t # s => filters'[t] = filters[t]
  BY DEF TypeOK, TypeKernel, ForeignAttach, ForeignDetach
<1>3. UNCHANGED <<mapPins, progPins, live, ingress, devmap>>
  BY DEF ForeignAttach, ForeignDetach, podVars
<1>4. ASSUME NEW t \in SlotsOf((r.eps \cap live) \cup {Underlay}) PROVE filters'[t] = r.ids[t[2]]
  <2>1. t \in Slots /\ t[2] \in Programs
    BY DEF SlotsOf, Slots, Programs
  <2>2. filters[t] = progPins[t[2]]
    BY DEF WiredFor
  <2>3. t # s
    BY <1>1, <1>2, <2>1, <2>2
  <2> QED BY <1>2, <2>1, <2>2, <2>3 DEF WiredFor
<1>5. SlotsOf((r.eps \cap live) \cup {Underlay})' = SlotsOf((r.eps \cap live) \cup {Underlay})
  BY <1>3 DEF SlotsOf
<1> QED BY <1>3, <1>4, <1>5 DEF WiredFor, CollectionReady

\* The rest of the node cannot break the invariant either: it never gives a
\* recorded live link another program, and never an address to two live pods.
LEMMA SafeEnvironment ==
  ASSUME IInv, Environment, ~(\E a \in Agents : Kill(a))
  PROVE  SafeInv'
<1> USE DEF IInv, kernelVars, podVars, runVars
<1>1. CASE Reboot
  <2>1. PodInv'
    BY <1>1 DEF PodInv, Reboot
  <2>2. EnsureInv'
    BY <1>1 DEF TypeOK, TypeKernel, PodInv, EnsureInv, EntryOK, EndpointLoop, Reboot
  <2>3. CommitInv'
    BY <1>1 DEF TypeOK, TypeKernel, PodInv, CommitInv, WiredFor, CollectionReady, SlotsOf, Reboot
  <2>4. ReconcilingIsDisabled'
    BY <1>1 DEF ReconcilingIsDisabled, Reboot, ZeroControl
  <2>5. FastPathWired'
    BY <1>1 DEF FastPathWired, Reboot, ZeroControl
  <2> QED BY <2>1, <2>2, <2>3, <2>4, <2>5 DEF SafeInv
<1>2. CASE \E e \in Endpoints : PodAdd(e)
  <2>1. PodInv'
    BY <1>2 DEF PodInv, PodAdd
  <2>2. EnsureInv'
    BY <1>2 DEF TypeOK, TypeKernel, PodInv, EnsureInv, EntryOK, EndpointLoop, PodAdd
  <2>3. CommitInv'
    BY <1>2 DEF TypeOK, TypeKernel, PodInv, CommitInv, WiredFor, CollectionReady, SlotsOf, PodAdd
  <2>4. ReconcilingIsDisabled'
    BY <1>2 DEF ReconcilingIsDisabled, PodAdd
  <2>5. FastPathWired'
    BY <1>2 DEF TypeOK, TypeKernel, PodInv, FastPathWired, ControlPinned, WiredFor, CollectionReady, SlotsOf, PodAdd
  <2> QED BY <2>1, <2>2, <2>3, <2>4, <2>5 DEF SafeInv
<1>3. CASE \E e \in Endpoints : PodDelete(e)
  <2>1. PodInv'
    BY <1>3 DEF PodInv, PodDelete
  <2>2. EnsureInv'
    BY <1>3 DEF TypeOK, TypeKernel, PodInv, EnsureInv, EntryOK, EndpointLoop, PodDelete
  <2>3. CommitInv'
    BY <1>3 DEF TypeOK, TypeKernel, PodInv, CommitInv, WiredFor, CollectionReady, SlotsOf, PodDelete
  <2>4. ReconcilingIsDisabled'
    BY <1>3 DEF ReconcilingIsDisabled, PodDelete
  <2>5. FastPathWired'
    BY <1>3 DEF TypeOK, TypeKernel, PodInv, FastPathWired, ControlPinned, WiredFor, CollectionReady, SlotsOf, PodDelete
  <2> QED BY <2>1, <2>2, <2>3, <2>4, <2>5 DEF SafeInv
<1>4. CASE \E s \in Slots : ForeignAttach(s)
  <2>1. PodInv'
    BY <1>4 DEF PodInv, ForeignAttach
  <2>2. EnsureInv'
    BY <1>4 DEF TypeOK, TypeKernel, PodInv, EnsureInv, EntryOK, EndpointLoop, ForeignAttach
  <2>3. CommitInv'
    <3>1. PICK s \in Slots : ForeignAttach(s)
      BY <1>4
    <3>2. ASSUME NEW a \in Agents, WiredFor(snap[a]) PROVE WiredFor(snap[a])'
      BY <3>1, <3>2, KeptWiring DEF ForeignAttach
    <3> QED BY <3>1, <3>2, KeptWiring DEF CommitInv, ForeignAttach
  <2>4. ReconcilingIsDisabled'
    BY <1>4 DEF ReconcilingIsDisabled, ForeignAttach
  <2>5. FastPathWired'
    <3>1. PICK s \in Slots : ForeignAttach(s)
      BY <1>4
    <3>2. WiredFor(owned) => WiredFor(owned)'
      BY <3>1, KeptWiring DEF ForeignAttach
    <3> QED BY <3>1, <3>2 DEF FastPathWired, ControlPinned, ForeignAttach
  <2> QED BY <2>1, <2>2, <2>3, <2>4, <2>5 DEF SafeInv
<1>5. CASE \E s \in Slots : ForeignDetach(s)
  <2>1. PodInv'
    BY <1>5 DEF PodInv, ForeignDetach
  <2>2. EnsureInv'
    BY <1>5 DEF TypeOK, TypeKernel, PodInv, EnsureInv, EntryOK, EndpointLoop, ForeignDetach
  <2>3. CommitInv'
    <3>1. PICK s \in Slots : ForeignDetach(s)
      BY <1>5
    <3>2. ASSUME NEW a \in Agents, WiredFor(snap[a]) PROVE WiredFor(snap[a])'
      BY <3>1, <3>2, KeptWiring DEF ForeignDetach
    <3> QED BY <3>1, <3>2, KeptWiring DEF CommitInv, ForeignDetach
  <2>4. ReconcilingIsDisabled'
    BY <1>5 DEF ReconcilingIsDisabled, ForeignDetach
  <2>5. FastPathWired'
    <3>1. PICK s \in Slots : ForeignDetach(s)
      BY <1>5
    <3>2. WiredFor(owned) => WiredFor(owned)'
      BY <3>1, KeptWiring DEF ForeignDetach
    <3> QED BY <3>1, <3>2 DEF FastPathWired, ControlPinned, ForeignDetach
  <2> QED BY <2>1, <2>2, <2>3, <2>4, <2>5 DEF SafeInv
<1>6. CASE MarkerFlush
  <2>1. PodInv'
    BY <1>6 DEF PodInv, MarkerFlush
  <2>2. EnsureInv'
    BY <1>6 DEF TypeOK, TypeKernel, PodInv, EnsureInv, EntryOK, EndpointLoop, MarkerFlush
  <2>3. CommitInv'
    BY <1>6 DEF TypeOK, TypeKernel, PodInv, CommitInv, WiredFor, CollectionReady, SlotsOf, MarkerFlush
  <2>4. ReconcilingIsDisabled'
    BY <1>6 DEF ReconcilingIsDisabled, MarkerFlush
  <2>5. FastPathWired'
    BY <1>6 DEF TypeOK, TypeKernel, PodInv, FastPathWired, ControlPinned, WiredFor, CollectionReady, SlotsOf, MarkerFlush
  <2> QED BY <2>1, <2>2, <2>3, <2>4, <2>5 DEF SafeInv
<1>7. CASE \E i \in IPs : Evict(i)
  <2>1. PodInv'
    BY <1>7 DEF PodInv, Evict
  <2>2. EnsureInv'
    BY <1>7 DEF TypeOK, TypeKernel, PodInv, EnsureInv, EntryOK, EndpointLoop, Evict
  <2>3. CommitInv'
    BY <1>7 DEF TypeOK, TypeKernel, PodInv, CommitInv, WiredFor, CollectionReady, SlotsOf, Evict
  <2>4. ReconcilingIsDisabled'
    BY <1>7 DEF ReconcilingIsDisabled, Evict
  <2>5. FastPathWired'
    BY <1>7 DEF TypeOK, TypeKernel, PodInv, FastPathWired, ControlPinned, WiredFor, CollectionReady, SlotsOf, Evict
  <2> QED BY <2>1, <2>2, <2>3, <2>4, <2>5 DEF SafeInv
<1> QED BY <1>1, <1>2, <1>3, <1>4, <1>5, <1>6, <1>7 DEF Environment

\* Every step of a node with one agent keeps the inductive invariant.
LEMMA SafeStep == OneAgent /\ IInv /\ [Next]_vars => IInv'
<1> SUFFICES ASSUME OneAgent, IInv, [Next]_vars PROVE IInv'
  OBVIOUS
<1>1. TypeOK'
  BY TypeStep DEF IInv
<1>2. SafeInv'
  <2>1. CASE \E a \in Agents : Start(a) \/ AgentStep(a) \/ Kill(a)
    BY <2>1, SafeOuter, SafeCollection, SafeEnsure DEF AgentStep, EnsureCollection
  <2>2. CASE Environment /\ ~(\E a \in Agents : Kill(a))
    BY <2>2, SafeEnvironment
  <2>3. CASE UNCHANGED vars
    <3> USE <2>3 DEF IInv, vars, kernelVars, podVars, runVars
    <3>1. PodInv' /\ EnsureInv'
      BY DEF PodInv, EnsureInv, EntryOK
    <3>2. CommitInv'
      BY DEF CommitInv, WiredFor, CollectionReady
    <3>3. ReconcilingIsDisabled' /\ FastPathWired'
      BY DEF ReconcilingIsDisabled, FastPathWired, ControlPinned, WiredFor, CollectionReady
    <3> QED BY <3>1, <3>2, <3>3 DEF SafeInv
  <2> QED BY <2>1, <2>2, <2>3 DEF Next, Environment
<1> QED BY <1>1, <1>2 DEF IInv, SafeInv

\* With one agent at a time, whatever fails, is killed or reboots: an enabled
\* control map always stands for the ownership record on disk and for a kernel
\* wired as that record says.
THEOREM FastPathWiredAlways ==
  ASSUME OneAgent
  PROVE  Spec => []FastPathWired
<1>1. IInv /\ [Next]_vars => IInv'
  BY SafeStep
<1>2. IInv => FastPathWired
  BY DEF IInv
<1> QED BY SafeInit, <1>1, <1>2, PTL DEF Spec

\* With one agent at a time the control map stays disabled from Disable to
\* Publish, through errors, kills and reboots in between.
THEOREM ReconcilingIsDisabledAlways ==
  ASSUME OneAgent
  PROVE  Spec => []ReconcilingIsDisabled
<1>1. IInv /\ [Next]_vars => IInv'
  BY SafeStep
<1>2. IInv => ReconcilingIsDisabled
  BY DEF IInv
<1> QED BY SafeInit, <1>1, <1>2, PTL DEF Spec

\* A step that writes a pin, a filter, an endpoint map or the ownership file is
\* a step of a run that has passed Disable.
LEMMA WriterIsReconciling ==
  ASSUME TypeOK, Next, RunWrites
  PROVE  \E a \in Agents : pc[a] \in AfterDisable
<1> USE DEF kernelVars, podVars, runVars, At
<1>1. ASSUME NEW a \in Agents, Start(a) \/ Prepare(a) \/ Disable(a) \/ Kill(a) PROVE FALSE
  BY <1>1 DEF RunWrites, MapWrites, Start, Prepare, Disable, Kill
<1>2. ASSUME NEW a \in Agents, StageError(a) PROVE FALSE
  BY <1>2 DEF RunWrites, MapWrites, StageError
<1>3. ASSUME NEW a \in Agents,
             \/ Discover(a) \/ Scan(a) \/ EnsureCollection(a) \/ EnsureMarker(a) \/ Rescan(a)
             \/ EnsureBase(a) \/ NextEndpoint(a) \/ EnsureEndpoint(a) \/ EnsureEndpointMaps(a)
             \/ Verify(a) \/ CommitScan(a) \/ CommitStore(a) \/ Publish(a)
      PROVE  pc[a] \in AfterDisable
  <2>1. CASE EnsureCollection(a)
    BY <2>1 DEF EnsureCollection, LoadAndPin, LoadMap, LoadPrograms, PinProgram, PinnedAll,
                Initialize, LoadError, AfterDisable, EnsureStages, LoadWindow
  <2>2. CASE ~EnsureCollection(a)
    BY <1>3, <2>2 DEF Discover, Scan, EnsureMarker, Rescan, EnsureBase, NextEndpoint,
                      EnsureEndpoint, EnsureEndpointMaps, Verify, CommitScan, CommitStore,
                      Publish, AfterDisable, EnsureStages, LoadWindow
  <2> QED BY <2>1, <2>2
<1>4. ASSUME Environment, ~(\E a \in Agents : Kill(a)) PROVE FALSE
  <2>1. ASSUME Reboot PROVE FALSE
    BY <2>1 DEF RunWrites, MapWrites, Reboot, ProgramIDs, NoProgram
  <2>2. ASSUME NEW e \in Endpoints, PodAdd(e) PROVE FALSE
    BY <2>2 DEF RunWrites, MapWrites, PodAdd
  <2>3. ASSUME NEW e \in Endpoints, PodDelete(e) PROVE FALSE
    BY <2>3 DEF RunWrites, MapWrites, PodDelete, ProgramIDs, NoProgram
  <2>4. ASSUME NEW s \in Slots, ForeignAttach(s) \/ ForeignDetach(s) PROVE FALSE
    BY <2>4 DEF RunWrites, MapWrites, ForeignAttach, ForeignDetach, ProgramIDs, NoProgram, Foreign,
                TypeOK, TypeKernel
  <2>5. ASSUME MarkerFlush PROVE FALSE
    BY <2>5 DEF RunWrites, MapWrites, MarkerFlush
  <2>6. ASSUME NEW i \in IPs, Evict(i) PROVE FALSE
    BY <2>6 DEF RunWrites, MapWrites, Evict, TypeOK, TypeKernel
  <2> QED BY <1>4, <2>1, <2>2, <2>3, <2>4, <2>5, <2>6 DEF Environment
<1> QED BY <1>1, <1>2, <1>3, <1>4 DEF Next, AgentStep, Environment

\* With one agent at a time, pins, filters, endpoint maps and the ownership file
\* are only written while the fast path is off.
THEOREM WritesOnlyWhileDisabledAlways ==
  ASSUME OneAgent
  PROVE  Spec => WritesOnlyWhileDisabled
<1>1. IInv /\ [Next]_vars => IInv'
  BY SafeStep
<1>2. IInv /\ [Next]_vars => [RunWrites => ~control.enabled]_vars
  BY WriterIsReconciling DEF IInv, ReconcilingIsDisabled
<1> QED BY SafeInit, <1>1, <1>2, PTL DEF Spec, WritesOnlyWhileDisabled
=============================================================================
