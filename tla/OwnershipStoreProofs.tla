------------------------ MODULE OwnershipStoreProofs ------------------------
(***************************************************************************)
(* Proofs about OwnershipStore, for any number of writers and values: the  *)
(* invariant StoreInv, what follows from it, and that the store implements *)
(* AtomicFile.                                                             *)
(***************************************************************************)
EXTENDS OwnershipStore, TLAPS

\* Writing the values a record already has changes nothing.
LEMMA SameContents ==
  ASSUME NEW f \in Contents PROVE [f EXCEPT !.v = f.v, !.synced = f.synced] = f
  BY DEF Contents

\* The store begins without a file.
LEMMA InitStoreInv == Init => StoreInv
  BY ConstantsAssumption
  DEF Init, StoreInv, NoLeak, TypeOK, Contents, Empty, Stages, CommitStages, Absent, Torn

\* Since nothing in place is unsynced, a crash brings back the file or what the
\* disk has of it.
LEMMA CrashKeeps ==
  ASSUME StoreInv, KeepDirectory
  PROVE  \E f \in {file, durable} : file' = f /\ durable' = f
<1>1. PICK f \in {file, durable}, lost \in BOOLEAN :
        /\ file' = [f EXCEPT !.v = IF lost /\ ~f.synced THEN Torn ELSE @, !.synced = TRUE]
        /\ durable' = file'
  BY DEF KeepDirectory
<1>2. f \in Contents /\ f.synced
  BY DEF StoreInv, TypeOK, Contents
<1>3. file' = [f EXCEPT !.v = f.v, !.synced = f.synced]
  BY <1>1, <1>2 DEF Contents
<1> QED
  BY <1>1, <1>2, <1>3, SameContents

\* Every step, failure, kill or crash keeps StoreInv.
LEMMA StoreInvStep == StoreInv /\ [Next]_vars => StoreInv'
<1> SUFFICES ASSUME StoreInv, [Next]_vars PROVE StoreInv'
  OBVIOUS
<1> USE ConstantsAssumption DEF StoreInv, NoLeak, TypeOK, Contents, Stages, CommitStages, Goto, Finish, Fault
<1>1. ASSUME NEW w \in Writers, BeginCommit(w) PROVE StoreInv'
  BY <1>1 DEF BeginCommit
<1>2. ASSUME NEW w \in Writers, MakeDirectory(w) PROVE StoreInv'
  BY <1>2 DEF MakeDirectory
<1>3. ASSUME NEW w \in Writers, CreateTemp(w) PROVE StoreInv'
  BY <1>3 DEF CreateTemp
<1>4. ASSUME NEW w \in Writers, Write(w) PROVE StoreInv'
  BY <1>4 DEF Write
<1>5. ASSUME NEW w \in Writers, Sync(w) PROVE StoreInv'
  BY <1>5 DEF Sync
<1>6. ASSUME NEW w \in Writers, Rename(w) PROVE StoreInv'
  BY <1>6 DEF Rename
<1>7. ASSUME NEW w \in Writers, BeginRemove(w) PROVE StoreInv'
  BY <1>7 DEF BeginRemove
<1>8. ASSUME NEW w \in Writers, Unlink(w) PROVE StoreInv'
  <2>1. CASE file.v = Absent
    BY <1>8, <2>1 DEF Unlink
  <2>2. CASE file.v # Absent
    <3>1. /\ file' = [v |-> Absent, n |-> file.n + 1, synced |-> TRUE]
          /\ file.n < MaxChanges /\ pc[w] = "remove"
          /\ pc' = [pc EXCEPT ![w] = "sync_dir"]
          /\ UNCHANGED <<dir, durable, val, tmp, acked, faults, result>>
      BY <1>8, <2>2 DEF Unlink
    <3>2. file' \in Contents /\ file'.synced /\ acked <= file'.n
      BY <3>1
    <3>3. file'.v # Torn
      BY <3>1 DEF Absent, Torn
    <3>4. TypeOK'
      BY <3>1, <3>2
    <3>5. \A f \in {file', durable'} : f.synced /\ f.v # Torn /\ acked' <= f.n
      BY <3>1, <3>2, <3>3
    <3>6. dir # "missing"
      BY <2>2 DEF Empty
    <3> QED
      BY <3>1, <3>4, <3>5, <3>6
  <2> QED
    BY <2>1, <2>2
<1>9. ASSUME NEW w \in Writers, SyncDirectory(w) PROVE StoreInv'
  BY <1>9 DEF SyncDirectory
<1>10. ASSUME NEW w \in Writers, Fail(w) PROVE StoreInv'
  BY <1>10 DEF Fail
<1>11. ASSUME NEW w \in Writers, Kill(w) PROVE StoreInv'
  BY <1>11 DEF Kill
<1>12. CASE Writeback
  BY <1>12 DEF Writeback
<1>13. CASE WritebackParent
  BY <1>13 DEF WritebackParent
<1>14. CASE Crash
  <2>1. /\ pc' = [w \in Writers |-> "idle"]
        /\ result' = [w \in Writers |-> IF pc[w] = "idle" THEN result[w] ELSE "killed"]
        /\ UNCHANGED val /\ faults' \in 0..MaxFaults
    BY <1>14 DEF Crash
  <2>2. CASE LoseDirectory
    BY <2>1, <2>2 DEF LoseDirectory, Empty, Absent, Torn
  <2>3. CASE KeepDirectory
    <3>1. PICK f \in {file, durable} : file' = f /\ durable' = f
      BY <2>3, CrashKeeps
    <3>2. UNCHANGED <<dir, tmp, acked>>
      BY <2>3 DEF KeepDirectory
    <3> QED
      BY <2>1, <3>1, <3>2
  <2> QED
    BY <1>14, <2>2, <2>3 DEF Crash
<1>15. CASE UNCHANGED vars
  BY <1>15 DEF vars
<1> QED
  BY <1>1, <1>2, <1>3, <1>4, <1>5, <1>6, <1>7, <1>8, <1>9, <1>10, <1>11, <1>12, <1>13, <1>14, <1>15
  DEF Next, Commit, Remove

\* StoreInv holds of every reachable state.
THEOREM StoreInvAlways == Spec => []StoreInv
<1>1. Init => StoreInv
  BY InitStoreInv
<1>2. StoreInv /\ [Next]_vars => StoreInv'
  BY StoreInvStep
<1> QED
  BY <1>1, <1>2, PTL DEF Spec

\* Every variable of the store keeps its type.
THEOREM StoreTypeCorrect == Spec => []TypeOK
<1>1. StoreInv => TypeOK
  BY DEF StoreInv
<1> QED
  BY <1>1, StoreInvAlways, PTL

\* No kill, failure or crash leaves half a state file for Load to meet.
THEOREM NeverTornAlways == Spec => []NeverTorn
<1>1. StoreInv => NeverTorn
  BY DEF StoreInv, NeverTorn
<1> QED
  BY <1>1, StoreInvAlways, PTL

\* A change that Commit or Remove reported as done is on the disk for good, in a
\* directory that is on the disk.
THEOREM AckedSurvivesAlways == Spec => []AckedSurvives
<1>1. StoreInv => AckedSurvives
  BY DEF StoreInv, AckedSurvives, OnDisk, TypeOK, Empty
<1> QED
  BY <1>1, StoreInvAlways, PTL

\* Only a killed writer or a crash leaves a temporary file behind.
THEOREM NoLeakAlways == Spec => []NoLeak
<1>1. StoreInv => NoLeak
  BY DEF StoreInv
<1> QED
  BY <1>1, StoreInvAlways, PTL

-----------------------------------------------------------------------------
\* A step of the store is a step of the atomic file or leaves it alone.
LEMMA StepRefines ==
  StoreInv /\ [Next]_vars => [Abstract!Next]_(Abstract!vars)
<1> SUFFICES ASSUME StoreInv, [Next]_vars
             PROVE  Abstract!Next \/ UNCHANGED Abstract!vars
  OBVIOUS
<1> DEFINE ops == [w \in Writers |-> OpOf(w)]
<1>0. /\ TypeOK /\ file.synced /\ durable.synced
  BY DEF StoreInv
<1>1. ASSUME NEW w \in Writers,
             UNCHANGED <<file, durable>>, dir' = "durable" <=> dir = "durable", UNCHANGED <<val, result>>,
             NEW stage, pc' = [pc EXCEPT ![w] = stage], pc[w] # "idle" /\ stage # "idle",
             pc[w] = "sync_dir" <=> stage = "sync_dir"
      PROVE  UNCHANGED Abstract!vars
  <2>1. \A u \in Writers : OpOf(u)' = OpOf(u)
    BY <1>0, <1>1 DEF OpOf, TypeOK
  <2> QED
    BY <1>1, <2>1 DEF Abstract!vars
<1>2. ASSUME NEW w \in Writers,
             MakeDirectory(w) \/ CreateTemp(w) \/ Write(w) \/ Sync(w)
      PROVE  UNCHANGED Abstract!vars
  <2>1. PICK stage \in {"create", "write", "sync", "rename"} :
          pc' = [pc EXCEPT ![w] = stage] /\ pc[w] \notin {"idle", "sync_dir"}
    BY <1>2 DEF MakeDirectory, CreateTemp, Write, Sync, Goto
  <2>2. UNCHANGED <<file, durable, val, result>> /\ (dir' = "durable" <=> dir = "durable")
    BY <1>2 DEF MakeDirectory, CreateTemp, Write, Sync, Goto
  <2> QED
    BY <1>1, <2>1, <2>2
<1>3. ASSUME NEW w \in Writers, BeginCommit(w) \/ BeginRemove(w) PROVE Abstract!Begin(w)
  <2>1. PICK stage \in {"mkdir", "remove"} : pc' = [pc EXCEPT ![w] = stage] /\ pc[w] = "idle"
    BY <1>3 DEF BeginCommit, BeginRemove
  <2>2. ops' = [ops EXCEPT ![w] = "pending"] /\ ops[w] = "idle"
    BY <1>0, <2>1 DEF OpOf, TypeOK
  <2>3. PICK v \in Values \cup {Absent} : val' = [val EXCEPT ![w] = v]
    BY <1>3 DEF BeginCommit, BeginRemove
  <2>4. result' = [result EXCEPT ![w] = "none"] /\ UNCHANGED <<file, durable, dir>>
    BY <1>3 DEF BeginCommit, BeginRemove
  <2> QED
    BY <2>2, <2>3, <2>4 DEF Abstract!Begin, Abstract!fileVars
<1>4. ASSUME NEW w \in Writers, pc[w] \notin {"idle", "sync_dir"}, file'.v = val[w],
             Goto(w, "sync_dir"), UNCHANGED <<dir, durable, val>>
      PROVE  Abstract!Apply(w)
  <2>1. ops' = [ops EXCEPT ![w] = "applied"] /\ ops[w] = "pending"
    BY <1>0, <1>4 DEF OpOf, TypeOK, Goto
  <2> QED
    BY <1>4, <2>1 DEF Abstract!Apply, Goto
<1>5. ASSUME NEW w \in Writers, Rename(w) PROVE Abstract!Apply(w)
  <2>1. pc[w] = "rename" /\ file'.v = val[w] /\ Goto(w, "sync_dir") /\ UNCHANGED <<dir, durable, val>>
    BY <1>5 DEF Rename
  <2> QED
    BY <1>4, <2>1
<1>6. ASSUME NEW w \in Writers, NEW res, Finish(w, res), UNCHANGED val
      PROVE  Abstract!Return(w, res)
  <2>1. ops' = [ops EXCEPT ![w] = "idle"]
    BY <1>0, <1>6 DEF OpOf, TypeOK, Finish
  <2> QED
    BY <1>6, <2>1 DEF Abstract!Return, Finish
<1>7. ASSUME NEW w \in Writers, Unlink(w) PROVE Abstract!Apply(w) \/ Abstract!Found(w)
  <2>1. pc[w] = "remove" /\ val[w] = Absent /\ UNCHANGED <<dir, durable, val>>
    BY <1>7 DEF Unlink, StoreInv
  <2>2. CASE file.v = Absent
    <3>1. Abstract!Return(w, "ok") /\ UNCHANGED file
      BY <1>6, <1>7, <2>1, <2>2 DEF Unlink
    <3>2. ops[w] = "pending"
      BY <2>1 DEF OpOf
    <3> QED
      BY <2>1, <2>2, <3>1, <3>2 DEF Abstract!Found, Abstract!fileVars
  <2>3. CASE file.v # Absent
    BY <1>4, <1>7, <2>1, <2>3 DEF Unlink
  <2> QED
    BY <2>2, <2>3
<1>8. ASSUME NEW w \in Writers, SyncDirectory(w) PROVE Abstract!Done(w)
  <2>1. Abstract!Return(w, "ok")
    BY <1>6, <1>8 DEF SyncDirectory
  <2>2. ops[w] = "applied" /\ durable' = file /\ UNCHANGED <<file, dir>>
    BY <1>8 DEF SyncDirectory, OpOf
  <2> QED
    BY <2>1, <2>2 DEF Abstract!Done
<1>9. ASSUME NEW w \in Writers, Fail(w) \/ Kill(w) PROVE Abstract!Abort(w)
  <2>1. PICK res \in {"error", "killed"} : Finish(w, res)
    BY <1>9 DEF Fail, Kill
  <2>2. UNCHANGED <<file, durable, dir, val>> /\ pc[w] # "idle"
    BY <1>9 DEF Fail, Kill
  <2>3. Abstract!Return(w, res)
    BY <1>6, <2>1, <2>2
  <2>4. ops[w] # "idle"
    BY <2>2 DEF OpOf
  <2> QED
    BY <2>2, <2>3, <2>4 DEF Abstract!Abort, Abstract!fileVars
<1>10. ASSUME UNCHANGED <<pc, val, result>>
       PROVE  UNCHANGED Abstract!callVars
  BY <1>10 DEF Abstract!callVars, OpOf
<1>11. CASE Writeback
  BY <1>10, <1>11 DEF Writeback, Abstract!Next, Abstract!Stabilize
<1>12. CASE WritebackParent
  BY <1>10, <1>12 DEF WritebackParent, Abstract!Next, Abstract!Root
<1>13. CASE Crash
  <2>1. ops' = [w \in Writers |-> "idle"]
    BY <1>13 DEF Crash, OpOf
  <2>2. result' = [w \in Writers |-> IF ops[w] = "idle" THEN result[w] ELSE "killed"]
    BY <1>13 DEF Crash, OpOf
  <2>3. UNCHANGED val
    BY <1>13 DEF Crash
  <2>4. CASE LoseDirectory
    <3>1. dir # "durable" /\ dir' # "durable" /\ file'.v = Absent /\ durable'.v = Absent
      BY <2>4 DEF LoseDirectory, Empty
    <3> QED
      BY <2>1, <2>2, <2>3, <3>1 DEF Abstract!Next, Abstract!Crash
  <2>5. CASE KeepDirectory
    <3>1. PICK f \in {file, durable} : file' = f /\ durable' = f
      BY <2>5, CrashKeeps
    <3>2. UNCHANGED dir /\ (dir # "durable" => f.v = Absent)
      BY <2>5, <1>0 DEF KeepDirectory, StoreInv, TypeOK, Empty
    <3> QED
      BY <2>1, <2>2, <2>3, <3>1, <3>2 DEF Abstract!Next, Abstract!Crash
  <2> QED
    BY <1>13, <2>4, <2>5 DEF Crash
<1>14. CASE UNCHANGED vars
  BY <1>14 DEF vars, Abstract!vars, OpOf
<1>15. ASSUME NEW w \in Writers, Commit(w) \/ Remove(w) \/ SyncDirectory(w) \/ Fail(w) \/ Kill(w)
       PROVE  Abstract!Next \/ UNCHANGED Abstract!vars
  BY <1>2, <1>3, <1>5, <1>7, <1>8, <1>9, <1>15 DEF Commit, Remove, Abstract!Next
<1>16. CASE Writeback \/ WritebackParent \/ Crash
  BY <1>11, <1>12, <1>13, <1>16
<1> QED
  BY <1>14, <1>15, <1>16 DEF Next

\* Whatever fails or crashes, whoever else writes: every call replaces the file
\* as a whole at one instant or not at all, and a call that succeeds leaves its
\* change, or a later one, for any crash that leaves the directory.
THEOREM StoreIsAtomicFile == Spec => ImplementsAtomicFile
<1>1. Init => Abstract!Init
  BY DEF Init, Abstract!Init, Empty, OpOf
<1>2. StoreInv /\ [Next]_vars => [Abstract!Next]_(Abstract!vars)
  BY StepRefines
<1> QED
  BY <1>1, <1>2, StoreInvAlways, PTL DEF Spec, ImplementsAtomicFile, Abstract!Spec
=============================================================================
