--------------------------- MODULE OwnershipStore ---------------------------
(***************************************************************************)
(* ownership.Store: the state file, replaced through a temporary file.     *)
(*                                                                         *)
(* Commit makes the directory if it is missing, creates a temporary file   *)
(* in it, writes, syncs and closes that, renames it over the state file    *)
(* and syncs the directory.  Every system call may fail; a writer may be   *)
(* killed and the node may crash between any two of them.  Data that was   *)
(* not synced may be torn after a crash, and a change of a directory that  *)
(* was not synced may be lost: also the change of the parent that makes    *)
(* the directory, which nothing syncs.                                     *)
(***************************************************************************)
EXTENDS Integers

CONSTANTS
    Writers,     \* processes that use the store
    Values,      \* valid ownership states
    MaxChanges,  \* bound: replacements and removals of the file
    MaxFaults    \* bound: failed calls, kills and crashes

Absent == "absent"
Torn == "torn"

ASSUME ConstantsAssumption ==
    /\ {Absent, Torn} \cap Values = {}
    /\ MaxChanges \in Nat /\ MaxFaults \in Nat

VARIABLES
    dir,      \* the directory: "missing", "made" (its parent not synced) or "durable"
    file,     \* the state file as processes see it
    durable,  \* and as the directory on the disk has it
    pc, val,  \* per writer: the next step, the state being committed
    tmp,      \* per writer: the temporary file of its last operation (each has a new name)
    result,   \* per writer: outcome of its last operation
    acked,    \* history: number of the last change in this directory reported as done
    faults

vars == <<dir, file, durable, pc, val, tmp, result, acked, faults>>

\* The content of the file, the number of the change that brought it, and
\* whether its data has reached the disk.
Contents == [v : Values \cup {Absent, Torn}, n : 0..MaxChanges, synced : BOOLEAN]
Empty == [v |-> Absent, n |-> 0, synced |-> TRUE]

CommitStages == {"create", "write", "sync", "rename"}
Stages == {"idle", "mkdir", "sync_dir", "remove"} \cup CommitStages

\* Every variable has its type.
TypeOK ==
    /\ dir \in {"missing", "made", "durable"}
    /\ file \in Contents /\ durable \in Contents
    /\ pc \in [Writers -> Stages]
    /\ val \in [Writers -> Values \cup {Absent}]
    /\ tmp \in [Writers -> {"none", "volatile", "synced"}]
    /\ result \in [Writers -> {"none", "ok", "error", "killed"}]
    /\ acked \in 0..MaxChanges
    /\ faults \in 0..MaxFaults

Init ==
    /\ dir \in {"missing", "durable"}
    /\ file = Empty /\ durable = Empty
    /\ pc = [w \in Writers |-> "idle"] /\ val = [w \in Writers |-> Absent]
    /\ tmp = [w \in Writers |-> "none"] /\ result = [w \in Writers |-> "none"]
    /\ acked = 0 /\ faults = 0

-----------------------------------------------------------------------------
Fault == faults < MaxFaults /\ faults' = faults + 1

Goto(w, stage) == pc' = [pc EXCEPT ![w] = stage] /\ UNCHANGED result

Finish(w, res) ==
    /\ pc' = [pc EXCEPT ![w] = "idle"]
    /\ result' = [result EXCEPT ![w] = res]

\* Mutant: the state is not validated.
BeginCommitUnchecked(w) ==
    /\ pc[w] = "idle" /\ file.n < MaxChanges
    /\ \E v \in Values \cup {Torn} : val' = [val EXCEPT ![w] = v]
    /\ pc' = [pc EXCEPT ![w] = "mkdir"]
    /\ result' = [result EXCEPT ![w] = "none"]
    /\ tmp' = [tmp EXCEPT ![w] = "none"]
    /\ UNCHANGED <<dir, file, durable, acked, faults>>

\* A call of Commit with a state that passes validateState, or of Remove.
BeginCommit(w) ==
    /\ pc[w] = "idle" /\ file.n < MaxChanges
    /\ \E v \in Values : val' = [val EXCEPT ![w] = v]
    /\ pc' = [pc EXCEPT ![w] = "mkdir"]
    /\ result' = [result EXCEPT ![w] = "none"]
    /\ tmp' = [tmp EXCEPT ![w] = "none"]
    /\ UNCHANGED <<dir, file, durable, acked, faults>>

BeginRemove(w) ==
    /\ pc[w] = "idle" /\ file.n < MaxChanges
    /\ val' = [val EXCEPT ![w] = Absent]
    /\ pc' = [pc EXCEPT ![w] = "remove"]
    /\ result' = [result EXCEPT ![w] = "none"]
    /\ tmp' = [tmp EXCEPT ![w] = "none"]
    /\ UNCHANGED <<dir, file, durable, acked, faults>>

\* os.MkdirAll: a directory it makes is a change of its parent.
MakeDirectory(w) ==
    /\ pc[w] = "mkdir" /\ Goto(w, "create")
    /\ dir' = IF dir = "missing" THEN "made" ELSE dir
    /\ UNCHANGED <<file, durable, val, tmp, acked, faults>>

CreateTemp(w) ==
    /\ pc[w] = "create" /\ Goto(w, "write")
    /\ tmp' = [tmp EXCEPT ![w] = "volatile"]
    /\ UNCHANGED <<dir, file, durable, val, acked, faults>>

Write(w) ==
    /\ pc[w] = "write" /\ Goto(w, "sync")
    /\ UNCHANGED <<dir, file, durable, val, tmp, acked, faults>>

\* Mutant: the temporary file is closed but not synced.
SyncSkipped(w) ==
    /\ pc[w] = "sync" /\ Goto(w, "rename")
    /\ UNCHANGED <<dir, file, durable, val, tmp, acked, faults>>

\* tmp.Sync and tmp.Close.
Sync(w) ==
    /\ pc[w] = "sync" /\ Goto(w, "rename")
    /\ tmp' = [tmp EXCEPT ![w] = "synced"]
    /\ UNCHANGED <<dir, file, durable, val, acked, faults>>

Rename(w) ==
    /\ pc[w] = "rename" /\ file.n < MaxChanges
    /\ file' = [v |-> val[w], n |-> file.n + 1, synced |-> tmp[w] = "synced"]
    /\ tmp' = [tmp EXCEPT ![w] = "none"]
    /\ Goto(w, "sync_dir")
    /\ UNCHANGED <<dir, durable, val, acked, faults>>

\* os.Remove; a file that does not exist is no error and needs no sync.
Unlink(w) ==
    /\ pc[w] = "remove" /\ file.n < MaxChanges
    /\ IF file.v = Absent
       THEN Finish(w, "ok") /\ UNCHANGED file
       ELSE /\ file' = [v |-> Absent, n |-> file.n + 1, synced |-> TRUE]
            /\ Goto(w, "sync_dir")
    /\ UNCHANGED <<dir, durable, val, tmp, acked, faults>>

\* Mutant: the change is reported without waiting for the disk.
SyncDirectorySkipped(w) ==
    /\ pc[w] = "sync_dir" /\ acked' = file.n
    /\ Finish(w, "ok")
    /\ UNCHANGED <<dir, file, durable, val, tmp, faults>>

\* syncDirectory makes every change in the directory so far durable, not the
\* directory's own entry in its parent.
SyncDirectory(w) ==
    /\ pc[w] = "sync_dir"
    /\ durable' = file /\ acked' = file.n
    /\ Finish(w, "ok")
    /\ UNCHANGED <<dir, file, val, tmp, faults>>

\* Mutant: an error path without the deferred os.Remove.
FailLeavesTemp(w) ==
    /\ pc[w] # "idle" /\ Fault
    /\ Finish(w, "error")
    /\ UNCHANGED <<dir, file, durable, val, tmp, acked>>

\* Mutant: the error of os.Rename is lost, and Commit reports success.
FailSwallowed(w) ==
    /\ pc[w] # "idle" /\ Fault
    /\ tmp' = [tmp EXCEPT ![w] = "none"]
    /\ Finish(w, IF pc[w] = "rename" THEN "ok" ELSE "error")
    /\ UNCHANGED <<dir, file, durable, val, acked>>

\* A call fails, or the context is done: the deferred os.Remove takes the
\* temporary file away.  After the rename the file stays replaced.
Fail(w) ==
    /\ pc[w] # "idle" /\ Fault
    /\ tmp' = [tmp EXCEPT ![w] = "none"]
    /\ Finish(w, "error")
    /\ UNCHANGED <<dir, file, durable, val, acked>>

\* The directory reaches the disk without being asked to.
Writeback ==
    /\ durable # file /\ durable' = file
    /\ UNCHANGED <<dir, file, pc, val, tmp, result, acked, faults>>

WritebackParent ==
    /\ dir = "made" /\ dir' = "durable"
    /\ UNCHANGED <<file, durable, pc, val, tmp, result, acked, faults>>

\* A killed writer, and a crashed node, leave temporary files behind.
Kill(w) ==
    /\ pc[w] # "idle" /\ Fault
    /\ Finish(w, "killed")
    /\ UNCHANGED <<dir, file, durable, val, tmp, acked>>

\* The crash of a node whose disk has not got the directory takes the directory
\* and all that is in it.
LoseDirectory ==
    /\ dir = "made" /\ dir' = "missing"
    /\ file' = Empty /\ durable' = Empty /\ acked' = 0
    /\ tmp' = [w \in Writers |-> "none"]

\* Otherwise it leaves either view of the file, torn if its data was not synced.
KeepDirectory ==
    /\ dir # "made"
    /\ \E f \in {file, durable}, lost \in BOOLEAN :
        /\ file' = [f EXCEPT !.v = IF lost /\ ~f.synced THEN Torn ELSE @, !.synced = TRUE]
        /\ durable' = file'
    /\ UNCHANGED <<dir, tmp, acked>>

Crash ==
    /\ Fault /\ (LoseDirectory \/ KeepDirectory)
    /\ pc' = [w \in Writers |-> "idle"]
    /\ result' = [w \in Writers |-> IF pc[w] = "idle" THEN result[w] ELSE "killed"]
    /\ UNCHANGED val

Commit(w) ==
    \/ BeginCommit(w) \/ MakeDirectory(w) \/ CreateTemp(w) \/ Write(w) \/ Sync(w) \/ Rename(w)
Remove(w) == BeginRemove(w) \/ Unlink(w)

Next ==
    \/ \E w \in Writers : Commit(w) \/ Remove(w) \/ SyncDirectory(w) \/ Fail(w) \/ Kill(w)
    \/ Writeback \/ WritebackParent \/ Crash

Spec == Init /\ [][Next]_vars

-----------------------------------------------------------------------------
(***************************************************************************)
(* Properties.                                                             *)
(***************************************************************************)

\* Load never meets half a file, whoever was killed or crashed when.
NeverTorn == file.v # Torn /\ durable.v # Torn

\* What a crash leaves of the file.
OnDisk == IF dir = "durable" THEN durable ELSE Empty

\* What Commit or Remove has changed and reported as done is on the disk: a
\* crash brings back this change or a later one.  Until the disk has the
\* directory the first commit made, no change is safe, and this is not said.
AckedSurvives == dir # "made" => acked <= OnDisk.n

\* A temporary file outlives its Commit only if the writer was killed or the
\* node crashed.
NoLeak ==
    \A w \in Writers : pc[w] = "idle" /\ result[w] # "killed" => tmp[w] = "none"

\* The store implements an atomic file: every call takes effect at one instant
\* or not at all, and one that succeeds has taken effect and is stable.
OpOf(w) ==
    CASE pc[w] = "idle"     -> "idle"
      [] pc[w] = "sync_dir" -> "applied"
      [] OTHER              -> "pending"

Abstract ==
    INSTANCE AtomicFile WITH
        value <- file.v, stable <- durable.v, rooted <- dir = "durable",
        op <- [w \in Writers |-> OpOf(w)], arg <- val
ImplementsAtomicFile == Abstract!Spec

\* The inductive invariant behind them: only synced data is ever renamed into
\* place, no view of the file is older than what was reported, and there is
\* nothing in a directory that does not exist.
StoreInv ==
    /\ TypeOK
    /\ \A f \in {file, durable} : f.synced /\ f.v # Torn /\ acked <= f.n
    /\ dir = "missing" => /\ file = Empty /\ durable = Empty /\ acked = 0
                          /\ \A w \in Writers : pc[w] \in {"idle", "mkdir", "remove"}
    /\ \A w \in Writers : pc[w] = "rename" => tmp[w] = "synced"
    /\ \A w \in Writers : pc[w] \in CommitStages \cup {"mkdir"} => val[w] \in Values
    /\ \A w \in Writers : pc[w] = "remove" => val[w] = Absent
    /\ \A w \in Writers : pc[w] \in {"mkdir", "remove", "sync_dir"} => tmp[w] = "none"
    /\ NoLeak
=============================================================================
