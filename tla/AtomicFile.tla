----------------------------- MODULE AtomicFile -----------------------------
(***************************************************************************)
(* What ownership.Store promises its callers: a change replaces or removes *)
(* the file as a whole and takes effect at one instant of the call; a call *)
(* that returns without an error has taken effect and made what is in      *)
(* place stable.  A crash of the node leaves the last value or the last    *)
(* stable one, provided the directory itself is on the disk (rooted): the  *)
(* directory a first change creates may be lost with all that is in it.    *)
(***************************************************************************)
CONSTANTS Writers, Values, Absent

VARIABLES
    value, stable,  \* the file now, and as a crash would leave it
    rooted,         \* whether a crash leaves the directory
    op,             \* per writer: "idle", or its change is "pending" or "applied"
    arg, result     \* per writer: the change, and the outcome of the last one

fileVars == <<value, stable, rooted>>
callVars == <<op, arg, result>>
vars == <<value, stable, rooted, op, arg, result>>

Init ==
    /\ value = Absent /\ stable = Absent /\ rooted \in BOOLEAN
    /\ op = [w \in Writers |-> "idle"]
    /\ arg = [w \in Writers |-> Absent] /\ result = [w \in Writers |-> "none"]

Return(w, res) ==
    /\ op' = [op EXCEPT ![w] = "idle"]
    /\ result' = [result EXCEPT ![w] = res]
    /\ UNCHANGED arg

Begin(w) ==
    /\ op[w] = "idle" /\ op' = [op EXCEPT ![w] = "pending"]
    /\ \E v \in Values \cup {Absent} : arg' = [arg EXCEPT ![w] = v]
    /\ result' = [result EXCEPT ![w] = "none"]
    /\ UNCHANGED fileVars

\* The one instant at which others see the change.
Apply(w) ==
    /\ op[w] = "pending" /\ op' = [op EXCEPT ![w] = "applied"]
    /\ value' = arg[w]
    /\ UNCHANGED <<stable, rooted, arg, result>>

\* There was nothing to remove.
Found(w) ==
    /\ op[w] = "pending" /\ arg[w] = Absent /\ value = Absent
    /\ Return(w, "ok") /\ UNCHANGED fileVars

\* Success: the change, or a later one, is stable.
Done(w) ==
    /\ op[w] = "applied" /\ stable' = value
    /\ Return(w, "ok") /\ UNCHANGED <<value, rooted>>

\* An error, or the writer is killed; the change may have been applied.
Abort(w) ==
    /\ op[w] # "idle" /\ \E res \in {"error", "killed"} : Return(w, res)
    /\ UNCHANGED fileVars

Stabilize == stable' = value /\ UNCHANGED <<value, rooted, callVars>>
Root == rooted' = TRUE /\ UNCHANGED <<value, stable, callVars>>

Crash ==
    /\ \E v \in IF rooted THEN {value, stable} ELSE {Absent} : value' = v /\ stable' = v
    /\ op' = [w \in Writers |-> "idle"]
    /\ result' = [w \in Writers |-> IF op[w] = "idle" THEN result[w] ELSE "killed"]
    /\ UNCHANGED <<rooted, arg>>

Next ==
    \/ \E w \in Writers : Begin(w) \/ Apply(w) \/ Found(w) \/ Done(w) \/ Abort(w)
    \/ Stabilize \/ Root \/ Crash

Spec == Init /\ [][Next]_vars
=============================================================================
