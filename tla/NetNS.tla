-------------------------------- MODULE NetNS --------------------------------
(***************************************************************************)
(* NetNSManager.WithNetNS: running a callback in another network namespace.*)
(*                                                                         *)
(* A call starts a goroutine that locks an OS thread, remembers a          *)
(* namespace, enters the target, runs the callback and goes back.  The     *)
(* caller waits.  A callback may itself call WithNetNS (TCManager does,    *)
(* around withNetlinkHandle), so the calls in progress form a stack.       *)
(* Threads outside the stack are the Go scheduler's pool: whatever the     *)
(* agent does next (iptables, netlink on the host) runs on one of them.    *)
(***************************************************************************)
EXTENDS Integers, Sequences

CONSTANTS
    Threads, Leader,   \* OS threads of the agent; the thread-group leader
    PodNets,           \* network namespaces of pods
    InodeOf,           \* the inode of a namespace; reused once it is gone
    Nested,            \* callbacks may call WithNetNS
    FailingThreads,    \* threads on which going back may fail
    MaxFaults          \* bound: failed calls

ASSUME ConstantsAssumption ==
    /\ Leader \in Threads /\ FailingThreads \subseteq Threads
    /\ "host" \notin PodNets
    /\ InodeOf \in [PodNets \cup {"host"} -> Nat]
    /\ Nested \in BOOLEAN /\ MaxFaults \in Nat

Namespaces == PodNets \cup {"host"}
Inodes == {InodeOf[n] : n \in Namespaces}
MaxDepth == IF Nested THEN 2 ELSE 1

VARIABLES
    ns,      \* the namespace of a thread
    parked,  \* threads the scheduler will not use again
    stack,   \* calls in progress, the innermost last
    faults

netnsVars == <<ns, parked, stack, faults>>

Frames == [thread : Threads, target : Inodes, original : Namespaces,
           stage : {"open_self", "open_target", "run", "restore"}]

\* Every variable has its type.
NetNSTypeOK ==
    /\ ns \in [Threads -> Namespaces]
    /\ parked \subseteq Threads
    /\ stack \in Seq(Frames) /\ Len(stack) <= MaxDepth
    /\ faults \in 0..MaxFaults

NetNSInit ==
    /\ ns = [t \in Threads |-> "host"]
    /\ parked = {} /\ stack = <<>> /\ faults = 0

-----------------------------------------------------------------------------
Top == stack[Len(stack)]
Active(stage) == stack # <<>> /\ Top.stage = stage
Locked == {stack[i].thread : i \in DOMAIN stack}
Pool == Threads \ (Locked \cup parked)

SetTop(frame) == stack' = [stack EXCEPT ![Len(stack)] = frame]
Pop == stack' = SubSeq(stack, 1, Len(stack) - 1)
Fault == faults < MaxFaults /\ faults' = faults + 1

\* The agent, or a callback, calls WithNetNS; any free thread may pick up the
\* goroutine.
WithNetNS(t, target) ==
    /\ t \in Pool
    /\ \/ stack = <<>>
       \/ Active("run") /\ Len(stack) < MaxDepth
    /\ stack' = Append(stack, [thread |-> t, target |-> target, original |-> "host",
                               stage |-> "open_self"])
    /\ UNCHANGED <<ns, parked, faults>>

\* open("/proc/self/ns/net"): the namespace of the thread-group leader.
OpenSelf ==
    /\ Active("open_self")
    /\ \/ /\ SetTop([Top EXCEPT !.original = ns[Leader], !.stage = "open_target"])
          /\ UNCHANGED faults
       \/ Pop /\ Fault
    /\ UNCHANGED <<ns, parked>>

\* Mutant: the inode of the opened namespace is not compared.
EnterUnchecked(found) ==
    /\ Active("open_target")
    /\ ns' = [ns EXCEPT ![Top.thread] = found]
    /\ SetTop([Top EXCEPT !.stage = "run"])
    /\ UNCHANGED <<parked, faults>>

\* The target path is opened, which leads to the namespace found by now; its
\* inode is compared, and the thread moved.
Enter(found) ==
    /\ Active("open_target")
    /\ InodeOf[found] = Top.target
    /\ ns' = [ns EXCEPT ![Top.thread] = found]
    /\ SetTop([Top EXCEPT !.stage = "run"])
    /\ UNCHANGED <<parked, faults>>

\* The path is gone, leads to another inode, or setns fails.
EnterFails ==
    /\ Active("open_target") /\ Pop
    /\ UNCHANGED <<ns, parked>>

\* The callback returns, or is skipped because the context is done.
Return ==
    /\ Active("run")
    /\ SetTop([Top EXCEPT !.stage = "restore"])
    /\ UNCHANGED <<ns, parked, faults>>

\* Mutant: the thread is unlocked although going back failed.
RestoreUnlocks ==
    /\ Active("restore")
    /\ \/ ns' = [ns EXCEPT ![Top.thread] = Top.original] /\ UNCHANGED faults
       \/ Top.thread \in FailingThreads /\ Fault /\ UNCHANGED ns
    /\ Pop /\ UNCHANGED parked

\* setns(original) and UnlockOSThread; if setns fails the goroutine exits with
\* its thread locked, and the runtime ends that thread (it parks the leader).
Restore ==
    /\ Active("restore")
    /\ \/ ns' = [ns EXCEPT ![Top.thread] = Top.original] /\ UNCHANGED <<parked, faults>>
       \/ /\ Top.thread \in FailingThreads /\ Fault
          /\ parked' = parked \cup {Top.thread} /\ UNCHANGED ns
    /\ Pop

\* The runtime starts a new thread for one it ended.
Spawn(t) ==
    /\ t \in parked \ {Leader}
    /\ parked' = parked \ {t} /\ ns' = [ns EXCEPT ![t] = "host"]
    /\ UNCHANGED <<stack, faults>>

NetNSNext ==
    \/ \E t \in Threads, target \in PodNets : WithNetNS(t, InodeOf[target])
    \/ OpenSelf \/ Return \/ Restore
    \/ \E found \in Namespaces : Enter(found)
    \/ EnterFails /\ Fault
    \/ \E t \in Threads : Spawn(t)

NetNSSpec == NetNSInit /\ [][NetNSNext]_netnsVars

-----------------------------------------------------------------------------
\* When a call is over its thread is back in the host's namespace: no thread
\* of the pool is left in a pod's (test: "namespace was not restored after TC
\* operation").
PoolIsHome == \A t \in Pool : ns[t] = "host"

\* A callback runs in a namespace with the inode it was given, on its own
\* thread, whatever the calls below it and before it did.
CallbackInTarget ==
    \A i \in DOMAIN stack : stack[i].stage = "run" => InodeOf[ns[stack[i].thread]] = stack[i].target
=============================================================================
