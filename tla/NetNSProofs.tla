----------------------------- MODULE NetNSProofs -----------------------------
(***************************************************************************)
(* Proofs about NetNS for every set of threads and namespaces.  They are   *)
(* about any system whose steps on these variables are steps of            *)
(* WithNetNS, so that EndpointResolver's proofs can use them.              *)
(***************************************************************************)
EXTENDS NetNS, TLAPS

USE ConstantsAssumption

\* A step on the variables of NetNS, up to the bound on faults.
NetNSStep ==
    \/ \E t \in Threads, target \in Inodes : WithNetNS(t, target)
    \/ OpenSelf \/ Return \/ Restore \/ EnterFails
    \/ \E found \in Namespaces : Enter(found)
    \/ \E t \in Threads : Spawn(t)

\* The types without the bound on faults.
CallTypes ==
    /\ ns \in [Threads -> Namespaces] /\ parked \subseteq Threads
    /\ stack \in Seq(Frames)

\* Every namespace has an inode.
LEMMA Inodes1 == \A n \in Namespaces : InodeOf[n] \in Inodes
BY DEF Inodes

\* What the operations on the stack of calls do.
LEMMA TopFrame ==
  ASSUME CallTypes, stack # <<>>
  PROVE  /\ Len(stack) \in Nat \ {0} /\ Len(stack) \in DOMAIN stack /\ DOMAIN stack = 1..Len(stack)
         /\ Top \in Frames /\ Top = stack[Len(stack)]
BY DEF CallTypes, Top

\* What a frame of the stack is made of.
LEMMA FrameTypes ==
  ASSUME CallTypes, NEW i \in DOMAIN stack
  PROVE  /\ stack[i] \in Frames /\ stack[i].thread \in Threads /\ stack[i].target \in Inodes
         /\ stack[i].original \in Namespaces
<1>1. stack[i] \in Frames
  BY DEF CallTypes
<1> QED BY <1>1 DEF Frames

\* The innermost call goes on.
LEMMA SetTopStack ==
  ASSUME CallTypes, stack # <<>>, NEW frame \in Frames, SetTop(frame)
  PROVE  /\ stack' \in Seq(Frames) /\ Len(stack') = Len(stack) /\ DOMAIN stack' = DOMAIN stack
         /\ stack'[Len(stack)] = frame
         /\ \A i \in DOMAIN stack : i # Len(stack) => stack'[i] = stack[i]
BY TopFrame DEF CallTypes, SetTop

\* The first elements of a sequence.
LEMMA Prefix ==
  ASSUME NEW S, NEW s \in Seq(S), NEW n \in Nat, n <= Len(s)
  PROVE  /\ SubSeq(s, 1, n) \in Seq(S) /\ Len(SubSeq(s, 1, n)) = n
         /\ \A i \in 1..n : SubSeq(s, 1, n)[i] = s[i]
OBVIOUS

\* The innermost call returns.
LEMMA PopStack ==
  ASSUME CallTypes, stack # <<>>, Pop
  PROVE  /\ stack' \in Seq(Frames) /\ Len(stack') = Len(stack) - 1
         /\ DOMAIN stack' = DOMAIN stack \ {Len(stack)}
         /\ \A i \in DOMAIN stack' : stack'[i] = stack[i]
<1> DEFINE n == Len(stack) - 1
<1>1. stack' = SubSeq(stack, 1, n) /\ n \in Nat /\ n <= Len(stack) /\ stack \in Seq(Frames)
  BY TopFrame DEF Pop, CallTypes
<1> HIDE DEF n
<1>2. stack' \in Seq(Frames) /\ Len(stack') = n /\ \A i \in 1..n : stack'[i] = stack[i]
  BY <1>1, Prefix
<1>3. DOMAIN stack' = 1..n /\ DOMAIN stack = 1..Len(stack)
  BY <1>1, <1>2, TopFrame
<1> QED BY <1>1, <1>2, <1>3 DEF n

\* A call begins.
LEMMA PushStack ==
  ASSUME CallTypes, NEW t \in Threads, NEW target \in Inodes, WithNetNS(t, target)
  PROVE  /\ stack' \in Seq(Frames) /\ Len(stack') = Len(stack) + 1
         /\ DOMAIN stack' = DOMAIN stack \cup {Len(stack) + 1} /\ Len(stack) \in Nat
         /\ stack'[Len(stack) + 1] = [thread |-> t, target |-> target, original |-> "host",
                                      stage |-> "open_self"]
         /\ \A i \in DOMAIN stack : stack'[i] = stack[i]
<1> DEFINE frame == [thread |-> t, target |-> target, original |-> "host", stage |-> "open_self"]
<1>1. frame \in Frames
  BY DEF Frames, Namespaces
<1>2. stack' = Append(stack, frame)
  BY DEF WithNetNS
<1> HIDE DEF frame
<1>3. /\ stack' \in Seq(Frames) /\ Len(stack') = Len(stack) + 1 /\ stack'[Len(stack) + 1] = frame
      /\ Len(stack) \in Nat
      /\ \A i \in 1..Len(stack) : stack'[i] = stack[i]
  BY <1>1, <1>2 DEF CallTypes
<1>4. DOMAIN stack' = 1..(Len(stack) + 1) /\ DOMAIN stack = 1..Len(stack)
  BY <1>3 DEF CallTypes
<1> QED BY <1>3, <1>4 DEF frame

-----------------------------------------------------------------------------
(***************************************************************************)
(* Types.                                                                  *)
(***************************************************************************)

\* Every step keeps the types.
LEMMA TypesStep ==
  ASSUME CallTypes, NetNSStep
  PROVE  CallTypes'
<1> USE TopFrame
<1>1. CASE \E t \in Threads, target \in Inodes : WithNetNS(t, target)
  BY <1>1, PushStack DEF CallTypes, WithNetNS
<1>2. CASE OpenSelf
  <2>1. stack # <<>> /\ UNCHANGED <<ns, parked>>
    BY <1>2 DEF OpenSelf, Active
  <2>2. ns[Leader] \in Namespaces
    BY DEF CallTypes
  <2>3. [Top EXCEPT !.original = ns[Leader], !.stage = "open_target"] \in Frames
    BY <2>1, <2>2 DEF Frames
  <2> QED BY <1>2, <2>1, <2>3, SetTopStack, PopStack DEF OpenSelf, CallTypes
<1>3. CASE Return
  <2>1. [Top EXCEPT !.stage = "restore"] \in Frames /\ stack # <<>>
    BY <1>3 DEF Frames, Return, Active
  <2> QED BY <1>3, <2>1, SetTopStack DEF Return, CallTypes
<1>4. CASE Restore
  <2>1. stack # <<>> /\ Top \in Frames /\ Pop
    BY <1>4 DEF Restore, Active
  <2>2. Top.thread \in Threads /\ Top.original \in Namespaces
    BY <2>1 DEF Frames
  <2>3. ns' \in [Threads -> Namespaces] /\ parked' \subseteq Threads
    BY <1>4, <2>2 DEF Restore, CallTypes
  <2> QED BY <2>1, <2>3, PopStack DEF CallTypes
<1>5. CASE EnterFails
  BY <1>5, PopStack DEF EnterFails, Active, CallTypes
<1>6. CASE \E found \in Namespaces : Enter(found)
  <2>1. stack # <<>> /\ UNCHANGED parked /\ SetTop([Top EXCEPT !.stage = "run"])
    BY <1>6 DEF Enter, Active
  <2>2. [Top EXCEPT !.stage = "run"] \in Frames
    BY <2>1 DEF Frames
  <2>3. ns' \in [Threads -> Namespaces]
    BY <1>6 DEF Enter, CallTypes
  <2> QED BY <2>1, <2>2, <2>3, SetTopStack DEF CallTypes
<1>7. CASE \E t \in Threads : Spawn(t)
  BY <1>7 DEF Spawn, CallTypes, Namespaces
<1> QED BY <1>1, <1>2, <1>3, <1>4, <1>5, <1>6, <1>7 DEF NetNSStep

-----------------------------------------------------------------------------
(***************************************************************************)
(* A callback runs in its target.                                          *)
(***************************************************************************)

\* Calls in progress have threads of their own, which the scheduler still has.
Owned ==
    /\ \A i, j \in DOMAIN stack : stack[i].thread = stack[j].thread => i = j
    /\ \A i \in DOMAIN stack : stack[i].thread \notin parked

\* The invariant of calls, nested or not.
CallInv == CallTypes /\ Owned /\ CallbackInTarget

\* A step that replaces the innermost frame by one with the same thread, and
\* moves no thread but that one, disturbs no callback below it.
LEMMA SameThread ==
  ASSUME CallInv, stack # <<>>, NEW frame \in Frames, SetTop(frame),
         frame.thread = Top.thread, UNCHANGED parked,
         \A t \in Threads \ {Top.thread} : ns'[t] = ns[t],
         frame.stage = "run" => InodeOf[ns'[Top.thread]] = frame.target
  PROVE  Owned' /\ CallbackInTarget'
<1>0. CallTypes /\ Owned /\ CallbackInTarget
  BY DEF CallInv
<1>1. /\ DOMAIN stack' = DOMAIN stack /\ Len(stack) \in DOMAIN stack
      /\ stack'[Len(stack)] = frame /\ Top = stack[Len(stack)]
      /\ \A i \in DOMAIN stack : i # Len(stack) => stack'[i] = stack[i]
  BY <1>0, SetTopStack, TopFrame
<1>2. \A i \in DOMAIN stack : stack'[i].thread = stack[i].thread
  BY <1>1
<1>3. Owned'
  BY <1>0, <1>1, <1>2 DEF Owned
<1>4. ASSUME NEW i \in DOMAIN stack', stack'[i].stage = "run"
      PROVE  InodeOf[ns'[stack'[i].thread]] = stack'[i].target
  <2>1. CASE i = Len(stack)
    BY <1>1, <1>4, <2>1
  <2>2. CASE i # Len(stack)
    <3>1. stack'[i] = stack[i] /\ stack[i].thread # Top.thread
      BY <1>0, <1>1, <1>4, <2>2 DEF Owned
    <3>2. stack[i].thread \in Threads
      BY <1>0, <1>1, <1>4, FrameTypes
    <3> QED BY <1>0, <1>1, <1>4, <3>1, <3>2 DEF CallbackInTarget
  <2> QED BY <2>1, <2>2
<1> QED BY <1>3, <1>4 DEF CallbackInTarget

\* So does a call that ends.
LEMMA LastThread ==
  ASSUME CallInv, stack # <<>>, Pop,
         parked' \in {parked, parked \cup {Top.thread}},
         \A t \in Threads \ {Top.thread} : ns'[t] = ns[t]
  PROVE  Owned' /\ CallbackInTarget'
<1>0. CallTypes /\ Owned /\ CallbackInTarget
  BY DEF CallInv
<1>1. /\ DOMAIN stack' = DOMAIN stack \ {Len(stack)} /\ Len(stack) \in DOMAIN stack
      /\ Top = stack[Len(stack)]
      /\ \A i \in DOMAIN stack' : stack'[i] = stack[i]
  BY <1>0, PopStack, TopFrame
<1>2. \A i \in DOMAIN stack' : stack[i].thread # Top.thread /\ stack[i].thread \in Threads
  BY <1>0, <1>1, FrameTypes DEF Owned
<1>3. Owned'
  BY <1>0, <1>1, <1>2 DEF Owned
<1>4. CallbackInTarget'
  BY <1>0, <1>1, <1>2 DEF CallbackInTarget
<1> QED BY <1>3, <1>4

\* Every step keeps it.
LEMMA CallInvStep ==
  ASSUME CallInv, NetNSStep
  PROVE  CallInv'
<1>0. CallTypes /\ Owned /\ CallbackInTarget /\ CallTypes'
  BY TypesStep DEF CallInv
<1> SUFFICES Owned' /\ CallbackInTarget'
  BY <1>0 DEF CallInv
<1>1. ASSUME NEW t \in Threads, NEW target \in Inodes, WithNetNS(t, target)
      PROVE  Owned' /\ CallbackInTarget'
  <2>1. UNCHANGED <<ns, parked>> /\ t \notin parked /\ \A i \in DOMAIN stack : stack[i].thread # t
    BY <1>1 DEF WithNetNS, Pool, Locked
  <2>2. /\ DOMAIN stack' = DOMAIN stack \cup {Len(stack) + 1}
        /\ stack'[Len(stack) + 1].thread = t /\ stack'[Len(stack) + 1].stage = "open_self"
        /\ \A i \in DOMAIN stack : stack'[i] = stack[i]
    <3> DEFINE frame == [thread |-> t, target |-> target, original |-> "host", stage |-> "open_self"]
    <3>1. /\ DOMAIN stack' = DOMAIN stack \cup {Len(stack) + 1} /\ stack'[Len(stack) + 1] = frame
          /\ \A i \in DOMAIN stack : stack'[i] = stack[i]
      BY <1>0, <1>1, PushStack
    <3>2. frame.thread = t /\ frame.stage = "open_self"
      OBVIOUS
    <3> HIDE DEF frame
    <3> QED BY <3>1, <3>2
  <2> QED BY <1>0, <2>1, <2>2 DEF Owned, CallbackInTarget
<1>2. CASE OpenSelf
  <2>1. stack # <<>> /\ UNCHANGED <<ns, parked>> /\ Top \in Frames
    BY <1>0, <1>2, TopFrame DEF OpenSelf, Active
  <2>2. CASE Pop
    BY <2>1, <2>2, LastThread
  <2>3. CASE SetTop([Top EXCEPT !.original = ns[Leader], !.stage = "open_target"])
    <3>1. ns[Leader] \in Namespaces
      BY <1>0 DEF CallTypes
    <3> DEFINE frame == [Top EXCEPT !.original = ns[Leader], !.stage = "open_target"]
    <3>2. frame \in Frames /\ frame.thread = Top.thread /\ frame.stage = "open_target"
      BY <2>1, <3>1 DEF Frames
    <3>3. SetTop(frame)
      BY <2>3
    <3> HIDE DEF frame
    <3> QED BY <2>1, <3>2, <3>3, SameThread
  <2> QED BY <1>2, <2>2, <2>3 DEF OpenSelf
<1>3. CASE Return
  <2>1. stack # <<>> /\ UNCHANGED <<ns, parked>> /\ Top \in Frames
    BY <1>0, <1>3, TopFrame DEF Return, Active
  <2> DEFINE frame == [Top EXCEPT !.stage = "restore"]
  <2>2. frame \in Frames /\ frame.thread = Top.thread /\ frame.stage = "restore" /\ SetTop(frame)
    BY <1>3, <2>1 DEF Frames, Return
  <2> HIDE DEF frame
  <2> QED BY <2>1, <2>2, SameThread
<1>4. CASE Restore
  <2>1. stack # <<>> /\ Pop
    BY <1>4 DEF Restore, Active
  <2>2. /\ parked' \in {parked, parked \cup {Top.thread}}
        /\ \A t \in Threads \ {Top.thread} : ns'[t] = ns[t]
    BY <1>0, <1>4 DEF Restore, CallTypes
  <2> QED BY <2>1, <2>2, LastThread
<1>5. CASE EnterFails
  BY <1>5, LastThread DEF EnterFails, Active
<1>6. ASSUME NEW found \in Namespaces, Enter(found)
      PROVE  Owned' /\ CallbackInTarget'
  <2>1. stack # <<>> /\ UNCHANGED parked /\ Top \in Frames
    BY <1>0, <1>6, TopFrame DEF Enter, Active
  <2> DEFINE frame == [Top EXCEPT !.stage = "run"]
  <2>2. frame \in Frames /\ frame.thread = Top.thread /\ frame.target = Top.target /\ SetTop(frame)
    BY <1>6, <2>1 DEF Frames, Enter
  <2>3. Top.thread \in Threads
    BY <2>1 DEF Frames
  <2>4. /\ \A t \in Threads \ {Top.thread} : ns'[t] = ns[t]
        /\ InodeOf[ns'[Top.thread]] = Top.target
    BY <1>0, <1>6, <2>3 DEF Enter, CallTypes
  <2> HIDE DEF frame
  <2> QED BY <2>1, <2>2, <2>4, SameThread
<1>7. ASSUME NEW t \in Threads, Spawn(t)
      PROVE  Owned' /\ CallbackInTarget'
  <2>1. /\ stack' = stack /\ parked' \subseteq parked /\ t \in parked
        /\ \A u \in Threads \ {t} : ns'[u] = ns[u]
    BY <1>0, <1>7 DEF Spawn, CallTypes
  <2>2. \A i \in DOMAIN stack : stack[i].thread # t /\ stack[i].thread \in Threads
    BY <1>0, <2>1, FrameTypes DEF Owned
  <2> QED BY <1>0, <2>1, <2>2 DEF Owned, CallbackInTarget
<1> QED BY <1>1, <1>2, <1>3, <1>4, <1>5, <1>6, <1>7 DEF NetNSStep

-----------------------------------------------------------------------------
(***************************************************************************)
(* The threads of the pool are home.                                       *)
(***************************************************************************)

\* With one call at a time, what is remembered as the original namespace is
\* the host's: the leader is either free and home, or has just been picked up
\* and has not moved yet.
HomeInv ==
    /\ CallInv /\ PoolIsHome
    /\ Leader \notin parked
    /\ \A i \in DOMAIN stack :
        /\ i = 1
        /\ stack[i].stage \in {"open_self", "open_target"} => ns[stack[i].thread] = "host"
        /\ stack[i].stage # "open_self" => stack[i].original = "host"

\* The thread of the call is the only locked one.
LEMMA OneCall ==
  ASSUME HomeInv, stack # <<>>
  PROVE  /\ Len(stack) = 1 /\ Top = stack[1] /\ DOMAIN stack = {1} /\ Top \in Frames
         /\ Locked = {Top.thread} /\ Top.thread \in Threads /\ Top.thread \notin parked
<1>1. CallTypes /\ Owned
  BY DEF HomeInv, CallInv
<1>2. Len(stack) \in DOMAIN stack /\ Top = stack[Len(stack)] /\ DOMAIN stack = 1..Len(stack) /\ Top \in Frames
  BY <1>1, TopFrame
<1>3. Len(stack) = 1 /\ DOMAIN stack = {1}
  BY <1>2 DEF HomeInv
<1>4. Locked = {stack[1].thread}
  BY <1>3 DEF Locked
<1> QED BY <1>1, <1>2, <1>3, <1>4, FrameTypes DEF Owned

\* Without a call no thread is locked.
LEMMA NoCall ==
  ASSUME stack = <<>>
  PROVE  Locked = {} /\ DOMAIN stack = {}
BY DEF Locked

\* A step of the call that is in progress: it goes on with frame.
LEMMA HomeGoesOn ==
  ASSUME HomeInv, stack # <<>>, NEW frame \in Frames, SetTop(frame), CallInv',
         frame.thread = Top.thread, UNCHANGED parked,
         \A t \in Threads \ {Top.thread} : ns'[t] = ns[t],
         frame.stage \in {"open_self", "open_target"} => ns'[Top.thread] = "host",
         frame.stage # "open_self" => frame.original = "host"
  PROVE  HomeInv'
<1>0. CallTypes
  BY DEF HomeInv, CallInv
<1>1. DOMAIN stack' = {1} /\ stack'[1] = frame
  BY <1>0, OneCall, SetTopStack
<1>2. Locked' = {Top.thread} /\ Locked = {Top.thread}
  BY <1>1, OneCall DEF Locked
<1>3. PoolIsHome'
  BY <1>2 DEF PoolIsHome, Pool, HomeInv
<1> QED BY <1>1, <1>3 DEF HomeInv

\* It is over: its thread is home again, or parked.
LEMMA HomeEnds ==
  ASSUME HomeInv, stack # <<>>, Pop, CallInv',
         \/ parked' = parked /\ ns'[Top.thread] = "host"
         \/ parked' = parked \cup {Top.thread} /\ Top.thread # Leader,
         \A t \in Threads \ {Top.thread} : ns'[t] = ns[t]
  PROVE  HomeInv'
<1>0. CallTypes
  BY DEF HomeInv, CallInv
<1>1. DOMAIN stack' = {}
  BY <1>0, OneCall, PopStack
<1>2. Locked' = {} /\ Locked = {Top.thread}
  BY <1>1, OneCall DEF Locked
<1>3. PoolIsHome'
  BY <1>2 DEF PoolIsHome, Pool, HomeInv
<1> QED BY <1>1, <1>3 DEF HomeInv

\* Every step keeps the threads home, if calls are not nested.
LEMMA HomeInvStep ==
  ASSUME Leader \notin FailingThreads, HomeInv, NetNSStep,
         (\E t \in Threads, target \in Inodes : WithNetNS(t, target)) => stack = <<>>
  PROVE  HomeInv'
<1>0. CallTypes /\ CallInv /\ CallInv' /\ PoolIsHome
  BY CallInvStep DEF HomeInv, CallInv
<1>1. ASSUME NEW t \in Threads, NEW target \in Inodes, WithNetNS(t, target)
      PROVE  HomeInv'
  <2>1. stack = <<>> /\ UNCHANGED <<ns, parked>> /\ ns[t] = "host"
    BY <1>0, <1>1 DEF WithNetNS, PoolIsHome
  <2> DEFINE frame == [thread |-> t, target |-> target, original |-> "host", stage |-> "open_self"]
  <2>2. DOMAIN stack' = {1} /\ stack'[1] = frame
    BY <1>0, <1>1, <2>1, PushStack, NoCall
  <2>3. frame.thread = t /\ frame.original = "host"
    OBVIOUS
  <2> HIDE DEF frame
  <2>4. Locked' = {t} /\ Locked = {}
    BY <2>1, <2>2, <2>3, NoCall DEF Locked
  <2>5. PoolIsHome'
    BY <1>0, <2>1, <2>4 DEF PoolIsHome, Pool
  <2> QED BY <1>0, <2>1, <2>2, <2>3, <2>5 DEF HomeInv
<1>2. CASE OpenSelf
  <2>1. stack # <<>> /\ UNCHANGED <<ns, parked>> /\ Top.stage = "open_self"
    BY <1>2 DEF OpenSelf, Active
  <2>2. ns[Top.thread] = "host"
    BY <2>1, OneCall DEF HomeInv
  <2>3. CASE Pop
    BY <1>0, <2>1, <2>2, <2>3, HomeEnds
  <2>4. CASE SetTop([Top EXCEPT !.original = ns[Leader], !.stage = "open_target"])
    <3>1. ns[Leader] = "host"
      <4>1. CASE Leader = Top.thread
        BY <2>2, <4>1
      <4>2. CASE Leader # Top.thread
        BY <1>0, <2>1, <4>2, OneCall DEF PoolIsHome, Pool, HomeInv
      <4> QED BY <4>1, <4>2
    <3> DEFINE frame == [Top EXCEPT !.original = ns[Leader], !.stage = "open_target"]
    <3>2. frame \in Frames /\ frame.thread = Top.thread /\ frame.original = "host"
      BY <2>1, <3>1, OneCall DEF Frames, Namespaces
    <3>3. SetTop(frame)
      BY <2>4
    <3> HIDE DEF frame
    <3> QED BY <1>0, <2>1, <2>2, <3>2, <3>3, HomeGoesOn
  <2> QED BY <1>2, <2>3, <2>4 DEF OpenSelf
<1>3. CASE Return
  <2>1. stack # <<>> /\ UNCHANGED <<ns, parked>> /\ Top.stage = "run"
    BY <1>3 DEF Return, Active
  <2>2. Top.original = "host"
    BY <2>1, OneCall DEF HomeInv
  <2> DEFINE frame == [Top EXCEPT !.stage = "restore"]
  <2>3. /\ frame \in Frames /\ frame.thread = Top.thread /\ frame.stage = "restore"
        /\ frame.original = "host" /\ SetTop(frame)
    BY <1>3, <2>1, <2>2, OneCall DEF Frames, Return
  <2> HIDE DEF frame
  <2> QED BY <1>0, <2>1, <2>3, HomeGoesOn
<1>4. CASE Restore
  <2>1. stack # <<>> /\ Pop /\ Top.stage = "restore"
    BY <1>4 DEF Restore, Active
  <2>2. Top.original = "host" /\ Top.thread \in Threads
    BY <2>1, OneCall DEF HomeInv
  <2>3. \A t \in Threads \ {Top.thread} : ns'[t] = ns[t]
    BY <1>0, <1>4 DEF Restore, CallTypes
  <2>4. \/ parked' = parked /\ ns'[Top.thread] = "host"
        \/ parked' = parked \cup {Top.thread} /\ Top.thread # Leader
    BY <1>0, <1>4, <2>2 DEF Restore, CallTypes
  <2> QED BY <1>0, <2>1, <2>3, <2>4, HomeEnds
<1>5. CASE EnterFails
  <2>1. stack # <<>> /\ Pop /\ UNCHANGED <<ns, parked>> /\ Top.stage = "open_target"
    BY <1>5 DEF EnterFails, Active
  <2>2. ns[Top.thread] = "host"
    BY <2>1, OneCall DEF HomeInv
  <2> QED BY <1>0, <2>1, <2>2, HomeEnds
<1>6. ASSUME NEW found \in Namespaces, Enter(found)
      PROVE  HomeInv'
  <2>1. stack # <<>> /\ UNCHANGED parked /\ Top.stage = "open_target"
    BY <1>6 DEF Enter, Active
  <2>2. Top.original = "host"
    BY <2>1, OneCall DEF HomeInv
  <2> DEFINE frame == [Top EXCEPT !.stage = "run"]
  <2>3. /\ frame \in Frames /\ frame.thread = Top.thread /\ frame.stage = "run"
        /\ frame.original = "host" /\ SetTop(frame)
    BY <1>6, <2>1, <2>2, OneCall DEF Frames, Enter
  <2>4. \A t \in Threads \ {Top.thread} : ns'[t] = ns[t]
    BY <1>0, <1>6 DEF Enter, CallTypes
  <2> HIDE DEF frame
  <2> QED BY <1>0, <2>1, <2>3, <2>4, HomeGoesOn
<1>7. ASSUME NEW t \in Threads, Spawn(t)
      PROVE  HomeInv'
  <2>1. /\ stack' = stack /\ parked' = parked \ {t} /\ t \in parked
        /\ ns'[t] = "host" /\ \A u \in Threads \ {t} : ns'[u] = ns[u]
    BY <1>0, <1>7 DEF Spawn, CallTypes
  <2>2. \A i \in DOMAIN stack : stack[i].thread # t /\ stack[i].thread \in Threads
    BY <1>0, <2>1, FrameTypes DEF CallInv, Owned
  <2>3. Locked' = Locked
    BY <2>1 DEF Locked
  <2>4. PoolIsHome'
    BY <1>0, <2>1, <2>3 DEF PoolIsHome, Pool
  <2> QED BY <1>0, <2>1, <2>2, <2>4 DEF HomeInv
<1> QED BY <1>1, <1>2, <1>3, <1>4, <1>5, <1>6, <1>7 DEF NetNSStep

-----------------------------------------------------------------------------
(***************************************************************************)
(* A caller with one call at a time.                                       *)
(***************************************************************************)
SingleCall == DOMAIN stack \subseteq {1}

\* The call in progress is the only one.
LEMMA TheCall ==
  ASSUME CallTypes, SingleCall, stack # <<>>
  PROVE  Len(stack) = 1 /\ DOMAIN stack = {1} /\ Top = stack[1] /\ Top \in Frames /\ Top.thread \in Threads
<1>1. Len(stack) \in DOMAIN stack /\ Top = stack[Len(stack)] /\ Top \in Frames /\ DOMAIN stack = 1..Len(stack)
  BY TopFrame
<1>2. Len(stack) = 1 /\ DOMAIN stack = {1}
  BY <1>1 DEF SingleCall
<1>3. Top.thread \in Threads
  BY <1>1 DEF Frames
<1> QED BY <1>1, <1>2, <1>3

\* The only call returns.
LEMMA CallOver ==
  ASSUME CallTypes, SingleCall, stack # <<>>, Pop
  PROVE  stack' = <<>> /\ DOMAIN stack' = {}
<1>1. stack' \in Seq(Frames) /\ Len(stack') = Len(stack) - 1
  BY PopStack
<1>2. Len(stack) = 1
  BY TheCall
<1>3. stack' = <<>>
  BY <1>1, <1>2
<1> QED BY <1>3

\* The only call goes on.
LEMMA CallGoesOn ==
  ASSUME CallTypes, SingleCall, stack # <<>>, NEW frame \in Frames, SetTop(frame)
  PROVE  stack' # <<>> /\ DOMAIN stack' = {1} /\ Top' = frame
<1>2. stack' \in Seq(Frames) /\ Len(stack') = 1 /\ DOMAIN stack' = {1} /\ stack'[1] = frame
  BY SetTopStack, TheCall
<1> QED BY <1>2 DEF Top

\* The stack after each step of the call.
LEMMA CallSteps ==
  ASSUME CallTypes, SingleCall
  PROVE  /\ OpenSelf => \/ stack' = <<>> /\ Fault
                        \/ /\ stack' # <<>> /\ Top'.stage = "open_target" /\ Top'.target = Top.target
                           /\ UNCHANGED faults
         /\ Return => stack' # <<>> /\ Top'.stage = "restore" /\ Top'.target = Top.target
         /\ \A found : Enter(found) => /\ stack' # <<>> /\ Top'.stage = "run" /\ Top'.target = Top.target
                                       /\ Top'.thread = Top.thread
         /\ EnterFails => stack' = <<>>
         /\ Restore => stack' = <<>>
<1>1. ASSUME OpenSelf
      PROVE  \/ stack' = <<>> /\ Fault
             \/ stack' # <<>> /\ Top'.stage = "open_target" /\ Top'.target = Top.target /\ UNCHANGED faults
  <2>1. stack # <<>> /\ Top \in Frames
    BY <1>1, TheCall DEF OpenSelf, Active
  <2>2. CASE Pop /\ Fault
    BY <2>1, <2>2, CallOver
  <2>3. CASE SetTop([Top EXCEPT !.original = ns[Leader], !.stage = "open_target"]) /\ UNCHANGED faults
    <3> DEFINE frame == [Top EXCEPT !.original = ns[Leader], !.stage = "open_target"]
    <3>1. ns[Leader] \in Namespaces
      BY DEF CallTypes
    <3>2. frame \in Frames /\ frame.stage = "open_target" /\ frame.target = Top.target /\ SetTop(frame)
      BY <2>1, <2>3, <3>1 DEF Frames
    <3> HIDE DEF frame
    <3> QED BY <2>1, <2>3, <3>2, CallGoesOn
  <2> QED BY <1>1, <2>2, <2>3 DEF OpenSelf
<1>2. ASSUME Return PROVE stack' # <<>> /\ Top'.stage = "restore" /\ Top'.target = Top.target
  <2> DEFINE frame == [Top EXCEPT !.stage = "restore"]
  <2>1. stack # <<>> /\ Top \in Frames /\ SetTop(frame)
    BY <1>2, TheCall DEF Return, Active
  <2>2. frame \in Frames /\ frame.stage = "restore" /\ frame.target = Top.target
    BY <2>1 DEF Frames
  <2> HIDE DEF frame
  <2> QED BY <2>1, <2>2, CallGoesOn
<1>3. ASSUME NEW found, Enter(found)
      PROVE  stack' # <<>> /\ Top'.stage = "run" /\ Top'.target = Top.target /\ Top'.thread = Top.thread
  <2> DEFINE frame == [Top EXCEPT !.stage = "run"]
  <2>1. stack # <<>> /\ Top \in Frames /\ SetTop(frame)
    BY <1>3, TheCall DEF Enter, Active
  <2>2. frame \in Frames /\ frame.stage = "run" /\ frame.target = Top.target /\ frame.thread = Top.thread
    BY <2>1 DEF Frames
  <2> HIDE DEF frame
  <2> QED BY <2>1, <2>2, CallGoesOn
<1>4. EnterFails => stack' = <<>>
  BY CallOver DEF EnterFails, Active
<1>5. Restore => stack' = <<>>
  BY CallOver DEF Restore, Active
<1> QED BY <1>1, <1>2, <1>3, <1>4, <1>5

\* It stays the only one.
LEMMA CallStaysSingle ==
  ASSUME CallTypes, SingleCall, OpenSelf \/ Return \/ Restore \/ EnterFails \/ \E found : Enter(found)
  PROVE  SingleCall'
<1>1. stack # <<>>
  BY DEF OpenSelf, Return, Restore, EnterFails, Enter, Active
<1>2. CASE Pop
  BY <1>1, <1>2, CallOver DEF SingleCall
<1>3. ASSUME NEW frame, SetTop(frame) PROVE SingleCall'
  <2>1. DOMAIN stack' = DOMAIN stack
    BY <1>3 DEF SetTop, CallTypes
  <2> QED BY <2>1 DEF SingleCall
<1> QED BY <1>2, <1>3 DEF OpenSelf, Return, Restore, EnterFails, Enter

\* A call that leaves one call in progress is the first one.
LEMMA SinglePush ==
  ASSUME CallTypes, SingleCall', NEW t \in Threads, NEW target \in Inodes, WithNetNS(t, target)
  PROVE  stack = <<>>
<1>1. DOMAIN stack' = DOMAIN stack \cup {Len(stack) + 1} /\ Len(stack) \in Nat
  BY PushStack
<1>2. Len(stack) + 1 = 1
  BY <1>1 DEF SingleCall
<1>3. Len(stack) = 0 /\ stack \in Seq(Frames)
  BY <1>1, <1>2 DEF CallTypes
<1> QED BY <1>3

\* The first call.
LEMMA CallBegins ==
  ASSUME CallTypes, stack = <<>>, NEW t \in Threads, NEW target \in Inodes, WithNetNS(t, target)
  PROVE  /\ stack' # <<>> /\ DOMAIN stack' = {1} /\ Top'.stage = "open_self" /\ Top'.target = target
         /\ SingleCall'
<1> DEFINE frame == [thread |-> t, target |-> target, original |-> "host", stage |-> "open_self"]
<1>1. /\ stack' \in Seq(Frames) /\ DOMAIN stack' = DOMAIN stack \cup {Len(stack) + 1}
      /\ Len(stack') = Len(stack) + 1 /\ stack'[Len(stack) + 1] = frame
  BY PushStack
<1>2. Len(stack) = 0
  OBVIOUS
<1>3. DOMAIN stack' = {1} /\ Len(stack') = 1 /\ stack'[1] = frame
  BY <1>1, <1>2, NoCall
<1>4. frame.stage = "open_self" /\ frame.target = target
  OBVIOUS
<1> HIDE DEF frame
<1>5. Top' = frame
  BY <1>3 DEF Top
<1>6. stack' # <<>>
  BY <1>3
<1> QED BY <1>3, <1>4, <1>5, <1>6 DEF SingleCall

-----------------------------------------------------------------------------
(***************************************************************************)
(* The theorems.                                                           *)
(***************************************************************************)

\* A step of NetNS is one of those above.
LEMMA NextIsStep == NetNSNext => NetNSStep
BY Inodes1 DEF NetNSNext, NetNSStep, Namespaces

\* At first all threads are home.
LEMMA InitHome == NetNSInit => HomeInv
<1> SUFFICES ASSUME NetNSInit PROVE HomeInv
  OBVIOUS
<1>1. CallTypes /\ DOMAIN stack = {} /\ Leader \notin parked
  BY DEF NetNSInit, CallTypes, Namespaces
<1>2. PoolIsHome
  BY DEF NetNSInit, PoolIsHome, Pool
<1> QED BY <1>1, <1>2 DEF HomeInv, CallInv, Owned, CallbackInTarget

\* A callback runs in a namespace with the inode it was given, on its own
\* thread, in nested calls too, whichever threads fail to go back and whatever
\* the calls below it and before it did.
THEOREM InTarget == NetNSSpec => []CallbackInTarget
<1>1. CallInv /\ [NetNSNext]_netnsVars => CallInv'
  <2>1. CallInv /\ UNCHANGED netnsVars => CallInv'
    BY DEF netnsVars, CallInv, CallTypes, Owned, CallbackInTarget
  <2> QED BY <2>1, CallInvStep, NextIsStep
<1>2. NetNSInit => CallInv
  BY InitHome DEF HomeInv
<1>3. CallInv => CallbackInTarget
  BY DEF CallInv
<1> QED BY <1>1, <1>2, <1>3, PTL DEF NetNSSpec

\* Without nested calls, and if going back never fails on the thread-group
\* leader, every thread of the pool is in the host's namespace whenever no
\* call uses it.
THEOREM ThreadsReturn ==
  ASSUME ~Nested, Leader \notin FailingThreads
  PROVE  NetNSSpec => []PoolIsHome
<1>1. HomeInv /\ [NetNSNext]_netnsVars => HomeInv'
  <2>1. HomeInv /\ UNCHANGED netnsVars => HomeInv'
    BY DEF netnsVars, HomeInv, PoolIsHome, Pool, Locked, CallInv, CallTypes, Owned, CallbackInTarget
  <2>2. HomeInv /\ (\E t \in Threads, target \in Inodes : WithNetNS(t, target)) => stack = <<>>
    <3> SUFFICES ASSUME HomeInv, stack # <<>>, NEW t \in Threads, NEW target \in Inodes,
                        WithNetNS(t, target)
                 PROVE  FALSE
      OBVIOUS
    <3> QED BY OneCall DEF WithNetNS, MaxDepth
  <2> QED BY <2>1, <2>2, HomeInvStep, NextIsStep
<1>2. HomeInv => PoolIsHome
  BY DEF HomeInv
<1> QED BY <1>1, <1>2, InitHome, PTL DEF NetNSSpec
==============================================================================
