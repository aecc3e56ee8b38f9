# FNCache: a TLA+ verification project

FNCache speeds up pod-to-pod traffic of a Flannel VXLAN cluster. On each node a
Go agent loads four TC programs and their BPF maps, attaches them to the
underlay device and to the pods' veth pairs, installs one iptables marker rule,
records what it owns in a file and enables the programs through `control_map`.
The programs learn, per flow, the headers and devices Flannel uses and then
redirect later packets past the stack; whatever they do not know is left to
Flannel.

The paths below are relative to the repository.

## 1. Inventory

| Component | State | Operations | Talks to |
|---|---|---|---|
| Agent, static runtime (`cmd/oncache-agent`, `internal/agent`) | manifest, objects of one run | `RunOnce` | endpoint scanner, coordinator |
| Coordinator (`internal/reconcile`) | agent state, gate | `FullReconcile`: disable, discover, scan, ensure, verify, commit, publish | backend |
| Backend (`internal/controlplane`) | none between stages but the observer's input | one method per stage; `EnsureCollection`, `EnsureMarker`, `EnsureBase`, `EnsureEndpoint`, `EnsureEndpointMaps`, `VerifyState` | everything below |
| BPF collection, control map, map writer (`internal/datapath/manager.go`, `control.go`, `map_writer.go`, `scan.go`) | pins under the pin root, map contents | `LoadAndPin`, `Unpin`, `Initialize`, `Disable`, `Publish`, `Ensure`, `Scan` | kernel |
| TC manager (`tc.go`, `tc_linux.go`, `tc_scan.go`) | filters at fixed positions | `EnsureFilter`, `RemoveFilter`, `Scan` | netlink, namespaces |
| Namespaces (`netns_linux.go`) | the namespace of each OS thread | `WithNetNS` | Go scheduler, kernel |
| Ownership store (`internal/ownership`) | one JSON file | `Load`, `Commit`, `Remove` | file system |
| Marker rule (`internal/overlay/flannel/rules.go`) | one rule of a mangle chain | `Scan`, `Ensure`, `Remove` | `iptables-nft` |
| Endpoint resolver, CRI client (`internal/resolver`) | what one scan has read so far | `Scan`, `Resolve`, `ResolveSandbox`, `PodEth0`, `HostVeth` | container runtime, `/proc`, netlink, namespaces |
| Preflight (`internal/discovery`) | the checks of one call | `Check`, `Probe` | files, commands, mangle table |
| Flannel discovery, configuration | none | read-only | `ip`, files |
| Datapath (`bpf/`) | `policy_cache`, `egressip_cache`, `egress_cache`, `ingress_cache`, `devmap`, `control_map` | `tc_masq`, `tc_restore`, `tc_init_e`, `tc_init_in` | stack, agent (through the maps) |

What is hard, and what correctness means:

* **Control plane.** A run makes some twenty writes to state that outlives the
  process (pins, filters, a rule, maps, a file), can stop after each of them,
  and shares the node with pods that come and go and with other users of TC and
  iptables. It is correct if the fast path is never on without the complete
  wiring that the ownership file records, if nothing is written while it is on,
  and if a later run repairs whatever an earlier one left.
* **Datapath.** Programs run on all CPUs at once, over LRU maps that forget at
  any time, while the agent rewires. Correct: only approved flows are redirected,
  to where Flannel would bring them; a packet that cannot be redirected reaches
  Flannel intact or not at all half rewritten; flows do get fast; the heartbeat
  ends the fast path.
* **Namespaces.** A Go thread that is left in a pod's namespace silently
  redirects whatever the agent does next.
* **Endpoint resolution.** A pod is found through five reads (runtime, `/proc`,
  namespace, host, runtime again) of things that are replaced and whose numbers
  are reused. Correct: what comes out is one sandbox; other pods neither hide a
  pod nor fail its scan; the list of links the TC scan visits has the present
  links.
* **TC filters.** Qdiscs and filters are listed, compared, added and deleted in
  separate netlink calls at an address whose link may be another one each time.
  Correct: filters only on the meant link, foreign filters survive, a reported
  success was true, and the filter gets there in the end.
* **Marker rule.** The chain is read, then edited by line number, while others
  edit it. Rules of others must survive.
* **Store.** The file must be whole after any crash, and what was reported must
  be there.

`PROJECT.json` lists the hazards line by line with the properties that cover
each of them.

## 2. Modules

| Module | Models | Run modules |
|---|---|---|
| `ControlPlane` | agent, coordinator, backend, pins, control map, filters, endpoint maps, on one node | `MCControlPlane` |
| `ControlPlaneProofs` | TLAPS proofs about it | |
| `FastPath` | the four TC programs, their maps, packets in flight | `MCFastPath` |
| `FastPathProofs` | TLAPS proofs about it | |
| `MarkerRule` | `MarkerRuleManager` and the chain it edits | itself |
| `MarkerRun` | extends it: runs of the agent over the mangle table (preflight, rule scan, Ensure) | itself |
| `MarkerRunProofs` | TLAPS proofs about both | |
| `NetNS` | `NetNSManager.WithNetNS` and OS threads | `MCNetNS` |
| `NetNSProofs` | TLAPS proofs about it | |
| `LinkPlan` | `mergeEndpointLinks` and the keys of `TCScanner.Scan`, as operators | |
| `LinkPlanProofs` | TLAPS lemmas about them | |
| `EndpointResolver` | extends `NetNS` and `LinkPlan`: endpoint scanner, resolver, CRI client, sandboxes of the node | `MCEndpointResolver` |
| `EndpointResolverProofs` | extends `NetNSProofs` and `LinkPlanProofs`: TLAPS proofs about it | |
| `TCFilters` | `TCManager` over `linuxTCBackend`, several managers, other users of TC | `MCTCFilters` |
| `TCFiltersProofs` | TLAPS proofs about it | |
| `OwnershipStore` | `ownership.Store` over a disk that can crash | itself |
| `AtomicFile` | the abstract specification of the store | |
| `OwnershipStoreProofs` | TLAPS proofs about the store and the refinement | |

The components meet at narrow interfaces, and each module has the others as the
actions its interface shows: `ControlPlane` takes the store as one atomic,
possibly failing write, which is what `OwnershipStore` is proved to provide, the
marker rule as present or not, the endpoint scan as the set of pods it finds
(`EndpointResolver` says what such a set is worth) and `EnsureFilter` as one step
on a slot (`TCFilters` takes it apart; `CallsTakeEffect` is what allows the one
step); `FastPath` takes the agent as `Disable`,
`Wire` and `Publish`, in the order `ControlPlane` allows.

Definitions named "Mutant" in a comment are deliberate faults; none of them is
used by a specification. Each shows that a property notices the fault.

### ControlPlane

`pc[a]` is the next step of agent `a`; its values are the stages of
`FullReconcile`, with Ensure unfolded into its writes. One action is one stage
or one write:

* `Start`, `Prepare`: process start; `RunOnce`'s endpoint scan, which decides
  the links the TC scanner will visit (`links`).
* `Disable`, `Discover`, `Scan`: the first three stages. `Discover` chooses
  whether preflight supports the node and which live pods resolve.
* `LoadAndPin`, `LoadMap`, `LoadPrograms`, `PinProgram`, `PinnedAll`,
  `Initialize`, `LoadError`: `EnsureCollection`. Maps are pinned one by one by
  the loader, programs one by one by the manager; `Unpin` is the clean-up.
* `EnsureMarker`, `Rescan`, `EnsureBase`, `NextEndpoint`, `EnsureEndpoint`,
  `EnsureEndpointMaps`: the rest of Ensure. A filter slot holds a program ID, a
  foreign filter or nothing.
* `Verify`, `CommitScan`, `CommitStore`, `Publish`: the last stages; Commit
  scans and verifies a second time.
* `StageError`: any stage fails or its context is cancelled.
* Environment: `Kill`, `Reboot`, `PodAdd`, `PodDelete`, `ForeignAttach`,
  `ForeignDetach`, `MarkerFlush`, `Evict`.

An endpoint is one incarnation of a pod; two incarnations may have the same
address one after the other. A program ID is the number of the collection it was
loaded with, so a filter left from an older collection is told apart.
`OtherMaps` stands for the seven maps besides `control_map`.

### FastPath

A packet is a record with its flow, direction, mark bits, the mark bits its
header checksum covers, and the values the program has read so far. Every map
lookup and update is a step, so two packets interleave between any two of them.
A policy element has an identity of its own (`policyAt`, `ready`), because
programs mark it through a pointer. Parsing is abstracted: packets in the model
are IPv4 TCP/UDP with complete headers (the others take the `out` label before
any state is touched). `Stack` is Flannel's path: it drops a header whose
checksum is wrong, tracks the connection and applies the marker rule. `Wire`,
`Publish` and `Disable` are the agent. `Wire` writes the `ingress_cache` entry as
`encodeIngressEntry` does, with the host veth's index and both MAC addresses, so
the programs use it at once and traffic need not complete it. The histories
`seen` and `homes` record what was learned and where Flannel has routed an
address; `wired` in an incoming packet is the pod its local address was wired to when it
came.

### MarkerRule, MarkerRun, NetNS, OwnershipStore

`MarkerRule`: the chain is a sequence; `Read`, `Create`, `Apply`, `Verify` are
the commands of Ensure and Remove, `CommandFails` the failure of any of them,
`Edit` other users of the chain and `CopyElsewhere` a rule with the agent's comment
in another chain. As in the code, `ReadMatch.lineNumber`
counts all rules of the chain. `ForeignOrder` is the sequence of the rules of
others; `ForeignRulesKept` compares it before and after every step of the
manager, so it notices a changed, a deleted and a moved rule.

`MarkerRun` puts these operations into runs: `StartRun`, the checks of the
preflight in their order (`CheckHost`, `CheckKernel`, `CheckIPv4` choose their
verdict, `CheckTOS` and `CheckExternalConflicts` read the rules of all chains, where
a copy of the marker in another chain is a conflict), `Report`,
`ScanRules`, then Ensure. As in `Checker.Check` a failed check does not stop the
others. The chain is edited between any two of these reads.

`NetNS`: calls in progress form a stack of (thread, target, original, stage);
`OpenSelf` reads the namespace of the thread-group leader, which is what
`/proc/self/ns/net` names; a thread whose return failed is never used again.

`OwnershipStore`: the file as processes and as the disk see it; a temporary file
per operation; `Crash` keeps either view of the directory and tears data that
was not synced. `dir` is the directory itself: `MakeDirectory` (`os.MkdirAll`) may
make it, which is a change of its parent that `syncDirectory` does not sync; until
the kernel does (`WritebackParent`) a crash takes the directory with all that is in
it. Numbers count the changes of the file in one life of the directory and are
history only. `AtomicFile` has the calls of each writer: a change takes effect at
one instant (`Apply`), success (`Done`) means that it has and that what is in place
is stable, and a crash leaves the last or the last stable value, or nothing if the
directory is not `rooted`.

### EndpointResolver and LinkPlan

A sandbox is its network namespace; it has a pod, a PID, an inode and a host
ifindex for life, and different sandboxes may share each of them one after the
other. `life` takes it from start over the exit of its pause process and the
moment the runtime notices to the end of its veth pair. One action is one read:
`ListPodSandbox`, `PodSandboxStatus`, `StatNetNS` (both rounds of
`ResolveSandbox`), `RunNS` with the actions of `NetNS` inside a call
(`OpenSelfInCall`, `EnterInCall`, `PodEth0`, `RestoreInCall`), `HostVeth`.
`Accept` is the comparison of the two rounds with `Validate`; `Skip` and `Fail`
are the two ways an error is treated. `Cancel` ends the context at any point; a
CRI call with an ended context is a skip, as in the code, and the scan fails at
the next pod. `undisturbed` is history. `Plan` is what `RunOnce` makes of the
result: `mergeEndpointLinks` overlays the manifest's links with the pairs of the
resolved endpoints, UID by UID. It is written as a recursive function over the
UIDs, which are numbers in the model, so that the provers can use its equations.

### TCFilters

The module follows one address (namespace path, inode, ifindex) whose link is
replaced. `pc[m]` is the next netlink call of manager `m`: `q_list`, `q_add`,
`q_relist` are `EnsureClsact`, `f_in` and `f_eg` the two listings, `load` and
`f_add` `AttachFilter`, `f_del` the delete. Every call checks the link first
(`lookupLink`). A filter remembers the link it was meant for, which only
`FilterOnOwnLink` looks at. `witnessed` is history: whether what an operation
promises has been true since its call.

## 3. Runs

| Run | Shows | Bounds |
|---|---|---|
| `control_plane` | `FastPathWired`, `ReconcilingIsDisabled`, `WritesOnlyWhileDisabled`, `RecoversOrWedged` | 3 endpoints (two share an address), 2 generations, 2 disturbances, also during the load |
| `wedge` | violated: `Recovers` with disturbances during the load | 2 endpoints, 2 disturbances |
| `fail_open` | violated: `FailedRunIsDisabled` | 1 disturbance |
| `fast_path` | `RedirectOnlyApproved`, `NoHalfRewrite`, `RedirectFollowsFlannel`, `ReadyBitsKept` | 2 packets, 2 flows to 2 hosts, 1 policy element, all maps under pressure, 1 fault, 1 move |
| `flows` | `RedirectFindsPod`, `FlowsGoFast`, `FastPathExpires` | 1 flow, 1 packet per direction, 2 pods with one address, heartbeats 1 and 2, timeout 1, time 0..3, 1 fault, 1 move, pressure on the three maps traffic refills |
| `fallback` | violated: `FallbackIntact` | no fault needed |
| `marker_rule` | `MarkerUnique`, `ForeignRulesKept`, `MarkerRestored` | 4 rules, 5 edits and failures, one foreign rule that uses the reserved bits; marker last, no insertion during Ensure or Remove |
| `foreign_rule` | violated: `ForeignRulesKept` | a rule behind the marker |
| `endpoints` | `EndpointCoherent`, `PlanCoversPods`, `FailsForItsPod`, `PoolIsHome`, `CallbackInTarget`, `Resolves` | 2 pods, 4 sandboxes that share PIDs, inodes and ifindexes in different combinations, 3 pod lists, 3 manifest link lists, 2 threads, 1 failure or cancellation; no nesting, return succeeds on the leader |
| `nested_netns` | violated: `PoolIsHome` | depth 2, no fault |
| `tc_filters` | `FilterOnOwnLink`, `CallsTakeEffect`, `ForeignFiltersKept`, `Converges` | 2 managers, 2 links at one address, 2 programs (one per hook), 2 program IDs, 3 steps of others or failures |
| `ownership_store` | `NeverTorn`, `AckedSurvives`, `NoLeak`, `ImplementsAtomicFile` | 2 writers, 2 values, 3 changes, 2 faults |

Each passing run also checks its module's `TypeOK`, except where the same module
already has it in another run.

**Why the bounds are enough.** Two disturbances allow every pair of "something
goes wrong, and again while it is being repaired"; a third endpoint allows one
address to be reused while another pod stays. Two packets give every pair of
programs concurrent; one policy element makes two flows compete for it at once; packets are
symmetric, and so are flows together with their remotes and hosts.
Time runs over heartbeat - 1, heartbeat, heartbeat + timeout and one more. Two
pods with one address in `flows` let the address be reused while a packet is on its
way and before one comes. Two threads are the leader and another; the call uses one, the pool has the other.
Of the four sandboxes, the second reuses every number of the first for another
pod, the third can be ready together with the first, and the fourth reuses some
numbers of the first for the same pod: each comparison in `SameSandbox` and
`Enter` is the only one that tells some pair apart. Three steps of others are
enough to delete a link, add the next one and change something on it in the
middle of one operation. The theorems of section 4
remove these bounds for every safety property of the passing runs.

**Fairness.** `ControlPlane!Fairness`: a run goes on (every stage is a bounded
call), the agent is started again after it ends (as a supervised process would
be; the repository has no loop of its own), and a foreign filter goes away.
`FastPath!Fairness`: packets move on, traffic keeps coming in both directions,
time passes, the agent finishes what it began. `MarkerRun!FairRunSpec`: runs are
repeated, go on, and a copied rule is taken away. `EndpointResolver!Fairness`: a
scan goes on (its calls are bounded), each pod list is scanned again and again
(strongly fair, since the environment may keep the scanner busy with others),
threads are replaced; nothing is assumed of the sandboxes. `TCFilters!Fairness`:
an operation goes on, and every program is ensured again and again with what has
just been observed, as each run of the agent does. Disturbances are not fair, they are
bounded, so each liveness property speaks of the time after the last one;
`MarkerRestored`, `Resolves` and `Converges` say so explicitly with `<>[]`.
`MCOwnershipStore.cfg` does not check deadlock: the bound on changes may be used
up.

### What the violated runs say

1. **wedge.** `Disable` refuses a control value with ABI version 0, which is what
   a freshly pinned map holds until `Initialize`. A failure in between is never
   repaired by a later run. `RecoversOrWedged` shows that this state (`Wedged`)
   is the only obstacle.
2. **fail_open.** The endpoint scan that precedes `Disable` can fail, and leaves a
   published fast path on.
3. **fallback.** `set_ip_tos` changes the TOS byte without the IPv4 header
   checksum. The checks of the other datapath runs let the traffic carry the
   miss bit by itself, so that what lies behind this point is reached as well.
4. **foreign_rule.** The line number is that of the last rule of the chain.
5. **nested_netns.** `/proc/self` is the thread-group leader.

### Limits the passing runs depend on

* **One agent.** Nothing serialises two agent processes: the guard of
  `EnsureEndpointMaps` gets the constant `true`, and `VerifyState`'s look at the
  control map reads a field nobody fills. With `Agents = {"a", "b"}` one agent
  writes a map while the publication of the other is in force, and
  `WritesOnlyWhileDisabled` fails.
* **No recycling.** With `Recycling = TRUE` an evicted policy element is reused
  while a program still points to it, and `RedirectOnlyApproved` fails: the late
  ready bit approves another flow. Whether the kernel does that is outside the
  repository, so the runs take `FALSE`.
* **No PID reuse before the runtime notices an exit.** With `PidReuse = TRUE` both
  answers of the runtime name the exited sandbox while its PID already leads to
  another pod, and `EndpointCoherent` and `FailsForItsPod` fail.
* **The return succeeds on the leader.** If it fails on the thread-group leader, the
  leader is retired in the pod's namespace; `/proc/self/ns/net` names that
  namespace from then on, and the next call "returns" its own thread to it:
  `PoolIsHome` fails with `FailingThreads = {Leader}`.
* **No takeover of a position that is about to be deleted.** With
  `Takeover = TRUE` another owner attaches between the list and the delete of
  `RemoveFilter`, and `ForeignFiltersKept` fails: the delete names only the
  position. In the same way a late remove of one manager may take the newer
  version another manager has just attached. The agent does not call
  `RemoveFilter`.
* **The marker is recognised.** `MarkerRestored` speaks of tables in which only
  the marker uses the reserved bits, and of a marker the preflight recognises
  (chain `ONCACHE`, comment `oncache:...`). A changed marker that still sets them
  is a conflict for the preflight, so Ensure, which would repair it, never runs.
* **Entries are never invalidated.** `egressip_cache` and `egress_cache` are
  written with `BPF_NOEXIST`, so `RedirectFollowsFlannel` can only promise a host
  Flannel *has used*. `ingress_cache` keeps the veth of a deleted pod until a run
  wires the next pod with its address: `RedirectFindsPod` excludes the old veth from
  then on, not before. `FlowsGoFast` excludes a stale `egressip_cache` entry: if
  the header of the old host is evicted, `tc_masq` misses in `egress_cache`,
  `tc_init_e` learns the new host's header, and the old address stays.

* **A fresh directory is not synced.** Nothing syncs the parent of a directory that
  `os.MkdirAll` makes (`store.go:56`). If the first commit makes it and the node
  crashes before the kernel writes the parent back, a commit that was reported as
  done is gone, with the directory. `AckedSurvives` says nothing in that time
  (`dir = "made"`), and `ImplementsAtomicFile` lets a crash take an unrooted file; both
  fail without the exception.
* **A removal that finds nothing is not synced.** If the sync after the unlink fails,
  a second `Remove` finds no file and returns success at once (`store.go:99`); a
  crash may bring the file back. The properties count it as no change.
  Both concern the store alone: `ControlPlane` lets a reboot take the pins and the
  rules of a node, and needs nothing of the file after one.

## 4. Proofs

All proofs are checked by TLAPS, for every value of the constants that satisfies
the named assumptions: `ConstantsAssumption` of each module, `NamesAssumption`
(`ControlPlane`), `ReservedAssumption` (`MarkerRun`), `WorldAssumption`,
`ManifestsAssumption` and `TCLinksAssumption` (`EndpointResolver`). They give the
constants their types, keep the values that stand for "none" apart from the real
ones, and say that the node's own `eth0` has an ifindex and the host namespace an
inode that no pod has. TLC evaluates them in every run. Every safety invariant and
every action property of a passing run is stated by a theorem; where a theorem has
a condition, it is one that the run's constants satisfy too; the violated runs and
"Limits" above say what happens without it.

| Module | Theorem | Property | Condition |
|---|---|---|---|
| `ControlPlaneProofs` | `TypeCorrect` | `TypeOK` | |
| | `FastPathWiredAlways` | `FastPathWired` | `OneAgent` |
| | `ReconcilingIsDisabledAlways` | `ReconcilingIsDisabled` | `OneAgent` |
| | `WritesOnlyWhileDisabledAlways` | `WritesOnlyWhileDisabled` | `OneAgent` |
| `OwnershipStoreProofs` | `StoreTypeCorrect` | `TypeOK` | |
| | `NeverTornAlways`, `AckedSurvivesAlways`, `NoLeakAlways` | `NeverTorn`, `AckedSurvives`, `NoLeak` | |
| | `StoreIsAtomicFile` | `ImplementsAtomicFile` | |
| `TCFiltersProofs` | `TypeCorrect`, `OwnLink`, `TakesEffect` | `TypeOK`, `FilterOnOwnLink`, `CallsTakeEffect` | |
| | `ForeignKept` | `ForeignFiltersKept` | `~Takeover` |
| `NetNSProofs` | `InTarget` | `CallbackInTarget` | |
| | `ThreadsReturn` | `PoolIsHome` | `~Nested`, the return succeeds on the leader |
| `FastPathProofs` | `TypeCorrect`, `NeverHalfRewritten`, `ReadyBits` | `TypeOK`, `NoHalfRewrite`, `ReadyBitsKept` | |
| | `FollowsFlannel`, `FindsPod` | `RedirectFollowsFlannel`, `RedirectFindsPod` | |
| | `OnlyApproved` | `RedirectOnlyApproved` | `~Recycling` |
| `EndpointResolverProofs` | `TypeCorrect`, `ReadsInTarget` | `TypeOK`, `CallbackInTarget` | |
| | `PoolStaysHome` | `PoolIsHome` | the return succeeds on the leader |
| | `Coherent`, `FailsOnlyForItsPod` | `EndpointCoherent`, `FailsForItsPod` | and `~PidReuse` |
| | `ScanFindsPods`, `PlanCovered` | -, `PlanCoversPods` | and no pod's `eth0` has the ifindex of a host veth |
| `MarkerRunProofs` | `TypeCorrect` | `RunTypeOK` | |
| | `Unique`, `ForeignKept` | `MarkerUnique`, `ForeignRulesKept` | `~BehindMarker`, no insertion during an operation |

### Along which argument

**Control plane.** `FastPathWired` is not inductive. `IInv` adds what a run has
established so far: `PodInv` (addresses identify live pods, and recorded endpoints
have existed, so a new pod is never one of them), `EnsureInv` (the map entries of
the endpoints the loop has finished are right, and no longer become wrong, since
only the agent writes them and an eviction or deletion only removes), `CommitInv`
(between the second verification and `Publish` the kernel stays as the snapshot
says) and `ReconcilingIsDisabled`. The step proof has one case per action;
`StageError`, `Kill` and `Reboot` are cases like the others.

**Store.** `StoreInv` says that only synced data is renamed into place, that neither
view of the file is older than the last reported change, that there is nothing in
a directory that does not exist, and when a temporary file exists. The refinement
is of `AtomicFile` under `value <- file.v, stable <- durable.v,
rooted <- (dir = "durable")`, with a call of the store pending until its rename or
unlink and applied until the directory is synced.

**TC filters.** `FilterOnOwnLink` is inductive with the types: the kernel has no
filter without clsact, so a link that takes over the address starts empty.
`CallsTakeEffect` needs `EffectInv`, what a manager in the middle of an operation
knows: a listing that found the filter (or found none) has witnessed the promise
of the operation, and a program about to be attached has the ID of the
specification. `DoomedInv` adds that the filter a remove has found and is about
to delete is not another owner's.

**Namespaces.** `CallInv`: calls in progress have threads of their own that the
scheduler still has, so no step of one call moves the thread of another callback;
this holds with nesting. `HomeInv` adds that a call has read the host's namespace
as its original one, which is what nesting destroys (`nested_netns`).

**Datapath.** `PathInv` follows a packet from stage to stage: at which stages it
can have been rewritten, where its host and device were read from, that the
caches and the routes only hold hosts the address has had, and that `ingress_cache`
holds the veth of the pod wired last or nothing; the histories only grow, so what
a packet has read stays right while entries are evicted and rewritten around it. `ApprovedInv` says that two flows never share a policy
element, that the ready bits of an element were learned for its flow, and the
same of the element a packet points to: with `Recycling` this is what breaks.

**Endpoint resolver.** The proofs reuse those of `NetNS`, whose actions are steps of
this module. `ScanInv`: what is in hand at each read. `CoherentInv`: what has
been read is right as long as the sandbox of the first answer is ready, and
right for good once the runtime names the same sandbox a second time (`ReadOK`);
the second `ResolveSandbox` is what turns the one into the other. `FailInv`: a pod
that nothing has happened to still has the sandbox that was named. `FoundInv`: the
scan has found such pods as far as it has got. `ApartInv`: no sandbox the scan
has met shares an inode or an ifindex with one that was up all the time, so no
endpoint takes the place of another in the plan; TLC has checked it on the
instance of `endpoints`. The last condition excludes pods that `Validate` rejects
(it compares ifindexes of two namespaces, see section 5).

**Link plan.** What `mergeEndpointLinks` returns is a fact about a recursive function,
which needs an induction over the UIDs. `LinkPlanProofs` does it with the
least-number principle over a *set* of naturals (`LeastNat`, `Induction`), which
is first-order, instead of the library's theorems over an operator: `MergeKeeps`
(a pair that has been put stays visited if later pairs have other keys),
`MergeAdds` and `MergeVisits` (a pair that shares a key with no other pair is
visited after the merge, whatever the manifest lists).

**Marker rule.** `LastInv`: the marker is the last rule of the chain, and a manager
about to write either has its number or one that is too large, in which case
the command fails. So the code's "number of the last rule" is right exactly
under the two conditions, and `foreign_rule` shows the case without them.

**Only model-checked:** the liveness properties (`RecoversOrWedged`, `FlowsGoFast`,
`FastPathExpires`, `MarkerRestored`, `Resolves`, `Converges`). They need fairness and
`ENABLED`, which the installed provers do not handle.

## 5. Not modelled

* Flannel discovery: it keeps no state and writes nothing; four `ip` commands are
  parsed into one configuration. `ControlPlane` has its outcome. That the four
  answers may belong to two incarnations of `flannel.1` is not excluded by the code; the
  underlay link is checked again at every attach.
* What the preflight's checks of files, sockets and command output find:
  `MarkerRun` chooses their verdict. `tc filter show` and `bpftool` without a
  device or `-f` list nothing, so that part of `checkExternalConflicts` is left
  out.
* Three observations at the edge of the model: a manifest link with a namespace
  inode has no path (`tc.go:214`), so the TC scan fails in every run as long as
  its pod is skipped; `Validate` compares ifindexes of two namespaces
  (`endpoint_linux.go:113`) and rejects a pod where they are equal; a filter with
  a program of an older collection is a conflict until its link goes
  (`tc.go:151`), since nothing calls `RemoveFilter`.
* The coordinator's gate: every `RunOnce` builds its own coordinator, so two runs
  never meet at one gate.
* Netlink encoding, file descriptors other than the program's, YAML and JSON
  parsing of the manifest, object construction in `NewStaticRuntime`.
* Packet parsing, header layout, statistics, the bytes of MAC addresses. The agent
  writes both addresses of an `ingress_cache` entry and `tc_init_in` replaces them by
  those of a packet; an entry is complete either way, so the programs' test of the
  first byte (`tc_prog_kern.c:165`, `253`) fails only for an address that begins with
  0, which is left out.
* The text of rules: a comment without special characters is printed by iptables
  without quotes and then does not compare equal to the desired line.
* `internal/config`: not used by the agent at this commit.

## 6. Plan

1. Done: the modules above, in the order ControlPlane, FastPath, MarkerRule,
   NetNS, OwnershipStore; then EndpointResolver with LinkPlan over NetNS,
   TCFilters, MarkerRun over MarkerRule, and recovery with disturbances during
   the load.
2. Done: theorems for every safety invariant and action property of the passing
   runs (section 4).
3. Next: two managers in `MarkerRule`; `EnsureFilter` of `ControlPlane` shown to be
   implemented by `TCFilters`, with `CallsTakeEffect` as the step that carries it;
   which of the conditions of section 4 can be weakened (`Unique` with insertions
   in front of the marker before the read; `ForeignKept` of the TC filters when
   only `EnsureFilter` is called, as the agent does).
