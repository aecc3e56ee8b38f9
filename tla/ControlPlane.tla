---------------------------- MODULE ControlPlane ----------------------------
(***************************************************************************)
(* The FNCache node agent and the kernel state it reconciles.              *)
(*                                                                         *)
(* An agent is one process that executes StaticRuntime.RunOnce: it scans   *)
(* the local endpoints, then runs the Coordinator's stages disable,        *)
(* discover, scan, ensure, verify, commit and publish against the BPF      *)
(* pins, the TC filters, the marker rule, the endpoint maps, the control   *)
(* map and the ownership file.  Each externally visible write is one step, *)
(* so an agent can fail, be cancelled or be killed between any two of      *)
(* them, and the rest of the node (pods, other users of TC and iptables,   *)
(* the LRU of ingress_cache, a reboot) moves in between.                   *)
(*                                                                         *)
(* An endpoint is one incarnation of a pod: its network namespace and its  *)
(* veth pair die with it and never come back.                              *)
(***************************************************************************)
EXTENDS Integers, FiniteSets

CONSTANTS
    Agents,            \* agent processes; each RunOnce builds its own Coordinator
    Endpoints,         \* pod incarnations
    IPs,               \* pod addresses
    IPOf,              \* the address of an endpoint
    OtherMaps,         \* names of the pinned maps other than control_map
    Gens,              \* generations an operator may put in the manifest
    MaxLoads,          \* bound: collections loaded into the kernel
    MaxFaults,         \* bound: disturbances (errors, kills, pod deletions, ...)
    LoadInterruptible  \* whether a disturbance may hit LoadAndPin .. Initialize

ASSUME ConstantsAssumption ==
    /\ IPOf \in [Endpoints -> IPs]
    /\ "control_map" \notin OtherMaps
    /\ Gens \subseteq Nat \ {0}
    /\ MaxLoads \in Nat
    /\ MaxFaults \in Nat
    /\ LoadInterruptible \in BOOLEAN

\* Two endpoints never carry these names, they mark "no value".
NoEndpoint == "none"
Underlay == "underlay"

ASSUME NamesAssumption == {NoEndpoint, Underlay} \cap Endpoints = {}

MapNames == OtherMaps \cup {"control_map"}
BasePrograms == {"tc_init_e", "tc_restore"}      \* on the underlay link
EndpointPrograms == {"tc_init_in", "tc_masq"}    \* on eth0 and on the host veth
Programs == BasePrograms \cup EndpointPrograms

\* A fixed (link, hook, priority, handle) position.  A pod has one slot on its
\* eth0 (tc_init_in) and one on its host veth (tc_masq).
Slots == ({Underlay} \X BasePrograms) \cup (Endpoints \X EndpointPrograms)
SlotsOf(links) == {s \in Slots : s[1] \in links}

\* Program IDs: one number per loaded collection, 0 for "not pinned" and
\* "no filter", -1 for a filter of another owner that names no program.
NoProgram == 0
Foreign == -1
ProgramIDs == 1..MaxLoads

ZeroControl == [abi |-> 0, enabled |-> FALSE, gen |-> 0]
NoOwner == [gen |-> 0, ids |-> [p \in Programs |-> NoProgram], eps |-> {}]

VARIABLES
    \* kernel and disk
    mapPins,    \* names pinned under <pinRoot>/maps
    progPins,   \* program -> ID pinned under <pinRoot>/programs
    control,    \* the value of control_map (zero while it is not pinned)
    filters,    \* slot -> ID of the attached program
    marker,     \* the Flannel marker rule is present
    ingress,    \* ingress_cache: IP -> endpoint it describes
    devmap,     \* devmap holds the underlay device
    owned,      \* the ownership file
    loads,      \* collections loaded so far
    \* pods
    live, dead,
    \* agents
    pc,         \* what the agent does next
    outcome,    \* how its last run ended
    gen,        \* generation of the manifest
    links,      \* endpoints whose links the TC scanner visits (ObservationInput.TCLinks)
    supported,  \* desired.Enabled
    eps,        \* desired.LocalEndpoints
    newMaps,    \* LoadedCollection.ownedMaps
    newProgs,   \* LoadedCollection.ownedPrograms
    ids,        \* program IDs of the rescan in Ensure
    todo,       \* endpoints Ensure has not finished
    cur,        \* the endpoint Ensure works on
    snap,       \* the ownership state about to be stored
    faults      \* disturbances so far

kernelVars == <<mapPins, progPins, control, filters, marker, ingress, devmap, owned, loads>>
podVars == <<live, dead>>
runVars == <<gen, links, supported, eps, newMaps, newProgs, ids, todo, cur, snap>>
vars == <<kernelVars, podVars, pc, outcome, runVars, faults>>

(***************************************************************************)
(* Stages, in the order a run passes them.                                 *)
(***************************************************************************)
LoadWindow == {"load_maps", "pin_programs", "initialize"}
EnsureStages == {"collection"} \cup LoadWindow \cup
    {"marker", "rescan", "base_init_e", "base_restore",
     "endpoint", "peer", "host", "ingress_cache", "devmap"}
\* Stages that only run once Disable has returned nil.
AfterDisable == {"discover", "scan"} \cup EnsureStages \cup
    {"verify", "commit_scan", "commit_store", "publish"}
Stages == {"idle", "prepare", "disable"} \cup AfterDisable

SnapShots == [gen : Gens \cup {0}, ids : [Programs -> ProgramIDs \cup {NoProgram}],
              eps : SUBSET Endpoints]

TypeKernel ==
    /\ mapPins \subseteq MapNames
    /\ progPins \in [Programs -> ProgramIDs \cup {NoProgram}]
    /\ control \in [abi : {0, 1}, enabled : BOOLEAN, gen : Gens \cup {0}]
    /\ filters \in [Slots -> ProgramIDs \cup {NoProgram, Foreign}]
    /\ marker \in BOOLEAN
    /\ ingress \in [IPs -> Endpoints \cup {NoEndpoint}]
    /\ devmap \in BOOLEAN
    /\ owned \in SnapShots
    /\ loads \in 0..MaxLoads

TypeFlow ==
    /\ live \subseteq Endpoints
    /\ dead \subseteq Endpoints
    /\ pc \in [Agents -> Stages]
    /\ outcome \in [Agents -> {"none", "ready", "failed", "killed"}]
    /\ faults \in 0..MaxFaults

TypeRun ==
    /\ gen \in [Agents -> Gens \cup {0}]
    /\ links \in [Agents -> SUBSET Endpoints]
    /\ supported \in [Agents -> BOOLEAN]
    /\ eps \in [Agents -> SUBSET Endpoints]
    /\ newMaps \in [Agents -> SUBSET MapNames]
    /\ newProgs \in [Agents -> SUBSET Programs]
    /\ ids \in [Agents -> [Programs -> ProgramIDs \cup {NoProgram}]]
    /\ todo \in [Agents -> SUBSET Endpoints]
    /\ cur \in [Agents -> Endpoints \cup {NoEndpoint}]
    /\ snap \in [Agents -> SnapShots]

\* Every variable has its type.
TypeOK == TypeKernel /\ TypeFlow /\ TypeRun

Init ==
    /\ mapPins = {} /\ progPins = [p \in Programs |-> NoProgram]
    /\ control = ZeroControl
    /\ filters = [s \in Slots |-> NoProgram]
    /\ marker = FALSE
    /\ ingress = [i \in IPs |-> NoEndpoint] /\ devmap = FALSE
    /\ owned = NoOwner
    /\ loads = 0
    /\ live = {} /\ dead = {}
    /\ pc = [a \in Agents |-> "idle"]
    /\ outcome = [a \in Agents |-> "none"]
    /\ gen = [a \in Agents |-> 0]
    /\ links = [a \in Agents |-> {}]
    /\ supported = [a \in Agents |-> FALSE]
    /\ eps = [a \in Agents |-> {}]
    /\ newMaps = [a \in Agents |-> {}] /\ newProgs = [a \in Agents |-> {}]
    /\ ids = [a \in Agents |-> [p \in Programs |-> NoProgram]]
    /\ todo = [a \in Agents |-> {}] /\ cur = [a \in Agents |-> NoEndpoint]
    /\ snap = [a \in Agents |-> NoOwner]
    /\ faults = 0

-----------------------------------------------------------------------------
(***************************************************************************)
(* Control flow of a run.                                                  *)
(***************************************************************************)
At(a, stage) == pc[a] = stage
Goto(a, stage) == pc' = [pc EXCEPT ![a] = stage] /\ UNCHANGED outcome

\* A stage returned an error: Coordinator.fail records Disabled and RunOnce
\* returns.  Nothing touches the control map here.
Abort(a) ==
    /\ pc' = [pc EXCEPT ![a] = "idle"]
    /\ outcome' = [outcome EXCEPT ![a] = "failed"]

Disturb == faults < MaxFaults /\ faults' = faults + 1

\* os.Stat finds <pinRoot>/maps/control_map.
ControlPinned == "control_map" \in mapPins

\* The agent process starts with a manifest.
Start(a) ==
    /\ At(a, "idle")
    /\ \E g \in Gens : gen' = [gen EXCEPT ![a] = g]
    /\ pc' = [pc EXCEPT ![a] = "prepare"]
    /\ outcome' = [outcome EXCEPT ![a] = "none"]
    /\ links' = [links EXCEPT ![a] = {}]
    /\ supported' = [supported EXCEPT ![a] = FALSE]
    /\ eps' = [eps EXCEPT ![a] = {}]
    /\ newMaps' = [newMaps EXCEPT ![a] = {}]
    /\ newProgs' = [newProgs EXCEPT ![a] = {}]
    /\ ids' = [ids EXCEPT ![a] = [p \in Programs |-> NoProgram]]
    /\ todo' = [todo EXCEPT ![a] = {}]
    /\ cur' = [cur EXCEPT ![a] = NoEndpoint]
    /\ snap' = [snap EXCEPT ![a] = NoOwner]
    /\ UNCHANGED <<kernelVars, podVars, faults>>

\* RunOnce scans the endpoints to know their links before FullReconcile; an
\* endpoint that is not ready or stale is skipped.
Prepare(a) ==
    /\ At(a, "prepare")
    /\ \/ links' = [links EXCEPT ![a] = live] /\ UNCHANGED faults
       \/ /\ \E skipped \in SUBSET live \ {{}} : links' = [links EXCEPT ![a] = live \ skipped]
          /\ Disturb
    /\ Goto(a, "disable")
    /\ UNCHANGED <<kernelVars, podVars, gen, supported, eps, newMaps, newProgs, ids, todo, cur, snap>>

\* Mutant: Disable reports success without writing the control map.
DisableWritesNothing(a) ==
    /\ At(a, "disable") /\ Goto(a, "discover")
    /\ UNCHANGED <<kernelVars, podVars, runVars, faults>>

\* runtimeControl.Disable: no pinned control map means nothing to disable; a
\* value of another ABI is an error.
Disable(a) ==
    /\ At(a, "disable")
    /\ \/ ~ControlPinned /\ Goto(a, "discover") /\ UNCHANGED control
       \/ /\ ControlPinned /\ control.abi = 1
          /\ control' = [control EXCEPT !.enabled = FALSE]
          /\ Goto(a, "discover")
       \/ ControlPinned /\ control.abi # 1 /\ Abort(a) /\ UNCHANGED control
    /\ UNCHANGED <<mapPins, progPins, filters, marker, ingress, devmap, owned, loads,
                   podVars, runVars, faults>>

\* Observer.Discover: preflight decides desired.Enabled; only a supported node
\* is asked for its endpoints.
Discover(a) ==
    /\ At(a, "discover")
    /\ \/ /\ supported' = [supported EXCEPT ![a] = TRUE]
          /\ eps' = [eps EXCEPT ![a] = live]
          /\ UNCHANGED faults
       \/ /\ supported' = [supported EXCEPT ![a] = TRUE]
          /\ \E skipped \in SUBSET live \ {{}} : eps' = [eps EXCEPT ![a] = live \ skipped]
          /\ Disturb
       \/ supported' = [supported EXCEPT ![a] = FALSE] /\ UNCHANGED eps /\ Disturb
    /\ Goto(a, "scan")
    /\ UNCHANGED <<kernelVars, podVars, gen, links, newMaps, newProgs, ids, todo, cur, snap>>

\* TCScanner.Scan fails when a link it was told to visit is gone.
ScanOK(a) == links[a] \subseteq live

CollectionReady == MapNames \subseteq mapPins /\ \A p \in Programs : progPins[p] # NoProgram

\* Observer.Scan, and the decision Ensure takes from it.
Scan(a) ==
    /\ At(a, "scan")
    /\ IF ~ScanOK(a) THEN Abort(a)
       ELSE Goto(a, IF ~supported[a] THEN "verify"
                    ELSE IF CollectionReady THEN "marker" ELSE "collection")
    /\ UNCHANGED <<kernelVars, podVars, runVars, faults>>

-----------------------------------------------------------------------------
(***************************************************************************)
(* EnsureCollection: load the ELF, pin maps and programs, initialise the   *)
(* control map.                                                            *)
(***************************************************************************)

\* LoadAndPin inspects the existing pins; a pinned program is an error.
LoadAndPin(a) ==
    /\ At(a, "collection")
    /\ loads < MaxLoads
    /\ IF \A p \in Programs : progPins[p] = NoProgram
       THEN /\ newMaps' = [newMaps EXCEPT ![a] = MapNames \ mapPins]
            /\ newProgs' = [newProgs EXCEPT ![a] = {}]
            /\ Goto(a, "load_maps")
       ELSE Abort(a) /\ UNCHANGED <<newMaps, newProgs>>
    /\ UNCHANGED <<kernelVars, podVars, gen, links, supported, eps, ids, todo, cur, snap, faults>>

\* The loader creates and pins (PinByName) the maps one after the other; a map
\* that is already pinned is reused with its content.
LoadMap(a) ==
    /\ At(a, "load_maps")
    /\ \E m \in MapNames \ mapPins : mapPins' = mapPins \cup {m}
    /\ UNCHANGED <<progPins, control, filters, marker, ingress, devmap, owned, loads,
                   podVars, pc, outcome, runVars, faults>>

\* All maps exist: the programs are loaded and get their IDs.
LoadPrograms(a) ==
    /\ At(a, "load_maps") /\ mapPins = MapNames
    /\ loads < MaxLoads
    /\ loads' = loads + 1
    /\ ids' = [ids EXCEPT ![a] = [p \in Programs |-> loads + 1]]
    /\ Goto(a, "pin_programs")
    /\ UNCHANGED <<mapPins, progPins, control, filters, marker, ingress, devmap, owned,
                   podVars, gen, links, supported, eps, newMaps, newProgs, todo, cur, snap, faults>>

\* LoadedCollection.Unpin removes what this run pinned; a map nobody holds any
\* more is freed with its content.
Unpin(a) ==
    /\ progPins' = [p \in Programs |-> IF p \in newProgs[a] THEN NoProgram ELSE progPins[p]]
    /\ mapPins' = mapPins \ newMaps[a]
    /\ control' = IF "control_map" \in newMaps[a] THEN ZeroControl ELSE control
    /\ ingress' = IF newMaps[a] \cap OtherMaps # {} THEN [i \in IPs |-> NoEndpoint] ELSE ingress
    /\ devmap' = (devmap /\ newMaps[a] \cap OtherMaps = {})

\* One object.Pin of the loop over handle.Programs.
PinProgram(a) ==
    /\ At(a, "pin_programs") /\ newProgs[a] # Programs
    /\ \E p \in Programs \ newProgs[a] :
        \/ /\ progPins[p] = NoProgram
           /\ progPins' = [progPins EXCEPT ![p] = ids[a][p]]
           /\ newProgs' = [newProgs EXCEPT ![a] = @ \cup {p}]
           /\ UNCHANGED <<pc, outcome, mapPins, control, ingress, devmap>>
        \/ /\ progPins[p] # NoProgram
           /\ Unpin(a) /\ Abort(a)
           /\ UNCHANGED newProgs
    /\ UNCHANGED <<filters, marker, owned, loads, podVars,
                   gen, links, supported, eps, newMaps, ids, todo, cur, snap, faults>>

PinnedAll(a) ==
    /\ At(a, "pin_programs") /\ newProgs[a] = Programs
    /\ Goto(a, "initialize")
    /\ UNCHANGED <<kernelVars, podVars, runVars, faults>>

\* Mutant: the version written is not the one the programs expect.
InitializeOtherABI(a) ==
    /\ At(a, "initialize")
    /\ ControlPinned /\ control.abi \in {0, 1}
    /\ control' = [ZeroControl EXCEPT !.abi = 2]
    /\ Goto(a, "marker")
    /\ UNCHANGED <<mapPins, progPins, filters, marker, ingress, devmap, owned, loads,
                   podVars, runVars, faults>>

\* ControlWriter.Initialize: an ABI of 0 (fresh map) or 1 is reset to a disabled value.
Initialize(a) ==
    /\ At(a, "initialize")
    /\ ControlPinned /\ control.abi \in {0, 1}
    /\ control' = [ZeroControl EXCEPT !.abi = 1]
    /\ Goto(a, "marker")
    /\ UNCHANGED <<mapPins, progPins, filters, marker, ingress, devmap, owned, loads,
                   podVars, runVars, faults>>

\* An error inside LoadAndPin or Initialize.  While the maps are being loaded
\* there is no handle to clean up with; afterwards the run unpins its own pins.
LoadError(a) ==
    /\ LoadInterruptible /\ Disturb
    /\ \/ At(a, "load_maps") /\ UNCHANGED <<progPins, mapPins, control, ingress, devmap>>
       \/ pc[a] \in {"pin_programs", "initialize"} /\ Unpin(a)
    /\ Abort(a)
    /\ UNCHANGED <<filters, marker, owned, loads, podVars, runVars>>

EnsureCollection(a) ==
    LoadAndPin(a) \/ LoadMap(a) \/ LoadPrograms(a) \/ PinProgram(a) \/ PinnedAll(a)
        \/ Initialize(a) \/ LoadError(a)

-----------------------------------------------------------------------------
(***************************************************************************)
(* The rest of Ensure: marker rule, base filters, endpoints.               *)
(***************************************************************************)

\* MarkerRuleManager.Ensure returns once the rule is present.
EnsureMarker(a) ==
    /\ At(a, "marker")
    /\ marker' = TRUE
    /\ Goto(a, "rescan")
    /\ UNCHANGED <<mapPins, progPins, control, filters, ingress, devmap, owned, loads,
                   podVars, runVars, faults>>

\* The rescan whose program IDs the filters are built from; EnsureBase needs
\* both base programs.
Rescan(a) ==
    /\ At(a, "rescan")
    /\ ids' = [ids EXCEPT ![a] = progPins]
    /\ IF ScanOK(a) /\ \A p \in BasePrograms : progPins[p] # NoProgram
       THEN Goto(a, "base_init_e") ELSE Abort(a)
    /\ UNCHANGED <<kernelVars, podVars, gen, links, supported, eps, newMaps, newProgs, todo, cur, snap, faults>>

\* Mutant: a filter that is already there is a conflict, even its own.
EnsureFilterNotIdempotent(a, slot, next) ==
    LET p == slot[2]
        free == slot[1] \in live \cup {Underlay} /\ filters[slot] = NoProgram /\ progPins[p] = ids[a][p]
    IN
    /\ \/ free /\ filters' = [filters EXCEPT ![slot] = ids[a][p]] /\ Goto(a, next)
       \/ ~free /\ Abort(a) /\ UNCHANGED filters
    /\ UNCHANGED <<mapPins, progPins, control, marker, ingress, devmap, owned, loads, podVars, faults>>

\* TCManager.EnsureFilter: an identical filter is kept, a free slot gets the
\* program if its pin still has the expected ID, anything else is a conflict.
\* (The kernel refuses to add over an existing handle, so list-then-add acts
\* on the slot as one step.)
EnsureFilter(a, slot, next) ==
    LET p == slot[2] IN
    /\ \/ /\ slot[1] \in live \cup {Underlay} /\ filters[slot] = ids[a][p]
          /\ Goto(a, next) /\ UNCHANGED filters
       \/ /\ slot[1] \in live \cup {Underlay}
          /\ filters[slot] = NoProgram /\ progPins[p] = ids[a][p]
          /\ filters' = [filters EXCEPT ![slot] = ids[a][p]]
          /\ Goto(a, next)
       \/ /\ \/ slot[1] \notin live \cup {Underlay}
             \/ filters[slot] \notin {NoProgram, ids[a][p]}
             \/ filters[slot] = NoProgram /\ progPins[p] # ids[a][p]
          /\ Abort(a) /\ UNCHANGED filters
    /\ UNCHANGED <<mapPins, progPins, control, marker, ingress, devmap, owned, loads, podVars, faults>>

EnsureBase(a) ==
    \/ /\ At(a, "base_init_e")
       /\ EnsureFilter(a, <<Underlay, "tc_init_e">>, "base_restore")
       /\ UNCHANGED runVars
    \/ /\ At(a, "base_restore")
       /\ EnsureFilter(a, <<Underlay, "tc_restore">>, "endpoint")
       /\ todo' = [todo EXCEPT ![a] = eps[a]]
       /\ UNCHANGED <<gen, links, supported, eps, newMaps, newProgs, ids, cur, snap>>

\* The loop over the endpoints (UIDs are arbitrary, so is their order);
\* EnsureEndpoint needs both endpoint programs before it attaches one.
NextEndpoint(a) ==
    /\ At(a, "endpoint")
    /\ \/ /\ todo[a] = {}
          /\ Goto(a, "verify") /\ UNCHANGED cur
       \/ /\ \E e \in todo[a] : cur' = [cur EXCEPT ![a] = e]
          /\ IF \A p \in EndpointPrograms : ids[a][p] # NoProgram
             THEN Goto(a, "peer") ELSE Abort(a)
    /\ UNCHANGED <<kernelVars, podVars, gen, links, supported, eps, newMaps, newProgs, ids, todo, snap, faults>>

EnsureEndpoint(a) ==
    /\ \/ At(a, "peer") /\ EnsureFilter(a, <<cur[a], "tc_init_in">>, "host")
       \/ At(a, "host") /\ EnsureFilter(a, <<cur[a], "tc_masq">>, "ingress_cache")
    /\ UNCHANGED runVars

\* Mutant: the entry is only written where the address has none.
EnsureEndpointMapsNoExist(a) ==
    \/ /\ At(a, "ingress_cache") /\ OtherMaps \subseteq mapPins
       /\ ingress' = [ingress EXCEPT ![IPOf[cur[a]]] = IF @ = NoEndpoint THEN cur[a] ELSE @]
       /\ Goto(a, "devmap")
       /\ UNCHANGED <<mapPins, progPins, control, filters, marker, devmap, owned, loads,
                      podVars, runVars, faults>>
    \/ /\ At(a, "devmap") /\ OtherMaps \subseteq mapPins
       /\ devmap' = TRUE
       /\ todo' = [todo EXCEPT ![a] = @ \ {cur[a]}]
       /\ Goto(a, "endpoint")
       /\ UNCHANGED <<mapPins, progPins, control, filters, marker, ingress, owned, loads,
                      podVars, gen, links, supported, eps, newMaps, newProgs, ids, cur, snap, faults>>

\* EnsureEndpointMaps: MapWriter.Ensure opens the pinned map and leaves the
\* entry keyed by the pod address describing this endpoint, then the underlay
\* device in devmap.  The caller passes fastPathDisabled = true.
EnsureEndpointMaps(a) ==
    \/ /\ At(a, "ingress_cache")
       /\ IF OtherMaps \subseteq mapPins
          THEN ingress' = [ingress EXCEPT ![IPOf[cur[a]]] = cur[a]] /\ Goto(a, "devmap")
          ELSE Abort(a) /\ UNCHANGED ingress
       /\ UNCHANGED <<mapPins, progPins, control, filters, marker, devmap, owned, loads,
                      podVars, runVars, faults>>
    \/ /\ At(a, "devmap")
       /\ IF OtherMaps \subseteq mapPins
          THEN devmap' = TRUE /\ todo' = [todo EXCEPT ![a] = @ \ {cur[a]}] /\ Goto(a, "endpoint")
          ELSE Abort(a) /\ UNCHANGED <<devmap, todo>>
       /\ UNCHANGED <<mapPins, progPins, control, filters, marker, ingress, owned, loads,
                      podVars, gen, links, supported, eps, newMaps, newProgs, ids, cur, snap, faults>>

-----------------------------------------------------------------------------
(***************************************************************************)
(* Verify, commit, publish.                                                *)
(***************************************************************************)

\* VerifyState on a fresh Scan.  Only links the TC scanner visits can be found
\* attached, and no filter on them may be unidentifiable.  Scan never fills
\* actual.Control, so its "control Map is enabled" test never fires.
VerifyState(a) ==
    /\ ScanOK(a) /\ supported[a] /\ CollectionReady /\ marker
    /\ \A s \in SlotsOf(links[a] \cup {Underlay}) : filters[s] # Foreign
    /\ eps[a] \subseteq links[a]
    /\ \A s \in SlotsOf(eps[a] \cup {Underlay}) : filters[s] = progPins[s[2]]

Verify(a) ==
    /\ At(a, "verify")
    /\ IF VerifyState(a) THEN Goto(a, "commit_scan") ELSE Abort(a)
    /\ UNCHANGED <<kernelVars, podVars, runVars, faults>>

\* Mutant: the control map is enabled before the ownership file is stored.
CommitScanPublishes(a) ==
    /\ At(a, "commit_scan") /\ VerifyState(a)
    /\ control' = [control EXCEPT !.enabled = TRUE, !.gen = gen[a]]
    /\ snap' = [snap EXCEPT ![a] = [gen |-> gen[a], ids |-> progPins, eps |-> eps[a]]]
    /\ Goto(a, "commit_store")
    /\ UNCHANGED <<mapPins, progPins, filters, marker, ingress, devmap, owned, loads, podVars,
                   gen, links, supported, eps, newMaps, newProgs, ids, todo, cur, faults>>

\* Commit scans and verifies again and builds the ownership state from it.
CommitScan(a) ==
    /\ At(a, "commit_scan")
    /\ IF VerifyState(a)
       THEN /\ snap' = [snap EXCEPT ![a] = [gen |-> gen[a], ids |-> progPins, eps |-> eps[a]]]
            /\ Goto(a, "commit_store")
       ELSE Abort(a) /\ UNCHANGED snap
    /\ UNCHANGED <<kernelVars, podVars, gen, links, supported, eps, newMaps, newProgs, ids, todo, cur, faults>>

\* Store.Commit replaces the file atomically; syncing the directory may still fail.
CommitStore(a) ==
    /\ At(a, "commit_store")
    /\ owned' = snap[a]
    /\ \/ Goto(a, "publish") /\ UNCHANGED faults
       \/ Abort(a) /\ Disturb
    /\ UNCHANGED <<mapPins, progPins, control, filters, marker, ingress, devmap, loads, podVars, runVars>>

\* ControlWriter.Publish.
Publish(a) ==
    /\ At(a, "publish")
    /\ \/ /\ ControlPinned /\ control.abi = 1
          /\ control' = [control EXCEPT !.enabled = TRUE, !.gen = gen[a]]
          /\ pc' = [pc EXCEPT ![a] = "idle"]
          /\ outcome' = [outcome EXCEPT ![a] = "ready"]
       \/ ~(ControlPinned /\ control.abi = 1) /\ Abort(a) /\ UNCHANGED control
    /\ UNCHANGED <<mapPins, progPins, filters, marker, ingress, devmap, owned, loads,
                   podVars, runVars, faults>>

\* Any other stage returns an error (a failed syscall, a command, a cancelled
\* context) before it changed anything.
StageError(a) ==
    /\ pc[a] \notin {"idle"} \cup LoadWindow
    /\ Disturb /\ Abort(a)
    /\ UNCHANGED <<kernelVars, podVars, runVars>>

AgentStep(a) ==
    \/ Prepare(a) \/ Disable(a) \/ Discover(a) \/ Scan(a)
    \/ EnsureCollection(a) \/ EnsureMarker(a) \/ Rescan(a) \/ EnsureBase(a)
    \/ NextEndpoint(a) \/ EnsureEndpoint(a) \/ EnsureEndpointMaps(a)
    \/ Verify(a) \/ CommitScan(a) \/ CommitStore(a) \/ Publish(a)
    \/ StageError(a)

-----------------------------------------------------------------------------
(***************************************************************************)
(* The rest of the node.                                                   *)
(***************************************************************************)

\* The process is killed: its memory is gone, nothing is cleaned up.
Kill(a) ==
    /\ pc[a] # "idle" /\ Disturb
    /\ pc[a] \in LoadWindow => LoadInterruptible
    /\ pc' = [pc EXCEPT ![a] = "idle"]
    /\ outcome' = [outcome EXCEPT ![a] = "killed"]
    /\ UNCHANGED <<kernelVars, podVars, runVars>>

\* Only the ownership file survives a reboot; pods come back as new endpoints.
Reboot ==
    /\ Disturb
    /\ mapPins' = {} /\ progPins' = [p \in Programs |-> NoProgram]
    /\ control' = ZeroControl
    /\ filters' = [s \in Slots |-> NoProgram]
    /\ marker' = FALSE
    /\ ingress' = [i \in IPs |-> NoEndpoint] /\ devmap' = FALSE
    /\ dead' = dead \cup live /\ live' = {}
    /\ pc' = [a \in Agents |-> "idle"]
    /\ outcome' = [a \in Agents |-> IF pc[a] = "idle" THEN outcome[a] ELSE "killed"]
    /\ UNCHANGED <<owned, loads, runVars>>

\* CNI gives an address to one live pod at a time.
PodAdd(e) ==
    /\ e \notin live \cup dead
    /\ \A f \in live : IPOf[f] # IPOf[e]
    /\ live' = live \cup {e}
    /\ UNCHANGED <<kernelVars, dead, pc, outcome, runVars, faults>>

\* The links of a deleted pod take their filters with them; its map entries stay.
PodDelete(e) ==
    /\ e \in live /\ Disturb
    /\ live' = live \ {e} /\ dead' = dead \cup {e}
    /\ filters' = [s \in Slots |-> IF s[1] = e THEN NoProgram ELSE filters[s]]
    /\ UNCHANGED <<mapPins, progPins, control, marker, ingress, devmap, owned, loads, pc, outcome, runVars>>

\* Another owner takes a free slot, and gives it up again.
ForeignAttach(s) ==
    /\ s[1] \in live \cup {Underlay} /\ filters[s] = NoProgram /\ Disturb
    /\ filters' = [filters EXCEPT ![s] = Foreign]
    /\ UNCHANGED <<mapPins, progPins, control, marker, ingress, devmap, owned, loads,
                   podVars, pc, outcome, runVars>>

ForeignDetach(s) ==
    /\ filters[s] = Foreign
    /\ filters' = [filters EXCEPT ![s] = NoProgram]
    /\ UNCHANGED <<mapPins, progPins, control, marker, ingress, devmap, owned, loads,
                   podVars, pc, outcome, runVars, faults>>

\* Another tool flushes the mangle table.
MarkerFlush ==
    /\ marker /\ Disturb
    /\ marker' = FALSE
    /\ UNCHANGED <<mapPins, progPins, control, filters, ingress, devmap, owned, loads,
                   podVars, pc, outcome, runVars>>

\* ingress_cache is an LRU map.
Evict(i) ==
    /\ ingress[i] # NoEndpoint /\ Disturb
    /\ ingress' = [ingress EXCEPT ![i] = NoEndpoint]
    /\ UNCHANGED <<mapPins, progPins, control, filters, marker, devmap, owned, loads,
                   podVars, pc, outcome, runVars>>

Environment ==
    \/ \E a \in Agents : Kill(a)
    \/ Reboot
    \/ \E e \in Endpoints : PodAdd(e) \/ PodDelete(e)
    \/ \E s \in Slots : ForeignAttach(s) \/ ForeignDetach(s)
    \/ MarkerFlush
    \/ \E i \in IPs : Evict(i)

Next == (\E a \in Agents : Start(a) \/ AgentStep(a)) \/ Environment

Spec == Init /\ [][Next]_vars

\* A started run goes on, the agent is started again after it ended (the node
\* supervises it), and another owner's filter does not stay forever.
Fairness ==
    /\ \A a \in Agents : WF_vars(Start(a)) /\ WF_vars(AgentStep(a))
    /\ \A s \in Slots : WF_vars(ForeignDetach(s))

FairSpec == Spec /\ Fairness

-----------------------------------------------------------------------------
(***************************************************************************)
(* Properties.                                                             *)
(***************************************************************************)

\* What an ownership record r promises of the kernel: every program is pinned
\* with the recorded ID, every recorded link that still exists carries exactly
\* these programs, and no map entry of a recorded live pod describes another
\* endpoint.
WiredFor(r) ==
    /\ CollectionReady /\ r.ids = progPins
    /\ \A s \in SlotsOf((r.eps \cap live) \cup {Underlay}) : filters[s] = r.ids[s[2]]
    /\ \A e \in r.eps \cap live : ingress[IPOf[e]] \in {e, NoEndpoint}
    /\ r.eps # {} => devmap

\* Whenever the control map says enabled, the ownership file on disk is the one
\* of the published generation and the kernel is wired as it records, whatever
\* failed, was killed or rebooted before (FullReconcile, VerifyState, Commit,
\* Publish).
FastPathWired ==
    control.enabled => /\ ControlPinned /\ control.abi = 1
                       /\ owned.gen = control.gen
                       /\ WiredFor(owned)

\* From the end of Disable to Publish, through every failure in between, the
\* fast path is off.
ReconcilingIsDisabled ==
    \A a \in Agents : pc[a] \in AfterDisable => ~control.enabled

\* A step that writes an endpoint map, a pin, a filter or the ownership file, as
\* only a run does.
MapWrites ==
    \/ \E i \in IPs : ingress'[i] # ingress[i] /\ ingress'[i] # NoEndpoint
    \/ devmap' /\ ~devmap

RunWrites ==
    \/ MapWrites
    \/ owned' # owned
    \/ \E p \in Programs : progPins'[p] # progPins[p] /\ progPins'[p] # NoProgram
    \/ \E s \in Slots : filters'[s] # filters[s] /\ filters'[s] \in ProgramIDs

\* Whatever a run writes, it writes while the fast path is off
\* (EnsureEndpointMaps: "refusing Map update while fast path is enabled", though
\* it is called with fastPathDisabled = true whatever the control map says).
WritesOnlyWhileDisabled == [][RunWrites => ~control.enabled]_vars

\* Disturbances are finite, so from some point on nothing goes wrong; an agent
\* that is run again and again then publishes again and again.
Recovers == []<>control.enabled

\* A half-loaded collection: a control map nobody initialised, which Disable
\* refuses, or some of the programs, which LoadAndPin refuses.
Wedged ==
    \/ ControlPinned /\ control.abi # 1
    \/ ~CollectionReady /\ \E p \in Programs : progPins[p] # NoProgram

\* Wherever disturbances hit, a half-loaded collection that no run clears up is
\* the only thing that can keep an agent from publishing again and again.
RecoversOrWedged == []<>control.enabled \/ <>[]Wedged

\* A run that returned an error leaves the fast path off (test message: "fast
\* path remained enabled after discovery failure").
FailedRunIsDisabled ==
    \A a \in Agents : outcome[a] = "failed" => ~control.enabled

-----------------------------------------------------------------------------
(***************************************************************************)
(* The inductive invariant behind FastPathWired, for a node on which one   *)
(* agent runs at a time.                                                   *)
(***************************************************************************)
OneAgent == \A a, b \in Agents : a = b

\* Addresses identify live pods, and every endpoint a run or the ownership
\* file speaks of has existed.
PodInv ==
    /\ live \cap dead = {}
    /\ \A e, f \in live : IPOf[e] = IPOf[f] => e = f
    /\ owned.eps \subseteq live \cup dead
    /\ \A a \in Agents :
        /\ eps[a] \subseteq live \cup dead
        /\ snap[a].eps \subseteq live \cup dead
        /\ \A e, f \in eps[a] : IPOf[e] = IPOf[f] => e = f

\* The entry of a live endpoint does not describe another one.
EntryOK(e) == e \in live => ingress[IPOf[e]] \in {e, NoEndpoint}

\* How far the endpoint loop of Ensure has come.
EndpointLoop == {"endpoint", "peer", "host", "ingress_cache", "devmap"}

EnsureInv == \A a \in Agents :
    /\ pc[a] \in EndpointLoop \/ (pc[a] \in {"verify", "commit_scan"} /\ supported[a]) =>
        /\ \A e \in eps[a] \ todo[a] : EntryOK(e)
        /\ eps[a] \ todo[a] # {} => devmap
    /\ pc[a] \in EndpointLoop => todo[a] \subseteq eps[a]
    /\ pc[a] \in EndpointLoop \ {"endpoint"} => cur[a] \in eps[a]
    /\ pc[a] = "devmap" => EntryOK(cur[a])
    /\ pc[a] \in {"verify", "commit_scan"} /\ supported[a] => todo[a] = {}

\* Between the second verification and Publish the kernel stays as recorded.
CommitInv == \A a \in Agents :
    /\ pc[a] = "commit_store" => snap[a].gen = gen[a] /\ WiredFor(snap[a])
    /\ pc[a] = "publish" => owned.gen = gen[a] /\ WiredFor(owned)

IInv ==
    /\ TypeOK /\ PodInv /\ EnsureInv /\ CommitInv
    /\ ReconcilingIsDisabled /\ FastPathWired

=============================================================================
