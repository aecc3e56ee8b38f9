\* Two flows to two hosts compete for one element of policy_cache; every map is
\* under pressure, a helper or the agent may interfere once, a route moves.
\* The traffic carries the miss bit by itself, so that marking a packet leaves
\* its checksum right and the flow can be learned (see MCFallback.cfg).
SPECIFICATION Spec
CONSTANTS
    f1 = f1
    f2 = f2
    r1 = r1
    r2 = r2
    h1 = h1
    h2 = h2
    Packets = {p1, p2}
    p1 = p1
    p2 = p2
    Flows = {f1, f2}
    Locals = {"l1"}
    Remotes = {r1, r2}
    Hosts = {h1, h2}
    LocalOf <- MCLocalOf
    RemoteOf <- SymRemoteOf
    HomeOf <- SymHomeOf
    Carries <- AnyPacket
    TrafficTOS <- MissMarked
    Elements = {"e1"}
    Recycling = FALSE
    Evictable = {"policy_cache", "egressip_cache", "egress_cache", "ingress_cache", "devmap"}
    Heartbeats = {1}
    Timeout = 1
    ForceFlags = {TRUE, FALSE}
    MaxTime = 1
    MaxPods = 1
    MaxMoves = 1
    MaxFaults = 1
INVARIANTS
    TypeOK
    RedirectOnlyApproved
    NoHalfRewrite
    RedirectFollowsFlannel
SYMMETRY PathSymmetry
PROPERTY ReadyBitsKept
