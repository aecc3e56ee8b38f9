\* Traffic in both directions, evictions, failures, agent runs, addresses that
\* move or are reused.  A heartbeat of 1 runs out, one of 2 lasts to the end.
\* Only the agent refills ingress_cache and devmap, so these two are not under
\* pressure; the traffic carries the miss bit by itself.
SPECIFICATION FairSpec
CONSTANTS
    Packets = {"p1", "p2"}
    Flows = {"f1"}
    Locals = {"l1"}
    Remotes = {"r1"}
    Hosts = {"h1", "h2"}
    LocalOf <- MCLocalOf
    RemoteOf <- MCRemoteOf
    HomeOf <- MCHomeOf
    Carries <- OnePerDirection
    TrafficTOS <- MissMarked
    Elements = {"e1"}
    Recycling = FALSE
    Evictable = {"policy_cache", "egressip_cache", "egress_cache"}
    Heartbeats = {1, 2}
    Timeout = 1
    ForceFlags = {FALSE}
    MaxTime = 3
    MaxPods = 2
    MaxMoves = 1
    MaxFaults = 1
INVARIANT RedirectFindsPod
PROPERTIES
    FlowsGoFast
    FastPathExpires
