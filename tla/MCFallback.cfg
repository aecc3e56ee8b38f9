\* Ordinary packets, without mark bits of their own, that miss the caches.
SPECIFICATION Spec
CONSTANTS
    Packets = {"p1", "p2"}
    Flows = {"f1"}
    Locals = {"l1"}
    Remotes = {"r1"}
    Hosts = {"h1"}
    LocalOf <- MCLocalOf
    RemoteOf <- MCRemoteOf
    HomeOf <- MCHomeOf
    Carries <- AnyPacket
    TrafficTOS <- Unmarked
    Elements = {"e1"}
    Recycling = FALSE
    Evictable = {"policy_cache", "egressip_cache", "egress_cache", "ingress_cache", "devmap"}
    Heartbeats = {1}
    Timeout = 1
    ForceFlags = {FALSE}
    MaxTime = 1
    MaxPods = 1
    MaxMoves = 0
    MaxFaults = 0
INVARIANT FallbackIntact
