\* A callback calls WithNetNS again, as TCManager does in the agent.
SPECIFICATION NetNSSpec
CONSTANTS
    Threads = {"m0", "m1", "m2"}
    Leader = "m0"
    PodNets = {"p1"}
    InodeOf <- MCInodeOf
    Nested = TRUE
    FailingThreads = {}
    MaxFaults = 0
INVARIANT PoolIsHome
