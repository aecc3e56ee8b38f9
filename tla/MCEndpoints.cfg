\* Two pods, four sandboxes, one failure or cancellation, two threads.
SPECIFICATION FairSpec
CONSTANTS
    Threads = {"m0", "m1"}
    Leader = "m0"
    PodNets = {"s1", "s2", "s3", "s4"}
    InodeOf <- MCInodeOf
    Nested = FALSE
    FailingThreads = {"m1"}
    MaxFaults = 1
    Pods = {1, 2}
    PodOf <- MCPodOf
    PidOf <- MCPidOf
    HostIdxOf <- MCHostIdxOf
    EthIdx = 2
    NodeIdx = 3
    Manifests <- MCManifests
    TCLinks <- MCTCLinks
    PidReuse = FALSE
INVARIANTS TypeOK EndpointCoherent PlanCoversPods FailsForItsPod PoolIsHome CallbackInTarget
PROPERTY Resolves
