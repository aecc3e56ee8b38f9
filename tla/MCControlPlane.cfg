\* One agent, pods that come and go, every kind of disturbance.
SPECIFICATION FairSpec
CONSTANTS
    Agents = {"a"}
    Endpoints = {"e1", "e2", "e3"}
    IPs = {"i1", "i2"}
    IPOf <- MCIPOf
    OtherMaps = {"endpoint_maps"}
    Gens = {1, 2}
    MaxLoads = 3
    MaxFaults = 2
    LoadInterruptible = TRUE
INVARIANTS
    TypeOK
    FastPathWired
    ReconcilingIsDisabled
PROPERTIES WritesOnlyWhileDisabled RecoversOrWedged
