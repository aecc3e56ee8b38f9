\* A run that fails before or in Disable leaves a published fast path on.
SPECIFICATION Spec
CONSTANTS
    Agents = {"a"}
    Endpoints = {"e1"}
    IPs = {"i1"}
    IPOf <- MCIPOf
    OtherMaps = {"endpoint_maps"}
    Gens = {1}
    MaxLoads = 2
    MaxFaults = 1
    LoadInterruptible = FALSE
INVARIANT FailedRunIsDisabled
