\* Disturbances also inside LoadAndPin .. Initialize: pins are left behind that
\* every later run refuses to load over.
SPECIFICATION FairSpec
CONSTANTS
    Agents = {"a"}
    Endpoints = {"e1", "e2"}
    IPs = {"i1", "i2"}
    IPOf <- MCIPOf
    OtherMaps = {"endpoint_maps"}
    Gens = {1}
    MaxLoads = 3
    MaxFaults = 2
    LoadInterruptible = TRUE
PROPERTY Recovers
