\* Two agents write, fail, are killed and crash.
SPECIFICATION Spec
CONSTANTS
    Writers = {"w1", "w2"}
    Values = {"s1", "s2"}
    MaxChanges = 3
    MaxFaults = 2
INVARIANTS TypeOK NeverTorn AckedSurvives NoLeak
PROPERTY ImplementsAtomicFile
CHECK_DEADLOCK FALSE
