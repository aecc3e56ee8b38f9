\* Others keep their rules before the marker and insert them between runs only.
SPECIFICATION FairRunSpec
CONSTANTS
    ForeignRules = {"x", "y"}
    BehindMarker = FALSE
    Concurrent = {"create", "delete", "change"}
    Reserved = {"marker", "y"}
    MaxRules = 4
    MaxEdits = 5
INVARIANTS RunTypeOK MarkerUnique
PROPERTIES ForeignRulesKept MarkerRestored
