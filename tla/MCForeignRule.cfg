\* A rule of another owner stands behind the marker.
SPECIFICATION Spec
CONSTANTS
    ForeignRules = {"x", "y"}
    BehindMarker = TRUE
    Concurrent = {}
    MaxRules = 4
    MaxEdits = 4
PROPERTY ForeignRulesKept
