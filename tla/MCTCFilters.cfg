\* Two managers, two links at one address, and others that change everything.
SPECIFICATION FairSpec
CONSTANTS
    Managers = {"a", "b"}
    LinkIDs = {"l1", "l2"}
    FirstLink = "l1"
    Programs = {"tc_restore", "tc_init_e"}
    HookOf <- MCHookOf
    MaxVersion = 2
    MaxMoves = 3
    Takeover = FALSE
INVARIANTS
    TypeOK
    FilterOnOwnLink
    CallsTakeEffect
PROPERTIES
    ForeignFiltersKept
    Converges
