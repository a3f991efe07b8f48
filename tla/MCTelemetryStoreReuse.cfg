\* A span that falls back after a compaction to a version with its replay sequence.
SPECIFICATION ViewSpec
CONSTANTS
    NameOrder <- MCNameOrder
    AnchorContext = 1
    OverviewLimit = 3
    PageSizes = {2}
    Times = {0, 3}
    Searches = {"", "x"}
    Universes <- MCUniverses
    ArchiveSize = 1
    Disagreements = {"sequence reuse"}
    PageSize = 1
    MaxPages = 2
    MaxInt = 200
    PerTokens = 2
INVARIANTS
    SessionsMatchTheirRows
CHECK_DEADLOCK FALSE
