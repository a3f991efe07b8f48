SPECIFICATION ViewSpec
CONSTANTS
    NameOrder <- MCNameOrder
    AnchorContext = 1
    OverviewLimit = 3
    PageSizes = {2}
    Times = {0, 3}
    Searches = {"", "x"}
    Universes <- MCUniverses
    ArchiveSize = 1
    Disagreements = {}
    PageSize = 1
    MaxPages = 2
    MaxInt = 200
    PerTokens = 2
INVARIANTS
    RollupsAreRebuilds
    ReplayAgrees
    CallsAreBilledOnce
    ViewIsFresh
    AnswersAreExact
CHECK_DEADLOCK FALSE
