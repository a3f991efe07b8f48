\* One mishap, and one move of the user, while a small feed is pruned, paged and rebuilt.
SPECIFICATION FairSpec
CONSTANTS
    s1 = s1
    s2 = s2
    t1 = t1
    list = list
    catalog = catalog
    Targets = {s1, s2, t1}
    Kinds = {"sessions", "traces"}
    KindOf <- MCKindOf
    Changes <- MCChanges
    CommitLimit = 1
    TargetLimit = 1
    RetainEvery = 2
    Retained = 1
    MaxCommits = 2
    MaxGeneration = 2
    Views = {list, catalog}
    Reads <- MCReads
    Catalogs = {catalog}
    Mishaps = {"fault", "break", "restart", "rebuild"}
    MaxMishaps = 1
    MaxMoves = 1
    FirstPage = list
INVARIANTS
    WaiterIsSignalled
    AcknowledgedIsShown
    HiddenIsStaleOrCurrent
    ReceivedIsKept
PROPERTIES
    Converges
CHECK_DEADLOCK FALSE
