\* Five sessions, small journals, one failure of the process, two of the cycles.
SPECIFICATION Spec
CONSTANTS
    Histories <- MCHistories
    Databases <- MCDatabases
    MaxBatchRecords = 2
    MaxBatchBytes = 3
    MaxBuildMishaps = 2
    CatalogReadsFail = FALSE
    Calls = {"rpc", "request", "stream"}
    MaxFailures = 1
    Cycles = {1, 2}
    MaxChildren = 2
    MaxReportMishaps = 2
INVARIANTS
    ReworkIsExact
    BuiltIsWhole
    CleanExitIsQuiet
PROPERTIES
    ReportsAreTrue
    EverythingEnds
\* A session, a rebuild and a process end; the cycles are used up.
CHECK_DEADLOCK FALSE
