\* Shutdown in the middle of a restore.
SPECIFICATION Spec
CONSTANTS
    cycle1 = cycle1
    cycle2 = cycle2
    restore1 = restore1
    restore2 = restore2
    Nobody = Nobody
    Exports = {1, 2}
    Segments = {1, 2, 3}
    Operations = {1, 2, 3, 4}
    Cycles = {cycle1}
    Restores = {restore1}
    ArchiveDays = 1
    DeleteDays = 2
    HoldDays = 1
    GroupLimit = 2
    MaxTime = 1
    Scenarios <- Shutdown
INVARIANTS
    CorruptMarkIsTrue
