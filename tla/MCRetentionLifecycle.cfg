\* A cycle and restores, two cycles, and up to two mishaps.
SPECIFICATION Spec
CONSTANTS
    cycle1 = cycle1
    cycle2 = cycle2
    restore1 = restore1
    restore2 = restore2
    Nobody = Nobody
    Exports = {1, 2, 3}
    Segments = {1, 2, 3, 4}
    Operations = {1, 2, 3, 4}
    Cycles = {cycle1, cycle2}
    Restores = {restore1, restore2}
    ArchiveDays = 1
    DeleteDays = 2
    HoldDays = 1
    GroupLimit = 2
    MaxTime = 2
    Scenarios <- Interleavings
\* Two cycles stop when the days and the policy updates are used up and nobody restores.
CHECK_DEADLOCK FALSE
INVARIANTS
    AuthorityIsExact
    ClaimHoldsUntilPublished
    PlanStaysExact
    FilesFollowSegments
PROPERTIES
    OutcomesAreTrue
    DecisionStillStands
    RecoveryIsComplete
    KeepsCustody
