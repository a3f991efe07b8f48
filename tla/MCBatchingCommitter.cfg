SPECIFICATION Spec
CONSTANTS
    small = small
    middle = middle
    large = large
    huge = huge
    Requests = {small, middle, large}
    Closers = {c1}
    Bytes <- MCBytes
    WindowExports = 2
    WindowBytes = 3
    AdmissionExports = 2
    AdmissionBytes = 4
    NoRequest = NoRequest
INVARIANTS
    TypeOK
    Accounting
    NobodyStranded
    CancelOnlyAfterClose
    NoLostWakeup
    WindowIsTimed
PROPERTIES
    ImplementsLedger
CHECK_DEADLOCK FALSE
