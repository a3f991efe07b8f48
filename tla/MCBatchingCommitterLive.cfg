SPECIFICATION Spec
CONSTANTS
    small = small
    middle = middle
    large = large
    huge = huge
    Requests = {middle, large}
    Closers = {c1, c2}
    Bytes <- MCBytes
    WindowExports = 2
    WindowBytes = 3
    AdmissionExports = 2
    AdmissionBytes = 4
    NoRequest = NoRequest
INVARIANTS
    CleanCloseIsDurable
PROPERTIES
    AdmittedIsAnswered
    BlockedGoesOn
    CloseTerminates
CHECK_DEADLOCK FALSE
