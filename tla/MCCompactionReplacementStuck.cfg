\* A replacement that is interrupted, and its recovery too.
SPECIFICATION Spec
CONSTANTS
    service = service
    compactor = compactor
    Nobody = Nobody
    Processes = {service}
    Compactors = {}
    Files = {1, 2, 3, 4, 5, 6}
    MaxGeneration = 2
    MaxExports = 1
    Mishaps = {"crash"}
    MaxMishaps = 2
INVARIANTS
    RecoveryResolves
