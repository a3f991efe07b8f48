\* A service and a command-line compaction, two mishaps of any kind.
SPECIFICATION FairSpec
CONSTANTS
    service = service
    compactor = compactor
    Nobody = Nobody
    Processes = {service, compactor}
    Compactors = {compactor}
    Files = {1, 2, 3, 4, 5, 6}
    MaxGeneration = 2
    MaxExports = 2
    Mishaps = {"crash", "power", "fault", "damage"}
    MaxMishaps = 2
INVARIANTS
    JournalIsKept
    ServesEverything
    NoOrphanedBackup
PROPERTIES
    ServiceReturns
