CONSTANTS
    Runs = {r1}
    Tasks = {t1, t2}
    Conns = {c1, c2}
    NoRun = NoRun
    NoTask = NoTask
    MaxCrashes = 2
    DiskFaults = FALSE
SPECIFICATION FairSpec
INVARIANTS
    RegistryAgreesWithCheckpoint
PROPERTIES
    ImplementsRunStatus
    EverythingSettles
