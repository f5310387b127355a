CONSTANTS
    Runs = {r1, r2}
    Tasks = {t1, t2, t3}
    Conns = {c1, c2}
    NoRun = NoRun
    NoTask = NoTask
    MaxCrashes = 0
    DiskFaults = TRUE
SPECIFICATION Spec
SYMMETRY Symmetry
INVARIANTS
    OneRegisteredDriver
    ExecutingIsRunning
    StatusHasDriver
    GraphBuildsBounded
