CONSTANTS
    Runs = {r1}
    Tasks = {t1, t2}
    Conns = {c1}
    NoRun = NoRun
    NoTask = NoTask
    MaxCrashes = 0
    DiskFaults = FALSE
SPECIFICATION Spec
PROPERTIES
    ResumeOnlyWhenInterrupted
