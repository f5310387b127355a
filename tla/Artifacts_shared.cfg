CONSTANTS
    Runs = {a, b}
    MaxIterations = 1
    LastImprovement = 2
    MaxReruns = 2
SPECIFICATION Spec
CHECK_DEADLOCK FALSE
INVARIANTS
    FoldsGuardWorkspace
    NoStaleReads
    IterationsDoNotMix
PROPERTY
    PastIterationsAreFinal
