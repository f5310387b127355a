CONSTANTS
    paper1 = paper1
    paper2 = paper2
    page = page
    Sources <- MCSources
    NResults = 3
    MaxRuns = 2
SYMMETRY Papers
SPECIFICATION MemorySpec
CHECK_DEADLOCK FALSE
INVARIANTS
    NothingForgotten
    Attributed
