CONSTANTS
    Runs = {r1}
    Conns = {c1, c2}
    NoRun = NoRun
    MaxIterations = 2
    MaxSubmissions = 3
    MaxLosses = 1
SPECIFICATION FairSpec
CHECK_DEADLOCK FALSE
INVARIANTS
    TypeOK
    GuardMatchesRequests
    NeverGuessed
    ReportsAreTrue
PROPERTIES
    SubmissionsEnd
