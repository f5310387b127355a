CONSTANTS
    MaxScore = 1
    MaxIterations = 2
    MaxRetries = 1
    MaxChanges = 1
SPECIFICATION FairSpec
CHECK_DEADLOCK FALSE
INVARIANTS
    TypeOK
    IndexFollowsIterations
    BestIsOnDisk
    CounterSteersLoop
    IterationsBounded
PROPERTIES
    EventuallyRests
