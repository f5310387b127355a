CONSTANTS
    Readers = {c1, c2}
    Cap = 2
    MaxEvents = 4
    MaxSegs = 2
    SetupFaults = TRUE
SPECIFICATION FairSpec
CHECK_DEADLOCK FALSE
INVARIANTS
    QueueIsNewest
PROPERTIES
    DeliveredInOrder
    UnsharedStreamCloses
