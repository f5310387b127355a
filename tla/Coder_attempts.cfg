CONSTANTS
    MaxExecutionRetries = 2
    MaxRetries = 1
    MaxEscapes = 1
SPECIFICATION Spec
CHECK_DEADLOCK FALSE
INVARIANTS
    TypeOK
    AcceptedIsOneRun
    ExecutionsBounded
