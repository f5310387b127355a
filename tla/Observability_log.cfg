CONSTANTS
    Plan <- MCPlan
    Usages <- MCUsages
    MaxTurns <- MCTurns
    MaxLost = 1
    Losable <- MCLosable
SPECIFICATION LogSpec
CHECK_DEADLOCK FALSE
INVARIANTS
    HandlerForgets
    SpansPair
    TokensAddUp
