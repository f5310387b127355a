CONSTANTS
    Targets = {data_analyst, problem_framer, validation_strategist, leakage_auditor}
    Fallback = data_analyst
    Frozen = validation_strategist
    NoTarget = NoTarget
    RetryBudgets <- SmallBudgets
SPECIFICATION FairSpec
CHECK_DEADLOCK FALSE
INVARIANTS
    TypeOK
    BudgetsEndCalls
    CallIsConclusive
PROPERTIES
    Concludes
