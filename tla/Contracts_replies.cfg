CONSTANTS
    Problems <- MCProblems
    FoldConfigs <- MCFoldConfigs
    Leakages <- MCLeakages
    Baselines <- MCBaselines
    Plans <- MCPlans
    Specs <- MCSpecs
    Designs <- MCDesigns
    Diagnoses <- MCDiagnoses
    HypothesisLists <- MCHypothesisLists
    ChangeLists <- MCChangeLists
    Families <- MCFamilies
    UsableNames <- MCUsableNames
    ForbiddenCvKeys <- MCForbiddenCvKeys
    FittedAs <- MCFittedAs
    MaxExact = 9
    Slack = 3
    LastIteration = 2
SPECIFICATION Spec
CHECK_DEADLOCK FALSE
INVARIANTS
    DesignIsSamplable
    EnsembleReadsEachExperiment
    RankedInOrder
