\* Two cycles of at most three experiments on one database; every third may be a compound.
CONSTANTS
    think = think
    verify = verify
    temperature = temperature
    insight = insight
    Rules <- TwoRules
    Params <- OneParam
    Reports <- SomeReports
    MaxScore = 2
    Estimates <- WorseOrNot
    Threshold = 0
    Judged = TRUE
    MaxExperiments = 3
    DreamerInterval = 2
    MetaEvery = 3
    StagnationThreshold = 2
    Window = 2
    MaxCycles = 2
    MaxRows = 4
SPECIFICATION Spec
INVARIANTS
    AcceptsClimb
    PartialVerdictsAreLast
    TsvFollowsTable
PROPERTIES
    RejectedOnce
    CycleEnds
CHECK_DEADLOCK FALSE
