\* Two steps of up to three calls: one opens the breaker of a tool, the next meets it.
CONSTANTS
    Calls <- FileTools
    BreakerThreshold = 2
    MaxBatch = 3
    MaxSteps = 2
    MaxCoolDowns = 1
SPECIFICATION Spec
INVARIANTS
    EveryCallAnswered
    BreakerContainsFailures
    FileCacheCoherent
PROPERTY StepCompletes
