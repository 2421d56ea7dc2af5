\* Six iterations, two of them open to corrections; the advisor and the
\* critic may each be used up.
CONSTANTS
    MaxIterations = 6
    MaxRetries = 2
    AdvisorMaxUses = 1
    CriticMaxUses = 1
    MaxCalls = 1
    c1 = c1
    c2 = c2
    Contents = {c1, c2}
    ReplanPrompt = ReplanPrompt
    NoContent = NoContent
SPECIFICATION Spec
INVARIANTS
    EndingMatchesResult
    LearningMatchesResult
    ReplanBeforeStop
    FailureCountersAgree
    ToolsAccountedFor
PROPERTIES
    Terminates
    Implements
