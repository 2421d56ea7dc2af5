\* Two threads, a chain of two with the default threshold, recovery off and after 1 success.
CONSTANTS
    repl = repl
    dmn = dmn
    p1 = p1
    p2 = p2
    none = none
    Clients <- TwoClients
    Cancellable <- ReplOnly
    Entries = 2
    Key <- TwoEntries
    MaxFailures = 2
    RecoverOptions = {0, 1}
    Reliable <- LastEntry
    HasProgram = TRUE
    Processes <- TwoProcesses
SPECIFICATION Spec
INVARIANTS
    OneServerUnderControl
    ReliableFallbackAnswers
    SwitchIsEarned
