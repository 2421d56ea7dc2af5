\* The default chain settings, with a second entry that always answers.
CONSTANTS
    repl = repl
    dmn = dmn
    p1 = p1
    p2 = p2
    none = none
    Clients <- TwoClients
    Cancellable <- ReplOnly
    Entries = 2
    Key <- TwoEntries
    MaxFailures = 2
    RecoverOptions = {0}
    Reliable <- LastEntry
    HasProgram = TRUE
    Processes <- TwoProcesses
SPECIFICATION Spec
INVARIANT FailsOver
