\* The same threads, with a chain that switches at the first failure and does not return.
CONSTANTS
    repl = repl
    dmn = dmn
    p1 = p1
    p2 = p2
    none = none
    Clients <- TwoClients
    Cancellable <- ReplOnly
    Entries = 2
    Key <- TwoEntries
    MaxFailures = 1
    RecoverOptions = {0}
    Reliable <- LastEntry
    HasProgram = TRUE
    Processes <- TwoProcesses
SPECIFICATION Spec
PROPERTIES
    RequestsReturn
    IdleServerIsStopped
