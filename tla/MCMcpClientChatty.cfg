\* One chatty process: an answer may be taken for that of another call.
CONSTANTS
    c1 = c1
    c2 = c2
    none = none
    Callers <- TwoCallers
    MaxRequests = 4
    MaxServers = 1
    Chatty = {1}
    Silent = {}
SPECIFICATION McpSpec
INVARIANTS
    ReceivesTheResponse
CHECK_DEADLOCK FALSE
