\* Two callers, a server that dies and is started again twice; the second process is chatty, the
\* third may stop answering.
CONSTANTS
    c1 = c1
    c2 = c2
    none = none
    Callers <- TwoCallers
    MaxRequests = 7
    MaxServers = 3
    Chatty = {2}
    Silent = {3}
SPECIFICATION McpSpec
INVARIANTS
    AnswersBelong
    NoOrphanServer
PROPERTIES
    LockComesBack
CHECK_DEADLOCK FALSE
