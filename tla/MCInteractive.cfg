\* Two lines, thoughts recorded as experience, two unread thoughts at most.
CONSTANTS
    note = note
    key = key
    Paths <- TwoPaths
    Safe <- OnlyNote
    AutoPersist = TRUE
    MaxInbox = 2
    MaxLines = 2
SPECIFICATION Spec
INVARIANTS
    AtMostOneGuest
PROPERTIES
    StopEnds
    FilesAreReported
CHECK_DEADLOCK FALSE
