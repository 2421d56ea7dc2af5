\* A context of 12 units: level 1 fires above 9, level 2 above 10.
CONSTANTS
    MaxSize = 12
    EmergencyKeep = 2
    KeepRecent = 3
    ProtectSize = 5
    LargeOutput = 6
    PreviewSize = 2
    PruneMinimum = 1
    MarkerSize = 1
    SummaryMax = 2
    BlockSize = 2
    WorthResolving = 0
    HandoffSize = 2
    Opening <- Prompt
    Steps <- StepTexts
    Notes <- NoteTexts
    MaxSteps = 5
SPECIFICATION Spec
INVARIANTS
    RecentMessagesIntact
    SystemMessagesSurvive
    ConversationInOrder
    StopsOnlyWhenNothingIsLeft
