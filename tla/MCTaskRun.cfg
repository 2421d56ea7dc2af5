\* One task of at most two subtasks, and room for a checkpoint more than it makes.
CONSTANTS
    v1 = v1
    v2 = v2
    v3 = v3
    clash = clash
    Contents <- ThreeContents
    MaxTasks = 1
    MaxSubtasks = 2
    MaxCheckpoints = 2
SPECIFICATION Spec
SYMMETRY AnyContents
INVARIANTS
    RowsTellWhatHappened
    EveryGoalAnswered
    DependentsRunAlone
PROPERTIES
    RollbackUndoesTheTask
CHECK_DEADLOCK FALSE
