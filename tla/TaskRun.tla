------------------------------- MODULE TaskRun -------------------------------
(***************************************************************************)
(* A task that makes a checkpoint of the user's work, is handed to          *)
(* sub-agents that write files, may be cancelled or die, and is rolled back *)
(* by another process, at any moment and while the user works on.           *)
(***************************************************************************)
EXTENDS Delegation, Checkpoint

VARIABLES
    before      \* history: the working tree when the latest task with a checkpoint began

vars == <<delegationVars, checkpointVars, before>>

Init ==
    /\ DelegationInit
    /\ CheckpointInit
    /\ before = head

\* run_agent_loop: the checkpoint comes before the first step; it is not made again by the
\* sub-agents, whose configuration leaves auto_checkpoint out (build_sub_config).
StartTask ==
    /\ BeginTask
    /\ Create
    /\ before' = IF checkpoints' = checkpoints THEN before ELSE tree
    /\ UNCHANGED <<gitVars, rollbackVars>>

\* Mutant: a sub-agent makes a checkpoint of its own.
Subtask_OwnCheckpoint(i) ==
    /\ SubtaskStep(i)
    /\ IF at[i] = "register" /\ at'[i] = "work" THEN Create ELSE UNCHANGED checkpoints
    /\ UNCHANGED <<gitVars, rollbackVars, before>>

\* What one sub-agent does on its own.
Subtask(i) ==
    /\ SubtaskStep(i)
    /\ UNCHANGED <<checkpointVars, before>>

RunTask ==
    /\ Delegate \/ ReturnResults \/ EndTask \/ Cancel \/ Die
    /\ UNCHANGED <<checkpointVars, before>>

RunRollback ==
    /\ RollbackStep
    /\ UNCHANGED <<delegationVars, before>>

Files ==
    /\ Write \/ Stage \/ Commit \/ CollectGarbage
    /\ UNCHANGED <<delegationVars, before>>

Next ==
    \/ StartTask
    \/ \E i \in Subtasks : Subtask(i)
    \/ RunTask
    \/ RunRollback
    \/ Files

Spec == Init /\ [][Next]_vars

-----------------------------------------------------------------------------
(* The state is of the right shape. *)
TypeOK ==
    /\ DelegationTypeOK
    /\ CheckpointTypeOK
    /\ before \in Contents \union {clash}

-----------------------------------------------------------------------------
(* Safety. *)

\* What the tasks table says of a subtask is how it ended, for every task it has ever held, and
\* a row that is still open (list_incomplete) is one whose sub-agent runs, has panicked or died
\* with its process, or whose last write failed: no answer and no error leaves a row behind
\* (execute_single_subtask).
RowsTellWhatHappened ==
    \A t \in Tasks, i \in Subtasks :
        /\ rows[t][i] = "completed" => ended[t][i] = "answer"
        /\ rows[t][i] = "failed" => ended[t][i] = "error"
        /\ <<t, i>> \in Incomplete => \/ t = task /\ at[i] \in AtWork
                                      \/ ended[t][i] \in {"panic", "died"}
                                      \/ missed[t][i]

\* A delegation that returns has the result of every goal in the order of the goals, whatever
\* the order its threads end in; only a cancelled one may be short of the last ones.
EveryGoalAnswered ==
    run = "task" /\ goals > 0 =>
        /\ Len(results) = goals \/ cancelled
        /\ \A k \in 1..Len(results) :
            /\ results[k].goal \in {k, 0}
            /\ results[k].success <=> ended[task][k] = "answer"

\* Sub-agents whose goals refer to each other, or that may ask the user, are never two at work:
\* no two prompts wait on one standard input (should_parallelize).
DependentsRunAlone ==
    confirm \/ ~independent => Cardinality({i \in Subtasks : at[i] \in AtWork}) <= 1

\* A rollback to the latest checkpoint that says it succeeded brings back what the user had
\* when the task began, whatever its sub-agents and the user have written since, also between
\* the two commands of the rollback, as long as nothing was staged or committed over it and
\* there was unstaged work to bring back.
RollbackUndoesTheTask ==
    [][ /\ rollback = "apply" /\ rollback' = "mark" /\ restored'
        /\ target = Len(checkpoints)
        /\ index = checkpoints[target].base /\ index # checkpoints[target].saved
        => tree' = before ]_vars
==============================================================================
