----------------------------- MODULE Delegation -----------------------------
(***************************************************************************)
(* A task handed to sub-agents (agent/subagent.rs) and the rows it leaves   *)
(* in the tasks table (agent/task.rs).  The goals run one after the other,  *)
(* or at once when they are independent, need no confirmation and every     *)
(* thread can open the database.  A failing database is ignored; the rows   *)
(* outlive the process and nobody takes them up again.                      *)
(***************************************************************************)
EXTENDS Integers, Sequences, FiniteSets

CONSTANTS
    MaxTasks,       \* bound: tasks started
    MaxSubtasks     \* bound: goals of a delegation

ASSUME DelegationAssumption == MaxTasks \in Nat /\ MaxSubtasks \in Nat

Tasks == 1..MaxTasks
Subtasks == 1..MaxSubtasks

VARIABLES
    cancelled,      \* the token of the process
    task,           \* the number of the task
    run,            \* "idle", "task" (the parent works), "sequential" or "parallel"
    goals,          \* how many goals the delegation has, 0 before there is one
    independent,    \* check_independence found no goal that refers to another
    confirm,        \* the sub-agents have a confirm_callback
    at,             \* where each sub-agent is
    results,        \* the results, in order: the goal (0 when its thread panicked), its success
    rows,           \* the tasks table: the state of the row of each task and goal
    ended,          \* history: how each sub-agent ended
    missed          \* history: a write to the row failed

delegationVars == <<cancelled, task, run, goals, independent, confirm, at, results, rows, ended,
                    missed>>

AtWork == {"register", "work", "asking"}

DelegationInit ==
    /\ cancelled = FALSE
    /\ task = 0
    /\ run = "idle"
    /\ goals = 0
    /\ independent = FALSE
    /\ confirm = FALSE
    /\ at = [i \in Subtasks |-> "none"]
    /\ results = <<>>
    /\ rows = [t \in Tasks |-> [i \in Subtasks |-> "none"]]
    /\ ended = [t \in Tasks |-> [i \in Subtasks |-> "no"]]
    /\ missed = [t \in Tasks |-> [i \in Subtasks |-> FALSE]]

\* A task begins; the checkpoint that goes with it is Checkpoint's.
BeginTask ==
    /\ run = "idle"
    /\ task < MaxTasks
    /\ task' = task + 1
    /\ run' = "task"
    /\ UNCHANGED <<cancelled, goals, independent, confirm, at, results, rows, ended, missed>>

\* The end of a task; its cancelled token is the process's, which ends as well.
EndTask ==
    /\ run = "task"
    /\ run' = "idle"
    /\ cancelled' = FALSE
    /\ goals' = 0
    /\ independent' = FALSE
    /\ confirm' = FALSE
    /\ at' = [i \in Subtasks |-> "none"]
    /\ results' = <<>>
    /\ UNCHANGED <<task, rows, ended, missed>>

-----------------------------------------------------------------------------
\* Mutant: a confirmation does not keep the goals apart.
Parallelize_Asking(free, n, storeClonable, asks) == free /\ storeClonable /\ n >= 2

\* should_parallelize.
Parallelize(free, n, storeClonable, asks) == free /\ storeClonable /\ n >= 2 /\ ~asks

\* SubAgentExecutor::execute; too deep a delegation, or one without goals, has no results.
Delegate ==
    /\ run = "task"
    /\ goals = 0
    /\ \E n \in Subtasks, free, storeClonable, asks \in BOOLEAN :
        LET parallel == Parallelize(free /\ n >= 2, n, storeClonable, asks)
        IN  /\ goals' = n
            /\ independent' = (free /\ n >= 2)
            /\ confirm' = asks
            /\ run' = IF parallel THEN "parallel" ELSE "sequential"
            /\ at' = [i \in Subtasks |->
                        IF i > n THEN "none" ELSE IF parallel THEN "spawned" ELSE "waiting"]
    /\ UNCHANGED <<cancelled, task, results, rows, ended, missed>>

\* execute_sequential looks at the token before each goal, and skips the rest.
Turn(i) ==
    /\ run = "sequential"
    /\ at[i] = "waiting" /\ i = Len(results) + 1
    /\ ~cancelled
    /\ \A j \in Subtasks : at[j] \notin AtWork
    /\ at' = [at EXCEPT ![i] = "register"]
    /\ UNCHANGED <<cancelled, task, run, goals, independent, confirm, results, rows, ended, missed>>

\* A thread of execute_parallel looks once.
Thread(i) ==
    /\ at[i] = "spawned"
    /\ \/ ~cancelled /\ at' = [at EXCEPT ![i] = "register"] /\ UNCHANGED ended
       \/ /\ cancelled
          /\ at' = [at EXCEPT ![i] = "ended"]
          /\ ended' = [ended EXCEPT ![task][i] = "cancelled"]
    /\ UNCHANGED <<cancelled, task, run, goals, independent, confirm, results, rows, missed>>

\* TaskManager::create and update_state, or neither, or the first alone.
Register(i) ==
    /\ at[i] = "register"
    /\ at' = [at EXCEPT ![i] = "work"]
    /\ \E state \in {"none", "pending", "in_progress"} :
        rows' = [rows EXCEPT ![task][i] = state]
    /\ UNCHANGED <<cancelled, task, run, goals, independent, confirm, results, ended, missed>>

\* A tool of the sub-agent waits for a yes on the standard input.
Ask(i) ==
    /\ at[i] = "work"
    /\ confirm
    /\ at' = [at EXCEPT ![i] = "asking"]
    /\ UNCHANGED <<cancelled, task, run, goals, independent, confirm, results, rows, ended, missed>>

Answer(i) ==
    /\ at[i] = "asking"
    /\ at' = [at EXCEPT ![i] = "work"]
    /\ UNCHANGED <<cancelled, task, run, goals, independent, confirm, results, rows, ended, missed>>

\* A result of the sequential mode is there at once, one of a thread when all are.
Hand(i, success) ==
    results' = IF run = "sequential"
               THEN Append(results, [goal |-> i, success |-> success])
               ELSE results

\* The row, if there is one, is set to a final state, unless the database fails.
CloseRow(i, state) ==
    IF rows[task][i] = "none"
    THEN UNCHANGED <<rows, missed>>
    ELSE \/ rows' = [rows EXCEPT ![task][i] = state] /\ UNCHANGED missed
         \/ missed' = [missed EXCEPT ![task][i] = TRUE] /\ UNCHANGED rows

\* run_agent_loop has returned: with an answer, be it cancelled, aborted or out of time.
Succeed(i) ==
    /\ at[i] = "work"
    /\ at' = [at EXCEPT ![i] = "ended"]
    /\ ended' = [ended EXCEPT ![task][i] = "answer"]
    /\ CloseRow(i, "completed")
    /\ Hand(i, TRUE)
    /\ UNCHANGED <<cancelled, task, run, goals, independent, confirm>>

\* Mutant: an error is reported, and its row left open.
Err_RowLeftOpen(i) ==
    /\ at[i] = "work"
    /\ at' = [at EXCEPT ![i] = "ended"]
    /\ ended' = [ended EXCEPT ![task][i] = "error"]
    /\ Hand(i, FALSE)
    /\ UNCHANGED <<cancelled, task, run, goals, independent, confirm, rows, missed>>

Err(i) ==
    /\ at[i] = "work"
    /\ at' = [at EXCEPT ![i] = "ended"]
    /\ ended' = [ended EXCEPT ![task][i] = "error"]
    /\ CloseRow(i, "failed")
    /\ Hand(i, FALSE)
    /\ UNCHANGED <<cancelled, task, run, goals, independent, confirm>>

\* A thread that panics leaves its row; in the sequential mode the process would end (Crash).
Panic(i) ==
    /\ run = "parallel"
    /\ at[i] \in {"register", "work"}
    /\ at' = [at EXCEPT ![i] = "ended"]
    /\ ended' = [ended EXCEPT ![task][i] = "panic"]
    /\ UNCHANGED <<cancelled, task, run, goals, independent, confirm, results, rows, missed>>

SubtaskStep(i) ==
    Turn(i) \/ Thread(i) \/ Register(i) \/ Ask(i) \/ Answer(i) \/ Succeed(i) \/ Err(i) \/ Panic(i)

\* What the handle of a thread yields.
Joined(i) == [goal |-> IF ended[task][i] = "panic" THEN 0 ELSE i,
              success |-> ended[task][i] = "answer"]

\* Mutant: the first failure ends a sequential delegation.
ReturnResults_AtFailure ==
    /\ run = "sequential"
    /\ \/ cancelled
       \/ Len(results) = goals
       \/ results # <<>> /\ ~results[Len(results)].success
    /\ \A i \in Subtasks : at[i] \notin AtWork
    /\ run' = "task"
    /\ UNCHANGED <<cancelled, task, goals, independent, confirm, at, results, rows, ended, missed>>

ReturnResults ==
    /\ \/ /\ run = "sequential"
          /\ cancelled \/ Len(results) = goals
          /\ \A i \in Subtasks : at[i] \notin AtWork
          /\ results' = results
       \/ /\ run = "parallel"
          /\ \A i \in 1..goals : at[i] = "ended"
          /\ results' = [i \in 1..goals |-> Joined(i)]
    /\ run' = "task"
    /\ UNCHANGED <<cancelled, task, goals, independent, confirm, at, rows, ended, missed>>

Cancel ==
    /\ run # "idle"
    /\ ~cancelled
    /\ cancelled' = TRUE
    /\ UNCHANGED <<task, run, goals, independent, confirm, at, results, rows, ended, missed>>

\* The process dies; the rows stay as they are.
Die ==
    /\ run # "idle"
    /\ run' = "idle"
    /\ cancelled' = FALSE
    /\ goals' = 0
    /\ independent' = FALSE
    /\ confirm' = FALSE
    /\ at' = [i \in Subtasks |-> "none"]
    /\ results' = <<>>
    /\ ended' = [ended EXCEPT ![task] = [i \in Subtasks |->
                    IF at[i] \in AtWork THEN "died" ELSE ended[task][i]]]
    /\ UNCHANGED <<task, rows, missed>>

\* list_incomplete, which `--tasks` shows.
Incomplete == {p \in Tasks \X Subtasks : rows[p[1]][p[2]] \in {"pending", "in_progress"}}

-----------------------------------------------------------------------------
DelegationTypeOK ==
    /\ cancelled \in BOOLEAN /\ independent \in BOOLEAN /\ confirm \in BOOLEAN
    /\ task \in 0..MaxTasks
    /\ run \in {"idle", "task", "sequential", "parallel"}
    /\ goals \in 0..MaxSubtasks
    /\ at \in [Subtasks -> {"none", "waiting", "spawned", "ended"} \union AtWork]
    /\ results \in Seq([goal : 0..MaxSubtasks, success : BOOLEAN])
    /\ rows \in [Tasks -> [Subtasks -> {"none", "pending", "in_progress", "completed", "failed"}]]
    /\ ended \in [Tasks -> [Subtasks -> {"no", "answer", "error", "cancelled", "panic", "died"}]]
    /\ missed \in [Tasks -> [Subtasks -> BOOLEAN]]
==============================================================================
