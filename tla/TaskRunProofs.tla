---------------------------- MODULE TaskRunProofs ----------------------------
(***************************************************************************)
(* What is proved of a task with its sub-agents and its checkpoint, for any  *)
(* number of tasks, of goals and of checkpoints, wherever the process dies   *)
(* and whichever writes fail.                                                *)
(***************************************************************************)
EXTENDS TaskRun, TLAPS, FiniteSetTheorems, SequenceTheorems

\* Between two tasks nothing is left of the last delegation, and only a running task has a
\* number of its own.
Idle ==
    /\ run = "idle" => goals = 0 /\ results = <<>>
    /\ run = "task" /\ goals = 0 => results = <<>>
    /\ run # "idle" => task \in Tasks

\* Where the sub-agents may be in each mode.
Placed == \A i \in Subtasks :
    /\ i > goals => at[i] = "none"
    /\ at[i] = "spawned" => run = "parallel"
    /\ at[i] = "waiting" => run \in {"sequential", "task"}
    /\ at[i] \in AtWork => run \in {"sequential", "parallel"}

\* The goals of a sequential delegation end in their order, and only the next one is at work.
InOrder == run = "sequential" =>
    /\ Len(results) <= goals
    /\ \A k \in 1..Len(results) :
          at[k] = "ended" /\ results[k].goal = k /\ (results[k].success <=> ended[task][k] = "answer")
    /\ \A i \in Subtasks :
          /\ at[i] = "ended" => i <= Len(results)
          /\ at[i] \in AtWork => i = Len(results) + 1

ParallelMayBe == run = "parallel" => independent /\ ~confirm

\* A row that is not written yet is not there, and one that is not closed yet is open.
OpenRows ==
    /\ \A t \in Tasks, i \in Subtasks : t > task => rows[t][i] = "none"
    /\ run # "idle" => \A i \in Subtasks :
          /\ at[i] \in {"none", "waiting", "spawned", "register"} => rows[task][i] = "none"
          /\ at[i] \in {"work", "asking"} => rows[task][i] \in {"none", "pending", "in_progress"}

\* RowsTellWhatHappened, without the set of list_incomplete.
Told == \A t \in Tasks, i \in Subtasks :
    /\ rows[t][i] = "completed" => ended[t][i] = "answer"
    /\ rows[t][i] = "failed" => ended[t][i] = "error"
    /\ rows[t][i] \in {"pending", "in_progress"} => \/ t = task /\ at[i] \in AtWork
                                                   \/ ended[t][i] \in {"panic", "died"}
                                                   \/ missed[t][i]

\* The latest checkpoint is of the user's work when the task began, and a rollback has a target.
Saved ==
    /\ checkpoints # <<>> => checkpoints[Len(checkpoints)].saved = before
    /\ rollback # "idle" => target \in Ids
    /\ Len(checkpoints) <= MaxCheckpoints

\* The whole of it, for the delegation.
Delegated == DelegationTypeOK /\ Idle /\ Placed /\ InOrder /\ ParallelMayBe /\ OpenRows
                  /\ Told /\ EveryGoalAnswered

Checkpointed == CheckpointTypeOK /\ before \in Contents \union {clash} /\ Saved

IInv == Delegated /\ Checkpointed

-----------------------------------------------------------------------------
(* The delegation. *)

\* What one sub-agent's step does to the tables it has an entry in.
LEMMA OneEntry ==
    ASSUME DelegationTypeOK, task \in Tasks, NEW i \in Subtasks, NEW x
    PROVE  /\ \A j \in Subtasks : [at EXCEPT ![i] = x][j] = IF j = i THEN x ELSE at[j]
           /\ \A t \in Tasks, j \in Subtasks :
                [rows EXCEPT ![task][i] = x][t][j] = IF t = task /\ j = i THEN x ELSE rows[t][j]
           /\ \A t \in Tasks, j \in Subtasks :
                [ended EXCEPT ![task][i] = x][t][j] = IF t = task /\ j = i THEN x ELSE ended[t][j]
           /\ \A t \in Tasks, j \in Subtasks :
                [missed EXCEPT ![task][i] = x][t][j] = IF t = task /\ j = i THEN x ELSE missed[t][j]
  BY DEF DelegationTypeOK

\* A table of a task's sub-agents with one entry changed is such a table still.
LEMMA EntryFits ==
    ASSUME NEW V, NEW f \in [Tasks -> [Subtasks -> V]], NEW t \in Tasks, NEW i \in Subtasks,
           NEW v \in V
    PROVE  [f EXCEPT ![t][i] = v] \in [Tasks -> [Subtasks -> V]]
  <1>1. [f[t] EXCEPT ![i] = v] \in [Subtasks -> V]
    OBVIOUS
  <1> QED  BY <1>1

LEMMA DelegationTypeFacts ==
    ASSUME DelegationTypeOK
    PROVE  goals \in Nat /\ goals <= MaxSubtasks /\ Len(results) \in Nat /\ MaxSubtasks \in Nat
  BY DelegationAssumption DEF DelegationTypeOK

LEMMA BeginTaskStep == ASSUME Delegated, BeginTask PROVE Delegated'
  <1>1. /\ run = "idle" /\ run' = "task" /\ task' = task + 1 /\ task < MaxTasks
        /\ UNCHANGED <<cancelled, goals, independent, confirm, at, results, rows, ended, missed>>
    BY DEF BeginTask
  <1>2. task \in Nat /\ task' \in Tasks /\ goals = 0 /\ results = <<>>
    BY <1>1, DelegationAssumption DEF Delegated, DelegationTypeOK, Idle, Tasks
  <1>3. \A i \in Subtasks : at[i] = "none"
    BY <1>1, <1>2 DEF Delegated, Placed, Subtasks
  <1>4. DelegationTypeOK'
    BY <1>1, <1>2, DelegationAssumption DEF Delegated, DelegationTypeOK, Tasks
  <1>5. Idle' /\ Placed' /\ InOrder' /\ ParallelMayBe'
    BY <1>1, <1>2, <1>3 DEF Idle, Placed, InOrder, ParallelMayBe, AtWork
  <1>6. OpenRows'
    <2>1. \A t \in Tasks, i \in Subtasks : t > task => rows[t][i] = "none"
      BY DEF Delegated, OpenRows
    <2>2. \A t \in Tasks : t > task' => t > task
      BY <1>1, <1>2 DEF Tasks
    <2>3. task' > task
      BY <1>1, <1>2
    <2>4. \A i \in Subtasks : rows[task'][i] = "none"
      BY <1>2, <2>1, <2>3
    <2> QED  BY <1>1, <1>3, <2>1, <2>2, <2>4 DEF OpenRows
  <1>7. Told'
    BY <1>1, <1>3 DEF Delegated, Told, AtWork
  <1>8. EveryGoalAnswered'
    BY <1>1, <1>2 DEF EveryGoalAnswered
  <1> QED  BY <1>4, <1>5, <1>6, <1>7, <1>8 DEF Delegated

LEMMA EndTaskStep == ASSUME Delegated, EndTask PROVE Delegated'
  <1>1. /\ run = "task" /\ run' = "idle" /\ cancelled' = FALSE /\ goals' = 0
        /\ independent' = FALSE /\ confirm' = FALSE /\ at' = [i \in Subtasks |-> "none"]
        /\ results' = <<>> /\ UNCHANGED <<task, rows, ended, missed>>
    BY DEF EndTask
  <1>2. \A i \in Subtasks : at[i] \notin AtWork
    BY <1>1 DEF Delegated, Placed
  <1>3. DelegationTypeOK'
    <2>1. results' \in Seq([goal : 0..MaxSubtasks, success : BOOLEAN])
      BY <1>1
    <2>2. at' \in [Subtasks -> {"none", "waiting", "spawned", "ended"} \union AtWork]
      BY <1>1
    <2>3. goals' \in 0..MaxSubtasks
      BY <1>1, DelegationAssumption
    <2> QED  BY <1>1, <2>1, <2>2, <2>3 DEF Delegated, DelegationTypeOK
  <1>4. Idle' /\ Placed' /\ InOrder' /\ ParallelMayBe' /\ EveryGoalAnswered'
    BY <1>1 DEF Idle, Placed, InOrder, ParallelMayBe, AtWork, EveryGoalAnswered
  <1>5. OpenRows'
    BY <1>1 DEF Delegated, OpenRows
  <1>6. Told'
    BY <1>1, <1>2 DEF Delegated, Told
  <1> QED  BY <1>3, <1>4, <1>5, <1>6 DEF Delegated

LEMMA DieStep == ASSUME Delegated, Die PROVE Delegated'
  <1>1. /\ run # "idle" /\ run' = "idle" /\ cancelled' = FALSE /\ goals' = 0
        /\ independent' = FALSE /\ confirm' = FALSE /\ at' = [i \in Subtasks |-> "none"]
        /\ results' = <<>> /\ UNCHANGED <<task, rows, missed>>
        /\ ended' = [ended EXCEPT ![task] = [i \in Subtasks |->
                        IF at[i] \in AtWork THEN "died" ELSE ended[task][i]]]
    BY DEF Die
  <1>2. task \in Tasks
    BY <1>1 DEF Delegated, Idle
  <1>3. \A t \in Tasks, i \in Subtasks :
            ended'[t][i] = IF t = task /\ at[i] \in AtWork THEN "died" ELSE ended[t][i]
    BY <1>1, <1>2 DEF Delegated, DelegationTypeOK
  <1>4. DelegationTypeOK'
    <2>1. ended' \in [Tasks -> [Subtasks -> {"no", "answer", "error", "cancelled", "panic", "died"}]]
      BY <1>1, <1>2 DEF Delegated, DelegationTypeOK
    <2>2. results' \in Seq([goal : 0..MaxSubtasks, success : BOOLEAN])
      BY <1>1
    <2>3. at' \in [Subtasks -> {"none", "waiting", "spawned", "ended"} \union AtWork]
      BY <1>1
    <2>4. goals' \in 0..MaxSubtasks
      BY <1>1, DelegationAssumption
    <2> QED  BY <1>1, <2>1, <2>2, <2>3, <2>4 DEF Delegated, DelegationTypeOK
  <1>5. Idle' /\ Placed' /\ InOrder' /\ ParallelMayBe' /\ EveryGoalAnswered'
    BY <1>1 DEF Idle, Placed, InOrder, ParallelMayBe, AtWork, EveryGoalAnswered
  <1>6. OpenRows'
    BY <1>1 DEF Delegated, OpenRows
  <1>7. Told'
    <2> SUFFICES ASSUME NEW t \in Tasks, NEW i \in Subtasks
                 PROVE  /\ rows[t][i] = "completed" => ended'[t][i] = "answer"
                        /\ rows[t][i] = "failed" => ended'[t][i] = "error"
                        /\ rows[t][i] \in {"pending", "in_progress"} =>
                              ended'[t][i] \in {"panic", "died"} \/ missed[t][i]
      BY <1>1 DEF Told
    <2>1. CASE t = task /\ at[i] \in AtWork
      <3>1. rows[t][i] \in {"none", "pending", "in_progress"}
        BY <1>1, <2>1 DEF Delegated, OpenRows, AtWork
      <3> QED  BY <3>1, <2>1, <1>3
    <2>2. CASE ~(t = task /\ at[i] \in AtWork)
      BY <2>2, <1>3 DEF Delegated, Told
    <2> QED  BY <2>1, <2>2
  <1> QED  BY <1>4, <1>5, <1>6, <1>7 DEF Delegated

LEMMA CancelStep == ASSUME Delegated, Cancel PROVE Delegated'
  <1>1. /\ cancelled' = TRUE
        /\ UNCHANGED <<task, run, goals, independent, confirm, at, results, rows, ended, missed>>
    BY DEF Cancel
  <1>2. DelegationTypeOK'
    BY <1>1 DEF Delegated, DelegationTypeOK
  <1>3. Idle' /\ Placed' /\ InOrder' /\ ParallelMayBe' /\ OpenRows'
    BY <1>1 DEF Delegated, Idle, Placed, InOrder, ParallelMayBe, OpenRows
  <1>4. Told'
    BY <1>1 DEF Delegated, Told
  <1>5. EveryGoalAnswered'
    BY <1>1 DEF Delegated, EveryGoalAnswered
  <1> QED  BY <1>2, <1>3, <1>4, <1>5 DEF Delegated

LEMMA DelegateStep == ASSUME Delegated, Delegate PROVE Delegated'
  <1>1. run = "task" /\ goals = 0 /\ UNCHANGED <<cancelled, task, results, rows, ended, missed>>
    BY DEF Delegate
  <1>2. PICK n \in Subtasks, free \in BOOLEAN, storeClonable \in BOOLEAN, asks \in BOOLEAN :
            LET parallel == Parallelize(free /\ n >= 2, n, storeClonable, asks)
            IN  /\ goals' = n
                /\ independent' = (free /\ n >= 2)
                /\ confirm' = asks
                /\ run' = IF parallel THEN "parallel" ELSE "sequential"
                /\ at' = [i \in Subtasks |->
                            IF i > n THEN "none" ELSE IF parallel THEN "spawned" ELSE "waiting"]
    BY DEF Delegate
  <1>3. /\ run' \in {"sequential", "parallel"} /\ goals' = n /\ n \in 1..MaxSubtasks
        /\ run' = "parallel" => independent' /\ ~confirm'
        /\ independent' \in BOOLEAN /\ confirm' \in BOOLEAN
        /\ at' = [i \in Subtasks |->
                    IF i > n THEN "none" ELSE IF run' = "parallel" THEN "spawned" ELSE "waiting"]
    BY <1>2 DEF Parallelize, Subtasks
  <1>4. results = <<>> /\ results' = <<>> /\ Len(results') = 0
    BY <1>1 DEF Delegated, Idle
  <1>5. \A i \in Subtasks : at[i] = "none" /\ rows[task][i] = "none"
    <2>1. \A i \in Subtasks : at[i] = "none"
      BY <1>1 DEF Delegated, Placed, Subtasks
    <2> QED  BY <2>1, <1>1 DEF Delegated, OpenRows
  <1>6. DelegationTypeOK'
    <2>1. at' \in [Subtasks -> {"none", "waiting", "spawned", "ended"} \union AtWork]
      BY <1>3
    <2> QED  BY <1>1, <1>3, <2>1, DelegationAssumption DEF Delegated, DelegationTypeOK
  <1>7. Idle' /\ ParallelMayBe'
    BY <1>1, <1>3 DEF Delegated, Idle, ParallelMayBe
  <1>8. Placed'
    BY <1>3 DEF Placed, AtWork
  <1>9. InOrder'
    BY <1>3, <1>4 DEF InOrder, AtWork
  <1>10. OpenRows'
    BY <1>1, <1>3, <1>5 DEF Delegated, OpenRows
  <1>11. Told'
    BY <1>1, <1>5 DEF Delegated, Told, AtWork
  <1>12. EveryGoalAnswered'
    BY <1>3 DEF EveryGoalAnswered
  <1> QED  BY <1>6, <1>7, <1>8, <1>9, <1>10, <1>11, <1>12 DEF Delegated

\* A step of a sub-agent that is neither its last nor its first write of the row.
LEMMA MovesOn ==
    ASSUME Delegated, NEW i \in Subtasks, 
           run \in {"sequential", "parallel"}, 
           at' \in [Subtasks -> {"none", "waiting", "spawned", "ended"} \union AtWork],
           \A j \in Subtasks : j # i => at'[j] = at[j],
           \/ at[i] = "waiting" /\ at'[i] = "register" /\ run = "sequential" /\ i = Len(results) + 1
           \/ at[i] = "spawned" /\ at'[i] = "register"
           \/ at[i] \in {"work", "asking"} /\ at'[i] \in {"work", "asking"},
           UNCHANGED <<cancelled, task, run, goals, independent, confirm, results, rows, ended,
                       missed>>
    PROVE  Delegated'
  <1>1. task \in Tasks
    BY DEF Delegated, Idle
  <1>3. DelegationTypeOK'
    BY DEF Delegated, DelegationTypeOK, AtWork
  <1>4. Idle' /\ ParallelMayBe' /\ EveryGoalAnswered'
    BY DEF Delegated, Idle, ParallelMayBe, EveryGoalAnswered
  <1>5. Placed'
    BY DEF Delegated, Placed, AtWork
  <1>6. InOrder'
    <2> SUFFICES ASSUME run = "sequential" PROVE InOrder'
      BY DEF InOrder
    <2>1. at[i] # "ended" /\ at'[i] # "ended" /\ (at'[i] \in AtWork => i = Len(results) + 1)
      BY DEF Delegated, InOrder, Placed, AtWork
    <2>2. ASSUME NEW k \in 1..Len(results)
          PROVE  /\ at'[k] = "ended"
                 /\ results[k].goal = k /\ (results[k].success <=> ended[task][k] = "answer")
      <3>1. /\ at[k] = "ended" /\ Len(results) <= goals
            /\ results[k].goal = k /\ (results[k].success <=> ended[task][k] = "answer")
        BY DEF Delegated, InOrder
      <3>2. k \in Subtasks
        BY <3>1, DelegationTypeFacts DEF Delegated, Subtasks
      <3> QED  BY <2>1, <3>1, <3>2
    <2>3. ASSUME NEW j \in Subtasks
          PROVE  /\ at'[j] = "ended" => j <= Len(results)
                 /\ at'[j] \in AtWork => j = Len(results) + 1
      BY <2>1 DEF Delegated, InOrder
    <2>4. Len(results) <= goals
      BY DEF Delegated, InOrder
    <2> QED  BY <2>2, <2>3, <2>4 DEF InOrder
  <1>7. OpenRows'
    BY DEF Delegated, OpenRows
  <1>8. Told'
    BY DEF Delegated, Told, AtWork
  <1> QED  BY <1>3, <1>4, <1>5, <1>6, <1>7, <1>8 DEF Delegated

LEMMA RegisterStep == ASSUME Delegated, NEW i \in Subtasks, Register(i) PROVE Delegated'
  <1>1. /\ at[i] = "register" /\ at' = [at EXCEPT ![i] = "work"]
        /\ UNCHANGED <<cancelled, task, run, goals, independent, confirm, results, ended, missed>>
    BY DEF Register
  <1>2. PICK state \in {"none", "pending", "in_progress"} : rows' = [rows EXCEPT ![task][i] = state]
    BY DEF Register
  <1>3. run \in {"sequential", "parallel"} /\ task \in Tasks
    BY <1>1 DEF Delegated, Placed, Idle, AtWork
  <1>4. /\ \A j \in Subtasks : at'[j] = IF j = i THEN "work" ELSE at[j]
        /\ \A t \in Tasks, j \in Subtasks :
              rows'[t][j] = IF t = task /\ j = i THEN state ELSE rows[t][j]
    BY <1>1, <1>2, <1>3 DEF Delegated, DelegationTypeOK
  <1>5. DelegationTypeOK'
    <2>1. at' \in [Subtasks -> {"none", "waiting", "spawned", "ended"} \union AtWork]
      BY <1>1 DEF Delegated, DelegationTypeOK, AtWork
    <2>2. rows' \in [Tasks -> [Subtasks -> {"none", "pending", "in_progress", "completed", "failed"}]]
      BY <1>2, <1>3 DEF Delegated, DelegationTypeOK
    <2> QED  BY <1>1, <2>1, <2>2 DEF Delegated, DelegationTypeOK
  <1>6. Idle' /\ ParallelMayBe' /\ EveryGoalAnswered'
    BY <1>1, <1>3 DEF Delegated, Idle, ParallelMayBe, EveryGoalAnswered
  <1>7. Placed'
    BY <1>1, <1>4 DEF Delegated, Placed, AtWork
  <1>8. InOrder'
    <2> SUFFICES ASSUME run = "sequential" PROVE InOrder'
      BY <1>1 DEF InOrder
    <2>1. ASSUME NEW k \in 1..Len(results)
          PROVE  /\ at'[k] = "ended"
                 /\ results[k].goal = k /\ (results[k].success <=> ended[task][k] = "answer")
      <3>1. /\ at[k] = "ended" /\ Len(results) <= goals
            /\ results[k].goal = k /\ (results[k].success <=> ended[task][k] = "answer")
        BY DEF Delegated, InOrder
      <3>2. k \in Subtasks
        BY <3>1, DelegationTypeFacts DEF Delegated, Subtasks
      <3> QED  BY <1>1, <1>4, <3>1, <3>2
    <2>2. ASSUME NEW j \in Subtasks
          PROVE  /\ at'[j] = "ended" => j <= Len(results)
                 /\ at'[j] \in AtWork => j = Len(results) + 1
      BY <1>1, <1>4 DEF Delegated, InOrder, AtWork
    <2>3. Len(results) <= goals
      BY DEF Delegated, InOrder
    <2> QED  BY <1>1, <2>1, <2>2, <2>3 DEF InOrder
  <1>9. OpenRows'
    <2>1. \A t \in Tasks, j \in Subtasks : t > task => rows'[t][j] = "none"
      BY <1>3, <1>4 DEF Delegated, OpenRows, Tasks
    <2>2. ASSUME NEW j \in Subtasks
          PROVE  /\ at'[j] \in {"none", "waiting", "spawned", "register"} => rows'[task][j] = "none"
                 /\ at'[j] \in {"work", "asking"} => rows'[task][j] \in {"none", "pending", "in_progress"}
      BY <1>3, <1>4 DEF Delegated, OpenRows
    <2> QED  BY <1>1, <2>1, <2>2 DEF OpenRows
  <1>10. Told'
    BY <1>1, <1>3, <1>4 DEF Delegated, Told, AtWork
  <1> QED  BY <1>5, <1>6, <1>7, <1>8, <1>9, <1>10 DEF Delegated

\* The last step of a sub-agent: its row is closed as it ended, unless it has none, the write
\* fails or nobody is left to make it.
LEMMA Ends ==
    ASSUME Delegated, NEW i \in Subtasks, NEW e \in {"answer", "error", "cancelled", "panic"},
           \/ run = "parallel" /\ at[i] \in {"spawned", "register", "work"}
           \/ at[i] = "work",
           at' = [at EXCEPT ![i] = "ended"],
           ended' = [ended EXCEPT ![task][i] = e],
           results' = IF run = "sequential"
                      THEN Append(results, [goal |-> i, success |-> e = "answer"]) ELSE results,
           \/ rows' = rows /\ missed' = missed /\ (rows[task][i] = "none" \/ e = "panic")
           \/ rows' = rows /\ missed' = [missed EXCEPT ![task][i] = TRUE]
           \/ rows' = [rows EXCEPT ![task][i] = "completed"] /\ missed' = missed /\ e = "answer"
           \/ rows' = [rows EXCEPT ![task][i] = "failed"] /\ missed' = missed /\ e = "error",
           UNCHANGED <<cancelled, task, run, goals, independent, confirm>>
    PROVE  Delegated'
  <1>1. run \in {"sequential", "parallel"} /\ task \in Tasks
    BY DEF Delegated, Placed, Idle, AtWork
  <1>2. /\ \A j \in Subtasks : at'[j] = IF j = i THEN "ended" ELSE at[j]
        /\ \A t \in Tasks, j \in Subtasks :
              ended'[t][j] = IF t = task /\ j = i THEN e ELSE ended[t][j]
    BY <1>1 DEF Delegated, DelegationTypeOK
  <1>3. \A t \in Tasks, j \in Subtasks :
            ~(t = task /\ j = i) => rows'[t][j] = rows[t][j] /\ missed'[t][j] = missed[t][j]
    BY <1>1 DEF Delegated, DelegationTypeOK
  <1>4. /\ rows[task][i] \in {"none", "pending", "in_progress"}
        /\ \/ rows'[task][i] = "none"
           \/ rows'[task][i] = "completed" /\ e = "answer"
           \/ rows'[task][i] = "failed" /\ e = "error"
           \/ rows'[task][i] \in {"pending", "in_progress"} /\ (e = "panic" \/ missed'[task][i])
    <2>1. rows[task][i] \in {"none", "pending", "in_progress"}
      BY <1>1 DEF Delegated, OpenRows
    <2>2. CASE rows' = rows /\ missed' = [missed EXCEPT ![task][i] = TRUE]
      <3>1. missed'[task][i] = TRUE
        BY <2>2, <1>1 DEF Delegated, DelegationTypeOK
      <3> QED  BY <2>1, <2>2, <3>1
    <2>3. CASE rows' = [rows EXCEPT ![task][i] = "completed"] /\ e = "answer"
      BY <2>1, <2>3, <1>1 DEF Delegated, DelegationTypeOK
    <2>4. CASE rows' = [rows EXCEPT ![task][i] = "failed"] /\ e = "error"
      BY <2>1, <2>4, <1>1 DEF Delegated, DelegationTypeOK
    <2> QED  BY <2>1, <2>2, <2>3, <2>4
  <1>5. DelegationTypeOK'
    <2>1. at' \in [Subtasks -> {"none", "waiting", "spawned", "ended"} \union AtWork]
      BY DEF Delegated, DelegationTypeOK
    <2>2. rows' \in [Tasks -> [Subtasks -> {"none", "pending", "in_progress", "completed", "failed"}]]
      <3> DEFINE States == {"none", "pending", "in_progress", "completed", "failed"}
      <3>1. rows \in [Tasks -> [Subtasks -> States]] /\ "completed" \in States /\ "failed" \in States
        BY DEF Delegated, DelegationTypeOK
      <3>2. \/ rows' = rows \/ rows' = [rows EXCEPT ![task][i] = "completed"]
            \/ rows' = [rows EXCEPT ![task][i] = "failed"]
        OBVIOUS
      <3> HIDE DEF States
      <3>3. rows' \in [Tasks -> [Subtasks -> States]]
        BY <1>1, <3>1, <3>2, EntryFits
      <3> QED  BY <3>3 DEF States
    <2>3. ended' \in [Tasks -> [Subtasks -> {"no", "answer", "error", "cancelled", "panic", "died"}]]
      <3> DEFINE Ways == {"no", "answer", "error", "cancelled", "panic", "died"}
      <3>1. ended \in [Tasks -> [Subtasks -> Ways]] /\ e \in Ways
        BY DEF Delegated, DelegationTypeOK
      <3> HIDE DEF Ways
      <3>2. ended' \in [Tasks -> [Subtasks -> Ways]]
        BY <3>1, <1>1, EntryFits
      <3> QED  BY <3>2 DEF Ways
    <2>4. missed' \in [Tasks -> [Subtasks -> BOOLEAN]]
      <3> DEFINE B == BOOLEAN
                 yes == TRUE
      <3>1. missed \in [Tasks -> [Subtasks -> B]] /\ yes \in B
        BY DEF Delegated, DelegationTypeOK
      <3>2. missed' = missed \/ missed' = [missed EXCEPT ![task][i] = yes]
        OBVIOUS
      <3> HIDE DEF B, yes
      <3>3. [missed EXCEPT ![task][i] = yes] \in [Tasks -> [Subtasks -> B]]
        BY <1>1, <3>1, EntryFits
      <3>4. missed' \in [Tasks -> [Subtasks -> B]]
        BY <3>1, <3>2, <3>3
      <3> QED  BY <3>4 DEF B
    <2>5. results' \in Seq([goal : 0..MaxSubtasks, success : BOOLEAN])
      <3>1. [goal |-> i, success |-> e = "answer"] \in [goal : 0..MaxSubtasks, success : BOOLEAN]
        BY DelegationAssumption DEF Subtasks
      <3> DEFINE r == [goal |-> i, success |-> e = "answer"]
                 Results == [goal : 0..MaxSubtasks, success : BOOLEAN]
      <3>2. r \in Results /\ results \in Seq(Results) /\ results' \in {results, Append(results, r)}
        BY <3>1 DEF Delegated, DelegationTypeOK
      <3> HIDE DEF r, Results
      <3>3. results' \in Seq(Results)
        BY <3>2
      <3> QED  BY <3>3 DEF Results
    <2> QED  BY <2>1, <2>2, <2>3, <2>4, <2>5 DEF Delegated, DelegationTypeOK
  <1>6. Idle' /\ ParallelMayBe' /\ EveryGoalAnswered'
    BY <1>1 DEF Delegated, Idle, ParallelMayBe, EveryGoalAnswered
  <1>7. Placed'
    BY <1>1, <1>2 DEF Delegated, Placed, AtWork
  <1>8. InOrder'
    <2> SUFFICES ASSUME run = "sequential" PROVE InOrder'
      BY DEF InOrder
    <2>1. at[i] = "work" /\ i = Len(results) + 1
      BY DEF Delegated, InOrder, AtWork
    <2>2. /\ Len(results') = Len(results) + 1 /\ Len(results) \in Nat
          /\ results'[Len(results) + 1].goal = i
          /\ results'[Len(results) + 1].success <=> e = "answer"
          /\ \A k \in 1..Len(results) : results'[k] = results[k]
      <3> DEFINE r == [goal |-> i, success |-> e = "answer"]
                 Results == [goal : 0..MaxSubtasks, success : BOOLEAN]
      <3>1. results' = Append(results, r) /\ results \in Seq(Results)
        BY DEF Delegated, DelegationTypeOK
      <3> HIDE DEF r, Results
      <3>2. /\ Len(results') = Len(results) + 1 /\ Len(results) \in Nat
            /\ results'[Len(results) + 1] = r
            /\ \A k \in 1..Len(results) : results'[k] = results[k]
        BY <3>1
      <3>3. r.goal = i /\ (r.success <=> e = "answer")
        BY DEF r
      <3> QED  BY <3>2, <3>3
    <2>3. i <= goals
      BY <2>1 DEF Delegated, Placed, Subtasks, DelegationTypeOK
    <2>4. ASSUME NEW k \in 1..Len(results')
          PROVE  /\ at'[k] = "ended"
                 /\ results'[k].goal = k /\ (results'[k].success <=> ended'[task][k] = "answer")
      <3>1. CASE k = i
        BY <1>1, <1>2, <2>1, <2>2, <3>1
      <3>2. CASE k # i
        <4>1. k \in 1..Len(results) /\ k \in Subtasks
          BY <2>1, <2>2, <2>3, <3>2, DelegationTypeFacts DEF Delegated, Subtasks
        <4>2. /\ at[k] = "ended"
              /\ results[k].goal = k /\ (results[k].success <=> ended[task][k] = "answer")
          BY <4>1 DEF Delegated, InOrder
        <4> QED  BY <1>1, <1>2, <2>2, <3>2, <4>1, <4>2
      <3> QED  BY <3>1, <3>2
    <2>5. ASSUME NEW j \in Subtasks
          PROVE  /\ at'[j] = "ended" => j <= Len(results')
                 /\ at'[j] \in AtWork => j = Len(results') + 1
      <3>1. /\ at[j] = "ended" => j <= Len(results)
            /\ at[j] \in AtWork => j = Len(results) + 1
        BY DEF Delegated, InOrder
      <3>2. j \in Nat
        BY DEF Subtasks
      <3> QED  BY <1>2, <2>1, <2>2, <3>1, <3>2 DEF AtWork
    <2> QED  BY <2>1, <2>2, <2>3, <2>4, <2>5 DEF InOrder
  <1>9. OpenRows'
    <2>1. \A t \in Tasks, j \in Subtasks : t > task => rows'[t][j] = "none"
      BY <1>1, <1>3 DEF Delegated, OpenRows, Tasks
    <2>2. ASSUME NEW j \in Subtasks
          PROVE  /\ at'[j] \in {"none", "waiting", "spawned", "register"} => rows'[task][j] = "none"
                 /\ at'[j] \in {"work", "asking"} => rows'[task][j] \in {"none", "pending", "in_progress"}
      BY <1>1, <1>2, <1>3 DEF Delegated, OpenRows
    <2> QED  BY <2>1, <2>2 DEF OpenRows
  <1>10. Told'
    <2> SUFFICES ASSUME NEW t \in Tasks, NEW j \in Subtasks
                 PROVE  /\ rows'[t][j] = "completed" => ended'[t][j] = "answer"
                        /\ rows'[t][j] = "failed" => ended'[t][j] = "error"
                        /\ rows'[t][j] \in {"pending", "in_progress"} =>
                              \/ t = task /\ at'[j] \in AtWork
                              \/ ended'[t][j] \in {"panic", "died"}
                              \/ missed'[t][j]
      BY DEF Told
    <2>1. CASE t = task /\ j = i
      BY <2>1, <1>1, <1>2, <1>4
    <2>2. CASE ~(t = task /\ j = i)
      <3>1. rows'[t][j] = rows[t][j] /\ missed'[t][j] = missed[t][j] /\ ended'[t][j] = ended[t][j]
        BY <2>2, <1>2, <1>3
      <3>2. t = task => at'[j] = at[j]
        BY <2>2, <1>2
      <3> QED  BY <3>1, <3>2 DEF Delegated, Told
    <2> QED  BY <2>1, <2>2
  <1> QED  BY <1>5, <1>6, <1>7, <1>8, <1>9, <1>10 DEF Delegated

LEMMA SubtaskStepLemma == ASSUME Delegated, NEW i \in Subtasks, SubtaskStep(i) PROVE Delegated'
  <1>1. CASE Turn(i)
    <2>1. /\ run = "sequential" /\ at[i] = "waiting" /\ i = Len(results) + 1
          /\ at' = [at EXCEPT ![i] = "register"]
          /\ UNCHANGED <<cancelled, task, run, goals, independent, confirm, results, rows, ended,
                         missed>>
      BY <1>1 DEF Turn
    <2>2. /\ at' \in [Subtasks -> {"none", "waiting", "spawned", "ended"} \union AtWork]
          /\ at'[i] = "register" /\ \A j \in Subtasks : j # i => at'[j] = at[j]
      BY <2>1 DEF Delegated, DelegationTypeOK, AtWork
    <2> QED  BY <2>1, <2>2, MovesOn
  <1>2. CASE Thread(i)
    <2>1. run = "parallel" /\ task \in Tasks /\ rows[task][i] = "none"
      BY <1>2 DEF Thread, Delegated, Placed, Idle, OpenRows
    <2>2. CASE at' = [at EXCEPT ![i] = "register"] /\ UNCHANGED ended
      <3>1. /\ at[i] = "spawned"
            /\ UNCHANGED <<cancelled, task, run, goals, independent, confirm, results, rows, ended,
                           missed>>
        BY <1>2, <2>2 DEF Thread
      <3>2. /\ at' \in [Subtasks -> {"none", "waiting", "spawned", "ended"} \union AtWork]
            /\ at'[i] = "register" /\ \A j \in Subtasks : j # i => at'[j] = at[j]
        BY <2>2 DEF Delegated, DelegationTypeOK, AtWork
      <3> QED  BY <2>1, <3>1, <3>2, MovesOn
    <2>3. CASE at' = [at EXCEPT ![i] = "ended"] /\ ended' = [ended EXCEPT ![task][i] = "cancelled"]
      BY <1>2, <2>1, <2>3, Ends DEF Thread
    <2> QED  BY <1>2, <2>2, <2>3 DEF Thread
  <1>3. CASE Register(i)
    BY <1>3, RegisterStep
  <1>4. CASE Ask(i)
    <2>1. run \in {"sequential", "parallel"}
      BY <1>4 DEF Ask, Delegated, Placed, AtWork
    <2>2. /\ at[i] = "work" /\ at' = [at EXCEPT ![i] = "asking"]
          /\ UNCHANGED <<cancelled, task, run, goals, independent, confirm, results, rows, ended,
                         missed>>
      BY <1>4 DEF Ask
    <2>3. /\ at' \in [Subtasks -> {"none", "waiting", "spawned", "ended"} \union AtWork]
          /\ at'[i] = "asking" /\ \A j \in Subtasks : j # i => at'[j] = at[j]
      BY <2>2 DEF Delegated, DelegationTypeOK, AtWork
    <2> QED  BY <2>1, <2>2, <2>3, MovesOn
  <1>5. CASE Answer(i)
    <2>1. run \in {"sequential", "parallel"}
      BY <1>5 DEF Answer, Delegated, Placed, AtWork
    <2>2. /\ at[i] = "asking" /\ at' = [at EXCEPT ![i] = "work"]
          /\ UNCHANGED <<cancelled, task, run, goals, independent, confirm, results, rows, ended,
                         missed>>
      BY <1>5 DEF Answer
    <2>3. /\ at' \in [Subtasks -> {"none", "waiting", "spawned", "ended"} \union AtWork]
          /\ at'[i] = "work" /\ \A j \in Subtasks : j # i => at'[j] = at[j]
      BY <2>2 DEF Delegated, DelegationTypeOK, AtWork
    <2> QED  BY <2>1, <2>2, <2>3, MovesOn
  <1>6. CASE Succeed(i)
    BY <1>6, Ends DEF Succeed, CloseRow, Hand
  <1>7. CASE Err(i)
    BY <1>7, Ends DEF Err, CloseRow, Hand
  <1>8. CASE Panic(i)
    BY <1>8, Ends DEF Panic
  <1> QED  BY <1>1, <1>2, <1>3, <1>4, <1>5, <1>6, <1>7, <1>8 DEF SubtaskStep

LEMMA ReturnResultsStep == ASSUME Delegated, ReturnResults PROVE Delegated'
  <1>1. /\ run' = "task" /\ run \in {"sequential", "parallel"}
        /\ UNCHANGED <<cancelled, task, goals, independent, confirm, at, rows, ended, missed>>
    BY DEF ReturnResults
  <1>2. \/ /\ run = "sequential" /\ results' = results
           /\ cancelled \/ Len(results) = goals
           /\ \A i \in Subtasks : at[i] \notin AtWork
        \/ /\ run = "parallel" /\ results' = [i \in 1..goals |-> Joined(i)]
           /\ \A i \in 1..goals : at[i] = "ended"
    BY DEF ReturnResults
  <1>3. task \in Tasks /\ goals \in Nat /\ goals <= MaxSubtasks /\ MaxSubtasks \in Nat
    BY <1>1, DelegationTypeFacts DEF Delegated, Idle
  <1>4. \A i \in Subtasks : at[i] \in {"none", "waiting", "ended"}
    <2>1. CASE run = "sequential"
      BY <1>2, <2>1 DEF Delegated, DelegationTypeOK, Placed
    <2>2. CASE run = "parallel"
      BY <1>2, <1>3, <2>2 DEF Delegated, Placed, Subtasks
    <2> QED  BY <1>1, <2>1, <2>2
  <1>5. CASE run = "parallel"
    <2>1. \A i \in 1..goals : /\ Joined(i) \in [goal : 0..MaxSubtasks, success : BOOLEAN]
                              /\ Joined(i).goal \in {i, 0}
                              /\ Joined(i).success <=> ended[task][i] = "answer"
      <3> SUFFICES ASSUME NEW i \in 1..goals
                   PROVE  /\ Joined(i) \in [goal : 0..MaxSubtasks, success : BOOLEAN]
                          /\ Joined(i).goal \in {i, 0}
                          /\ Joined(i).success <=> ended[task][i] = "answer"
        OBVIOUS
      <3> DEFINE g == IF ended[task][i] = "panic" THEN 0 ELSE i
                 ok == ended[task][i] = "answer"
      <3>1. Joined(i) = [goal |-> g, success |-> ok]
        BY DEF Joined
      <3>2. g \in {i, 0} /\ g \in 0..MaxSubtasks /\ ok \in BOOLEAN
        BY <1>3
      <3>3. ok <=> ended[task][i] = "answer"
        OBVIOUS
      <3> HIDE DEF g, ok
      <3> QED  BY <3>1, <3>2, <3>3
    <2>2. /\ results' \in Seq([goal : 0..MaxSubtasks, success : BOOLEAN]) /\ Len(results') = goals
          /\ \A k \in 1..goals : results'[k] = Joined(k)
      <3> DEFINE Results == [goal : 0..MaxSubtasks, success : BOOLEAN]
      <3>1. results' = [i \in 1..goals |-> Joined(i)]
        BY <1>2, <1>5
      <3>2. \A i \in 1..goals : Joined(i) \in Results
        BY <2>1
      <3> HIDE DEF Results
      <3>3. results' \in [1..goals -> Results]
        BY <3>1, <3>2
      <3> QED  BY <1>3, <3>1, <3>3 DEF Results
    <2>3. EveryGoalAnswered'
      BY <1>1, <2>1, <2>2 DEF EveryGoalAnswered
    <2>4. goals = 0 => results' = <<>>
      BY <2>2, EmptySeq
    <2> QED  BY <1>1, <1>3, <1>4, <2>2, <2>3, <2>4
             DEF Delegated, DelegationTypeOK, Idle, Placed, InOrder, ParallelMayBe, OpenRows, Told, AtWork
  <1>6. CASE run = "sequential"
    <2>1. EveryGoalAnswered'
      <3>1. ASSUME NEW k \in 1..Len(results)
            PROVE  results[k].goal = k /\ (results[k].success <=> ended[task][k] = "answer")
        BY <1>6 DEF Delegated, InOrder
      <3>2. results' = results /\ (Len(results) = goals \/ cancelled)
        BY <1>2, <1>6
      <3> QED  BY <1>1, <3>1, <3>2 DEF EveryGoalAnswered
    <2>2. goals = 0 => results' = <<>>
      <3>1. Len(results) <= goals /\ Len(results) \in Nat
        BY <1>6, DelegationTypeFacts DEF Delegated, InOrder
      <3>2. goals = 0 => Len(results) = 0
        BY <3>1
      <3> QED  BY <1>2, <1>6, <3>2, EmptySeq DEF Delegated, DelegationTypeOK
    <2> QED  BY <1>1, <1>2, <1>3, <1>4, <1>6, <2>1, <2>2
             DEF Delegated, DelegationTypeOK, Idle, Placed, InOrder, ParallelMayBe, OpenRows, Told, AtWork
  <1> QED  BY <1>1, <1>5, <1>6

LEMMA DelegationStutters == ASSUME Delegated, UNCHANGED delegationVars PROVE Delegated'
  <1> USE DEF Delegated, delegationVars
  <1>1. DelegationTypeOK'  BY DEF DelegationTypeOK
  <1>2. Idle' /\ Placed' /\ InOrder' /\ ParallelMayBe' /\ OpenRows'
    BY DEF Idle, Placed, InOrder, ParallelMayBe, OpenRows
  <1>3. Told' /\ EveryGoalAnswered'  BY DEF Told, EveryGoalAnswered
  <1> QED  BY <1>1, <1>2, <1>3

-----------------------------------------------------------------------------
(* The checkpoints. *)

CheckpointRows == [ref : BOOLEAN, base : Contents, saved : Contents \union {clash},
                   kept : BOOLEAN, marked : BOOLEAN]

LEMMA CheckpointTypeFacts ==
    ASSUME CheckpointTypeOK
    PROVE  checkpoints \in Seq(CheckpointRows) /\ Len(checkpoints) \in Nat
  BY DEF CheckpointTypeOK, CheckpointRows

LEMMA CreateStep ==
    ASSUME Checkpointed, Create, before' = IF checkpoints' = checkpoints THEN before ELSE tree,
           UNCHANGED <<gitVars, rollbackVars>>
    PROVE  Checkpointed'
  <1>1. /\ head \in Contents /\ tree \in Contents \union {clash} /\ unmerged \in BOOLEAN
        /\ before \in Contents \union {clash}
        /\ checkpoints \in Seq(CheckpointRows) /\ Len(checkpoints) \in Nat
    BY CheckpointTypeFacts DEF Checkpointed, CheckpointTypeOK
  <1>2. CASE checkpoints' = checkpoints
    BY <1>2 DEF Checkpointed, CheckpointTypeOK, Saved, Ids, gitVars, rollbackVars
  <1>3. CASE checkpoints' # checkpoints
    <2>1. PICK ref \in {FALSE, Changed /\ ~unmerged} :
              checkpoints' = Append(checkpoints, Row(ref)) /\ Len(checkpoints) < MaxCheckpoints
      BY <1>3 DEF Create
    <2>2. Row(ref) \in CheckpointRows /\ Row(ref).saved = tree
      <3>1. ref \in BOOLEAN
        BY DEF Changed
      <3> HIDE DEF CheckpointRows
      <3>2. [ref |-> ref, base |-> head, saved |-> tree, kept |-> ref, marked |-> FALSE]
                \in CheckpointRows
        BY <1>1, <3>1 DEF CheckpointRows
      <3> QED  BY <3>2 DEF Row
    <2>3. /\ checkpoints' \in Seq(CheckpointRows) /\ Len(checkpoints') = Len(checkpoints) + 1
          /\ checkpoints'[Len(checkpoints')] = Row(ref)
      BY <1>1, <2>1, <2>2, AppendProperties
    <2>4. Len(checkpoints') <= MaxCheckpoints
      BY <1>1, <2>1, <2>3, CheckpointAssumption
    <2>5. before' = tree
      BY <1>3
    <2>6. Saved'
      <3>1. rollback' # "idle" => target' \in Ids'
        BY <1>1, <2>3 DEF Checkpointed, Saved, Ids, rollbackVars
      <3> QED  BY <2>2, <2>3, <2>4, <2>5, <3>1 DEF Saved
    <2>7. CheckpointTypeOK'
      BY <2>3 DEF Checkpointed, CheckpointTypeOK, CheckpointRows, gitVars, rollbackVars
    <2> QED  BY <1>1, <2>5, <2>6, <2>7 DEF Checkpointed
  <1> QED  BY <1>2, <1>3

LEMMA CheckpointStutters ==
    ASSUME Checkpointed, UNCHANGED <<checkpointVars, before>> PROVE Checkpointed'
  BY DEF Checkpointed, CheckpointTypeOK, Saved, Ids, checkpointVars, gitVars, rollbackVars

\* A step that changes a column of a row which no rollback reads as its content.
LEMMA RowTouched ==
    ASSUME Checkpointed, NEW id \in Ids, NEW cp \in CheckpointRows,
           cp.saved = checkpoints[id].saved, checkpoints' = [checkpoints EXCEPT ![id] = cp],
           rollback' \in {rollback, "idle"},
           UNCHANGED <<gitVars, target, restored, before>>
    PROVE  Checkpointed'
  <1>1. checkpoints \in Seq(CheckpointRows) /\ Len(checkpoints) \in Nat
    BY CheckpointTypeFacts DEF Checkpointed
  <1>2. /\ checkpoints' \in Seq(CheckpointRows) /\ Len(checkpoints') = Len(checkpoints)
        /\ \A k \in Ids : checkpoints'[k].saved = checkpoints[k].saved
    BY <1>1 DEF Ids
  <1>3. checkpoints # <<>> /\ Len(checkpoints) \in Ids
    BY <1>1 DEF Ids
  <1>4. Saved'
    BY <1>2, <1>3 DEF Checkpointed, Saved, Ids
  <1>5. CheckpointTypeOK'
    BY <1>2 DEF Checkpointed, CheckpointTypeOK, CheckpointRows, gitVars
  <1> QED  BY <1>4, <1>5 DEF Checkpointed

LEMMA RollbackSteps == ASSUME Checkpointed, RollbackStep, UNCHANGED before PROVE Checkpointed'
  <1> USE DEF gitVars, rollbackVars
  <1>1. CASE StartRollback
    <2>1. target' \in Ids
      BY <1>1 DEF StartRollback
    <2>2. target' \in 0..MaxCheckpoints
      BY <2>1, CheckpointTypeFacts, CheckpointAssumption DEF Checkpointed, Saved, Ids
    <2> QED  BY <1>1, <2>1, <2>2 DEF StartRollback, Checkpointed, CheckpointTypeOK, Saved, Ids
  <1>2. CASE Discard
    BY <1>2 DEF Discard, Checkpointed, CheckpointTypeOK, Saved, Ids
  <1>3. CASE Apply
    <2> DEFINE cp == checkpoints[target]
    <2>1. PICK merged \in Merges(cp.base, index, cp.saved) :
            LET refused == ~cp.kept \/ unmerged \/ (tree # index /\ merged # index)
            IN  /\ tree' = IF refused \/ merged = index THEN tree ELSE merged
                /\ unmerged' = (unmerged \/ (~refused /\ merged = clash))
                /\ restored' = (~refused /\ merged # clash)
      BY <1>3 DEF Apply
    <2>2. /\ rollback = "apply" /\ rollback' = "mark"
          /\ UNCHANGED <<head, index, checkpoints, target>>
      BY <1>3 DEF Apply
    <2>3. cp \in CheckpointRows
      BY <2>2, CheckpointTypeFacts DEF Checkpointed, Saved, Ids
    <2>4. merged \in Contents \union {clash}
      BY <2>1, <2>3 DEF Merges, CheckpointRows, Checkpointed, CheckpointTypeOK
    <2>5. tree' \in Contents \union {clash} /\ unmerged' \in BOOLEAN /\ restored' \in BOOLEAN
      BY <2>1, <2>4 DEF Checkpointed, CheckpointTypeOK
    <2> QED  BY <2>2, <2>5 DEF Checkpointed, CheckpointTypeOK, Saved, Ids
  <1>4. CASE Mark
    <2> DEFINE cp == [checkpoints[target] EXCEPT !.marked = TRUE]
    <2>1. target \in Ids /\ checkpoints[target] \in CheckpointRows
      BY <1>4, CheckpointTypeFacts DEF Mark, Checkpointed, Saved, Ids
    <2>2. cp \in CheckpointRows /\ cp.saved = checkpoints[target].saved
      BY <2>1 DEF CheckpointRows
    <2>3. checkpoints' = [checkpoints EXCEPT ![target] = cp] /\ rollback' = "idle"
          /\ UNCHANGED <<gitVars, target, restored, before>>
      BY <1>4, <2>1, CheckpointTypeFacts DEF Mark, Checkpointed, Ids
    <2> HIDE DEF cp
    <2> QED  BY <2>1, <2>2, <2>3, RowTouched
  <1>5. CASE RollbackDies
    BY <1>5 DEF RollbackDies, Checkpointed, CheckpointTypeOK, Saved, Ids
  <1> QED  BY <1>1, <1>2, <1>3, <1>4, <1>5 DEF RollbackStep

LEMMA FileSteps ==
    ASSUME Checkpointed, Write \/ Stage \/ Commit \/ CollectGarbage, UNCHANGED before
    PROVE  Checkpointed'
  <1>1. CASE Write
    BY <1>1 DEF Write, Checkpointed, CheckpointTypeOK, Saved, Ids, rollbackVars
  <1>2. CASE Stage
    BY <1>2 DEF Stage, Checkpointed, CheckpointTypeOK, Saved, Ids, rollbackVars
  <1>3. CASE Commit
    BY <1>3 DEF Commit, Checkpointed, CheckpointTypeOK, Saved, Ids, rollbackVars
  <1>4. CASE CollectGarbage
    <2>1. PICK id \in Ids : checkpoints' = [checkpoints EXCEPT ![id].kept = FALSE]
      BY <1>4 DEF CollectGarbage
    <2> DEFINE cp == [checkpoints[id] EXCEPT !.kept = FALSE]
    <2>2. checkpoints[id] \in CheckpointRows
      BY CheckpointTypeFacts DEF Checkpointed, Ids
    <2>3. cp \in CheckpointRows /\ cp.saved = checkpoints[id].saved
      BY <2>2 DEF CheckpointRows
    <2>4. checkpoints' = [checkpoints EXCEPT ![id] = cp]
          /\ rollback' = rollback /\ UNCHANGED <<gitVars, target, restored, before>>
      BY <1>4, <2>1 DEF CollectGarbage, rollbackVars, gitVars
    <2> HIDE DEF cp
    <2> QED  BY <2>3, <2>4, RowTouched
  <1> QED  BY <1>1, <1>2, <1>3, <1>4

-----------------------------------------------------------------------------
(* The two together. *)

LEMMA Initially == Init => IInv
  <1> SUFFICES ASSUME Init PROVE IInv  OBVIOUS
  <1> USE DEF Init, DelegationInit, CheckpointInit
  <1>1. DelegationTypeOK
    <2>1. results \in Seq([goal : 0..MaxSubtasks, success : BOOLEAN])
      OBVIOUS
    <2>2. task \in 0..MaxTasks /\ goals \in 0..MaxSubtasks
      BY DelegationAssumption
    <2>3. missed \in [Tasks -> [Subtasks -> BOOLEAN]]
      <3> DEFINE B == BOOLEAN
                 no == FALSE
      <3>1. no \in B /\ missed = [t \in Tasks |-> [i \in Subtasks |-> no]]
        OBVIOUS
      <3> HIDE DEF B, no
      <3>2. missed \in [Tasks -> [Subtasks -> B]]
        BY <3>1
      <3> QED  BY <3>2 DEF B
    <2>4. cancelled \in BOOLEAN /\ independent \in BOOLEAN /\ confirm \in BOOLEAN
      OBVIOUS
    <2> QED  BY <2>1, <2>2, <2>3, <2>4 DEF DelegationTypeOK
  <1>2. Idle /\ Placed /\ InOrder /\ ParallelMayBe /\ OpenRows /\ Told /\ EveryGoalAnswered
    BY DEF Idle, Placed, InOrder, ParallelMayBe, OpenRows, Told, EveryGoalAnswered, AtWork
  <1>3. CheckpointTypeOK /\ Saved /\ before \in Contents \union {clash}
    <2>1. checkpoints \in Seq(CheckpointRows) /\ Len(checkpoints) = 0
      OBVIOUS
    <2>2. target \in 0..MaxCheckpoints /\ Len(checkpoints) <= MaxCheckpoints
      BY <2>1, CheckpointAssumption
    <2> QED  BY <2>1, <2>2 DEF CheckpointTypeOK, CheckpointRows, Saved, Ids
  <1> QED  BY <1>1, <1>2, <1>3 DEF IInv, Delegated, Checkpointed

LEMMA Inductive == IInv /\ [Next]_vars => IInv'
  <1> SUFFICES ASSUME IInv, [Next]_vars PROVE IInv'  OBVIOUS
  <1> USE DEF IInv
  <1>1. CASE StartTask
    BY <1>1, BeginTaskStep, CreateStep DEF StartTask
  <1>2. ASSUME NEW i \in Subtasks, Subtask(i) PROVE IInv'
    BY <1>2, SubtaskStepLemma, CheckpointStutters DEF Subtask
  <1>3. CASE RunTask
    BY <1>3, DelegateStep, ReturnResultsStep, EndTaskStep, CancelStep, DieStep,
       CheckpointStutters
    DEF RunTask
  <1>4. CASE RunRollback
    BY <1>4, RollbackSteps, DelegationStutters DEF RunRollback
  <1>5. CASE Files
    BY <1>5, FileSteps, DelegationStutters DEF Files
  <1>6. CASE UNCHANGED vars
    BY <1>6, CheckpointStutters, DelegationStutters DEF vars
  <1> QED  BY <1>1, <1>2, <1>3, <1>4, <1>5, <1>6 DEF Next

LEMMA Invariance == Spec => []IInv
  <1>1. Init => IInv  BY Initially
  <1>2. IInv /\ [Next]_vars => IInv'  BY Inductive
  <1> QED  BY <1>1, <1>2, PTL DEF Spec

-----------------------------------------------------------------------------
\* The tables, the working tree and the processes keep their types.
THEOREM TaskTypes == Spec => []TypeOK
  <1>1. IInv => TypeOK  BY DEF IInv, Delegated, Checkpointed, TypeOK
  <1> QED  BY <1>1, Invariance, PTL

\* The tasks table says of every subtask how it ended, in every task it has ever held, and a row
\* that is open is one whose sub-agent works, panicked, died or missed its last write
\* (execute_single_subtask, subagent.rs).
THEOREM RowsAreTrue == Spec => []RowsTellWhatHappened
  <1>1. IInv => RowsTellWhatHappened
    <2> SUFFICES ASSUME IInv, NEW t \in Tasks, NEW i \in Subtasks
                 PROVE  /\ rows[t][i] = "completed" => ended[t][i] = "answer"
                        /\ rows[t][i] = "failed" => ended[t][i] = "error"
                        /\ <<t, i>> \in Incomplete => \/ t = task /\ at[i] \in AtWork
                                                      \/ ended[t][i] \in {"panic", "died"}
                                                      \/ missed[t][i]
      BY DEF RowsTellWhatHappened
    <2>1. <<t, i>> \in Incomplete => rows[t][i] \in {"pending", "in_progress"}
      BY DEF Incomplete
    <2> QED  BY <2>1 DEF IInv, Delegated, Told
  <1> QED  BY <1>1, Invariance, PTL

\* A delegation that returns has the result of every goal in the order of the goals, whatever the
\* order its threads end in and whether they panic; a cancelled one may lack the last
\* (SubAgentExecutor::execute, execute_parallel, subagent.rs).
THEOREM GoalsAnswered == Spec => []EveryGoalAnswered
  <1>1. IInv => EveryGoalAnswered  BY DEF IInv, Delegated
  <1> QED  BY <1>1, Invariance, PTL

\* Goals that depend on each other, or may ask the user, are never two at work: two prompts would
\* wait on one input (should_parallelize, subagent.rs).
THEOREM NoTwoDependents == Spec => []DependentsRunAlone
  <1>1. IInv => DependentsRunAlone
    <2> DEFINE Busy == {i \in Subtasks : at[i] \in AtWork}
    <2> SUFFICES ASSUME IInv, confirm \/ ~independent PROVE Cardinality(Busy) <= 1
      BY DEF DependentsRunAlone
    <2>1. run # "parallel"
      BY DEF IInv, Delegated, ParallelMayBe
    <2>2. \A i, j \in Busy : i = j
      BY <2>1 DEF IInv, Delegated, Placed, InOrder
    <2>3. CASE Busy = {}
      BY <2>3, FS_EmptySet
    <2>4. CASE Busy # {}
      <3>1. PICK i \in Busy : TRUE
        BY <2>4
      <3>2. Busy = {i}
        BY <2>2, <3>1
      <3>3. Cardinality({i}) = 1
        BY FS_Singleton
      <3> QED  BY <3>2, <3>3
    <2> QED  BY <2>3, <2>4
  <1> QED  BY <1>1, Invariance, PTL

\* A rollback to the latest checkpoint that says it succeeded brings back what the user had when
\* the task began, whatever has been written since, also between its two commands, as long as
\* nothing was staged or committed over it and there was unstaged work to bring back
\* (CheckpointManager::create, handle_rollback_mode).
THEOREM TaskUndone == Spec => RollbackUndoesTheTask
  <1>1. IInv /\ [Next]_vars =>
          [ /\ rollback = "apply" /\ rollback' = "mark" /\ restored'
            /\ target = Len(checkpoints)
            /\ index = checkpoints[target].base /\ index # checkpoints[target].saved
            => tree' = before ]_vars
    <2> SUFFICES ASSUME IInv, Next, rollback = "apply", rollback' = "mark", restored',
                        target = Len(checkpoints), index = checkpoints[target].base,
                        index # checkpoints[target].saved
                 PROVE  tree' = before
      OBVIOUS
    <2>1. Apply
      BY DEF Next, StartTask, Subtask, RunTask, RunRollback, Files, Write, Stage, Commit,
             CollectGarbage, rollbackVars, checkpointVars, RollbackStep, StartRollback, Discard,
             Mark, RollbackDies
    <2> DEFINE cp == checkpoints[target]
    <2>2. PICK merged \in Merges(cp.base, index, cp.saved) :
            LET refused == ~cp.kept \/ unmerged \/ (tree # index /\ merged # index)
            IN  /\ tree' = IF refused \/ merged = index THEN tree ELSE merged
                /\ restored' = (~refused /\ merged # clash)
      BY <2>1 DEF Apply
    <2>3. merged = cp.saved
      BY <2>2 DEF Merges
    <2>4. tree' = cp.saved
      BY <2>2, <2>3
    <2>5. cp.saved = before
      <3>1. target \in 1..Len(checkpoints)
        BY DEF IInv, Checkpointed, Saved, Ids
      <3>2. checkpoints # <<>>
        BY <3>1, CheckpointTypeFacts DEF IInv, Checkpointed
      <3> QED  BY <3>2 DEF IInv, Checkpointed, Saved
    <2> QED  BY <2>4, <2>5
  <1> QED  BY <1>1, Invariance, PTL DEF Spec, RollbackUndoesTheTask

==============================================================================
