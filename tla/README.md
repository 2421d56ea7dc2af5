# bonsai-agent: specifications, model checking and proofs

This directory holds TLA+ modules that describe the state machines of bonsai-agent,
the TLC configurations that check them on small instances, and theorems about them that
TLAPS has proved for every value of the constants. Paths such as `agent_loop/core.rs`
are relative to `src/src/` or `src/src/agent/`, `runtime/…` to `src/src/runtime/`;
`PROJECT.json` maps every definition to its lines.

Contents: [1 The system](#1-the-system) · [2 The modules](#2-the-modules) ·
[3 The runs](#3-the-runs) · [4 Fairness](#4-fairness) · [5 The proofs](#5-the-proofs) ·
[6 What the code does and its comments do not say](#6-where-code-and-comments-disagree) ·
[7 What is not modelled](#7-what-is-not-modelled) · [8 Plan](#8-plan)

To repeat a run: `tlc -workers 2 -config MCAgentLoop.cfg MCAgentLoop` (a configuration
belongs to the `MC` module whose name it starts with). To repeat a proof:
`tlapm AgentLoopProofs.tla`.

## 1. The system

bonsai-agent is a command line agent for small local language models. One process holds
an agent loop that alternates calls of the model and calls of tools, a chain of inference
backends (a supervised MLX server first, a fallback behind it), a SQLite store of
experience and events, and background threads: the watchdog of the server, the
"default mode network" (DMN) that reflects while the user is silent, sensors. The same
binary also runs as a laboratory (`--lab`) that measures changes of its own configuration,
as an MCP server, and as small administrative commands (`--rollback`, `--tasks`). Most of the
loop is sequential; what is concurrent is the inference backend (shared by the loop and
the DMN), the watchdog, Ctrl-C, the threads that execute read-only tool calls and those
that run subagents, and other processes on the same database and working tree.

### 1.1 Components

| Component | State | Operations | What is hard, and what makes it correct |
|---|---|---|---|
| Agent loop (`agent_loop/core.rs`, `step.rs`, `outcome.rs`, `state.rs`) | the iteration, the session's messages, the tools used, the failure counters, the stall detector, the events emitted | one iteration: time limit, `before_step`, `execute_step`, `handle_outcome` | many early returns, each of which must emit the closing event, record what was learned and report the tools; it ends; its books agree with the answer the caller gets |
| Recovery (`error_recovery.rs`) | failures in a row; hashes of the last operations; failures per file; edits in a window | `decide_recovery`, `record_*`, `is_loop`, `check_stuck` | escalation in the right order; thresholds that a long sequence of legal calls reaches or never reaches |
| Advisor and critic (`advisor_inject.rs`, `runtime/model_router.rs`) | two budgets | replan on a stall, verify an answer, criticise an answer | a budget is spent only on advice that was given; a deferred answer leaves an iteration to repeat it in |
| Tool dispatch (`step.rs`, `tool_exec.rs`, `tools/mod.rs`) | the batch of calls, circuit breaker per tool, result cache | validate every call; run reads in parallel and writes in order; apply the results | all calls of a batch are admitted before the first one runs; every call is answered once; the breaker bounds failures; the cache is no older than the last write |
| Compaction (`compaction.rs`, `middleware.rs`) | the messages | levels 0 to 3 after a step, level 3 or abort before a step | the recent messages, the system messages and the order survive any sequence of levels |
| Middleware (`middleware.rs`) | its own counters | `before_step`, `after_step` | an abort must close the run properly |
| Parsing, validation, MAGI panel (`parse.rs`, `validate.rs`, `magi/`) | none | text to verdict | pure text rules |
| Fallback chain (`runtime/model_router.rs`, `runtime/inference.rs`) | three atomics: current entry, failures, successes on the fallback | `generate`, `record_failure`, `record_success` | several threads, atomics updated one by one; failures switch, cancellations do not; a good fallback is reached |
| Server supervisor (`runtime/process_supervisor.rs`, `supervised_backend.rs`, watchdog in `main.rs`) | the child process, requests in flight, the last use | `ensure_running`, `enter_in_flight`, `kill_if_idle` | one server at a time, never out of reach; no kill under a request; an idle server does stop |
| Inference backends (`runtime/llama_server.rs`, …) | HTTP connections, response cache | one request | external I/O: an answer, an error, a cancellation |
| Subagents (`subagent.rs`) | results of subtasks | run sequentially or in parallel, merge | threads that end in any order, panic or are cancelled; results and goals belong together; two prompts never wait on one input |
| Tasks and checkpoints (`task.rs`, `checkpoint.rs`, `cli_admin.rs`) | task rows, checkpoint rows, the working tree and index of git | create, close, list; save, roll back | rows outlive the process and each write may fail; a rollback is two git commands of another process while the work goes on |
| REPL and fast path (`agent_loop/repl.rs`, `fast_path.rs`, `run_repl_stdio` in `main.rs`) | the session between inputs, the busy flag | prompt, read, turn, confirm, leave | the busy flag is what keeps the DMN away; leaving waits for a thread that may be in a call of the model |
| DMN (`dmn/`) | the thread, three gates, the inbox | tick, reflect, dream, stop | the flag is read long before its use |
| Sensors (`sensors/`) | the files known, a channel | scan, send, record | files become known before they are sent; threads that end independently |
| Laboratory (`experiment.rs`, `experiment_log.rs`, `benchmark.rs`) | the experiments table, a TSV file, the baseline, what was tried | propose, screen, measure, judge, save, learn | verdicts against the right baseline; measurements that Ctrl-C cut short; two logs; restarts on what the table holds |
| MCP client and server (`tools/mcp_client.rs`, `mcp_server.rs`) | a child process, two pipes, a lock, the counter of requests | connect, call, reconnect, serve | answers are matched by their order alone; the process may die at any moment; a restart inside a call |
| Schema and store (`db/schema.rs`, `db/migrate.rs`, `memory/store.rs`) | tables, columns, the rows of `schema_version` | open: plan, execute, record | several processes migrate one file at once and one of them is killed between two statements; whoever has the store open finds its whole schema |
| Notes in the memory (`memory/ingest.rs`) | the chunks of each file | ingest a folder, prune | two walks and a transaction per file, while the user edits and other passes run; no chunk is lost, doubled or left behind |
| Search, experience, skills, heuristics (`memory/`) | SQLite rows | record, credit, decay, promote | the life cycle of a heuristic over many runs |
| Event store (`event_store.rs`) | append-only events | append, replay | the bracket of start and end events other components rely on |
| Knowledge vault, dreams, fact checking, graph, export | files and rows | batch jobs | text processing |
| Tools, sandbox | processes, files | one call | I/O; what the loop sees is success, failure, refusal, cancellation |
| Safety, configuration, observability | none that steps share | predicates, parsing, logging | no state machine |

The status and the reason of each are under `components` in `PROJECT.json`; the hazards
each of them is exposed to, with the properties that would catch them, under `hazards`.

### 1.2 How they interact

```
 REPL ──► agent loop ──► before_step / after_step (Compaction)
              │  └─────► dispatch ──► guards, breaker, cache ──► tools
              │                └────► threads for read-only calls
              ├──► advisor, critic ─┐
              ▼                     ▼
        SupervisedBackend ──► FallbackBackend ──► backends ──► servers
          ▲        │ in flight, child                            ▲
   DMN ───┘        └────────────── watchdog (idle kill) ─────────┘
   Ctrl-C ──► CancellationToken, read by the loop, the chain, the sandbox
   agent loop ──► event store, experience, heuristics (SQLite)
   tools ──► MCP connection ──► MCP server process
   sensors ──► channel ──► experience ──► DMN
   SubAgentExecutor ──► agent loops, task rows
   agent loop ──► checkpoint ◄── --rollback (its own process) ──► git working tree
   --lab ──► benchmark ──► agent loops; ──► experiments table, TSV file
   every process ──► MemoryStore::open ──► migrations
   --ingest, --ingest-prune ──► folder of notes ──► chunks in the store
```

Calls are synchronous. State that threads share: the cancellation token, the atomics of the chain, the
supervisor's atomics and its mutex around the child process, and the database.

## 2. The modules

| Module | Models | Extends |
|---|---|---|
| `SessionLifecycle` | what one run promises the readers of the event store: opened once, at most `MaxIterations` steps, closed by one event with the right reason | – |
| `AgentLoop` | one run: `run_agent_loop_with_session`, `execute_step`, `handle_outcome`, `ContinueSite`, `StallDetector`, advisor, critic | `SessionLifecycle` by refinement |
| `ToolDispatch` | the tool calls of successive model outputs: dispatch, execution, `CircuitBreaker`, `ToolResultCache` | – |
| `ToolGuards` | `LoopDetector`, `FileStuckGuard`, `MultiFileEditCycleDetector` over a sequence of calls | – |
| `Compaction` | the messages of a session under `compact_if_needed` and the guard before the model | – |
| `Threads` | the threads that share the backend and their cancellation tokens | – |
| `FallbackChain` | `FallbackBackend::generate`, `record_failure`, `record_success`, one atomic access at a time | `Threads` |
| `ServerSupervisor` | `ensure_running`, the in-flight guard, the watchdog, the server processes | `Threads` |
| `Inference` | the composition: each request passes through the supervisor and, inside it, through the chain | `FallbackChain`, `ServerSupervisor` |
| `Sensors` | the file sensor, its channel, the thread that records events | – |
| `Reflection` | the DMN thread: the gates of a tick, the choice of a topic, the call of the model, the inbox | `Sensors` |
| `Interactive` | the composition: `run_repl_stdio`, `run_repl`, Ctrl-C, the user | `Reflection` |
| `RpcConnection` | what the connection to an MCP server promises the tools that share it: turns, a fresh number for each request, the answer to a turn's own request or a failure | – |
| `McpClient` | `McpToolWrapper::call`, `McpConnection`, the server process | `RpcConnection` by refinement |
| `Delegation` | `SubAgentExecutor::execute`, `execute_single_subtask`, the tasks table | – |
| `Checkpoint` | `CheckpointManager::create`, `handle_rollback_mode`, what git does for them | – |
| `TaskRun` | the composition: a task with its checkpoint, its delegation, and a rollback beside it | `Delegation`, `Checkpoint` |
| `Lab` | `run_experiment_loop`, `HypothesisGenerator`, `MetaMutationGenerator`, `LabStagnationDetector`, the two logs | – |
| `Schema` | the migrations of `db/schema.rs`, statement by statement | – |
| `StoreOpen` | `MemoryStore::open`: the plan, the statements and records of the migrations, kills | – |
| `Ingest` | the composition: a program opens the store and makes one pass of `--ingest` or `--ingest-prune`; the user edits | `StoreOpen` |
| `ToolProofs` | theorems about `ToolGuards`, `ToolDispatch` and `McpClient` | these, `TLAPS` |
| `IngestProofs` | theorems about `StoreOpen` and `Ingest` | these, `TLAPS` |
| `…Proofs` | theorems about the module of that name | the module, `TLAPS` |
| `MC…` | constants for TLC | the module |

### AgentLoop

`pc` is the place in the control flow: `start`, `head` (the test of the `for` loop),
`before_step`, `check` (the entry of `execute_step`), `generate`, `outcome`
(`handle_outcome`), `critic` and `verify` (the two reviews of an answer), `returned`
(`Ok`) and `error` (`Err`). The counters have the names of the fields they stand for.
What the configuration fixes for a run is the record `setup`: whether the task counts as
complex, the critic's mode, whether a deadline is set, whether heuristics were injected.

What the model says is a choice between the actions enabled at `generate`: the backend
fails, the output is rejected (unparsable, or halted by MAGI), it is an answer, the
LoopDetector fires, or tools run with any success flag. Messages are abstracted to two
contents, because `compute_output_hash` compares the last one with the one before. Each
early return of the source is an action of its own (`TimesOut`, `BeforeStepAborts`,
`GenerateFails`, `AbortHandled`, `EscalationStops`, …), with what it emits and what it
does not: the iteration limit, the deadline and a middleware abort learn nothing, an
`Err` does not even close the session.

`ending`, `learned`, `injected` and `executed` record what the run told others. They are
never read by a guard.

### ToolDispatch

A step has two phases, and the module keeps them apart as the code does: `Refuse`,
`Validate` and `LoopDetected` go through the whole batch before `RunReads`, `RunRead`,
`HitCache`, `RunWrite` and `ApplyResult` execute what was validated. `validated` holds
positions in the batch, `answered` the order in which answers reach the session. Reads
that follow each other run together and are applied in the order of the calls; while one result
is applied the next are pending. What a read saw is a version number of its area (files
or memory), so that "stale" is a comparison. A call is cached under the arguments the model
wrote and looked up under the coerced ones (`Put`, `Lookup`), as in the source.
`CoolDown` is the clock.

### ToolGuards

One call of the model is one step: `LoopEndsRun` if a judgement of the `LoopDetector`
fires, otherwise `CallRuns` with either result. `salient_hash` ignores the values of
arguments, so a hash is one of four operations. `advised` and `edits` are history. The
module has no run of its own: its properties are proved for all thresholds.

### Compaction

A message is its role, its size, and for the assistant's whether it was summarised and where its
own thinking ends. The last two decide sizes, and through them which level comes next: a summary is not cut
again, and grows by a block each time the old messages have a thought. One unit stands for the tokens,
bytes and characters the code counts in different places. `Level0` to `Level3` and
`Compacted` are operators on sequences of messages, translated from the functions of the
same names; `AfterStep` and `BeforeStep` are the two middleware hooks; `log` remembers
every message as it was added.

### Threads, FallbackChain, ServerSupervisor, Inference

Every atomic access is a step: `CountFailure` (`fetch_add`), `ForgetSuccesses`,
`FindNext` (load), `SwitchTo` (store), and so on. `reg[c]` is the thread's local between
two of them: the entry it calls, then the count it was returned, then the index it is
about to store. `consecutive_failures` is modelled up to `MaxFailures`, because it is
only compared with it. The supervisor's operations on the child hold its mutex and are one
step each; `enter_in_flight` and the drop of its guard are two (the counter and the
timer), `kill_if_idle` three (the counter, the timer, the kill). A server that somebody
else started may answer at the same address (`foreign`). `HasProgram` is TRUE in every run, as it
is by default; without a program nothing is spawned, and the theorems cover that case too.

`Inference` joins the two: `Begin` is `Stamp` and `Call`, `End` is `CallReturns` and
`Leave`; everything else is a step of one side that leaves the other alone. `Answer`
needs a healthy server when the entry is the supervised one, and the composition assumes
that the supervised server is that of entry 1, as `maybe_supervise` and the default
configuration have it. `faults` and `overlapped` are history.

### Sensors, Reflection, Interactive

`repl` is the place of the main thread (`head`, `prompt`, `begin`, `turn`, `confirm`,
`stop`, `join`, `ended`), `dmn` that of the reflection, `watcher` and `handler` those of the
sensor. What these threads share is what the code shares: the session's token `cancelled`,
the flag `busy`, the `inbox`, the `channel`, and the experience store, of which `memory`
keeps what the latest rows are about (a failure, a sensor's event, anything else), because
that is what the generator looks at. `sampled` is the value of the flag that `DmnRunner`
read for the present tick: `Look` reads it, `Ask` uses it, and a turn may begin in between.
A line of the user is the way it is handled; `stdin` is shared by the prompt and by the
confirmation of a tool, as on a terminal. SIGINT sets `signalled`, a thread turns it into
`cancelled` later. `guests` counts the reflections that use the model during the turn.

`Handle` takes an event and records it, or loses it (`lost`): the thread goes on without a store when it could not
open one, and drops the result of `record`. The reflection does the same with its own store: with
nothing it can read it has a routine thought, and what it writes may not be there (`Noted`).

### McpClient

Every blocking step of a call is an action of its own: the lock, `is_alive`, the start of a
process, `initialize`, the request, the answer. The pipes are sequences; an answer is the
number of its request, a line that answers nothing is 0. `asked` is the number a caller
waits for, `got` the one it took. `fresh` is the connection that is being set up inside a
call: if anything fails it is dropped and `Drop` kills its process (`Return`). `Chatty` are
the processes that also send a notification; those that behave like `mcp_server.rs` send
one line for each request. `Silent` are those that may stop answering and live on.

`Rpc` reads the state of `RpcConnection` off it: the turn is the holder of the lock, `Stage` what
the holder has got to, `number` and `outcome` are `asked` and `got`; processes and pipes
are hidden. `TakesTurns` is what the connection promises. It holds while no process is chatty, and is
proved and not run: in both runs some process is, to show what becomes of the others.

### Delegation, Checkpoint, TaskRun

`run` is what the parent does; `at[i]` where sub-agent `i` is. A run of the agent loop is one
step, with an answer (`Succeed`: also when it was cancelled or ran out of time, as
`execute_single_subtask` has it) or an error. Each write of a row may fail, which the code
ignores (`let _ =`); `missed` records it. `Die` ends the process anywhere. `rows`, unlike the
rest, is kept.

In `Checkpoint` the tracked files are one content. A checkpoint is the content saved and
the commit it was saved against, because that is what `git stash apply` merges. The two
commands of a rollback and the update of its row are three steps of another process, and
the user writes, stages and commits between them. `git stash apply` refuses when the index
has conflicts, when the commit has been collected, or when it would write over unstaged
work; conflicting changes leave `clash` in the working tree.

### Lab

`pc` is the place in `run_experiment_loop`: `baseline`, `head`, `screen`, `measure`, `judge`,
`save` (the row of the table), `tsv` (the line of the file), `learn`. A measurement is a
score from a small range; one that begins after Ctrl-C is 0 and one that Ctrl-C interrupts
is any score (`cut`), as in `run_k`. `log`, `tsv` and `cycle` survive a crash, everything else
is forgotten (`Forget`): the next cycle loads the rejected changes from the table, as far as it can
read them. `load_tried_details` skips a row that fails and takes a query that fails for an empty table, so that
any part of them may be loaded (`Loadable`; `loaded` remembers which), and a failing `from_db` leaves the archive
as it was (`Reread`). A change
is the text the code compares (`detail`); what the Dreamer reports is a parameter.
`Propose` has the three ways to a proposal: a compound of two accepted rules, the first
untried slot of the ring of rules and parameters, and, when all have been tried, the rules
again in turn.

### Schema, StoreOpen, Ingest

A statement of a migration is a table or a column of one: `CREATE TABLE IF NOT EXISTS` may be
run again, `ADD COLUMN` may not. `present` is what the database has, `recorded` the rows of
`schema_version`. `Open` reads the version and makes the plan, `Execute` runs one statement and
`Record` writes the row, each committed by itself as in `initialize`; between any two another
process may come, and `Crash` may end this one. The programs need not be the same build: the
thirteenth migration is empty without the embeddings feature. `late` and `opened` are history.

In `Ingest` a program opens its store, makes one pass and ends. A note is a set of paragraphs; a
path without a file is `{gone}`. `ListFolder` and `ReadFile` are the walk (in any order; the code
sorts), `FindChunks` is the first read of a file's transaction, `SyncFile` its writes and its commit. SQLite gives a
transaction the database as it was at that first read, and refuses its writes if anybody has
committed since: `stale`. `Collect`, `FindOrphans` and `Purge` are the second walk,
the names the table has, and the deletes. `Edit` is the user, at any moment. `quiet` (nothing
was edited since this pass, or any it overlaps, began) and `missing` are history.

## 3. The runs

| Run | Instance | States | What it shows |
|---|---|---|---|
| `agent_loop` | 6 iterations, 2 retries, advisor and critic once each, 1 tool per step, 2 contents | 2.3 million | the run's books: events, lessons, counters and tools agree with the result; it terminates; it implements `SessionLifecycle` |
| `tool_dispatch` | a file read (two forms of its argument) and a shell command, batches of 3, 2 steps, threshold 2, 1 cooldown | 252 thousand | every call is answered once and in order; the breaker contains failures; the file cache is coherent; a batch ends |
| `compaction` | a context of 12 units, 5 steps of 5 kinds | 20 thousand | recent and system messages survive, the order is kept, the guard stops the run only when nothing is left |
| `inference` | 2 threads, 2 entries, 2 failures to switch, recovery off or after 1 success, 2 processes | 2.3 million | one server runs, the switch is earned, a reliable fallback answers |
| `inference_liveness` | the same with 1 failure to switch and recovery off | 157 thousand | every request returns; an idle server is stopped |
| `interactive` | 2 lines, a file that may be reported and one that may not, 2 unread thoughts | 1.2 million | a turn shares the model with one reflection at most; leaving ends the process; new files become experience if they can be recorded |
| `mcp` | 2 callers, 7 requests, 3 processes, the second chatty, the third silent at some time | 447 thousand | answers belong to their requests; no orphan process; the lock comes back from all calls but one that waits for a silent server |
| `task_run` | 1 task of up to 2 goals, 3 contents | 3.3 million | rows and results tell how each sub-agent ended; no two prompts at once; a rollback that succeeds undoes the task |
| `lab` | 2 cycles of up to 3 experiments on one database, 2 rules, 1 parameter, scores 0 to 2, judge on | 1.6 million | accepted scores climb; cut measurements are last; the two logs agree; nothing known to be rejected is repeated; a cycle ends |
| `store` | 2 programs, one built without embeddings; the first 9 migrations; 1 kill; 2 notes of 2 paragraphs, 1 edit, 2 passes | 737 thousand | an open store has its whole schema; races do not wedge the database; a pass mirrors the notes; a prune removes only what was gone |
| `inference_failover` | as `inference`, recovery off | (violation) | a request fails though the fallback answers |
| `mcp_notifications` | 2 callers, 1 process that sends one notification | (violation) | a call returns the answer of another |

### Why the bounds are enough

* `MaxIterations = 6`: the longest scenario of interest is a deferred answer followed by
  four failing steps in a row (three for the replan, one for the stop), and one more
  iteration. `MaxRetries = 2` leaves iterations before and after the retry limit. One
  use of each budget gives the states before, at and after its exhaustion. One tool call
  per step is enough for the accounting of tools, since what matters is that a step has
  any. Two contents allow a step that repeats its message and one that does not.
* `MaxBatch = 3` allows two reads together with a write before or after them; two steps
  carry the breaker and the cache from one batch to the next; threshold 2 is reached
  and overshot inside one batch; one cooldown shows an open breaker let a batch through.
* In `compaction`, sizes are chosen so that each level fires both alone and after the
  one before it, and so that a session too large even for level 3 occurs. Five steps of at
  most three messages exceed `KeepRecent` several times over. The boundaries of the code
  (`EmergencyKeep + 1`, three quarters, nine tenths) fall inside the sizes that occur.
* Two threads are what the program has: the REPL and the DMN. With two entries and two
  failures every interleaving of `record_failure` with itself and with `record_success`
  occurs. The threshold 2 is the default. Two processes let a second spawn happen
  if the first is not seen. In `inference_liveness` the threshold is 1 and recovery is off, because the
  temporal model checking would otherwise take far longer; the paths on which a count or a
  handle could be left behind do not depend on the threshold.
* `successes` needs no bound: a thread that counts it to the threshold starts it again, and
  only two threads can count in between.
* In `interactive`, two lines give a turn with a confirmation, two turns in a row, a turn
  and an `exit`, and lines that start none. The generator looks at the 2 latest experiences
  (5 in the code): enough for a failure to hide a sensor's event and to be pushed out. Two
  unread thoughts (`MaxInbox`) are what a turn with two reflections in it would leave.
* In `mcp`, seven requests are two calls before a death, the two `initialize` of the
  restarts and three calls after them; three processes allow a restart that fails and one that
  works after a chatty process, or a process that falls silent after two that did not.
* In `task_run`, two goals are what parallel and dependent need. One task with its
  checkpoint: rows of different tasks share nothing, and a rollback concerns one checkpoint.
  Three contents are what the user had, what was written since and what is committed;
  they are symmetric, since contents are only compared.
* In `lab`, three experiments reach an acceptance, the judge, a screening, stagnation
  (threshold and window 2), the Dreamer (every 2) and the compound (every third; the code
  has 5). The second cycle starts from the rows of the first (`MaxRows` leaves room for
  one of them), including one that was written before the process died.
* In `store`, the first nine migrations are those of an earlier release; they have every form
  the later ones have (several tables, no statement, one column, several columns of several tables). All
  sixteen give the same verdicts on twice the states, in more time than a run should take. Two
  processes make every race of the migrations; one kill is enough to wedge one. Two paragraphs let an
  edit change a part of a note; two notes let a prune remove one and keep the other; two passes overlap. There is one
  folder, so that two files of one name are left to the proof. Names and paragraphs are only compared, hence
  symmetric.

`CHECK_DEADLOCK` is on where the module says how the program stops: an action `Terminated`
(or `Stopped`) that only then stutters. In `interactive`, `mcp`, `task_run`, `lab` and
`store` the process ends, or the bounds are used up, and nothing has to follow: there it is off.

### Properties worth knowing

* `EndingMatchesResult`, `LearningMatchesResult`, `ToolsAccountedFor` relate what the
  caller, the event store and the experience store are told. Each of the ways out
  of a run (an answer, three kinds of giving up, two limits, the middleware, an error)
  could get one of them wrong.
* `ReplanBeforeStop`: whoever stops after four failures was asked to replan after the third,
  though corrections, stalls and deferred answers come between.
* `FailureCountersAgree`: two counters of "consecutive failures" drift apart, and only
  in the direction and for the reason stated (a deferred answer).
* `BreakerContainsFailures`: the bound is not the threshold but the threshold plus a
  batch for each cooldown, since admission precedes execution.
* `FileCacheCoherent`: a write that failed or was cancelled half-way also invalidates.
* `RecentMessagesIntact`, `SystemMessagesSurvive`, `ConversationInOrder`: over any sequence of
  compactions, not for one call.
* `ReliableFallbackAnswers`: `2 * Entries` attempts are enough to reach the last
  entry, whatever count of failures was left behind, for a request that overlaps with no
  other. For two that overlap it fails (`FailsOver`), and for one alone it fails with a threshold of 3
  and three entries: the proof says which thresholds and lengths go together.
* `OneServerUnderControl`: on every way through a request.
* `AtMostOneGuest`: the busy flag does not keep a reflection out that read it before the
  turn began, so "none" would be false; but one is the limit, however long the turn is and
  however fast the ticks are.
* `StopEnds`: the join is safe because the call of the model the thread may be in returns, and
  only because of that.
* `AnswersBelong`: answers are matched by order alone. That is enough as long as the calls of
  a server share one lock through send and receive, and a failed call either leaves no answer behind or
  a dead process. For a server that also sends notifications it is not: section 6.
* `NoOrphanServer`: on every way a restart inside a call may fail.
* `RowsTellWhatHappened`: which rows may stay open, and why: a panic, a dead process, a failed write.
* `EveryGoalAnswered`: the only way to fewer results than goals is the token, in the sequential mode.
* `RollbackUndoesTheTask`: what the user may do while a rollback runs without losing what it
  promises. Staging or committing between is outside: git then merges, and the result is
  neither state.
* `AcceptsClimb` and `PartialVerdictsAreLast` together: a score that Ctrl-C cut short may be accepted
  and is logged as such, but nothing is measured against it, because the loop looks at the token
  before the next proposal.
* `FilesAreReported`: a file is sent once, so that the one attempt to record it is all there is; where it fails
  the file is lost for good. The sensor's part is that every file gets that far.
* `LockComesBack`: the guard of the lock is dropped on every way out, so what could keep it is a wait that
  does not end. A death ends one, at whichever point of a call, a restart or a handshake; silence does not
  (`Stuck`), and all the tools of that server then wait behind it.
* `RejectedOnce`: across processes, through what could be read of the table alone.
* `OpenIsComplete`: the highest recorded version alone decides what an open skips, whoever applied
  which part of it.
* `OnlyCrashesWedge`: of two processes that migrate a new database at once one may fail, but the
  other gets through; a process killed between two `ADD COLUMN`s leaves a database no program opens again.
* `PassMirrorsNotes`: each paragraph once, though two passes may find the same chunk missing; the
  refused write of an old snapshot is what keeps it from being added twice.
* `PurgedWereGone`: a note that exists all the time keeps its chunks, although the names on disk, the names in
  the table and the deletes are read and made one after the other.

## 4. Fairness

* `AgentLoop`: weak fairness of `Loop`. The run is one thread with nothing to wait for but
  the model (the HTTP client has a deadline) and the tools (each has a timeout).
  Ctrl-C and the deadline are not obliged to happen.
* `ToolDispatch`: weak fairness of `Dispatch \/ Execute` for the same reason; the model is
  not obliged to call another tool, a cooldown not obliged to elapse.
* `Compaction`, `ToolGuards`: weak fairness of their own steps. Their properties are safety.
* `Inference`: weak fairness of `Progress(c)` for each thread (the polls of
  `ensure_running` are bounded to 60, an HTTP call has a deadline, the attempts of
  `generate` are bounded), of the watchdog (a loop with a sleep of 30 seconds), and of
  idle time. Nobody is obliged to start a request, to cancel, or to start or stop a server: requests
  return although the server never becomes ready.
* `Interactive`: weak fairness of the main thread, of the reflection (its call of the model has a
  deadline), of the two sensor threads and of the thread that relays the signal. The user is
  not obliged to type, to answer or to press Ctrl-C; `StopEnds` holds all the same since it starts
  where the REPL has been left.
* `McpClient`: weak fairness of each caller, and of each server outside `Silent` that has a request to
  answer and does not die. The lock is a `std::sync::Mutex`, which promises no turn to anybody: a caller may be
  overtaken for ever, and no property says that it gets the lock. Nothing in the project assumes strong
  fairness.
* `Lab`: weak fairness of the steps of the loop. Nobody is obliged to start a cycle.
* `TaskRun`, `StoreOpen`, `Ingest`: none; their properties are safety.

## 5. The proofs

Eight modules hold the theorems, each about the modules it is named for. A theorem holds for all values
of the constants, from the assumptions the module declares and TLC evaluates on each run; where a theorem needs
more, its hypothesis is in its statement and below. Every safety property and every action property
that a passing run checks is proved. Each part has the same plan: an inductive invariant,
checked by TLC on the instance of the run (`ToolGuards` has none) before it was proved, one lemma per action, and the properties from the invariant.

### AgentLoopProofs

For every number of iterations, retries, uses and contents, from `LoopConstants` alone
(numbers are naturals; the replan prompt is not a content a tool or the model produces):

| Theorem | States |
|---|---|
| `TypeCorrect` | `TypeOK` |
| `EndingCorrect` | `EndingMatchesResult` |
| `LearningCorrect` | `LearningMatchesResult` |
| `ReplanComesFirst` | `ReplanBeforeStop` |
| `FailureCountersCorrect` | `FailureCountersAgree` |
| `AdvisorBudgetCorrect` | `AdvisorBudgetSpentOnAdvice` |
| `ToolsReported` | `ToolsAccountedFor` |
| `VerificationHasRoom` | the action property `VerificationLeavesAnIteration` |
| `RunsAreBounded` | `EveryStepCounts`: each step uses up a natural number, at most `7 * MaxIterations + 10` at first |
| `LoopImplementsLifecycle` | `Implements`: with `steps <- finalIteration` and `phase` read off `pc`, the initial states map to initial states and every step to a step or a stutter |

None of these is inductive. The invariant is

    Invariant == TypeInv /\ Records /\ Ladder /\ FailureCountersAgree
                 /\ AdvisorBudgetSpentOnAdvice /\ Tools

* `TypeInv` is `TypeOK` with `Flow`: how `iteration`, `finalIteration`, `outcome` and
  `result` go together at each `pc` (`finalIteration` is one ahead inside an iteration,
  a handler finds an outcome, the failure counter has not passed the threshold while the
  run goes on). Without it `iteration + 1` could leave its range.
* `Records` is `EndingMatchesResult` and `LearningMatchesResult`; that nothing has been
  recorded yet where a record is made follows from it and `Flow`.
* `Ladder` adds to `ReplanBeforeStop` that a count of three means that the prompt was
  injected.
* `Tools` says that `executed` exceeds `allTools` by the tools of the current step between
  the execution and its accounting, and only then.

One lemma per part shows that every action preserves it.

### InferenceProofs

For any finite set of threads, any chain length, thresholds, collisions of keys and set of
processes, from `ThreadConstants`, `ChainConstants` and `SupervisorConstants`:

| Theorem | States |
|---|---|
| `TypeCorrect` | `TypeOK`: the current entry stays in the chain, the attempts within their bound |
| `InFlightCorrect` | `InFlightIsRight` |
| `OneServer` | `OneServerUnderControl` |
| `SwitchEarned` | `SwitchIsEarned` |
| `FallbackAnswers` | `ReliableFallbackAnswers`, if `MaxFailures * (Entries - 1) < MaxAttempts` |
| `FallbackAnswersByDefault` | the same for thresholds up to 2, whatever the length of the chain |
| `RequestsAreBounded` | `RequestIsUsedUp`: a thread inside a request stays where it is or uses up a natural number, at most `7 * MaxAttempts + 13` |

    Invariant == TypeOK /\ Locals /\ InFlightIsRight /\ OneServerUnderControl /\ Earned

* `Locals`: an index a thread is about to store is in the chain, and only tokens Ctrl-C
  may set are set. `current` is written from a local read several steps before.
* `Earned`: while fewer than `MaxFailures` calls have failed, the counter plus the failed
  calls that are about to be counted does not exceed the number of failures; and a thread
  on its way to the switch has seen `MaxFailures` of them. A thread
  between its failed call and `record_failure` is what makes `SwitchIsEarned` alone not
  inductive.
* `SupervisorTypeOK` needs `InFlightIsRight`: `inFlight - 1` is a natural number because
  the leaving thread is one of those counted.

`FallbackAnswers` adds `Overlaps` (who is inside a request with another one is in `overlapped`) and
`AloneOnTheWay`: at each place of a lone request its attempts are at most `MaxFailures` for each
entry left behind plus the failures counted since (`Paid`). The first attempt may be free, because a
count that earlier requests left behind switches at once. So it stands on the last entry before the
attempts run out, provided that getting there costs less than all of them. The hypothesis is needed: with a threshold of
3 and three entries `MaxFailures * (Entries - 1) = 6 = MaxAttempts`, and the request fails without calling the last
entry. The default threshold is 2, for which it holds of every chain.

### LabProofs

For any rules, parameters, reports, scores, thresholds and numbers of experiments and cycles,
from `LabAssumption`:

| Theorem | States |
|---|---|
| `AcceptedClimb` | `AcceptsClimb` |
| `PartialLast` | `PartialVerdictsAreLast` |
| `TsvFollows` | `TsvFollowsTable` |
| `RejectedOnceOnly` | `RejectedOnce`, if `PlainTexts` |
| `CyclesAreBounded` | `CycleIsUsedUp`: each step of a cycle uses up a natural number, at most `7 * MaxExperiments + 9` |

    Invariant == Shape /\ InHand /\ Climb /\ Cut /\ Behind
                 /\ AcceptsClimb /\ PartialVerdictsAreLast /\ TsvFollowsTable

The three properties speak of the logs; a step that writes a row needs to know how the row goes
with those of its cycle, which is what the first parts say of the state between two rows:

* `Shape`: what the rows and the experiment in hand are made of (the set of details is unknown,
  since a compound makes new ones), and that no row is of a later cycle.
* `Climb`: the baseline is at least the score of each row this cycle has accepted, and an
  experiment that is accepted, by the measurement and then by the judge, is above it.
* `Cut`: a measurement that is not whole means that the token is set; once such a row is
  written the loop cannot get back to a proposal.
* `Behind`: the file lacks none of the cycle's rows but the one `tsv` is about to append.

One lemma per action; `RowKeeps` is shared by `Save` and by a `Fail` that comes after the row.

`RejectedOnceOnly` needs to tell a compound from the text of a rule, a parameter change or an insight: `PlainTexts`
says that none of those given reads `meta compound: [...] + [...]`, which is so of `default_prompt_rules`,
of `param_mutations` and of the insights, which begin with `insight: `. `Remembered` then says that what was
loaded is tried, and that whatever the cycle has rejected is tried or a compound; `Ring` that the slots are plain and that there is
at least one rule. What `Propose` takes up is untried, a compound, or anything when nothing is untried.

### InteractiveProofs

For any files, lines and numbers of thoughts, `OneGuest` without any assumption, the others from `SensorAssumption`,
`ReflectionAssumption` and `InteractiveAssumption` (what the constants are):

| Theorem | States |
|---|---|
| `OneGuest` | `AtMostOneGuest` |
| `InteractiveTypes` | `TypeOK`; with it, that only files the privacy filter lets through are ever reported or recorded |
| `FilesAreRecordedOnce` | `EachFileOnce`: no file is recorded twice |
| `LeavingIsBounded` | `LeavingIsUsedUp`: once the session waits for the reflection's thread, steps of either use up a number of at most 4 |

    Invariant == guests \in 0..1 /\ (InTurn => busy /\ (guests = 1 => ~Invited))

`Invited` is a tick that looked at the flag before it was raised and has not asked yet. The flag
is up throughout a turn, so that nobody is invited during one; the one that was invited before
is no longer when it asks.

* `InteractiveTypes` needs `WithinBounds` as well: the lines not yet read are among those typed, and a reflection
  that is asking has found room in the inbox, which nobody else fills before it is back.
* `FilesAreRecordedOnce` rests on `SentOnce`: what the sensor has sent is in `known`, which forgets nothing, and
  what is recorded and what is still in the channel are, together, without repetition.
* `LeavingIsBounded` rests on `Told`: whoever waits has set the token, so that a reflection that has come to
  the head of its loop ends and one that asks the model asks once more at most.

### IngestProofs: opening the store

For any migrations, builds, processes and number of kills, from `StoreOpenAssumption` (what the
constants are) and `SchemaAssumption` (no two statements add the same column, and a table is
created by every build in an earlier migration than one that adds a column to it). TLC evaluates both on the
migrations of the source.

| Theorem | States |
|---|---|
| `OpenStoresAreComplete` | `OpenIsComplete` |
| `LaterOpensSucceed` | `ReopensSucceed` |
| `RacesDoNotWedge` | `OnlyCrashesWedge` |

    IInv == StoreTypeOK /\ RecordedBelow /\ BehindIt /\ WithinIt /\ NoPlanLeft
            /\ OpenIsComplete /\ ReopensSucceed

* `RecordedBelow`: below a recorded version everything is applied; this is what makes the maximum
  a sound answer to "what is left".
* `BehindIt`, `WithinIt`: a process that migrates has the versions before its own applied and
  the one before recorded, and within its own the statements before its next one.
* `NoPlanLeft`: once the store has been open the last version is recorded, so that whoever
  begins later has nothing to execute.

`RacesDoNotWedge` needs one part more, while nobody has been killed (`Attended`): a column of a
version that is not recorded was added by a process that is still at that version, past it. A process
that fails at a column had not added it, so its failure takes nobody away.

### IngestProofs: filling it

For any folders, names, paragraphs, programs, edits and passes, from the assumptions above and
`IngestAssumption`:

| Theorem | States |
|---|---|
| `StoresAreSound` | the composition implements `StoreOpen`, hence its three properties |
| `NotesAreMirrored` | `PassMirrorsNotes` |
| `PrunedNotesWereGone` | `PurgedWereGone` |
| `IngestTypes` | `IngestTypeOK` |

    IngestInv == IngestTypeOK /\ Once /\ AllQuiet /\ \A p \in Processes : PassInv(p)

* `Once`: no chunk is in the table twice. It rests on `Snapshot` (in `PassInv`): a transaction whose snapshot
  is not old knows the chunks that are there, and no other adds any.
* `AllQuiet`: while one pass is quiet all that run are. So the texts that any of them has read are what the
  notes hold, and another pass cannot undo what this one has done.
* `Synced` (in `PassInv`): under a quiet pass a note is mirrored or the pass has still to get to it. At the
  end of the walk nothing is left to get to.
* `Met`, `Orphans` (in `PassInv`): a note that was there all the time is met on the second walk, and what
  has been met is not among the orphans.

### ToolProofs: the guards

For all thresholds with `GuardConstants` (the nudge comes before the give-up, thresholds are positive):
`GuardsAreBounded` (the windows keep their sizes, no operation is seen more often than the
frequency threshold), `NudgeComesFirst` (`NudgeBeforeGiveUp`) and `EditMessagesSpaced`
(`EditMessagesAreSpaced`). The invariant adds that an operation below the thresholds has not fired and that
a file with enough failures has had its advice.

These are proved and not run, as are `InFlightIsRight`, `AdvisorBudgetSpentOnAdvice`, `VerificationLeavesAnIteration`,
`EachFileOnce`, `TakesTurns`, `AnswersAreComing` and the measures. But for the guards, TLC agreed with each on a
small instance first; a proof for all constants leaves a run little to add.

### ToolProofs: dispatch and execution

For any tools, arguments, batches, thresholds and cooldowns, from `DispatchConstants`:

| Theorem | States |
|---|---|
| `DispatchTypes` | `TypeOK` |
| `CallsAnswered` | `EveryCallAnswered` |
| `FailuresContained` | `BreakerContainsFailures` |
| `CacheCoherent` | `FileCacheCoherent` |
| `StepsAreBounded` | `WorkIsUsedUp`: a batch of n calls is done in at most `3 * n + 2` steps, but for the clock |

    IInv == TypeOK /\ Books /\ Fresh /\ Admitted /\ FileCacheCoherent

* `Books`: which positions of the batch are refused, validated, executed, pending and answered in each phase.
  `EveryCallAnswered` speaks of the end of a step only; the books say what has been answered half-way.
* `Fresh`: pending results of reads saw the version there is. Several reads are applied one after the
  other, so that this must survive the application of each: it does because only writes change a version, and a write is alone.
* `Admitted`: at dispatch a validated tool has failed at most `Allowed(coolDowns[t])` times; during execution each further failure
  takes one of the calls still to be applied. That is where the batch in the bound comes from: admission is
  decided before any call of the batch runs.

### ToolProofs: the MCP connection

For any callers, processes and calls, from `McpAssumption`:

| Theorem | States |
|---|---|
| `McpTypes` | `McpTypeOK` |
| `AnswersAreOnesOwn` | `AnswersBelong` |
| `ServersAreHeld` | `NoOrphanServer` |
| `ConnectionTakesTurns` | `TakesTurns`, if `Chatty = {}`: `McpClient` implements `RpcConnection` |
| `NobodyWaitsInVain` | `AnswersAreComing`: whoever waits for a line waits for a dead process, or its request or an answer is in the pipes |
| `McpCallsAreBounded` | `CallIsUsedUp`: each step of the call that has the lock, or of a server, uses up a natural number, at most 14 for processes that send nothing of their own |

    McpIInv == McpTypeOK /\ Exclusive /\ SettingUp /\ Started /\ PipesAgree
               /\ NoOrphanServer /\ AnswersBelong

* `Exclusive`: who is past the lock holds it. `SettingUp`: there is a second connection only inside a call that found its
  server dead, and it is in `fresh`. `Started`: a process that has not been started has empty pipes.
* `PipesAgree` is what makes the order of the answers enough: the pipes of a process that sends nothing of its own hold at most one
  request or its answer, of the number the holder of the lock waits for, and are quiet when nobody
  waits. A call that gives up leaves a dead process.

`ConnectionTakesTurns` maps a step at a time: `Lock` takes a turn, what writes to a pipe is a request, `Answer`
ends the turn, what else the client does and every step of a process is a stutter. That the line taken is
the answer to the call's own request (`Succeed`) is `PipesAgree`. Without the hypothesis it is false, and TLC
finds the notification that shows it.

`AnswersAreComing` is the safety part of `LockComesBack`: a client without a deadline may wait only
for what is on its way, or for a server that has the request and is silent. The number of `McpCallsAreBounded` counts two for each step of
the holder and one for each line its processes have not read, so that a step may add a line. Deaths,
notifications and calls that begin do not raise it.

### CompactionProofs

For any sizes, thresholds, session openings and steps, from `CompactionConstants`:

| Theorem | States |
|---|---|
| `CompactionTypes` | `TypeOK` |
| `EndIsIntact` | `RecentMessagesIntact` |
| `InstructionsSurvive` | `SystemMessagesSurvive` |
| `OrderIsKept` | `ConversationInOrder` |
| `StopsOnlyWhenItMust` | `StopsOnlyWhenNothingIsLeft` |

Most of the work is in the lemmas about the operators. `Good(s, log)` says of a sequence of messages
that its messages are those the log has under their numbers (`Fits`), that its end is the
log's (`EndIntact`), that no system message is missing (`SystemsIn`), that the others are in order (`InOrder`)
and that it begins with a system message (`Headed`).

* Levels 0 to 2 rewrite messages in their places (`Level0Rewrites`, `Level1Rewrites`, `Level2Rewrites`: number and role stay,
  a user's message stays, a recent message is at most replaced by its preview), and any such rewriting keeps `Good` (`RewrittenIsGood`).
* Level 3 builds a new sequence: its front keeps every system message (`FrontOfLevel3`), its end the last
  `EmergencyKeep` messages (`EndIsKept`), hence `Level3IsGood`. It needs `Headed`: a session is never shorter than what is kept of it.
* `CompactedIsGood` puts them together, `AppendedIsGood` adds messages, and the two hooks follow.

`Size` and `Systems` are recursive functions; that they have values, and which, is proved
by considering the least number for which they would not (`LeastNumber`, from the
well-foundedness of the naturals).

### TaskRunProofs

For any tasks, goals, contents and checkpoints, from `DelegationAssumption` and `CheckpointAssumption`:

| Theorem | States |
|---|---|
| `TaskTypes` | `TypeOK` |
| `RowsAreTrue` | `RowsTellWhatHappened` |
| `GoalsAnswered` | `EveryGoalAnswered` |
| `NoTwoDependents` | `DependentsRunAlone` |
| `TaskUndone` | `RollbackUndoesTheTask` |

    IInv == Delegated /\ Checkpointed

* `Delegated`: where sub-agents may be in each mode (`Placed`); that a sequential delegation has ended
  exactly the goals it has results of (`InOrder`); which rows are written when (`OpenRows`). `Told` is
  `RowsTellWhatHappened` without the query, over every task the table has held.
* `Checkpointed`: the latest checkpoint holds the work from before the task, and a rollback under way has a target.
* `NoTwoDependents` follows from `InOrder` and `ParallelMayBe`: only the next goal is at work, unless the goals are
  independent and nobody may be asked.

### What the proofs say of termination

Six theorems say that a component cannot go on for ever: `RunsAreBounded`, `StepsAreBounded`, `RequestsAreBounded`,
`CyclesAreBounded`, `McpCallsAreBounded` and `LeavingIsBounded`. Each names a natural number computed from the state, bounds it, by the
constants or outright, and shows that every step of the run, the batch, the request, the cycle, the call or the end of the
session makes it smaller, whatever the others do in between (steps of other threads do not raise it). So a deferred answer, a correction or a replan cannot keep a run going past its
iterations; no read of a shared atomic sends a request round the chain more often than its
attempts; no batch is taken up again. What they leave to TLC is that a next step stays
enabled until the end is reached and is taken, which is `ENABLED` and fairness.

### What is only model-checked

Liveness: `Terminates`, `StepCompletes`, `RequestsReturn`, `IdleServerIsStopped`, `CycleEnds`, `StopEnds`,
`FilesAreReported`, `LockComesBack`. Temporal reasoning from `WF_` needs `ENABLED`, which is out of the prover's
reach. The measures above are proved of `Terminates`, `StepCompletes`, `RequestsReturn`, `CycleEnds`, of `StopEnds` from
where the session waits for the reflection, and of `LockComesBack`; that an idle server is stopped and that
files are reported is model-checked alone. (`SessionLifecycle` states
no fairness, so `Implements` needs none.) The two runs that end in a violation are counterexamples,
and there is nothing to prove of them.

## 6. Where code and comments disagree

Two runs end in a violation of something a comment, a message or a document of the
repository says. `findings` in `PROJECT.json` quotes the line.

1. **Failover** (`inference_failover`): between `record_failure` and `is_exhausted`
   another thread may switch to the last entry; this one then takes the chain for
   exhausted and fails without having called that entry.
2. **Notifications** (`mcp_notifications`): `send_request` takes the next line of the pipe for
   its response and does not compare the `id`. A notification of the server fails one call,
   and the next call returns the answer the failed one left in the pipe, as does every call after it.

Seen while modelling, and part of the modules as the code has it:

* Agent loop. The result of a run that the escalation stops omits the tools of its last step
  (`ToolsAccountedFor` states the exception). `step.rs:128` passes the iteration as the number of the
  retry, so that after `max_retries` good steps the first malformed output ends the run. The
  critic's disagreement on the last iteration throws the answer away: unlike
  self-verification it does not ask whether an iteration is left. `run_after_step` ignores an abort.
* Tools. A writing tool invalidates `file_read` and `repo_map` only: recall, remember,
  recall returns what was known before. Any successful call that names a file resets its
  failures, including the read that the advice asks for. After its cooldown a breaker lets every call
  pass, not one probe.
* Compaction. Level 1 excludes AI+Tool pairs and the first and last user message, which has no effect:
  it prunes outputs of tools only. Level 3 repeats a system message that is among the
  recent ones, keeps every handoff of earlier calls, drops the task the user set, and may
  keep a tool's output without the call (`docs/quality/critical-code-review-20260907.md:133`
  admits the last; `docs/architecture/overview.md:42` claims the pairs are protected). The
  preserved thinking is appended to a message that may be cut at the next compaction.
* Inference. The key of a chain entry leaves out its server: two entries with the same backend and
  model share one backend, the later one's (`BackendOf`). With `(entries - 1) * max_failures >=
  2 * entries` a request runs out of attempts before the chain gets to its last entry.
  `kill_if_idle` judges, then kills; a request that enters in between loses its server.
* Laboratory. The archive of accepted changes is read again before the new row is saved
  (`experiment.rs:1413`; the comment above it says the new one is added), so a compound
  lags by one acceptance. An acceptance replaces the baseline but never `base_config`: each
  change is measured alone against a score that another change reached. A compound joins the details of
  two rules, not their text, and may be proposed again after it was rejected. A failure
  of the row's last statement leaves the row although the cycle ends with an error (`Fail`).
  A cycle that cannot read the table starts as if nothing had been rejected, without a word, and repeats it
  (`load_tried_details`, 706): `RejectedOnce` excepts what was not read.
  `experiment_count % dreamer_interval` (1465) panics for an interval of 0.
* Interactive session. The banner (`main.rs:585`) offers Ctrl-C as a way out, but at the
  prompt `read_line` is not interrupted: the token is seen after the next line. A reflection asks
  the model with a token nothing sets. `last_dreamed` is not reset by a busy turn, so a dream
  may follow a turn at once. What the sensor had sent and nobody recorded is dropped at the end. A file whose
  event cannot be recorded, because the database is locked or the thread could not open it, is never
  reported: nobody tries again, and nobody is told (`event_handler.rs:50`, `main.rs:659`).
* Store. A process killed between two `ADD COLUMN`s of one migration wedges the database: every later
  open executes the first again and fails. A build without embeddings records the thirteenth
  migration with an empty statement (`schema.rs:347`), so a later build with them never gets
  `vec_memories`. `store.rs:122` says that the tables the laboratory resets are not used meanwhile, but `remember`,
  the sessions, the DMN and `--ingest` of other processes write them; and screening gives the
  loop a scratch store while `remember` and `recall` open the real one.
* Notes. Two files of one base name in different folders replace each other's chunks on every pass,
  although `ingest.rs:66` says that a pass over unchanged files writes nothing
  (`PassMirrorsNotes` excepts such names). Of two processes that `--resume` one session the last to save wins.
* Skills and heuristics (read, not modelled). Two frequent answers that begin with the same 30
  characters are one skill and overwrite its tools in turn on every promotion. The score of a heuristic
  never changes after its creation, so that pruning by score has nothing to prune.
* MCP. A server that lives and stops answering keeps the thread that asked it, and with the lock all
  tools of that server, for ever: `read_line` (`mcp_client.rs:165`) has no deadline.
* Sub-agents. A cancelled or timed-out run counts as completed, since `run_agent_loop` returns `Ok`.
  The rows of sub-agents that panicked or died stay open for ever: `--tasks` lists them,
  nothing resumes or closes them.
* Checkpoints. A rollback whose merge fails is marked as done, and has already discarded
  the unstaged work it started from. A conflicted rollback makes every later one fail, and
  every later checkpoint one without a commit, until the conflict is settled. The commit of a
  checkpoint has no reference, so git may collect it.

## 7. What is not modelled

* Text: prompts, parsing, MAGI rules, rankings, the wording of messages. Their verdicts
  are nondeterministic.
* HTTP, streaming, process spawning: one step with its possible results. The retry without
  streaming inside `LlamaServerBackend` and its response cache are inside that step.
* Options that are off by default: the importance scorer, the budget by kinds of memory,
  the working memory cap of 7 ± 2 messages. Planning before the first step is one message.
* `reset_to_primary` and `CheckpointManager::rollback`: only tests call them. With
  `BONSAI_MLX_IDLE_TIMEOUT_SEC=0` the supervisor does not exist. It has no `Drop`, so that a server it
  started outlives the program: `OneServerUnderControl` is about the time the program runs. A `try_wait` that fails
  (`process_supervisor.rs:93`), after which the handle of a process that may run is dropped, is left out.
* In `ToolGuards` a model output has one call; batches are in `ToolDispatch`, where the
  `LoopDetector` may fire on any call.
* Nothing in the program calls `SubAgentExecutor` yet. `Delegation` models it as the interface it
  is; nested delegation (bounded by depth) and a delegation without goals return no results at once.
* Checkpoints: untracked files, more than one file, merges within a file. `--list-checkpoints`
  and the statistics only read.
* Laboratory: what a benchmark runs (a score stands for it), the option that turns screening
  off, the focus of a mutation, the passes over events after the loop, the tiers and
  frontiers of tasks, the warm-up of the model (whose timeout its scoped thread defeats).
* MCP over HTTP has no state between calls. Several servers share the counter of requests
  and nothing else.
* Interactive: what slash commands print; a terminal's line buffering is assumed (with
  a pipe the prompt's reader may buffer lines a confirmation then misses). The idle and
  window sensors send nothing in this build.
* Store and notes: SQLite itself (one writer, committed statements, snapshots) is taken as documented; the busy
  timeout, errors of `get_schema_version` other than an empty table, indexes, triggers and pragmas; the
  ingestion of a single file; hidden entries; and entries whose metadata cannot be read, which
  the walks take for absent, so that a prune may remove their chunks.
* Search, skills, heuristics, vault, graph, fact checking and export are SQL
  statements and text; configuration, safety and observability have no state machine.
* The map names about a tenth of the implementation's lines. The rest is text (prompts, parsing,
  reports, configuration), arithmetic over rows and scores, I/O, and tests beside
  the code, which most files have more of than of code. What is left that has states and an
  order is in the plan.

## 8. Plan

Done: the agent loop with its abstract specification and proofs; dispatch, guards and
compaction; inference with its proofs; the interactive session with reflection and sensors;
the MCP connection; sub-agents, tasks and checkpoints; the laboratory; opening and
filling the store; and the proofs of every safety and action property that is run, with measures for
six of the liveness properties.

Next, in this order:

1. **Heuristics** (`memory/heuristics.rs`): created by the laboratory's last pass, credited by
   runs, deprecated, dreamed. `AgentLoop` already has what one run credits. The score is
   never updated after creation, so pruning by score may never fire: the first thing to ask of it.
2. **Benchmark** (`benchmark.rs`): `run_k` with its repetitions, jitter and cancellation, and
   what a composite score may and may not do when tasks are missing.
3. **The shared store**: the resets of `--lab` (`run_k`) beside real sessions, `remember` and
   `--ingest` in other processes; two processes that resume one session.

Proofs come with these modules. Of what there is, the liveness that has no measure is left:
`IdleServerIsStopped` and `FilesAreReported`, each of which needs a round of a loop to be counted.
