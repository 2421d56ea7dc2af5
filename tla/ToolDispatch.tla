----------------------------- MODULE ToolDispatch -----------------------------
(***************************************************************************)
(* The tool calls of one model output: the dispatch loop of execute_step    *)
(* (step.rs), execute_validated_calls and apply_tool_result (tool_exec.rs), *)
(* the CircuitBreaker (error_recovery.rs) and the ToolResultCache           *)
(* (tools/mod.rs), over the successive steps of a run.                      *)
(*                                                                         *)
(* A step has two phases.  Every call is first dispatched: refused with a   *)
(* message, or validated.  Only then are the validated calls executed, runs *)
(* of read-only calls together.  What is decided in the first phase may be  *)
(* out of date in the second.                                               *)
(*                                                                         *)
(* Four tools stand for the registry: file_read (and repo_map), recall (and *)
(* the web tools) are read-only; shell (and git, the file editors) changes  *)
(* files, remember changes the memory.  What a tool reads is abstracted to  *)
(* the number of writes the run has made to its area.  LoopDetector is in   *)
(* ToolGuards: here it may fire on any call.                                *)
(***************************************************************************)
EXTENDS Integers, Sequences, FiniteSets

CONSTANTS
    Calls,              \* bound: the calls the model makes
    BreakerThreshold,   \* CircuitBreaker::threshold, 5 by default
    MaxBatch,           \* bound: tool calls in one model output
    MaxSteps,           \* bound: model outputs with tool calls
    MaxCoolDowns        \* bound: cooldowns of a tool that elapse

Tools == {"file_read", "recall", "shell", "remember"}

\* An argument is a number, or the same number written as a string.
Args == {"native", "string"}

ASSUME DispatchConstants ==
    /\ Calls \subseteq [tool : Tools, arg : Args]
    /\ BreakerThreshold \in Nat \ {0}
    /\ MaxBatch \in Nat
    /\ MaxSteps \in Nat
    /\ MaxCoolDowns \in Nat

VARIABLES
    pc,            \* where the step is
    steps,         \* model outputs received
    batch,         \* the tool calls of this output
    next,          \* the call being dispatched, then the next validated call to execute
    validated,     \* positions in batch of the calls to execute
    results,       \* results collected and not yet applied
    answered,      \* positions in batch of the calls answered, in the order of the messages
    allSucceeded,  \* the flag execute_validated_calls returns
    failures,      \* CircuitBreaker::failure_counts
    cooled,        \* the cooldown since the tool's last failure has elapsed
    coolDowns,     \* history: cooldowns elapsed since the tool's last success
    cache,         \* ToolResultCache::cache
    writes         \* history: writes this run made to each area

stepVars    == <<steps, batch>>
breakerVars == <<failures, cooled, coolDowns>>
vars == <<pc, steps, batch, next, validated, results, answered, allSucceeded, failures,
          cooled, coolDowns, cache, writes>>

(***************************************************************************)
(* Tools and calls                                                         *)
(***************************************************************************)

IsReadOnly(tool) == tool \in {"file_read", "recall"}

Areas == {"files", "memory"}
AreaOf(tool) == IF tool \in {"file_read", "shell"} THEN "files" ELSE "memory"

\* coerce_tool_arguments: the tool is always given the native form.
Coerce(arg) == "native"

\* failed: Ok with success = false, Err, or a permission that is not granted; refused: the
\* user said no at the confirmation; cancelled: the user interrupted the command.
ResultKinds == {"ok", "failed", "refused", "cancelled"}

\* Only tools with Permission::Confirm ask, and only the sandbox reports a cancellation.
ResultsOf(tool) == IF tool = "shell" THEN ResultKinds ELSE {"ok", "failed"}

\* A pending result: whose it is, how it ended, and the version of the area it saw.
Pending == [of : Nat, kind : ResultKinds, version : Nat]

Locations == {"model", "dispatch", "execute", "aborted"}

Init ==
    /\ pc = "model"
    /\ steps = 0
    /\ batch = <<>>
    /\ next = 1
    /\ validated = <<>>
    /\ results = <<>>
    /\ answered = <<>>
    /\ allSucceeded = TRUE
    /\ failures = [t \in Tools |-> 0]
    /\ cooled = [t \in Tools |-> FALSE]
    /\ coolDowns = [t \in Tools |-> 0]
    /\ cache = <<>>
    /\ writes = [a \in Areas |-> 0]

(***************************************************************************)
(* The circuit breaker                                                     *)
(***************************************************************************)

\* Mutant: the threshold itself is still allowed.
IsAvailable_OneMore(tool) == failures[tool] > BreakerThreshold => cooled[tool]

\* CircuitBreaker::is_available.  After the cooldown every call passes, not one probe.
IsAvailable(tool) == failures[tool] >= BreakerThreshold => cooled[tool]

RecordFailure(tool) ==
    /\ failures' = [failures EXCEPT ![tool] = @ + 1]
    /\ cooled' = [cooled EXCEPT ![tool] = FALSE]
    /\ UNCHANGED coolDowns

RecordSuccess(tool) ==
    /\ failures' = [failures EXCEPT ![tool] = 0]
    /\ cooled' = [cooled EXCEPT ![tool] = FALSE]
    /\ coolDowns' = [coolDowns EXCEPT ![tool] = 0]

(***************************************************************************)
(* The cache                                                               *)
(***************************************************************************)

KeyOf(tool, arg) == [tool |-> tool, arg |-> arg]

\* ToolResultCache::put, under the arguments as the model wrote them.  An entry is the
\* version of the area that the tool saw.
Put(call, version) ==
    LET key == KeyOf(call.tool, call.arg)
    IN cache' = [k \in DOMAIN cache \cup {key} |-> IF k = key THEN version ELSE cache[k]]

\* ToolResultCache::get, under the coerced arguments.
Lookup(call) == KeyOf(call.tool, Coerce(call.arg))

\* invalidate("file_read") and invalidate("repo_map").
Invalidate == cache' = [k \in {k \in DOMAIN cache : k.tool # "file_read"} |-> cache[k]]

(***************************************************************************)
(* First phase: the dispatch loop of execute_step                          *)
(***************************************************************************)

\* An output with tool calls was parsed.
ModelCalls ==
    /\ pc = "model"
    /\ steps < MaxSteps
    /\ \E n \in 1 .. MaxBatch : batch' \in [1 .. n -> Calls]
    /\ pc' = "dispatch"
    /\ steps' = steps + 1
    /\ UNCHANGED <<next, validated, results, answered, allSucceeded, breakerVars, cache,
                   writes>>

Dispatching == pc = "dispatch" /\ next <= Len(batch)

\* The step is given up: what was validated before is neither executed nor answered.
LoopDetected ==
    /\ Dispatching
    /\ pc' = "aborted"
    /\ UNCHANGED <<stepVars, next, validated, results, answered, allSucceeded,
                   breakerVars, cache, writes>>

Answer(position) == answered' = Append(answered, position)

\* The breaker refuses an unavailable tool.  Any call may be refused by what follows:
\* the allow list, validate_tool_call (which includes unknown names), the MAGI panel.
Refuse ==
    /\ Dispatching
    /\ Answer(next)
    /\ next' = next + 1
    /\ UNCHANGED <<pc, stepVars, validated, results, allSucceeded, breakerVars, cache,
                   writes>>

Validate ==
    /\ Dispatching
    /\ IsAvailable(batch[next].tool)
    /\ validated' = Append(validated, next)
    /\ next' = next + 1
    /\ UNCHANGED <<pc, stepVars, results, answered, allSucceeded, breakerVars, cache,
                   writes>>

DispatchEnds ==
    /\ pc = "dispatch"
    /\ next > Len(batch)
    /\ pc' = "execute"
    /\ next' = 1
    /\ UNCHANGED <<stepVars, validated, results, answered, allSucceeded, breakerVars,
                   cache, writes>>

(***************************************************************************)
(* Second phase: execute_validated_calls                                   *)
(***************************************************************************)

Executing == pc = "execute" /\ results = <<>> /\ next <= Len(validated)
ValidatedCall(i) == batch[validated[i]]

\* Positions of the read-only calls from next on, up to the next writing call.
ReadBatch ==
    {i \in next .. Len(validated) :
         \A j \in next .. i : IsReadOnly(ValidatedCall(j).tool)}

\* A call of execute_single_call_with_policy that changes nothing.
ReadResult(i) ==
    [of : {validated[i]}, kind : ResultsOf(ValidatedCall(i).tool),
     version : {writes[AreaOf(ValidatedCall(i).tool)]}]

\* Two or more reads: one thread each, the cache is not consulted, the results
\* are joined in the order of the calls.
RunReads ==
    /\ Executing
    /\ Cardinality(ReadBatch) >= 2
    /\ \E rs \in [1 .. Cardinality(ReadBatch) -> UNION {ReadResult(i) : i \in ReadBatch}] :
           /\ \A i \in ReadBatch : rs[i - next + 1] \in ReadResult(i)
           /\ results' = rs
    /\ next' = next + Cardinality(ReadBatch)
    /\ UNCHANGED <<pc, stepVars, validated, answered, allSucceeded, breakerVars, cache,
                   writes>>

\* Mutant: the early continue comes before the message and the next call.
HitCache_Stuck ==
    /\ Executing
    /\ Cardinality(ReadBatch) = 1
    /\ Lookup(ValidatedCall(next)) \in DOMAIN cache
    /\ UNCHANGED <<pc, stepVars, next, validated, results, answered, allSucceeded, breakerVars, cache,
                   writes>>

\* A single read whose coerced arguments are a key of the cache.  Neither the breaker nor
\* the file guard learns of it.
HitCache ==
    /\ Executing
    /\ Cardinality(ReadBatch) = 1
    /\ Lookup(ValidatedCall(next)) \in DOMAIN cache
    /\ Answer(validated[next])
    /\ next' = next + 1
    /\ UNCHANGED <<pc, stepVars, validated, results, allSucceeded, breakerVars, cache,
                   writes>>

RunRead ==
    /\ Executing
    /\ Cardinality(ReadBatch) = 1
    /\ Lookup(ValidatedCall(next)) \notin DOMAIN cache
    /\ \E r \in ReadResult(next) : results' = <<r>>
    /\ next' = next + 1
    /\ UNCHANGED <<pc, stepVars, validated, answered, allSucceeded, breakerVars, cache,
                   writes>>

\* A failing or interrupted command may have changed something; a refused one has not.
RunWrite ==
    /\ Executing
    /\ ~IsReadOnly(ValidatedCall(next).tool)
    /\ LET tool == ValidatedCall(next).tool
       IN \E kind \in ResultsOf(tool) :
              /\ results' = <<[of |-> validated[next], kind |-> kind,
                               version |-> writes[AreaOf(tool)]]>>
              /\ \/ kind # "refused" /\ writes' = [writes EXCEPT ![AreaOf(tool)] = @ + 1]
                 \/ kind # "ok" /\ UNCHANGED writes
    /\ next' = next + 1
    /\ UNCHANGED <<pc, stepVars, validated, answered, allSucceeded, breakerVars, cache>>

\* Mutant: the cache is invalidated only when the write succeeded.
CacheAfter_OnSuccess(call, r) ==
    IF IsReadOnly(call.tool)
    THEN IF r.kind = "ok" THEN Put(call, r.version) ELSE UNCHANGED cache
    ELSE IF r.kind = "ok" THEN Invalidate ELSE UNCHANGED cache

CacheAfter(call, r) ==
    IF IsReadOnly(call.tool)
    THEN IF r.kind = "ok" THEN Put(call, r.version) ELSE UNCHANGED cache
    ELSE Invalidate

\* Mutant: the result that came in last is applied first.
Applied_Latest == Len(results)

\* Which of the collected results is applied next.
Applied == 1

\* apply_tool_result, with the put before it and the invalidation after it.
ApplyResult ==
    /\ results # <<>>
    /\ LET r    == results[Applied]
           call == batch[r.of]
       IN /\ \/ r.kind = "ok" /\ RecordSuccess(call.tool)
             \/ r.kind = "cancelled" /\ UNCHANGED breakerVars
             \/ r.kind \in {"failed", "refused"} /\ RecordFailure(call.tool)
          /\ CacheAfter(call, r)
          /\ allSucceeded' = (allSucceeded /\ r.kind = "ok")
          /\ Answer(r.of)
    /\ results' = SubSeq(results, 1, Applied - 1) \o SubSeq(results, Applied + 1, Len(results))
    /\ UNCHANGED <<pc, stepVars, next, validated, writes>>

Finished == pc = "execute" /\ results = <<>> /\ next > Len(validated)

\* StepOutcome::Continue goes back to the loop; the locals of the step are gone.
StepEnds ==
    /\ Finished
    /\ pc' = "model"
    /\ batch' = <<>>
    /\ next' = 1
    /\ validated' = <<>>
    /\ answered' = <<>>
    /\ allSucceeded' = TRUE
    /\ UNCHANGED <<steps, results, breakerVars, cache, writes>>

(***************************************************************************)
(* The clock and the specification                                         *)
(***************************************************************************)

\* CircuitBreaker::cooldown has elapsed since the last failure of the tool: of interest
\* only when the breaker is open, because every failure starts it again.
CoolDown(tool) ==
    /\ failures[tool] >= BreakerThreshold
    /\ ~cooled[tool]
    /\ coolDowns[tool] < MaxCoolDowns
    /\ cooled' = [cooled EXCEPT ![tool] = TRUE]
    /\ coolDowns' = [coolDowns EXCEPT ![tool] = @ + 1]
    /\ UNCHANGED <<pc, stepVars, next, validated, results, answered, allSucceeded, failures,
                   cache, writes>>

Dispatch == LoopDetected \/ Refuse \/ Validate \/ DispatchEnds
Execute == RunReads \/ HitCache \/ RunRead \/ RunWrite \/ ApplyResult \/ StepEnds

Terminated ==
    /\ pc = "aborted" \/ (pc = "model" /\ steps = MaxSteps)
    /\ UNCHANGED vars

Next == ModelCalls \/ Dispatch \/ Execute \/ (\E t \in Tools : CoolDown(t)) \/ Terminated

\* A step, once begun, runs on: every tool call ends, by its own timeout if need be.
Spec == Init /\ [][Next]_vars /\ WF_vars(Dispatch \/ Execute)

(***************************************************************************)
(* Properties                                                              *)
(***************************************************************************)

Positions == 1 .. MaxBatch

TypeOK ==
    /\ pc \in Locations
    /\ steps \in 0 .. MaxSteps
    /\ batch \in Seq(Calls) /\ Len(batch) <= MaxBatch
    /\ next \in 1 .. MaxBatch + 1
    /\ validated \in Seq(Positions)
    /\ results \in Seq(Pending)
    /\ answered \in Seq(Positions)
    /\ allSucceeded \in BOOLEAN
    /\ failures \in [Tools -> Nat]
    /\ cooled \in [Tools -> BOOLEAN]
    /\ coolDowns \in [Tools -> 0 .. MaxCoolDowns]
    /\ DOMAIN cache \subseteq [tool : Tools, arg : Args]
    /\ \A k \in DOMAIN cache : IsReadOnly(k.tool) /\ cache[k] \in Nat
    /\ writes \in [Areas -> Nat]

\* A step that goes on has answered every call of the model exactly once, although the
\* answers come from five places: the refusals first, then what was executed, in the
\* order in which the model asked (step.rs 276-383, tool_exec.rs 489-631).
EveryCallAnswered ==
    Finished =>
        /\ Len(answered) = Len(batch)
        /\ \A i \in 1 .. Len(batch) : \E j \in 1 .. Len(answered) : answered[j] = i
        /\ SubSeq(answered, Len(batch) - Len(validated) + 1, Len(batch)) = validated

\* Availability is decided before the first call of the batch is executed, so an open
\* breaker does not stop the calls that were validated before it opened; but it lets no
\* more than one batch through for each cooldown (step.rs 276, error_recovery.rs 511).
BreakerContainsFailures ==
    \A t \in Tools :
        failures[t] <= BreakerThreshold - 1 + MaxBatch * (1 + coolDowns[t])

\* Whatever the run itself has written, a cached file is the file as it is: a write that
\* failed half-way or was interrupted also drops the entries (tool_exec.rs 631).
WritePending == results # <<>> /\ ~IsReadOnly(batch[results[1].of].tool)
FileCacheCoherent ==
    ~WritePending =>
        \A k \in DOMAIN cache : AreaOf(k.tool) = "files" => cache[k] = writes["files"]

\* Every batch of calls comes to an end: it is executed or given up.
StepCompletes == pc = "dispatch" ~> pc \in {"model", "aborted"}
===============================================================================
