------------------------------ MODULE AgentLoop ------------------------------
(***************************************************************************)
(* One run of the agent loop: run_agent_loop_with_session (core.rs), the    *)
(* outcome of each step (step.rs), handle_outcome (outcome.rs), and the     *)
(* four mechanisms that decide when to go on, replan or give up:            *)
(*                                                                         *)
(*   - ContinueSite      (error_recovery.rs) failures in a row;             *)
(*   - StallDetector     (state.rs) steps without progress;                 *)
(*   - AdvisorConfig     (model_router.rs) one budget for replanning and    *)
(*                       for self-verification;                             *)
(*   - CriticConfig      (model_router.rs) a second opinion on the answer.  *)
(*                                                                         *)
(* What the model, the tools and the MAGI panel say is nondeterministic.    *)
(* Message texts are abstracted to what the loop tells apart: the content   *)
(* of the last message, which compute_output_hash compares, and how many    *)
(* messages of each kind the loop itself injected.  The dispatch of tool    *)
(* calls is in ToolDispatch, the compaction of messages in Compaction.      *)
(* The run has a MemoryStore: without one the recording calls do nothing.   *)
(***************************************************************************)
EXTENDS Integers, Sequences

CONSTANTS
    MaxIterations,    \* AgentConfig::max_iterations
    MaxRetries,       \* AgentConfig::max_retries
    AdvisorMaxUses,   \* AdvisorConfig::max_uses
    CriticMaxUses,    \* CriticConfig::max_critic_uses
    MaxCalls,         \* bound: tool calls executed in one step
    Contents,         \* bound: contents the last message of a step may have
    ReplanPrompt,     \* the fixed text of RecoveryAction::Replan
    NoContent         \* what StallDetector::new compares the first step with

ASSUME LoopConstants ==
    /\ MaxIterations \in Nat
    /\ MaxRetries \in Nat
    /\ AdvisorMaxUses \in Nat
    /\ CriticMaxUses \in Nat
    /\ MaxCalls \in Nat
    /\ ReplanPrompt \notin Contents
    /\ NoContent \notin Contents \cup {ReplanPrompt}

MAX_CONSECUTIVE_FAILURES == 3   \* error_recovery.rs
STALL_THRESHOLD == 3            \* StallDetector::default

VARIABLES
    pc,                   \* where the run is
    setup,                \* what the configuration and the task fix for the run
    cancelled,            \* CancellationToken, set by another thread
    late,                 \* task_start.elapsed() > task_timeout
    iteration,            \* the for loop's counter
    finalIteration,       \* final_iteration
    outcome,              \* the StepOutcome of the current step
    siteFailures,         \* ContinueSite::consecutive_failures
    consecutiveFailures,  \* LoopState::consecutive_failures, what the audit log is told
    noProgress,           \* StallDetector::no_progress_count
    lastHash,             \* StallDetector::last_output_hash
    advisorUsed,          \* AdvisorConfig::calls_used
    criticUsed,           \* CriticConfig::critic_calls_used
    injected,             \* messages of each kind the loop added to the session
    allTools,             \* length of LoopState::all_tools
    executed,             \* history: tool calls that were executed
    ending,               \* the SessionEnd events emitted
    learned,              \* ExperienceStore::record and record_outcome calls
    result                \* what the caller gets

failureVars  == <<siteFailures, consecutiveFailures>>
stallVars    == <<noProgress, lastHash>>
budgetVars   == <<advisorUsed, criticUsed>>
toolVars     == <<allTools, executed>>
counters     == <<failureVars, stallVars, budgetVars, injected, toolVars>>
endVars      == <<ending, learned, result>>
envVars      == <<cancelled, late>>
vars == <<pc, setup, cancelled, late, iteration, finalIteration, outcome,
          siteFailures, consecutiveFailures, noProgress, lastHash, advisorUsed,
          criticUsed, injected, allTools, executed, ending, learned, result>>

(***************************************************************************)
(* Values                                                                  *)
(***************************************************************************)

\* complex: detect_task_complexity(task_context).  critic: enabled, and what it
\* does when it disagrees.  deadline: task_timeout is set.  heuristics: the run
\* started with heuristics injected from the pool.
Setups == [complex : BOOLEAN, critic : {"off", "inject", "log_only"},
           deadline : BOOLEAN, heuristics : BOOLEAN]

\* "head" is the test of the for loop, "before_step" the middleware hook,
\* "check" the entry of execute_step, "generate" the inference call,
\* "outcome" handle_outcome, "critic" and "verify" its two reviews of an answer.
Locations == {"start", "head", "before_step", "check", "generate", "outcome",
              "critic", "verify", "returned", "error"}

Outcomes ==
    [kind : {"none", "answer"}]
        \cup [kind : {"aborted"}, why : {"cancelled", "retries", "loop"}]
        \cup [kind : {"continue"}, tools : 0 .. MaxCalls, succeeded : BOOLEAN,
              content : Contents]

NoOutcome == [kind |-> "none"]

\* fix: a request to correct a malformed or halted output; replan: the prompt of
\* RecoveryAction::Replan; advice: a replan from the advisor; verification: a
\* self-check from the advisor; critic: a disagreement of the critic.
InjectedKinds == {"fix", "replan", "advice", "verification", "critic"}

Reasons == {"completed", "timeout", "abort", "max_iterations"}
ResultKinds == {"none", "answer", "aborted", "escalated", "stalled",
                "before_step", "timeout", "max_iterations", "error"}
\* The runs that handle_outcome ends, all of them "completed" for the event store.
HandlerEnds == {"answer", "aborted", "escalated", "stalled"}

ReasonOf(kind) ==
    IF kind \in HandlerEnds THEN "completed"
    ELSE IF kind = "before_step" THEN "abort"
    ELSE kind

\* What a SessionEnd event says, and what one run leaves in the experience store
\* and in the heuristics pool.
EndEvents == [reason : Reasons, iterations : 0 .. MaxIterations]
Lessons == [experience : {"success", "insight"}, heuristics : BOOLEAN]

Results == [kind : ResultKinds, iterations : 0 .. MaxIterations, tools : Nat]
NoResult == [kind |-> "none", iterations |-> 0, tools |-> 0]

Init ==
    /\ pc = "start"
    /\ setup \in Setups
    /\ cancelled = FALSE
    /\ late = FALSE
    /\ iteration = 0
    /\ finalIteration = 0
    /\ outcome = NoOutcome
    /\ siteFailures = 0
    /\ consecutiveFailures = 0
    /\ noProgress = 0
    /\ lastHash = NoContent
    /\ advisorUsed = 0
    /\ criticUsed = 0
    /\ injected = [k \in InjectedKinds |-> 0]
    /\ allTools = 0
    /\ executed = 0
    /\ ending = <<>>
    /\ learned = <<>>
    /\ result = NoResult

(***************************************************************************)
(* Decisions                                                               *)
(***************************************************************************)

\* Mutant: the stop is tested one failure too early.
EscalatedRecovery_TooEarly(n) ==
    IF n >= MAX_CONSECUTIVE_FAILURES THEN "explain_and_stop" ELSE "retry"

\* ContinueSite::decide_escalated_recovery after n failures in a row.
EscalatedRecovery(n) ==
    IF n > MAX_CONSECUTIVE_FAILURES THEN "explain_and_stop"
    ELSE IF n = MAX_CONSECUTIVE_FAILURES THEN "replan"
    ELSE "retry"

\* decide_recovery for a malformed output, and the MAGI branch of execute_step:
\* the "attempt" they are given is the iteration of the loop.
MayCorrect(attempt) == attempt < MaxRetries

\* AdvisorConfig::can_advise and CriticConfig::can_critique.
CanAdvise == advisorUsed < AdvisorMaxUses
CanCritique == setup.critic # "off" /\ criticUsed < CriticMaxUses

\* inject_verification_step, apart from the two conditions the environment
\* decides: the answer is not marked as verified, the success rate of earlier
\* verifications does not speak against it.
MayVerify ==
    /\ iteration > 0
    /\ CanAdvise
    /\ setup.complex
    /\ iteration < MaxIterations - 1

\* Mutant: a success does not reset the counter.
FailuresAfterStep_NoReset ==
    IF outcome.succeeded THEN siteFailures ELSE siteFailures + 1

\* ContinueSite::record_failure or record_success of a step that goes on.
FailuresAfterStep == IF outcome.succeeded THEN 0 ELSE siteFailures + 1

\* The message compute_output_hash sees: the replan prompt was just appended.
ContentAfterStep ==
    IF EscalatedRecovery(FailuresAfterStep) = "replan" THEN ReplanPrompt ELSE outcome.content

\* StallDetector::record_step.
NoProgressAfterStep ==
    IF ~outcome.succeeded \/ ContentAfterStep = lastHash THEN noProgress + 1 ELSE 0

Stalled == NoProgressAfterStep >= STALL_THRESHOLD

(***************************************************************************)
(* Leaving the run                                                         *)
(***************************************************************************)

\* Mutant: all_tools is read after it was taken.
Return_AfterTake(kind, reason, iterations, tools) ==
    /\ pc' = "returned"
    /\ result' = [kind |-> kind, iterations |-> iterations, tools |-> 0]
    /\ ending' = Append(ending, [reason |-> reason, iterations |-> iterations])

\* SessionEnd is emitted and the result handed to the caller.
Return(kind, reason, iterations, tools) ==
    /\ pc' = "returned"
    /\ result' = [kind |-> kind, iterations |-> iterations, tools |-> tools]
    /\ ending' = Append(ending, [reason |-> reason, iterations |-> iterations])

\* record_success or record_abort, then record_heuristic_outcomes.
Learn(experience) ==
    learned' = Append(learned, [experience |-> experience,
                                heuristics |-> setup.heuristics])

\* Mutant: a deferred answer does not cost an iteration.
NextIteration_Free == pc' = "head" /\ UNCHANGED <<iteration, endVars>>

NextIteration ==
    /\ pc' = "head"
    /\ iteration' = iteration + 1
    /\ UNCHANGED endVars

Inject(kind) == injected' = [injected EXCEPT ![kind] = @ + 1]

(***************************************************************************)
(* The loop: run_agent_loop_with_session                                   *)
(***************************************************************************)

\* SessionStart and UserMessage are emitted, memories and heuristics injected.
Start ==
    /\ pc = "start"
    /\ pc' = "head"
    /\ UNCHANGED <<setup, envVars, iteration, finalIteration, outcome, counters, endVars>>

\* The for loop is over: nothing is saved and nothing is learned.
IterationsRunOut ==
    /\ pc = "head"
    /\ iteration = MaxIterations
    /\ Return("max_iterations", "max_iterations", finalIteration, allTools)
    /\ UNCHANGED <<setup, envVars, iteration, finalIteration, outcome, counters, learned>>

\* Mutant: the iteration that was not begun is counted.
TimesOut_CountsNext ==
    /\ pc = "head"
    /\ iteration < MaxIterations
    /\ setup.deadline /\ late
    /\ Return("timeout", "timeout", iteration + 1, allTools)
    /\ UNCHANGED <<setup, envVars, iteration, finalIteration, outcome, counters, learned>>

\* The wall-clock deadline is only looked at between iterations.
TimesOut ==
    /\ pc = "head"
    /\ iteration < MaxIterations
    /\ setup.deadline /\ late
    /\ Return("timeout", "timeout", iteration, allTools)
    /\ UNCHANGED <<setup, envVars, iteration, finalIteration, outcome, counters, learned>>

BeginIteration ==
    /\ pc = "head"
    /\ iteration < MaxIterations
    /\ ~(setup.deadline /\ late)
    /\ finalIteration' = iteration + 1
    /\ pc' = "before_step"
    /\ UNCHANGED <<setup, envVars, iteration, outcome, counters, endVars>>

\* Mutant: the early return forgets SessionEnd.
BeforeStepAborts_Silent ==
    /\ pc = "before_step"
    /\ pc' = "returned"
    /\ result' = [kind |-> "before_step", iterations |-> iteration, tools |-> allTools]
    /\ UNCHANGED <<setup, envVars, iteration, finalIteration, outcome, counters, ending,
                   learned>>

\* MiddlewareChain::run_before_step returned a reason: the context does not fit.
BeforeStepAborts ==
    /\ pc = "before_step"
    /\ Return("before_step", "abort", iteration, allTools)
    /\ UNCHANGED <<setup, envVars, iteration, finalIteration, outcome, counters, learned>>

BeforeStepPasses ==
    /\ pc = "before_step"
    /\ pc' = "check"
    /\ UNCHANGED <<setup, envVars, iteration, finalIteration, outcome, counters, endVars>>

(***************************************************************************)
(* One step: execute_step                                                  *)
(***************************************************************************)

\* A cancelled run still books the iteration, and handle_outcome ends it.
EnterStep ==
    /\ pc = "check"
    /\ IF cancelled
       THEN pc' = "outcome" /\ outcome' = [kind |-> "aborted", why |-> "cancelled"]
       ELSE pc' = "generate" /\ UNCHANGED outcome
    /\ UNCHANGED <<setup, envVars, iteration, finalIteration, counters, endVars>>

\* The backend returns Err and `?` leaves the run: no SessionEnd, no record.
GenerateFails ==
    /\ pc = "generate"
    /\ pc' = "error"
    /\ result' = [NoResult EXCEPT !.kind = "error"]
    /\ UNCHANGED <<setup, envVars, iteration, finalIteration, outcome, counters,
                   ending, learned>>

\* The output cannot be parsed, or the MAGI panel halts the final answer: the
\* model is asked to correct it, unless the iteration is past the retry limit.
OutputRejected ==
    /\ pc = "generate"
    /\ pc' = "outcome"
    /\ IF MayCorrect(iteration)
       THEN /\ \E c \in Contents :
                   outcome' = [kind |-> "continue", tools |-> 0, succeeded |-> FALSE,
                               content |-> c]
            /\ Inject("fix")
       ELSE /\ outcome' = [kind |-> "aborted", why |-> "retries"]
            /\ UNCHANGED injected
    /\ UNCHANGED <<setup, envVars, iteration, finalIteration, failureVars, stallVars,
                   budgetVars, toolVars, endVars>>

\* No tool call, and MAGI lets the answer pass (possibly with a warning).
ModelAnswers ==
    /\ pc = "generate"
    /\ pc' = "outcome"
    /\ outcome' = [kind |-> "answer"]
    /\ UNCHANGED <<setup, envVars, iteration, finalIteration, counters, endVars>>

\* LoopDetector fires on one of the calls: none of them is executed.
ToolLoopDetected ==
    /\ pc = "generate"
    /\ pc' = "outcome"
    /\ outcome' = [kind |-> "aborted", why |-> "loop"]
    /\ UNCHANGED <<setup, envVars, iteration, finalIteration, counters, endVars>>

\* n of the calls pass the dispatch and are executed.  When every call was
\* refused, execute_validated_calls runs on an empty list and reports success.
ToolsRun ==
    /\ pc = "generate"
    /\ pc' = "outcome"
    /\ \E n \in 0 .. MaxCalls, ok \in BOOLEAN, c \in Contents :
           /\ n = 0 => ok
           /\ outcome' = [kind |-> "continue", tools |-> n, succeeded |-> ok,
                          content |-> c]
           /\ executed' = executed + n
    /\ UNCHANGED <<setup, envVars, iteration, finalIteration, failureVars, stallVars,
                   budgetVars, injected, allTools, endVars>>

(***************************************************************************)
(* What the step means for the run: handle_outcome                         *)
(***************************************************************************)

AbortHandled ==
    /\ pc = "outcome"
    /\ outcome.kind = "aborted"
    /\ consecutiveFailures' = consecutiveFailures + 1
    /\ siteFailures' = siteFailures + 1
    /\ Learn("insight")
    /\ Return("aborted", "completed", finalIteration, allTools)
    /\ UNCHANGED <<setup, envVars, iteration, finalIteration, outcome, stallVars,
                   budgetVars, injected, toolVars>>

\* Mutant: the early return forgets record_abort.
EscalationStops_Unrecorded ==
    /\ pc = "outcome"
    /\ outcome.kind = "continue"
    /\ ~outcome.succeeded
    /\ EscalatedRecovery(siteFailures + 1) = "explain_and_stop"
    /\ siteFailures' = siteFailures + 1
    /\ consecutiveFailures' = consecutiveFailures + 1
    /\ Return("escalated", "completed", finalIteration, allTools)
    /\ UNCHANGED <<setup, envVars, iteration, finalIteration, outcome, stallVars,
                   budgetVars, injected, toolVars, learned>>

\* Too many failing steps in a row.  The function returns before it adds the
\* tools of this step to all_tools, so the result does not name them.
EscalationStops ==
    /\ pc = "outcome"
    /\ outcome.kind = "continue"
    /\ ~outcome.succeeded
    /\ EscalatedRecovery(siteFailures + 1) = "explain_and_stop"
    /\ siteFailures' = siteFailures + 1
    /\ consecutiveFailures' = consecutiveFailures + 1
    /\ Learn("insight")
    /\ Return("escalated", "completed", finalIteration, allTools)
    /\ UNCHANGED <<setup, envVars, iteration, finalIteration, outcome, stallVars,
                   budgetVars, injected, toolVars>>

\* A step that goes on: the failure counters, the replan prompt of the third
\* failure in a row, the tools, and the stall detector, which may call the
\* advisor or, when its budget is spent, end the run.
StepHandled ==
    /\ pc = "outcome"
    /\ outcome.kind = "continue"
    /\ EscalatedRecovery(FailuresAfterStep) # "explain_and_stop"
    /\ siteFailures' = FailuresAfterStep
    /\ consecutiveFailures' = IF outcome.succeeded THEN 0 ELSE consecutiveFailures + 1
    /\ allTools' = allTools + outcome.tools
    /\ lastHash' = ContentAfterStep
    /\ LET replans == IF EscalatedRecovery(FailuresAfterStep) = "replan" THEN 1 ELSE 0
           advises == Stalled /\ CanAdvise
       IN /\ injected' = [injected EXCEPT !["replan"] = @ + replans,
                                          !["advice"] = @ + IF advises THEN 1 ELSE 0]
          /\ advisorUsed' = IF advises THEN advisorUsed + 1 ELSE advisorUsed
    /\ noProgress' = IF Stalled THEN 0 ELSE NoProgressAfterStep
    /\ IF Stalled /\ ~CanAdvise
       THEN /\ Learn("insight")
            /\ Return("stalled", "completed", finalIteration, allTools + outcome.tools)
            /\ UNCHANGED iteration
       ELSE NextIteration
    /\ UNCHANGED <<setup, envVars, finalIteration, outcome, criticUsed, executed>>

AnswerReceived ==
    /\ pc = "outcome"
    /\ outcome.kind = "answer"
    /\ siteFailures' = 0
    /\ pc' = IF CanCritique THEN "critic" ELSE "verify"
    /\ UNCHANGED <<setup, envVars, iteration, finalIteration, outcome,
                   consecutiveFailures, stallVars, budgetVars, injected, toolVars,
                   endVars>>

\* inject_critic_review: a second inference call.  A failing backend is not
\* counted and lets the answer pass.  A disagreement that is injected costs an
\* iteration, whether or not another one is left.
CriticReplies ==
    /\ pc = "critic"
    /\ \E verdict \in {"agree", "disagree", "uncertain", "backend_error"} :
           /\ criticUsed' = IF verdict = "backend_error" THEN criticUsed ELSE criticUsed + 1
           /\ IF verdict = "disagree" /\ setup.critic = "inject"
              THEN Inject("critic") /\ NextIteration
              ELSE pc' = "verify" /\ UNCHANGED <<iteration, injected, endVars>>
    /\ UNCHANGED <<setup, envVars, finalIteration, outcome, failureVars, stallVars,
                   advisorUsed, toolVars>>

VerificationInjected ==
    /\ pc = "verify"
    /\ MayVerify
    /\ Inject("verification")
    /\ advisorUsed' = advisorUsed + 1
    /\ NextIteration
    /\ UNCHANGED <<setup, envVars, finalIteration, outcome, failureVars, stallVars,
                   criticUsed, toolVars>>

\* No verification: it is not due, the answer is marked as verified, or
\* verification did not pay off in the past.
AnswerAccepted ==
    /\ pc = "verify"
    /\ consecutiveFailures' = 0
    /\ Learn("success")
    /\ Return("answer", "completed", finalIteration, allTools)
    /\ UNCHANGED <<setup, envVars, iteration, finalIteration, outcome, siteFailures,
                   stallVars, budgetVars, injected, toolVars>>

(***************************************************************************)
(* The environment and the specification                                   *)
(***************************************************************************)

Ended == pc \in {"returned", "error"}

\* Ctrl-C, or a parent that gives up on this run.
Cancel ==
    /\ ~Ended
    /\ ~cancelled
    /\ cancelled' = TRUE
    /\ UNCHANGED <<pc, setup, late, iteration, finalIteration, outcome, counters, endVars>>

DeadlinePasses ==
    /\ ~Ended
    /\ setup.deadline
    /\ ~late
    /\ late' = TRUE
    /\ UNCHANGED <<pc, setup, cancelled, iteration, finalIteration, outcome, counters,
                   endVars>>

Loop ==
    \/ Start \/ IterationsRunOut \/ TimesOut \/ BeginIteration
    \/ BeforeStepAborts \/ BeforeStepPasses
    \/ EnterStep \/ GenerateFails \/ OutputRejected \/ ModelAnswers
    \/ ToolLoopDetected \/ ToolsRun
    \/ AbortHandled \/ EscalationStops \/ StepHandled
    \/ AnswerReceived \/ CriticReplies \/ VerificationInjected \/ AnswerAccepted

Terminated == Ended /\ UNCHANGED vars

Next == Loop \/ Cancel \/ DeadlinePasses \/ Terminated

\* The run is one thread: it takes its next step as long as it has one.  The
\* inference call ends because the HTTP client bounds it.
Fairness == WF_vars(Loop)

Spec == Init /\ [][Next]_vars /\ Fairness

(***************************************************************************)
(* Properties                                                              *)
(***************************************************************************)

TypeOK ==
    /\ pc \in Locations
    /\ setup \in Setups
    /\ cancelled \in BOOLEAN
    /\ late \in BOOLEAN
    /\ iteration \in 0 .. MaxIterations
    /\ finalIteration \in 0 .. MaxIterations
    /\ outcome \in Outcomes
    /\ siteFailures \in 0 .. MAX_CONSECUTIVE_FAILURES + 1
    /\ consecutiveFailures \in Nat
    /\ noProgress \in 0 .. STALL_THRESHOLD - 1
    /\ lastHash \in Contents \cup {NoContent, ReplanPrompt}
    /\ advisorUsed \in 0 .. AdvisorMaxUses
    /\ criticUsed \in 0 .. CriticMaxUses
    /\ injected \in [InjectedKinds -> Nat]
    /\ allTools \in Nat
    /\ executed \in Nat
    /\ ending \in Seq(EndEvents)
    /\ learned \in Seq(Lessons)
    /\ result \in Results

\* The event store agrees with the caller: a run that returned has exactly one
\* SessionEnd, with the reason and the iterations of the result; a run that is
\* still going, or that the backend failed, has none (core.rs 201-326).
EndingMatchesResult ==
    ending = IF pc = "returned"
             THEN <<[reason |-> ReasonOf(result.kind), iterations |-> result.iterations]>>
             ELSE <<>>

\* Experience and heuristics are credited once per run, with the sign of the
\* answer, and only for runs that handle_outcome ended: a run stopped by the
\* deadline, by the iteration limit, by the middleware or by the backend leaves
\* its heuristics neither rewarded nor punished (outcome.rs, support.rs).
LearningMatchesResult ==
    learned = IF result.kind \in HandlerEnds
              THEN <<[experience |-> IF result.kind = "answer" THEN "success" ELSE "insight",
                      heuristics |-> setup.heuristics]>>
              ELSE <<>>

\* The ladder of recovery is climbed rung by rung: whoever stops after four
\* failures in a row was asked to replan after the third, and that prompt is what
\* the stall detector compared last (error_recovery.rs 161, outcome.rs 143-168).
ReplanBeforeStop ==
    /\ siteFailures = MAX_CONSECUTIVE_FAILURES /\ ~Ended => lastHash = ReplanPrompt
    /\ result.kind = "escalated" =>
           /\ injected["replan"] > 0
           /\ lastHash = ReplanPrompt
           /\ siteFailures = MAX_CONSECUTIVE_FAILURES + 1
    /\ siteFailures > MAX_CONSECUTIVE_FAILURES => result.kind \in {"escalated", "aborted"}

\* Two components count consecutive failures.  They agree until an answer is
\* deferred: the escalation counter starts again, the one the audit log is told
\* does not, so it never claims fewer failures (outcome.rs 47, 93, 115, 143).
FailureCountersAgree ==
    /\ siteFailures <= consecutiveFailures
    /\ siteFailures < consecutiveFailures /\ pc \notin {"critic", "verify", "returned"}
           => injected["critic"] + injected["verification"] > 0

\* Replanning and self-verification share one budget, each use puts exactly one
\* piece of advice into the session, and the run is cut for a stall only when
\* nothing of it is left (advisor_inject.rs 148-185, 212-276).
AdvisorBudgetSpentOnAdvice ==
    /\ injected["advice"] + injected["verification"] = advisorUsed
    /\ advisorUsed <= AdvisorMaxUses
    /\ result.kind = "stalled" => advisorUsed = AdvisorMaxUses

\* The result names every tool call that was executed, except those of the
\* failing step that made the escalation stop (outcome.rs 150-157, 183).
ToolsAccountedFor ==
    result.kind \notin {"none", "error"} =>
        result.tools = executed - IF result.kind = "escalated" THEN outcome.tools ELSE 0

\* A deferred answer is not thrown away for lack of iterations: self-verification
\* always leaves the model another iteration to answer in (advisor_inject.rs 216).
VerificationLeavesAnIteration ==
    [][injected'["verification"] > injected["verification"] =>
           iteration' < MaxIterations]_vars

\* The run ends whatever the model, the tools, the critic and the clock do.
Terminates == <>Ended

(***************************************************************************)
(* What the run promises to the readers of the event store                 *)
(***************************************************************************)

phase ==
    IF pc = "start" THEN "new"
    ELSE IF pc = "returned" THEN "closed"
    ELSE IF pc = "error" THEN "failed"
    ELSE "open"

Lifecycle == INSTANCE SessionLifecycle WITH steps <- finalIteration

\* Every step of the loop is a step of the lifecycle or leaves it alone.
Implements == Lifecycle!Spec
===============================================================================
