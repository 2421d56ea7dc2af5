--------------------------- MODULE AgentLoopProofs ---------------------------
(***************************************************************************)
(* Proofs about AgentLoop, for every number of iterations, every budget and *)
(* every set of message contents.                                           *)
(***************************************************************************)
EXTENDS AgentLoop, TLAPS

InIteration == {"before_step", "check", "generate", "outcome", "critic", "verify"}

\* Where the run is and what its counters and its result say agree.
Flow ==
    /\ pc \in {"start", "head"} => finalIteration = iteration
    /\ pc \in InIteration => iteration < MaxIterations /\ finalIteration = iteration + 1
    /\ pc = "outcome" => outcome.kind # "none"
    /\ pc = "critic" => CanCritique
    /\ pc \in {"critic", "verify"} => siteFailures = 0
    /\ pc = "returned" <=> result.kind \notin {"none", "error"}
    /\ pc = "error" <=> result.kind = "error"
    /\ ~Ended => siteFailures <= MAX_CONSECUTIVE_FAILURES

TypeInv == TypeOK /\ Flow

-----------------------------------------------------------------------------
(***************************************************************************)
(* The operators that several actions share                                *)
(***************************************************************************)

\* Return ends the run with the result and the SessionEnd event it is given.
LEMMA ReturnFacts ==
  ASSUME TypeInv, NEW kind \in ResultKinds \ {"none", "error"}, NEW reason \in Reasons,
         NEW used \in 0 .. MaxIterations, NEW tools \in Nat,
         Return(kind, reason, used, tools)
  PROVE  /\ pc' = "returned"
         /\ result' \in Results
         /\ result'.kind = kind /\ result'.iterations = used /\ result'.tools = tools
         /\ ending' \in Seq(EndEvents)
         /\ ending = <<>> => ending' = <<[reason |-> reason, iterations |-> used]>>
<1>1. result' = [kind |-> kind, iterations |-> used, tools |-> tools] /\ pc' = "returned"
  BY DEF Return
<1>2. [reason |-> reason, iterations |-> used] \in EndEvents
  BY DEF EndEvents
<1>3. ending \in Seq(EndEvents)
  BY DEF TypeInv, TypeOK
<1>4. ending' = Append(ending, [reason |-> reason, iterations |-> used])
  BY DEF Return
<1>5. ending' \in Seq(EndEvents)
  BY <1>2, <1>3, <1>4
<1>6. ending = <<>> => ending' = <<[reason |-> reason, iterations |-> used]>>
  BY <1>2, <1>4
<1> QED
  BY <1>1, <1>5, <1>6 DEF Results

\* Learn appends one lesson.
LEMMA LearnFacts ==
  ASSUME TypeInv, NEW experience \in {"success", "insight"}, Learn(experience)
  PROVE  /\ learned' \in Seq(Lessons)
         /\ learned = <<>> =>
               learned' = <<[experience |-> experience, heuristics |-> setup.heuristics]>>
<1> DEFINE lesson == [experience |-> experience, heuristics |-> setup.heuristics]
<1>1. setup.heuristics \in BOOLEAN
  BY DEF TypeInv, TypeOK, Setups
<1>2. lesson \in Lessons
  BY <1>1 DEF Lessons
<1>3. learned \in Seq(Lessons) /\ learned' = Append(learned, lesson)
  BY DEF TypeInv, TypeOK, Learn
<1> HIDE DEF lesson
<1>4. learned' \in Seq(Lessons)
  BY <1>2, <1>3
<1>5. learned = <<>> => learned' = <<lesson>>
  BY <1>2, <1>3
<1> QED
  BY <1>4, <1>5 DEF lesson

\* Inject adds one message of its kind.
LEMMA InjectFacts ==
  ASSUME TypeInv, NEW kind \in InjectedKinds, Inject(kind)
  PROVE  /\ injected' \in [InjectedKinds -> Nat]
         /\ injected'[kind] = injected[kind] + 1
         /\ \A k \in InjectedKinds \ {kind} : injected'[k] = injected[k]
  BY DEF TypeInv, TypeOK, Inject

\* A step that is handled may add a replan and an advice, and adds nothing else.
LEMMA CountsAdded ==
  ASSUME NEW f \in [InjectedKinds -> Nat], NEW r \in {0, 1}, NEW a \in {0, 1},
         NEW g, g = [f EXCEPT !["replan"] = @ + r, !["advice"] = @ + a]
  PROVE  /\ g \in [InjectedKinds -> Nat]
         /\ g["verification"] = f["verification"] /\ g["critic"] = f["critic"]
         /\ g["replan"] = f["replan"] + r /\ g["advice"] = f["advice"] + a
<1> DEFINE h == [f EXCEPT !["replan"] = @ + r]
<1>1. f["replan"] + r \in Nat /\ f["advice"] + a \in Nat
  BY DEF InjectedKinds
<1>2. /\ h \in [InjectedKinds -> Nat] /\ h["advice"] = f["advice"]
      /\ h["verification"] = f["verification"] /\ h["critic"] = f["critic"]
      /\ h["replan"] = f["replan"] + r
  BY <1>1 DEF InjectedKinds
<1>3. g = [h EXCEPT !["advice"] = @ + a]
  OBVIOUS
<1> HIDE DEF h
<1> QED
  BY <1>1, <1>2, <1>3 DEF InjectedKinds

\* A step that goes on tells what its calls came to.
LEMMA ContinueFacts ==
  ASSUME NEW o \in Outcomes, o.kind = "continue"
  PROVE  o.tools \in Nat /\ o.succeeded \in BOOLEAN /\ o.content \in Contents
  BY DEF Outcomes

-----------------------------------------------------------------------------
\* The run starts well typed and in a place of its control flow.
LEMMA TypeInvInit == Init => TypeInv
<1> SUFFICES ASSUME Init PROVE TypeInv
  OBVIOUS
<1>1. outcome \in Outcomes
  BY DEF Init, NoOutcome, Outcomes
<1>2. result \in Results
  BY LoopConstants DEF Init, NoResult, Results, ResultKinds
<1>3. injected \in [InjectedKinds -> Nat]
  BY DEF Init
<1>4. ending \in Seq(EndEvents) /\ learned \in Seq(Lessons)
  BY DEF Init
<1>5. TypeOK
  <2>1. /\ pc \in Locations /\ setup \in Setups /\ cancelled \in BOOLEAN /\ late \in BOOLEAN
        /\ lastHash \in Contents \cup {NoContent, ReplanPrompt}
    BY DEF Init, Locations
  <2>2. /\ iteration \in 0 .. MaxIterations /\ finalIteration \in 0 .. MaxIterations
        /\ siteFailures \in 0 .. MAX_CONSECUTIVE_FAILURES + 1
        /\ consecutiveFailures \in Nat /\ noProgress \in 0 .. STALL_THRESHOLD - 1
        /\ advisorUsed \in 0 .. AdvisorMaxUses /\ criticUsed \in 0 .. CriticMaxUses
        /\ allTools \in Nat /\ executed \in Nat
    BY LoopConstants DEF Init, MAX_CONSECUTIVE_FAILURES, STALL_THRESHOLD
  <2> QED
    BY <1>1, <1>2, <1>3, <1>4, <2>1, <2>2 DEF TypeOK
<1>6. Flow
  BY DEF Init, Flow, InIteration, Ended, CanCritique, NoResult, MAX_CONSECUTIVE_FAILURES
<1> QED
  BY <1>5, <1>6 DEF TypeInv

\* No step of the loop leaves the types or the control flow.
LEMMA TypeInvNext == TypeInv /\ [Next]_vars => TypeInv'
<1> SUFFICES ASSUME TypeInv, [Next]_vars PROVE TypeInv'
  OBVIOUS
<1> USE LoopConstants DEF TypeInv, TypeOK, Flow, InIteration, Ended, Locations, CanCritique
<1>1. CASE Start
  BY <1>1 DEF Start, counters, envVars, failureVars, stallVars, budgetVars, toolVars, endVars
<1>2. CASE IterationsRunOut
  <2>1. Return("max_iterations", "max_iterations", finalIteration, allTools)
    BY <1>2 DEF IterationsRunOut
  <2>2. /\ pc' = "returned" /\ result' \in Results /\ result'.kind = "max_iterations"
        /\ ending' \in Seq(EndEvents)
    BY <2>1, ReturnFacts DEF ResultKinds, Reasons
  <2> QED
    BY <1>2, <2>2 DEF IterationsRunOut, counters, envVars, failureVars, stallVars, budgetVars,
                      toolVars, endVars, MAX_CONSECUTIVE_FAILURES
<1>3. CASE TimesOut
  <2>1. Return("timeout", "timeout", iteration, allTools)
    BY <1>3 DEF TimesOut
  <2>2. /\ pc' = "returned" /\ result' \in Results /\ result'.kind = "timeout"
        /\ ending' \in Seq(EndEvents)
    BY <2>1, ReturnFacts DEF ResultKinds, Reasons
  <2> QED
    BY <1>3, <2>2 DEF TimesOut, counters, envVars, failureVars, stallVars, budgetVars, toolVars,
                      endVars, MAX_CONSECUTIVE_FAILURES
<1>4. CASE BeginIteration
  BY <1>4 DEF BeginIteration, counters, envVars, failureVars, stallVars, budgetVars, toolVars,
              endVars
<1>5. CASE BeforeStepAborts
  <2>1. Return("before_step", "abort", iteration, allTools)
    BY <1>5 DEF BeforeStepAborts
  <2>2. /\ pc' = "returned" /\ result' \in Results /\ result'.kind = "before_step"
        /\ ending' \in Seq(EndEvents)
    BY <2>1, ReturnFacts DEF ResultKinds, Reasons
  <2> QED
    BY <1>5, <2>2 DEF BeforeStepAborts, counters, envVars, failureVars, stallVars, budgetVars,
                      toolVars, endVars, MAX_CONSECUTIVE_FAILURES
<1>6. CASE BeforeStepPasses
  BY <1>6 DEF BeforeStepPasses, counters, envVars, failureVars, stallVars, budgetVars, toolVars,
              endVars
<1>7. CASE EnterStep
  BY <1>7 DEF EnterStep, counters, envVars, failureVars, stallVars, budgetVars, toolVars,
              endVars, Outcomes
<1>8. CASE GenerateFails
  <2>1. result' = [kind |-> "error", iterations |-> 0, tools |-> 0]
    BY <1>8 DEF GenerateFails, NoResult
  <2>2. result' \in Results /\ result'.kind = "error"
    BY <2>1 DEF Results, ResultKinds
  <2> QED
    BY <1>8, <2>2 DEF GenerateFails, counters, envVars, failureVars, stallVars, budgetVars,
                      toolVars, endVars
<1>9. CASE OutputRejected
  <2>1. outcome' \in Outcomes /\ outcome'.kind # "none"
    <3>1. CASE MayCorrect(iteration)
      <4>1. PICK c \in Contents :
                outcome' = [kind |-> "continue", tools |-> 0, succeeded |-> FALSE, content |-> c]
        BY <1>9, <3>1 DEF OutputRejected
      <4> QED
        BY <4>1 DEF Outcomes
    <3>2. CASE ~MayCorrect(iteration)
      BY <1>9, <3>2 DEF OutputRejected, Outcomes
    <3> QED
      BY <3>1, <3>2
  <2>2. injected' \in [InjectedKinds -> Nat]
    BY <1>9, InjectFacts DEF OutputRejected, InjectedKinds
  <2> QED
    BY <1>9, <2>1, <2>2 DEF OutputRejected, counters, envVars, failureVars, stallVars,
                            budgetVars, toolVars, endVars
<1>10. CASE ModelAnswers
  BY <1>10 DEF ModelAnswers, counters, envVars, failureVars, stallVars, budgetVars, toolVars,
               endVars, Outcomes
<1>11. CASE ToolLoopDetected
  BY <1>11 DEF ToolLoopDetected, counters, envVars, failureVars, stallVars, budgetVars, toolVars,
               endVars, Outcomes
<1>12. CASE ToolsRun
  <2>1. PICK n \in 0 .. MaxCalls, ok \in BOOLEAN, c \in Contents :
           /\ outcome' = [kind |-> "continue", tools |-> n, succeeded |-> ok, content |-> c]
           /\ executed' = executed + n
    BY <1>12 DEF ToolsRun
  <2>2. outcome' \in Outcomes /\ outcome'.kind # "none"
    BY <2>1 DEF Outcomes
  <2> QED
    BY <1>12, <2>1, <2>2 DEF ToolsRun, counters, envVars, failureVars, stallVars, budgetVars,
                             toolVars, endVars
<1>13. CASE AbortHandled
  <2>1. Return("aborted", "completed", finalIteration, allTools)
    BY <1>13 DEF AbortHandled
  <2>2. /\ pc' = "returned" /\ result' \in Results /\ result'.kind = "aborted"
        /\ ending' \in Seq(EndEvents)
    BY <2>1, ReturnFacts DEF ResultKinds, Reasons
  <2>3. learned' \in Seq(Lessons)
    BY <1>13, LearnFacts DEF AbortHandled
  <2> QED
    BY <1>13, <2>2, <2>3 DEF AbortHandled, counters, envVars, failureVars, stallVars, budgetVars,
                             toolVars, endVars, MAX_CONSECUTIVE_FAILURES
<1>14. CASE EscalationStops
  <2>1. Return("escalated", "completed", finalIteration, allTools)
    BY <1>14 DEF EscalationStops
  <2>2. /\ pc' = "returned" /\ result' \in Results /\ result'.kind = "escalated"
        /\ ending' \in Seq(EndEvents)
    BY <2>1, ReturnFacts DEF ResultKinds, Reasons
  <2>3. learned' \in Seq(Lessons)
    BY <1>14, LearnFacts DEF EscalationStops
  <2> QED
    BY <1>14, <2>2, <2>3 DEF EscalationStops, counters, envVars, failureVars, stallVars,
                             budgetVars, toolVars, endVars, MAX_CONSECUTIVE_FAILURES,
                             EscalatedRecovery
<1>15. CASE StepHandled
  <2>1. /\ outcome.kind = "continue"
        /\ outcome.tools \in Nat /\ outcome.succeeded \in BOOLEAN /\ outcome.content \in Contents
    <3>1. outcome \in Outcomes /\ outcome.kind = "continue"
      BY <1>15 DEF StepHandled
    <3> QED
      BY <3>1, ContinueFacts
  <2>20. /\ EscalatedRecovery(FailuresAfterStep) # "explain_and_stop"
         /\ siteFailures' = FailuresAfterStep
         /\ consecutiveFailures' = IF outcome.succeeded THEN 0 ELSE consecutiveFailures + 1
         /\ allTools' = allTools + outcome.tools
    BY <1>15 DEF StepHandled
  <2>2. siteFailures' \in 0 .. MAX_CONSECUTIVE_FAILURES
    BY <2>1, <2>20 DEF FailuresAfterStep, EscalatedRecovery, MAX_CONSECUTIVE_FAILURES
  <2>3. consecutiveFailures' \in Nat /\ allTools' \in Nat
    BY <2>1, <2>20
  <2>4. lastHash' \in Contents \cup {NoContent, ReplanPrompt}
    BY <1>15, <2>1 DEF StepHandled, ContentAfterStep
  <2>5. noProgress' \in 0 .. STALL_THRESHOLD - 1
    BY <1>15 DEF StepHandled, Stalled, NoProgressAfterStep, STALL_THRESHOLD
  <2>6. advisorUsed' \in 0 .. AdvisorMaxUses
    BY <1>15 DEF StepHandled, CanAdvise
  <2>7. injected' \in [InjectedKinds -> Nat]
    <3>1. PICK r \in {0, 1}, a \in {0, 1} :
              injected' = [injected EXCEPT !["replan"] = @ + r, !["advice"] = @ + a]
      BY <1>15 DEF StepHandled
    <3>2. injected \in [InjectedKinds -> Nat]
      BY DEF TypeInv, TypeOK
    <3> QED
      BY <3>1, <3>2, CountsAdded
  <2>10. /\ pc = "outcome" /\ outcome' = outcome /\ finalIteration' = finalIteration
         /\ UNCHANGED <<setup, cancelled, late, criticUsed, executed>>
    BY <1>15 DEF StepHandled, envVars
  <2>8. CASE Stalled /\ ~CanAdvise
    <3>1. /\ Return("stalled", "completed", finalIteration, allTools + outcome.tools)
          /\ Learn("insight") /\ iteration' = iteration
      BY <1>15, <2>8 DEF StepHandled
    <3>2. /\ pc' = "returned" /\ result' \in Results /\ result'.kind = "stalled"
          /\ ending' \in Seq(EndEvents)
      <4>1. allTools + outcome.tools \in Nat
        BY <2>1
      <4> QED
        BY <3>1, <4>1, ReturnFacts DEF ResultKinds, Reasons
    <3>3. learned' \in Seq(Lessons)
      BY <3>1, LearnFacts
    <3> QED
      BY <2>2, <2>3, <2>4, <2>5, <2>6, <2>7, <2>10, <3>1, <3>2, <3>3
         DEF MAX_CONSECUTIVE_FAILURES
  <2>9. CASE ~(Stalled /\ ~CanAdvise)
    <3>1. NextIteration
      BY <1>15, <2>9 DEF StepHandled
    <3>2. /\ pc' = "head" /\ iteration' = iteration + 1
          /\ UNCHANGED <<ending, learned, result>>
      BY <3>1 DEF NextIteration, endVars
    <3> QED
      BY <2>2, <2>3, <2>4, <2>5, <2>6, <2>7, <2>10, <3>2 DEF MAX_CONSECUTIVE_FAILURES
  <2> QED
    BY <2>8, <2>9
<1>16. CASE AnswerReceived
  BY <1>16 DEF AnswerReceived, counters, envVars, failureVars, stallVars, budgetVars, toolVars,
               endVars, MAX_CONSECUTIVE_FAILURES
<1>17. CASE CriticReplies
  <2>1. criticUsed' = criticUsed \/ criticUsed' = criticUsed + 1
    BY <1>17 DEF CriticReplies
  <2>2. CASE NextIteration /\ Inject("critic")
    <3>1. injected' \in [InjectedKinds -> Nat]
      BY <2>2, InjectFacts DEF InjectedKinds
    <3> QED
      BY <1>17, <2>1, <2>2, <3>1 DEF CriticReplies, NextIteration, counters, envVars,
                                     failureVars, stallVars, budgetVars, toolVars, endVars
  <2>3. CASE pc' = "verify" /\ UNCHANGED <<iteration, injected, endVars>>
    BY <1>17, <2>1, <2>3 DEF CriticReplies, counters, envVars, failureVars, stallVars,
                             budgetVars, toolVars, endVars
  <2> QED
    BY <1>17, <2>2, <2>3 DEF CriticReplies
<1>18. CASE VerificationInjected
  <2>1. injected' \in [InjectedKinds -> Nat]
    BY <1>18, InjectFacts DEF VerificationInjected, InjectedKinds
  <2> QED
    BY <1>18, <2>1 DEF VerificationInjected, MayVerify, CanAdvise, NextIteration, counters,
                       envVars, failureVars, stallVars, budgetVars, toolVars, endVars
<1>19. CASE AnswerAccepted
  <2>1. Return("answer", "completed", finalIteration, allTools)
    BY <1>19 DEF AnswerAccepted
  <2>2. /\ pc' = "returned" /\ result' \in Results /\ result'.kind = "answer"
        /\ ending' \in Seq(EndEvents)
    BY <2>1, ReturnFacts DEF ResultKinds, Reasons
  <2>3. learned' \in Seq(Lessons)
    BY <1>19, LearnFacts DEF AnswerAccepted
  <2> QED
    BY <1>19, <2>2, <2>3 DEF AnswerAccepted, counters, envVars, failureVars, stallVars,
                             budgetVars, toolVars, endVars, MAX_CONSECUTIVE_FAILURES
<1>20. CASE Cancel
  BY <1>20 DEF Cancel, counters, envVars, failureVars, stallVars, budgetVars, toolVars, endVars
<1>21. CASE DeadlinePasses
  BY <1>21 DEF DeadlinePasses, counters, envVars, failureVars, stallVars, budgetVars, toolVars,
               endVars
<1>22. CASE UNCHANGED vars
  BY <1>22 DEF vars
<1> QED
  BY <1>1, <1>2, <1>3, <1>4, <1>5, <1>6, <1>7, <1>8, <1>9, <1>10, <1>11, <1>12, <1>13, <1>14,
     <1>15, <1>16, <1>17, <1>18, <1>19, <1>20, <1>21, <1>22 DEF Next, Loop, Terminated

-----------------------------------------------------------------------------
(***************************************************************************)
(* The event store and the experience store agree with the result          *)
(***************************************************************************)

Records == EndingMatchesResult /\ LearningMatchesResult

\* A run that has not ended has emitted and recorded nothing yet.
LEMMA NothingRecordedYet ==
  ASSUME TypeInv, Records, ~Ended
  PROVE  ending = <<>> /\ learned = <<>>
  BY DEF TypeInv, TypeOK, Flow, Records, EndingMatchesResult, LearningMatchesResult, Ended,
     Locations, Results, ResultKinds, HandlerEnds

\* SessionEnd, the lessons and the result stay in agreement in every step.
LEMMA RecordsNext == TypeInv /\ TypeInv' /\ Records /\ [Next]_vars => Records'
<1> SUFFICES ASSUME TypeInv, TypeInv', Records, [Next]_vars PROVE Records'
  OBVIOUS
<1> USE DEF Records, EndingMatchesResult, LearningMatchesResult
<1>1. CASE Start
  BY <1>1 DEF Start, NextIteration, endVars
<1>2. CASE BeginIteration
  BY <1>2 DEF BeginIteration, NextIteration, endVars
<1>3. CASE BeforeStepPasses
  BY <1>3 DEF BeforeStepPasses, NextIteration, endVars
<1>4. CASE EnterStep
  BY <1>4 DEF EnterStep, NextIteration, endVars
<1>5. CASE OutputRejected
  BY <1>5 DEF OutputRejected, NextIteration, endVars
<1>6. CASE ModelAnswers
  BY <1>6 DEF ModelAnswers, NextIteration, endVars
<1>7. CASE ToolLoopDetected
  BY <1>7 DEF ToolLoopDetected, NextIteration, endVars
<1>8. CASE ToolsRun
  BY <1>8 DEF ToolsRun, NextIteration, endVars
<1>9. CASE AnswerReceived
  BY <1>9 DEF AnswerReceived, NextIteration, endVars
<1>10. CASE CriticReplies
  BY <1>10 DEF CriticReplies, NextIteration, endVars
<1>11. CASE VerificationInjected
  BY <1>11 DEF VerificationInjected, NextIteration, endVars
<1>12. CASE Cancel
  BY <1>12 DEF Cancel, NextIteration, endVars
<1>13. CASE DeadlinePasses
  BY <1>13 DEF DeadlinePasses, NextIteration, endVars
<1>14. CASE GenerateFails
  <2>1. result'.kind = "error" /\ UNCHANGED <<setup, ending, learned>> /\ pc' = "error"
    BY <1>14 DEF GenerateFails, NoResult
  <2> QED
    BY <1>14, <2>1, NothingRecordedYet DEF GenerateFails, Ended, HandlerEnds
<1>15. CASE IterationsRunOut
  <2>1. /\ ~Ended /\ UNCHANGED setup
        /\ Return("max_iterations", "max_iterations", finalIteration, allTools)
        /\ UNCHANGED learned
    BY <1>15 DEF IterationsRunOut, Ended
  <2>2. ending = <<>> /\ learned = <<>>
    BY <2>1, NothingRecordedYet
  <2>3. /\ pc' = "returned" /\ result'.kind = "max_iterations" /\ result'.iterations = finalIteration
        /\ ending' = <<[reason |-> "max_iterations", iterations |-> finalIteration]>>
    BY <2>1, <2>2, ReturnFacts DEF TypeInv, TypeOK, ResultKinds, Reasons
  <2>4. learned' = <<>>
    BY <2>1, <2>2
  <2> QED
    BY <2>1, <2>3, <2>4 DEF ReasonOf, HandlerEnds
<1>16. CASE TimesOut
  <2>1. /\ ~Ended /\ UNCHANGED setup
        /\ Return("timeout", "timeout", iteration, allTools)
        /\ UNCHANGED learned
    BY <1>16 DEF TimesOut, Ended
  <2>2. ending = <<>> /\ learned = <<>>
    BY <2>1, NothingRecordedYet
  <2>3. /\ pc' = "returned" /\ result'.kind = "timeout" /\ result'.iterations = iteration
        /\ ending' = <<[reason |-> "timeout", iterations |-> iteration]>>
    BY <2>1, <2>2, ReturnFacts DEF TypeInv, TypeOK, ResultKinds, Reasons
  <2>4. learned' = <<>>
    BY <2>1, <2>2
  <2> QED
    BY <2>1, <2>3, <2>4 DEF ReasonOf, HandlerEnds
<1>17. CASE BeforeStepAborts
  <2>1. /\ ~Ended /\ UNCHANGED setup
        /\ Return("before_step", "abort", iteration, allTools)
        /\ UNCHANGED learned
    BY <1>17 DEF BeforeStepAborts, Ended
  <2>2. ending = <<>> /\ learned = <<>>
    BY <2>1, NothingRecordedYet
  <2>3. /\ pc' = "returned" /\ result'.kind = "before_step" /\ result'.iterations = iteration
        /\ ending' = <<[reason |-> "abort", iterations |-> iteration]>>
    BY <2>1, <2>2, ReturnFacts DEF TypeInv, TypeOK, ResultKinds, Reasons
  <2>4. learned' = <<>>
    BY <2>1, <2>2
  <2> QED
    BY <2>1, <2>3, <2>4 DEF ReasonOf, HandlerEnds
<1>18. CASE AbortHandled
  <2>1. /\ ~Ended /\ UNCHANGED setup
        /\ Return("aborted", "completed", finalIteration, allTools)
        /\ Learn("insight")
    BY <1>18 DEF AbortHandled, Ended
  <2>2. ending = <<>> /\ learned = <<>>
    BY <2>1, NothingRecordedYet
  <2>3. /\ pc' = "returned" /\ result'.kind = "aborted" /\ result'.iterations = finalIteration
        /\ ending' = <<[reason |-> "completed", iterations |-> finalIteration]>>
    BY <2>1, <2>2, ReturnFacts DEF TypeInv, TypeOK, ResultKinds, Reasons
  <2>4. learned' = <<[experience |-> "insight", heuristics |-> setup.heuristics]>>
    BY <2>1, <2>2, LearnFacts
  <2> QED
    BY <2>1, <2>3, <2>4 DEF ReasonOf, HandlerEnds
<1>19. CASE EscalationStops
  <2>1. /\ ~Ended /\ UNCHANGED setup
        /\ Return("escalated", "completed", finalIteration, allTools)
        /\ Learn("insight")
    BY <1>19 DEF EscalationStops, Ended
  <2>2. ending = <<>> /\ learned = <<>>
    BY <2>1, NothingRecordedYet
  <2>3. /\ pc' = "returned" /\ result'.kind = "escalated" /\ result'.iterations = finalIteration
        /\ ending' = <<[reason |-> "completed", iterations |-> finalIteration]>>
    BY <2>1, <2>2, ReturnFacts DEF TypeInv, TypeOK, ResultKinds, Reasons
  <2>4. learned' = <<[experience |-> "insight", heuristics |-> setup.heuristics]>>
    BY <2>1, <2>2, LearnFacts
  <2> QED
    BY <2>1, <2>3, <2>4 DEF ReasonOf, HandlerEnds
<1>20. CASE AnswerAccepted
  <2>1. /\ ~Ended /\ UNCHANGED setup
        /\ Return("answer", "completed", finalIteration, allTools)
        /\ Learn("success")
    BY <1>20 DEF AnswerAccepted, Ended
  <2>2. ending = <<>> /\ learned = <<>>
    BY <2>1, NothingRecordedYet
  <2>3. /\ pc' = "returned" /\ result'.kind = "answer" /\ result'.iterations = finalIteration
        /\ ending' = <<[reason |-> "completed", iterations |-> finalIteration]>>
    BY <2>1, <2>2, ReturnFacts DEF TypeInv, TypeOK, ResultKinds, Reasons
  <2>4. learned' = <<[experience |-> "success", heuristics |-> setup.heuristics]>>
    BY <2>1, <2>2, LearnFacts
  <2> QED
    BY <2>1, <2>3, <2>4 DEF ReasonOf, HandlerEnds
<1>21. CASE StepHandled
  <2>1. CASE Stalled /\ ~CanAdvise
    <3>1. /\ ~Ended /\ UNCHANGED setup
          /\ Return("stalled", "completed", finalIteration, allTools + outcome.tools)
          /\ Learn("insight")
      BY <1>21, <2>1 DEF StepHandled, Ended
    <3>2. ending = <<>> /\ learned = <<>>
      BY <3>1, NothingRecordedYet
    <3>3. allTools + outcome.tools \in Nat /\ finalIteration \in 0 .. MaxIterations
      BY <1>21 DEF StepHandled, TypeInv, TypeOK, Outcomes
    <3>4. /\ pc' = "returned" /\ result'.kind = "stalled" /\ result'.iterations = finalIteration
          /\ ending' = <<[reason |-> "completed", iterations |-> finalIteration]>>
      BY <3>1, <3>2, <3>3, ReturnFacts DEF ResultKinds, Reasons
    <3>5. learned' = <<[experience |-> "insight", heuristics |-> setup.heuristics]>>
      BY <3>1, <3>2, LearnFacts
    <3> QED
      BY <3>1, <3>4, <3>5 DEF ReasonOf, HandlerEnds
  <2>2. CASE ~(Stalled /\ ~CanAdvise)
    BY <1>21, <2>2 DEF StepHandled, NextIteration, endVars
  <2> QED
    BY <2>1, <2>2
<1>22. CASE UNCHANGED vars
  BY <1>22 DEF vars
<1> QED
  BY <1>1, <1>2, <1>3, <1>4, <1>5, <1>6, <1>7, <1>8, <1>9, <1>10, <1>11, <1>12, <1>13, <1>14,
     <1>15, <1>16, <1>17, <1>18, <1>19, <1>20, <1>21, <1>22 DEF Next, Loop, Terminated

-----------------------------------------------------------------------------
(***************************************************************************)
(* Counters and budgets                                                    *)
(***************************************************************************)

\* After the third failure in a row the session holds a replan prompt.
Ladder ==
    /\ ReplanBeforeStop
    /\ siteFailures = MAX_CONSECUTIVE_FAILURES /\ ~Ended => injected["replan"] > 0

\* Tools that were executed and are not in all_tools yet.
Pending == IF pc = "outcome" /\ outcome.kind = "continue" THEN outcome.tools ELSE 0

Tools ==
    /\ ToolsAccountedFor
    /\ ~Ended => executed = allTools + Pending

\* The ladder of recovery is climbed one rung in a step, or left from the top.
LEMMA LadderNext == TypeInv /\ TypeInv' /\ Ladder /\ [Next]_vars => Ladder'
<1> SUFFICES ASSUME TypeInv, TypeInv', Ladder, [Next]_vars PROVE Ladder'
  OBVIOUS
<1> USE DEF Ladder, ReplanBeforeStop, Ended
<1>1. CASE Start
  BY <1>1 DEF Start, counters, failureVars, stallVars, budgetVars, toolVars, endVars, NoResult
<1>2. CASE BeginIteration
  BY <1>2 DEF BeginIteration, counters, failureVars, stallVars, budgetVars, toolVars, endVars,
              NoResult
<1>3. CASE BeforeStepPasses
  BY <1>3 DEF BeforeStepPasses, counters, failureVars, stallVars, budgetVars, toolVars, endVars,
              NoResult
<1>4. CASE EnterStep
  BY <1>4 DEF EnterStep, counters, failureVars, stallVars, budgetVars, toolVars, endVars,
              NoResult
<1>5. CASE GenerateFails
  <2>1. result'.kind = "error" /\ pc' = "error" /\ UNCHANGED counters
    BY <1>5 DEF GenerateFails, NoResult
  <2> QED
    BY <1>5, <2>1 DEF GenerateFails, counters, failureVars, stallVars, TypeInv, Flow
<1>6. CASE ModelAnswers
  BY <1>6 DEF ModelAnswers, counters, failureVars, stallVars, budgetVars, toolVars, endVars,
              NoResult
<1>7. CASE ToolLoopDetected
  BY <1>7 DEF ToolLoopDetected, counters, failureVars, stallVars, budgetVars, toolVars, endVars,
              NoResult
<1>8. CASE ToolsRun
  BY <1>8 DEF ToolsRun, counters, failureVars, stallVars, budgetVars, toolVars, endVars, NoResult
<1>9. CASE Cancel
  BY <1>9 DEF Cancel, counters, failureVars, stallVars, budgetVars, toolVars, endVars, NoResult
<1>10. CASE DeadlinePasses
  BY <1>10 DEF DeadlinePasses, counters, failureVars, stallVars, budgetVars, toolVars, endVars,
               NoResult
<1>11. CASE IterationsRunOut
  BY <1>11 DEF IterationsRunOut, counters, failureVars, stallVars, budgetVars, toolVars, endVars,
               Return, TypeInv, TypeOK, Flow, MAX_CONSECUTIVE_FAILURES, EscalatedRecovery,
               Inject, NextIteration, InjectedKinds
<1>12. CASE TimesOut
  BY <1>12 DEF TimesOut, counters, failureVars, stallVars, budgetVars, toolVars, endVars, Return,
               TypeInv, TypeOK, Flow, MAX_CONSECUTIVE_FAILURES, EscalatedRecovery, Inject,
               NextIteration, InjectedKinds
<1>13. CASE BeforeStepAborts
  BY <1>13 DEF BeforeStepAborts, counters, failureVars, stallVars, budgetVars, toolVars, endVars,
               Return, TypeInv, TypeOK, Flow, MAX_CONSECUTIVE_FAILURES, EscalatedRecovery,
               Inject, NextIteration, InjectedKinds
<1>14. CASE AnswerAccepted
  BY <1>14 DEF AnswerAccepted, counters, failureVars, stallVars, budgetVars, toolVars, endVars,
               Return, TypeInv, TypeOK, Flow, MAX_CONSECUTIVE_FAILURES, EscalatedRecovery,
               Inject, NextIteration, InjectedKinds
<1>15. CASE AbortHandled
  <2>1. Return("aborted", "completed", finalIteration, allTools)
    BY <1>15 DEF AbortHandled
  <2>2. pc' = "returned" /\ result'.kind = "aborted"
    BY <2>1 DEF Return
  <2> QED
    BY <1>15, <2>2 DEF AbortHandled, TypeInv, TypeOK
<1>16. CASE EscalationStops
  BY <1>16 DEF EscalationStops, counters, failureVars, stallVars, budgetVars, toolVars, endVars,
               Return, TypeInv, TypeOK, Flow, MAX_CONSECUTIVE_FAILURES, EscalatedRecovery,
               Inject, NextIteration, InjectedKinds
<1>17. CASE AnswerReceived
  BY <1>17 DEF AnswerReceived, counters, failureVars, stallVars, budgetVars, toolVars, endVars,
               Return, TypeInv, TypeOK, Flow, MAX_CONSECUTIVE_FAILURES, EscalatedRecovery,
               Inject, NextIteration, InjectedKinds
<1>18. CASE OutputRejected
  BY <1>18 DEF OutputRejected, counters, failureVars, stallVars, budgetVars, toolVars, endVars,
               Return, TypeInv, TypeOK, Flow, MAX_CONSECUTIVE_FAILURES, EscalatedRecovery,
               Inject, NextIteration, InjectedKinds
<1>19. CASE CriticReplies
  BY <1>19 DEF CriticReplies, counters, failureVars, stallVars, budgetVars, toolVars, endVars,
               Return, TypeInv, TypeOK, Flow, MAX_CONSECUTIVE_FAILURES, EscalatedRecovery,
               Inject, NextIteration, InjectedKinds
<1>20. CASE VerificationInjected
  BY <1>20 DEF VerificationInjected, counters, failureVars, stallVars, budgetVars, toolVars,
               endVars, Return, TypeInv, TypeOK, Flow, MAX_CONSECUTIVE_FAILURES,
               EscalatedRecovery, Inject, NextIteration, InjectedKinds
<1>21. CASE StepHandled
  <2>1. /\ EscalatedRecovery(FailuresAfterStep) # "explain_and_stop"
        /\ siteFailures' = FailuresAfterStep
        /\ lastHash' = ContentAfterStep
        /\ FailuresAfterStep \in Nat
    BY <1>21 DEF StepHandled, FailuresAfterStep, TypeInv, TypeOK
  <2>2. PICK r \in {0, 1}, a \in {0, 1} :
            /\ EscalatedRecovery(FailuresAfterStep) = "replan" => r = 1
            /\ injected' = [injected EXCEPT !["replan"] = @ + r, !["advice"] = @ + a]
    BY <1>21 DEF StepHandled
  <2>3. siteFailures' <= MAX_CONSECUTIVE_FAILURES
    BY <2>1 DEF EscalatedRecovery, MAX_CONSECUTIVE_FAILURES
  <2>4. ASSUME siteFailures' = MAX_CONSECUTIVE_FAILURES
        PROVE  lastHash' = ReplanPrompt /\ injected'["replan"] > 0
    <3>1. EscalatedRecovery(FailuresAfterStep) = "replan"
      BY <2>1, <2>4 DEF EscalatedRecovery, MAX_CONSECUTIVE_FAILURES
    <3>2. injected'["replan"] = injected["replan"] + 1 /\ injected["replan"] \in Nat
      BY <2>2, <3>1 DEF InjectedKinds, TypeInv, TypeOK
    <3> QED
      BY <2>1, <3>1, <3>2 DEF ContentAfterStep
  <2>5. result'.kind # "escalated"
    BY <1>21 DEF StepHandled, Return, NextIteration, endVars, TypeInv, Flow, Ended
  <2> QED
    BY <2>1, <2>3, <2>4, <2>5 DEF MAX_CONSECUTIVE_FAILURES
<1>22. CASE UNCHANGED vars
  BY <1>22 DEF vars
<1> QED
  BY <1>1, <1>2, <1>3, <1>4, <1>5, <1>6, <1>7, <1>8, <1>9, <1>10, <1>11, <1>12, <1>13, <1>14,
     <1>15, <1>16, <1>17, <1>18, <1>19, <1>20, <1>21, <1>22 DEF Next, Loop, Terminated

\* The two counters of failures move together except where an answer is deferred.
LEMMA CountersAgreeNext == TypeInv /\ FailureCountersAgree /\ [Next]_vars => FailureCountersAgree'
<1> SUFFICES ASSUME TypeInv, FailureCountersAgree, [Next]_vars PROVE FailureCountersAgree'
  OBVIOUS
<1>0. /\ injected \in [InjectedKinds -> Nat]
      /\ injected["critic"] \in Nat /\ injected["verification"] \in Nat
      /\ siteFailures \in Nat /\ consecutiveFailures \in Nat
      /\ Flow
  BY DEF TypeInv, TypeOK, InjectedKinds, MAX_CONSECUTIVE_FAILURES
<1> USE <1>0 DEF FailureCountersAgree
<1>1. CASE Start
  BY <1>1 DEF Start, counters, failureVars, Return
<1>2. CASE IterationsRunOut
  BY <1>2 DEF IterationsRunOut, counters, failureVars, Return
<1>3. CASE TimesOut
  BY <1>3 DEF TimesOut, counters, failureVars, Return
<1>4. CASE BeginIteration
  BY <1>4 DEF BeginIteration, counters, failureVars, Return
<1>5. CASE BeforeStepAborts
  BY <1>5 DEF BeforeStepAborts, counters, failureVars, Return
<1>6. CASE BeforeStepPasses
  BY <1>6 DEF BeforeStepPasses, counters, failureVars, Return
<1>7. CASE EnterStep
  BY <1>7 DEF EnterStep, counters, failureVars, Return
<1>8. CASE GenerateFails
  BY <1>8 DEF GenerateFails, counters, failureVars, Return
<1>9. CASE OutputRejected
  <2>1. /\ injected'["critic"] = injected["critic"]
        /\ injected'["verification"] = injected["verification"]
    BY <1>9, InjectFacts DEF OutputRejected, InjectedKinds
  <2> QED
    BY <1>9, <2>1 DEF OutputRejected, failureVars
<1>10. CASE ModelAnswers
  BY <1>10 DEF ModelAnswers, counters, failureVars, Return
<1>11. CASE ToolLoopDetected
  BY <1>11 DEF ToolLoopDetected, counters, failureVars, Return
<1>12. CASE ToolsRun
  BY <1>12 DEF ToolsRun, counters, failureVars, Return
<1>13. CASE AbortHandled
  BY <1>13 DEF AbortHandled, counters, failureVars, Return
<1>14. CASE EscalationStops
  BY <1>14 DEF EscalationStops, counters, failureVars, Return
<1>15. CASE StepHandled
  <2>1. PICK r \in {0, 1}, a \in {0, 1} :
            injected' = [injected EXCEPT !["replan"] = @ + r, !["advice"] = @ + a]
    BY <1>15 DEF StepHandled
  <2>2. /\ injected'["critic"] = injected["critic"]
        /\ injected'["verification"] = injected["verification"]
    BY <2>1 DEF InjectedKinds
  <2>3. /\ siteFailures' = IF outcome.succeeded THEN 0 ELSE siteFailures + 1
        /\ consecutiveFailures' = IF outcome.succeeded THEN 0 ELSE consecutiveFailures + 1
        /\ pc = "outcome"
    BY <1>15 DEF StepHandled, FailuresAfterStep
  <2> QED
    BY <2>2, <2>3
<1>16. CASE AnswerReceived
  BY <1>16 DEF AnswerReceived, counters, failureVars, Return
<1>17. CASE CriticReplies
  <2>1. CASE NextIteration /\ Inject("critic")
    <3>1. /\ injected'["critic"] = injected["critic"] + 1
          /\ injected'["verification"] = injected["verification"]
      BY <2>1, InjectFacts DEF InjectedKinds
    <3>2. /\ injected'["critic"] + injected'["verification"] > 0
          /\ UNCHANGED <<siteFailures, consecutiveFailures>>
      <4>1. UNCHANGED <<siteFailures, consecutiveFailures>>
        BY <1>17 DEF CriticReplies, failureVars
      <4> QED
        BY <3>1, <4>1
    <3> QED
      BY <3>2
  <2>2. CASE pc' = "verify" /\ UNCHANGED <<iteration, injected, endVars>>
    BY <1>17, <2>2 DEF CriticReplies, failureVars
  <2> QED
    BY <1>17, <2>1, <2>2 DEF CriticReplies
<1>18. CASE VerificationInjected
  <2>1. /\ injected'["verification"] = injected["verification"] + 1
        /\ injected'["critic"] = injected["critic"]
    BY <1>18, InjectFacts DEF VerificationInjected, InjectedKinds
  <2>2. /\ injected'["critic"] + injected'["verification"] > 0
        /\ UNCHANGED <<siteFailures, consecutiveFailures>>
    <3>1. UNCHANGED <<siteFailures, consecutiveFailures>>
      BY <1>18 DEF VerificationInjected, failureVars
    <3> QED
      BY <2>1, <3>1
  <2> QED
    BY <2>2
<1>19. CASE AnswerAccepted
  <2>1. /\ pc' = "returned" /\ siteFailures' = siteFailures /\ consecutiveFailures' = 0
        /\ pc = "verify"
    BY <1>19 DEF AnswerAccepted, Return
  <2> QED
    BY <2>1 DEF Flow
<1>20. CASE Cancel
  BY <1>20 DEF Cancel, counters, failureVars, Return
<1>21. CASE DeadlinePasses
  BY <1>21 DEF DeadlinePasses, counters, failureVars, Return
<1>22. CASE UNCHANGED vars
  BY <1>22 DEF vars
<1> QED
  BY <1>1, <1>2, <1>3, <1>4, <1>5, <1>6, <1>7, <1>8, <1>9, <1>10, <1>11, <1>12, <1>13, <1>14,
     <1>15, <1>16, <1>17, <1>18, <1>19, <1>20, <1>21, <1>22 DEF Next, Loop, Terminated

\* Every use of the advisor's budget goes with one piece of advice.
LEMMA BudgetNext == TypeInv /\ AdvisorBudgetSpentOnAdvice /\ [Next]_vars => AdvisorBudgetSpentOnAdvice'
<1> SUFFICES ASSUME TypeInv, AdvisorBudgetSpentOnAdvice, [Next]_vars PROVE AdvisorBudgetSpentOnAdvice'
  OBVIOUS
<1>0. /\ injected \in [InjectedKinds -> Nat]
      /\ injected["advice"] \in Nat /\ injected["verification"] \in Nat
      /\ advisorUsed \in Nat /\ AdvisorMaxUses \in Nat
      /\ Flow
  BY LoopConstants DEF TypeInv, TypeOK, InjectedKinds
<1> USE <1>0 DEF AdvisorBudgetSpentOnAdvice
<1>1. CASE Start
  BY <1>1 DEF Start, counters, budgetVars, endVars, Return
<1>2. CASE IterationsRunOut
  BY <1>2 DEF IterationsRunOut, counters, budgetVars, endVars, Return
<1>3. CASE TimesOut
  BY <1>3 DEF TimesOut, counters, budgetVars, endVars, Return
<1>4. CASE BeginIteration
  BY <1>4 DEF BeginIteration, counters, budgetVars, endVars, Return
<1>5. CASE BeforeStepAborts
  BY <1>5 DEF BeforeStepAborts, counters, budgetVars, endVars, Return
<1>6. CASE BeforeStepPasses
  BY <1>6 DEF BeforeStepPasses, counters, budgetVars, endVars, Return
<1>7. CASE EnterStep
  BY <1>7 DEF EnterStep, counters, budgetVars, endVars, Return
<1>8. CASE GenerateFails
  <2>1. result'.kind = "error" /\ UNCHANGED counters
    BY <1>8 DEF GenerateFails, NoResult
  <2> QED
    BY <2>1 DEF counters, budgetVars
<1>9. CASE OutputRejected
  <2>1. /\ injected'["advice"] = injected["advice"]
        /\ injected'["verification"] = injected["verification"]
    BY <1>9, InjectFacts DEF OutputRejected, InjectedKinds
  <2> QED
    BY <1>9, <2>1 DEF OutputRejected, budgetVars, endVars
<1>10. CASE ModelAnswers
  BY <1>10 DEF ModelAnswers, counters, budgetVars, endVars, Return
<1>11. CASE ToolLoopDetected
  BY <1>11 DEF ToolLoopDetected, counters, budgetVars, endVars, Return
<1>12. CASE ToolsRun
  BY <1>12 DEF ToolsRun, counters, budgetVars, endVars, Return
<1>13. CASE AbortHandled
  BY <1>13 DEF AbortHandled, counters, budgetVars, endVars, Return
<1>14. CASE EscalationStops
  BY <1>14 DEF EscalationStops, counters, budgetVars, endVars, Return
<1>15. CASE StepHandled
  <2> DEFINE r == IF EscalatedRecovery(FailuresAfterStep) = "replan" THEN 1 ELSE 0
             a == IF Stalled /\ CanAdvise THEN 1 ELSE 0
  <2>1. /\ injected' = [injected EXCEPT !["replan"] = @ + r, !["advice"] = @ + a]
        /\ advisorUsed' = advisorUsed + a
    BY <1>15 DEF StepHandled
  <2>2. /\ r \in {0, 1} /\ a \in {0, 1}
        /\ a = 1 <=> Stalled /\ CanAdvise
    OBVIOUS
  <2> HIDE DEF r, a
  <2>3. /\ injected'["advice"] = injected["advice"] + a
        /\ injected'["verification"] = injected["verification"]
    BY <2>1, <2>2 DEF InjectedKinds
  <2>4. advisorUsed' <= AdvisorMaxUses
    BY <2>1, <2>2 DEF CanAdvise
  <2>5. result'.kind = "stalled" => advisorUsed' = AdvisorMaxUses
    <3>1. CASE Stalled /\ ~CanAdvise
      BY <2>1, <2>2, <3>1 DEF CanAdvise
    <3>2. CASE ~(Stalled /\ ~CanAdvise)
      BY <1>15, <3>2 DEF StepHandled, NextIteration, endVars, Flow
    <3> QED
      BY <3>1, <3>2
  <2>6. /\ injected'["advice"] + injected'["verification"] = advisorUsed'
    BY <2>1, <2>2, <2>3
  <2> QED
    BY <2>4, <2>5, <2>6
<1>16. CASE AnswerReceived
  BY <1>16 DEF AnswerReceived, counters, budgetVars, endVars, Return
<1>17. CASE CriticReplies
  <2>1. /\ injected'["advice"] = injected["advice"]
        /\ injected'["verification"] = injected["verification"]
    BY <1>17, InjectFacts DEF CriticReplies, InjectedKinds
  <2>2. UNCHANGED <<advisorUsed, result>>
    BY <1>17 DEF CriticReplies, NextIteration, endVars
  <2> QED
    BY <2>1, <2>2
<1>18. CASE VerificationInjected
  <2>1. /\ injected'["verification"] = injected["verification"] + 1
        /\ injected'["advice"] = injected["advice"]
    BY <1>18, InjectFacts DEF VerificationInjected, InjectedKinds
  <2>2. /\ UNCHANGED result /\ pc = "verify" /\ CanAdvise /\ advisorUsed' = advisorUsed + 1
    BY <1>18 DEF VerificationInjected, NextIteration, endVars, MayVerify
  <2> QED
    BY <2>1, <2>2 DEF CanAdvise, Flow
<1>19. CASE AnswerAccepted
  BY <1>19 DEF AnswerAccepted, counters, budgetVars, endVars, Return
<1>20. CASE Cancel
  BY <1>20 DEF Cancel, counters, budgetVars, endVars, Return
<1>21. CASE DeadlinePasses
  BY <1>21 DEF DeadlinePasses, counters, budgetVars, endVars, Return
<1>22. CASE UNCHANGED vars
  BY <1>22 DEF vars
<1> QED
  BY <1>1, <1>2, <1>3, <1>4, <1>5, <1>6, <1>7, <1>8, <1>9, <1>10, <1>11, <1>12, <1>13, <1>14,
     <1>15, <1>16, <1>17, <1>18, <1>19, <1>20, <1>21, <1>22 DEF Next, Loop, Terminated

\* Arithmetic that ToolsNext needs by name.
LEMMA Cancellation == \A a, b \in Nat : a = (a + b) - b
  OBVIOUS

\* What was executed is in all_tools, except for the tools of the step at hand.
LEMMA ToolsNext == TypeInv /\ TypeInv' /\ Tools /\ [Next]_vars => Tools'
<1> SUFFICES ASSUME TypeInv, TypeInv', Tools, [Next]_vars PROVE Tools'
  OBVIOUS
<1>0. /\ allTools \in Nat /\ executed \in Nat /\ executed' \in Nat
      /\ pc = "returned" <=> result.kind \notin {"none", "error"}
      /\ pc = "error" <=> result.kind = "error"
      /\ pc' = "returned" <=> result'.kind \notin {"none", "error"}
      /\ pc' = "error" <=> result'.kind = "error"
  BY DEF TypeInv, TypeOK, Flow
<1> USE <1>0 DEF Tools, ToolsAccountedFor, Pending, Ended
<1>1. CASE Start
  BY <1>1 DEF Start, counters, toolVars, endVars
<1>2. CASE BeginIteration
  BY <1>2 DEF BeginIteration, counters, toolVars, endVars
<1>3. CASE BeforeStepPasses
  BY <1>3 DEF BeforeStepPasses, counters, toolVars, endVars
<1>4. CASE EnterStep
  BY <1>4 DEF EnterStep, counters, toolVars, endVars
<1>5. CASE ModelAnswers
  BY <1>5 DEF ModelAnswers, counters, toolVars, endVars
<1>6. CASE ToolLoopDetected
  BY <1>6 DEF ToolLoopDetected, counters, toolVars, endVars
<1>7. CASE AnswerReceived
  BY <1>7 DEF AnswerReceived, toolVars, endVars
<1>8. CASE GenerateFails
  BY <1>8 DEF GenerateFails, NoResult
<1>9. CASE OutputRejected
  <2>1. outcome'.kind = "continue" => outcome'.tools = 0
    BY <1>9 DEF OutputRejected
  <2>2. pc = "generate" /\ pc' = "outcome" /\ UNCHANGED <<allTools, executed, result>>
    BY <1>9 DEF OutputRejected, toolVars, endVars
  <2> QED
    BY <2>1, <2>2
<1>10. CASE ToolsRun
  <2>1. PICK n \in 0 .. MaxCalls :
            outcome'.kind = "continue" /\ outcome'.tools = n /\ executed' = executed + n
    BY <1>10 DEF ToolsRun
  <2>2. pc = "generate" /\ pc' = "outcome" /\ UNCHANGED <<allTools, result>>
    BY <1>10 DEF ToolsRun, endVars
  <2> QED
    BY <2>1, <2>2
<1>11. CASE IterationsRunOut
  <2>1. result'.kind = "max_iterations" /\ result'.tools = allTools /\ pc' = "returned"
    BY <1>11 DEF IterationsRunOut, Return
  <2>2. executed = allTools /\ executed' = executed
    BY <1>11 DEF IterationsRunOut, counters, toolVars
  <2> QED
    BY <2>1, <2>2
<1>12. CASE TimesOut
  <2>1. result'.kind = "timeout" /\ result'.tools = allTools /\ pc' = "returned"
    BY <1>12 DEF TimesOut, Return
  <2>2. executed = allTools /\ executed' = executed
    BY <1>12 DEF TimesOut, counters, toolVars
  <2> QED
    BY <2>1, <2>2
<1>13. CASE BeforeStepAborts
  <2>1. result'.kind = "before_step" /\ result'.tools = allTools /\ pc' = "returned"
    BY <1>13 DEF BeforeStepAborts, Return
  <2>2. executed = allTools /\ executed' = executed
    BY <1>13 DEF BeforeStepAborts, counters, toolVars
  <2> QED
    BY <2>1, <2>2
<1>14. CASE AnswerAccepted
  <2>1. result'.kind = "answer" /\ result'.tools = allTools /\ pc' = "returned"
    BY <1>14 DEF AnswerAccepted, Return
  <2>2. executed = allTools /\ executed' = executed
    BY <1>14 DEF AnswerAccepted, counters, toolVars
  <2> QED
    BY <2>1, <2>2
<1>15. CASE AbortHandled
  <2>1. result'.kind = "aborted" /\ result'.tools = allTools /\ pc' = "returned"
    BY <1>15 DEF AbortHandled, Return
  <2>2. executed = allTools /\ executed' = executed
    BY <1>15 DEF AbortHandled, counters, toolVars
  <2> QED
    BY <2>1, <2>2
<1>16. CASE EscalationStops
  <2>1. result'.kind = "escalated" /\ result'.tools = allTools /\ pc' = "returned"
    BY <1>16 DEF EscalationStops, Return
  <2>2. executed = allTools + outcome.tools /\ executed' = executed /\ outcome' = outcome
    BY <1>16 DEF EscalationStops, toolVars
  <2>3. outcome.tools \in Nat
    <3>1. outcome.kind = "continue"
      BY <1>16 DEF EscalationStops
    <3>2. outcome \in Outcomes
      BY DEF TypeInv, TypeOK
    <3>3. outcome.tools \in 0 .. MaxCalls /\ MaxCalls \in Nat
      BY <3>1, <3>2, LoopConstants DEF Outcomes
    <3> QED
      BY <3>3
  <2>4. allTools = (allTools + outcome.tools) - outcome.tools
    BY <2>3, Cancellation
  <2>5. result'.tools = executed' - outcome'.tools
    BY <2>1, <2>2, <2>4, Zenon
  <2> QED
    BY <2>1, <2>5
<1>17. CASE StepHandled
  <2>1. /\ executed = allTools + outcome.tools /\ executed' = executed
        /\ allTools' = allTools + outcome.tools
    <3>1. pc = "outcome" /\ outcome.kind = "continue"
      BY <1>17 DEF StepHandled
    <3>2. executed' = executed /\ allTools' = allTools + outcome.tools
      BY <1>17 DEF StepHandled
    <3> QED
      BY <3>1, <3>2
  <2>2. CASE Return("stalled", "completed", finalIteration, allTools + outcome.tools)
    <3>1. /\ result'.kind = "stalled" /\ result'.tools = allTools + outcome.tools
          /\ pc' = "returned"
      BY <2>2 DEF Return
    <3>2. result'.tools = executed'
      BY <2>1, <3>1
    <3> QED
      BY <3>1, <3>2
  <2>3. CASE NextIteration
    BY <1>17, <2>1, <2>3 DEF NextIteration, endVars, StepHandled
  <2> QED
    BY <1>17, <2>2, <2>3 DEF StepHandled
<1>18. CASE CriticReplies
  <2>1. UNCHANGED <<allTools, executed, result>> /\ pc' \in {"head", "verify"} /\ pc = "critic"
    BY <1>18 DEF CriticReplies, NextIteration, endVars, toolVars
  <2> QED
    BY <2>1
<1>19. CASE VerificationInjected
  BY <1>19 DEF VerificationInjected, NextIteration, toolVars, endVars
<1>20. CASE Cancel
  BY <1>20 DEF Cancel, counters, toolVars, endVars
<1>21. CASE DeadlinePasses
  BY <1>21 DEF DeadlinePasses, counters, toolVars, endVars
<1>22. CASE UNCHANGED vars
  BY <1>22 DEF vars
<1> QED
  BY <1>1, <1>2, <1>3, <1>4, <1>5, <1>6, <1>7, <1>8, <1>9, <1>10, <1>11, <1>12, <1>13, <1>14,
     <1>15, <1>16, <1>17, <1>18, <1>19, <1>20, <1>21, <1>22
  DEF Next, Loop, Terminated

-----------------------------------------------------------------------------
(***************************************************************************)
(* The theorems about the loop                                             *)
(***************************************************************************)

\* The inductive invariant of the loop.
Invariant == TypeInv /\ Records /\ Ladder /\ FailureCountersAgree /\ AdvisorBudgetSpentOnAdvice /\ Tools

\* The strengthened invariant holds initially ...
LEMMA InvariantInit == Init => Invariant
<1> SUFFICES ASSUME Init PROVE Invariant
  OBVIOUS
<1>1. TypeInv
  BY TypeInvInit
<1>2. Records
  BY DEF Init, Records, EndingMatchesResult, LearningMatchesResult, NoResult, HandlerEnds
<1>3. Ladder
  BY DEF Init, Ladder, ReplanBeforeStop, NoResult, MAX_CONSECUTIVE_FAILURES
<1>4. FailureCountersAgree
  BY DEF Init, FailureCountersAgree
<1>5. AdvisorBudgetSpentOnAdvice
  BY LoopConstants DEF Init, AdvisorBudgetSpentOnAdvice, InjectedKinds, NoResult
<1>6. Tools
  BY DEF Init, Tools, ToolsAccountedFor, Pending, NoResult
<1> QED
  BY <1>1, <1>2, <1>3, <1>4, <1>5, <1>6 DEF Invariant

\* ... is preserved by every step ...
LEMMA InvariantNext == Invariant /\ [Next]_vars => Invariant'
  BY TypeInvNext, RecordsNext, LadderNext, CountersAgreeNext, BudgetNext, ToolsNext DEF Invariant

\* ... and so holds throughout every run.
LEMMA InvariantHolds == Spec => []Invariant
  BY InvariantInit, InvariantNext, PTL DEF Spec

\* Every variable keeps its type, for every limit and budget: the loop never runs
\* past max_iterations, and the stall counter never reaches its threshold.
THEOREM TypeCorrect == Spec => []TypeOK
<1>1. Invariant => TypeOK
  BY DEF Invariant, TypeInv
<1> QED
  BY <1>1, InvariantHolds, PTL

\* A run that returned Ok wrote exactly one SessionEnd, which agrees with what the
\* caller was given; no other run wrote one (core.rs 201-326).
THEOREM EndingCorrect == Spec => []EndingMatchesResult
<1>1. Invariant => EndingMatchesResult
  BY DEF Invariant, Records
<1> QED
  BY <1>1, InvariantHolds, PTL

\* Experience and heuristics are credited exactly once, and only by the runs that
\* handle_outcome ended (outcome.rs 45-193).
THEOREM LearningCorrect == Spec => []LearningMatchesResult
<1>1. Invariant => LearningMatchesResult
  BY DEF Invariant, Records
<1> QED
  BY <1>1, InvariantHolds, PTL

\* No run stops on consecutive failures without having asked for a replan
\* (outcome.rs 143-168).
THEOREM ReplanComesFirst == Spec => []ReplanBeforeStop
<1>1. Invariant => ReplanBeforeStop
  BY DEF Invariant, Ladder
<1> QED
  BY <1>1, InvariantHolds, PTL

\* The two counters of consecutive failures part only after an answer was deferred
\* (outcome.rs 47, 93, 115, 143).
THEOREM FailureCountersCorrect == Spec => []FailureCountersAgree
<1>1. Invariant => FailureCountersAgree
  BY DEF Invariant
<1> QED
  BY <1>1, InvariantHolds, PTL

\* However replanning and verification share the budget, it is never overdrawn, and
\* each use of it left one piece of advice (advisor_inject.rs).
THEOREM AdvisorBudgetCorrect == Spec => []AdvisorBudgetSpentOnAdvice
<1>1. Invariant => AdvisorBudgetSpentOnAdvice
  BY DEF Invariant
<1> QED
  BY <1>1, InvariantHolds, PTL

\* The caller is told of every tool call that was executed, except those of the
\* step on which the escalation stopped (outcome.rs 150-183).
THEOREM ToolsReported == Spec => []ToolsAccountedFor
<1>1. Invariant => ToolsAccountedFor
  BY DEF Invariant, Tools
<1> QED
  BY <1>1, InvariantHolds, PTL

-----------------------------------------------------------------------------
(***************************************************************************)
(* The loop implements the lifecycle of a session                          *)
(***************************************************************************)

\* Before the run ends no SessionEnd was emitted, so the first is the only one.
LEMMA ClosesOnce ==
  ASSUME Invariant, ~Ended, NEW reason \in Reasons, NEW used \in 0 .. MaxIterations,
         ending' = Append(ending, [reason |-> reason, iterations |-> used])
  PROVE  ending' = <<[reason |-> reason, iterations |-> used]>>
<1>1. ending = <<>>
  BY DEF Invariant, Records, EndingMatchesResult, Ended
<1> QED
  BY <1>1

\* Every step of the loop is a step of the lifecycle or leaves it alone.
LEMMA LifecycleNext == Invariant /\ [Next]_vars => [Lifecycle!Next]_(Lifecycle!vars)
<1> SUFFICES ASSUME Invariant, [Next]_vars PROVE Lifecycle!Next \/ UNCHANGED Lifecycle!vars
  OBVIOUS
<1> USE DEF Invariant, TypeInv
<1>1. CASE Start
  <2>1. Lifecycle!Open
    BY <1>1 DEF Start, endVars, phase, Lifecycle!Open
  <2> QED
    BY <2>1 DEF Lifecycle!Next
<1>2. CASE BeginIteration
  <2>1. Lifecycle!Step
    BY <1>2, LoopConstants DEF BeginIteration, endVars, phase, Flow, TypeOK, Lifecycle!Step
  <2> QED
    BY <2>1 DEF Lifecycle!Next
<1>3. CASE IterationsRunOut
  <2>1. /\ phase = "open" /\ phase' = "closed" /\ finalIteration' = finalIteration
        /\ ending' = Append(ending, [reason |-> "max_iterations", iterations |-> finalIteration])
    BY <1>3 DEF IterationsRunOut, Return, phase
  <2>2. ending' = <<[reason |-> "max_iterations", iterations |-> finalIteration]>>
    BY <1>3, <2>1, ClosesOnce DEF IterationsRunOut, Ended, Reasons, TypeOK
  <2>3. finalIteration = MaxIterations
    BY <1>3, LoopConstants DEF IterationsRunOut, Flow, InIteration, TypeOK
  <2>4. Lifecycle!Close("max_iterations")
    BY <2>1, <2>2, <2>3 DEF Lifecycle!Close
  <2> QED
    BY <2>4 DEF Lifecycle!Next, Lifecycle!Reasons
<1>4. CASE TimesOut
  <2>1. /\ phase = "open" /\ phase' = "closed" /\ finalIteration' = finalIteration
        /\ ending' = Append(ending, [reason |-> "timeout", iterations |-> iteration])
    BY <1>4 DEF TimesOut, Return, phase
  <2>2. ending' = <<[reason |-> "timeout", iterations |-> iteration]>>
    BY <1>4, <2>1, ClosesOnce DEF TimesOut, Ended, Reasons, TypeOK
  <2>3. finalIteration = iteration /\ iteration < MaxIterations
    BY <1>4, LoopConstants DEF TimesOut, Flow, InIteration, TypeOK
  <2>4. Lifecycle!Close("timeout")
    BY <2>1, <2>2, <2>3 DEF Lifecycle!Close
  <2> QED
    BY <2>4 DEF Lifecycle!Next, Lifecycle!Reasons
<1>5. CASE BeforeStepAborts
  <2>1. /\ phase = "open" /\ phase' = "closed" /\ finalIteration' = finalIteration
        /\ ending' = Append(ending, [reason |-> "abort", iterations |-> iteration])
    BY <1>5 DEF BeforeStepAborts, Return, phase
  <2>2. ending' = <<[reason |-> "abort", iterations |-> iteration]>>
    BY <1>5, <2>1, ClosesOnce DEF BeforeStepAborts, Ended, Reasons, TypeOK
  <2>3. iteration = finalIteration - 1 /\ finalIteration > 0
    BY <1>5, LoopConstants DEF BeforeStepAborts, Flow, InIteration, TypeOK
  <2>4. Lifecycle!Close("abort")
    BY <2>1, <2>2, <2>3 DEF Lifecycle!Close
  <2> QED
    BY <2>4 DEF Lifecycle!Next, Lifecycle!Reasons
<1>6. CASE AbortHandled
  <2>1. /\ phase = "open" /\ phase' = "closed" /\ finalIteration' = finalIteration
        /\ ending' = Append(ending, [reason |-> "completed", iterations |-> finalIteration])
    BY <1>6 DEF AbortHandled, Return, phase
  <2>2. ending' = <<[reason |-> "completed", iterations |-> finalIteration]>>
    BY <1>6, <2>1, ClosesOnce DEF AbortHandled, Ended, Reasons, TypeOK
  <2>3. finalIteration > 0
    BY <1>6, LoopConstants DEF AbortHandled, Flow, InIteration, TypeOK
  <2>4. Lifecycle!Close("completed")
    BY <2>1, <2>2, <2>3 DEF Lifecycle!Close
  <2> QED
    BY <2>4 DEF Lifecycle!Next, Lifecycle!Reasons
<1>7. CASE EscalationStops
  <2>1. /\ phase = "open" /\ phase' = "closed" /\ finalIteration' = finalIteration
        /\ ending' = Append(ending, [reason |-> "completed", iterations |-> finalIteration])
    BY <1>7 DEF EscalationStops, Return, phase
  <2>2. ending' = <<[reason |-> "completed", iterations |-> finalIteration]>>
    BY <1>7, <2>1, ClosesOnce DEF EscalationStops, Ended, Reasons, TypeOK
  <2>3. finalIteration > 0
    BY <1>7, LoopConstants DEF EscalationStops, Flow, InIteration, TypeOK
  <2>4. Lifecycle!Close("completed")
    BY <2>1, <2>2, <2>3 DEF Lifecycle!Close
  <2> QED
    BY <2>4 DEF Lifecycle!Next, Lifecycle!Reasons
<1>8. CASE AnswerAccepted
  <2>1. /\ phase = "open" /\ phase' = "closed" /\ finalIteration' = finalIteration
        /\ ending' = Append(ending, [reason |-> "completed", iterations |-> finalIteration])
    BY <1>8 DEF AnswerAccepted, Return, phase
  <2>2. ending' = <<[reason |-> "completed", iterations |-> finalIteration]>>
    BY <1>8, <2>1, ClosesOnce DEF AnswerAccepted, Ended, Reasons, TypeOK
  <2>3. finalIteration > 0
    BY <1>8, LoopConstants DEF AnswerAccepted, Flow, InIteration, TypeOK
  <2>4. Lifecycle!Close("completed")
    BY <2>1, <2>2, <2>3 DEF Lifecycle!Close
  <2> QED
    BY <2>4 DEF Lifecycle!Next, Lifecycle!Reasons
<1>9. CASE GenerateFails
  <2>1. Lifecycle!Fail
    <3>1. phase = "open" /\ phase' = "failed" /\ UNCHANGED <<finalIteration, ending>>
      BY <1>9 DEF GenerateFails, phase
    <3>2. pc \in InIteration /\ iteration \in Nat
      BY <1>9 DEF GenerateFails, InIteration, TypeOK
    <3>3. finalIteration > 0
      BY <3>2 DEF Flow
    <3> QED
      BY <3>1, <3>3 DEF Lifecycle!Fail
  <2> QED
    BY <2>1 DEF Lifecycle!Next
<1>10. CASE StepHandled
  <2>1. CASE NextIteration
    BY <1>10, <2>1 DEF StepHandled, NextIteration, endVars, phase, Lifecycle!vars
  <2>2. CASE Return("stalled", "completed", finalIteration, allTools + outcome.tools)
    <3>1. /\ phase = "open" /\ phase' = "closed" /\ finalIteration' = finalIteration
          /\ ending' = Append(ending, [reason |-> "completed", iterations |-> finalIteration])
      BY <1>10, <2>2 DEF StepHandled, Return, phase
    <3>2. ending' = <<[reason |-> "completed", iterations |-> finalIteration]>>
      BY <1>10, <3>1, ClosesOnce DEF StepHandled, Ended, Reasons, TypeOK
    <3>3. finalIteration > 0
      BY <1>10, LoopConstants DEF StepHandled, Flow, InIteration, TypeOK
    <3>4. Lifecycle!Close("completed")
      BY <3>1, <3>2, <3>3 DEF Lifecycle!Close
    <3> QED
      BY <3>4 DEF Lifecycle!Next, Lifecycle!Reasons
  <2> QED
    BY <1>10, <2>1, <2>2 DEF StepHandled
<1>11. CASE BeforeStepPasses
  BY <1>11 DEF BeforeStepPasses, endVars, phase, Lifecycle!vars
<1>12. CASE EnterStep
  BY <1>12 DEF EnterStep, endVars, phase, Lifecycle!vars
<1>13. CASE OutputRejected
  BY <1>13 DEF OutputRejected, endVars, phase, Lifecycle!vars
<1>14. CASE ModelAnswers
  BY <1>14 DEF ModelAnswers, endVars, phase, Lifecycle!vars
<1>15. CASE ToolLoopDetected
  BY <1>15 DEF ToolLoopDetected, endVars, phase, Lifecycle!vars
<1>16. CASE ToolsRun
  BY <1>16 DEF ToolsRun, endVars, phase, Lifecycle!vars
<1>17. CASE AnswerReceived
  BY <1>17 DEF AnswerReceived, endVars, phase, Lifecycle!vars
<1>18. CASE Cancel
  BY <1>18 DEF Cancel, endVars, phase, Lifecycle!vars
<1>19. CASE DeadlinePasses
  BY <1>19 DEF DeadlinePasses, endVars, phase, Lifecycle!vars
<1>20. CASE CriticReplies
  BY <1>20 DEF CriticReplies, NextIteration, endVars, phase, Lifecycle!vars
<1>21. CASE VerificationInjected
  BY <1>21 DEF VerificationInjected, NextIteration, endVars, phase, Lifecycle!vars
<1>22. CASE UNCHANGED vars
  BY <1>22 DEF vars, phase, Lifecycle!vars
<1> QED
  BY <1>1, <1>2, <1>3, <1>4, <1>5, <1>6, <1>7, <1>8, <1>9, <1>10, <1>11, <1>12, <1>13, <1>14,
     <1>15, <1>16, <1>17, <1>18, <1>19, <1>20, <1>21, <1>22
  DEF Next, Loop, Terminated

\* Whatever the model, the tools and the clock do, what the event store sees of a
\* run is the lifecycle of SessionLifecycle (core.rs 100-327).
THEOREM LoopImplementsLifecycle == Spec => Implements
<1>1. Init => Lifecycle!Init
  BY DEF Init, Lifecycle!Init, phase
<1>2. Invariant /\ [Next]_vars => [Lifecycle!Next]_(Lifecycle!vars)
  BY LifecycleNext
<1> QED
  BY <1>1, <1>2, InvariantHolds, PTL DEF Spec, Implements, Lifecycle!Spec

-----------------------------------------------------------------------------
\* Asking for anything else does not ask for a verification.
LEMMA OtherRequests ==
  ASSUME TypeInv, UNCHANGED injected \/ Inject("fix") \/ Inject("critic")
  PROVE  ~(injected'["verification"] > injected["verification"])
<1>1. injected'["verification"] = injected["verification"]
  <2>1. "fix" \in InjectedKinds /\ "critic" \in InjectedKinds
    BY DEF InjectedKinds
  <2>2. "verification" \in InjectedKinds \ {"fix"} /\ "verification" \in InjectedKinds \ {"critic"}
    BY DEF InjectedKinds
  <2> QED
    BY <2>1, <2>2, InjectFacts
<1>2. injected["verification"] \in Nat
  BY DEF TypeInv, TypeOK, InjectedKinds
<1> QED
  BY <1>1, <1>2

\* A step that asks the model to verify its answer leaves it an iteration.
LEMMA VerificationStep ==
  ASSUME TypeInv, [Next]_vars, injected'["verification"] > injected["verification"]
  PROVE  iteration' < MaxIterations
<1> USE DEF TypeInv, TypeOK, InjectedKinds
<1>1. CASE Start
  BY <1>1 DEF Start, counters
<1>2. CASE IterationsRunOut
  BY <1>2 DEF IterationsRunOut, counters
<1>3. CASE TimesOut
  BY <1>3 DEF TimesOut, counters
<1>4. CASE BeginIteration
  BY <1>4 DEF BeginIteration, counters
<1>5. CASE BeforeStepAborts
  BY <1>5 DEF BeforeStepAborts, counters
<1>6. CASE BeforeStepPasses
  BY <1>6 DEF BeforeStepPasses, counters
<1>7. CASE EnterStep
  BY <1>7 DEF EnterStep, counters
<1>8. CASE GenerateFails
  BY <1>8 DEF GenerateFails, counters
<1>9. CASE ModelAnswers
  BY <1>9 DEF ModelAnswers, counters
<1>10. CASE ToolLoopDetected
  BY <1>10 DEF ToolLoopDetected, counters
<1>11. CASE Cancel
  BY <1>11 DEF Cancel, counters
<1>12. CASE DeadlinePasses
  BY <1>12 DEF DeadlinePasses, counters
<1>13. CASE ToolsRun
  BY <1>13 DEF ToolsRun
<1>14. CASE AbortHandled
  BY <1>14 DEF AbortHandled
<1>15. CASE EscalationStops
  BY <1>15 DEF EscalationStops
<1>16. CASE AnswerReceived
  BY <1>16 DEF AnswerReceived
<1>17. CASE AnswerAccepted
  BY <1>17 DEF AnswerAccepted
<1>18. CASE OutputRejected
  <2>1. UNCHANGED injected \/ Inject("fix")
    BY <1>18 DEF OutputRejected
  <2> QED
    BY <2>1, OtherRequests
<1>19. CASE StepHandled
  <2>1. PICK r \in {0, 1}, a \in {0, 1} :
            injected' = [injected EXCEPT !["replan"] = @ + r, !["advice"] = @ + a]
    BY <1>19 DEF StepHandled
  <2>2. injected \in [InjectedKinds -> Nat]
    OBVIOUS
  <2>3. injected'["verification"] = injected["verification"]
    BY <2>1, <2>2, CountsAdded
  <2> QED
    BY <2>2, <2>3
<1>20. CASE CriticReplies
  <2>1. UNCHANGED injected \/ Inject("critic")
    BY <1>20 DEF CriticReplies
  <2> QED
    BY <2>1, OtherRequests
<1>21. CASE VerificationInjected
  BY <1>21, LoopConstants DEF VerificationInjected, MayVerify, NextIteration
<1>22. CASE UNCHANGED vars
  BY <1>22 DEF vars
<1> QED
  BY <1>1, <1>2, <1>3, <1>4, <1>5, <1>6, <1>7, <1>8, <1>9, <1>10, <1>11, <1>12, <1>13, <1>14,
     <1>15, <1>16, <1>17, <1>18, <1>19, <1>20, <1>21, <1>22
  DEF Next, Loop, Terminated

\* Self-verification never defers the answer of the last iteration: the model is
\* always left one in which to answer (advisor_inject.rs 216).
THEOREM VerificationHasRoom == Spec => VerificationLeavesAnIteration
<1>1. Invariant /\ [Next]_vars =>
          [injected'["verification"] > injected["verification"] =>
               iteration' < MaxIterations]_vars
  BY VerificationStep DEF Invariant
<1> QED
  BY <1>1, InvariantHolds, PTL DEF Spec, VerificationLeavesAnIteration

-----------------------------------------------------------------------------
(***************************************************************************)
(* Termination, but for the fairness.                                      *)
(***************************************************************************)

\* The steps an iteration has left from here: seven lead from the head of the loop to the next.
Ahead ==
    [start |-> 8, head |-> 7, before_step |-> 6, check |-> 5, generate |-> 4, outcome |-> 3,
     critic |-> 2, verify |-> 1, returned |-> 0, error |-> 0]

\* What the run has left: its iterations, and the two things that may still happen to it.
StepsLeft ==
    (IF Ended THEN 0 ELSE 7 * (MaxIterations - iteration)) + Ahead[pc]
        + (IF cancelled THEN 0 ELSE 1) + (IF late THEN 0 ELSE 1)

\* Every step uses something up: no sequence of deferred answers, corrections, replans and tool
\* calls keeps a run going longer than that.
EveryStepCounts == [][StepsLeft' < StepsLeft]_vars

\* A place of the run has a number of its own.
LEMMA AheadType == pc \in Locations => Ahead[pc] \in 0 .. 8
  BY DEF Locations, Ahead

LEMMA AheadFacts ==
  ASSUME TypeInv
  PROVE  /\ Ahead[pc] \in 0 .. 8 /\ MaxIterations \in Nat /\ iteration \in Nat
         /\ MaxIterations - iteration \in Nat
  BY AheadType, LoopConstants DEF TypeInv, TypeOK

\* A step within an iteration, or to its end, goes ahead.
LEMMA GoesAhead ==
  ASSUME TypeInv, pc' \in Locations, Ahead[pc'] < Ahead[pc], ~Ended,
         iteration' = iteration, cancelled' = cancelled, late' = late
  PROVE  StepsLeft' < StepsLeft
<1>1. Ahead[pc] \in 0 .. 8 /\ Ahead[pc'] \in 0 .. 8 /\ MaxIterations - iteration \in Nat
  BY AheadFacts DEF Locations, Ahead
<1>2. CASE Ended'
  <2>1. StepsLeft' = Ahead[pc'] + (IF cancelled THEN 0 ELSE 1) + (IF late THEN 0 ELSE 1)
    BY <1>1, <1>2 DEF StepsLeft
  <2> QED
    BY <1>1, <2>1 DEF StepsLeft
<1>3. CASE ~Ended'
  BY <1>1, <1>3 DEF StepsLeft
<1> QED
  BY <1>2, <1>3

\* The way back to the head of the loop costs an iteration.
LEMMA GoesRound ==
  ASSUME TypeInv, pc \in {"outcome", "critic", "verify"}, NextIteration, cancelled' = cancelled,
         late' = late
  PROVE  StepsLeft' < StepsLeft
<1>1. /\ pc' = "head" /\ iteration' = iteration + 1 /\ iteration \in Nat /\ MaxIterations \in Nat
      /\ iteration < MaxIterations
  BY LoopConstants DEF TypeInv, TypeOK, Flow, InIteration, NextIteration
<1>2. ~Ended /\ ~Ended'
  BY <1>1 DEF Ended
<1>3. Ahead[pc] >= 1 /\ Ahead[pc] \in Nat /\ Ahead[pc'] = 7
  BY <1>1 DEF Ahead
<1> QED
  BY <1>1, <1>2, <1>3 DEF StepsLeft

LEMMA StepCounts == TypeInv /\ TypeInv' /\ [Next]_vars => StepsLeft' < StepsLeft \/ UNCHANGED vars
<1> SUFFICES ASSUME TypeInv, TypeInv', Next PROVE StepsLeft' < StepsLeft \/ UNCHANGED vars
  OBVIOUS
<1>1. pc' \in Locations
  BY DEF TypeInv, TypeOK
<1>2. ASSUME Loop PROVE StepsLeft' < StepsLeft
  <2>1. cancelled' = cancelled /\ late' = late
    BY <1>2 DEF Loop, Start, IterationsRunOut, TimesOut, BeginIteration, BeforeStepAborts,
                BeforeStepPasses, EnterStep, GenerateFails, OutputRejected, ModelAnswers,
                ToolLoopDetected, ToolsRun, AbortHandled, EscalationStops, StepHandled,
                AnswerReceived, CriticReplies, VerificationInjected, AnswerAccepted, envVars
  <2>2. CASE Start \/ IterationsRunOut \/ TimesOut \/ BeginIteration \/ BeforeStepAborts
                \/ BeforeStepPasses \/ EnterStep
    <3>1. iteration' = iteration /\ ~Ended /\ Ahead[pc'] < Ahead[pc]
      BY <2>2 DEF Start, IterationsRunOut, TimesOut, BeginIteration, BeforeStepAborts,
                  BeforeStepPasses, EnterStep, Return, Ended, Ahead
    <3> QED
      BY <1>1, <2>1, <3>1, GoesAhead
  <2>3. CASE GenerateFails \/ OutputRejected \/ ModelAnswers \/ ToolLoopDetected \/ ToolsRun
    <3>1. iteration' = iteration /\ ~Ended /\ Ahead[pc'] < Ahead[pc]
      BY <2>3 DEF GenerateFails, OutputRejected, ModelAnswers, ToolLoopDetected, ToolsRun,
                  Ended, Ahead
    <3> QED
      BY <1>1, <2>1, <3>1, GoesAhead
  <2>4. CASE AbortHandled \/ EscalationStops \/ AnswerReceived \/ AnswerAccepted
    <3>1. iteration' = iteration /\ ~Ended /\ Ahead[pc'] < Ahead[pc]
      BY <2>4 DEF AbortHandled, EscalationStops, AnswerReceived, AnswerAccepted, Return, Ended,
                  Ahead
    <3> QED
      BY <1>1, <2>1, <3>1, GoesAhead
  <2>5. CASE StepHandled
    <3>1. \/ NextIteration
          \/ pc' = "returned" /\ iteration' = iteration
      BY <2>5 DEF StepHandled, Return
    <3>2. pc = "outcome"
      BY <2>5 DEF StepHandled
    <3>3. CASE NextIteration
      BY <2>1, <3>2, <3>3, GoesRound
    <3>4. CASE pc' = "returned" /\ iteration' = iteration
      <4>1. ~Ended /\ Ahead[pc'] < Ahead[pc]
        BY <3>2, <3>4 DEF Ended, Ahead
      <4> QED
        BY <1>1, <2>1, <3>4, <4>1, GoesAhead
    <3> QED
      BY <3>1, <3>3, <3>4
  <2>6. CASE CriticReplies
    <3>1. \/ NextIteration
          \/ pc' = "verify" /\ iteration' = iteration
      BY <2>6 DEF CriticReplies
    <3>2. pc = "critic"
      BY <2>6 DEF CriticReplies
    <3>3. CASE NextIteration
      BY <2>1, <3>2, <3>3, GoesRound
    <3>4. CASE pc' = "verify" /\ iteration' = iteration
      <4>1. ~Ended /\ Ahead[pc'] < Ahead[pc]
        BY <3>2, <3>4 DEF Ended, Ahead
      <4> QED
        BY <1>1, <2>1, <3>4, <4>1, GoesAhead
    <3> QED
      BY <3>1, <3>3, <3>4
  <2>7. CASE VerificationInjected
    BY <2>1, <2>7, GoesRound DEF VerificationInjected
  <2> QED
    BY <1>2, <2>2, <2>3, <2>4, <2>5, <2>6, <2>7 DEF Loop
<1>3. ASSUME Cancel \/ DeadlinePasses PROVE StepsLeft' < StepsLeft
  <2>1. pc' = pc /\ iteration' = iteration /\ ~Ended /\ ~Ended'
    BY <1>3 DEF Cancel, DeadlinePasses, Ended
  <2>2. \/ ~cancelled /\ cancelled' = TRUE /\ late' = late
        \/ ~late /\ late' = TRUE /\ cancelled' = cancelled
    BY <1>3 DEF Cancel, DeadlinePasses
  <2>3. Ahead[pc] \in Nat /\ MaxIterations - iteration \in Nat
    BY AheadFacts
  <2>4. cancelled \in BOOLEAN /\ late \in BOOLEAN
    BY DEF TypeInv, TypeOK
  <2>5. CASE ~cancelled /\ cancelled' = TRUE /\ late' = late
    <3>1. /\ StepsLeft = 7 * (MaxIterations - iteration) + Ahead[pc] + 1 + (IF late THEN 0 ELSE 1)
          /\ StepsLeft' = 7 * (MaxIterations - iteration) + Ahead[pc] + 0 + (IF late THEN 0 ELSE 1)
      BY <2>1, <2>5 DEF StepsLeft
    <3> QED
      BY <2>3, <3>1
  <2>6. CASE ~late /\ late' = TRUE /\ cancelled' = cancelled
    <3>1. /\ StepsLeft = 7 * (MaxIterations - iteration) + Ahead[pc] + (IF cancelled THEN 0 ELSE 1) + 1
          /\ StepsLeft' = 7 * (MaxIterations - iteration) + Ahead[pc] + (IF cancelled THEN 0 ELSE 1) + 0
      BY <2>1, <2>6 DEF StepsLeft
    <3> QED
      BY <2>3, <3>1
  <2> QED
    BY <2>2, <2>5, <2>6
<1>4. Terminated => UNCHANGED vars
  BY DEF Terminated
<1> QED
  BY <1>2, <1>3, <1>4 DEF Next

\* Whatever the model, the tools, the critic and the clock do, a run takes at most
\* 7 * MaxIterations + 10 steps: each step of the loop of core.rs uses up what is left, though
\* an answer may be deferred, a malformed output corrected and a stall replanned.
THEOREM RunsAreBounded ==
  /\ Spec => EveryStepCounts
  /\ Spec => [](StepsLeft \in 0 .. 7 * MaxIterations + 10)
<1>1. TypeInv => StepsLeft \in 0 .. 7 * MaxIterations + 10
  <2> SUFFICES ASSUME TypeInv PROVE StepsLeft \in 0 .. 7 * MaxIterations + 10
    OBVIOUS
  <2> QED
    BY AheadFacts DEF StepsLeft
<1>2. Spec => []TypeInv
  BY InvariantHolds, PTL DEF Invariant
<1>3. TypeInv /\ TypeInv' /\ [Next]_vars => [StepsLeft' < StepsLeft]_vars
  BY StepCounts
<1> QED
  BY <1>1, <1>2, <1>3, PTL DEF Spec, EveryStepCounts
===============================================================================
