--------------------------- MODULE InferenceProofs ---------------------------
(***************************************************************************)
(* Proofs about Inference, for any number of threads, any chain, any        *)
(* threshold and any number of server processes.                            *)
(***************************************************************************)
EXTENDS Inference, FiniteSetTheorems, TLAPS

\* The requests that hold an InFlightGuard.
Guarded == {c \in Clients : at[c] \in {"stamp", "inside"}}

\* The failed calls that record_failure is about to count.
Uncounted == {c \in Clients : pc[c] = "error" /\ ~cancelled[c]}

\* Where a thread stands bounds what its local holds, and only Ctrl-C sets a token.
Locals ==
    /\ \A c \in Clients : pc[c] = "switch" => reg[c] \in 1 .. Entries
    /\ \A c \in Clients : cancelled[c] => c \in Cancellable

\* Short of MaxFailures, every failure counted or about to be counted is a fault; a
\* thread that is about to switch has seen MaxFailures of them.
Earned ==
    /\ current # 1 => faults = MaxFailures
    /\ \A c \in Clients : pc[c] \in {"next", "switch"} => faults = MaxFailures
    /\ \A c \in Clients : pc[c] = "forget" /\ reg[c] >= MaxFailures => faults = MaxFailures
    /\ faults < MaxFailures => failures + Cardinality(Uncounted) <= faults

\* The inductive invariant.
Invariant ==
    TypeOK /\ Locals /\ InFlightIsRight /\ OneServerUnderControl /\ Earned

-----------------------------------------------------------------------------
(***************************************************************************)
(* What a step does to each of the two components                          *)
(***************************************************************************)

\* A step leaves the chain alone, sets tokens, or is a step of one request in it.
LEMMA ChainMoves ==
  ASSUME [Next]_vars
  PROVE  \/ UNCHANGED chainVars
         \/ CtrlC
         \/ \E c \in Clients : Call(c) \/ BackendAnswers(c) \/ CallReturns(c) \/ ChainStep(c)
  BY DEF Next, vars, Request, Progress, Begin, Answer, End, InChain, InServer,
         WatchdogStep, ServerStep, IdleTime

\* A step leaves the server alone, or is a step of a request, of the watchdog or of its
\* surroundings.
LEMMA ServerMoves ==
  ASSUME [Next]_vars
  PROVE  \/ UNCHANGED serverVars
         \/ \E c \in Clients : Ensure(c) \/ Stamp(c) \/ Leave(c) \/ SupervisorStep(c)
         \/ Watchdog \/ Environment \/ IdleTimeout
  BY DEF Next, vars, Request, Progress, Begin, Answer, End, InChain, InServer,
         WatchdogStep, ServerStep, IdleTime, CtrlC

\* The saturated count is one more, or MaxFailures.
LEMMA UpToMaxFacts ==
  ASSUME NEW n \in 0 .. MaxFailures
  PROVE  /\ UpToMax(n + 1) \in 0 .. MaxFailures
         /\ UpToMax(n + 1) < MaxFailures => n < MaxFailures /\ UpToMax(n + 1) = n + 1
  BY ChainConstants DEF UpToMax

\* Sets of threads are finite.
LEMMA SetsOfClients ==
  ASSUME NEW S \in SUBSET Clients
  PROVE  IsFiniteSet(S) /\ Cardinality(S) \in Nat
<1>1. IsFiniteSet(Clients)
  BY ThreadConstants
<1>2. IsFiniteSet(S)
  BY <1>1, FS_Subset
<1> QED
  BY <1>2, FS_CardinalityType

-----------------------------------------------------------------------------
(***************************************************************************)
(* Types of the chain                                                      *)
(***************************************************************************)

\* The index another thread may write is one of the chain's, whatever was in between.
LEMMA ChainTypeNext ==
  ASSUME ChainTypeOK, Locals, [Next]_vars
  PROVE  ChainTypeOK' /\ Locals'
<1> USE ThreadConstants, ChainConstants DEF ChainTypeOK, Locals
<1>1. CASE UNCHANGED chainVars
  BY <1>1 DEF chainVars
<1>2. CASE CtrlC
  BY <1>2 DEF CtrlC, Cancel
<1>3. CASE \E c \in Clients : Call(c) \/ BackendAnswers(c) \/ CallReturns(c) \/ ChainStep(c)
  <2> PICK c \in Clients : Call(c) \/ BackendAnswers(c) \/ CallReturns(c) \/ ChainStep(c)
    BY <1>3
  <2> USE DEF Goto, Set, Locations, Over
  <2>1. CASE Call(c)
    BY <2>1 DEF Call
  <2>2. CASE BackendAnswers(c)
    BY <2>2 DEF BackendAnswers
  <2>3. CASE CallReturns(c)
    BY <2>3 DEF CallReturns, MaxAttempts
  <2>4. CASE StopCancelled(c)
    BY <2>4 DEF StopCancelled
  <2>5. CASE AttemptsRunOut(c)
    BY <2>5 DEF AttemptsRunOut
  <2>6. CASE TryCurrent(c)
    BY <2>6 DEF TryCurrent, MaxAttempts
  <2>7. CASE BackendFails(c)
    BY <2>7, UpToMaxFacts DEF BackendFails
  <2>8. CASE ReturnCancelled(c)
    BY <2>8 DEF ReturnCancelled
  <2>9. CASE CountFailure(c)
    BY <2>9, UpToMaxFacts DEF CountFailure
  <2>10. CASE ForgetSuccesses(c)
    BY <2>10 DEF ForgetSuccesses
  <2>11. CASE FindNext(c)
    BY <2>11 DEF FindNext
  <2>12. CASE SwitchTo(c)
    BY <2>12 DEF SwitchTo
  <2>13. CASE ResetFailures(c)
    BY <2>13 DEF ResetFailures
  <2>14. CASE TestExhausted(c)
    BY <2>14 DEF TestExhausted
  <2>15. CASE ClearFailures(c)
    BY <2>15 DEF ClearFailures
  <2>16. CASE ReadPosition(c)
    BY <2>16 DEF ReadPosition
  <2>17. CASE CountSuccess(c)
    BY <2>17 DEF CountSuccess
  <2>18. CASE ReturnToPrimary(c)
    BY <2>18 DEF ReturnToPrimary
  <2>19. CASE RestartSuccesses(c)
    BY <2>19 DEF RestartSuccesses
  <2> QED
    BY <2>1, <2>2, <2>3, <2>4, <2>5, <2>6, <2>7, <2>8, <2>9, <2>10, <2>11, <2>12, <2>13, <2>14,
       <2>15, <2>16, <2>17, <2>18, <2>19 DEF ChainStep
<1> QED
  BY <1>1, <1>2, <1>3, ChainMoves

-----------------------------------------------------------------------------
(***************************************************************************)
(* The server                                                              *)
(***************************************************************************)

\* Every way into generate counts up once, every way out counts down once.
LEMMA InFlightNext ==
  ASSUME SupervisorTypeOK, InFlightIsRight, [Next]_vars
  PROVE  InFlightIsRight'
<1>1. inFlight = Cardinality(Guarded)
  BY DEF InFlightIsRight, Guarded
<1>2. IsFiniteSet(Guarded)
  BY SetsOfClients DEF Guarded
<1> SUFFICES inFlight' = Cardinality(Guarded')
  BY DEF InFlightIsRight, Guarded
<1> USE DEF SupervisorTypeOK, Move
<1>3. CASE UNCHANGED serverVars
  <2>1. Guarded' = Guarded /\ inFlight' = inFlight
    BY <1>3 DEF serverVars, Guarded
  <2> QED
    BY <1>1, <2>1
<1>4. CASE \E c \in Clients : Ensure(c) \/ Stamp(c) \/ Leave(c) \/ SupervisorStep(c)
  <2> PICK c \in Clients : Ensure(c) \/ Stamp(c) \/ Leave(c) \/ SupervisorStep(c)
    BY <1>4
  <2> USE <1>1, <1>2
  <2>1. CASE Ensure(c)
    <3>1. Guarded' = Guarded
      BY <2>1 DEF Ensure, Guarded
    <3> QED
      BY <2>1, <3>1 DEF Ensure
  <2>2. CASE FoundHealthy(c)
    <3>1. Guarded' = Guarded
      BY <2>2 DEF FoundHealthy, Guarded
    <3> QED
      BY <2>2, <3>1 DEF FoundHealthy
  <2>3. CASE FoundDown(c)
    <3>1. Guarded' = Guarded
      BY <2>3 DEF FoundDown, Guarded
    <3> QED
      BY <2>3, <3>1 DEF FoundDown
  <2>4. CASE SpawnsNothing(c)
    <3>1. Guarded' = Guarded
      BY <2>4 DEF SpawnsNothing, Guarded
    <3> QED
      BY <2>4, <3>1 DEF SpawnsNothing
  <2>5. CASE Spawn(c)
    <3>1. Guarded' = Guarded
      BY <2>5 DEF Spawn, Guarded
    <3> QED
      BY <2>5, <3>1 DEF Spawn
  <2>6. CASE SpawnFails(c)
    <3>1. Guarded' = Guarded
      BY <2>6 DEF SpawnFails, Guarded
    <3> QED
      BY <2>6, <3>1 DEF SpawnFails
  <2>7. CASE StopPolling(c)
    <3>1. Guarded' = Guarded
      BY <2>7 DEF StopPolling, Guarded
    <3> QED
      BY <2>7, <3>1 DEF StopPolling
  <2>8. CASE Enter(c)
    <3>1. c \notin Guarded /\ Guarded' = Guarded \cup {c}
      BY <2>8 DEF Enter, Guarded
    <3> QED
      BY <2>8, <3>1, FS_AddElement DEF Enter
  <2>9. CASE Stamp(c)
    <3>1. Guarded' = Guarded
      BY <2>9 DEF Stamp, Guarded
    <3> QED
      BY <2>9, <3>1 DEF Stamp
  <2>10. CASE Leave(c)
    <3>1. c \in Guarded /\ Guarded' = Guarded \ {c}
      BY <2>10 DEF Leave, Guarded
    <3> QED
      BY <2>10, <3>1, FS_RemoveElement DEF Leave
  <2>11. CASE Restamp(c)
    <3>1. Guarded' = Guarded
      BY <2>11 DEF Restamp, Guarded
    <3> QED
      BY <2>11, <3>1 DEF Restamp
  <2> QED
    BY <2>1, <2>2, <2>3, <2>4, <2>5, <2>6, <2>7, <2>8, <2>9, <2>10, <2>11 DEF SupervisorStep
<1>5. CASE Watchdog \/ Environment \/ IdleTimeout
  <2>1. Guarded' = Guarded /\ inFlight' = inFlight
    BY <1>5 DEF Watchdog, WatchdogSeesNoRequest, WatchdogReadsTimer, WatchdogKills,
                Environment, ForeignServer, ServerReady, ServerExits, IdleTimeout, Guarded
  <2> QED
    BY <1>1, <2>1
<1> QED
  BY <1>3, <1>4, <1>5, ServerMoves

\* There is a free process to spawn.
LEMMA FreeProcess ==
  ASSUME Running # Processes
  PROVE  (CHOOSE p \in Processes : p \notin Running) \in Processes \ Running
<1>1. \E p \in Processes : p \notin Running
  BY DEF Running
<1> QED
  BY <1>1

\* The types of the supervisor; that the count is a natural number is InFlightNext.
LEMMA SupervisorTypeNext ==
  ASSUME SupervisorTypeOK, InFlightIsRight', [Next]_vars
  PROVE  SupervisorTypeOK'
<1> USE DEF SupervisorTypeOK, Move
<1>0. inFlight' \in Nat
  <2>1. Guarded' \in SUBSET Clients
    BY DEF Guarded
  <2> QED
    BY <2>1, SetsOfClients DEF InFlightIsRight, Guarded
<1> USE <1>0
<1>1. CASE UNCHANGED serverVars
  BY <1>1 DEF serverVars
<1>2. CASE \E c \in Clients : Ensure(c) \/ Stamp(c) \/ Leave(c) \/ SupervisorStep(c)
  <2> PICK c \in Clients : Ensure(c) \/ Stamp(c) \/ Leave(c) \/ SupervisorStep(c)
    BY <1>2
  <2>1. CASE Ensure(c)
    BY <2>1 DEF Ensure
  <2>2. CASE FoundHealthy(c)
    BY <2>2 DEF FoundHealthy
  <2>3. CASE FoundDown(c)
    BY <2>3 DEF FoundDown
  <2>4. CASE SpawnsNothing(c)
    BY <2>4 DEF SpawnsNothing
  <2>5. CASE Spawn(c)
    <3>1. child' \in Processes
      BY <2>5, FreeProcess DEF Spawn
    <3> QED
      BY <2>5, <3>1 DEF Spawn
  <2>6. CASE SpawnFails(c)
    BY <2>6 DEF SpawnFails
  <2>7. CASE StopPolling(c)
    BY <2>7 DEF StopPolling
  <2>8. CASE Enter(c)
    BY <2>8 DEF Enter
  <2>9. CASE Stamp(c)
    BY <2>9 DEF Stamp
  <2>10. CASE Leave(c)
    BY <2>10 DEF Leave
  <2>11. CASE Restamp(c)
    BY <2>11 DEF Restamp
  <2> QED
    BY <2>1, <2>2, <2>3, <2>4, <2>5, <2>6, <2>7, <2>8, <2>9, <2>10, <2>11 DEF SupervisorStep
<1>3. CASE Watchdog
  BY <1>3 DEF Watchdog, WatchdogSeesNoRequest, WatchdogReadsTimer, WatchdogKills
<1>4. CASE Environment
  BY <1>4 DEF Environment, ForeignServer, ServerReady, ServerExits
<1>5. CASE IdleTimeout
  BY <1>5 DEF IdleTimeout
<1> QED
  BY <1>1, <1>2, <1>3, <1>4, <1>5, ServerMoves

\* Whoever spawns holds the mutex and has found no child running.
LEMMA OneServerNext ==
  ASSUME SupervisorTypeOK, OneServerUnderControl, [Next]_vars
  PROVE  OneServerUnderControl'
<1> USE SupervisorConstants DEF SupervisorTypeOK, Move, OneServerUnderControl, Running
<1>1. CASE UNCHANGED serverVars
  BY <1>1 DEF serverVars
<1>2. CASE \E c \in Clients : Ensure(c) \/ Stamp(c) \/ Leave(c) \/ SupervisorStep(c)
  <2> PICK c \in Clients : Ensure(c) \/ Stamp(c) \/ Leave(c) \/ SupervisorStep(c)
    BY <1>2
  <2>1. CASE Ensure(c)
    BY <2>1 DEF Ensure
  <2>2. CASE FoundHealthy(c)
    BY <2>2 DEF FoundHealthy
  <2>3. CASE FoundDown(c)
    BY <2>3 DEF FoundDown
  <2>4. CASE SpawnsNothing(c)
    BY <2>4 DEF SpawnsNothing
  <2>5. CASE Spawn(c)
    <3>1. child' \in Processes /\ Running = {}
      BY <2>5, FreeProcess DEF Spawn, Running
    <3>2. Running' = {child'}
      BY <2>5, <3>1 DEF Spawn, Running
    <3> QED
      BY <3>2
  <2>6. CASE SpawnFails(c)
    BY <2>6 DEF SpawnFails
  <2>7. CASE StopPolling(c)
    BY <2>7 DEF StopPolling
  <2>8. CASE Enter(c)
    BY <2>8 DEF Enter
  <2>9. CASE Stamp(c)
    BY <2>9 DEF Stamp
  <2>10. CASE Leave(c)
    BY <2>10 DEF Leave
  <2>11. CASE Restamp(c)
    BY <2>11 DEF Restamp
  <2> QED
    BY <2>1, <2>2, <2>3, <2>4, <2>5, <2>6, <2>7, <2>8, <2>9, <2>10, <2>11 DEF SupervisorStep
<1>3. CASE Watchdog
  BY <1>3 DEF Watchdog, WatchdogSeesNoRequest, WatchdogReadsTimer, WatchdogKills
<1>4. CASE Environment
  BY <1>4 DEF Environment, ForeignServer, ServerReady, ServerExits
<1>5. CASE IdleTimeout
  BY <1>5 DEF IdleTimeout
<1> QED
  BY <1>1, <1>2, <1>3, <1>4, <1>5, ServerMoves

-----------------------------------------------------------------------------
(***************************************************************************)
(* The switch of the chain                                                 *)
(***************************************************************************)

\* Neither a counted failure nor one about to be counted is the doing of Ctrl-C: a failed
\* call is counted only if the token is still clear, and then it was clear when it failed.
LEMMA EarnedNext ==
  ASSUME ChainTypeOK, Locals, Earned, [Next]_vars
  PROVE  Earned'
<1>1. IsFiniteSet(Uncounted) /\ Cardinality(Uncounted) \in Nat
  BY SetsOfClients DEF Uncounted
<1> USE ChainConstants, <1>1 DEF ChainTypeOK, Earned
<1>2. CASE UNCHANGED chainVars
  <2>1. Uncounted' = Uncounted
    BY <1>2 DEF chainVars, Uncounted
  <2> QED
    BY <1>2, <2>1 DEF chainVars
<1>3. CASE CtrlC
  <2>1. Uncounted' \in SUBSET Uncounted
    BY <1>3 DEF CtrlC, Cancel, Uncounted, Locals
  <2>2. Cardinality(Uncounted') <= Cardinality(Uncounted) /\ Cardinality(Uncounted') \in Nat
    BY <2>1, FS_Subset, FS_CardinalityType
  <2> QED
    BY <1>3, <2>2 DEF CtrlC
<1>4. CASE \E c \in Clients : Call(c) \/ BackendAnswers(c) \/ CallReturns(c) \/ ChainStep(c)
  <2> PICK c \in Clients : Call(c) \/ BackendAnswers(c) \/ CallReturns(c) \/ ChainStep(c)
    BY <1>4
  <2> USE DEF Goto, Set, Over
  <2>1. CASE Call(c)
    <3>1. Uncounted' = Uncounted
      BY <2>1 DEF Call, Uncounted
    <3> QED
      BY <2>1, <3>1 DEF Call
  <2>2. CASE BackendAnswers(c)
    <3>1. Uncounted' = Uncounted
      BY <2>2 DEF BackendAnswers, Uncounted
    <3> QED
      BY <2>2, <3>1 DEF BackendAnswers
  <2>3. CASE CallReturns(c)
    <3>1. Uncounted' = Uncounted
      BY <2>3 DEF CallReturns, Uncounted
    <3> QED
      BY <2>3, <3>1 DEF CallReturns
  <2>4. CASE StopCancelled(c)
    <3>1. Uncounted' = Uncounted
      BY <2>4 DEF StopCancelled, Uncounted
    <3> QED
      BY <2>4, <3>1 DEF StopCancelled
  <2>5. CASE AttemptsRunOut(c)
    <3>1. Uncounted' = Uncounted
      BY <2>5 DEF AttemptsRunOut, Uncounted
    <3> QED
      BY <2>5, <3>1 DEF AttemptsRunOut
  <2>6. CASE TryCurrent(c)
    <3>1. Uncounted' = Uncounted
      BY <2>6 DEF TryCurrent, Uncounted
    <3> QED
      BY <2>6, <3>1 DEF TryCurrent
  <2>7. CASE ReturnCancelled(c)
    <3>1. Uncounted' = Uncounted
      BY <2>7 DEF ReturnCancelled, Uncounted
    <3> QED
      BY <2>7, <3>1 DEF ReturnCancelled
  <2>8. CASE ForgetSuccesses(c)
    <3>1. Uncounted' = Uncounted
      BY <2>8 DEF ForgetSuccesses, Uncounted
    <3> QED
      BY <2>8, <3>1 DEF ForgetSuccesses
  <2>9. CASE FindNext(c)
    <3>1. Uncounted' = Uncounted
      BY <2>9 DEF FindNext, Uncounted
    <3> QED
      BY <2>9, <3>1 DEF FindNext
  <2>10. CASE SwitchTo(c)
    <3>1. Uncounted' = Uncounted
      BY <2>10 DEF SwitchTo, Uncounted
    <3> QED
      BY <2>10, <3>1 DEF SwitchTo
  <2>11. CASE TestExhausted(c)
    <3>1. Uncounted' = Uncounted
      BY <2>11 DEF TestExhausted, Uncounted
    <3> QED
      BY <2>11, <3>1 DEF TestExhausted
  <2>12. CASE ReadPosition(c)
    <3>1. Uncounted' = Uncounted
      BY <2>12 DEF ReadPosition, Uncounted
    <3> QED
      BY <2>12, <3>1 DEF ReadPosition
  <2>13. CASE CountSuccess(c)
    <3>1. Uncounted' = Uncounted
      BY <2>13 DEF CountSuccess, Uncounted
    <3> QED
      BY <2>13, <3>1 DEF CountSuccess
  <2>14. CASE ReturnToPrimary(c)
    <3>1. Uncounted' = Uncounted
      BY <2>14 DEF ReturnToPrimary, Uncounted
    <3> QED
      BY <2>14, <3>1 DEF ReturnToPrimary
  <2>15. CASE RestartSuccesses(c)
    <3>1. Uncounted' = Uncounted
      BY <2>15 DEF RestartSuccesses, Uncounted
    <3> QED
      BY <2>15, <3>1 DEF RestartSuccesses
  <2>16. CASE ResetFailures(c)
    <3>1. Uncounted' = Uncounted
      BY <2>16 DEF ResetFailures, Uncounted
    <3> QED
      BY <2>16, <3>1 DEF ResetFailures
  <2>17. CASE ClearFailures(c)
    <3>1. Uncounted' = Uncounted
      BY <2>17 DEF ClearFailures, Uncounted
    <3> QED
      BY <2>17, <3>1 DEF ClearFailures
  <2>18. CASE BackendFails(c)
    <3>1. CASE cancelled[c]
      <4>1. Uncounted' = Uncounted
        BY <2>18, <3>1 DEF BackendFails, Uncounted
      <4> QED
        BY <2>18, <3>1, <4>1 DEF BackendFails
    <3>2. CASE ~cancelled[c]
      <4>1. c \notin Uncounted /\ Uncounted' = Uncounted \cup {c}
        BY <2>18, <3>2 DEF BackendFails, Uncounted
      <4>2. Cardinality(Uncounted') = Cardinality(Uncounted) + 1
        BY <4>1, FS_AddElement
      <4> QED
        BY <2>18, <3>2, <4>2, UpToMaxFacts DEF BackendFails
    <3> QED
      BY <3>1, <3>2
  <2>19. CASE CountFailure(c)
    <3>1. c \in Uncounted /\ Uncounted' = Uncounted \ {c}
      BY <2>19 DEF CountFailure, Uncounted
    <3>2. Cardinality(Uncounted') = Cardinality(Uncounted) - 1
      BY <3>1, FS_RemoveElement
    <3>3. Uncounted' \in SUBSET Clients
      BY DEF Uncounted
    <3>4. Cardinality(Uncounted') \in Nat
      BY <3>3, SetsOfClients
    <3>5. faults < MaxFailures => failures' = failures + 1 /\ failures' < MaxFailures
      BY <2>19, <3>2, <3>4 DEF CountFailure, UpToMax
    <3> QED
      BY <2>19, <3>2, <3>4, <3>5 DEF CountFailure
  <2> QED
    BY <2>1, <2>2, <2>3, <2>4, <2>5, <2>6, <2>7, <2>8, <2>9, <2>10, <2>11, <2>12, <2>13, <2>14,
       <2>15, <2>16, <2>17, <2>18, <2>19 DEF ChainStep
<1> QED
  BY <1>2, <1>3, <1>4, ChainMoves

-----------------------------------------------------------------------------
(***************************************************************************)
(* The invariant and what follows from it                                  *)
(***************************************************************************)

\* Nothing has been asked, nothing runs, nothing has failed.
LEMMA InvariantInit == Init => Invariant
<1> SUFFICES ASSUME Init PROVE Invariant
  OBVIOUS
<1> USE DEF Init, ChainInit, TokensInit, SupervisorInit
<1>1. TypeOK
  <2>1. /\ recover \in RecoverOptions
        /\ current \in 1 .. Entries
        /\ failures \in 0 .. MaxFailures
        /\ successes \in Nat
        /\ faults \in 0 .. MaxFailures
    BY ChainConstants
  <2>2. cancelled \in [Clients -> BOOLEAN]
    OBVIOUS
  <2>3. pc \in [Clients -> Locations]
    BY DEF Locations, Over
  <2>4. reg \in [Clients -> Nat]
    OBVIOUS
  <2>5. attempts \in [Clients -> 0 .. MaxAttempts]
    BY ChainConstants DEF MaxAttempts
  <2>6. overlapped \subseteq Clients
    OBVIOUS
  <2>7. SupervisorTypeOK
    BY DEF SupervisorTypeOK
  <2> QED
    BY <2>1, <2>2, <2>3, <2>4, <2>5, <2>6, <2>7 DEF TypeOK, ChainTypeOK
<1>2. Locals
  BY DEF Locals
<1>3. InFlightIsRight
  <2>1. {c \in Clients : at[c] \in {"stamp", "inside"}} = {}
    OBVIOUS
  <2> QED
    BY <2>1, FS_EmptySet DEF InFlightIsRight
<1>4. OneServerUnderControl
  BY DEF OneServerUnderControl, Running
<1>5. Earned
  <2>1. Uncounted = {}
    BY DEF Uncounted
  <2> QED
    BY <2>1, FS_EmptySet DEF Earned
<1> QED
  BY <1>1, <1>2, <1>3, <1>4, <1>5 DEF Invariant

\* The parts of the invariant carry each other from step to step.
LEMMA InvariantNext == Invariant /\ [Next]_vars => Invariant'
<1> SUFFICES ASSUME Invariant, [Next]_vars PROVE Invariant'
  OBVIOUS
<1> USE DEF Invariant, TypeOK
<1>1. ChainTypeOK' /\ Locals'
  BY ChainTypeNext
<1>2. InFlightIsRight'
  BY InFlightNext
<1>3. SupervisorTypeOK'
  BY <1>2, SupervisorTypeNext
<1>4. OneServerUnderControl'
  BY OneServerNext
<1>5. Earned'
  BY EarnedNext
<1> QED
  BY <1>1, <1>2, <1>3, <1>4, <1>5

\* Init and the step together.
LEMMA InvariantHolds == Spec => []Invariant
  BY InvariantInit, InvariantNext, PTL DEF Spec

\* For every number of threads and entries the state keeps its shape: the chain never
\* points past its end, and no request tries more than twice for each entry.
THEOREM TypeCorrect == Spec => []TypeOK
<1>1. Invariant => TypeOK
  BY DEF Invariant
<1> QED
  BY <1>1, InvariantHolds, PTL

\* The watchdog's count of requests is right, on every path through generate.
THEOREM InFlightCorrect == Spec => []InFlightIsRight
<1>1. Invariant => InFlightIsRight
  BY DEF Invariant
<1> QED
  BY <1>1, InvariantHolds, PTL

\* However many threads find the server down, the supervisor runs at most the one
\* process it holds (spawn, kill).
THEOREM OneServer == Spec => []OneServerUnderControl
<1>1. Invariant => OneServerUnderControl
  BY DEF Invariant
<1> QED
  BY <1>1, InvariantHolds, PTL

\* The chain leaves its primary only for MaxFailures failures that no Ctrl-C caused.
THEOREM SwitchEarned == Spec => []SwitchIsEarned
<1>1. Invariant => SwitchIsEarned
  BY DEF Invariant, Earned, SwitchIsEarned
<1> QED
  BY <1>1, InvariantHolds, PTL

-----------------------------------------------------------------------------
(***************************************************************************)
(* A request that is alone in the chain                                    *)
(***************************************************************************)

\* The failures it takes to get from the primary to an entry.
CostOf(entry) == MaxFailures * (entry - 1)

\* A request notices when it is not alone.
Overlaps ==
    \A c, d \in Clients : c # d /\ pc[c] # "idle" /\ pc[d] # "idle" => c \in overlapped

\* The attempts of a request, before its next one: none, or no more than failures were
\* counted since the chain was at its primary.  A count of MaxFailures may only be left
\* behind by other requests.
Paid(n) == n = 0 \/ (n <= CostOf(current) + failures /\ failures < MaxFailures)

\* Where a lone request stands on its way to the last entry, which never fails.
OnTheWay(c) ==
    /\ pc[c] = "idle" => attempts[c] = 0
    /\ pc[c] = "check" => /\ Paid(attempts[c])
                          /\ current = Entries => attempts[c] <= CostOf(Entries)
    /\ pc[c] = "call" => reg[c] = current /\ attempts[c] > 0 /\ Paid(attempts[c] - 1)
    /\ pc[c] = "error" /\ ~cancelled[c] =>
           current < Entries /\ attempts[c] > 0 /\ Paid(attempts[c] - 1)
    /\ pc[c] = "forget" =>
           current < Entries /\ reg[c] = failures /\ attempts[c] <= CostOf(current) + failures
    /\ pc[c] = "last" =>
           /\ current < Entries /\ failures < MaxFailures
           /\ attempts[c] <= CostOf(current) + failures
    /\ pc[c] = "next" => current < Entries /\ attempts[c] <= CostOf(current + 1)
    /\ pc[c] = "switch" =>
           current < Entries /\ reg[c] = current + 1 /\ attempts[c] <= CostOf(current + 1)
    /\ pc[c] = "reset" => attempts[c] <= CostOf(current)
    /\ pc[c] # "failed"

AloneOnTheWay == \A c \in Clients \ overlapped : OnTheWay(c)

LEMMA CostFacts ==
  /\ \A k \in 1 .. Entries : CostOf(k) \in Nat /\ CostOf(k) <= CostOf(Entries)
  /\ \A k \in 1 .. Entries : k < Entries => CostOf(k + 1) = CostOf(k) + MaxFailures
<1>1. \A m, n \in Nat : m * n \in Nat
  OBVIOUS
<1>2. ASSUME NEW k \in 1 .. Entries PROVE CostOf(k) \in Nat /\ CostOf(k) <= CostOf(Entries)
  <2> DEFINE rest == Entries - k
             m == MaxFailures
  <2>1. rest \in Nat /\ k - 1 \in Nat /\ m \in Nat /\ Entries \in Nat /\ k \in Nat
    BY ChainConstants
  <2>2. m * rest \in Nat /\ m * (k - 1) \in Nat
    BY <1>1, <2>1
  <2>3. m * (Entries - 1) = m * (k - 1) + m * rest
    BY <2>1
  <2> HIDE DEF m, rest
  <2> QED
    BY <2>2, <2>3 DEF CostOf, m
<1>3. ASSUME NEW k \in 1 .. Entries, k < Entries PROVE CostOf(k + 1) = CostOf(k) + MaxFailures
  BY ChainConstants DEF CostOf
<1> QED
  BY <1>2, <1>3

\* Only a call and its return change who is overlapped, and they cannot hide another request.
LEMMA OverlapsNext ==
  ASSUME ChainTypeOK, Overlaps, [Next]_vars
  PROVE  Overlaps'
<1> USE DEF ChainTypeOK, Overlaps
<1>1. CASE UNCHANGED chainVars
  BY <1>1 DEF chainVars
<1>2. CASE CtrlC
  BY <1>2 DEF CtrlC
<1>3. CASE \E c \in Clients : Call(c) \/ BackendAnswers(c) \/ CallReturns(c) \/ ChainStep(c)
  <2> PICK c \in Clients : Call(c) \/ BackendAnswers(c) \/ CallReturns(c) \/ ChainStep(c)
    BY <1>3
  <2>1. CASE Call(c)
    BY <2>1 DEF Call, Goto
  <2>2. CASE CallReturns(c)
    BY <2>2 DEF CallReturns, Over
  <2>3. CASE BackendAnswers(c) \/ ChainStep(c)
    <3>1. overlapped' = overlapped /\ pc[c] # "idle" /\ \A d \in Clients \ {c} : pc'[d] = pc[d]
      BY <2>3 DEF BackendAnswers, ChainStep, StopCancelled, AttemptsRunOut, TryCurrent,
                  BackendFails, ReturnCancelled, CountFailure, ForgetSuccesses, FindNext,
                  SwitchTo, ResetFailures, TestExhausted, ClearFailures, ReadPosition,
                  CountSuccess, ReturnToPrimary, RestartSuccesses, Goto
    <3> QED
      BY <3>1
  <2> QED
    BY <2>1, <2>2, <2>3
<1> QED
  BY <1>1, <1>2, <1>3, ChainMoves

\* A request that is alone has nobody beside it that could move.
LEMMA OthersAreIdle ==
  ASSUME ChainTypeOK, Overlaps, AloneOnTheWay, NEW c \in Clients,
         Call(c) \/ BackendAnswers(c) \/ CallReturns(c) \/ ChainStep(c),
         NEW d \in Clients \ {c}, d \notin overlapped'
  PROVE  OnTheWay(d)'
<1>1. d \notin overlapped /\ pc[d] = "idle"
  <2> USE DEF ChainTypeOK, Overlaps
  <2>1. CASE Call(c)
    BY <2>1 DEF Call, Goto
  <2>2. CASE CallReturns(c)
    BY <2>2 DEF CallReturns, Over
  <2>3. CASE BackendAnswers(c) \/ ChainStep(c)
    <3>1. overlapped' = overlapped /\ pc[c] # "idle"
      BY <2>3 DEF BackendAnswers, ChainStep, StopCancelled, AttemptsRunOut, TryCurrent,
                  BackendFails, ReturnCancelled, CountFailure, ForgetSuccesses, FindNext,
                  SwitchTo, ResetFailures, TestExhausted, ClearFailures, ReadPosition,
                  CountSuccess, ReturnToPrimary, RestartSuccesses, Goto
    <3> QED
      BY <3>1
  <2> QED
    BY <2>1, <2>2, <2>3
<1>2. pc'[d] = pc[d] /\ attempts'[d] = attempts[d]
  BY DEF ChainTypeOK, Call, CallReturns, BackendAnswers, ChainStep, StopCancelled,
         AttemptsRunOut, TryCurrent, BackendFails, ReturnCancelled, CountFailure,
         ForgetSuccesses, FindNext, SwitchTo, ResetFailures, TestExhausted, ClearFailures,
         ReadPosition, CountSuccess, ReturnToPrimary, RestartSuccesses, Goto
<1>3. attempts[d] = 0
  BY <1>1 DEF AloneOnTheWay, OnTheWay
<1> QED
  BY <1>1, <1>2, <1>3 DEF OnTheWay

\* The last entry is reached before the attempts run out, and it answers.
LEMMA AloneNext ==
  ASSUME CostOf(Entries) < MaxAttempts, BackendOf(Entries) \in Reliable,
         ChainTypeOK, Locals, Overlaps, AloneOnTheWay, [Next]_vars
  PROVE  AloneOnTheWay'
<1>0. /\ Entries \in Nat /\ Entries >= 1 /\ MaxFailures \in Nat /\ MaxFailures >= 1
      /\ current \in 1 .. Entries /\ failures \in 0 .. MaxFailures
      /\ CostOf(current) \in Nat /\ CostOf(current) <= CostOf(Entries)
      /\ CostOf(Entries) \in Nat
      /\ current < Entries => /\ CostOf(current + 1) = CostOf(current) + MaxFailures
                              /\ CostOf(current + 1) <= CostOf(Entries)
                              /\ CostOf(current + 1) \in Nat
      /\ \A c \in Clients : attempts[c] \in Nat /\ reg[c] \in Nat
  <2>1. /\ Entries \in Nat /\ Entries >= 1 /\ MaxFailures \in Nat /\ MaxFailures >= 1
        /\ current \in 1 .. Entries /\ failures \in 0 .. MaxFailures
        /\ \A c \in Clients : attempts[c] \in Nat /\ reg[c] \in Nat
    BY ChainConstants DEF ChainTypeOK, MaxAttempts
  <2>2. current < Entries => current + 1 \in 1 .. Entries
    BY <2>1
  <2>3. Entries \in 1 .. Entries
    BY <2>1
  <2> QED
    BY <2>1, <2>2, <2>3, CostFacts
<1>1. CASE UNCHANGED chainVars
  BY <1>1 DEF chainVars, AloneOnTheWay, OnTheWay, Paid
<1>2. CASE CtrlC
  <2>1. \A c \in Clients : cancelled[c] => cancelled'[c]
    BY <1>2 DEF CtrlC, Cancel, Locals
  <2> QED
    BY <1>2, <2>1 DEF CtrlC, AloneOnTheWay, OnTheWay, Paid
<1>3. CASE \E c \in Clients : Call(c) \/ BackendAnswers(c) \/ CallReturns(c) \/ ChainStep(c)
  <2> PICK c \in Clients : Call(c) \/ BackendAnswers(c) \/ CallReturns(c) \/ ChainStep(c)
    BY <1>3
  <2> SUFFICES ASSUME c \notin overlapped' PROVE OnTheWay(c)'
    BY OthersAreIdle DEF AloneOnTheWay
  <2> USE DEF Goto, Set, Over, ChainTypeOK
  <2>1. CASE Call(c)
    <3>1. c \notin overlapped
      BY <2>1 DEF Call
    <3>2. attempts[c] = 0
      BY <2>1, <3>1 DEF AloneOnTheWay, OnTheWay, Call
    <3>3. pc'[c] = "check" /\ attempts'[c] = 0
      BY <2>1, <3>2 DEF Call
    <3>4. CostOf(Entries) \in Nat
      BY <1>0
    <3> QED
      BY <3>3, <3>4 DEF OnTheWay, Paid
  <2>2. CASE CallReturns(c)
    <3>1. pc'[c] = "idle" /\ attempts'[c] = 0
      BY <2>2 DEF CallReturns
    <3> QED
      BY <3>1 DEF OnTheWay
  <2>3. CASE BackendAnswers(c) \/ ChainStep(c)
    <3>1. c \notin overlapped
      BY <2>3 DEF BackendAnswers, ChainStep, StopCancelled, AttemptsRunOut, TryCurrent,
                  BackendFails, ReturnCancelled, CountFailure, ForgetSuccesses, FindNext,
                  SwitchTo, ResetFailures, TestExhausted, ClearFailures, ReadPosition,
                  CountSuccess, ReturnToPrimary, RestartSuccesses
    <3>2. OnTheWay(c)
      BY <3>1 DEF AloneOnTheWay
    <3>3. CASE AttemptsRunOut(c)
      <4>1. attempts[c] = MaxAttempts /\ pc[c] = "check"
        BY <3>3 DEF AttemptsRunOut
      <4>2. Paid(attempts[c]) /\ (current = Entries => attempts[c] <= CostOf(Entries))
        BY <3>2, <4>1 DEF OnTheWay
      <4>3. attempts[c] # 0
        BY <4>1, <1>0 DEF MaxAttempts
      <4> QED
        BY <4>1, <4>2, <4>3, <1>0 DEF Paid
    <3>4. CASE TryCurrent(c)
      <4>1. /\ pc[c] = "check" /\ pc'[c] = "call" /\ reg'[c] = current
            /\ attempts'[c] = attempts[c] + 1
            /\ current' = current /\ failures' = failures
        BY <3>4 DEF TryCurrent
      <4>2. Paid(attempts[c])
        BY <3>2, <4>1 DEF OnTheWay
      <4>3. attempts'[c] - 1 = attempts[c] /\ attempts'[c] > 0
        BY <4>1, <1>0
      <4> QED
        BY <4>1, <4>2, <4>3 DEF OnTheWay, Paid
    <3>5. CASE BackendFails(c)
      <4>1. /\ pc[c] = "call" /\ pc'[c] = "error" /\ attempts' = attempts
            /\ current' = current /\ failures' = failures /\ cancelled' = cancelled
            /\ cancelled[c] \/ BackendOf(reg[c]) \notin Reliable
        BY <3>5 DEF BackendFails
      <4>2. reg[c] = current /\ attempts[c] > 0 /\ Paid(attempts[c] - 1)
        BY <3>2, <4>1 DEF OnTheWay
      <4>3. ~cancelled[c] => current < Entries
        BY <4>1, <4>2, <1>0
      <4> QED
        BY <4>1, <4>2, <4>3 DEF OnTheWay, Paid
    <3>6. CASE CountFailure(c)
      <4>1. /\ pc[c] = "error" /\ ~cancelled[c] /\ pc'[c] = "forget" /\ attempts' = attempts
            /\ current' = current /\ failures' = UpToMax(failures + 1) /\ reg'[c] = failures'
        BY <3>6 DEF CountFailure
      <4>2. current < Entries /\ attempts[c] > 0 /\ Paid(attempts[c] - 1)
        BY <3>2, <4>1 DEF OnTheWay
      <4>3. attempts[c] <= CostOf(current) + failures'
        BY <4>1, <4>2, <1>0 DEF Paid, UpToMax
      <4> QED
        BY <4>1, <4>2, <4>3 DEF OnTheWay
    <3>7. CASE ForgetSuccesses(c)
      <4>1. /\ pc[c] = "forget" /\ attempts' = attempts /\ current' = current
            /\ failures' = failures
            /\ pc'[c] = IF reg[c] >= MaxFailures THEN "next" ELSE "last"
        BY <3>7 DEF ForgetSuccesses
      <4>2. current < Entries /\ reg[c] = failures /\ attempts[c] <= CostOf(current) + failures
        BY <3>2, <4>1 DEF OnTheWay
      <4>3. CASE reg[c] >= MaxFailures
        <5>1. attempts[c] <= CostOf(current + 1)
          BY <4>2, <4>3, <1>0
        <5> QED
          BY <4>1, <4>2, <4>3, <5>1 DEF OnTheWay
      <4>4. CASE ~(reg[c] >= MaxFailures)
        <5>1. failures < MaxFailures
          BY <4>2, <4>4, <1>0
        <5> QED
          BY <4>1, <4>2, <4>4, <5>1 DEF OnTheWay
      <4> QED
        BY <4>3, <4>4
    <3>8. CASE FindNext(c)
      <4>1. /\ pc[c] = "next" /\ attempts' = attempts /\ current' = current
            /\ pc'[c] = IF current < Entries THEN "switch" ELSE "last"
            /\ reg'[c] = IF current < Entries THEN current + 1 ELSE 0
        BY <3>8 DEF FindNext
      <4>2. current < Entries /\ attempts[c] <= CostOf(current + 1)
        BY <3>2, <4>1 DEF OnTheWay
      <4> QED
        BY <4>1, <4>2 DEF OnTheWay
    <3>9. CASE SwitchTo(c)
      <4>1. pc[c] = "switch" /\ pc'[c] = "reset" /\ attempts' = attempts /\ current' = reg[c]
        BY <3>9 DEF SwitchTo
      <4>2. reg[c] = current + 1 /\ attempts[c] <= CostOf(current + 1)
        BY <3>2, <4>1 DEF OnTheWay
      <4>3. attempts'[c] <= CostOf(current')
        BY <4>1, <4>2
      <4> QED
        BY <4>1, <4>3 DEF OnTheWay
    <3>10. CASE ResetFailures(c)
      <4>1. /\ pc[c] = "reset" /\ pc'[c] = "check" /\ attempts' = attempts
            /\ current' = current /\ failures' = 0
        BY <3>10 DEF ResetFailures
      <4>2. attempts[c] <= CostOf(current)
        BY <3>2, <4>1 DEF OnTheWay
      <4>3. attempts[c] <= CostOf(current) + 0 /\ 0 < MaxFailures /\ attempts[c] <= CostOf(Entries)
        BY <4>2, <1>0
      <4> QED
        BY <4>1, <4>3 DEF OnTheWay, Paid
    <3>11. CASE TestExhausted(c)
      <4>1. /\ pc[c] = "last" /\ attempts' = attempts
            /\ current' = current /\ failures' = failures
            /\ pc'[c] = IF current = Entries THEN "failed" ELSE "check"
        BY <3>11 DEF TestExhausted
      <4>2. /\ current < Entries /\ failures < MaxFailures
            /\ attempts[c] <= CostOf(current) + failures
        BY <3>2, <4>1 DEF OnTheWay
      <4>3. current # Entries
        BY <4>2, <1>0
      <4> QED
        BY <4>1, <4>2, <4>3 DEF OnTheWay, Paid
    <3>12. CASE \/ BackendAnswers(c) \/ StopCancelled(c) \/ ReturnCancelled(c)
                \/ ClearFailures(c) \/ ReadPosition(c) \/ CountSuccess(c)
                \/ ReturnToPrimary(c) \/ RestartSuccesses(c)
      <4>1. pc'[c] \in {"stopped", "clear", "position", "answered", "count", "return", "restart"}
        BY <3>12 DEF BackendAnswers, StopCancelled, ReturnCancelled, ClearFailures,
                     ReadPosition, CountSuccess, ReturnToPrimary, RestartSuccesses
      <4> QED
        BY <4>1 DEF OnTheWay
    <3> QED
      BY <2>3, <3>3, <3>4, <3>5, <3>6, <3>7, <3>8, <3>9, <3>10, <3>11, <3>12 DEF ChainStep
  <2> QED
    BY <2>1, <2>2, <2>3
<1> QED
  BY <1>1, <1>2, <1>3, ChainMoves

\* A lone request does not fail while the server of the last entry answers, whatever failures
\* earlier requests left behind, if the failures it takes to get there are fewer than the
\* attempts generate makes: with the default threshold of 2 they always are.
THEOREM FallbackAnswers ==
  ASSUME MaxFailures * (Entries - 1) < MaxAttempts
  PROVE  Spec => []ReliableFallbackAnswers
<1>1. CASE BackendOf(Entries) \in Reliable
  <2> DEFINE Alone == Overlaps /\ AloneOnTheWay
  <2>1. Init => Alone
    BY DEF Init, ChainInit, Overlaps, AloneOnTheWay, OnTheWay
  <2>2. Alone /\ Invariant /\ [Next]_vars => Alone'
    BY <1>1, OverlapsNext, AloneNext DEF Invariant, TypeOK, CostOf
  <2>3. Alone => ReliableFallbackAnswers
    BY DEF AloneOnTheWay, OnTheWay, ReliableFallbackAnswers
  <2> QED
    BY <2>1, <2>2, <2>3, InvariantHolds, PTL DEF Spec
<1>2. CASE BackendOf(Entries) \notin Reliable
  <2>1. ReliableFallbackAnswers
    BY <1>2 DEF ReliableFallbackAnswers
  <2> QED
    BY <2>1, PTL
<1> QED
  BY <1>1, <1>2

\* So it is with the default threshold (FallbackChain::new), however long the chain.
COROLLARY FallbackAnswersByDefault ==
  ASSUME MaxFailures <= 2
  PROVE  Spec => []ReliableFallbackAnswers
<1>1. MaxFailures \in {1, 2} /\ Entries \in Nat /\ Entries >= 1
  BY ChainConstants
<1>2. MaxFailures * (Entries - 1) < MaxAttempts
  <2>1. CASE MaxFailures = 1
    BY <1>1, <2>1 DEF MaxAttempts
  <2>2. CASE MaxFailures = 2
    BY <1>1, <2>2 DEF MaxAttempts
  <2> QED
    BY <1>1, <2>1, <2>2
<1> QED
  BY <1>2, FallbackAnswers
-----------------------------------------------------------------------------
(***************************************************************************)
(* A request's termination, but for the fairness                           *)
(***************************************************************************)

\* The places of generate from which it may go round its loop again.
Rounds == {"check", "call", "error", "forget", "next", "switch", "reset", "last"}

\* What generate has left at a place, in this round and after it.
ChainCost ==
    [idle |-> 0, answered |-> 0, failed |-> 0, stopped |-> 0,
     check |-> 6, call |-> 12, error |-> 11, forget |-> 10, next |-> 9, switch |-> 8,
     reset |-> 7, last |-> 7,
     clear |-> 5, position |-> 4, count |-> 3, return |-> 2, restart |-> 1]

ChainLeft(c) ==
    ChainCost[pc[c]] + (IF pc[c] \in Rounds THEN 7 * (MaxAttempts - attempts[c]) ELSE 0)

\* What a request has left at a place of the supervisor, without the chain.
ServerCost ==
    [out |-> 0, probe |-> 13, spawn |-> 12, poll |-> 11, enter |-> 10, stamp |-> 9,
     inside |-> 2, restamp |-> 1]

RequestLeft(c) ==
    ServerCost[at[c]] + (CASE at[c] = "inside" -> ChainLeft(c)
                           [] at[c] \in {"out", "restamp"} -> 0
                           [] OTHER -> 7 * MaxAttempts)

\* Whatever the others do, a thread inside a request stays where it is or uses something up.
RequestIsUsedUp ==
    [][ \A c \in Clients :
            at[c] # "out" => \/ RequestLeft(c)' < RequestLeft(c)
                             \/ at'[c] = at[c] /\ pc'[c] = pc[c] ]_vars

\* The chain is entered by requests only, and its counter starts from 0 with each.
FreshChain ==
    \A c \in Clients :
        /\ at[c] # "inside" => pc[c] = "idle"
        /\ pc[c] = "idle" => attempts[c] = 0
        /\ pc[c] \in Rounds \ {"check"} => attempts[c] > 0

LEMMA AttemptsType == MaxAttempts \in Nat /\ MaxAttempts > 0
  BY ChainConstants DEF MaxAttempts

LEMMA ChainLeftType ==
  ASSUME ChainTypeOK, FreshChain, NEW c \in Clients
  PROVE  ChainLeft(c) \in 0 .. 7 * MaxAttempts + 6
<1> DEFINE rest == MaxAttempts - attempts[c]
<1>1. MaxAttempts \in Nat /\ rest \in 0 .. MaxAttempts
  BY AttemptsType DEF ChainTypeOK
<1>2. CASE pc[c] \notin Rounds
  <2>1. ChainCost[pc[c]] \in 0 .. 5
    BY <1>2 DEF ChainTypeOK, Locations, Over, Rounds, ChainCost
  <2> QED
    BY <1>1, <1>2, <2>1 DEF ChainLeft
<1>3. CASE pc[c] = "check"
  <2>1. ChainLeft(c) = 6 + 7 * rest
    BY <1>3 DEF ChainLeft, ChainCost, Rounds
  <2> HIDE DEF rest
  <2> QED
    BY <1>1, <2>1
<1>4. CASE pc[c] \in Rounds \ {"check"}
  <2>1. ChainLeft(c) = ChainCost[pc[c]] + 7 * rest /\ ChainCost[pc[c]] \in 0 .. 12
    BY <1>4 DEF ChainLeft, ChainCost, Rounds
  <2>2. rest < MaxAttempts
    BY <1>4, AttemptsType DEF FreshChain, ChainTypeOK
  <2> HIDE DEF rest
  <2> QED
    BY <1>1, <2>1, <2>2
<1> QED
  BY <1>2, <1>3, <1>4

LEMMA RequestLeftType ==
  ASSUME ChainTypeOK, SupervisorTypeOK, FreshChain, NEW c \in Clients
  PROVE  RequestLeft(c) \in 0 .. 7 * MaxAttempts + 13
<1>1. CASE at[c] = "inside"
  <2>1. RequestLeft(c) = 2 + ChainLeft(c)
    BY <1>1 DEF RequestLeft, ServerCost
  <2> QED
    BY <2>1, ChainLeftType, AttemptsType
<1>2. CASE at[c] \in {"out", "restamp"}
  <2>1. RequestLeft(c) \in 0 .. 1
    BY <1>2 DEF RequestLeft, ServerCost
  <2> QED
    BY <2>1, AttemptsType
<1>3. CASE at[c] \in {"probe", "spawn", "poll", "enter", "stamp"}
  <2>1. RequestLeft(c) = ServerCost[at[c]] + 7 * MaxAttempts /\ ServerCost[at[c]] \in 9 .. 13
    BY <1>3 DEF RequestLeft, ServerCost
  <2> QED
    BY <2>1, AttemptsType
<1> QED
  BY <1>1, <1>2, <1>3 DEF SupervisorTypeOK

\* A step of generate goes on in this round, or takes one of the attempts that are left.
LEMMA ChainGoesOn ==
  ASSUME ChainTypeOK, NEW c \in Clients, BackendAnswers(c) \/ ChainStep(c)
  PROVE  \/ /\ pc'[c] \notin Rounds \cup {"idle"}
            /\ ChainCost[pc'[c]] < ChainCost[pc[c]]
            /\ attempts'[c] = attempts[c]
         \/ /\ pc[c] \in Rounds /\ pc'[c] \in Rounds
            /\ pc'[c] = "check" \/ pc[c] # "check"
            /\ ChainCost[pc'[c]] < ChainCost[pc[c]]
            /\ attempts'[c] = attempts[c]
         \/ /\ pc[c] = "check" /\ pc'[c] = "call"
            /\ attempts'[c] = attempts[c] + 1
<1> USE DEF ChainTypeOK
<1>1. CASE StopCancelled(c) \/ AttemptsRunOut(c) \/ ReturnCancelled(c)
  <2>1. pc[c] \in {"check", "error"} /\ pc'[c] \in {"stopped", "failed"} /\ attempts' = attempts
    BY <1>1 DEF StopCancelled, AttemptsRunOut, ReturnCancelled, Goto
  <2> QED
    BY <2>1 DEF Rounds, ChainCost
<1>2. CASE TryCurrent(c)
  BY <1>2 DEF TryCurrent, Goto
<1>3. CASE BackendAnswers(c)
  <2>1. pc[c] = "call" /\ pc'[c] = "clear" /\ attempts' = attempts
    BY <1>3 DEF BackendAnswers, Goto
  <2> QED
    BY <2>1 DEF Rounds, ChainCost
<1>4. CASE BackendFails(c) \/ CountFailure(c) \/ ForgetSuccesses(c)
  <2>1. /\ \/ pc[c] = "call" /\ pc'[c] = "error"
           \/ pc[c] = "error" /\ pc'[c] = "forget"
           \/ pc[c] = "forget" /\ pc'[c] \in {"next", "last"}
        /\ attempts' = attempts
    BY <1>4 DEF BackendFails, CountFailure, ForgetSuccesses, Goto
  <2> QED
    BY <2>1 DEF Rounds, ChainCost
<1>5. CASE FindNext(c) \/ SwitchTo(c) \/ ResetFailures(c)
  <2>1. /\ \/ pc[c] = "next" /\ pc'[c] \in {"switch", "last"}
           \/ pc[c] = "switch" /\ pc'[c] = "reset"
           \/ pc[c] = "reset" /\ pc'[c] = "check"
        /\ attempts' = attempts
    BY <1>5 DEF FindNext, SwitchTo, ResetFailures, Goto
  <2> QED
    BY <2>1 DEF Rounds, ChainCost
<1>6. CASE TestExhausted(c)
  <2>1. pc[c] = "last" /\ pc'[c] \in {"failed", "check"} /\ attempts' = attempts
    BY <1>6 DEF TestExhausted, Goto
  <2> QED
    BY <2>1 DEF Rounds, ChainCost
<1>7. CASE ClearFailures(c) \/ ReadPosition(c) \/ CountSuccess(c)
  <2>1. /\ \/ pc[c] = "clear" /\ pc'[c] = "position"
           \/ pc[c] = "position" /\ pc'[c] \in {"answered", "count"}
           \/ pc[c] = "count" /\ pc'[c] \in {"return", "answered"}
        /\ attempts' = attempts
    BY <1>7 DEF ClearFailures, ReadPosition, CountSuccess, Goto
  <2> QED
    BY <2>1 DEF Rounds, ChainCost
<1>8. CASE ReturnToPrimary(c) \/ RestartSuccesses(c)
  <2>1. /\ \/ pc[c] = "return" /\ pc'[c] = "restart"
           \/ pc[c] = "restart" /\ pc'[c] = "answered"
        /\ attempts' = attempts
    BY <1>8 DEF ReturnToPrimary, RestartSuccesses, Goto
  <2> QED
    BY <2>1 DEF Rounds, ChainCost
<1> QED
  BY <1>1, <1>2, <1>3, <1>4, <1>5, <1>6, <1>7, <1>8 DEF ChainStep

LEMMA ChainUsesUp ==
  ASSUME ChainTypeOK, ChainTypeOK', NEW c \in Clients, BackendAnswers(c) \/ ChainStep(c)
  PROVE  ChainLeft(c)' < ChainLeft(c)
<1> DEFINE rest == MaxAttempts - attempts[c]
<1>1. /\ MaxAttempts \in Nat /\ attempts[c] \in 0 .. MaxAttempts /\ rest \in Nat
      /\ ChainCost[pc[c]] \in Nat /\ ChainCost[pc'[c]] \in Nat
  BY AttemptsType DEF ChainTypeOK, Locations, Over, ChainCost
<1>2. CASE /\ pc'[c] \notin Rounds
           /\ ChainCost[pc'[c]] < ChainCost[pc[c]]
  <2>1. ChainLeft(c)' = ChainCost[pc'[c]] /\ ChainLeft(c) \in {ChainCost[pc[c]], ChainCost[pc[c]] + 7 * rest}
    BY <1>1, <1>2 DEF ChainLeft
  <2> HIDE DEF rest
  <2> QED
    BY <1>1, <1>2, <2>1
<1>3. CASE /\ pc[c] \in Rounds /\ pc'[c] \in Rounds
           /\ ChainCost[pc'[c]] < ChainCost[pc[c]]
           /\ attempts'[c] = attempts[c]
  <2>1. ChainLeft(c) = ChainCost[pc[c]] + 7 * rest /\ ChainLeft(c)' = ChainCost[pc'[c]] + 7 * rest
    BY <1>3 DEF ChainLeft
  <2> HIDE DEF rest
  <2> QED
    BY <1>1, <1>3, <2>1
<1>4. CASE pc[c] = "check" /\ pc'[c] = "call" /\ attempts'[c] = attempts[c] + 1
  <2>1. ChainLeft(c) = 6 + 7 * rest /\ ChainLeft(c)' = 12 + 7 * (rest - 1)
    BY <1>1, <1>4 DEF ChainLeft, ChainCost, Rounds
  <2> HIDE DEF rest
  <2> QED
    BY <1>1, <2>1
<1> QED
  BY <1>2, <1>3, <1>4, ChainGoesOn

\* What a step of one thread leaves alone of another.
LEMMA OthersStay ==
  ASSUME TypeOK, NEW c \in Clients, NEW d \in Clients \ {c}, Request(c) \/ Progress(c)
  PROVE  at'[d] = at[d] /\ pc'[d] = pc[d] /\ attempts'[d] = attempts[d]
<1>1. at'[d] = at[d]
  BY DEF TypeOK, SupervisorTypeOK, Request, Progress, Begin, Answer, End, InChain, InServer,
         serverVars, Ensure, Stamp,
         Leave, SupervisorStep, FoundHealthy, FoundDown, SpawnsNothing, Spawn, SpawnFails,
         StopPolling, Enter, Restamp, Move
<1>2. UNCHANGED <<pc, attempts>> \/ Call(c) \/ BackendAnswers(c) \/ CallReturns(c) \/ ChainStep(c)
  BY DEF Request, Progress, Begin, Answer, End, InChain, InServer, chainVars
<1>3. pc'[d] = pc[d] /\ attempts'[d] = attempts[d]
  BY <1>2 DEF TypeOK, ChainTypeOK, Call, CallReturns, BackendAnswers, ChainStep, StopCancelled,
         AttemptsRunOut, TryCurrent, BackendFails, ReturnCancelled, CountFailure,
         ForgetSuccesses, FindNext, SwitchTo, ResetFailures, TestExhausted, ClearFailures,
         ReadPosition, CountSuccess, ReturnToPrimary, RestartSuccesses, Goto
<1> QED
  BY <1>1, <1>3

\* What a thread's own step does.
LEMMA RequestGoesOn ==
  ASSUME TypeOK, TypeOK', FreshChain, NEW c \in Clients, Request(c) \/ Progress(c)
  PROVE  /\ FreshChain'
         /\ at[c] # "out" => RequestLeft(c)' < RequestLeft(c)
<1> DEFINE Fresh(d) == /\ at[d] # "inside" => pc[d] = "idle"
                       /\ pc[d] = "idle" => attempts[d] = 0
                       /\ pc[d] \in Rounds \ {"check"} => attempts[d] > 0
<1>0. /\ \A d \in Clients : at[d] \in {"out", "probe", "spawn", "poll", "enter", "stamp",
                                       "inside", "restamp"}
      /\ at \in [Clients -> {"out", "probe", "spawn", "poll", "enter", "stamp", "inside",
                             "restamp"}]
      /\ pc \in [Clients -> Locations] /\ attempts \in [Clients -> 0 .. MaxAttempts]
      /\ MaxAttempts \in Nat /\ Fresh(c)
  BY AttemptsType DEF TypeOK, SupervisorTypeOK, ChainTypeOK, FreshChain
<1>1. SUFFICES Fresh(c)' /\ (at[c] # "out" => RequestLeft(c)' < RequestLeft(c))
  <2>1. \A d \in Clients \ {c} : Fresh(d)'
    BY OthersStay DEF FreshChain
  <2> QED
    BY <1>1, <2>1 DEF FreshChain
<1>2. CASE Request(c)
  BY <1>0, <1>2 DEF Request, Ensure, Move, chainVars
<1>3. CASE Begin(c)
  <2>1. /\ at[c] = "stamp" /\ at'[c] = "inside" /\ pc'[c] = "check"
        /\ attempts'[c] = attempts[c] /\ attempts[c] = 0
    BY <1>0, <1>3 DEF Begin, Stamp, Call, Move, Goto
  <2>2. RequestLeft(c) = 9 + 7 * MaxAttempts /\ RequestLeft(c)' = 8 + 7 * MaxAttempts
    BY <1>0, <2>1 DEF RequestLeft, ServerCost, ChainLeft, ChainCost, Rounds
  <2> QED
    BY <1>0, <2>1, <2>2
<1>4. CASE Answer(c) \/ InChain(c)
  <2>1. (BackendAnswers(c) \/ ChainStep(c)) /\ at' = at
    BY <1>4 DEF Answer, InChain, serverVars
  <2>2. \/ pc'[c] \notin Rounds \cup {"idle"}
        \/ pc[c] \in Rounds /\ pc'[c] \in Rounds /\ (pc'[c] = "check" \/ pc[c] # "check")
           /\ attempts'[c] = attempts[c]
        \/ pc'[c] = "call" /\ attempts'[c] = attempts[c] + 1
    BY <2>1, ChainGoesOn DEF TypeOK
  <2>3. pc[c] # "idle"
    BY <2>1 DEF BackendAnswers, ChainStep, StopCancelled, AttemptsRunOut, TryCurrent,
                BackendFails, ReturnCancelled, CountFailure, ForgetSuccesses, FindNext,
                SwitchTo, ResetFailures, TestExhausted, ClearFailures, ReadPosition,
                CountSuccess, ReturnToPrimary, RestartSuccesses, Goto
  <2>4. at[c] = "inside" /\ at'[c] = "inside"
    BY <1>0, <2>1, <2>3
  <2>5. Fresh(c)'
    BY <1>0, <2>2, <2>4 DEF Rounds
  <2>6. ChainLeft(c)' < ChainLeft(c) /\ ChainLeft(c) \in Int /\ ChainLeft(c)' \in Int
    <3>1. ChainLeft(c)' < ChainLeft(c)
      BY <2>1, ChainUsesUp DEF TypeOK
    <3>2. ChainLeft(c) \in Int
      BY ChainLeftType DEF TypeOK
    <3>3. ChainLeft(c)' \in Int
      BY <1>0, <2>2 DEF TypeOK, ChainTypeOK, ChainLeft, ChainCost, Locations, Over
    <3> QED
      BY <3>1, <3>2, <3>3
  <2>7. RequestLeft(c) = 2 + ChainLeft(c) /\ RequestLeft(c)' = 2 + ChainLeft(c)'
    BY <2>4 DEF RequestLeft, ServerCost
  <2> QED
    BY <2>5, <2>6, <2>7
<1>5. CASE End(c)
  <2>1. /\ at[c] = "inside" /\ at'[c] = "restamp" /\ pc[c] \in Over /\ pc'[c] = "idle"
        /\ attempts'[c] = 0
    BY <1>0, <1>5 DEF End, CallReturns, Leave, Move
  <2>2. RequestLeft(c) = 2 /\ RequestLeft(c)' = 1
    BY <2>1 DEF RequestLeft, ServerCost, ChainLeft, ChainCost, Over, Rounds
  <2> QED
    BY <2>1, <2>2 DEF Rounds
<1>6. CASE InServer(c)
  <2>1. /\ \/ at[c] = "probe" /\ at'[c] \in {"enter", "spawn"}
           \/ at[c] = "spawn" /\ at'[c] \in {"poll", "enter"}
           \/ at[c] = "poll" /\ at'[c] = "enter"
           \/ at[c] = "enter" /\ at'[c] = "stamp"
           \/ at[c] = "restamp" /\ at'[c] = "out"
        /\ pc' = pc /\ attempts' = attempts
    BY <1>0, <1>6 DEF InServer, chainVars, SupervisorStep, FoundHealthy, FoundDown,
                      SpawnsNothing, Spawn, SpawnFails, StopPolling, Enter, Restamp, Move
  <2>2. RequestLeft(c)' < RequestLeft(c)
    BY <1>0, <2>1 DEF RequestLeft, ServerCost
  <2> QED
    BY <1>0, <2>1, <2>2
<1> QED
  BY <1>2, <1>3, <1>4, <1>5, <1>6 DEF Progress

LEMMA FreshNext ==
  ASSUME TypeOK, TypeOK', FreshChain, [Next]_vars
  PROVE  /\ FreshChain'
         /\ \A c \in Clients :
                at[c] # "out" => \/ RequestLeft(c)' < RequestLeft(c)
                                 \/ at'[c] = at[c] /\ pc'[c] = pc[c]
<1>1. CASE \E c \in Clients : Request(c) \/ Progress(c)
  <2> PICK c \in Clients : Request(c) \/ Progress(c)
    BY <1>1
  <2> QED
    BY RequestGoesOn, OthersStay
<1>2. CASE WatchdogStep \/ ServerStep \/ IdleTime \/ CtrlC \/ UNCHANGED vars
  <2>1. at' = at /\ pc' = pc /\ attempts' = attempts
    BY <1>2 DEF WatchdogStep, ServerStep, IdleTime, CtrlC, vars, chainVars, serverVars, Watchdog,
                WatchdogSeesNoRequest, WatchdogReadsTimer, WatchdogKills, Environment,
                ServerReady, ServerExits, ForeignServer, IdleTimeout
  <2> QED
    BY <2>1 DEF FreshChain
<1> QED
  BY <1>1, <1>2 DEF Next

\* A request takes at most 14 steps of its own and 7 more for each attempt, whatever the other
\* threads, the watchdog and the servers do meanwhile: nothing of theirs sends it back
\* (SupervisedBackend::generate, FallbackBackend::generate).
THEOREM RequestsAreBounded ==
  /\ Spec => RequestIsUsedUp
  /\ Spec => [](\A c \in Clients : RequestLeft(c) \in 0 .. 7 * MaxAttempts + 13)
<1> DEFINE Step == \A c \in Clients :
                       at[c] # "out" => \/ RequestLeft(c)' < RequestLeft(c)
                                        \/ at'[c] = at[c] /\ pc'[c] = pc[c]
           Bounded == \A c \in Clients : RequestLeft(c) \in 0 .. 7 * MaxAttempts + 13
<1>1. Init => FreshChain
  BY DEF Init, ChainInit, SupervisorInit, FreshChain, Rounds
<1>2. TypeOK /\ TypeOK' /\ FreshChain /\ [Next]_vars => FreshChain'
  BY FreshNext
<1>3. TypeOK /\ TypeOK' /\ FreshChain /\ [Next]_vars => [Step]_vars
  BY FreshNext
<1>4. TypeOK /\ FreshChain => Bounded
  BY RequestLeftType DEF TypeOK
<1>5. Spec => []TypeOK
  BY TypeCorrect
<1>6. Spec => [][Step]_vars /\ []Bounded
  BY <1>1, <1>2, <1>3, <1>4, <1>5, PTL DEF Spec
<1> QED
  BY <1>6 DEF RequestIsUsedUp
==============================================================================
