------------------------------ MODULE Inference ------------------------------
(***************************************************************************)
(* The model as the agent sees it: create_backend and maybe_supervise       *)
(* (main.rs) wrap a FallbackBackend in a SupervisedBackend, and the REPL    *)
(* and the background reflection share the result.  A request passes        *)
(* through ServerSupervisor, and inside it through FallbackChain.  The      *)
(* supervised server is the one that stands behind the primary entry.       *)
(***************************************************************************)
EXTENDS FallbackChain, ServerSupervisor

chainVars  == <<recover, current, failures, successes, cancelled, pc, reg, attempts, faults,
                overlapped>>
serverVars == <<foreign, process, child, inFlight, stale, watchdog, at>>
vars == <<chainVars, serverVars>>

Init == ChainInit /\ SupervisorInit

(***************************************************************************)
(* SupervisedBackend::generate.                                             *)
(***************************************************************************)
Request(c) ==
    /\ Ensure(c)
    /\ UNCHANGED chainVars

\* With the guard held, the inner generate is called.
Begin(c) ==
    /\ Stamp(c)
    /\ Call(c)

\* An answer needs a server: that of the primary is the supervised one.
Answer(c) ==
    /\ BackendAnswers(c)
    /\ BackendOf(reg[c]) = BackendOf(1) => Healthy
    /\ UNCHANGED serverVars

\* However the inner generate returns, the guard is dropped.
End(c) ==
    /\ CallReturns(c)
    /\ Leave(c)

InChain(c) ==
    /\ ChainStep(c)
    /\ UNCHANGED serverVars

InServer(c) ==
    /\ SupervisorStep(c)
    /\ UNCHANGED chainVars

Progress(c) == Begin(c) \/ Answer(c) \/ End(c) \/ InChain(c) \/ InServer(c)

WatchdogStep == Watchdog /\ UNCHANGED chainVars

ServerStep == Environment /\ UNCHANGED chainVars

IdleTime == IdleTimeout /\ UNCHANGED chainVars

CtrlC ==
    /\ Cancel
    /\ UNCHANGED <<recover, current, failures, successes, pc, reg, attempts, faults, overlapped>>
    /\ UNCHANGED serverVars

Next ==
    \/ \E c \in Clients : Request(c) \/ Progress(c)
    \/ WatchdogStep
    \/ ServerStep
    \/ IdleTime
    \/ CtrlC

(***************************************************************************)
(* A thread inside a request runs on: the polls are bounded and an HTTP     *)
(* call has a deadline, after which it has failed.  The watchdog thread     *)
(* wakes up every 30 seconds.  Time passes.  Nobody is obliged to ask, to   *)
(* cancel, or to start or stop a server.                                    *)
(***************************************************************************)
Fairness ==
    /\ \A c \in Clients : WF_vars(Progress(c))
    /\ WF_vars(WatchdogStep)
    /\ WF_vars(IdleTime)

Spec == Init /\ [][Next]_vars /\ Fairness

-----------------------------------------------------------------------------
(* The state is of the right shape. *)
TypeOK == ChainTypeOK /\ SupervisorTypeOK

-----------------------------------------------------------------------------
(* Safety. *)

\* The counter the watchdog trusts is right on every path through generate, whether
\* the request is answered, fails or is cancelled (InFlightGuard, process_supervisor.rs).
InFlightIsRight ==
    inFlight = Cardinality({c \in Clients : at[c] \in {"stamp", "inside"}})

\* Requests that find the server down at the same time start one server between them,
\* and no server the supervisor started outlives its handle.
OneServerUnderControl == Running \subseteq {child}

\* If the last entry's server answers, a request that no other overlaps does not fail:
\* 2 * Entries attempts get it there, with whatever count of failures earlier requests
\* left behind (generate, record_failure).
ReliableFallbackAnswers ==
    BackendOf(Entries) \in Reliable =>
        \A c \in Clients \ overlapped : pc[c] # "failed"

\* The chain leaves the primary only after as many failures as it is configured for,
\* and what fails because the user pressed Ctrl-C is not one of them.
SwitchIsEarned == current # 1 => faults = MaxFailures

-----------------------------------------------------------------------------
(* Liveness. *)

\* Every request comes back, whatever happens to servers, watchdog and the other thread.
RequestsReturn == \A c \in Clients : at[c] # "out" ~> at[c] = "out"

\* When requests stop for good, the server that was started for them is stopped: no
\* request leaves behind a count or a handle that keeps it alive.
IdleServerIsStopped ==
    <>[](\A c \in Clients : at[c] = "out") => <>[](Running = {})

-----------------------------------------------------------------------------
(* What the code says of itself, and two threads refute. *)

\* "When generate fails, switches to the next backend by record_failure" and "tries up to
\* the full length of the chain" (inference.rs:20, 62): with default settings no
\* request fails while the last entry's server answers.
FailsOver ==
    recover = 0 /\ BackendOf(Entries) \in Reliable => \A c \in Clients : pc[c] # "failed"
==============================================================================
