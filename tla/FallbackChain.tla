---------------------------- MODULE FallbackChain ----------------------------
(***************************************************************************)
(* FallbackBackend::generate (inference.rs) over a FallbackChain            *)
(* (model_router.rs) that several threads share: the order in which entries *)
(* are tried, and the three atomics that remember what happened before.     *)
(*                                                                         *)
(* Each atomic access is a step of its own: record_failure and              *)
(* record_success update the atomics one by one, and another thread may     *)
(* come in between.  Entries are numbered from 1, the primary; an answer    *)
(* and the reason of a failure are abstracted away.                         *)
(***************************************************************************)
EXTENDS Threads, FiniteSetsExt

CONSTANTS
    Entries,         \* the length of the chain
    Key,             \* FallbackBackend::key_for of each entry
    MaxFailures,     \* max_failures_before_fallback, 2 by default
    RecoverOptions,  \* values of recover_after_n_success, 0 (off) by default
    Reliable         \* entries whose server answers every request

ASSUME ChainConstants ==
    /\ Entries \in Nat \ {0}
    /\ DOMAIN Key = 1 .. Entries
    /\ MaxFailures \in Nat \ {0}
    /\ RecoverOptions \subseteq Nat
    /\ Reliable \subseteq 1 .. Entries

VARIABLES
    recover,      \* recover_after_n_success, as configured
    current,      \* current_idx
    failures,     \* consecutive_failures, up to MaxFailures (only compared with it)
    successes,    \* consecutive_successes_on_fallback
    pc,           \* where each client is in generate
    reg,          \* its local: the entry it calls, then a count, then an index
    attempts,     \* times it has gone round the loop of generate
    faults,       \* history: calls that failed while their token was not set, up to MaxFailures
    overlapped    \* history: clients whose request another one overlapped

\* Mutant: one attempt for each entry, though it takes MaxFailures of them to switch.
MaxAttempts_Once == Entries

MaxAttempts == 2 * Entries

UpToMax(n) == IF n < MaxFailures THEN n ELSE MaxFailures

\* HashMap::insert under the same key keeps the backend of the last entry that has it.
BackendOf(e) == Max({f \in 1 .. Entries : Key[f] = Key[e]})

Over == {"answered", "failed", "stopped"}

Goto(c, from, to) == pc[c] = from /\ pc' = [pc EXCEPT ![c] = to]
Set(c, v) == reg' = [reg EXCEPT ![c] = v]

ChainInit ==
    /\ recover \in RecoverOptions
    /\ current = 1
    /\ failures = 0
    /\ successes = 0
    /\ TokensInit
    /\ pc = [c \in Clients |-> "idle"]
    /\ reg = [c \in Clients |-> 0]
    /\ attempts = [c \in Clients |-> 0]
    /\ faults = 0
    /\ overlapped = {}

(***************************************************************************)
(* FallbackBackend::generate.                                               *)
(***************************************************************************)
Call(c) ==
    /\ Goto(c, "idle", "check")
    /\ LET others == {d \in Clients \ {c} : pc[d] # "idle"}
       IN  overlapped' = IF others = {} THEN overlapped ELSE overlapped \cup others \cup {c}
    /\ UNCHANGED <<recover, current, failures, successes, cancelled, reg, attempts, faults>>

StopCancelled(c) ==
    /\ Goto(c, "check", "stopped")
    /\ attempts[c] < MaxAttempts
    /\ cancelled[c]
    /\ UNCHANGED <<recover, current, failures, successes, cancelled, reg, attempts, faults, overlapped>>

AttemptsRunOut(c) ==
    /\ Goto(c, "check", "failed")
    /\ attempts[c] = MaxAttempts
    /\ UNCHANGED <<recover, current, failures, successes, cancelled, reg, attempts, faults, overlapped>>

TryCurrent(c) ==
    /\ Goto(c, "check", "call")
    /\ attempts[c] < MaxAttempts
    /\ ~cancelled[c]
    /\ Set(c, current)
    /\ attempts' = [attempts EXCEPT ![c] = @ + 1]
    /\ UNCHANGED <<recover, current, failures, successes, cancelled, faults, overlapped>>

BackendAnswers(c) ==
    /\ Goto(c, "call", "clear")
    /\ Set(c, 0)
    /\ UNCHANGED <<recover, current, failures, successes, cancelled, attempts, faults, overlapped>>

BackendFails(c) ==
    /\ Goto(c, "call", "error")
    /\ cancelled[c] \/ BackendOf(reg[c]) \notin Reliable
    /\ Set(c, 0)
    /\ faults' = IF cancelled[c] THEN faults ELSE UpToMax(faults + 1)
    /\ UNCHANGED <<recover, current, failures, successes, cancelled, attempts, overlapped>>

\* A failure under a cancelled token is nobody's fault: it is not recorded.
ReturnCancelled(c) ==
    /\ Goto(c, "error", "stopped")
    /\ cancelled[c]
    /\ UNCHANGED <<recover, current, failures, successes, cancelled, reg, attempts, faults, overlapped>>

(***************************************************************************)
(* record_failure, then the test of is_exhausted.                           *)
(***************************************************************************)
\* Mutant: the token is not looked at before the failure is recorded.
CountFailure_Cancelled(c) ==
    /\ Goto(c, "error", "forget")
    /\ failures' = UpToMax(failures + 1)
    /\ Set(c, failures')
    /\ UNCHANGED <<recover, current, successes, cancelled, attempts, faults, overlapped>>

CountFailure(c) ==
    /\ Goto(c, "error", "forget")
    /\ ~cancelled[c]
    /\ failures' = UpToMax(failures + 1)
    /\ Set(c, failures')
    /\ UNCHANGED <<recover, current, successes, cancelled, attempts, faults, overlapped>>

ForgetSuccesses(c) ==
    /\ Goto(c, "forget", IF reg[c] >= MaxFailures THEN "next" ELSE "last")
    /\ successes' = 0
    /\ Set(c, 0)
    /\ UNCHANGED <<recover, current, failures, cancelled, attempts, faults, overlapped>>

FindNext(c) ==
    /\ Goto(c, "next", IF current < Entries THEN "switch" ELSE "last")
    /\ Set(c, IF current < Entries THEN current + 1 ELSE 0)
    /\ UNCHANGED <<recover, current, failures, successes, cancelled, attempts, faults, overlapped>>

SwitchTo(c) ==
    /\ Goto(c, "switch", "reset")
    /\ current' = reg[c]
    /\ Set(c, 0)
    /\ UNCHANGED <<recover, failures, successes, cancelled, attempts, faults, overlapped>>

ResetFailures(c) ==
    /\ Goto(c, "reset", "check")
    /\ failures' = 0
    /\ UNCHANGED <<recover, current, successes, cancelled, reg, attempts, faults, overlapped>>

TestExhausted(c) ==
    /\ Goto(c, "last", IF current = Entries THEN "failed" ELSE "check")
    /\ UNCHANGED <<recover, current, failures, successes, cancelled, reg, attempts, faults, overlapped>>

(***************************************************************************)
(* record_success.                                                          *)
(***************************************************************************)
ClearFailures(c) ==
    /\ Goto(c, "clear", "position")
    /\ failures' = 0
    /\ UNCHANGED <<recover, current, successes, cancelled, reg, attempts, faults, overlapped>>

ReadPosition(c) ==
    /\ Goto(c, "position", IF current = 1 \/ recover = 0 THEN "answered" ELSE "count")
    /\ UNCHANGED <<recover, current, failures, successes, cancelled, reg, attempts, faults, overlapped>>

CountSuccess(c) ==
    /\ Goto(c, "count", IF successes + 1 >= recover THEN "return" ELSE "answered")
    /\ successes' = successes + 1
    /\ UNCHANGED <<recover, current, failures, cancelled, reg, attempts, faults, overlapped>>

ReturnToPrimary(c) ==
    /\ Goto(c, "return", "restart")
    /\ current' = 1
    /\ UNCHANGED <<recover, failures, successes, cancelled, reg, attempts, faults, overlapped>>

RestartSuccesses(c) ==
    /\ Goto(c, "restart", "answered")
    /\ successes' = 0
    /\ UNCHANGED <<recover, current, failures, cancelled, reg, attempts, faults, overlapped>>

(***************************************************************************)
(* The call returns.                                                        *)
(***************************************************************************)
CallReturns(c) ==
    /\ pc[c] \in Over
    /\ pc' = [pc EXCEPT ![c] = "idle"]
    /\ attempts' = [attempts EXCEPT ![c] = 0]
    /\ overlapped' = overlapped \ {c}
    /\ UNCHANGED <<recover, current, failures, successes, cancelled, reg, faults>>

\* The steps of a request between its call and its return, but for the backend's answer.
ChainStep(c) ==
    \/ StopCancelled(c) \/ AttemptsRunOut(c) \/ TryCurrent(c)
    \/ BackendFails(c) \/ ReturnCancelled(c)
    \/ CountFailure(c) \/ ForgetSuccesses(c) \/ FindNext(c)
    \/ SwitchTo(c) \/ ResetFailures(c) \/ TestExhausted(c)
    \/ ClearFailures(c) \/ ReadPosition(c) \/ CountSuccess(c)
    \/ ReturnToPrimary(c) \/ RestartSuccesses(c)

Locations ==
    {"idle", "check", "call", "error", "forget", "next", "switch", "reset", "last",
     "clear", "position", "count", "return", "restart"} \cup Over

\* The chain points at one of its entries, and no request goes round the loop of
\* generate more often than it may.
ChainTypeOK ==
    /\ recover \in RecoverOptions
    /\ current \in 1 .. Entries
    /\ failures \in 0 .. MaxFailures
    /\ successes \in Nat
    /\ cancelled \in [Clients -> BOOLEAN]
    /\ pc \in [Clients -> Locations]
    /\ reg \in [Clients -> Nat]
    /\ attempts \in [Clients -> 0 .. MaxAttempts]
    /\ faults \in 0 .. MaxFailures
    /\ overlapped \subseteq Clients
==============================================================================
