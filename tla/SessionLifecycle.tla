--------------------------- MODULE SessionLifecycle ---------------------------
(***************************************************************************)
(* What one call of run_agent_loop_with_session promises to the readers of *)
(* the event store (trajectory extraction, verification statistics, the    *)
(* heuristics pool): a run is opened once, takes at most MaxIterations      *)
(* steps, and is then closed by exactly one SessionEnd event whose reason   *)
(* agrees with the answer the caller gets.  The only way to leave without   *)
(* that event is an Err from the inference backend.                         *)
(*                                                                         *)
(* AgentLoop implements this specification (AgentLoop!Implements).         *)
(***************************************************************************)
EXTENDS Naturals

CONSTANT MaxIterations   \* AgentConfig::max_iterations, a natural number

VARIABLES
    phase,   \* "new", "open", "closed" (Ok was returned), "failed" (Err was returned)
    steps,   \* iterations begun so far
    ending   \* the SessionEnd events emitted by this run

vars == <<phase, steps, ending>>

Reasons == {"completed", "timeout", "abort", "max_iterations"}

\* A SessionEnd event carries its reason and the iterations it reports.
EndEvent == [reason : Reasons, iterations : 0 .. MaxIterations]

Init ==
    /\ phase = "new"
    /\ steps = 0
    /\ ending = <<>>

\* SessionStart is emitted and the loop is entered.
Open ==
    /\ phase = "new"
    /\ phase' = "open"
    /\ UNCHANGED <<steps, ending>>

\* One more iteration begins.
Step ==
    /\ phase = "open"
    /\ steps < MaxIterations
    /\ steps' = steps + 1
    /\ UNCHANGED <<phase, ending>>

\* The run returns Ok.  What it reports depends on why it stopped: an abort
\* before the model is called does not count the iteration it was about to do.
Close(reason) ==
    /\ phase = "open"
    /\ reason \in {"completed", "abort"} => steps > 0
    /\ reason = "timeout" => steps < MaxIterations
    /\ reason = "max_iterations" => steps = MaxIterations
    /\ phase' = "closed"
    /\ ending' = <<[reason |-> reason,
                   iterations |-> IF reason = "abort" THEN steps - 1 ELSE steps]>>
    /\ UNCHANGED steps

\* The inference backend fails: Err is returned and nothing is emitted.
Fail ==
    /\ phase = "open"
    /\ steps > 0
    /\ phase' = "failed"
    /\ UNCHANGED <<steps, ending>>

Next ==
    \/ Open
    \/ Step
    \/ \E reason \in Reasons : Close(reason)
    \/ Fail

Spec == Init /\ [][Next]_vars
===============================================================================
