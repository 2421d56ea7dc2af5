----------------------------- MODULE Reflection -----------------------------
(***************************************************************************)
(* The thread that reflects while the user is away (agent/dmn): it looks    *)
(* at the busy flag, and when nothing runs and its timer is due it thinks   *)
(* about the latest failure or the latest event of a sensor, with the same  *)
(* model the session uses.  A significant thought is put into an inbox.     *)
(***************************************************************************)
EXTENDS Sensors, Naturals

CONSTANTS
    AutoPersist,    \* BONSAI_DMN_AUTO_PERSIST: thoughts are recorded as experience
    MaxInbox        \* bound: unread thoughts

ASSUME ReflectionAssumption == AutoPersist \in BOOLEAN /\ MaxInbox \in Nat

VARIABLES
    busy,       \* is_busy, shared with the REPL
    dmn,        \* the thread: "loop", "tick", "asking" (the model) or "done"
    sampled,    \* the busy flag as the present tick saw it
    inbox       \* dmn_inbox: how many thoughts are unread

reflectionVars == <<dmn, sampled, inbox>>

ReflectionInit ==
    /\ dmn = "loop"
    /\ sampled = FALSE
    /\ inbox = 0

\* The head of DmnRunner's loop: the token, then the flag, which is read once per tick.
Look ==
    /\ dmn = "loop"
    /\ \/ cancelled /\ dmn' = "done" /\ sampled' = FALSE
       \/ ~cancelled /\ dmn' = "tick" /\ sampled' = busy
    /\ UNCHANGED <<inbox, memory>>

\* What the thought is about: a failure first, then an event of a sensor.
Topics == {"failure", "sensor"} \intersect Range(memory)

\* A thought is recorded where that is asked for, and a failure to record it is ignored.
Noted == IF AutoPersist THEN {memory, Remember("other")} ELSE {memory}

\* Gate 0 and gate 1 of DmnWorker::tick: busy, or not due yet.  Between the two a long idle time
\* adds the insights of trigger_deep_dream: one a tick here.
Skip ==
    /\ dmn = "tick"
    /\ dmn' = "loop"
    /\ memory' \in IF sampled THEN {memory} ELSE Noted
    /\ sampled' = FALSE
    /\ UNCHANGED inbox

\* With nothing to think about, without a store or when it cannot be read, a routine thought is
\* generated without the model, too insignificant to be spoken.
Routine ==
    /\ dmn = "tick"
    /\ ~sampled
    /\ memory' \in Noted
    /\ dmn' = "loop"
    /\ UNCHANGED <<sampled, inbox>>

\* generate_reflection_with_llm: the model is asked with a token that nothing sets.
Ask ==
    /\ dmn = "tick"
    /\ ~sampled
    /\ Topics # {}
    /\ inbox < MaxInbox
    /\ dmn' = "asking"
    /\ UNCHANGED <<sampled, inbox, memory>>

\* The model answers or fails: either way there is a text, significant enough to be spoken.
Speak ==
    /\ dmn = "asking"
    /\ inbox' = inbox + 1
    /\ memory' \in Noted
    /\ dmn' = "loop"
    /\ UNCHANGED sampled

ReflectionStep == Look \/ Skip \/ Routine \/ Ask \/ Speak

ReflectionTypeOK ==
    /\ busy \in BOOLEAN /\ sampled \in BOOLEAN /\ cancelled \in BOOLEAN
    /\ memory \in BoundedSeq({"failure", "sensor", "other"}, Recent)
    /\ dmn \in {"loop", "tick", "asking", "done"}
    /\ inbox \in 0..MaxInbox
==============================================================================
