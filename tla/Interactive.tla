----------------------------- MODULE Interactive -----------------------------
(***************************************************************************)
(* An interactive session (run_repl_stdio in main.rs): the REPL reads a     *)
(* line and runs it as a turn of the agent (agent_loop/repl.rs), the        *)
(* reflection thread and the file sensor run beside it, a thread turns      *)
(* SIGINT into the session's token, and at the end the reflection is        *)
(* stopped and waited for.                                                  *)
(***************************************************************************)
EXTENDS Reflection

CONSTANTS
    MaxLines    \* bound: lines the user types in a session

ASSUME InteractiveAssumption == MaxLines \in Nat

\* A line, by what the REPL does with it: "quick" stands for what never becomes a turn (an
\* empty line, a slash command), "greeting" for what the fast path may answer, "yes" and
\* "task" for what becomes a turn, and "eof" for the end of the input.
Lines == {"quick", "greeting", "yes", "task", "exit", "eof"}

VARIABLES
    typed,      \* bound: the number of lines typed
    stdin,      \* the lines nobody has read
    repl,       \* the main thread
    confirmed,  \* bound: the present turn has asked for its confirmation
    signalled,  \* SIGNALED: SIGINT has come
    guests      \* history: reflections that have used the model during the present turn

replVars == <<typed, stdin, repl, confirmed, signalled, guests>>
vars == <<cancelled, memory, sensorVars, busy, reflectionVars, replVars>>

InTurn == repl \in {"turn", "confirm"}

Init ==
    /\ SensorInit
    /\ ReflectionInit
    /\ cancelled = FALSE
    /\ memory = <<>>
    /\ busy = FALSE
    /\ typed = 0
    /\ stdin = <<>>
    /\ repl = "head"
    /\ confirmed = FALSE
    /\ signalled = FALSE
    /\ guests = 0

-----------------------------------------------------------------------------
(***************************************************************************)
(* The main thread.                                                         *)
(***************************************************************************)

\* run_repl, from the head of the loop to the prompt.
Prompt ==
    /\ repl = "head"
    /\ \/ cancelled /\ repl' = "stop" /\ UNCHANGED <<busy, inbox>>
       \/ ~cancelled /\ repl' = "prompt" /\ busy' = FALSE /\ inbox' = 0
    /\ UNCHANGED <<cancelled, memory, sensorVars, dmn, sampled, typed, stdin, confirmed,
                   signalled, guests>>

\* The end of the input stays where it is.
Rest == IF Head(stdin) = "eof" THEN stdin ELSE Tail(stdin)

\* What a line leads to; a greeting within the cooldown of its rule becomes a turn.
After(line) ==
    CASE line \in {"exit", "eof"} -> {"stop"}
      [] line = "quick"           -> {"head"}
      [] line = "greeting"        -> {"head", "begin"}
      [] OTHER                    -> {"begin"}

\* read_line, which a signal does not interrupt.
Read ==
    /\ repl = "prompt"
    /\ stdin # <<>>
    /\ stdin' = Rest
    /\ repl' \in After(Head(stdin))
    /\ UNCHANGED <<cancelled, memory, sensorVars, busy, reflectionVars, typed, confirmed,
                   signalled, guests>>

\* Mutant: the flag is not set.
BeginTurn_NotBusy ==
    /\ repl = "begin"
    /\ repl' = "turn"
    /\ confirmed' = FALSE
    /\ guests' = IF dmn = "asking" THEN 1 ELSE 0
    /\ UNCHANGED <<cancelled, memory, sensorVars, busy, reflectionVars, typed, stdin, signalled>>

BeginTurn ==
    /\ repl = "begin"
    /\ busy' = TRUE
    /\ repl' = "turn"
    /\ confirmed' = FALSE
    /\ guests' = IF dmn = "asking" THEN 1 ELSE 0
    /\ UNCHANGED <<cancelled, memory, sensorVars, reflectionVars, typed, stdin, signalled>>

\* A tool of a supervised session asks the user, on the same standard input.
AskUser ==
    /\ repl = "turn"
    /\ ~cancelled
    /\ ~confirmed
    /\ repl' = "confirm"
    /\ confirmed' = TRUE
    /\ UNCHANGED <<cancelled, memory, sensorVars, busy, reflectionVars, typed, stdin, signalled,
                   guests>>

\* Whatever line comes next is the answer, and anything but a yes denies.
UserAnswers ==
    /\ repl = "confirm"
    /\ stdin # <<>>
    /\ stdin' = Rest
    /\ repl' = "turn"
    /\ UNCHANGED <<cancelled, memory, sensorVars, busy, reflectionVars, typed, confirmed,
                   signalled, guests>>

\* run_agent_loop_with_session returns; failures of its tools have become experience.
EndTurn ==
    /\ repl = "turn"
    /\ memory' \in {memory, Remember("failure"), Remember("other")}
    /\ busy' = FALSE
    /\ repl' = "head"
    /\ guests' = 0
    /\ UNCHANGED <<cancelled, sensorVars, reflectionVars, typed, stdin, confirmed, signalled>>

\* Mutant: the reflection is waited for without being told.
Stop_NoToken ==
    /\ repl = "stop"
    /\ repl' = "join"
    /\ UNCHANGED <<cancelled, memory, sensorVars, busy, reflectionVars, typed, stdin, confirmed,
                   signalled, guests>>

\* DmnRunner::stop sets the token of the whole session and joins the thread.
Stop ==
    /\ repl = "stop"
    /\ cancelled' = TRUE
    /\ repl' = "join"
    /\ UNCHANGED <<memory, sensorVars, busy, reflectionVars, typed, stdin, confirmed, signalled,
                   guests>>

Join ==
    /\ repl = "join"
    /\ dmn = "done"
    /\ repl' = "ended"
    /\ UNCHANGED <<cancelled, memory, sensorVars, busy, reflectionVars, typed, stdin, confirmed,
                   signalled, guests>>

MainStep == Prompt \/ Read \/ BeginTurn \/ AskUser \/ UserAnswers \/ EndTurn \/ Stop \/ Join

-----------------------------------------------------------------------------
(***************************************************************************)
(* The other threads and the user, as long as the process lives.            *)
(***************************************************************************)
Alive == repl # "ended"

Type(line) ==
    /\ Alive
    /\ typed < MaxLines
    /\ "eof" \notin Range(stdin)
    /\ typed' = typed + 1
    /\ stdin' = Append(stdin, line)
    /\ UNCHANGED <<cancelled, memory, sensorVars, busy, reflectionVars, repl, confirmed,
                   signalled, guests>>

\* sigint_handler.
CtrlC ==
    /\ Alive
    /\ ~signalled
    /\ signalled' = TRUE
    /\ UNCHANGED <<cancelled, memory, sensorVars, busy, reflectionVars, typed, stdin, repl,
                   confirmed, guests>>

\* The thread of ctrlc_handler, which polls what the handler has set.
RelaySignal ==
    /\ Alive
    /\ signalled
    /\ ~cancelled
    /\ cancelled' = TRUE
    /\ UNCHANGED <<memory, sensorVars, busy, reflectionVars, replVars>>

Reflect ==
    /\ Alive
    /\ ReflectionStep
    /\ guests' = IF dmn' = "asking" /\ dmn # "asking" /\ InTurn THEN guests + 1 ELSE guests
    /\ UNCHANGED <<cancelled, sensorVars, busy, typed, stdin, repl, confirmed, signalled>>

Watch ==
    /\ Alive
    /\ WatcherStep
    /\ UNCHANGED <<cancelled, busy, reflectionVars, replVars>>

Record ==
    /\ Alive
    /\ HandlerStep
    /\ UNCHANGED <<cancelled, busy, reflectionVars, replVars>>

Work ==
    /\ Alive
    /\ FileSystem
    /\ UNCHANGED <<cancelled, busy, reflectionVars, replVars>>

Next ==
    \/ MainStep
    \/ \E line \in Lines : Type(line)
    \/ CtrlC
    \/ RelaySignal
    \/ Reflect
    \/ Watch
    \/ Record
    \/ Work

(***************************************************************************)
(* Threads run on, and a call of the model returns: its HTTP client has a   *)
(* deadline.  A tick that never skips is not promised, nor that the user    *)
(* types, answers or presses Ctrl-C.                                        *)
(***************************************************************************)
Fairness ==
    /\ WF_vars(MainStep)
    /\ WF_vars(RelaySignal)
    /\ WF_vars(Reflect)
    /\ WF_vars(Watch)
    /\ WF_vars(Record)

Spec == Init /\ [][Next]_vars /\ Fairness

-----------------------------------------------------------------------------
(* The state is of the right shape. *)
TypeOK ==
    /\ SensorTypeOK
    /\ ReflectionTypeOK
    /\ typed \in 0..MaxLines
    /\ stdin \in BoundedSeq(Lines, MaxLines)
    /\ repl \in {"head", "prompt", "begin", "turn", "confirm", "stop", "join", "ended"}
    /\ confirmed \in BOOLEAN /\ signalled \in BOOLEAN
    /\ guests \in 0..2

-----------------------------------------------------------------------------
(* Safety. *)

\* The busy flag keeps the reflection away from the model during a turn (repl.rs), but for the
\* one reflection that looked at the flag before the turn began: a turn shares the model with
\* one reflection at most, however long it lasts.
AtMostOneGuest == guests <= 1

(* Liveness. *)

\* Once the REPL is left, the process ends: the reflection it waits for finishes the call of
\* the model it is in, sees the token and returns (DmnRunner::stop).
StopEnds == repl = "stop" ~> repl = "ended"

\* A file that appears while the session runs comes to be recorded as experience, whatever the
\* turns and the reflection do, unless it is gone before it is seen, the session is over, or the
\* one attempt to record it fails: the file is known by then and not sent again.
FilesAreReported ==
    \A p \in Safe :
        p \in files \ known /\ watcher = "watch"
            ~> p \in Range(reported) \union lost \/ p \notin files \/ cancelled
==============================================================================
