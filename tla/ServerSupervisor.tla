-------------------------- MODULE ServerSupervisor --------------------------
(***************************************************************************)
(* ProcessSupervisor (process_supervisor.rs), the requests that pass        *)
(* through it (supervised_backend.rs) and the watchdog thread (main.rs).    *)
(*                                                                         *)
(* A request first makes sure that a server runs, then declares itself in   *)
(* flight.  The watchdog reads the number of requests in flight and the     *)
(* idle timer, and kills the server it started if both allow: three steps,  *)
(* between which requests begin and end.  Operations on the child process   *)
(* hold its mutex and are one step.  A server somebody else started may     *)
(* answer at the same address; the supervisor has no handle on it.          *)
(***************************************************************************)
EXTENDS Threads

CONSTANTS
    HasProgram,  \* spawn_program is not empty
    Processes,   \* server processes the supervisor may start
    none         \* no child process

ASSUME SupervisorConstants == HasProgram \in BOOLEAN /\ none \notin Processes

VARIABLES
    foreign,     \* a server the supervisor did not start is answering
    process,     \* what each process it started is doing
    child,       \* ProcessSupervisor::child
    inFlight,    \* ProcessSupervisor::in_flight
    stale,       \* last_used is idle_timeout or more ago
    watchdog,    \* where the watchdog is in kill_if_idle
    at           \* where each request is

Running == {p \in Processes : process[p] # "absent"}
Healthy == foreign \/ \E p \in Processes : process[p] = "ready"

Move(c, from, to) == at[c] = from /\ at' = [at EXCEPT ![c] = to]

SupervisorInit ==
    /\ foreign \in BOOLEAN
    /\ process = [p \in Processes |-> "absent"]
    /\ child = none
    /\ inFlight = 0
    /\ stale = FALSE
    /\ watchdog = "asleep"
    /\ at = [c \in Clients |-> "out"]

(***************************************************************************)
(* ensure_running.  A health probe has a short deadline: it may also miss a *)
(* server that runs.                                                        *)
(***************************************************************************)
Ensure(c) ==
    /\ Move(c, "out", "probe")
    /\ UNCHANGED <<foreign, process, child, inFlight, stale, watchdog>>

FoundHealthy(c) ==
    /\ Move(c, "probe", "enter") \/ Move(c, "poll", "enter")
    /\ Healthy
    /\ UNCHANGED <<foreign, process, child, inFlight, stale, watchdog>>

FoundDown(c) ==
    /\ Move(c, "probe", "spawn")
    /\ UNCHANGED <<foreign, process, child, inFlight, stale, watchdog>>

SpawnsNothing(c) ==
    /\ Move(c, "spawn", "poll")
    /\ HasProgram => child \in Running
    /\ UNCHANGED <<foreign, process, child, inFlight, stale, watchdog>>

\* Mutant: spawn without try_wait on the child it holds.
Spawn_Again(c) ==
    /\ Move(c, "spawn", "poll")
    /\ HasProgram
    /\ Running # Processes
    /\ child' = CHOOSE p \in Processes : p \notin Running
    /\ process' = [process EXCEPT ![child'] = "starting"]
    /\ UNCHANGED <<foreign, inFlight, stale, watchdog>>

Spawn(c) ==
    /\ Move(c, "spawn", "poll")
    /\ HasProgram
    /\ child \notin Running
    /\ Running # Processes
    /\ child' = CHOOSE p \in Processes : p \notin Running
    /\ process' = [process EXCEPT ![child'] = "starting"]
    /\ UNCHANGED <<foreign, inFlight, stale, watchdog>>

\* The program does not start: generate ignores the error and goes on.
SpawnFails(c) ==
    /\ Move(c, "spawn", "enter")
    /\ HasProgram
    /\ child \notin Running
    /\ child' = none
    /\ UNCHANGED <<foreign, process, inFlight, stale, watchdog>>

\* Mutant: the health poll has no bound.
StopPolling_Never(c) ==
    /\ Move(c, "poll", "enter")
    /\ Healthy
    /\ UNCHANGED <<foreign, process, child, inFlight, stale, watchdog>>

\* After 60 polls the request goes on without a server.
StopPolling(c) ==
    /\ Move(c, "poll", "enter")
    /\ UNCHANGED <<foreign, process, child, inFlight, stale, watchdog>>

(***************************************************************************)
(* InFlightGuard: taken before the request, dropped on every way out.       *)
(***************************************************************************)
Enter(c) ==
    /\ Move(c, "enter", "stamp")
    /\ inFlight' = inFlight + 1
    /\ UNCHANGED <<foreign, process, child, stale, watchdog>>

Stamp(c) ==
    /\ Move(c, "stamp", "inside")
    /\ stale' = FALSE
    /\ UNCHANGED <<foreign, process, child, inFlight, watchdog>>

Leave(c) ==
    /\ Move(c, "inside", "restamp")
    /\ inFlight' = inFlight - 1
    /\ UNCHANGED <<foreign, process, child, stale, watchdog>>

Restamp(c) ==
    /\ Move(c, "restamp", "out")
    /\ stale' = FALSE
    /\ UNCHANGED <<foreign, process, child, inFlight, watchdog>>

(***************************************************************************)
(* The watchdog: is_idle reads in_flight, then last_used; then kill.        *)
(***************************************************************************)
WatchdogSeesNoRequest ==
    /\ watchdog = "asleep"
    /\ inFlight = 0
    /\ watchdog' = "timer"
    /\ UNCHANGED <<foreign, process, child, inFlight, stale, at>>

WatchdogReadsTimer ==
    /\ watchdog = "timer"
    /\ watchdog' = IF stale THEN "kill" ELSE "asleep"
    /\ UNCHANGED <<foreign, process, child, inFlight, stale, at>>

\* Mutant: the watchdog thread ends with its first kill.
WatchdogKills_Once ==
    /\ watchdog = "kill"
    /\ watchdog' = "over"
    /\ process' = [p \in Processes |-> IF p = child THEN "absent" ELSE process[p]]
    /\ child' = none
    /\ UNCHANGED <<foreign, inFlight, stale, at>>

WatchdogKills ==
    /\ watchdog = "kill"
    /\ watchdog' = "asleep"
    /\ process' = [p \in Processes |-> IF p = child THEN "absent" ELSE process[p]]
    /\ child' = none
    /\ UNCHANGED <<foreign, inFlight, stale, at>>

(***************************************************************************)
(* The servers, and time.                                                   *)
(***************************************************************************)
\* A process the supervisor started needs the port for itself.
ServerReady(p) ==
    /\ process[p] = "starting"
    /\ ~Healthy
    /\ process' = [process EXCEPT ![p] = "ready"]
    /\ UNCHANGED <<foreign, child, inFlight, stale, watchdog, at>>

ServerExits(p) ==
    /\ process[p] # "absent"
    /\ process' = [process EXCEPT ![p] = "absent"]
    /\ UNCHANGED <<foreign, child, inFlight, stale, watchdog, at>>

ForeignServer ==
    /\ foreign \/ ~Healthy
    /\ foreign' = ~foreign
    /\ UNCHANGED <<process, child, inFlight, stale, watchdog, at>>

IdleTimeout ==
    /\ ~stale
    /\ stale' = TRUE
    /\ UNCHANGED <<foreign, process, child, inFlight, watchdog, at>>

\* The steps of a request that the model's answer has no part in.
SupervisorStep(c) ==
    \/ FoundHealthy(c) \/ FoundDown(c) \/ SpawnsNothing(c) \/ Spawn(c) \/ SpawnFails(c)
    \/ StopPolling(c) \/ Enter(c) \/ Restamp(c)

Watchdog == WatchdogSeesNoRequest \/ WatchdogReadsTimer \/ WatchdogKills

Environment == ForeignServer \/ \E p \in Processes : ServerReady(p) \/ ServerExits(p)

SupervisorTypeOK ==
    /\ foreign \in BOOLEAN
    /\ process \in [Processes -> {"absent", "starting", "ready"}]
    /\ child \in Processes \cup {none}
    /\ inFlight \in Nat
    /\ stale \in BOOLEAN
    /\ watchdog \in {"asleep", "timer", "kill"}
    /\ at \in [Clients -> {"out", "probe", "spawn", "poll", "enter", "stamp", "inside",
                           "restamp"}]
==============================================================================
