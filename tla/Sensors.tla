------------------------------- MODULE Sensors -------------------------------
(***************************************************************************)
(* The file sensor of an interactive session: a thread that scans the       *)
(* working directory (sensors/file_watch.rs), a channel (sensors/hub.rs)    *)
(* and a thread that records what comes out of it as experience             *)
(* (sensors/event_handler.rs, started in main.rs).  Each looks at the       *)
(* session's token once a round.  Nobody waits for either when the session  *)
(* ends.  The idle sensor of this build measures an idle time of 0 and the  *)
(* window sensor knows no window: neither sends an event.                   *)
(***************************************************************************)
EXTENDS Sequences, FiniteSets, SequencesExt

CONSTANTS
    Paths,      \* the files that may come and go
    Safe        \* those the privacy filter lets through (is_path_safe)

ASSUME SensorAssumption == Safe \subseteq Paths /\ IsFiniteSet(Paths)

VARIABLES
    cancelled,  \* the token of the session
    memory,     \* what the last experiences are about, the latest first
    files,      \* what is in the directory
    known,      \* `known` of FileWatchSensor::run
    channel,    \* the channel of the hub
    watcher,    \* the scanning thread: "start", "watch" or "done"
    handler,    \* the recording thread: "run" or "done"
    reported,   \* history: the paths recorded as experience, in order
    lost        \* history: the paths taken from the channel that could not be recorded

sensorVars == <<files, known, channel, watcher, handler, reported, lost>>

SensorInit ==
    /\ files \in SUBSET Paths
    /\ known = {}
    /\ channel = <<>>
    /\ watcher = "start"
    /\ handler = "run"
    /\ reported = <<>>
    /\ lost = {}

\* How many experiences DmnGenerator looks back (5): here 2.
Recent == 2

\* The memory after one more experience.
Remember(what) == SubSeq(<<what>> \o memory, 1, IF Len(memory) < Recent THEN Len(memory) + 1
                                                                        ELSE Recent)

\* scan_new_files: every new file becomes known, the safe ones are sent.
New == files \ known

\* The first scan learns what is there and reports nothing.
FirstScan ==
    /\ watcher = "start"
    /\ known' = New
    /\ watcher' = "watch"
    /\ UNCHANGED <<files, channel, handler, reported, lost, memory>>

\* Mutant: a file that may not be reported ends the round.
Scan_StopsAtUnsafe ==
    /\ watcher = "watch"
    /\ ~cancelled
    /\ New # {}
    /\ known' = known \union New
    /\ channel' = IF New \subseteq Safe /\ handler = "run" THEN channel \o SetToSeq(New) ELSE channel
    /\ UNCHANGED <<files, watcher, handler, reported, lost, memory>>

\* The receiver is dropped with the recording thread; sending then ends the watcher.
Scan ==
    /\ watcher = "watch"
    /\ ~cancelled
    /\ New # {}
    /\ known' = known \union New
    /\ \/ /\ handler = "run"
          /\ channel' = channel \o SetToSeq(New \intersect Safe)
          /\ watcher' = watcher
       \/ /\ handler = "done"
          /\ watcher' = IF New \intersect Safe = {} THEN watcher ELSE "done"
          /\ channel' = channel
    /\ UNCHANGED <<files, handler, reported, lost, memory>>

WatcherStops ==
    /\ watcher = "watch"
    /\ cancelled
    /\ watcher' = "done"
    /\ UNCHANGED <<files, known, channel, handler, reported, lost, memory>>

\* SensorEventHandler::handle_event.  Without a store, which main.rs opens with `.ok()`, and when
\* recording fails, whose result is dropped, the event is gone.
Handle ==
    /\ handler = "run"
    /\ channel # <<>>
    /\ channel' = Tail(channel)
    /\ \/ /\ reported' = Append(reported, Head(channel))
          /\ memory' = Remember("sensor")
          /\ lost' = lost
       \/ /\ lost' = lost \union {Head(channel)}
          /\ UNCHANGED <<reported, memory>>
    /\ UNCHANGED <<files, known, watcher, handler>>

\* What is still in the channel is dropped with it.
HandlerStops ==
    /\ handler = "run"
    /\ cancelled
    /\ handler' = "done"
    /\ channel' = <<>>
    /\ UNCHANGED <<files, known, watcher, reported, lost, memory>>

\* The user's work: files are created and removed.
FileSystem ==
    /\ \E p \in Paths : files' \in {files \union {p}, files \ {p}}
    /\ files' # files
    /\ UNCHANGED <<known, channel, watcher, handler, reported, lost, memory>>

WatcherStep == FirstScan \/ Scan \/ WatcherStops
HandlerStep == Handle \/ HandlerStops

-----------------------------------------------------------------------------
SensorTypeOK ==
    /\ files \subseteq Paths /\ known \subseteq Paths
    /\ channel \in Seq(Safe) /\ reported \in Seq(Safe) /\ lost \subseteq Safe
    /\ watcher \in {"start", "watch", "done"}
    /\ handler \in {"run", "done"}
==============================================================================
