------------------------------ MODULE ToolGuards ------------------------------
(***************************************************************************)
(* The three detectors that watch the tool calls of a run for lack of       *)
(* progress (error_recovery.rs):                                            *)
(*                                                                         *)
(*   - LoopDetector: the same operation again and again ends the run;       *)
(*   - FileStuckGuard: a file on which calls keep failing earns advice;     *)
(*   - MultiFileEditCycleDetector: editing a few files in turn earns a      *)
(*     message.                                                             *)
(*                                                                         *)
(* They are fed by two places: execute_step shows every call to the         *)
(* LoopDetector before it runs, apply_tool_result and record_edit_and_nudge *)
(* show the results of those that ran to the other two.  One model output   *)
(* has one call here; ToolDispatch has the outputs with several.            *)
(***************************************************************************)
EXTENDS Integers, Sequences, SequencesExt

CONSTANTS
    Paths,               \* bound: the files the model works on
    MaxHistory,          \* LoopDetector::max_history, 10
    RepeatThreshold,     \* LoopDetector::repeat_threshold, 3
    FrequencyThreshold,  \* LoopDetector::frequency_threshold, 30
    NudgeThreshold,      \* FileStuckGuard::nudge_threshold, 3
    GiveUpThreshold,     \* FileStuckGuard::give_up_threshold, 6
    Window               \* MultiFileEditCycleDetector::window, 6

\* What the detectors need of the values they are made with.
GuardConstants ==
    /\ MaxHistory \in Nat
    /\ FrequencyThreshold \in Nat \ {0}
    /\ NudgeThreshold \in Nat \ {0}
    /\ GiveUpThreshold \in Nat /\ NudgeThreshold < GiveUpThreshold
    /\ Window \in Nat

VARIABLES
    running,      \* the run has not been stopped by the LoopDetector
    recent,       \* LoopDetector::recent_hashes
    frequency,    \* LoopDetector::action_frequency
    stuck,        \* FileStuckGuard::failure_counts
    advised,      \* history: the advice given on each file since an edit of it succeeded
    editWindow,   \* MultiFileEditCycleDetector::recent_paths
    nudges,       \* MultiFileEditCycleDetector::nudge_fire_count
    edits         \* history: edits that succeeded

fileVars == <<stuck, advised>>
editVars == <<editWindow, nudges, edits>>
guardVars == <<running, recent, frequency, stuck, advised, editWindow, nudges, edits>>

(***************************************************************************)
(* Calls                                                                   *)
(***************************************************************************)

\* salient_hash keeps the name of the tool and the names of its arguments, not their
\* values.  file_read {path}; file_write {content, path} and {new_text, old_text, path};
\* shell {command}, a call that names no file.
Hashes == {"read", "overwrite", "patch", "shell"}
IsEdit(hash) == hash \in {"overwrite", "patch"}

NoPath == "none"
GuardedCalls == [hash : Hashes \ {"shell"}, path : Paths] \cup [hash : {"shell"}, path : {NoPath}]

Advice == {"nudge", "give_up"}

GuardsInit ==
    /\ running = TRUE
    /\ recent = <<>>
    /\ frequency = [h \in Hashes |-> 0]
    /\ stuck = [p \in Paths |-> 0]
    /\ advised = [p \in Paths |-> {}]
    /\ editWindow = <<>>
    /\ nudges = 0
    /\ edits = 0

(***************************************************************************)
(* LoopDetector                                                            *)
(***************************************************************************)

\* The last n elements of a sequence, or all of them.
LastOf(s, n) == SubSeq(s, Len(s) - (IF Len(s) < n THEN Len(s) ELSE n) + 1, Len(s))

\* Judgements 1 and 2: equal calls have equal hashes, so the comparison of the full
\* texts never decides.
Repeats(hashes) ==
    /\ Len(hashes) >= RepeatThreshold
    /\ \A i \in Len(hashes) - RepeatThreshold + 1 .. Len(hashes) : hashes[i] = Last(hashes)

\* detect_cycle: a, b, a, b.
Alternates(hashes) ==
    LET n == Len(hashes)
    IN /\ n >= 4
       /\ hashes[n - 3] = hashes[n - 1]
       /\ hashes[n - 2] = hashes[n]
       /\ hashes[n - 3] # hashes[n - 2]

Looping(hashes, count) ==
    Repeats(hashes) \/ Alternates(hashes) \/ count >= FrequencyThreshold

(***************************************************************************)
(* FileStuckGuard                                                          *)
(***************************************************************************)

\* check_stuck
CheckStuck(count) ==
    IF count >= GiveUpThreshold THEN {"give_up"}
    ELSE IF count >= NudgeThreshold THEN {"nudge"}
    ELSE {}

\* Any failing call that names the file counts, any successful one starts again.
FileResult(call, ok) ==
    LET p      == call.path
        count  == IF ok THEN 0 ELSE stuck[p] + 1
        edited == ok /\ IsEdit(call.hash)
    IN /\ stuck' = [stuck EXCEPT ![p] = count]
       /\ advised' = [advised EXCEPT ![p] = IF edited THEN {}
                                            ELSE IF ok THEN @
                                            ELSE @ \cup CheckStuck(count)]

(***************************************************************************)
(* MultiFileEditCycleDetector                                              *)
(***************************************************************************)

\* Two or three files, each edited at least twice.
InTurn(paths) ==
    LET files == ToSet(paths)
    IN /\ Len(paths) >= 4
       /\ Cardinality(files) \in 2 .. 3
       /\ \A f \in files : Cardinality({i \in DOMAIN paths : paths[i] = f}) >= 2

EditWindowAfter(paths) == IF InTurn(paths) THEN <<>> ELSE paths

\* record_edit_and_nudge, for an edit that succeeded.
RecordEdit(path) ==
    LET paths == LastOf(Append(editWindow, path), Window)
    IN /\ editWindow' = EditWindowAfter(paths)
       /\ nudges' = IF InTurn(paths) THEN nudges + 1 ELSE nudges
       /\ edits' = edits + 1

(***************************************************************************)
(* One call of the model                                                   *)
(***************************************************************************)

Detect(call) ==
    /\ recent' = LastOf(Append(recent, call.hash), MaxHistory)
    /\ frequency' = [frequency EXCEPT ![call.hash] = @ + 1]

\* The LoopDetector fires: the call does not run and the run ends.
LoopEndsRun(call) ==
    /\ running
    /\ Detect(call)
    /\ Looping(recent', frequency'[call.hash])
    /\ running' = FALSE
    /\ UNCHANGED <<fileVars, editVars>>

CallRuns(call, ok) ==
    /\ running
    /\ Detect(call)
    /\ ~Looping(recent', frequency'[call.hash])
    /\ IF call.path = NoPath THEN UNCHANGED fileVars ELSE FileResult(call, ok)
    /\ IF IsEdit(call.hash) /\ ok THEN RecordEdit(call.path) ELSE UNCHANGED editVars
    /\ UNCHANGED running

Stopped == ~running /\ UNCHANGED guardVars

GuardsNext ==
    \/ \E call \in GuardedCalls : LoopEndsRun(call)
    \/ \E call \in GuardedCalls, ok \in BOOLEAN : CallRuns(call, ok)
    \/ Stopped

\* A model that goes on calling tools.
GuardsSpec == GuardsInit /\ [][GuardsNext]_guardVars /\ WF_guardVars(GuardsNext)

(***************************************************************************)
(* Properties                                                              *)
(***************************************************************************)

\* Among the types, that no operation is seen more often than the frequency threshold.
GuardsTypeOK ==
    /\ running \in BOOLEAN
    /\ recent \in Seq(Hashes) /\ Len(recent) <= MaxHistory
    /\ frequency \in [Hashes -> 0 .. FrequencyThreshold]
    /\ stuck \in [Paths -> Nat]
    /\ advised \in [Paths -> SUBSET Advice]
    /\ editWindow \in Seq(Paths) /\ Len(editWindow) <= Window
    /\ nudges \in Nat
    /\ edits \in Nat

\* Advice on a file escalates: nobody is told to give a file up who was not told before
\* to read it again, however failures, reads and edits alternate (error_recovery.rs 587).
NudgeBeforeGiveUp ==
    \A p \in Paths : "give_up" \in advised[p] => "nudge" \in advised[p]

\* Messages about editing in turn stay rare: each takes four successful edits that no
\* other message was about (error_recovery.rs 805, 837).
EditMessagesAreSpaced == 4 * nudges + Len(editWindow) <= edits
===============================================================================
