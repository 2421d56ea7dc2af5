-------------------------------- MODULE Ingest --------------------------------
(***************************************************************************)
(* The notes of the user in the memory (memory/ingest.rs, `--ingest` and     *)
(* `--ingest-prune`): a program opens the store (StoreOpen), runs one pass   *)
(* and ends.  A pass walks a folder and brings the chunks of each file in    *)
(* line with what it reads there, one transaction for each file; with prune  *)
(* it then removes the chunks of files that are gone.  The user may edit the *)
(* notes meanwhile, and passes may overlap.                                  *)
(*                                                                         *)
(* The chunks of a file are found again by its base name.  A transaction     *)
(* reads the database as it was at its first read, and cannot write when the *)
(* database has changed since (SQLite: BEGIN DEFERRED in WAL mode).          *)
(***************************************************************************)
EXTENDS StoreOpen

CONSTANTS
    Folders, Names, \* a file is a folder and a base name
    Paragraphs,     \* the paragraphs a note may have
    gone,           \* marks a path without a file
    MaxEdits,       \* bound: edits of the notes
    MaxPasses       \* bound: passes started

ASSUME IngestAssumption ==
    /\ gone \notin Paragraphs
    /\ MaxEdits \in Nat /\ MaxPasses \in Nat

Files == Folders \X Names
Note == (SUBSET Paragraphs) \cup {{gone}}

VARIABLES
    notes,      \* what each path holds
    rows,       \* how often the table has a paragraph under a base name
    pass,       \* where the pass of each process is
    dirs,       \* the folders it still has to list
    todo,       \* the files of the folder it is in that it still has to visit
    file,       \* the file it has read
    text,       \* and its paragraphs
    known,      \* the chunks its transaction has found
    stale,      \* the database was written since
    names,      \* the base names it has met on its walk for the prune, later those to remove
    prune,      \* --ingest-prune
    quiet,      \* history: no file has changed since this pass, or any it overlaps, began
    missing,    \* history: the paths that had no file at some moment since it began
    edits, passes

ingestVars == <<notes, rows, pass, dirs, todo, file, text, known, stale, names, prune, quiet,
                missing, edits, passes>>
vars == <<storeVars, ingestVars>>
walk == <<dirs, todo>>
transaction == <<file, text, known>>
history == <<quiet, missing>>
bounds == <<edits, passes>>

NoFile == <<>>
Absent == {f \in Files : notes[f] = {gone}}
Exists(f) == f \notin Absent
Running(p) == pass[p] # "idle"

Init ==
    /\ StoreInit
    /\ notes \in [Files -> {{gone}, Paragraphs}]
    /\ rows = [n \in Names |-> [t \in Paragraphs |-> 0]]
    /\ pass = [p \in Processes |-> "idle"]
    /\ dirs = [p \in Processes |-> {}]
    /\ todo = [p \in Processes |-> {}]
    /\ file = [p \in Processes |-> NoFile]
    /\ text = [p \in Processes |-> {}]
    /\ known = [p \in Processes |-> {}]
    /\ stale = [p \in Processes |-> FALSE]
    /\ names = [p \in Processes |-> {}]
    /\ prune = [p \in Processes |-> FALSE]
    /\ quiet = [p \in Processes |-> FALSE]
    /\ missing = [p \in Processes |-> {}]
    /\ edits = 0
    /\ passes = 0

-----------------------------------------------------------------------------
\* Whoever is between the reads and the writes of a transaction now reads an old snapshot.
OthersReadOld(p) == stale' = [q \in Processes |-> q # p /\ pass[q] = "sync"]

\* The user writes, empties, removes or brings back a note.
Edit(f) ==
    /\ edits < MaxEdits
    /\ edits' = edits + 1
    /\ \E note \in Note \ {notes[f]} : notes' = [notes EXCEPT ![f] = note]
    /\ quiet' = [p \in Processes |-> FALSE]
    /\ missing' = [p \in Processes |-> IF Running(p) THEN missing[p] \cup Absent' ELSE {}]
    /\ UNCHANGED <<storeVars, rows, pass, walk, transaction, stale, names, prune, passes>>

\* A process opens the store, and is not at its pass yet, or does something else with it.
OpensStore(p) ==
    /\ ~Running(p)
    /\ \/ Open(p) \/ Execute(p) \/ Record(p) \/ Opened(p) \/ Exit(p) \/ Crash(p)
    /\ IF <<present, recorded>>' # <<present, recorded>>
       THEN OthersReadOld(p)
       ELSE UNCHANGED stale
    /\ UNCHANGED <<notes, rows, pass, walk, transaction, names, prune, history, bounds>>

\* main: ingest_path, and reconcile_ingested_files after it when asked for.
Start(p) ==
    /\ at[p] = "open"
    /\ ~Running(p)
    /\ passes < MaxPasses
    /\ passes' = passes + 1
    /\ pass' = [pass EXCEPT ![p] = "ingest"]
    /\ dirs' = [dirs EXCEPT ![p] = Folders]
    /\ \E b \in BOOLEAN : prune' = [prune EXCEPT ![p] = b]
    /\ quiet' = [quiet EXCEPT ![p] = \A q \in Processes : Running(q) => quiet[q]]
    /\ missing' = [missing EXCEPT ![p] = Absent]
    /\ UNCHANGED <<storeVars, notes, rows, todo, transaction, stale, names, edits>>

\* read_dir, for either walk.
ListFolder(p) ==
    /\ pass[p] \in {"ingest", "collect"}
    /\ todo[p] = {}
    /\ \E d \in dirs[p] :
          /\ dirs' = [dirs EXCEPT ![p] = @ \ {d}]
          /\ todo' = [todo EXCEPT ![p] = {f \in Files : f[1] = d /\ Exists(f)}]
    /\ UNCHANGED <<storeVars, notes, rows, pass, transaction, stale, names, prune, history, bounds>>

\* ingest_file: the text of a file that is still there; one that is gone is passed over.
ReadFile(p) ==
    /\ pass[p] = "ingest"
    /\ \E f \in todo[p] :
          /\ todo' = [todo EXCEPT ![p] = @ \ {f}]
          /\ IF Exists(f)
             THEN /\ file' = [file EXCEPT ![p] = f]
                  /\ text' = [text EXCEPT ![p] = notes[f]]
                  /\ pass' = [pass EXCEPT ![p] = "begin"]
             ELSE UNCHANGED <<file, text, pass>>
    /\ UNCHANGED <<storeVars, notes, rows, dirs, known, stale, names, prune, history, bounds>>

\* existing_ingest_chunks, the first read of the transaction.
FindChunks(p) ==
    /\ pass[p] = "begin"
    /\ known' = [known EXCEPT ![p] = {t \in Paragraphs : rows[file[p][2]][t] > 0}]
    /\ stale' = [stale EXCEPT ![p] = FALSE]
    /\ pass' = [pass EXCEPT ![p] = "sync"]
    /\ UNCHANGED <<storeVars, notes, rows, walk, file, text, names, prune, history, bounds>>

\* The rows of a base name, once chunks have been removed and others added.
Changed(n, purged, added) ==
    [rows EXCEPT ![n] = [t \in Paragraphs |->
        IF t \in purged THEN 0 ELSE IF t \in added THEN @[t] + 1 ELSE @[t]]]

\* A commit of process p.
Commit(p, new) ==
    /\ rows' = new
    /\ IF new # rows
       THEN OthersReadOld(p)
       ELSE stale' = [stale EXCEPT ![p] = FALSE]

ForgetFile(p) ==
    /\ file' = [file EXCEPT ![p] = NoFile]
    /\ text' = [text EXCEPT ![p] = {}]
    /\ known' = [known EXCEPT ![p] = {}]

\* Mutant: the chunks that are there are read before the transaction.
SyncFile_Unguarded(p) ==
    /\ pass[p] = "sync"
    /\ Commit(p, Changed(file[p][2], known[p] \ text[p], text[p] \ known[p]))
    /\ pass' = [pass EXCEPT ![p] = "ingest"]
    /\ ForgetFile(p)
    /\ UNCHANGED <<storeVars, notes, walk, names, prune, history, bounds>>

\* sync_file_chunks and the commit: removes the chunks the file no longer has, adds the new ones.
SyncFile(p) ==
    /\ pass[p] = "sync"
    /\ text[p] = known[p] \/ ~stale[p]
    /\ Commit(p, Changed(file[p][2], known[p] \ text[p], text[p] \ known[p]))
    /\ pass' = [pass EXCEPT ![p] = "ingest"]
    /\ ForgetFile(p)
    /\ UNCHANGED <<storeVars, notes, walk, names, prune, history, bounds>>

\* The program ends, and its pass with it.
Ends(p) ==
    /\ Exit(p)
    /\ pass' = [pass EXCEPT ![p] = "idle"]
    /\ dirs' = [dirs EXCEPT ![p] = {}]
    /\ todo' = [todo EXCEPT ![p] = {}]
    /\ names' = [names EXCEPT ![p] = {}]
    /\ prune' = [prune EXCEPT ![p] = FALSE]
    /\ missing' = [missing EXCEPT ![p] = {}]
    /\ quiet' = [quiet EXCEPT ![p] = FALSE]

\* An error, of the database or of the disk, or a kill: the transaction is rolled back.
Fail(p) ==
    /\ Running(p)
    /\ Ends(p)
    /\ ForgetFile(p)
    /\ stale' = [stale EXCEPT ![p] = FALSE]
    /\ UNCHANGED <<notes, rows, bounds>>

WalkIsOver(p) == todo[p] = {} /\ dirs[p] = {}

\* The folder has been ingested and there is nothing more to do.
EndOfIngest(p) ==
    /\ pass[p] = "ingest"
    /\ WalkIsOver(p)
    /\ ~prune[p]
    /\ Ends(p)
    /\ UNCHANGED <<notes, rows, transaction, stale, bounds>>

\* Mutant: the names for the prune are taken from the first walk, which noted none.
Reconcile_NoWalk(p) ==
    /\ pass[p] = "ingest"
    /\ WalkIsOver(p)
    /\ prune[p]
    /\ pass' = [pass EXCEPT ![p] = "collect"]
    /\ UNCHANGED <<storeVars, notes, rows, walk, transaction, stale, names, prune, history, bounds>>

\* reconcile_ingested_files
Reconcile(p) ==
    /\ pass[p] = "ingest"
    /\ WalkIsOver(p)
    /\ prune[p]
    /\ pass' = [pass EXCEPT ![p] = "collect"]
    /\ dirs' = [dirs EXCEPT ![p] = Folders]
    /\ names' = [names EXCEPT ![p] = {}]
    /\ UNCHANGED <<storeVars, notes, rows, todo, transaction, stale, prune, history, bounds>>

\* collect_ingest_filenames
Collect(p) ==
    /\ pass[p] = "collect"
    /\ \E f \in todo[p] :
          /\ todo' = [todo EXCEPT ![p] = @ \ {f}]
          /\ names' = [names EXCEPT ![p] = IF Exists(f) THEN @ \cup {f[2]} ELSE @]
    /\ UNCHANGED <<storeVars, notes, rows, pass, dirs, transaction, stale, prune, history, bounds>>

\* purge_orphans: the names the table has chunks of, without those met on the walk.
FindOrphans(p) ==
    /\ pass[p] = "collect"
    /\ WalkIsOver(p)
    /\ names' = [names EXCEPT ![p] = {n \in Names : \E t \in Paragraphs : rows[n][t] > 0} \ @]
    /\ pass' = [pass EXCEPT ![p] = "purge"]
    /\ UNCHANGED <<storeVars, notes, rows, walk, transaction, stale, prune, history, bounds>>

\* The deletes of purge_orphans, one transaction that begins with a write.
Purge(p) ==
    /\ pass[p] = "purge"
    /\ Commit(p, [n \in Names |-> IF n \in names[p] THEN [t \in Paragraphs |-> 0] ELSE rows[n]])
    /\ Ends(p)
    /\ UNCHANGED <<notes, transaction, bounds>>

Next ==
    \/ \E f \in Files : Edit(f)
    \/ \E p \in Processes :
          \/ OpensStore(p) \/ Start(p) \/ ListFolder(p) \/ ReadFile(p) \/ FindChunks(p)
          \/ SyncFile(p) \/ Fail(p) \/ EndOfIngest(p) \/ Reconcile(p) \/ Collect(p)
          \/ FindOrphans(p) \/ Purge(p)

Spec == Init /\ [][Next]_vars

-----------------------------------------------------------------------------
(***************************************************************************)
(* Properties.                                                              *)
(***************************************************************************)
IngestTypeOK ==
    /\ notes \in [Files -> Note]
    /\ rows \in [Names -> [Paragraphs -> Nat]]
    /\ pass \in [Processes -> {"idle", "ingest", "begin", "sync", "collect", "purge"}]
    /\ dirs \in [Processes -> SUBSET Folders]
    /\ todo \in [Processes -> SUBSET Files]
    /\ file \in [Processes -> Files \cup {NoFile}]
    /\ text \in [Processes -> SUBSET Paragraphs]
    /\ known \in [Processes -> SUBSET Paragraphs]
    /\ names \in [Processes -> SUBSET Names]
    /\ stale \in [Processes -> BOOLEAN] /\ prune \in [Processes -> BOOLEAN]
    /\ quiet \in [Processes -> BOOLEAN]
    /\ missing \in [Processes -> SUBSET Files]
    /\ edits \in Nat /\ passes \in Nat

TypeOK == StoreTypeOK /\ IngestTypeOK

\* A note whose name no other note has: each of its paragraphs is in the memory once, and
\* nothing else is.
Mirrored(f) == \/ \E d \in Folders \ {f[1]} : Exists(<<d, f[2]>>)
               \/ \A t \in Paragraphs : rows[f[2]][t] = IF t \in notes[f] THEN 1 ELSE 0

Forgotten(n) == \A t \in Paragraphs : rows[n][t] = 0

(***************************************************************************)
(* When a pass ends under which no note was edited, the memory holds each    *)
(* paragraph of the notes once, whatever other passes did meanwhile, and     *)
(* after a prune nothing of notes that are gone (ingest.rs 62-68, 232).      *)
(***************************************************************************)
PassMirrorsNotes == [][\A p \in Processes :
    quiet[p] /\ (EndOfIngest(p) \/ Purge(p)) =>
        /\ \A f \in Files : Exists(f) => Mirrored(f)'
        /\ prune[p] => \A n \in Names :
                          (\A d \in Folders : ~Exists(<<d, n>>)) => Forgotten(n)']_vars

(***************************************************************************)
(* A prune removes the chunks of a note only if it was missing while the     *)
(* pass ran, in every folder: never those of a note that was there all the   *)
(* time (ingest.rs 179).                                                     *)
(***************************************************************************)
PurgedWereGone == [][\A p \in Processes : Purge(p) =>
    \A n \in Names : rows'[n] # rows[n] => \A d \in Folders : <<d, n>> \in missing[p]]_vars
==============================================================================
