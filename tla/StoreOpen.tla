------------------------------ MODULE StoreOpen ------------------------------
(***************************************************************************)
(* MemoryStore::open (memory/store.rs): every process that uses the database *)
(* first brings its schema up to date.  The statements of a migration and    *)
(* the row that records it are committed one by one, so another process may  *)
(* come between any two of them, and a process may die there.  SQLite lets   *)
(* one statement write at a time.                                            *)
(***************************************************************************)
EXTENDS Integers, Sequences

CONSTANTS
    Processes,      \* the processes that open the database
    SchemaVersion,  \* SCHEMA_VERSION, the number of migrations
    Migrations,     \* the migrations that are compiled into the program of each process
    MaxCrashes      \* bound: processes killed while they migrate

ASSUME StoreOpenAssumption ==
    /\ SchemaVersion \in Nat
    /\ MaxCrashes \in Nat
    /\ Migrations \in [Processes -> [1..SchemaVersion -> Seq([table : STRING, column : STRING])]]

Versions == 1..SchemaVersion

\* A statement creates a table (its column is empty), or adds a column to one.
AddsColumn(s) == s.column # ""
TableOf(s) == [table |-> s.table, column |-> ""]

\* No two statements add the same column, and a table is created before it is altered.
ASSUME SchemaAssumption ==
    \A p \in Processes, v \in Versions : \A i \in DOMAIN Migrations[p][v] :
        LET s == Migrations[p][v][i] IN AddsColumn(s) =>
            /\ \A q \in Processes, w \in Versions : \A j \in DOMAIN Migrations[q][w] :
                  Migrations[q][w][j] = s => w = v /\ j = i
            /\ \E w \in Versions : w < v /\ \A q \in Processes :
                  \E j \in DOMAIN Migrations[q][w] :
                     Migrations[q][w][j] = TableOf(s)

VARIABLES
    present,    \* the tables and columns of the database
    recorded,   \* the rows of schema_version
    at,         \* where each process is
    version,    \* the migration a process applies
    step,       \* the statement of it that comes next
    late,       \* history: some process had opened the store before this one began to
    opened,     \* history: some process has opened the store
    crashes     \* bound: processes killed so far

storeVars == <<present, recorded, at, version, step, late, opened, crashes>>

\* Mutant: the statements of a migration are kept in a map, each process has its own order.
Sql_Unordered(p, v) ==
    LET sql == Migrations[p][v]
    IN  IF p = CHOOSE q \in Processes : TRUE
        THEN [i \in DOMAIN sql |-> sql[Len(sql) + 1 - i]]
        ELSE sql

\* get_migration_sql.
Sql(p, v) == Migrations[p][v]

StoreInit ==
    /\ present = {}
    /\ recorded = {}
    /\ at = [p \in Processes |-> "closed"]
    /\ version = [p \in Processes |-> 1]
    /\ step = [p \in Processes |-> 1]
    /\ late = [p \in Processes |-> FALSE]
    /\ opened = FALSE
    /\ crashes = 0

-----------------------------------------------------------------------------
\* Mutant: the last migration counts as one that has to be applied.
IsCurrent_Inclusive(v) ==
    /\ \A w \in recorded : w <= v + 1
    /\ v = 0 \/ v + 1 \in recorded

\* get_schema_version: MAX(version), and 0 without a row or without the table.
IsCurrent(v) ==
    /\ \A w \in recorded : w <= v
    /\ v = 0 \/ v \in recorded

\* plan_migrations: every migration above the current version, in order.
Open(p) ==
    /\ at[p] = "closed"
    /\ \E v \in 0..SchemaVersion :
          /\ IsCurrent(v)
          /\ version' = [version EXCEPT ![p] = v + 1]
    /\ step' = [step EXCEPT ![p] = 1]
    /\ at' = [at EXCEPT ![p] = "migrating"]
    /\ late' = [late EXCEPT ![p] = opened]
    /\ UNCHANGED <<present, recorded, opened, crashes>>

Applies(p) == at[p] = "migrating" /\ version[p] <= SchemaVersion

\* ADD COLUMN of a column that exists, or to a table that does not, is an error.
Fails(s) == AddsColumn(s) /\ (s \in present \/ TableOf(s) \notin present)

\* execute_batch, one statement: the first that fails ends the open with its error.
Execute(p) ==
    /\ Applies(p)
    /\ step[p] <= Len(Sql(p, version[p]))
    /\ LET s == Sql(p, version[p])[step[p]] IN
          IF Fails(s)
          THEN /\ at' = [at EXCEPT ![p] = "failed"]
               /\ UNCHANGED <<present, step>>
          ELSE /\ present' = present \cup {s}
               /\ step' = [step EXCEPT ![p] = @ + 1]
               /\ UNCHANGED at
    /\ UNCHANGED <<recorded, version, late, opened, crashes>>

\* Mutant: the version is recorded when its migration begins.
Record_First(p) ==
    /\ Applies(p)
    /\ version[p] \notin recorded \/ step[p] > Len(Sql(p, version[p]))
    /\ recorded' = recorded \cup {version[p]}
    /\ IF step[p] > Len(Sql(p, version[p]))
       THEN /\ version' = [version EXCEPT ![p] = @ + 1]
            /\ step' = [step EXCEPT ![p] = 1]
       ELSE UNCHANGED <<version, step>>
    /\ UNCHANGED <<present, at, late, opened, crashes>>

\* INSERT OR REPLACE INTO schema_version, after the batch.
Record(p) ==
    /\ Applies(p)
    /\ step[p] > Len(Sql(p, version[p]))
    /\ recorded' = recorded \cup {version[p]}
    /\ version' = [version EXCEPT ![p] = @ + 1]
    /\ step' = [step EXCEPT ![p] = 1]
    /\ UNCHANGED <<present, at, late, opened, crashes>>

\* initialize returns: the store is open.
Opened(p) ==
    /\ at[p] = "migrating"
    /\ version[p] > SchemaVersion
    /\ at' = [at EXCEPT ![p] = "open"]
    /\ opened' = TRUE
    /\ UNCHANGED <<present, recorded, version, step, late, crashes>>

Gone(p) ==
    /\ at' = [at EXCEPT ![p] = "closed"]
    /\ version' = [version EXCEPT ![p] = 1]
    /\ step' = [step EXCEPT ![p] = 1]
    /\ late' = [late EXCEPT ![p] = FALSE]
    /\ UNCHANGED <<present, recorded, opened>>

\* The process ends, with its store or with the error; it may be started again.
Exit(p) ==
    /\ at[p] \in {"open", "failed"}
    /\ Gone(p)
    /\ UNCHANGED crashes

\* The process is killed; what it has committed stays.
Crash(p) ==
    /\ at[p] = "migrating"
    /\ crashes < MaxCrashes
    /\ crashes' = crashes + 1
    /\ Gone(p)

StoreNext == \E p \in Processes :
    Open(p) \/ Execute(p) \/ Record(p) \/ Opened(p) \/ Exit(p) \/ Crash(p)

StoreSpec == StoreInit /\ [][StoreNext]_storeVars

-----------------------------------------------------------------------------
(***************************************************************************)
(* Properties.                                                              *)
(***************************************************************************)
StoreTypeOK ==
    /\ present \subseteq [table : STRING, column : STRING]
    /\ recorded \subseteq Versions
    /\ at \in [Processes -> {"closed", "migrating", "open", "failed"}]
    /\ version \in [Processes -> 1..SchemaVersion + 1]
    /\ step \in [Processes -> Nat \ {0}]
    /\ late \in [Processes -> BOOLEAN]
    /\ opened \in BOOLEAN
    /\ crashes \in Nat

StatementsOf(p, v) == {Sql(p, v)[i] : i \in DOMAIN Sql(p, v)}

\* What every program, however it was compiled, finds in the database after version v.
Applied(v) == \A p \in Processes : \A s \in StatementsOf(p, v) :
    s \in present \/ \E q \in Processes : s \notin StatementsOf(q, v)

(***************************************************************************)
(* An open store has the whole schema, whoever applied which part of it and  *)
(* wherever a process was killed: MAX(version) alone decides what is skipped. *)
(***************************************************************************)
OpenIsComplete == \A p \in Processes : at[p] = "open" => \A v \in Versions : Applied(v)

(***************************************************************************)
(* Once some process has opened the store, no open that begins fails: what   *)
(* try_clone_for_thread and the tools that open the file again rely on.      *)
(***************************************************************************)
ReopensSucceed == \A p \in Processes : late[p] => at[p] # "failed"

\* A column of a migration that is still to be applied is there, and nobody is past it.
Wedged == \E v \in Versions, p \in Processes :
    /\ v \notin recorded
    /\ \E i \in DOMAIN Sql(p, v) :
          /\ AddsColumn(Sql(p, v)[i])
          /\ Sql(p, v)[i] \in present
          /\ \A q \in Processes :
                ~(at[q] = "migrating" /\ version[q] = v /\ step[q] > i)

(***************************************************************************)
(* Processes that open a new database at the same time may fail, but they do *)
(* not leave it half migrated: only a process that is killed does.           *)
(***************************************************************************)
OnlyCrashesWedge == Wedged => crashes > 0
==============================================================================
