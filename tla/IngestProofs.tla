------------------------------ MODULE IngestProofs ------------------------------
(***************************************************************************)
(* What is proved of the programs that open the store and ingest notes.      *)
(***************************************************************************)
EXTENDS Ingest, TLAPS

(***************************************************************************)
(* MemoryStore::open: an open store has the whole schema, and once a process *)
(* has opened it no later open fails, whatever the migrations, the number of *)
(* processes and of crashes.                                                 *)
(***************************************************************************)
Statement == [table : STRING, column : STRING]

\* MAX(version) alone says what is applied: everything below a recorded version is.
RecordedBelow == \A v \in Versions, w \in recorded : v <= w => Applied(v)

\* What a process that is migrating has behind it, and within its migration.
BehindIt == \A p \in Processes : at[p] = "migrating" =>
    /\ \A v \in Versions : v < version[p] => Applied(v)
    /\ version[p] = 1 \/ version[p] - 1 \in recorded

WithinIt == \A p \in Processes : Applies(p) =>
    \A i \in DOMAIN Sql(p, version[p]) : i < step[p] => Sql(p, version[p])[i] \in present

\* Once the store has been open the last version is recorded; whoever starts later has no plan.
NoPlanLeft ==
    /\ opened => SchemaVersion = 0 \/ SchemaVersion \in recorded
    /\ \A p \in Processes : late[p] /\ at[p] = "migrating" => version[p] = SchemaVersion + 1

IInv == StoreTypeOK /\ RecordedBelow /\ BehindIt /\ WithinIt /\ NoPlanLeft
            /\ OpenIsComplete /\ ReopensSucceed

\* A sequence over a set has its elements there.
LEMMA SeqType ==
    ASSUME NEW T, NEW s \in Seq(T)
    PROVE  /\ Len(s) \in Nat
           /\ DOMAIN s = 1..Len(s)
           /\ \A i \in DOMAIN s : s[i] \in T
  OBVIOUS

\* The statements of a migration are pairs of a table and a column.
LEMMA SqlType ==
    ASSUME NEW p \in Processes, NEW v \in Versions
    PROVE  /\ Sql(p, v) \in Seq(Statement)
           /\ Len(Sql(p, v)) \in Nat
           /\ DOMAIN Sql(p, v) = 1..Len(Sql(p, v))
           /\ \A i \in DOMAIN Sql(p, v) : Sql(p, v)[i] \in Statement
  <1>1. Sql(p, v) \in Seq([table : STRING, column : STRING])
    BY StoreOpenAssumption DEF Versions, Sql
  <1>2. Sql(p, v) \in Seq(Statement)
    BY <1>1 DEF Statement
  <1> QED  BY <1>2, SeqType

\* Tables and columns never go away, so what has been applied stays applied.
LEMMA AppliedStays ==
    ASSUME present \subseteq present', NEW v \in Versions, Applied(v)
    PROVE  Applied(v)'
  BY DEF Applied, StatementsOf, Sql

\* A process at the end of a migration has applied all of it.
LEMMA EndOfMigration ==
    ASSUME NEW p \in Processes, StoreTypeOK, WithinIt, Applies(p),
           step[p] > Len(Sql(p, version[p]))
    PROVE  Applied(version[p])
  <1>1. version[p] \in Versions
    BY DEF StoreTypeOK, Applies, Versions
  <1>2. /\ DOMAIN Sql(p, version[p]) = 1..Len(Sql(p, version[p]))
        /\ Len(Sql(p, version[p])) \in Nat
    BY <1>1, SqlType
  <1>3. step[p] \in Nat
    BY DEF StoreTypeOK
  <1>4. \A i \in DOMAIN Sql(p, version[p]) : i < step[p]
    BY <1>2, <1>3
  <1>5. StatementsOf(p, version[p]) \subseteq present
    BY <1>4 DEF WithinIt, StatementsOf
  <1> QED  BY <1>5 DEF Applied

-----------------------------------------------------------------------------
(***************************************************************************)
(* The invariant is inductive.                                              *)
(***************************************************************************)
LEMMA Initially == StoreInit => IInv
  <1> SUFFICES ASSUME StoreInit PROVE IInv  OBVIOUS
  <1>1. StoreTypeOK
    <2>1. /\ version \in [Processes -> 1..SchemaVersion + 1]
          /\ step \in [Processes -> Nat \ {0}]
          /\ crashes \in Nat
      BY StoreOpenAssumption DEF StoreInit
    <2>2. /\ present \subseteq [table : STRING, column : STRING]
          /\ recorded \subseteq Versions
          /\ opened \in BOOLEAN
      BY DEF StoreInit
    <2>3. /\ at \in [Processes -> {"closed", "migrating", "open", "failed"}]
          /\ late \in [Processes -> BOOLEAN]
      BY DEF StoreInit
    <2> QED  BY <2>1, <2>2, <2>3 DEF StoreTypeOK
  <1>2. RecordedBelow /\ BehindIt /\ WithinIt /\ NoPlanLeft /\ OpenIsComplete /\ ReopensSucceed
    BY DEF StoreInit, RecordedBelow, BehindIt, WithinIt, NoPlanLeft, OpenIsComplete,
           ReopensSucceed, Applies
  <1> QED  BY <1>1, <1>2 DEF IInv

LEMMA OpenStep ==
    ASSUME NEW p \in Processes, IInv, Open(p)
    PROVE  IInv'
  <1>1. PICK v \in 0..SchemaVersion :
            IsCurrent(v) /\ version' = [version EXCEPT ![p] = v + 1]
    BY DEF Open
  <1> USE DEF IInv
  <1>2. StoreTypeOK'
    BY <1>1, StoreOpenAssumption DEF Open, StoreTypeOK, Versions
  <1>3. \A w \in Versions : Applied(w)' <=> Applied(w)
    BY DEF Open, Applied
  <1>4. RecordedBelow'
    BY <1>3 DEF Open, RecordedBelow
  <1>5. BehindIt'
    <2> SUFFICES ASSUME NEW q \in Processes, at'[q] = "migrating"
                 PROVE  /\ \A w \in Versions : w < version'[q] => Applied(w)'
                        /\ version'[q] = 1 \/ version'[q] - 1 \in recorded'
      BY DEF BehindIt
    <2>1. CASE q = p
      <3>1. version'[p] = v + 1 /\ v \in Nat
        BY <1>1, StoreOpenAssumption DEF StoreTypeOK
      <3>2. v = 0 \/ v \in recorded
        BY <1>1 DEF IsCurrent
      <3>3. \A w \in Versions : w < v + 1 => Applied(w)
        BY <3>1, <3>2 DEF RecordedBelow, Versions
      <3> QED  BY <2>1, <3>1, <3>2, <3>3, <1>3 DEF Open
    <2>2. CASE q # p
      BY <2>2, <1>1, <1>3 DEF Open, BehindIt, StoreTypeOK
    <2> QED  BY <2>1, <2>2
  <1>6. WithinIt'
    <2> SUFFICES ASSUME NEW q \in Processes, Applies(q)',
                        NEW i \in DOMAIN Sql(q, version'[q]), i < step'[q]
                 PROVE  Sql(q, version'[q])[i] \in present'
      BY DEF WithinIt, Sql
    <2>1. CASE q = p
      <3>1. version'[p] \in Versions
        BY <2>1, <1>2 DEF StoreTypeOK, Applies, Versions
      <3>2. i \in Nat \ {0}
        BY <2>1, <3>1, SqlType
      <3> QED  BY <2>1, <3>2 DEF Open, StoreTypeOK
    <2>2. CASE q # p
      BY <2>2, <1>1 DEF Open, WithinIt, StoreTypeOK, Applies
    <2> QED  BY <2>1, <2>2
  <1>7. NoPlanLeft'
    <2>1. ASSUME opened PROVE v = SchemaVersion
      BY <2>1, <1>1, StoreOpenAssumption DEF NoPlanLeft, IsCurrent
    <2> QED  BY <2>1, <1>1, StoreOpenAssumption DEF Open, NoPlanLeft, StoreTypeOK
  <1>8. OpenIsComplete' /\ ReopensSucceed'
    BY <1>3 DEF Open, OpenIsComplete, ReopensSucceed, StoreTypeOK
  <1> QED  BY <1>2, <1>4, <1>5, <1>6, <1>7, <1>8

LEMMA ExecuteStep ==
    ASSUME NEW p \in Processes, IInv, Execute(p)
    PROVE  IInv'
  <1> DEFINE s == Sql(p, version[p])[step[p]]
  <1> USE DEF IInv
  <1>1. /\ version[p] \in Versions
        /\ step[p] \in DOMAIN Sql(p, version[p])
        /\ s \in Statement
    <2>1. version[p] \in Versions
      BY DEF Execute, Applies, StoreTypeOK, Versions
    <2> QED  BY <2>1, SqlType DEF Execute, StoreTypeOK
  <1>2. \/ /\ at' = [at EXCEPT ![p] = "failed"]
           /\ present' = present /\ step' = step
        \/ /\ present' = present \cup {s}
           /\ step' = [step EXCEPT ![p] = @ + 1]
           /\ at' = at
    BY DEF Execute
  <1>3. UNCHANGED <<recorded, version, late, opened, crashes>> /\ at[p] = "migrating"
    BY DEF Execute, Applies
  <1>4. present \subseteq present'
    BY <1>2
  <1>5. StoreTypeOK'
    <2>1. present' \subseteq [table : STRING, column : STRING]
      BY <1>1, <1>2 DEF StoreTypeOK, Statement
    <2>2. at' \in [Processes -> {"closed", "migrating", "open", "failed"}]
      BY <1>2 DEF StoreTypeOK
    <2>3. step' \in [Processes -> Nat \ {0}]
      BY <1>2 DEF StoreTypeOK
    <2> QED  BY <2>1, <2>2, <2>3, <1>3 DEF StoreTypeOK
  <1>6. \A v \in Versions : Applied(v) => Applied(v)'
    BY <1>4, AppliedStays
  <1>7. \A q \in Processes : at'[q] = "migrating" => at[q] = "migrating"
    BY <1>2, <1>3 DEF StoreTypeOK
  <1>8. RecordedBelow'
    BY <1>3, <1>6 DEF RecordedBelow
  <1>9. BehindIt'
    BY <1>3, <1>6, <1>7 DEF BehindIt
  <1>10. WithinIt'
    <2> SUFFICES ASSUME NEW q \in Processes, Applies(q)',
                        NEW i \in DOMAIN Sql(q, version[q]), i < step'[q]
                 PROVE  Sql(q, version[q])[i] \in present'
      BY <1>3 DEF WithinIt, Sql
    <2>1. Applies(q) /\ version[q] \in Versions
      BY <1>3, <1>7 DEF Applies, StoreTypeOK, Versions
    <2>2. i \in Nat
      BY <2>1, SqlType
    <2>3. CASE i < step[q]
      BY <2>1, <2>3, <1>4 DEF WithinIt
    <2>4. CASE i >= step[q]
      <3>1. q = p /\ i = step[p] /\ present' = present \cup {s}
        BY <2>2, <2>4, <1>2 DEF StoreTypeOK
      <3> QED  BY <3>1
    <2> QED  BY <2>2, <2>3, <2>4 DEF StoreTypeOK
  <1>11. NoPlanLeft'
    BY <1>3, <1>7 DEF NoPlanLeft
  <1>12. OpenIsComplete'
    <2>1. \A q \in Processes : at'[q] = "open" => at[q] = "open"
      BY <1>2, <1>3 DEF StoreTypeOK
    <2> QED  BY <2>1, <1>6 DEF OpenIsComplete
  <1>13. ReopensSucceed'
    <2>1. ~late[p]
      BY <1>1, <1>3, StoreOpenAssumption DEF NoPlanLeft, StoreTypeOK, Versions
    <2> QED  BY <2>1, <1>2, <1>3 DEF ReopensSucceed, StoreTypeOK
  <1> QED  BY <1>5, <1>8, <1>9, <1>10, <1>11, <1>12, <1>13

LEMMA RecordStep ==
    ASSUME NEW p \in Processes, IInv, Record(p)
    PROVE  IInv'
  <1> USE DEF IInv
  <1>1. version[p] \in Versions /\ Applied(version[p]) /\ at[p] = "migrating"
    <2>1. Applies(p) /\ step[p] > Len(Sql(p, version[p]))
      BY DEF Record
    <2>2. Applied(version[p])
      BY <2>1, EndOfMigration
    <2> QED  BY <2>1, <2>2 DEF Applies, StoreTypeOK, Versions
  <1>2. /\ recorded' = recorded \cup {version[p]}
        /\ version' = [version EXCEPT ![p] = @ + 1]
        /\ step' = [step EXCEPT ![p] = 1]
        /\ UNCHANGED <<present, at, late, opened, crashes>>
    BY DEF Record
  <1>3. StoreTypeOK'
    <2>1. version' \in [Processes -> 1..SchemaVersion + 1]
      BY <1>1, <1>2, StoreOpenAssumption DEF StoreTypeOK, Versions
    <2>2. step' \in [Processes -> Nat \ {0}] /\ recorded' \subseteq Versions
      BY <1>1, <1>2 DEF StoreTypeOK
    <2> QED  BY <2>1, <2>2, <1>2 DEF StoreTypeOK
  <1>4. \A v \in Versions : Applied(v)' <=> Applied(v)
    BY <1>2 DEF Applied
  <1>5. \A v \in Versions : v <= version[p] => Applied(v)
    BY <1>1 DEF BehindIt, Versions
  <1>6. RecordedBelow'
    BY <1>2, <1>4, <1>5 DEF RecordedBelow
  <1>7. BehindIt'
    <2> SUFFICES ASSUME NEW q \in Processes, at[q] = "migrating"
                 PROVE  /\ \A w \in Versions : w < version'[q] => Applied(w)
                        /\ version'[q] = 1 \/ version'[q] - 1 \in recorded'
      BY <1>2, <1>4 DEF BehindIt
    <2>1. CASE q = p
      BY <2>1, <1>1, <1>2, <1>5 DEF StoreTypeOK, Versions
    <2>2. CASE q # p
      BY <2>2, <1>2 DEF BehindIt, StoreTypeOK
    <2> QED  BY <2>1, <2>2
  <1>8. WithinIt'
    <2> SUFFICES ASSUME NEW q \in Processes, Applies(q)',
                        NEW i \in DOMAIN Sql(q, version'[q]), i < step'[q]
                 PROVE  Sql(q, version'[q])[i] \in present'
      BY DEF WithinIt, Sql
    <2>1. CASE q = p
      <3>1. version'[p] \in Versions
        BY <2>1, <1>3 DEF StoreTypeOK, Applies, Versions
      <3>2. i \in Nat \ {0}
        BY <2>1, <3>1, SqlType
      <3> QED  BY <2>1, <3>2, <1>2 DEF StoreTypeOK
    <2>2. CASE q # p
      BY <2>2, <1>2 DEF WithinIt, StoreTypeOK, Applies
    <2> QED  BY <2>1, <2>2
  <1>9. NoPlanLeft'
    <2>1. ASSUME NEW q \in Processes, late[q], at[q] = "migrating", q # p
          PROVE  version'[q] = SchemaVersion + 1
      BY <2>1, <1>2 DEF NoPlanLeft, StoreTypeOK
    <2>2. ~late[p]
      BY <1>1, StoreOpenAssumption DEF NoPlanLeft, StoreTypeOK, Versions
    <2> QED  BY <2>1, <2>2, <1>2 DEF NoPlanLeft
  <1>10. OpenIsComplete' /\ ReopensSucceed'
    BY <1>2, <1>4 DEF OpenIsComplete, ReopensSucceed
  <1> QED  BY <1>3, <1>6, <1>7, <1>8, <1>9, <1>10

LEMMA OpenedStep ==
    ASSUME NEW p \in Processes, IInv, Opened(p)
    PROVE  IInv'
  <1> USE DEF IInv
  <1>1. /\ at[p] = "migrating" /\ version[p] = SchemaVersion + 1
        /\ at' = [at EXCEPT ![p] = "open"] /\ opened' = TRUE
        /\ UNCHANGED <<present, recorded, version, step, late, crashes>>
    BY StoreOpenAssumption DEF Opened, StoreTypeOK
  <1>2. StoreTypeOK'
    BY <1>1 DEF StoreTypeOK
  <1>3. \A v \in Versions : Applied(v)' <=> Applied(v)
    BY <1>1 DEF Applied
  <1>4. \A q \in Processes : at'[q] = "migrating" => at[q] = "migrating"
    BY <1>1 DEF StoreTypeOK
  <1>5. RecordedBelow' /\ BehindIt'
    BY <1>1, <1>3, <1>4 DEF RecordedBelow, BehindIt
  <1>6. WithinIt'
    BY <1>1, <1>4 DEF WithinIt, Applies
  <1>7. SchemaVersion = 0 \/ SchemaVersion \in recorded
    <2>1. version[p] = 1 \/ version[p] - 1 \in recorded
      BY <1>1 DEF BehindIt
    <2> QED  BY <2>1, <1>1, StoreOpenAssumption
  <1>8. NoPlanLeft'
    BY <1>1, <1>4, <1>7 DEF NoPlanLeft
  <1>9. \A v \in Versions : Applied(v)
    BY <1>1, StoreOpenAssumption DEF BehindIt, Versions
  <1>10. OpenIsComplete' /\ ReopensSucceed'
    BY <1>1, <1>3, <1>9 DEF OpenIsComplete, ReopensSucceed, StoreTypeOK
  <1> QED  BY <1>2, <1>5, <1>6, <1>8, <1>10

\* Exit and Crash.
LEMMA GoneStep ==
    ASSUME NEW p \in Processes, IInv, Gone(p), crashes' \in Nat
    PROVE  IInv'
  <1> USE DEF IInv
  <1>1. StoreTypeOK'
    <2>1. version' \in [Processes -> 1..SchemaVersion + 1] /\ step' \in [Processes -> Nat \ {0}]
      BY StoreOpenAssumption DEF Gone, StoreTypeOK
    <2>2. at' \in [Processes -> {"closed", "migrating", "open", "failed"}]
      BY DEF Gone, StoreTypeOK
    <2>3. late' \in [Processes -> BOOLEAN]
      BY DEF Gone, StoreTypeOK
    <2> QED  BY <2>1, <2>2, <2>3 DEF Gone, StoreTypeOK
  <1>2. \A v \in Versions : Applied(v)' <=> Applied(v)
    BY DEF Gone, Applied
  <1>3. \A q \in Processes : \/ at'[q] = "closed" /\ ~late'[q]
                             \/ /\ at'[q] = at[q] /\ version'[q] = version[q]
                                /\ step'[q] = step[q] /\ late'[q] = late[q]
    BY DEF Gone, StoreTypeOK
  <1>4. UNCHANGED <<present, recorded, opened>>
    BY DEF Gone
  <1>5. RecordedBelow' /\ BehindIt'
    BY <1>2, <1>3, <1>4 DEF RecordedBelow, BehindIt
  <1>6. WithinIt'
    BY <1>3, <1>4 DEF WithinIt, Applies, Sql
  <1>7. NoPlanLeft' /\ OpenIsComplete' /\ ReopensSucceed'
    BY <1>2, <1>3, <1>4 DEF NoPlanLeft, OpenIsComplete, ReopensSucceed
  <1> QED  BY <1>1, <1>5, <1>6, <1>7

LEMMA Inductive == IInv /\ [StoreNext]_storeVars => IInv'
  <1> SUFFICES ASSUME IInv, [StoreNext]_storeVars PROVE IInv'  OBVIOUS
  <1>1. ASSUME NEW p \in Processes, Open(p) PROVE IInv'
    BY <1>1, OpenStep
  <1>2. ASSUME NEW p \in Processes, Execute(p) PROVE IInv'
    BY <1>2, ExecuteStep
  <1>3. ASSUME NEW p \in Processes, Record(p) PROVE IInv'
    BY <1>3, RecordStep
  <1>4. ASSUME NEW p \in Processes, Opened(p) PROVE IInv'
    BY <1>4, OpenedStep
  <1>5. ASSUME NEW p \in Processes, Exit(p) PROVE IInv'
    BY <1>5, GoneStep DEF Exit, IInv, StoreTypeOK
  <1>6. ASSUME NEW p \in Processes, Crash(p) PROVE IInv'
    BY <1>6, GoneStep DEF Crash, IInv, StoreTypeOK
  <1>7. CASE UNCHANGED storeVars
    BY <1>7 DEF storeVars, IInv, StoreTypeOK, RecordedBelow, BehindIt, WithinIt, NoPlanLeft,
                OpenIsComplete,
                ReopensSucceed, Applied, Applies
  <1> QED  BY <1>1, <1>2, <1>3, <1>4, <1>5, <1>6, <1>7 DEF StoreNext

LEMMA Invariance == StoreSpec => []IInv
  BY Initially, Inductive, PTL DEF StoreSpec

-----------------------------------------------------------------------------
(***************************************************************************)
(* Without a crash whoever has added a column is still at its migration, or  *)
(* has recorded it: the process that is furthest in a migration cannot fail. *)
(***************************************************************************)
Attended == \A v \in Versions, p \in Processes : v \notin recorded =>
    \A i \in DOMAIN Sql(p, v) :
        AddsColumn(Sql(p, v)[i]) /\ Sql(p, v)[i] \in present =>
            \E q \in Processes : at[q] = "migrating" /\ version[q] = v /\ step[q] > i

\* The assumption on the migrations, for one statement.
LEMMA TableComesFirst ==
    ASSUME NEW p \in Processes, NEW v \in Versions, NEW i \in DOMAIN Migrations[p][v],
           AddsColumn(Migrations[p][v][i])
    PROVE  \E w \in Versions : w < v /\ \A q \in Processes :
               \E j \in DOMAIN Migrations[q][w] :
                   Migrations[q][w][j] = TableOf(Migrations[p][v][i])
  BY SchemaAssumption, Z3

\* A column that is to be added has its table.
LEMMA TableIsThere ==
    ASSUME NEW p \in Processes, IInv, Applies(p), step[p] <= Len(Sql(p, version[p])),
           AddsColumn(Sql(p, version[p])[step[p]])
    PROVE  TableOf(Sql(p, version[p])[step[p]]) \in present
  <1> DEFINE s == Sql(p, version[p])[step[p]]
             table == TableOf(s)
  <1>1. version[p] \in Versions /\ step[p] \in DOMAIN Sql(p, version[p])
    <2>1. version[p] \in Versions
      BY DEF IInv, Applies, StoreTypeOK, Versions
    <2> QED  BY <2>1, SqlType DEF IInv, StoreTypeOK
  <1>2. PICK w \in Versions : w < version[p] /\ \A q \in Processes :
            \E j \in DOMAIN Migrations[q][w] : Migrations[q][w][j] = table
    <2>1. /\ step[p] \in DOMAIN Migrations[p][version[p]]
          /\ AddsColumn(Migrations[p][version[p]][step[p]])
          /\ s = Migrations[p][version[p]][step[p]]
      BY <1>1 DEF Sql
    <2>2. \E w \in Versions : w < version[p] /\ \A q \in Processes :
              \E j \in DOMAIN Migrations[q][w] :
                  Migrations[q][w][j] = TableOf(Migrations[p][version[p]][step[p]])
      BY <1>1, <2>1, TableComesFirst
    <2> QED  BY <2>1, <2>2
  <1>3. \A q \in Processes : table \in StatementsOf(q, w)
    BY <1>2 DEF StatementsOf, Sql
  <1>4. Applied(w)
    BY <1>2 DEF IInv, BehindIt, Applies
  <1> QED  BY <1>3, <1>4 DEF Applied

LEMMA AttendedStep ==
    ASSUME IInv, IInv', [StoreNext]_storeVars, crashes' = 0, Attended
    PROVE  Attended'
  <1> SUFFICES ASSUME NEW v \in Versions, NEW r \in Processes, v \notin recorded',
                      NEW i \in DOMAIN Sql(r, v), AddsColumn(Sql(r, v)[i]),
                      Sql(r, v)[i] \in present'
               PROVE  \E q \in Processes :
                          at'[q] = "migrating" /\ version'[q] = v /\ step'[q] > i
    BY DEF Attended, Sql
  <1>1. i \in Nat \ {0}
    BY SqlType
  <1>2. ASSUME NEW p \in Processes, Open(p) \/ Opened(p) \/ Exit(p)
        PROVE  \E q \in Processes :
                   at'[q] = "migrating" /\ version'[q] = v /\ step'[q] > i
    <2>1. PICK q \in Processes : at[q] = "migrating" /\ version[q] = v /\ step[q] > i
      BY <1>2 DEF Attended, Open, Opened, Exit, Gone
    <2>2. q # p
      BY <1>2, <2>1, StoreOpenAssumption DEF Open, Opened, Exit, Versions
    <2> QED  BY <1>2, <2>1, <2>2 DEF Open, Opened, Exit, Gone, IInv, StoreTypeOK
  <1>3. ASSUME NEW p \in Processes, Record(p)
        PROVE  \E q \in Processes :
                   at'[q] = "migrating" /\ version'[q] = v /\ step'[q] > i
    <2>1. PICK q \in Processes : at[q] = "migrating" /\ version[q] = v /\ step[q] > i
      BY <1>3 DEF Attended, Record
    <2>2. q # p
      BY <1>3, <2>1 DEF Record
    <2> QED  BY <1>3, <2>1, <2>2 DEF Record, IInv, StoreTypeOK
  <1>4. ASSUME NEW p \in Processes, Execute(p)
        PROVE  \E q \in Processes :
                   at'[q] = "migrating" /\ version'[q] = v /\ step'[q] > i
    <2> DEFINE s == Sql(p, version[p])[step[p]]
    <2>1. /\ version[p] \in Versions /\ at[p] = "migrating"
          /\ step[p] \in DOMAIN Sql(p, version[p]) /\ step[p] \in Nat
      <3>1. version[p] \in Versions /\ at[p] = "migrating"
        BY <1>4 DEF IInv, Execute, Applies, StoreTypeOK, Versions
      <3> QED  BY <3>1, <1>4, SqlType DEF IInv, StoreTypeOK, Execute
    <2>2. CASE Fails(s)
      <3>1. at' = [at EXCEPT ![p] = "failed"] /\ UNCHANGED <<present, step, version, recorded>>
        BY <1>4, <2>2 DEF Execute
      <3>2. PICK q \in Processes : at[q] = "migrating" /\ version[q] = v /\ step[q] > i
        BY <3>1 DEF Attended
      <3>3. CASE q # p
        BY <3>1, <3>2, <3>3 DEF IInv, StoreTypeOK
      <3>4. CASE q = p
        <4>1. AddsColumn(s) /\ s \in present
          BY <1>4, <2>2, TableIsThere DEF Fails, Execute
        <4>2. PICK t \in Processes : at[t] = "migrating" /\ version[t] = v /\ step[t] > step[p]
          BY <4>1, <3>2, <3>4, <3>1, <2>1 DEF Attended
        <4>3. t # p /\ step[t] \in Nat
          BY <4>2, <2>1 DEF IInv, StoreTypeOK
        <4> QED  BY <4>2, <4>3, <3>1, <3>2, <3>4, <2>1, <1>1 DEF IInv, StoreTypeOK
      <3> QED  BY <3>3, <3>4
    <2>3. CASE ~Fails(s)
      <3>1. /\ present' = present \cup {s} /\ step' = [step EXCEPT ![p] = @ + 1]
            /\ UNCHANGED <<at, version, recorded>>
        BY <1>4, <2>3 DEF Execute
      <3>2. CASE Sql(r, v)[i] \in present
        <4>1. PICK q \in Processes : at[q] = "migrating" /\ version[q] = v /\ step[q] > i
          BY <3>1, <3>2 DEF Attended
        <4> QED  BY <4>1, <3>1, <2>1, <1>1 DEF IInv, StoreTypeOK
      <3>3. CASE Sql(r, v)[i] = s
        <4>1. version[p] = v /\ step[p] = i
          BY <3>3, <2>1, SchemaAssumption DEF Sql
        <4> QED  BY <4>1, <3>1, <2>1, <1>1 DEF IInv, StoreTypeOK
      <3> QED  BY <3>1, <3>2, <3>3
    <2> QED  BY <2>2, <2>3
  <1>5. ASSUME NEW p \in Processes, Crash(p) PROVE FALSE
    BY <1>5 DEF Crash, IInv, StoreTypeOK
  <1>6. CASE UNCHANGED storeVars
    BY <1>6 DEF storeVars, Attended
  <1> QED  BY <1>2, <1>3, <1>4, <1>5, <1>6 DEF StoreNext

-----------------------------------------------------------------------------
(***************************************************************************)
(* A store that is open has the whole schema, whichever processes applied    *)
(* which part of it, and wherever any of them was killed                     *)
(* (MemoryStore::initialize, store.rs:86-100).                                *)
(***************************************************************************)
THEOREM OpenStoresAreComplete == StoreSpec => []OpenIsComplete
  BY Invariance, PTL DEF IInv

(***************************************************************************)
(* After the first open that succeeds no open that begins can fail, what     *)
(* try_clone_for_thread (store.rs:81-83) and the tools that open the         *)
(* database for each call rely on.                                           *)
(***************************************************************************)
THEOREM LaterOpensSucceed == StoreSpec => []ReopensSucceed
  BY Invariance, PTL DEF IInv

(***************************************************************************)
(* Processes that race to migrate the database never leave it between two    *)
(* columns of a migration; that takes a process that is killed               *)
(* (store.rs:90-97: the batch and its row are not one transaction).          *)
(***************************************************************************)
THEOREM RacesDoNotWedge == StoreSpec => []OnlyCrashesWedge
  <1> DEFINE K == crashes = 0 => Attended
  <1>1. StoreInit => K
    BY DEF StoreInit, Attended
  <1>2. IInv /\ IInv' /\ K /\ [StoreNext]_storeVars => K'
    <2> SUFFICES ASSUME IInv, IInv', K, [StoreNext]_storeVars, crashes' = 0
                 PROVE  Attended'
      OBVIOUS
    <2>1. crashes = 0
      BY DEF StoreNext, Open, Execute, Record, Opened, Exit, Crash, storeVars, IInv, StoreTypeOK
    <2> QED  BY <2>1, AttendedStep
  <1>3. IInv /\ K => OnlyCrashesWedge
    <2> SUFFICES ASSUME IInv, K, Wedged PROVE crashes > 0
      BY DEF OnlyCrashesWedge
    <2>1. ~Attended
      BY DEF Wedged, Attended
    <2> QED  BY <2>1 DEF IInv, StoreTypeOK
  <1> QED  BY <1>1, <1>2, <1>3, Invariance, PTL DEF StoreSpec

-----------------------------------------------------------------------------
(***************************************************************************)
(* The programs, for any number of them, of notes and of edits.  Each is an  *)
(* implementation of StoreOpen, which gives them the three theorems above.   *)
(***************************************************************************)
LEMMA StoreStep == [Next]_vars => [StoreNext]_storeVars
  <1> SUFFICES ASSUME Next, storeVars' # storeVars PROVE StoreNext
    BY DEF vars
  <1>1. PICK p \in Processes : OpensStore(p) \/ Fail(p) \/ EndOfIngest(p) \/ Purge(p)
    BY DEF Next, Edit, Start, ListFolder, ReadFile, FindChunks, SyncFile, Reconcile, Collect,
           FindOrphans
  <1>2. \/ Open(p) \/ Execute(p) \/ Record(p) \/ Opened(p) \/ Exit(p) \/ Crash(p)
    BY <1>1 DEF OpensStore, Fail, EndOfIngest, Purge, Ends
  <1> QED  BY <1>2 DEF StoreNext

LEMMA ImplementsStoreOpen == Spec => StoreSpec
  <1>1. Init => StoreInit
    BY DEF Init
  <1> QED  BY <1>1, StoreStep, PTL DEF Spec, StoreSpec

COROLLARY StoresAreSound == Spec => [](OpenIsComplete /\ ReopensSucceed /\ OnlyCrashesWedge)
  BY ImplementsStoreOpen, OpenStoresAreComplete, LaterOpensSucceed, RacesDoNotWedge, PTL

-----------------------------------------------------------------------------
LEMMA FileType ==
    ASSUME NEW f \in Files
    PROVE  f[1] \in Folders /\ f[2] \in Names /\ f = <<f[1], f[2]>>
  BY DEF Files

\* A note that exists has paragraphs only.
LEMMA NoteType ==
    ASSUME IngestTypeOK, NEW f \in Files, Exists(f)
    PROVE  notes[f] \subseteq Paragraphs
  BY DEF IngestTypeOK, Note, Exists, Absent

LEMMA TypeInit == Init => IngestTypeOK
  <1> SUFFICES ASSUME Init PROVE IngestTypeOK  OBVIOUS
  <1>1. notes \in [Files -> Note]
    <2>1. {{gone}, Paragraphs} \subseteq Note
      BY DEF Note
    <2>2. notes \in [Files -> {{gone}, Paragraphs}]
      BY DEF Init
    <2> HIDE DEF Files, Note
    <2> QED  BY <2>1, <2>2
  <1>2. rows \in [Names -> [Paragraphs -> Nat]]
    BY DEF Init
  <1>3. /\ pass \in [Processes -> {"idle", "ingest", "begin", "sync", "collect", "purge"}]
        /\ dirs \in [Processes -> SUBSET Folders]
        /\ todo \in [Processes -> SUBSET Files]
    BY DEF Init
  <1>4. file \in [Processes -> Files \cup {NoFile}]
    BY DEF Init
  <1>5. /\ text \in [Processes -> SUBSET Paragraphs]
        /\ known \in [Processes -> SUBSET Paragraphs]
        /\ names \in [Processes -> SUBSET Names]
        /\ missing \in [Processes -> SUBSET Files]
    BY DEF Init
  <1>6. /\ stale \in [Processes -> BOOLEAN] /\ prune \in [Processes -> BOOLEAN]
        /\ quiet \in [Processes -> BOOLEAN]
        /\ edits \in Nat /\ passes \in Nat
    BY DEF Init
  <1> QED  BY <1>1, <1>2, <1>3, <1>4, <1>5, <1>6 DEF IngestTypeOK

LEMMA ChangedType ==
    ASSUME IngestTypeOK, NEW n \in Names, NEW purged, NEW added
    PROVE  /\ Changed(n, purged, added) \in [Names -> [Paragraphs -> Nat]]
           /\ \A m \in Names \ {n} : Changed(n, purged, added)[m] = rows[m]
           /\ \A t \in Paragraphs : Changed(n, purged, added)[n][t] =
                 IF t \in purged THEN 0 ELSE IF t \in added THEN rows[n][t] + 1 ELSE rows[n][t]
  <1> DEFINE row == [t \in Paragraphs |->
                        IF t \in purged THEN 0 ELSE IF t \in added THEN rows[n][t] + 1
                        ELSE rows[n][t]]
  <1>1. row \in [Paragraphs -> Nat]
    BY DEF IngestTypeOK
  <1>2. Changed(n, purged, added) = [rows EXCEPT ![n] = row]
    BY DEF Changed
  <1>3. \A t \in Paragraphs : row[t] =
            IF t \in purged THEN 0 ELSE IF t \in added THEN rows[n][t] + 1 ELSE rows[n][t]
    OBVIOUS
  <1> HIDE DEF row
  <1>4. [rows EXCEPT ![n] = row] \in [Names -> [Paragraphs -> Nat]]
    BY <1>1 DEF IngestTypeOK
  <1>5. [rows EXCEPT ![n] = row][n] = row /\ \A m \in Names \ {n} : [rows EXCEPT ![n] = row][m] = rows[m]
    BY DEF IngestTypeOK
  <1> QED  BY <1>2, <1>3, <1>4, <1>5

-----------------------------------------------------------------------------
(***************************************************************************)
(* The invariant.  While a pass is quiet all passes that run are, so every   *)
(* text that is read is what the note still holds.                           *)
(***************************************************************************)
Chunks(n) == {t \in Paragraphs : rows[n][t] > 0}
Named(n) == \E d \in Folders : Exists(<<d, n>>)
InTransaction(p) == pass[p] \in {"begin", "sync"}

\* A note that a pass has not brought in line yet.
Waiting(p, f) ==
    /\ pass[p] \in {"ingest", "begin", "sync"}
    /\ f[1] \in dirs[p] \/ f \in todo[p] \/ (InTransaction(p) /\ f = file[p])

ReadsAFile(p) == InTransaction(p) => file[p] \in Files
Snapshot(p) == pass[p] = "sync" /\ ~stale[p] => known[p] = Chunks(file[p][2])
ReadsRight(p) == quiet[p] /\ InTransaction(p) => Exists(file[p]) /\ text[p] = notes[file[p]]
Unchanged(p) == quiet[p] /\ pass[p] = "sync" /\ known[p] = text[p] => Mirrored(file[p])
Synced(p) == quiet[p] => \A f \in Files : Exists(f) => Mirrored(f) \/ Waiting(p, f)

SawAbsent(p) == /\ Running(p) => Absent \subseteq missing[p]
                /\ quiet[p] => Running(p) /\ missing[p] = Absent
Met(p) == pass[p] = "collect" =>
    /\ \A f \in Files \ missing[p] : f[1] \in dirs[p] \/ f \in todo[p] \/ f[2] \in names[p]
    /\ quiet[p] => \A n \in names[p] : Named(n)
Orphans(p) == pass[p] = "purge" =>
    /\ \A f \in Files \ missing[p] : f[2] \notin names[p]
    /\ quiet[p] => \A n \in Names : Named(n) \/ n \in names[p] \/ Forgotten(n)

PassInv(p) == /\ ReadsAFile(p) /\ Snapshot(p) /\ ReadsRight(p) /\ Unchanged(p)
              /\ Synced(p) /\ SawAbsent(p) /\ Met(p) /\ Orphans(p)

Once == \A n \in Names : \A t \in Paragraphs : rows[n][t] \in {0, 1}
AllQuiet == \A p, q \in Processes : quiet[p] /\ Running(q) => quiet[q]

IngestInv == IngestTypeOK /\ Once /\ AllQuiet /\ \A p \in Processes : PassInv(p)

-----------------------------------------------------------------------------
\* What a step of one pass has to leave to another.
SamePass(q) ==
    /\ pass'[q] = pass[q] /\ dirs'[q] = dirs[q] /\ todo'[q] = todo[q]
    /\ file'[q] = file[q] /\ text'[q] = text[q] /\ known'[q] = known[q]
    /\ names'[q] = names[q] /\ quiet'[q] = quiet[q] /\ missing'[q] = missing[q]

LEMMA Frame ==
    ASSUME NEW q \in Processes, PassInv(q), IngestTypeOK, SamePass(q), notes' = notes,
           pass[q] = "sync" /\ ~stale'[q] => rows' = rows /\ ~stale[q],
           quiet[q] => \A f \in Files : Exists(f) /\ Mirrored(f) => Mirrored(f)',
           quiet[q] => \A n \in Names : Forgotten(n) => Named(n) \/ Forgotten(n)'
    PROVE  PassInv(q)'
  <1>1. Absent' = Absent /\ \A f : Exists(f)' <=> Exists(f)
    BY DEF Absent, Exists
  <1>2. \A n : Named(n)' <=> Named(n)
    BY <1>1 DEF Named
  <1>3. ReadsAFile(q)' /\ ReadsRight(q)'
    BY <1>1 DEF PassInv, ReadsAFile, ReadsRight, InTransaction, SamePass
  <1>4. Snapshot(q)'
    BY DEF PassInv, Snapshot, SamePass, Chunks
  <1>5. Unchanged(q)'
    <2> SUFFICES ASSUME quiet[q], pass[q] = "sync", known[q] = text[q]
                 PROVE  Mirrored(file[q])'
      BY DEF Unchanged, SamePass, Mirrored
    <2>1. PICK f \in Files : f = file[q] /\ Exists(f) /\ Mirrored(file[q])
      BY DEF PassInv, Unchanged, ReadsRight, ReadsAFile, InTransaction
    <2>2. Mirrored(f)
      BY <2>1 DEF Mirrored
    <2>3. Mirrored(f)'
      BY <2>1, <2>2
    <2>4. file'[q] = f
      BY <2>1 DEF SamePass
    <2> QED  BY <2>3, <2>4 DEF Mirrored
  <1>6. \A f \in Files : Waiting(q, f) => Waiting(q, f)'
    BY DEF Waiting, InTransaction, SamePass
  <1>7. Synced(q)'
    BY <1>1, <1>6 DEF PassInv, Synced, SamePass
  <1>8. SawAbsent(q)'
    BY <1>1 DEF PassInv, SawAbsent, Running, SamePass
  <1>9. Met(q)'
    BY <1>2 DEF PassInv, Met, SamePass
  <1>10. Orphans(q)'
    BY <1>2 DEF PassInv, Orphans, SamePass
  <1> QED  BY <1>3, <1>4, <1>5, <1>7, <1>8, <1>9, <1>10 DEF PassInv

\* A step that neither edits a note nor writes to the table.
LEMMA SameTable ==
    ASSUME notes' = notes, rows' = rows
    PROVE  /\ Absent' = Absent
           /\ \A f : Exists(f)' <=> Exists(f)
           /\ \A f : Mirrored(f)' <=> Mirrored(f)
           /\ \A n : Named(n)' <=> Named(n)
           /\ \A n : Forgotten(n)' <=> Forgotten(n)
           /\ \A n : Chunks(n)' = Chunks(n)
           /\ Once' <=> Once
  BY DEF Absent, Exists, Mirrored, Named, Forgotten, Chunks, Once

LEMMA QuietFrame ==
    ASSUME IngestInv, NEW q \in Processes, notes' = notes, rows' = rows, SamePass(q),
           pass[q] = "sync" => stale'[q] = stale[q] \/ stale'[q] = TRUE
    PROVE  PassInv(q)'
  <1>1. \A f : Mirrored(f) => Mirrored(f)'
    BY SameTable
  <1>2. \A n : Forgotten(n) => Forgotten(n)'
    BY SameTable
  <1>3. pass[q] = "sync" /\ ~stale'[q] => rows' = rows /\ ~stale[q]
    OBVIOUS
  <1>4. PassInv(q) /\ IngestTypeOK
    BY DEF IngestInv
  <1> QED  BY <1>1, <1>2, <1>3, <1>4, Frame

\* A step of pass p that neither edits a note nor writes to the table.
LEMMA PassStep ==
    ASSUME IngestInv, NEW p \in Processes, notes' = notes, rows' = rows,
           \A q \in Processes \ {p} : SamePass(q) /\ stale'[q] = stale[q],
           \/ Running(p) /\ quiet'[p] = quiet[p]
           \/ ~Running(p)' /\ ~quiet'[p],
           IngestTypeOK', PassInv(p)'
    PROVE  IngestInv'
  <1>1. \A q \in Processes \ {p} : PassInv(q)'
    BY QuietFrame
  <1>2. Once'
    BY SameTable DEF IngestInv
  <1>3. \A q \in Processes \ {p} : quiet'[q] = quiet[q] /\ (Running(q)' <=> Running(q))
    BY DEF SamePass, Running
  <1>4. AllQuiet'
    <2> SUFFICES ASSUME NEW r \in Processes, NEW q \in Processes, quiet'[r], Running(q)'
                 PROVE  quiet'[q]
      BY DEF AllQuiet, Running
    <2>1. CASE Running(p) /\ quiet'[p] = quiet[p]
      <3>1. quiet[r] /\ Running(q)
        BY <2>1, <1>3
      <3>2. quiet[q]
        BY <3>1 DEF IngestInv, AllQuiet
      <3> QED  BY <2>1, <3>2, <1>3
    <2>2. CASE ~Running(p)' /\ ~quiet'[p]
      <3>1. r # p /\ q # p
        BY <2>2
      <3>2. quiet[r] /\ Running(q)
        BY <3>1, <1>3
      <3>3. quiet[q]
        BY <3>2 DEF IngestInv, AllQuiet
      <3> QED  BY <3>1, <3>3, <1>3
    <2> QED  BY <2>1, <2>2
  <1> QED  BY <1>1, <1>2, <1>4 DEF IngestInv

\* Of a pass that is over nothing is claimed.
LEMMA IdlePass ==
    ASSUME NEW p \in Processes, pass'[p] = "idle", ~quiet'[p]
    PROVE  PassInv(p)'
  BY DEF PassInv, ReadsAFile, Snapshot, ReadsRight, Unchanged, Synced, SawAbsent, Met, Orphans,
         InTransaction, Running

LEMMA IngestInitially == Init => IngestInv
  <1> SUFFICES ASSUME Init PROVE IngestInv  OBVIOUS
  <1>1. IngestTypeOK
    BY TypeInit
  <1>2. Once /\ AllQuiet
    BY DEF Init, Once, AllQuiet
  <1>3. \A p \in Processes : PassInv(p)
    BY DEF Init, PassInv, ReadsAFile, Snapshot, ReadsRight, Unchanged, Synced, SawAbsent, Met,
       Orphans,
           InTransaction, Running
  <1> QED  BY <1>1, <1>2, <1>3 DEF IngestInv

-----------------------------------------------------------------------------
(***************************************************************************)
(* The steps, one lemma for each.                                           *)
(***************************************************************************)
LEMMA ListFolderStep ==
    ASSUME IngestInv, NEW p \in Processes, ListFolder(p)
    PROVE  IngestInv'
  <1>1. PICK d \in dirs[p] :
            /\ dirs' = [dirs EXCEPT ![p] = dirs[p] \ {d}]
            /\ todo' = [todo EXCEPT ![p] = {f \in Files : f[1] = d /\ Exists(f)}]
    BY DEF ListFolder
  <1>2. /\ pass[p] \in {"ingest", "collect"} /\ todo[p] = {}
        /\ UNCHANGED <<notes, rows, pass, file, text, known, stale, names, prune, quiet, missing,
                       edits, passes>>
    BY DEF ListFolder, transaction, history, bounds
  <1>3. IngestTypeOK'
    <2>1. dirs' \in [Processes -> SUBSET Folders]
      BY <1>1 DEF IngestInv, IngestTypeOK
    <2>2. todo' \in [Processes -> SUBSET Files]
      BY <1>1 DEF IngestInv, IngestTypeOK
    <2> QED  BY <2>1, <2>2, <1>2 DEF IngestInv, IngestTypeOK
  <1>4. \A q \in Processes \ {p} : SamePass(q)
    BY <1>1, <1>2 DEF SamePass, IngestInv, IngestTypeOK
  <1>5. /\ dirs'[p] = dirs[p] \ {d}
        /\ \A f \in Files : f \in todo'[p] <=> f[1] = d /\ Exists(f)
    BY <1>1 DEF IngestInv, IngestTypeOK
  <1>6. PassInv(p)'
    <2> USE DEF IngestInv, PassInv
    <2>1. ReadsAFile(p)' /\ Snapshot(p)' /\ ReadsRight(p)' /\ Unchanged(p)'
      BY <1>2 DEF ReadsAFile, Snapshot, ReadsRight, Unchanged, InTransaction
    <2>2. Synced(p)'
      <3> SUFFICES ASSUME quiet[p], NEW f \in Files, Exists(f)
                   PROVE  Mirrored(f) \/ Waiting(p, f)'
        BY <1>2, SameTable DEF Synced
      <3>1. Mirrored(f) \/ (pass[p] = "ingest" /\ f[1] \in dirs[p])
        BY <1>2 DEF Synced, Waiting, InTransaction
      <3> QED  BY <3>1, <1>2, <1>5 DEF Waiting
    <2>3. SawAbsent(p)'
      BY <1>2, SameTable DEF SawAbsent, Running
    <2>4. Met(p)'
      <3> SUFFICES ASSUME pass[p] = "collect"
                   PROVE  /\ \A f \in Files \ missing[p] :
                                f[1] \in dirs'[p] \/ f \in todo'[p] \/ f[2] \in names[p]
                          /\ quiet[p] => \A n \in names[p] : Named(n)
        BY <1>2, SameTable DEF Met
      <3>1. \A f \in Files \ missing[p] : Exists(f)
        BY DEF SawAbsent, Running, Exists
      <3> QED  BY <3>1, <1>2, <1>5 DEF Met
    <2>5. Orphans(p)'
      BY <1>2 DEF Orphans
    <2> QED  BY <2>1, <2>2, <2>3, <2>4, <2>5
  <1>7. Running(p) /\ quiet'[p] = quiet[p] /\ \A q \in Processes \ {p} : stale'[q] = stale[q]
    BY <1>2 DEF Running
  <1> QED  BY <1>2, <1>3, <1>4, <1>6, <1>7, PassStep

LEMMA ReadFileStep ==
    ASSUME IngestInv, NEW p \in Processes, ReadFile(p)
    PROVE  IngestInv'
  <1>1. PICK f \in todo[p] :
            /\ todo' = [todo EXCEPT ![p] = todo[p] \ {f}]
            /\ IF Exists(f)
               THEN /\ file' = [file EXCEPT ![p] = f]
                    /\ text' = [text EXCEPT ![p] = notes[f]]
                    /\ pass' = [pass EXCEPT ![p] = "begin"]
               ELSE UNCHANGED <<file, text, pass>>
    BY DEF ReadFile
  <1>2. /\ pass[p] = "ingest" /\ f \in Files
        /\ UNCHANGED <<notes, rows, dirs, known, stale, names, prune, quiet, missing, edits, passes>>
    BY DEF ReadFile, history, bounds, IngestInv, IngestTypeOK
  <1>3. IngestTypeOK'
    <2>1. todo' \in [Processes -> SUBSET Files]
      BY <1>1 DEF IngestInv, IngestTypeOK
    <2>2. Exists(f) => notes[f] \subseteq Paragraphs
      BY <1>2, NoteType DEF IngestInv
    <2>3. file' \in [Processes -> Files \cup {NoFile}]
      BY <1>1, <1>2 DEF IngestInv, IngestTypeOK
    <2>4. text' \in [Processes -> SUBSET Paragraphs]
      BY <1>1, <2>2 DEF IngestInv, IngestTypeOK
    <2>5. pass' \in [Processes -> {"idle", "ingest", "begin", "sync", "collect", "purge"}]
      BY <1>1 DEF IngestInv, IngestTypeOK
    <2> QED  BY <2>1, <2>3, <2>4, <2>5, <1>2 DEF IngestInv, IngestTypeOK
  <1>4. \A q \in Processes \ {p} : SamePass(q)
    BY <1>1, <1>2 DEF SamePass, IngestInv, IngestTypeOK
  <1>5. /\ todo'[p] = todo[p] \ {f}
        /\ Exists(f) => file'[p] = f /\ text'[p] = notes[f] /\ pass'[p] = "begin"
        /\ ~Exists(f) => pass'[p] = "ingest"
    BY <1>1, <1>2 DEF IngestInv, IngestTypeOK
  <1>6. PassInv(p)'
    <2> USE DEF IngestInv, PassInv
    <2>1. ReadsAFile(p)' /\ Snapshot(p)' /\ Unchanged(p)'
      BY <1>2, <1>5 DEF ReadsAFile, Snapshot, Unchanged, InTransaction
    <2>2. ReadsRight(p)'
      <3>1. CASE Exists(f)
        BY <3>1, <1>2, <1>5 DEF ReadsRight, InTransaction, Exists, Absent
      <3>2. CASE ~Exists(f)
        BY <3>2, <1>5 DEF ReadsRight, InTransaction
      <3> QED  BY <3>1, <3>2
    <2>3. Synced(p)'
      <3> SUFFICES ASSUME quiet[p], NEW g \in Files, Exists(g)
                   PROVE  Mirrored(g) \/ Waiting(p, g)'
        BY <1>2, SameTable DEF Synced
      <3>1. Mirrored(g) \/ g[1] \in dirs[p] \/ g \in todo[p]
        BY <1>2 DEF Synced, Waiting, InTransaction
      <3> QED  BY <3>1, <1>2, <1>5 DEF Waiting, InTransaction
    <2>4. SawAbsent(p)'
      BY <1>2, <1>5, SameTable DEF SawAbsent, Running
    <2>5. Met(p)' /\ Orphans(p)'
      BY <1>5 DEF Met, Orphans
    <2> QED  BY <2>1, <2>2, <2>3, <2>4, <2>5
  <1>7. Running(p) /\ quiet'[p] = quiet[p] /\ \A q \in Processes \ {p} : stale'[q] = stale[q]
    BY <1>2 DEF Running
  <1> QED  BY <1>2, <1>3, <1>4, <1>6, <1>7, PassStep

LEMMA FindChunksStep ==
    ASSUME IngestInv, NEW p \in Processes, FindChunks(p)
    PROVE  IngestInv'
  <1>1. /\ pass[p] = "begin"
        /\ known' = [known EXCEPT ![p] = Chunks(file[p][2])]
        /\ stale' = [stale EXCEPT ![p] = FALSE]
        /\ pass' = [pass EXCEPT ![p] = "sync"]
        /\ UNCHANGED <<notes, rows, dirs, todo, file, text, names, prune, quiet, missing, edits, passes>>
    BY DEF FindChunks, Chunks, walk, history, bounds
  <1>2. Chunks(file[p][2]) \subseteq Paragraphs
    BY DEF Chunks
  <1>3. IngestTypeOK'
    <2>1. known' \in [Processes -> SUBSET Paragraphs]
      BY <1>1, <1>2 DEF IngestInv, IngestTypeOK
    <2>2. /\ pass' \in [Processes -> {"idle", "ingest", "begin", "sync", "collect", "purge"}]
          /\ stale' \in [Processes -> BOOLEAN]
      BY <1>1 DEF IngestInv, IngestTypeOK
    <2> QED  BY <2>1, <2>2, <1>1 DEF IngestInv, IngestTypeOK
  <1>4. \A q \in Processes \ {p} : SamePass(q) /\ stale'[q] = stale[q]
    BY <1>1 DEF SamePass, IngestInv, IngestTypeOK
  <1>5. pass'[p] = "sync" /\ known'[p] = Chunks(file[p][2]) /\ file[p] \in Files
    BY <1>1 DEF IngestInv, IngestTypeOK, PassInv, ReadsAFile, InTransaction
  <1>6. PassInv(p)'
    <2> USE DEF IngestInv, PassInv
    <2>1. ReadsAFile(p)' /\ Snapshot(p)'
      BY <1>1, <1>5, SameTable DEF ReadsAFile, Snapshot, InTransaction
    <2>2. ReadsRight(p)'
      BY <1>1, SameTable DEF ReadsRight, InTransaction
    <2>3. Unchanged(p)'
      <3> SUFFICES ASSUME quiet[p], Chunks(file[p][2]) = text[p]
                   PROVE  Mirrored(file[p])
        BY <1>1, <1>5 DEF Unchanged, Mirrored, Exists, Absent
      <3>1. text[p] = notes[file[p]]
        BY <1>1 DEF ReadsRight, InTransaction
      <3>2. file[p][2] \in Names
        BY <1>5, FileType
      <3>3. \A t \in Paragraphs : rows[file[p][2]][t] \in {0, 1}
        BY <3>2 DEF Once
      <3>4. \A t \in Paragraphs : rows[file[p][2]][t] > 0 <=> t \in notes[file[p]]
        BY <3>1 DEF Chunks
      <3> QED  BY <3>3, <3>4 DEF Mirrored
    <2>4. Synced(p)'
      BY <1>1, <1>5, SameTable DEF Synced, Waiting, InTransaction
    <2>5. SawAbsent(p)'
      BY <1>1, <1>5, SameTable DEF SawAbsent, Running
    <2>6. Met(p)' /\ Orphans(p)'
      BY <1>5 DEF Met, Orphans
    <2> QED  BY <2>1, <2>2, <2>3, <2>4, <2>5, <2>6
  <1>7. Running(p) /\ quiet'[p] = quiet[p]
    BY <1>1 DEF Running
  <1> QED  BY <1>1, <1>3, <1>4, <1>6, <1>7, PassStep

LEMMA ReconcileStep ==
    ASSUME IngestInv, NEW p \in Processes, Reconcile(p)
    PROVE  IngestInv'
  <1>1. /\ pass[p] = "ingest" /\ todo[p] = {} /\ dirs[p] = {}
        /\ pass' = [pass EXCEPT ![p] = "collect"]
        /\ dirs' = [dirs EXCEPT ![p] = Folders]
        /\ names' = [names EXCEPT ![p] = {}]
        /\ UNCHANGED <<notes, rows, todo, file, text, known, stale, prune, quiet, missing, edits, passes>>
    BY DEF Reconcile, WalkIsOver, transaction, history, bounds
  <1>2. IngestTypeOK'
    <2>1. /\ dirs' \in [Processes -> SUBSET Folders]
          /\ names' \in [Processes -> SUBSET Names]
      BY <1>1 DEF IngestInv, IngestTypeOK
    <2>2. pass' \in [Processes -> {"idle", "ingest", "begin", "sync", "collect", "purge"}]
      BY <1>1 DEF IngestInv, IngestTypeOK
    <2> QED  BY <2>1, <2>2, <1>1 DEF IngestInv, IngestTypeOK
  <1>3. \A q \in Processes \ {p} : SamePass(q)
    BY <1>1 DEF SamePass, IngestInv, IngestTypeOK
  <1>4. pass'[p] = "collect" /\ dirs'[p] = Folders /\ names'[p] = {}
    BY <1>1 DEF IngestInv, IngestTypeOK
  <1>5. PassInv(p)'
    <2> USE DEF IngestInv, PassInv
    <2>1. ReadsAFile(p)' /\ Snapshot(p)' /\ ReadsRight(p)' /\ Unchanged(p)' /\ Orphans(p)'
      BY <1>4 DEF ReadsAFile, Snapshot, ReadsRight, Unchanged, InTransaction, Orphans
    <2>2. Synced(p)'
      <3>1. \A f \in Files : ~Waiting(p, f)
        BY <1>1 DEF Waiting, InTransaction
      <3> QED  BY <3>1, <1>1, SameTable DEF Synced
    <2>3. SawAbsent(p)'
      BY <1>1, <1>4, SameTable DEF SawAbsent, Running
    <2>4. \A f \in Files : f[1] \in dirs'[p]
      BY <1>4, FileType
    <2>5. Met(p)'
      BY <2>4, <1>4 DEF Met
    <2> QED  BY <2>1, <2>2, <2>3, <2>5
  <1>6. Running(p) /\ quiet'[p] = quiet[p] /\ \A q \in Processes \ {p} : stale'[q] = stale[q]
    BY <1>1 DEF Running
  <1> QED  BY <1>1, <1>2, <1>3, <1>5, <1>6, PassStep

LEMMA CollectStep ==
    ASSUME IngestInv, NEW p \in Processes, Collect(p)
    PROVE  IngestInv'
  <1>1. PICK f \in todo[p] :
            /\ todo' = [todo EXCEPT ![p] = todo[p] \ {f}]
            /\ names' = [names EXCEPT ![p] = IF Exists(f) THEN names[p] \cup {f[2]} ELSE names[p]]
    BY DEF Collect
  <1>2. /\ pass[p] = "collect" /\ f \in Files
        /\ UNCHANGED <<notes, rows, pass, dirs, file, text, known, stale, prune, quiet, missing,
                       edits, passes>>
    BY DEF Collect, transaction, history, bounds, IngestInv, IngestTypeOK
  <1>3. f[1] \in Folders /\ f[2] \in Names /\ f = <<f[1], f[2]>>
    BY <1>2, FileType
  <1>4. IngestTypeOK'
    <2>1. todo' \in [Processes -> SUBSET Files]
      BY <1>1 DEF IngestInv, IngestTypeOK
    <2>2. names' \in [Processes -> SUBSET Names]
      BY <1>1, <1>3 DEF IngestInv, IngestTypeOK
    <2> QED  BY <2>1, <2>2, <1>2 DEF IngestInv, IngestTypeOK
  <1>5. \A q \in Processes \ {p} : SamePass(q)
    BY <1>1, <1>2 DEF SamePass, IngestInv, IngestTypeOK
  <1>6. /\ todo'[p] = todo[p] \ {f}
        /\ names'[p] = IF Exists(f) THEN names[p] \cup {f[2]} ELSE names[p]
    BY <1>1 DEF IngestInv, IngestTypeOK
  <1>7. PassInv(p)'
    <2> USE DEF IngestInv, PassInv
    <2>1. ReadsAFile(p)' /\ Snapshot(p)' /\ ReadsRight(p)' /\ Unchanged(p)' /\ Orphans(p)'
      BY <1>2 DEF ReadsAFile, Snapshot, ReadsRight, Unchanged, InTransaction, Orphans
    <2>2. Synced(p)'
      BY <1>2, SameTable DEF Synced, Waiting
    <2>3. SawAbsent(p)'
      BY <1>2, SameTable DEF SawAbsent, Running
    <2>4. \A g \in Files \ missing[p] : g[1] \in dirs[p] \/ g \in todo'[p] \/ g[2] \in names'[p]
      <3> SUFFICES ASSUME NEW g \in Files \ missing[p]
                   PROVE  g[1] \in dirs[p] \/ g \in todo'[p] \/ g[2] \in names'[p]
        OBVIOUS
      <3>1. Exists(g)
        BY <1>2 DEF SawAbsent, Running, Exists
      <3>2. g[1] \in dirs[p] \/ g \in todo[p] \/ g[2] \in names[p]
        BY <1>2 DEF Met
      <3>3. CASE g = f
        BY <3>1, <3>3, <1>6
      <3>4. CASE g # f
        BY <3>2, <3>4, <1>6
      <3> QED  BY <3>3, <3>4
    <2>5. Exists(f) => Named(f[2])
      BY <1>3 DEF Named
    <2>6. quiet[p] => \A n \in names'[p] : Named(n)
      BY <2>5, <1>2, <1>6 DEF Met
    <2>7. Met(p)'
      BY <2>4, <2>6, <1>2, SameTable DEF Met
    <2> QED  BY <2>1, <2>2, <2>3, <2>7
  <1>8. Running(p) /\ quiet'[p] = quiet[p] /\ \A q \in Processes \ {p} : stale'[q] = stale[q]
    BY <1>2 DEF Running
  <1> QED  BY <1>2, <1>4, <1>5, <1>7, <1>8, PassStep

LEMMA FindOrphansStep ==
    ASSUME IngestInv, NEW p \in Processes, FindOrphans(p)
    PROVE  IngestInv'
  <1>1. /\ pass[p] = "collect" /\ todo[p] = {} /\ dirs[p] = {}
        /\ names' = [names EXCEPT ![p] = {n \in Names : \E t \in Paragraphs : rows[n][t] > 0}
                                              \ names[p]]
        /\ pass' = [pass EXCEPT ![p] = "purge"]
        /\ UNCHANGED <<notes, rows, dirs, todo, file, text, known, stale, prune, quiet, missing,
                       edits, passes>>
    BY DEF FindOrphans, WalkIsOver, walk, transaction, history, bounds
  <1>2. IngestTypeOK'
    <2>1. names' \in [Processes -> SUBSET Names]
      BY <1>1 DEF IngestInv, IngestTypeOK
    <2>2. pass' \in [Processes -> {"idle", "ingest", "begin", "sync", "collect", "purge"}]
      BY <1>1 DEF IngestInv, IngestTypeOK
    <2> QED  BY <2>1, <2>2, <1>1 DEF IngestInv, IngestTypeOK
  <1>3. \A q \in Processes \ {p} : SamePass(q)
    BY <1>1 DEF SamePass, IngestInv, IngestTypeOK
  <1>4. /\ pass'[p] = "purge"
        /\ \A n \in Names : n \in names'[p] <=>
               n \notin names[p] /\ \E t \in Paragraphs : rows[n][t] > 0
    BY <1>1 DEF IngestInv, IngestTypeOK
  <1>5. PassInv(p)'
    <2> USE DEF IngestInv, PassInv
    <2>1. ReadsAFile(p)' /\ Snapshot(p)' /\ ReadsRight(p)' /\ Unchanged(p)' /\ Met(p)'
      BY <1>4 DEF ReadsAFile, Snapshot, ReadsRight, Unchanged, InTransaction, Met
    <2>2. Synced(p)'
      BY <1>1, SameTable DEF Synced, Waiting
    <2>3. SawAbsent(p)'
      BY <1>1, <1>4, SameTable DEF SawAbsent, Running
    <2>4. \A f \in Files \ missing[p] : f[2] \notin names'[p]
      BY <1>1, <1>4, FileType DEF Met
    <2>5. ASSUME quiet[p], NEW n \in Names, ~Named(n), n \notin names'[p]
          PROVE  Forgotten(n)
      <3>1. n \notin names[p]
        BY <2>5, <1>1 DEF Met
      <3>2. \A t \in Paragraphs : rows[n][t] \in {0, 1}
        BY DEF Once
      <3> QED  BY <3>1, <3>2, <2>5, <1>4 DEF Forgotten
    <2>6. Orphans(p)'
      BY <2>4, <2>5, <1>1, SameTable DEF Orphans
    <2> QED  BY <2>1, <2>2, <2>3, <2>6
  <1>6. Running(p) /\ quiet'[p] = quiet[p] /\ \A q \in Processes \ {p} : stale'[q] = stale[q]
    BY <1>1 DEF Running
  <1> QED  BY <1>1, <1>2, <1>3, <1>5, <1>6, PassStep

\* What the end of a program does to its pass.
LEMMA EndsStep ==
    ASSUME IngestInv, NEW p \in Processes, Ends(p)
    PROVE  /\ pass' \in [Processes -> {"idle", "ingest", "begin", "sync", "collect", "purge"}]
           /\ dirs' \in [Processes -> SUBSET Folders]
           /\ todo' \in [Processes -> SUBSET Files]
           /\ names' \in [Processes -> SUBSET Names]
           /\ prune' \in [Processes -> BOOLEAN]
           /\ missing' \in [Processes -> SUBSET Files]
           /\ quiet' \in [Processes -> BOOLEAN]
           /\ pass'[p] = "idle" /\ ~quiet'[p]
           /\ \A q \in Processes \ {p} :
                 /\ pass'[q] = pass[q] /\ dirs'[q] = dirs[q] /\ todo'[q] = todo[q]
                 /\ names'[q] = names[q] /\ quiet'[q] = quiet[q] /\ missing'[q] = missing[q]
  <1>1. /\ pass' = [pass EXCEPT ![p] = "idle"]
        /\ dirs' = [dirs EXCEPT ![p] = {}]
        /\ todo' = [todo EXCEPT ![p] = {}]
        /\ names' = [names EXCEPT ![p] = {}]
        /\ prune' = [prune EXCEPT ![p] = FALSE]
        /\ missing' = [missing EXCEPT ![p] = {}]
        /\ quiet' = [quiet EXCEPT ![p] = FALSE]
    BY DEF Ends
  <1>2. /\ pass' \in [Processes -> {"idle", "ingest", "begin", "sync", "collect", "purge"}]
        /\ dirs' \in [Processes -> SUBSET Folders]
        /\ todo' \in [Processes -> SUBSET Files]
    BY <1>1 DEF IngestInv, IngestTypeOK
  <1>3. /\ names' \in [Processes -> SUBSET Names]
        /\ prune' \in [Processes -> BOOLEAN]
        /\ missing' \in [Processes -> SUBSET Files]
        /\ quiet' \in [Processes -> BOOLEAN]
    BY <1>1 DEF IngestInv, IngestTypeOK
  <1>4. pass'[p] = "idle" /\ ~quiet'[p]
    BY <1>1 DEF IngestInv, IngestTypeOK
  <1>5. \A q \in Processes \ {p} :
            /\ pass'[q] = pass[q] /\ dirs'[q] = dirs[q] /\ todo'[q] = todo[q]
            /\ names'[q] = names[q] /\ quiet'[q] = quiet[q] /\ missing'[q] = missing[q]
    BY <1>1 DEF IngestInv, IngestTypeOK
  <1> QED  BY <1>2, <1>3, <1>4, <1>5

LEMMA FailStep ==
    ASSUME IngestInv, NEW p \in Processes, Fail(p)
    PROVE  IngestInv'
  <1>1. /\ file' = [file EXCEPT ![p] = NoFile]
        /\ text' = [text EXCEPT ![p] = {}]
        /\ known' = [known EXCEPT ![p] = {}]
        /\ stale' = [stale EXCEPT ![p] = FALSE]
        /\ UNCHANGED <<notes, rows, edits, passes>>
    BY DEF Fail, ForgetFile, bounds
  <1>2. Ends(p)
    BY DEF Fail
  <1>3. IngestTypeOK'
    <2>1. /\ file' \in [Processes -> Files \cup {NoFile}]
          /\ text' \in [Processes -> SUBSET Paragraphs]
          /\ known' \in [Processes -> SUBSET Paragraphs]
          /\ stale' \in [Processes -> BOOLEAN]
      BY <1>1 DEF IngestInv, IngestTypeOK
    <2> QED  BY <2>1, <1>1, <1>2, EndsStep DEF IngestInv, IngestTypeOK
  <1>4. \A q \in Processes \ {p} : SamePass(q) /\ stale'[q] = stale[q]
    BY <1>1, <1>2, EndsStep DEF SamePass, IngestInv, IngestTypeOK
  <1>5. PassInv(p)' /\ ~Running(p)' /\ ~quiet'[p]
    BY <1>2, EndsStep, IdlePass DEF Running
  <1> QED  BY <1>1, <1>3, <1>4, <1>5, PassStep

LEMMA EndOfIngestStep ==
    ASSUME IngestInv, NEW p \in Processes, EndOfIngest(p)
    PROVE  IngestInv'
  <1>1. Ends(p) /\ UNCHANGED <<notes, rows, file, text, known, stale, edits, passes>>
    BY DEF EndOfIngest, transaction, bounds
  <1>2. IngestTypeOK'
    BY <1>1, EndsStep DEF IngestInv, IngestTypeOK
  <1>3. \A q \in Processes \ {p} : SamePass(q) /\ stale'[q] = stale[q]
    BY <1>1, EndsStep DEF SamePass
  <1>4. PassInv(p)' /\ ~Running(p)' /\ ~quiet'[p]
    BY <1>1, EndsStep, IdlePass DEF Running
  <1> QED  BY <1>1, <1>2, <1>3, <1>4, PassStep

LEMMA StartStep ==
    ASSUME IngestInv, NEW p \in Processes, Start(p)
    PROVE  IngestInv'
  <1>1. PICK b \in BOOLEAN : prune' = [prune EXCEPT ![p] = b]
    BY DEF Start
  <1>2. /\ ~Running(p)
        /\ passes' = passes + 1
        /\ pass' = [pass EXCEPT ![p] = "ingest"]
        /\ dirs' = [dirs EXCEPT ![p] = Folders]
        /\ quiet' = [quiet EXCEPT ![p] = \A q \in Processes : Running(q) => quiet[q]]
        /\ missing' = [missing EXCEPT ![p] = Absent]
        /\ UNCHANGED <<notes, rows, todo, file, text, known, stale, names, edits>>
    BY DEF Start, transaction
  <1>3. IngestTypeOK'
    <2>1. /\ dirs' \in [Processes -> SUBSET Folders]
          /\ prune' \in [Processes -> BOOLEAN]
          /\ passes' \in Nat
      BY <1>1, <1>2 DEF IngestInv, IngestTypeOK
    <2>2. pass' \in [Processes -> {"idle", "ingest", "begin", "sync", "collect", "purge"}]
      BY <1>2 DEF IngestInv, IngestTypeOK
    <2>3. quiet' \in [Processes -> BOOLEAN]
      BY <1>2 DEF IngestInv, IngestTypeOK
    <2>4. missing' \in [Processes -> SUBSET Files]
      <3>1. Absent \subseteq Files
        BY DEF Absent
      <3> QED  BY <3>1, <1>2 DEF IngestInv, IngestTypeOK
    <2> QED  BY <2>1, <2>2, <2>3, <2>4, <1>2 DEF IngestInv, IngestTypeOK
  <1>4. \A q \in Processes \ {p} : SamePass(q) /\ stale'[q] = stale[q]
    BY <1>2 DEF SamePass, IngestInv, IngestTypeOK
  <1>5. \A q \in Processes \ {p} : PassInv(q)'
    BY <1>2, <1>4, QuietFrame
  <1>6. /\ pass'[p] = "ingest" /\ dirs'[p] = Folders /\ missing'[p] = Absent
        /\ quiet'[p] <=> \A q \in Processes : Running(q) => quiet[q]
    BY <1>2 DEF IngestInv, IngestTypeOK
  <1>7. PassInv(p)'
    <2>1. \A f \in Files : Waiting(p, f)'
      BY <1>6, FileType DEF Waiting
    <2>2. Synced(p)'
      BY <2>1 DEF Synced
    <2>3. SawAbsent(p)'
      BY <1>2, <1>6, SameTable DEF SawAbsent, Running
    <2> QED
      BY <2>2, <2>3, <1>6 DEF PassInv, ReadsAFile, Snapshot, ReadsRight, Unchanged, Met, Orphans,
                              InTransaction
  <1>8. Once'
    BY <1>2, SameTable DEF IngestInv
  <1>9. AllQuiet'
    <2> SUFFICES ASSUME NEW r \in Processes, NEW q \in Processes, quiet'[r], Running(q)'
                 PROVE  quiet'[q]
      BY DEF AllQuiet, Running
    <2>1. \A s \in Processes \ {p} : quiet'[s] = quiet[s] /\ (Running(s)' <=> Running(s))
      BY <1>4 DEF SamePass, Running
    <2>2. \A s \in Processes : Running(s) => quiet[s]
      <3>1. CASE r = p
        BY <3>1, <1>6
      <3>2. CASE r # p
        BY <3>2, <2>1 DEF IngestInv, AllQuiet
      <3> QED  BY <3>1, <3>2
    <2> QED  BY <2>1, <2>2, <1>6
  <1> QED  BY <1>3, <1>5, <1>7, <1>8, <1>9 DEF IngestInv

LEMMA OpensStoreStep ==
    ASSUME IngestInv, NEW p \in Processes, OpensStore(p)
    PROVE  IngestInv'
  <1>1. /\ ~Running(p)
        /\ UNCHANGED <<notes, rows, pass, dirs, todo, file, text, known, names, prune, quiet,
                       missing, edits, passes>>
    BY DEF OpensStore, walk, transaction, history, bounds
  <1>2. \/ stale' = [q \in Processes |-> q # p /\ pass[q] = "sync"]
        \/ stale' = stale
    BY DEF OpensStore, OthersReadOld
  <1>3. IngestTypeOK'
    <2>1. stale' \in [Processes -> BOOLEAN]
      BY <1>2 DEF IngestInv, IngestTypeOK
    <2> QED  BY <2>1, <1>1 DEF IngestInv, IngestTypeOK
  <1>4. \A q \in Processes : SamePass(q)
    BY <1>1 DEF SamePass
  <1>5. \A q \in Processes : pass[q] = "sync" => stale'[q] = stale[q] \/ stale'[q] = TRUE
    BY <1>1, <1>2 DEF Running
  <1>6. \A q \in Processes : PassInv(q)'
    BY <1>1, <1>4, <1>5, QuietFrame
  <1>7. Once' /\ AllQuiet'
    BY <1>1, SameTable DEF IngestInv, AllQuiet, Running
  <1> QED  BY <1>3, <1>6, <1>7 DEF IngestInv

\* A transaction that reads the table as it is leaves each paragraph of the file once.
LEMMA SyncedRows ==
    ASSUME IngestInv, NEW p \in Processes, SyncFile(p)
    PROVE  /\ file[p] \in Files
           /\ rows' \in [Names -> [Paragraphs -> Nat]]
           /\ \A n \in Names \ {file[p][2]} : rows'[n] = rows[n]
           /\ \/ rows' = rows /\ text[p] = known[p]
              \/ /\ ~stale[p]
                 /\ \A t \in Paragraphs : rows'[file[p][2]][t] = IF t \in text[p] THEN 1 ELSE 0
  <1> DEFINE n == file[p][2]
  <1>1. pass[p] = "sync" /\ file[p] \in Files /\ (text[p] = known[p] \/ ~stale[p])
    BY DEF SyncFile, IngestInv, PassInv, ReadsAFile, InTransaction
  <1>2. n \in Names
    BY <1>1, FileType
  <1>3. rows' = Changed(n, known[p] \ text[p], text[p] \ known[p])
    BY DEF SyncFile, Commit
  <1>4. /\ rows' \in [Names -> [Paragraphs -> Nat]]
        /\ \A m \in Names \ {n} : rows'[m] = rows[m]
        /\ \A t \in Paragraphs : rows'[n][t] =
              IF t \in known[p] \ text[p] THEN 0
              ELSE IF t \in text[p] \ known[p] THEN rows[n][t] + 1 ELSE rows[n][t]
    BY <1>2, <1>3, ChangedType DEF IngestInv
  <1>5. CASE ~stale[p]
    <2>1. \A t \in Paragraphs : t \in known[p] <=> rows[n][t] > 0
      BY <1>1, <1>5 DEF IngestInv, PassInv, Snapshot, Chunks
    <2>2. \A t \in Paragraphs : rows[n][t] \in {0, 1}
      BY <1>2 DEF IngestInv, Once
    <2>3. \A t \in Paragraphs : rows'[n][t] = IF t \in text[p] THEN 1 ELSE 0
      BY <1>4, <2>1, <2>2
    <2> QED  BY <1>1, <1>4, <1>5, <2>3
  <1>6. CASE text[p] = known[p]
    <2>1. \A t \in Paragraphs : rows'[n][t] = rows[n][t]
      BY <1>4, <1>6
    <2>2. rows'[n] = rows[n]
      <3>1. rows'[n] \in [Paragraphs -> Nat] /\ rows[n] \in [Paragraphs -> Nat]
        BY <1>2, <1>4 DEF IngestInv, IngestTypeOK
      <3> QED  BY <2>1, <3>1
    <2>3. rows' = rows
      <3>1. rows \in [Names -> [Paragraphs -> Nat]]
        BY DEF IngestInv, IngestTypeOK
      <3>2. \A m \in Names : rows'[m] = rows[m]
        BY <1>4, <2>2
      <3> QED  BY <3>1, <3>2, <1>4
    <2> QED  BY <1>1, <1>4, <1>6, <2>3
  <1> QED  BY <1>1, <1>5, <1>6

LEMMA SyncFileStep ==
    ASSUME IngestInv, NEW p \in Processes, SyncFile(p)
    PROVE  IngestInv'
  <1>1. /\ pass[p] = "sync"
        /\ pass' = [pass EXCEPT ![p] = "ingest"]
        /\ file' = [file EXCEPT ![p] = NoFile]
        /\ text' = [text EXCEPT ![p] = {}]
        /\ known' = [known EXCEPT ![p] = {}]
        /\ UNCHANGED <<notes, dirs, todo, names, prune, quiet, missing, edits, passes>>
    BY DEF SyncFile, ForgetFile, walk, history, bounds
  <1>2. \/ stale' = [q \in Processes |-> q # p /\ pass[q] = "sync"]
        \/ rows' = rows /\ stale' = [stale EXCEPT ![p] = FALSE]
    BY DEF SyncFile, Commit, OthersReadOld
  <1>3. IngestTypeOK'
    <2>1. /\ file' \in [Processes -> Files \cup {NoFile}]
          /\ text' \in [Processes -> SUBSET Paragraphs]
          /\ known' \in [Processes -> SUBSET Paragraphs]
      BY <1>1 DEF IngestInv, IngestTypeOK
    <2>2. stale' \in [Processes -> BOOLEAN]
      BY <1>2 DEF IngestInv, IngestTypeOK
    <2>3. pass' \in [Processes -> {"idle", "ingest", "begin", "sync", "collect", "purge"}]
      BY <1>1 DEF IngestInv, IngestTypeOK
    <2> QED  BY <2>1, <2>2, <2>3, <1>1, SyncedRows DEF IngestInv, IngestTypeOK
  <1>4. \A q \in Processes \ {p} : SamePass(q)
    BY <1>1 DEF SamePass, IngestInv, IngestTypeOK
  <1>5. \A f \in Files : Exists(f)' <=> Exists(f)
    BY <1>1 DEF Exists, Absent
  <1>6. quiet[p] => Exists(file[p]) /\ text[p] = notes[file[p]] /\ file[p] \in Files
    BY <1>1 DEF IngestInv, PassInv, ReadsAFile, ReadsRight, InTransaction
  <1>7. quiet[p] => Mirrored(file[p]) \/ rows' # rows \/ ~stale[p]
    BY <1>1, SyncedRows DEF IngestInv, PassInv, Unchanged
  \* The file of this step is mirrored now, and the others still are.
  <1>8. ASSUME quiet[p], NEW f \in Files, Exists(f), Mirrored(f) \/ f = file[p]
        PROVE  Mirrored(f)'
    <2>1. f[2] \in Names /\ f[1] \in Folders /\ f = <<f[1], f[2]>>
      BY <1>8, FileType
    <2>2. CASE f = file[p]
      <3>1. CASE rows' = rows /\ text[p] = known[p]
        <4>1. Mirrored(file[p])
          BY <1>1, <1>8, <3>1 DEF IngestInv, PassInv, Unchanged
        <4> QED  BY <4>1, <2>2, <3>1, <1>1 DEF Mirrored, Exists, Absent
      <3>2. CASE \A t \in Paragraphs : rows'[file[p][2]][t] = IF t \in text[p] THEN 1 ELSE 0
        <4>1. \A t \in Paragraphs : rows'[f[2]][t] = IF t \in notes'[f] THEN 1 ELSE 0
          BY <3>2, <2>2, <1>1, <1>6, <1>8
        <4> QED  BY <4>1 DEF Mirrored
      <3> QED  BY <3>1, <3>2, SyncedRows
    <2>3. CASE f # file[p] /\ f[2] = file[p][2]
      <3>1. file[p] \in Files /\ Exists(file[p])
        BY <1>6, <1>8
      <3>2. file[p][1] \in Folders \ {f[1]} /\ file[p] = <<file[p][1], f[2]>>
        BY <2>1, <2>3, <3>1, FileType
      <3>3. \E d \in Folders \ {f[1]} : Exists(<<d, f[2]>>)
        BY <3>1, <3>2
      <3>4. \E d \in Folders \ {f[1]} : Exists(<<d, f[2]>>)'
        BY <3>3, <1>1 DEF Exists, Absent
      <3> QED  BY <3>4 DEF Mirrored
    <2>4. CASE f # file[p] /\ f[2] # file[p][2]
      <3>1. rows'[f[2]] = rows[f[2]]
        BY <2>1, <2>4, SyncedRows
      <3> QED  BY <3>1, <2>4, <1>1, <1>8 DEF Mirrored, Exists, Absent
    <2> QED  BY <2>2, <2>3, <2>4
  <1>9. ASSUME quiet[p], NEW n \in Names, Forgotten(n)
        PROVE  Named(n) \/ Forgotten(n)'
    <2>1. CASE n = file[p][2]
      <3>1. file[p][1] \in Folders /\ file[p] = <<file[p][1], n>> /\ Exists(file[p])
        BY <1>6, <1>9, <2>1, FileType
      <3> QED  BY <3>1 DEF Named
    <2>2. CASE n # file[p][2]
      <3>1. rows'[n] = rows[n]
        BY <2>2, SyncedRows
      <3> QED  BY <3>1, <1>9 DEF Forgotten
    <2> QED  BY <2>1, <2>2
  <1>10. \A q \in Processes : quiet[q] => quiet[p]
    BY <1>1 DEF IngestInv, AllQuiet, Running
  <1>11. \A q \in Processes \ {p} : PassInv(q)'
    <2> SUFFICES ASSUME NEW q \in Processes \ {p} PROVE PassInv(q)'  OBVIOUS
    <2>1. pass[q] = "sync" /\ ~stale'[q] => rows' = rows /\ ~stale[q]
      BY <1>2 DEF IngestInv, IngestTypeOK
    <2>2. PassInv(q) /\ IngestTypeOK
      BY DEF IngestInv
    <2>3. quiet[q] => \A f \in Files : Exists(f) /\ Mirrored(f) => Mirrored(f)'
      BY <1>8, <1>10
    <2>4. quiet[q] => \A n \in Names : Forgotten(n) => Named(n) \/ Forgotten(n)'
      BY <1>9, <1>10
    <2> QED  BY <2>1, <2>2, <2>3, <2>4, <1>1, <1>4, Frame
  <1>12. PassInv(p)'
    <2>1. pass'[p] = "ingest"
      BY <1>1 DEF IngestInv, IngestTypeOK
    <2>2. Synced(p)'
      <3> SUFFICES ASSUME quiet[p], NEW f \in Files, Exists(f)
                   PROVE  Mirrored(f)' \/ Waiting(p, f)'
        BY <1>1, <1>5 DEF Synced
      <3>1. Mirrored(f) \/ f = file[p] \/ f[1] \in dirs[p] \/ f \in todo[p]
        BY DEF IngestInv, PassInv, Synced, Waiting
      <3> QED  BY <3>1, <2>1, <1>1, <1>8 DEF Waiting
    <2>3. Absent' = Absent
      BY <1>1 DEF Absent
    <2>4. SawAbsent(p)'
      BY <1>1, <2>1, <2>3 DEF IngestInv, PassInv, SawAbsent, Running
    <2> QED
      BY <2>1, <2>2, <2>4 DEF PassInv, ReadsAFile, Snapshot, ReadsRight, Unchanged, Met, Orphans,
                              InTransaction
  <1>13. Once'
    <2> SUFFICES ASSUME NEW n \in Names, NEW t \in Paragraphs PROVE rows'[n][t] \in {0, 1}
      BY DEF Once
    <2>1. rows[n][t] \in {0, 1}
      BY DEF IngestInv, Once
    <2> QED  BY <2>1, SyncedRows
  <1>14. AllQuiet'
    <2>1. \A q \in Processes : quiet'[q] = quiet[q] /\ (Running(q)' => Running(q))
      BY <1>1 DEF Running, IngestInv, IngestTypeOK
    <2> QED  BY <2>1 DEF IngestInv, AllQuiet
  <1> QED  BY <1>3, <1>11, <1>12, <1>13, <1>14 DEF IngestInv

\* A prune takes no name that a note has had all the time.
LEMMA PurgedRows ==
    ASSUME IngestInv, NEW p \in Processes, Purge(p)
    PROVE  /\ rows' \in [Names -> [Paragraphs -> Nat]]
           /\ \A n \in names[p] : Forgotten(n)'
           /\ \A n \in Names \ names[p] : rows'[n] = rows[n]
           /\ \A f \in Files \ missing[p] : f[2] \notin names[p]
           /\ quiet[p] => \A f \in Files : Exists(f) => f[2] \notin names[p]
  <1> DEFINE none == [t \in Paragraphs |-> 0]
  <1>1. pass[p] = "purge" /\ rows' = [n \in Names |-> IF n \in names[p] THEN none ELSE rows[n]]
    BY DEF Purge, Commit
  <1>2. none \in [Paragraphs -> Nat] /\ \A t \in Paragraphs : none[t] = 0
    OBVIOUS
  <1> HIDE DEF none
  <1>3. rows' \in [Names -> [Paragraphs -> Nat]]
    BY <1>1, <1>2 DEF IngestInv, IngestTypeOK
  <1>4. /\ \A n \in names[p] : rows'[n] = none
        /\ \A n \in Names \ names[p] : rows'[n] = rows[n]
    BY <1>1 DEF IngestInv, IngestTypeOK
  <1>5. \A n \in names[p] : Forgotten(n)'
    BY <1>2, <1>4 DEF Forgotten
  <1>6. \A f \in Files \ missing[p] : f[2] \notin names[p]
    BY <1>1 DEF IngestInv, PassInv, Orphans
  <1>7. quiet[p] => missing[p] = Absent
    BY DEF IngestInv, PassInv, SawAbsent
  <1>8. quiet[p] => \A f \in Files : Exists(f) => f[2] \notin names[p]
    BY <1>6, <1>7 DEF Exists
  <1> QED  BY <1>3, <1>4, <1>5, <1>6, <1>8

\* Among quiet passes a prune leaves the notes that exist as they are.
LEMMA PurgeKeeps ==
    ASSUME IngestInv, NEW p \in Processes, Purge(p), quiet[p]
    PROVE  /\ \A f \in Files : Exists(f) /\ Mirrored(f) => Mirrored(f)'
           /\ \A n \in Names : Forgotten(n) => Forgotten(n)'
  <1>1. notes' = notes
    BY DEF Purge
  <1>2. ASSUME NEW f \in Files, Exists(f), Mirrored(f) PROVE Mirrored(f)'
    <2>1. f[2] \in Names /\ f[2] \notin names[p]
      BY <1>2, FileType, PurgedRows
    <2>2. rows'[f[2]] = rows[f[2]]
      BY <2>1, PurgedRows
    <2> QED  BY <1>1, <1>2, <2>2 DEF Mirrored, Exists, Absent
  <1>3. ASSUME NEW n \in Names, Forgotten(n) PROVE Forgotten(n)'
    <2>1. CASE n \in names[p]
      BY <2>1, PurgedRows
    <2>2. CASE n \notin names[p]
      <3>1. rows'[n] = rows[n]
        BY <2>2, PurgedRows
      <3> QED  BY <3>1, <1>3 DEF Forgotten
    <2> QED  BY <2>1, <2>2
  <1> QED  BY <1>2, <1>3

LEMMA PurgeStep ==
    ASSUME IngestInv, NEW p \in Processes, Purge(p)
    PROVE  IngestInv'
  <1>1. /\ pass[p] = "purge" /\ Ends(p)
        /\ UNCHANGED <<notes, file, text, known, edits, passes>>
    BY DEF Purge, transaction, bounds
  <1>2. \/ stale' = [q \in Processes |-> q # p /\ pass[q] = "sync"]
        \/ rows' = rows /\ stale' = [stale EXCEPT ![p] = FALSE]
    BY DEF Purge, Commit, OthersReadOld
  <1>3. IngestTypeOK'
    <2>1. stale' \in [Processes -> BOOLEAN]
      BY <1>2 DEF IngestInv, IngestTypeOK
    <2> QED  BY <2>1, <1>1, EndsStep, PurgedRows DEF IngestInv, IngestTypeOK
  <1>4. \A q \in Processes \ {p} : SamePass(q)
    BY <1>1, EndsStep DEF SamePass
  <1>5. \A q \in Processes : quiet[q] => quiet[p]
    BY <1>1 DEF IngestInv, AllQuiet, Running
  <1>6. \A q \in Processes \ {p} : PassInv(q)'
    <2> SUFFICES ASSUME NEW q \in Processes \ {p} PROVE PassInv(q)'  OBVIOUS
    <2>1. pass[q] = "sync" /\ ~stale'[q] => rows' = rows /\ ~stale[q]
      BY <1>2 DEF IngestInv, IngestTypeOK
    <2>2. PassInv(q) /\ IngestTypeOK
      BY DEF IngestInv
    <2>3. quiet[q] => \A f \in Files : Exists(f) /\ Mirrored(f) => Mirrored(f)'
      BY <1>5, PurgeKeeps
    <2>4. quiet[q] => \A n \in Names : Forgotten(n) => Named(n) \/ Forgotten(n)'
      BY <1>5, PurgeKeeps
    <2> QED  BY <2>1, <2>2, <2>3, <2>4, <1>1, <1>4, Frame
  <1>7. PassInv(p)'
    BY <1>1, EndsStep, IdlePass
  <1>8. Once'
    <2> SUFFICES ASSUME NEW n \in Names, NEW t \in Paragraphs PROVE rows'[n][t] \in {0, 1}
      BY DEF Once
    <2>1. CASE n \in names[p]
      BY <2>1, PurgedRows DEF Forgotten
    <2>2. CASE n \notin names[p]
      BY <2>2, PurgedRows DEF IngestInv, Once
    <2> QED  BY <2>1, <2>2
  <1>9. AllQuiet'
    <2>1. \A q \in Processes \ {p} : quiet'[q] = quiet[q] /\ (Running(q)' <=> Running(q))
      BY <1>4 DEF SamePass, Running
    <2>2. ~quiet'[p] /\ ~Running(p)'
      BY <1>1, EndsStep DEF Running
    <2> QED  BY <2>1, <2>2 DEF IngestInv, AllQuiet
  <1> QED  BY <1>3, <1>6, <1>7, <1>8, <1>9 DEF IngestInv

LEMMA EditStep ==
    ASSUME IngestInv, NEW f \in Files, Edit(f)
    PROVE  IngestInv'
  <1>1. PICK note \in Note : notes' = [notes EXCEPT ![f] = note]
    BY DEF Edit
  <1>2. /\ edits' = edits + 1
        /\ quiet' = [p \in Processes |-> FALSE]
        /\ missing' = [p \in Processes |-> IF Running(p) THEN missing[p] \cup Absent' ELSE {}]
        /\ UNCHANGED <<rows, pass, dirs, todo, file, text, known, stale, names, prune, passes>>
    BY DEF Edit, walk, transaction
  <1>3. IngestTypeOK'
    <2>1. notes' \in [Files -> Note] /\ edits' \in Nat
      BY <1>1, <1>2 DEF IngestInv, IngestTypeOK
    <2>2. quiet' \in [Processes -> BOOLEAN]
      BY <1>2
    <2>3. missing' \in [Processes -> SUBSET Files]
      <3>1. Absent' \subseteq Files
        BY DEF Absent
      <3> QED  BY <3>1, <1>2 DEF IngestInv, IngestTypeOK
    <2> QED  BY <2>1, <2>2, <2>3, <1>2 DEF IngestInv, IngestTypeOK
  <1>4. ASSUME NEW q \in Processes PROVE PassInv(q)'
    <2> USE DEF IngestInv, PassInv
    <2>1. ~quiet'[q]
      BY <1>2
    <2>2. Running(q) => missing'[q] = missing[q] \cup Absent'
      BY <1>2
    <2>3. ReadsAFile(q)' /\ ReadsRight(q)' /\ Unchanged(q)' /\ Synced(q)'
      BY <2>1, <1>2 DEF ReadsAFile, ReadsRight, Unchanged, Synced, InTransaction
    <2>4. Snapshot(q)'
      BY <1>2 DEF Snapshot, Chunks
    <2>5. SawAbsent(q)'
      BY <2>1, <2>2, <1>2 DEF SawAbsent, Running
    <2>6. Met(q)' /\ Orphans(q)'
      BY <2>1, <2>2, <1>2 DEF Met, Orphans, Running
    <2> QED  BY <2>3, <2>4, <2>5, <2>6
  <1>5. Once' /\ AllQuiet'
    BY <1>2 DEF IngestInv, Once, AllQuiet
  <1> QED  BY <1>3, <1>4, <1>5 DEF IngestInv

LEMMA IngestInductive == IngestInv /\ [Next]_vars => IngestInv'
  <1> SUFFICES ASSUME IngestInv, [Next]_vars PROVE IngestInv'  OBVIOUS
  <1>1. ASSUME NEW f \in Files, Edit(f) PROVE IngestInv'
    BY <1>1, EditStep
  <1>2. ASSUME NEW p \in Processes, OpensStore(p) \/ Start(p) \/ ListFolder(p) \/ ReadFile(p)
        PROVE  IngestInv'
    BY <1>2, OpensStoreStep, StartStep, ListFolderStep, ReadFileStep
  <1>3. ASSUME NEW p \in Processes, FindChunks(p) \/ SyncFile(p) \/ Fail(p) \/ EndOfIngest(p)
        PROVE  IngestInv'
    BY <1>3, FindChunksStep, SyncFileStep, FailStep, EndOfIngestStep
  <1>4. ASSUME NEW p \in Processes, Reconcile(p) \/ Collect(p) \/ FindOrphans(p) \/ Purge(p)
        PROVE  IngestInv'
    BY <1>4, ReconcileStep, CollectStep, FindOrphansStep, PurgeStep
  <1>5. CASE UNCHANGED vars
    <2>1. UNCHANGED ingestVars
      BY <1>5 DEF vars
    <2>2. /\ notes' = notes /\ rows' = rows /\ stale' = stale
          /\ \A q \in Processes : SamePass(q)
      BY <2>1 DEF ingestVars, SamePass
    <2>3. \A q \in Processes : PassInv(q)'
      BY <2>2, QuietFrame
    <2>4. IngestTypeOK' /\ Once' /\ AllQuiet'
      BY <2>1 DEF ingestVars, IngestInv, IngestTypeOK, Once, AllQuiet, Running
    <2> QED  BY <2>3, <2>4 DEF IngestInv
  <1> QED  BY <1>1, <1>2, <1>3, <1>4, <1>5 DEF Next

LEMMA IngestInvariance == Spec => []IngestInv
  BY IngestInitially, IngestInductive, PTL DEF Spec

-----------------------------------------------------------------------------
(***************************************************************************)
(* Programs that ingest keep the types of their own state and of the store.  *)
(***************************************************************************)
THEOREM IngestTypes == Spec => []TypeOK
  BY IngestInvariance, ImplementsStoreOpen, Invariance, PTL DEF IngestInv, IInv, TypeOK

(***************************************************************************)
(* A prune removes the chunks of a name only if each note of that name was   *)
(* missing at some moment of its pass (purge_orphans, ingest.rs:188-230).    *)
(***************************************************************************)
THEOREM PrunedNotesWereGone == Spec => PurgedWereGone
  <1> DEFINE A == \A p \in Processes : Purge(p) =>
                     \A n \in Names : rows'[n] # rows[n] => \A d \in Folders : <<d, n>> \in missing[p]
  <1>1. IngestInv /\ [Next]_vars => [A]_vars
    <2> SUFFICES ASSUME IngestInv, NEW p \in Processes, Purge(p), NEW n \in Names,
                        rows'[n] # rows[n], NEW d \in Folders
                 PROVE  <<d, n>> \in missing[p]
      OBVIOUS
    <2>1. n \in names[p]
      BY PurgedRows
    <2>2. <<d, n>> \in Files /\ <<d, n>>[2] = n
      BY DEF Files
    <2> QED  BY <2>1, <2>2, PurgedRows
  <1> QED  BY <1>1, IngestInvariance, PTL DEF Spec, PurgedWereGone

(***************************************************************************)
(* When a pass ends under which no note was edited, the memory holds each    *)
(* paragraph of the notes once, whatever other passes did meanwhile and      *)
(* wherever they failed, and after a prune nothing of notes that are gone    *)
(* (ingest_file and reconcile_ingested_files, ingest.rs:69-121, 239-242).    *)
(***************************************************************************)
THEOREM NotesAreMirrored == Spec => PassMirrorsNotes
  <1> DEFINE Right(p) ==
                 /\ \A f \in Files : Exists(f) => Mirrored(f)'
                 /\ prune[p] => \A n \in Names :
                                   (\A d \in Folders : ~Exists(<<d, n>>)) => Forgotten(n)'
             A == \A p \in Processes : quiet[p] /\ (EndOfIngest(p) \/ Purge(p)) => Right(p)
  <1>1. ASSUME IngestInv, NEW p \in Processes, quiet[p], EndOfIngest(p)
        PROVE  Right(p)
    <2>1. /\ pass[p] = "ingest" /\ todo[p] = {} /\ dirs[p] = {} /\ ~prune[p]
          /\ notes' = notes /\ rows' = rows
      BY <1>1 DEF EndOfIngest, WalkIsOver
    <2>2. \A f \in Files : Exists(f) => Mirrored(f)
      BY <1>1, <2>1 DEF IngestInv, PassInv, Synced, Waiting, InTransaction
    <2> QED  BY <2>1, <2>2, SameTable
  <1>2. ASSUME IngestInv, NEW p \in Processes, quiet[p], Purge(p)
        PROVE  Right(p)
    <2>1. pass[p] = "purge"
      BY <1>2 DEF Purge
    <2>2. \A f \in Files : Exists(f) => Mirrored(f)
      BY <1>2, <2>1 DEF IngestInv, PassInv, Synced, Waiting
    <2>3. \A f \in Files : Exists(f) => Mirrored(f)'
      BY <1>2, <2>2, PurgeKeeps
    <2>4. ASSUME NEW n \in Names, \A d \in Folders : ~Exists(<<d, n>>)
          PROVE  Forgotten(n)'
      <3>1. n \in names[p] \/ Forgotten(n)
        BY <1>2, <2>1, <2>4 DEF IngestInv, PassInv, Orphans, Named
      <3> QED  BY <3>1, <1>2, PurgedRows, PurgeKeeps
    <2> QED  BY <2>3, <2>4
  <1>3. IngestInv /\ [Next]_vars => [A]_vars
    <2> SUFFICES ASSUME IngestInv, NEW p \in Processes, quiet[p], EndOfIngest(p) \/ Purge(p)
                 PROVE  Right(p)
      OBVIOUS
    <2> HIDE DEF Right
    <2> QED  BY <1>1, <1>2
  <1> QED  BY <1>3, IngestInvariance, PTL DEF Spec, PassMirrorsNotes
================================================================================
