------------------------------ MODULE LabProofs ------------------------------
(***************************************************************************)
(* Proofs about Lab, for any rules, scores, thresholds and numbers of       *)
(* experiments and cycles.                                                  *)
(***************************************************************************)
EXTENDS Lab, TLAPS, FiniteSetTheorems, SequenceTheorems, WellFoundedInduction

\* The rows of the cycle under way.
Rows == {i \in Ids : log[i].cycle = cycle}

\* Experiments whose details are in D.
Experiments(D) ==
    [detail : D, kind : {"rule", "param", "meta"}, delta : Int, score : Int, accepted : BOOLEAN,
     prescreened : BOOLEAN, whole : BOOLEAN, cycle : Nat]

\* The experiment in hand and the rows are experiments.
Typed == \E D : exp \in Experiments(D) /\ log \in Seq(Experiments(D))

\* The shape of what the proofs look at.
Shape ==
    /\ Typed
    /\ tsv \in Seq(Nat)
    /\ cycle \in Nat
    /\ cancelled \in BOOLEAN
    /\ pc \in {"idle", "baseline", "head", "screen", "measure", "judge", "save", "tsv", "learn"}
    /\ baseline \in Int
    /\ \A i \in Ids : log[i].cycle <= cycle

\* The experiment in hand is one of the cycle; nothing was written before the baseline.
InHand ==
    /\ pc \in {"screen", "measure", "judge", "save", "tsv"} => exp.cycle = cycle
    /\ pc = "baseline" => Rows = {}

\* The baseline is the best of what the cycle has accepted, and an acceptance beats it.
Climb ==
    /\ pc # "idle" => \A i \in Rows : log[i].accepted => log[i].score <= baseline
    /\ pc \in {"screen", "measure"} => ~exp.accepted
    /\ pc = "judge" => exp.accepted
    /\ pc \in {"judge", "save"} /\ exp.accepted => exp.score > baseline

\* A measurement that is not whole was cut by the token, and nothing is proposed after it.
Cut ==
    /\ pc # "idle" => \A i \in Rows : ~log[i].whole => cancelled /\ pc \in {"tsv", "learn", "head"}
    /\ pc \in {"judge", "save"} => exp.whole \/ cancelled

\* The file is behind by the row that is about to be appended, and only then.
Behind ==
    /\ \A k \in 1..Len(tsv) : tsv[k] \in Ids
    /\ pc = "tsv" => /\ Len(log) > 0 /\ log[Len(log)].cycle = cycle
                     /\ \A k \in 1..Len(tsv) : tsv[k] < Len(log)
    /\ pc # "idle" => \A i \in Rows : i \in Range(tsv) \/ (pc = "tsv" /\ i = Len(log))

Invariant ==
    Shape /\ InHand /\ Climb /\ Cut /\ Behind
        /\ AcceptsClimb /\ PartialVerdictsAreLast /\ TsvFollowsTable

-----------------------------------------------------------------------------
(***************************************************************************)
(* Sequences                                                                *)
(***************************************************************************)

\* A sequence with one more element.
LEMMA AppendFacts ==
  ASSUME NEW S, NEW s \in Seq(S), NEW e \in S
  PROVE  /\ Append(s, e) \in Seq(S)
         /\ Len(s) \in Nat
         /\ Len(Append(s, e)) = Len(s) + 1
         /\ \A i \in 1..Len(s) : Append(s, e)[i] = s[i]
         /\ Append(s, e)[Len(s) + 1] = e
  OBVIOUS

\* What the fields of the rows and of the experiment in hand are.
LEMMA Fields ==
  ASSUME Shape
  PROVE  /\ exp.score \in Int /\ exp.accepted \in BOOLEAN /\ exp.whole \in BOOLEAN
         /\ exp.cycle \in Nat
         /\ Len(log) \in Nat
         /\ \A i \in Ids : /\ log[i].score \in Int /\ log[i].accepted \in BOOLEAN
                           /\ log[i].whole \in BOOLEAN /\ log[i].cycle \in 0..cycle
<1>1. PICK D : exp \in Experiments(D) /\ log \in Seq(Experiments(D))
  BY DEF Shape, Typed
<1>2. \A i \in Ids : log[i] \in Experiments(D)
  BY <1>1 DEF Ids
<1>3. \A e \in Experiments(D) : /\ e.score \in Int /\ e.accepted \in BOOLEAN
                                /\ e.whole \in BOOLEAN /\ e.cycle \in Nat
  BY DEF Experiments
<1>4. cycle \in Nat /\ \A i \in Ids : log[i].cycle <= cycle
  BY DEF Shape
<1>5. Len(log) \in Nat
  BY <1>1
<1>6. \A i \in Ids : log[i].cycle \in 0..cycle
  BY <1>2, <1>3, <1>4
<1> QED
  BY <1>1, <1>2, <1>3, <1>5, <1>6

\* More details.
LEMMA MoreDetails ==
  ASSUME NEW D, NEW E, D \subseteq E
  PROVE  Experiments(D) \subseteq Experiments(E)
         /\ Seq(Experiments(D)) \subseteq Seq(Experiments(E))
<1>1. Experiments(D) \subseteq Experiments(E)
  BY DEF Experiments
<1> QED
  BY <1>1

\* What the table is after a row was written.
LEMMA RowWritten ==
  ASSUME Shape, log' = Append(log, exp)
  PROVE  /\ \E D : exp \in Experiments(D) /\ log' \in Seq(Experiments(D))
         /\ Len(log) \in Nat
         /\ Len(log') = Len(log) + 1
         /\ Ids' = Ids \union {Len(log) + 1}
         /\ \A i \in Ids : log'[i] = log[i] /\ i < Len(log) + 1
         /\ log'[Len(log) + 1] = exp
<1>1. PICK D : exp \in Experiments(D) /\ log \in Seq(Experiments(D))
  BY DEF Shape, Typed
<1>2. /\ log' \in Seq(Experiments(D))
      /\ Len(log) \in Nat
      /\ Len(log') = Len(log) + 1
      /\ \A i \in 1..Len(log) : log'[i] = log[i]
      /\ log'[Len(log) + 1] = exp
  BY <1>1, AppendFacts
<1>3. Ids' = Ids \union {Len(log) + 1}
  BY <1>2 DEF Ids
<1> QED
  BY <1>1, <1>2, <1>3 DEF Ids

\* What is said of the two logs holds as long as neither changes.
LEMMA LogsKept ==
  ASSUME Invariant, UNCHANGED <<log, tsv>>
  PROVE  (AcceptsClimb /\ PartialVerdictsAreLast /\ TsvFollowsTable)'
  BY DEF Invariant, AcceptsClimb, PartialVerdictsAreLast, TsvFollowsTable, AcceptedIds, Ids

-----------------------------------------------------------------------------
(***************************************************************************)
(* The steps                                                                *)
(***************************************************************************)

\* A cycle ends, is given up or dies: nothing is left to be said of it.
LEMMA Leaves ==
  ASSUME Invariant, Forget, UNCHANGED <<log, tsv, cycle>>
  PROVE  Invariant'
<1> USE DEF Forget
<1>1. Shape'
  <2>1. PICK D : exp \in Experiments(D) /\ log \in Seq(Experiments(D))
    BY DEF Invariant, Shape, Typed
  <2>2. NoExperiment \in Experiments(D \union {{}})
    BY DEF NoExperiment, Experiments
  <2>3. exp' \in Experiments(D \union {{}}) /\ log' \in Seq(Experiments(D \union {{}}))
    BY <2>1, <2>2, MoreDetails
  <2>4. Typed'
    BY <2>3 DEF Typed
  <2>5. (tsv \in Seq(Nat))' /\ (cycle \in Nat)' /\ (cancelled \in BOOLEAN)'
    BY DEF Invariant, Shape
  <2>6. (\A i \in Ids : log[i].cycle <= cycle)'
    BY DEF Invariant, Shape, Ids
  <2> QED
    BY <2>4, <2>5, <2>6 DEF Shape
<1>2. (InHand /\ Climb /\ Cut /\ Behind)'
  BY DEF Invariant, InHand, Climb, Cut, Behind, Ids
<1> QED
  BY <1>1, <1>2, LogsKept DEF Invariant

\* A new cycle has no rows.
LEMMA StartKeeps ==
  ASSUME Invariant, Start
  PROVE  Invariant'
<1> USE DEF Start
<1>1. Shape' /\ Rows' = {}
  BY Fields DEF Invariant, Shape, Typed, Rows, Ids
<1>2. (InHand /\ Climb /\ Cut /\ Behind)'
  BY <1>1 DEF Invariant, InHand, Climb, Cut, Behind, Ids
<1> QED
  BY <1>1, <1>2, LogsKept DEF Invariant

\* The baseline of a cycle without rows.
LEMMA MeasureBaselineKeeps ==
  ASSUME Invariant, MeasureBaseline
  PROVE  Invariant'
<1> USE DEF MeasureBaseline, persistent
<1>1. Shape'
  BY LabAssumption DEF Invariant, Shape, Typed, Measurement, Scores, Ids, LabAssumption
<1>2. Rows' = {}
  BY DEF Invariant, InHand, Rows, Ids
<1>3. (InHand /\ Climb /\ Cut /\ Behind)'
  BY <1>2 DEF Invariant, InHand, Climb, Cut, Behind, Ids
<1> QED
  BY <1>1, <1>3, LogsKept DEF Invariant

\* A proposal is not yet accepted, and the token was not set when it was made.
LEMMA ProposeKeeps ==
  ASSUME Invariant, Propose
  PROVE  Invariant'
<1>1. /\ pc = "head" /\ pc' = "screen" /\ ~cancelled
      /\ UNCHANGED <<log, tsv, cycle, cancelled, baseline>>
  BY DEF Propose, MayGoOn, persistent
<1>2. PICK detail : \E kind \in {"rule", "param", "meta"} : exp' = Proposal(detail, kind)
  <2>1. CASE exp' = Proposal(Compound, "meta")
    BY <2>1
  <2>2. CASE \E slot : exp' = Proposal(Slots[slot], KindOf(slot))
    BY <2>2 DEF KindOf
  <2>3. CASE exp' = Proposal(rules[(wraps % Len(rules)) + 1], "rule")
    BY <2>3
  <2> QED
    BY <2>1, <2>2, <2>3 DEF Propose
<1>3. cycle \in Nat
  BY DEF Invariant, Shape
<1>4. /\ exp' \in Experiments({detail})
      /\ exp'.cycle = cycle /\ exp'.accepted = FALSE
  <2>1. PICK kind \in {"rule", "param", "meta"} : exp' = Proposal(detail, kind)
    BY <1>2
  <2>2. exp' = [detail |-> detail, kind |-> kind, delta |-> 0, score |-> 0, accepted |-> FALSE,
                prescreened |-> FALSE, whole |-> TRUE, cycle |-> cycle]
    BY <2>1 DEF Proposal, NoExperiment
  <2> QED
    BY <1>3, <2>2 DEF Experiments
<1>5. Shape'
  <2>1. PICK D : exp \in Experiments(D) /\ log \in Seq(Experiments(D))
    BY DEF Invariant, Shape, Typed
  <2>2. Experiments({detail}) \subseteq Experiments(D \union {detail})
    BY MoreDetails
  <2>3. Seq(Experiments(D)) \subseteq Seq(Experiments(D \union {detail}))
    BY MoreDetails
  <2>4. Typed'
    BY <1>1, <1>4, <2>1, <2>2, <2>3 DEF Typed
  <2>5. (/\ tsv \in Seq(Nat) /\ cycle \in Nat /\ cancelled \in BOOLEAN /\ baseline \in Int)'
    BY <1>1 DEF Invariant, Shape
  <2>6. (\A i \in Ids : log[i].cycle <= cycle)'
    BY <1>1 DEF Invariant, Shape, Ids
  <2> QED
    BY <1>1, <2>4, <2>5, <2>6 DEF Shape
<1>6. (InHand /\ Climb /\ Cut /\ Behind)'
  BY <1>1, <1>4 DEF Invariant, InHand, Climb, Cut, Behind, Ids, Rows
<1> QED
  BY <1>1, <1>5, <1>6, LogsKept DEF Invariant

\* A change of the experiment in hand alone leaves the state of the shape the
\* invariant asks for, as long as the record is still an experiment.
LEMMA ChangesKeepShape ==
  ASSUME Invariant,
         UNCHANGED <<log, tsv, cycle, cancelled, baseline>>,
         pc' \in {"screen", "measure", "judge", "save", "tsv", "head"},
         NEW D, log \in Seq(Experiments(D)), exp' \in Experiments(D)
  PROVE  Shape'
<1>1. Typed'
  BY DEF Typed
<1>2. (/\ tsv \in Seq(Nat) /\ cycle \in Nat /\ cancelled \in BOOLEAN /\ baseline \in Int)'
  BY DEF Invariant, Shape
<1>3. (\A i \in Ids : log[i].cycle <= cycle)'
  BY DEF Invariant, Shape, Ids
<1> QED
  BY <1>1, <1>2, <1>3 DEF Shape

\* What the screening turns down is not accepted.
LEMMA ScreenKeeps ==
  ASSUME Invariant, Screen
  PROVE  Invariant'
<1>1. /\ pc = "screen" /\ UNCHANGED <<log, tsv, cycle, cancelled, baseline>>
      /\ exp.cycle = cycle /\ ~exp.accepted
  BY DEF Screen, persistent, Invariant, InHand, Climb
<1>2. \A i \in Rows : log[i].whole
  BY <1>1 DEF Invariant, Cut, Rows, Ids
<1>3. PICK estimate \in Estimates \union {0} :
        \/ /\ exp' = [exp EXCEPT !.delta = estimate, !.score = baseline + estimate,
                                 !.prescreened = TRUE, !.whole = ~cancelled]
           /\ pc' = "save"
        \/ exp' = exp /\ pc' = "measure"
  BY DEF Screen
<1>4. CASE exp' = exp /\ pc' = "measure"
  <2>1. Shape'
    BY <1>1, <1>4 DEF Invariant, Shape, Typed, Ids
  <2>2. (InHand /\ Climb /\ Cut /\ Behind)'
    BY <1>1, <1>2, <1>4 DEF Invariant, InHand, Climb, Cut, Behind, Ids, Rows
  <2> QED
    BY <1>1, <2>1, <2>2, LogsKept DEF Invariant
<1>5. CASE /\ exp' = [exp EXCEPT !.delta = estimate, !.score = baseline + estimate,
                                 !.prescreened = TRUE, !.whole = ~cancelled]
           /\ pc' = "save"
  <2>1. estimate \in Int /\ baseline + estimate \in Int /\ (~cancelled) \in BOOLEAN
    BY LabAssumption DEF LabAssumption, Invariant, Shape
  <2>2. PICK D : exp \in Experiments(D) /\ log \in Seq(Experiments(D))
    BY DEF Invariant, Shape, Typed
  <2>3. /\ exp' \in Experiments(D)
        /\ exp'.cycle = cycle /\ exp'.accepted = FALSE /\ exp'.whole = ~cancelled
    BY <1>1, <1>5, <2>1, <2>2 DEF Experiments
  <2>4. Shape'
    <3>1. pc' \in {"screen", "measure", "judge", "save", "tsv", "head"}
      BY <1>5
    <3> QED
      BY <1>1, <2>2, <2>3, <3>1, ChangesKeepShape
  <2>5. (InHand /\ Climb /\ Cut /\ Behind)'
    BY <1>1, <1>2, <1>5, <2>3 DEF Invariant, InHand, Climb, Cut, Behind, Ids, Rows
  <2> QED
    BY <1>1, <2>4, <2>5, LogsKept DEF Invariant
<1> QED
  BY <1>3, <1>4, <1>5

\* What a measurement accepts is above the baseline.
LEMMA MeasureKeeps ==
  ASSUME Invariant, Measure
  PROVE  Invariant'
<1>1. /\ pc = "measure" /\ UNCHANGED <<log, tsv, cycle, cancelled, baseline>>
      /\ exp.cycle = cycle
  BY DEF Measure, persistent, Invariant, InHand
<1>2. \A i \in Rows : log[i].whole
  BY <1>1 DEF Invariant, Cut, Rows, Ids
<1>3. PICK score \in Scores :
        exp' = [exp EXCEPT !.score = score, !.delta = score - baseline,
                           !.accepted = score > baseline, !.whole = ~cancelled]
  BY DEF Measure
<1>4. /\ score \in Int /\ score - baseline \in Int
      /\ (score > baseline) \in BOOLEAN /\ (~cancelled) \in BOOLEAN
  BY LabAssumption DEF LabAssumption, Scores, Invariant, Shape
<1>5. pc' \in {"judge", "save"} /\ (pc' = "judge" => exp'.accepted)
  BY DEF Measure
<1>6. PICK D : exp \in Experiments(D) /\ log \in Seq(Experiments(D))
  BY DEF Invariant, Shape, Typed
<1>7. /\ exp' \in Experiments(D)
      /\ exp'.cycle = cycle /\ exp'.score = score
      /\ exp'.accepted = (score > baseline) /\ exp'.whole = ~cancelled
  BY <1>1, <1>3, <1>4, <1>6 DEF Experiments
<1>8. Shape'
  <2>1. pc' \in {"screen", "measure", "judge", "save", "tsv", "head"}
    BY <1>5
  <2> QED
    BY <1>1, <1>6, <1>7, <2>1, ChangesKeepShape
<1>9. (InHand /\ Climb /\ Cut /\ Behind)'
  BY <1>1, <1>2, <1>5, <1>7 DEF Invariant, InHand, Climb, Cut, Behind, Ids, Rows
<1> QED
  BY <1>1, <1>8, <1>9, LogsKept DEF Invariant

\* What the judge leaves accepted was accepted by the measurement.
LEMMA JudgeKeeps ==
  ASSUME Invariant, Judge
  PROVE  Invariant'
<1>1. /\ pc = "judge" /\ pc' = "save" /\ UNCHANGED <<log, tsv, cycle, cancelled, baseline>>
      /\ exp.cycle = cycle /\ exp.score > baseline /\ (exp.whole \/ cancelled)
  BY DEF Judge, persistent, Invariant, InHand, Climb, Cut
<1>2. \A i \in Rows : log[i].whole
  BY <1>1 DEF Invariant, Cut, Rows, Ids
<1>3. PICK passed \in BOOLEAN : exp' = [exp EXCEPT !.accepted = passed]
  BY DEF Judge
<1>4. PICK D : exp \in Experiments(D) /\ log \in Seq(Experiments(D))
  BY DEF Invariant, Shape, Typed
<1>5. /\ exp' \in Experiments(D)
      /\ exp'.cycle = cycle /\ exp'.score = exp.score /\ exp'.whole = exp.whole
  BY <1>1, <1>3, <1>4 DEF Experiments
<1>6. Shape'
  <2>1. pc' \in {"screen", "measure", "judge", "save", "tsv", "head"}
    BY <1>1
  <2> QED
    BY <1>1, <1>4, <1>5, <2>1, ChangesKeepShape
<1>7. (InHand /\ Climb /\ Cut /\ Behind)'
  BY <1>1, <1>2, <1>5 DEF Invariant, InHand, Climb, Cut, Behind, Ids, Rows
<1> QED
  BY <1>1, <1>6, <1>7, LogsKept DEF Invariant

\* A row of the cycle is written: the three properties hold of the longer table.
LEMMA RowKeeps ==
  ASSUME Invariant, pc = "save", log' = Append(log, exp), UNCHANGED <<tsv, cycle>>
  PROVE  (AcceptsClimb /\ PartialVerdictsAreLast /\ TsvFollowsTable)'
<1>1. /\ Len(log) \in Nat
      /\ Ids' = Ids \union {Len(log) + 1}
      /\ \A i \in Ids : log'[i] = log[i] /\ i < Len(log) + 1
      /\ log'[Len(log) + 1] = exp
  BY RowWritten DEF Invariant
<1>2. \A i \in Ids : i \in Nat /\ ~(Len(log) + 1 < i)
  BY <1>1 DEF Ids
<1>3. ASSUME NEW i \in Ids', NEW j \in Ids', i < j
      PROVE  i \in Ids /\ (j \in Ids \/ j = Len(log) + 1)
  BY <1>1, <1>2, <1>3
<1>4. exp.cycle = cycle
  BY DEF Invariant, InHand
<1>5. AcceptsClimb'
  <2> SUFFICES ASSUME NEW i \in Ids', NEW j \in Ids', log'[i].accepted, log'[j].accepted,
                      i < j, log'[i].cycle = log'[j].cycle
               PROVE  log'[i].score < log'[j].score
    BY DEF AcceptsClimb, AcceptedIds
  <2>1. CASE j \in Ids
    BY <1>1, <1>3, <2>1 DEF Invariant, AcceptsClimb, AcceptedIds
  <2>2. CASE j = Len(log) + 1
    <3>1. i \in Rows /\ log[i].accepted /\ log'[i] = log[i] /\ log'[j] = exp
      BY <1>1, <1>3, <1>4, <2>2 DEF Rows
    <3>2. log[i].score <= baseline /\ exp.score > baseline
      BY <3>1 DEF Invariant, Climb
    <3>3. log[i].score \in Int /\ exp.score \in Int /\ baseline \in Int
      BY <3>1, Fields DEF Invariant, Shape, Rows
    <3> QED
      BY <3>1, <3>2, <3>3
  <2> QED
    BY <1>3, <2>1, <2>2
<1>6. PartialVerdictsAreLast'
  <2> SUFFICES ASSUME NEW i \in Ids', NEW j \in Ids', i < j, log'[i].cycle = log'[j].cycle
               PROVE  log'[i].whole
    BY DEF PartialVerdictsAreLast
  <2>1. CASE j \in Ids
    BY <1>1, <1>3, <2>1 DEF Invariant, PartialVerdictsAreLast
  <2>2. CASE j = Len(log) + 1
    <3>1. i \in Rows /\ log'[i] = log[i]
      BY <1>1, <1>3, <1>4, <2>2 DEF Rows
    <3> QED
      BY <3>1 DEF Invariant, Cut
  <2> QED
    BY <1>3, <2>1, <2>2
<1>7. TsvFollowsTable'
  <2>1. (\A k, l \in 1..Len(tsv) : k < l => tsv[k] < tsv[l])'
    BY DEF Invariant, TsvFollowsTable
  <2>2. ASSUME NEW i \in Ids', NEW j \in Ids', i < j, log'[i].cycle = log'[j].cycle
        PROVE  i \in Range(tsv)
    <3>1. CASE j \in Ids
      BY <1>1, <1>3, <2>2, <3>1 DEF Invariant, TsvFollowsTable
    <3>2. CASE j = Len(log) + 1
      <4>1. i \in Rows
        BY <1>1, <1>3, <1>4, <2>2, <3>2 DEF Rows
      <4> QED
        BY <4>1 DEF Invariant, Behind
    <3> QED
      BY <1>3, <2>2, <3>1, <3>2
  <2>3. Range(tsv') = Range(tsv)
    OBVIOUS
  <2> QED
    BY <2>1, <2>2, <2>3 DEF TsvFollowsTable
<1> QED
  BY <1>5, <1>6, <1>7

\* An accepted row becomes the baseline.
LEMMA SaveKeeps ==
  ASSUME Invariant, Save
  PROVE  Invariant'
<1>1. /\ pc = "save" /\ pc' = "tsv" /\ log' = Append(log, exp)
      /\ baseline' = IF exp.accepted THEN exp.score ELSE baseline
      /\ UNCHANGED <<tsv, cycle, cancelled, exp>>
      /\ exp.cycle = cycle
  BY DEF Save, Invariant, InHand
<1>2. /\ Len(log) \in Nat /\ Len(log') = Len(log) + 1
      /\ Ids' = Ids \union {Len(log) + 1}
      /\ \A i \in Ids : log'[i] = log[i] /\ i < Len(log) + 1
      /\ log'[Len(log) + 1] = exp
  BY <1>1, RowWritten DEF Invariant
<1>3. Typed'
  BY <1>1, RowWritten DEF Invariant, Typed
<1>4. /\ cycle \in Nat /\ baseline \in Int /\ exp.score \in Int
      /\ exp.accepted \in BOOLEAN /\ exp.whole \in BOOLEAN
      /\ \A i \in Ids : log[i].score \in Int /\ log[i].cycle \in 0..cycle
  BY Fields DEF Invariant, Shape
<1>5. Shape'
  <2>1. (/\ tsv \in Seq(Nat) /\ cycle \in Nat /\ cancelled \in BOOLEAN /\ baseline \in Int)'
    BY <1>1, <1>4 DEF Invariant, Shape
  <2>2. (\A i \in Ids : log[i].cycle <= cycle)'
    <3> SUFFICES ASSUME NEW i \in Ids' PROVE log'[i].cycle <= cycle
      BY <1>1
    <3>1. CASE i \in Ids
      BY <1>2, <1>4, <3>1
    <3>2. CASE i = Len(log) + 1
      BY <1>1, <1>2, <1>4, <3>2
    <3> QED
      BY <1>2, <3>1, <3>2
  <2> QED
    BY <1>1, <1>3, <2>1, <2>2 DEF Shape
<1>6. Rows' = Rows \union {Len(log) + 1}
  BY <1>1, <1>2 DEF Rows
<1>7. \A i \in Rows : i \in Ids /\ log'[i] = log[i]
  BY <1>2 DEF Rows
<1>8. InHand'
  BY <1>1 DEF InHand
<1>9. Climb'
  <2>1. \A i \in Rows : log[i].accepted => log[i].score <= baseline'
    <3> SUFFICES ASSUME NEW i \in Rows, log[i].accepted
                 PROVE  log[i].score <= baseline'
      OBVIOUS
    <3>1. log[i].score <= baseline /\ log[i].score \in Int
      BY <1>1, <1>4, <1>7 DEF Invariant, Climb
    <3>2. exp.accepted => exp.score > baseline
      BY <1>1 DEF Invariant, Climb
    <3> QED
      BY <1>1, <1>4, <3>1, <3>2
  <2>2. exp.accepted => exp.score <= baseline'
    BY <1>1, <1>4
  <2> QED
    BY <1>1, <1>2, <1>6, <1>7, <2>1, <2>2 DEF Climb
<1>10. Cut'
  <2>1. \A i \in Rows : log[i].whole
    BY <1>1 DEF Invariant, Cut
  <2>2. exp.whole \/ cancelled
    BY <1>1 DEF Invariant, Cut
  <2> QED
    BY <1>1, <1>2, <1>6, <1>7, <2>1, <2>2 DEF Cut
<1>11. Behind'
  <2>1. \A k \in 1..Len(tsv) : tsv[k] \in Ids
    BY DEF Invariant, Behind
  <2>2. \A i \in Rows : i \in Range(tsv)
    BY <1>1 DEF Invariant, Behind
  <2>3. Range(tsv') = Range(tsv) /\ Len(tsv') = Len(tsv)
    BY <1>1
  <2>4. (\A k \in 1..Len(tsv) : tsv[k] \in Ids)'
    BY <1>1, <1>2, <2>1
  <2>5. Len(log') > 0 /\ log'[Len(log')].cycle = cycle' /\ \A k \in 1..Len(tsv') : tsv'[k] < Len(log')
    BY <1>1, <1>2, <2>1
  <2>6. \A i \in Rows' : i \in Range(tsv') \/ i = Len(log')
    BY <1>2, <1>6, <2>2, <2>3
  <2> QED
    BY <1>1, <2>4, <2>5, <2>6 DEF Behind
<1> QED
  BY <1>1, <1>5, <1>8, <1>9, <1>10, <1>11, RowKeeps DEF Invariant

\* The file gets the row it was behind by.
LEMMA AppendTsvKeeps ==
  ASSUME Invariant, AppendTsv
  PROVE  Invariant'
<1>1. /\ pc = "tsv" /\ pc' \in {"head", "learn"} /\ tsv' = Append(tsv, Len(log))
      /\ UNCHANGED <<log, cycle, cancelled, baseline>>
      /\ exp' = exp \/ exp' = NoExperiment
  BY DEF AppendTsv
<1>2. tsv \in Seq(Nat) /\ Len(log) \in Nat
  BY Fields DEF Invariant, Shape
<1>3. /\ tsv' \in Seq(Nat) /\ Len(tsv) \in Nat /\ Len(tsv') = Len(tsv) + 1
      /\ \A k \in 1..Len(tsv) : tsv'[k] = tsv[k]
      /\ tsv'[Len(tsv) + 1] = Len(log)
  <2> DEFINE n == Len(log)
  <2>1. tsv \in Seq(Nat) /\ n \in Nat /\ tsv' = Append(tsv, n)
    BY <1>1, <1>2
  <2> HIDE DEF n
  <2>2. /\ Append(tsv, n) \in Seq(Nat) /\ Len(tsv) \in Nat /\ Len(Append(tsv, n)) = Len(tsv) + 1
        /\ \A k \in 1..Len(tsv) : Append(tsv, n)[k] = tsv[k]
        /\ Append(tsv, n)[Len(tsv) + 1] = n
    BY <2>1, AppendFacts
  <2> QED
    BY <2>1, <2>2 DEF n
<1>4. DOMAIN tsv = 1..Len(tsv) /\ DOMAIN tsv' = 1..(Len(tsv) + 1)
  BY <1>2, <1>3
<1>5. Range(tsv') = Range(tsv) \union {Len(log)}
  BY <1>3, <1>4 DEF Range
<1>6. /\ Len(log) > 0
      /\ \A k \in 1..Len(tsv) : tsv[k] < Len(log) /\ tsv[k] \in Ids
      /\ \A i \in Rows : i \in Range(tsv')
  BY <1>1, <1>5 DEF Invariant, Behind
<1>7. Shape'
  <2>1. PICK D : exp \in Experiments(D) /\ log \in Seq(Experiments(D))
    BY DEF Invariant, Shape, Typed
  <2>2. NoExperiment \in Experiments(D \union {{}})
    BY DEF NoExperiment, Experiments
  <2>3. exp' \in Experiments(D \union {{}}) /\ log' \in Seq(Experiments(D \union {{}}))
    BY <1>1, <2>1, <2>2, MoreDetails
  <2>4. Typed'
    BY <2>3 DEF Typed
  <2>5. (/\ cycle \in Nat /\ cancelled \in BOOLEAN /\ baseline \in Int)'
    BY <1>1 DEF Invariant, Shape
  <2>6. (\A i \in Ids : log[i].cycle <= cycle)'
    BY <1>1 DEF Invariant, Shape, Ids
  <2> QED
    BY <1>1, <1>3, <2>4, <2>5, <2>6 DEF Shape
<1>8. (InHand /\ Climb)'
  BY <1>1 DEF Invariant, InHand, Climb, Rows, Ids
<1>9. Cut'
  BY <1>1 DEF Invariant, Cut, Rows, Ids
<1>10. Behind'
  <2>1. (\A k \in 1..Len(tsv) : tsv[k] \in Ids)'
    <3>1. Ids' = Ids /\ Len(log) \in Ids
      BY <1>1, <1>2, <1>6 DEF Ids
    <3> QED
      BY <1>3, <1>6, <3>1
  <2>2. Rows' = Rows
    BY <1>1 DEF Rows, Ids
  <2> QED
    BY <1>1, <1>6, <2>1, <2>2 DEF Behind
<1>11. (AcceptsClimb /\ PartialVerdictsAreLast)'
  BY <1>1 DEF Invariant, AcceptsClimb, PartialVerdictsAreLast, AcceptedIds, Ids
<1>12. TsvFollowsTable'
  <2>1. (\A k, l \in 1..Len(tsv) : k < l => tsv[k] < tsv[l])'
    <3> SUFFICES ASSUME NEW k \in 1..(Len(tsv) + 1), NEW l \in 1..(Len(tsv) + 1), k < l
                 PROVE  tsv'[k] < tsv'[l]
      BY <1>3
    <3>1. k \in 1..Len(tsv) /\ tsv'[k] = tsv[k]
      BY <1>3
    <3>2. CASE l \in 1..Len(tsv)
      BY <1>3, <3>1, <3>2 DEF Invariant, TsvFollowsTable
    <3>3. CASE l = Len(tsv) + 1
      BY <1>3, <1>6, <3>1, <3>3
    <3> QED
      BY <1>3, <3>2, <3>3
  <2>2. (\A i, j \in Ids : i < j /\ log[i].cycle = log[j].cycle => i \in Range(tsv))'
    BY <1>1, <1>5 DEF Invariant, TsvFollowsTable, Ids
  <2> QED
    BY <2>1, <2>2 DEF TsvFollowsTable
<1> QED
  BY <1>7, <1>8, <1>9, <1>10, <1>11, <1>12 DEF Invariant

\* What is learnt is for the next proposals.
LEMMA LearnKeeps ==
  ASSUME Invariant, Learn
  PROVE  Invariant'
<1>1. /\ pc = "learn" /\ pc' = "head" /\ exp' = NoExperiment
      /\ UNCHANGED <<log, tsv, cycle, cancelled, baseline>>
  BY DEF Learn, persistent
<1>2. Shape'
  <2>1. PICK D : exp \in Experiments(D) /\ log \in Seq(Experiments(D))
    BY DEF Invariant, Shape, Typed
  <2>2. NoExperiment \in Experiments(D \union {{}})
    BY DEF NoExperiment, Experiments
  <2>3. exp' \in Experiments(D \union {{}}) /\ log' \in Seq(Experiments(D \union {{}}))
    BY <1>1, <2>1, <2>2, MoreDetails
  <2>4. Typed'
    BY <2>3 DEF Typed
  <2>5. (/\ tsv \in Seq(Nat) /\ cycle \in Nat /\ cancelled \in BOOLEAN /\ baseline \in Int)'
    BY <1>1 DEF Invariant, Shape
  <2>6. (\A i \in Ids : log[i].cycle <= cycle)'
    BY <1>1 DEF Invariant, Shape, Ids
  <2> QED
    BY <1>1, <2>4, <2>5, <2>6 DEF Shape
<1>3. (InHand /\ Climb /\ Cut /\ Behind)'
  BY <1>1 DEF Invariant, InHand, Climb, Cut, Behind, Ids, Rows
<1> QED
  BY <1>1, <1>2, <1>3, LogsKept DEF Invariant

\* A database error, which may come after the row was written.
LEMMA FailKeeps ==
  ASSUME Invariant, Fail
  PROVE  Invariant'
<1>1. Forget /\ UNCHANGED <<tsv, cycle>>
  BY DEF Fail
<1>2. CASE UNCHANGED log
  BY <1>1, <1>2, Leaves
<1>3. CASE pc = "save" /\ log' = Append(log, exp)
  <2>1. /\ Len(log) \in Nat
        /\ Ids' = Ids \union {Len(log) + 1}
        /\ \A i \in Ids : log'[i] = log[i] /\ i < Len(log) + 1
        /\ log'[Len(log) + 1] = exp
    BY <1>3, RowWritten DEF Invariant
  <2>2. /\ cycle \in Nat /\ exp.cycle = cycle
        /\ \A i \in Ids : log[i].cycle \in 0..cycle
    BY <1>3, Fields DEF Invariant, Shape, InHand
  <2>3. Typed'
    <3>1. PICK D : exp \in Experiments(D) /\ log' \in Seq(Experiments(D))
      BY <1>3, RowWritten DEF Invariant
    <3>2. NoExperiment \in Experiments(D \union {{}})
      BY DEF NoExperiment, Experiments
    <3>3. exp' \in Experiments(D \union {{}}) /\ log' \in Seq(Experiments(D \union {{}}))
      BY <1>1, <3>1, <3>2, MoreDetails DEF Forget
    <3> QED
      BY <3>3 DEF Typed
  <2>4. (\A i \in Ids : log[i].cycle <= cycle)'
    <3> SUFFICES ASSUME NEW i \in Ids' PROVE log'[i].cycle <= cycle
      BY <1>1
    <3>1. CASE i \in Ids
      BY <2>1, <2>2, <3>1
    <3>2. CASE i = Len(log) + 1
      BY <2>1, <2>2, <3>2
    <3> QED
      BY <2>1, <3>1, <3>2
  <2>5. Shape'
    <3>1. (tsv \in Seq(Nat))' /\ (cycle \in Nat)'
      BY <1>1 DEF Invariant, Shape
    <3>2. (cancelled \in BOOLEAN /\ pc = "idle")'
      BY <1>1 DEF Forget
    <3>3. (baseline \in Int)'
      BY <1>1 DEF Forget
    <3> QED
      BY <2>3, <2>4, <3>1, <3>2, <3>3 DEF Shape
  <2>6. (InHand /\ Climb /\ Cut)'
    BY <1>1 DEF InHand, Climb, Cut, Forget
  <2>7. Behind'
    BY <1>1, <2>1 DEF Invariant, Behind, Forget
  <2> QED
    BY <1>1, <1>3, <2>5, <2>6, <2>7, RowKeeps DEF Invariant
<1> QED
  BY <1>2, <1>3 DEF Fail

\* Ctrl-C only sets the token.
LEMMA CtrlCKeeps ==
  ASSUME Invariant, CtrlC
  PROVE  Invariant'
<1>1. /\ cancelled' = TRUE
      /\ UNCHANGED <<log, tsv, cycle, pc, baseline, exp>>
  BY DEF CtrlC, persistent
<1>2. Shape'
  BY <1>1 DEF Invariant, Shape, Typed, Ids
<1>3. (InHand /\ Climb /\ Cut /\ Behind)'
  BY <1>1 DEF Invariant, InHand, Climb, Cut, Behind, Ids, Rows, CtrlC
<1> QED
  BY <1>1, <1>2, <1>3, LogsKept DEF Invariant

-----------------------------------------------------------------------------
(***************************************************************************)
(* The theorems                                                             *)
(***************************************************************************)

\* The table is empty at first.
LEMMA Initially ==
  ASSUME Init
  PROVE  Invariant
<1> USE DEF Init, Idle
<1>1. Shape
  <2>1. NoExperiment \in Experiments({{}})
    BY DEF NoExperiment, Experiments
  <2>2. Typed
    BY <2>1 DEF Typed
  <2>3. Ids = {} /\ tsv \in Seq(Nat) /\ cycle \in Nat
    BY DEF Ids
  <2>4. cancelled \in BOOLEAN /\ pc = "idle"
    OBVIOUS
  <2>5. baseline \in Int
    OBVIOUS
  <2> QED
    BY <2>2, <2>3, <2>4, <2>5 DEF Shape
<1>2. InHand /\ Climb /\ Cut /\ Behind
  BY DEF InHand, Climb, Cut, Behind
<1>3. AcceptsClimb /\ PartialVerdictsAreLast /\ TsvFollowsTable
  BY DEF AcceptsClimb, PartialVerdictsAreLast, TsvFollowsTable, AcceptedIds, Ids
<1> QED
  BY <1>1, <1>2, <1>3 DEF Invariant

\* Every step keeps the invariant.
LEMMA StepKeeps ==
  ASSUME Invariant, [Next]_vars
  PROVE  Invariant'
<1>1. CASE Start
  BY <1>1, StartKeeps
<1>2. CASE MeasureBaseline
  BY <1>2, MeasureBaselineKeeps
<1>3. CASE Propose
  BY <1>3, ProposeKeeps
<1>4. CASE Screen
  BY <1>4, ScreenKeeps
<1>5. CASE Measure
  BY <1>5, MeasureKeeps
<1>6. CASE Judge
  BY <1>6, JudgeKeeps
<1>7. CASE Save
  BY <1>7, SaveKeeps
<1>8. CASE AppendTsv
  BY <1>8, AppendTsvKeeps
<1>9. CASE Learn
  BY <1>9, LearnKeeps
<1>10. CASE End \/ Crash
  BY <1>10, Leaves DEF End, Crash, persistent
<1>11. CASE Fail
  BY <1>11, FailKeeps
<1>12. CASE CtrlC
  BY <1>12, CtrlCKeeps
<1>13. CASE UNCHANGED vars
  <2>1. UNCHANGED <<log, tsv, cycle, pc, cancelled, baseline, exp>>
    BY <1>13 DEF vars, persistent
  <2>2. Shape'
    BY <2>1 DEF Invariant, Shape, Typed, Ids
  <2>3. (InHand /\ Climb /\ Cut /\ Behind)'
    BY <2>1 DEF Invariant, InHand, Climb, Cut, Behind, Ids, Rows
  <2> QED
    BY <2>1, <2>2, <2>3, LogsKept DEF Invariant
<1> QED
  BY <1>1, <1>2, <1>3, <1>4, <1>5, <1>6, <1>7, <1>8, <1>9, <1>10, <1>11, <1>12, <1>13
  DEF Next, Step

\* The invariant holds throughout.
LEMMA Always == Spec => []Invariant
<1>1. Init => Invariant
  BY Initially
<1>2. Invariant /\ [Next]_vars => Invariant'
  BY StepKeeps
<1> QED
  BY <1>1, <1>2, PTL DEF Spec

\* Whatever is proposed and however it scores, each acceptance of a cycle scores higher than
\* those before it (steps (d) and (e) of run_experiment_loop).
THEOREM AcceptedClimb == Spec => []AcceptsClimb
<1>1. Invariant => AcceptsClimb
  BY DEF Invariant
<1> QED
  BY <1>1, Always, PTL

\* Whenever Ctrl-C comes, a verdict on a measurement it cut short is the last of its cycle.
THEOREM PartialLast == Spec => []PartialVerdictsAreLast
<1>1. Invariant => PartialVerdictsAreLast
  BY DEF Invariant
<1> QED
  BY <1>1, Always, PTL

\* However cycles end, the TSV file has the rows of the table in their order, but for the last
\* row of a cycle that did not end well.
THEOREM TsvFollows == Spec => []TsvFollowsTable
<1>1. Invariant => TsvFollowsTable
  BY DEF Invariant
<1> QED
  BY <1>1, Always, PTL

-----------------------------------------------------------------------------
(***************************************************************************)
(* What was rejected is not proposed again                                 *)
(***************************************************************************)

\* The text of a compound ("meta compound: [...] + [...]").
IsCompound(detail) == \E a, b, x, y : detail = <<a, b, x, y>>

\* No rule, parameter change or insight reads like one: their texts are the fixed ones of
\* default_prompt_rules and param_mutations, and "insight: ...".
PlainTexts ==
    /\ \A detail \in Range(Rules) \union Range(Params) : ~IsCompound(detail)
    /\ \A report \in Reports : \A detail \in Range(report) : ~IsCompound(detail)

Plain(s) == \E D : s \in Seq(D) /\ \A detail \in D : ~IsCompound(detail)

\* The ring of slots: plain texts, and no fewer than the default rules.
Ring ==
    /\ Plain(rules)
    /\ Len(rules) >= 1
    /\ count \in Nat
    /\ wraps \in Nat

Settled(detail) == detail \in tried \/ IsCompound(detail)

\* What was loaded is marked as tried, and so is what the cycle rejects, before it is in the table.
Remembered ==
    /\ pc # "idle" =>
          /\ loaded \subseteq tried
          /\ \A i \in Ids : ~log[i].accepted /\ log[i].cycle = cycle => Settled(log[i].detail)
    /\ pc \in {"screen", "measure", "judge", "save"} => Settled(exp.detail)

\* A set of numbers has a least one.
LEMMA LeastNumber ==
    ASSUME NEW T \in SUBSET Nat, T # {}
    PROVE  \E n \in T : \A m \in T : n <= m
  <1> DEFINE R == OpToRel(<, Nat)
  <1>1. IsWellFoundedOn(R, Nat)
    BY NatLessThanWellFounded
  <1>2. \E x \in T : \A y \in T : ~(<<y, x>> \in R)
    <2> HIDE DEF R
    <2> QED  BY <1>1, WFMin
  <1>3. PICK x \in T : \A y \in T : ~(<<y, x>> \in R)
    BY <1>2
  <1>4. \A y \in T : ~(y < x)
    BY <1>3 DEF OpToRel
  <1> QED  BY <1>4


\* The loop over the slots, from any count on, meets every one of them.
LEMMA RingIsCovered ==
  ASSUME NEW L \in Nat \ {0}, NEW c \in Nat, NEW j \in 1..L
  PROVE  \E k \in 0..(L - 1) : ((c + k) % L) + 1 = j
<1> DEFINE q == c \div L
           r == c % L
           Mod(n) == n % L
<1>1. q \in Nat
  OBVIOUS
<1>2. r \in 0..L - 1
  OBVIOUS
<1>3. c = L * q + r
  OBVIOUS
<1>4. ASSUME NEW p \in Nat, NEW i \in 0..L - 1 PROVE (L * p + i) % L = i
  OBVIOUS
<1> HIDE DEF q, r
<1>5. CASE j - 1 >= r
  <2> DEFINE k == (j - 1) - r
  <2>1. k \in 0..L - 1
    BY <1>2, <1>5
  <2>2. c + k = L * q + (j - 1)
    <3>1. L * q \in Int
      BY <1>1
    <3> QED
      BY <3>1, <1>2, <1>3
  <2>3. j - 1 \in 0..L - 1
    OBVIOUS
  <2>4. (L * q + (j - 1)) % L = j - 1
    BY <1>1, <1>4, <2>3
  <2> QED
    BY <2>1, <2>2, <2>4
<1>6. CASE ~(j - 1 >= r)
  <2> DEFINE k == (j - 1) - r + L
  <2>1. k \in 0..L - 1
    BY <1>2, <1>6
  <2>2. c + k = L * (q + 1) + (j - 1)
    <3>1. L * q \in Int /\ L * (q + 1) = L * q + L
      BY <1>1
    <3> QED
      BY <3>1, <1>2, <1>3
  <2>3. j - 1 \in 0..L - 1 /\ q + 1 \in Nat
    BY <1>1
  <2>4. (L * (q + 1) + (j - 1)) % L = j - 1
    BY <1>4, <2>3
  <2> HIDE DEF k
  <2>5. (c + k) % L = j - 1
    BY <2>2, <2>4
  <2>6. ((c + k) % L) + 1 = j
    BY <2>5
  <2> QED
    BY <2>1, <2>6
<1> QED
  BY <1>5, <1>6

LEMMA RingFacts ==
  ASSUME Ring, PlainTexts
  PROVE  /\ Len(rules) \in Nat \ {0} /\ Len(Slots) \in Nat \ {0}
         /\ \A k \in 0..(Len(Slots) - 1) : SlotAt(k) \in 1..Len(Slots)
         /\ \A j \in 1..Len(Slots) : \E k \in 0..(Len(Slots) - 1) : SlotAt(k) = j
         /\ \A j \in 1..Len(Slots) : ~IsCompound(Slots[j])
         /\ Range(Slots) = {Slots[j] : j \in 1..Len(Slots)}
         /\ \A j \in 1..Len(rules) : rules[j] \in Range(Slots)
<1>1. PICK D : rules \in Seq(D) /\ \A detail \in D : ~IsCompound(detail)
  BY DEF Ring, Plain
<1> DEFINE E == D \union Range(Params)
<1>2. rules \in Seq(E) /\ Params \in Seq(E)
  BY <1>1, LabAssumption, SeqMonotonic
<1>3. \A detail \in E : ~IsCompound(detail)
  BY <1>1 DEF PlainTexts
<1> HIDE DEF E
<1>4. /\ Slots \in Seq(E) /\ Len(Slots) = Len(rules) + Len(Params)
      /\ \A i \in 1..Len(rules) + Len(Params) :
             Slots[i] = IF i <= Len(rules) THEN rules[i] ELSE Params[i - Len(rules)]
  BY <1>2, ConcatProperties DEF Slots
<1>5. Len(rules) \in Nat \ {0} /\ Len(Params) \in Nat
  BY <1>2, LenProperties DEF Ring
<1> DEFINE L == Len(Slots)
<1>6. L \in Nat \ {0} /\ Len(rules) <= L
  BY <1>4, <1>5
<1>7. \A j \in 1..L : Slots[j] \in E
  BY <1>4, ElementOfSeq
<1>8. Range(Slots) = {Slots[j] : j \in 1..L}
  BY <1>4, LenProperties DEF Range
<1>9. \A j \in 1..Len(rules) : rules[j] \in Range(Slots)
  <2> SUFFICES ASSUME NEW j \in 1..Len(rules) PROVE rules[j] \in Range(Slots)
    OBVIOUS
  <2>1. j \in 1..L /\ Slots[j] = rules[j]
    BY <1>4, <1>5, <1>6
  <2> QED
    BY <2>1, <1>8
<1>10. \A k \in 0..L - 1 : SlotAt(k) \in 1..L
  <2> SUFFICES ASSUME NEW k \in 0..L - 1 PROVE SlotAt(k) \in 1..L
    OBVIOUS
  <2> DEFINE n == count + k
  <2>1. n \in Nat
    BY DEF Ring
  <2> HIDE DEF n, L
  <2>2. n % L \in 0..L - 1
    BY <1>6, <2>1
  <2>3. SlotAt(k) = (n % L) + 1
    BY DEF SlotAt, n, L
  <2> QED
    BY <2>2, <2>3, <1>6
<1>11. \A j \in 1..L : \E k \in 0..L - 1 : SlotAt(k) = j
  <2> SUFFICES ASSUME NEW j \in 1..L PROVE \E k \in 0..L - 1 : SlotAt(k) = j
    OBVIOUS
  <2> HIDE DEF L
  <2>1. \E k \in 0..L - 1 : ((count + k) % L) + 1 = j
    BY <1>6, RingIsCovered DEF Ring
  <2> QED
    BY <2>1 DEF SlotAt, L
<1> QED
  BY <1>3, <1>5, <1>6, <1>7, <1>8, <1>9, <1>10, <1>11

\* The slot that next_mutation takes is an untried one.
LEMMA FirstUntried ==
  ASSUME Untried # {}
  PROVE  Min(Untried) \in Untried
<1>1. Untried \in SUBSET Nat
  BY DEF Untried
<1>2. PICK n \in Untried : \A m \in Untried : n <= m
  BY <1>1, LeastNumber
<1> QED
  BY <1>2 DEF Min

\* When there is none, every slot has been tried.
LEMMA AllTried ==
  ASSUME Ring, PlainTexts, Untried = {}
  PROVE  Range(Slots) \subseteq tried
<1>0. Range(Slots) = {Slots[j] : j \in 1..Len(Slots)}
  BY RingFacts
<1> SUFFICES ASSUME NEW j \in 1..Len(Slots) PROVE Slots[j] \in tried
  BY <1>0
<1>1. PICK k \in 0..(Len(Slots) - 1) : SlotAt(k) = j
  BY RingFacts
<1> QED
  BY <1>1 DEF Untried

\* What is proposed is marked as tried, or it is a compound; a slot is only proposed again when
\* all have been tried.
LEMMA Proposed ==
  ASSUME Ring, PlainTexts, Propose
  PROVE  /\ Settled(exp.detail)'
         /\ tried \subseteq tried'
         /\ exp'.kind # "meta" =>
                \/ exp'.detail \notin tried /\ ~IsCompound(exp'.detail)
                \/ Range(Slots) \subseteq tried
<1>1. CASE exp' = Proposal(Compound, "meta") /\ tried' = tried
  <2>1. exp'.kind = "meta" /\ exp'.detail = Compound
    BY <1>1 DEF Proposal, NoExperiment
  <2>2. IsCompound(Compound)
    BY DEF Compound, IsCompound
  <2> QED
    BY <1>1, <2>1, <2>2 DEF Settled
<1>2. CASE /\ Untried # {}
           /\ LET slot == SlotAt(Min(Untried))
              IN  /\ exp' = Proposal(Slots[slot], KindOf(slot))
                  /\ tried' = tried \union {Slots[slot]}
  <2> DEFINE slot == SlotAt(Min(Untried))
  <2>1. exp'.detail = Slots[slot]
    BY <1>2 DEF Proposal, NoExperiment
  <2>2. Slots[slot] \notin tried /\ slot \in 1..Len(Slots)
    BY <1>2, FirstUntried, RingFacts DEF Untried
  <2>3. ~IsCompound(Slots[slot])
    BY <2>2, RingFacts
  <2>4. tried' = tried \union {Slots[slot]}
    BY <1>2
  <2> HIDE DEF slot
  <2> QED
    BY <2>1, <2>2, <2>3, <2>4 DEF Settled
<1>3. CASE Untried = {} /\ exp' = Proposal(rules[(wraps % Len(rules)) + 1], "rule") /\ tried' = tried
  <2>1. exp'.detail = rules[(wraps % Len(rules)) + 1]
    BY <1>3 DEF Proposal, NoExperiment
  <2>2. (wraps % Len(rules)) + 1 \in 1..Len(rules)
    <3> DEFINE L == Len(rules)
    <3>1. L \in Nat \ {0} /\ wraps \in Nat
      BY RingFacts DEF Ring
    <3> HIDE DEF L
    <3>2. wraps % L \in 0..L - 1
      BY <3>1
    <3> QED
      BY <3>1, <3>2 DEF L
  <2>3. Range(Slots) \subseteq tried
    BY <1>3, AllTried
  <2>4. exp'.detail \in tried
    BY <2>1, <2>2, <2>3, RingFacts
  <2> QED
    BY <1>3, <2>3, <2>4 DEF Settled
<1> QED
  BY <1>1, <1>2, <1>3 DEF Propose

\* What is learnt goes to the end of the rules.
LEMMA LearnKeepsRing ==
  ASSUME Shape, Ring, PlainTexts, Learn
  PROVE  Ring'
<1>1. PICK early \in Reports \union {<<>>}, late \in Reports \union {<<>>} :
          \/ rules' = rules \o WorstInsights \o early \o late
          \/ rules' = rules \o <<>> \o early \o late
  BY DEF Learn
<1>2. PICK D : rules \in Seq(D) /\ \A detail \in D : ~IsCompound(detail)
  BY DEF Ring, Plain
<1> DEFINE Counters == {CounterTo(SetToSortSeq(Failed, Worse)[k]) : k \in Nat}
           E == D \union Counters \union Range(early) \union Range(late)
<1>3. \A d \in Counters : ~IsCompound(d)
  <2>1. ASSUME NEW i PROVE ~IsCompound(CounterTo(i))
    <3> DEFINE u == log[i].detail
               v == log[i].delta
    <3>1. CounterTo(i) = <<u, v>>
      BY DEF CounterTo
    <3> HIDE DEF u, v
    <3>2. ASSUME NEW a, NEW b, NEW x, NEW y, <<u, v>> = <<a, b, x, y>> PROVE FALSE
      <4>1. Len(<<u, v>>) = 2 /\ Len(<<a, b, x, y>>) = 4
        OBVIOUS
      <4> QED
        BY <3>2, <4>1
    <3> QED
      BY <3>1, <3>2 DEF IsCompound
  <2> HIDE DEF Counters
  <2> QED
    BY <2>1 DEF Counters
<1>4. \A d \in Range(early) \union Range(late) : ~IsCompound(d)
  BY DEF PlainTexts, Range
<1>5. \A d \in E : ~IsCompound(d)
  BY <1>2, <1>3, <1>4
<1>6. rules \in Seq(E) /\ <<>> \in Seq(E)
  BY <1>2, SeqMonotonic, EmptySeq
<1>7. early \in Seq(E) /\ late \in Seq(E)
  <2>1. early \in Seq(Range(early)) /\ late \in Seq(Range(late))
    BY LabAssumption, EmptySeq
  <2> QED
    BY <2>1, SeqMonotonic
<1>8. WorstInsights \in Seq(E)
  <2> DEFINE n == Min({3, Cardinality(Failed)})
             worst == SetToSortSeq(Failed, Worse)
  <2>1. n \in Nat
    <3>1. Ids \in SUBSET (1..Len(log)) /\ IsFiniteSet(1..Len(log))
      BY Fields, FS_Interval DEF Ids
    <3>2. IsFiniteSet(Failed)
      BY <3>1, FS_Subset DEF Failed
    <3>3. Cardinality(Failed) \in Nat
      BY <3>2, FS_CardinalityType
    <3>4. ASSUME NEW m \in Nat PROVE Min({3, m}) \in Nat
      <4>1. \E x \in {3, m} : \A y \in {3, m} : x <= y
        OBVIOUS
      <4>2. Min({3, m}) \in {3, m}
        BY <4>1, Zenon DEF Min
      <4> QED
        BY <4>2
    <3> QED
      BY <3>3, <3>4
  <2>2. WorstInsights = [k \in 1..n |-> CounterTo(worst[k])]
    BY DEF WorstInsights
  <2> HIDE DEF n
  <2>3. \A k \in 1..n : CounterTo(worst[k]) \in Counters
    BY <2>1
  <2>4. WorstInsights \in [1..n -> E]
    BY <2>2, <2>3
  <2> QED
    BY <2>1, <2>4
<1> HIDE DEF E
<1>9. rules' \in Seq(E) /\ Len(rules') >= Len(rules)
  <2>1. ASSUME NEW w \in Seq(E), rules' = rules \o w \o early \o late
        PROVE  rules' \in Seq(E) /\ Len(rules') >= Len(rules)
    <3> DEFINE a == rules \o w
               b == a \o early
    <3>1. a \in Seq(E) /\ Len(a) = Len(rules) + Len(w)
      BY <1>6, ConcatProperties
    <3> HIDE DEF a
    <3>2. b \in Seq(E) /\ Len(b) = Len(a) + Len(early)
      BY <1>7, <3>1, ConcatProperties
    <3> HIDE DEF b
    <3>3. b \o late \in Seq(E) /\ Len(b \o late) = Len(b) + Len(late)
      BY <1>7, <3>2, ConcatProperties
    <3>4. Len(rules) \in Nat /\ Len(w) \in Nat /\ Len(early) \in Nat /\ Len(late) \in Nat
      BY <1>6, <1>7, LenProperties
    <3>5. rules' = b \o late
      BY <2>1 DEF a, b
    <3> QED
      BY <3>1, <3>2, <3>3, <3>4, <3>5
  <2> QED
    BY <1>1, <1>6, <1>8, <2>1
<1>10. Plain(rules')
  BY <1>5, <1>9 DEF Plain
<1>11. Len(rules) \in Nat /\ Len(rules') \in Nat /\ Len(rules) >= 1
  BY <1>6, <1>9, LenProperties DEF Ring
<1>12. count' = count /\ wraps' = wraps
  BY DEF Learn
<1> QED
  BY <1>9, <1>10, <1>11, <1>12 DEF Ring

\* The rules of a new process.
LEMMA DefaultRules ==
  ASSUME PlainTexts
  PROVE  Plain(Rules) /\ Len(Rules) >= 1
<1>1. Rules \in Seq(Range(Rules)) /\ Len(Rules) \in Nat
  BY LabAssumption, LenProperties
<1> QED
  BY <1>1, LabAssumption DEF Plain, PlainTexts

LEMMA RingKept ==
  ASSUME Shape, Ring, PlainTexts, [Next]_vars
  PROVE  Ring'
<1>1. CASE Learn
  BY <1>1, LearnKeepsRing
<1>2. CASE Forget
  BY <1>2, DefaultRules DEF Forget, Ring
<1>3. CASE Propose
  <2>1. rules' = rules /\ count' = count /\ wraps' \in {wraps, wraps + 1}
    BY <1>3 DEF Propose
  <2> QED
    BY <2>1 DEF Ring
<1>4. CASE AppendTsv
  <2>1. rules' = rules /\ count' = count + 1 /\ wraps' = wraps
    BY <1>4 DEF AppendTsv, generator
  <2> QED
    BY <2>1 DEF Ring
<1>5. CASE Start \/ MeasureBaseline \/ Screen \/ Measure \/ Judge \/ Save \/ CtrlC \/ UNCHANGED vars
  <2>1. rules' = rules /\ count' = count /\ wraps' = wraps
    BY <1>5 DEF Start, MeasureBaseline, Screen, Measure, Judge, Save, CtrlC, vars, generator
  <2> QED
    BY <2>1 DEF Ring
<1> QED
  BY <1>1, <1>2, <1>3, <1>4, <1>5 DEF Next, Step, End, Fail, Crash

\* A rejection is in the table only after its text was marked, and a new process, whose cycle has
\* no row yet, marks what it has loaded.
LEMMA RememberedKept ==
  ASSUME Shape, Ring, Remembered, PlainTexts, [Next]_vars
  PROVE  Remembered'
<1>1. CASE Forget
  BY <1>1 DEF Forget, Remembered
<1>2. CASE Start
  <2>1. /\ log' = log /\ pc' = "baseline" /\ tried' = loaded' /\ cycle' = cycle + 1
    BY <1>2 DEF Start
  <2>2. \A i \in Ids : log[i].cycle # cycle'
    BY <2>1, Fields DEF Shape
  <2> QED
    BY <2>1, <2>2 DEF Remembered, Ids
<1>3. CASE Propose
  <2>1. UNCHANGED <<log, cycle, loaded>> /\ pc = "head" /\ pc' = "screen"
    BY <1>3 DEF Propose, persistent
  <2>2. Settled(exp.detail)' /\ tried \subseteq tried'
    BY <1>3, Proposed
  <2> QED
    BY <2>1, <2>2 DEF Remembered, Settled, Ids
<1>4. CASE Screen \/ Measure \/ Judge
  <2>1. UNCHANGED <<log, cycle, tried, loaded>> /\ pc \in {"screen", "measure", "judge"}
    BY <1>4 DEF Screen, Measure, Judge, persistent, generator
  <2>2. exp'.detail = exp.detail
    <3>1. PICK D : exp \in Experiments(D)
      BY DEF Shape, Typed
    <3> QED
      BY <1>4, <3>1 DEF Screen, Measure, Judge, Experiments
  <2> QED
    BY <2>1, <2>2 DEF Remembered, Settled, Ids
<1>5. CASE Save
  <2>1. /\ log' = Append(log, exp) /\ UNCHANGED <<cycle, tried, loaded>>
        /\ pc = "save" /\ pc' = "tsv"
    BY <1>5 DEF Save
  <2>2. /\ Ids' = Ids \union {Len(log) + 1} /\ log'[Len(log) + 1] = exp
        /\ \A i \in Ids : log'[i] = log[i]
    BY <2>1, RowWritten
  <2> QED
    BY <2>1, <2>2 DEF Remembered, Settled
<1>6. CASE MeasureBaseline \/ AppendTsv \/ Learn
  <2>1. /\ UNCHANGED <<log, cycle, tried, loaded>> /\ pc # "idle"
        /\ pc' \notin {"screen", "measure", "judge", "save"}
    BY <1>6 DEF MeasureBaseline, AppendTsv, Learn, persistent, generator
  <2> QED
    BY <2>1 DEF Remembered, Settled, Ids
<1>7. CASE CtrlC \/ UNCHANGED vars
  <2>1. UNCHANGED <<log, cycle, tried, loaded, pc, exp>>
    BY <1>7 DEF CtrlC, vars, persistent, generator
  <2> QED
    BY <2>1 DEF Remembered, Settled, Ids
<1> QED
  BY <1>1, <1>2, <1>3, <1>4, <1>5, <1>6, <1>7 DEF Next, Step, End, Fail, Crash

\* What this cycle has rejected, and what it could read of the rejections of earlier ones, however
\* those ended, is proposed again only when every rule and parameter has been tried: the compounds,
\* whose texts no rule has, are apart (load_tried_details, next_mutation).
THEOREM RejectedOnceOnly ==
  ASSUME PlainTexts
  PROVE  Spec => RejectedOnce
<1> DEFINE Known == Ring /\ Remembered
<1>1. Init => Known
  <2> SUFFICES ASSUME Init PROVE Known
    OBVIOUS
  <2>1. Ring
    BY DefaultRules DEF Init, Idle, Ring
  <2>2. Remembered
    BY DEF Init, Idle, Remembered
  <2> QED
    BY <2>1, <2>2
<1>2. Known /\ Invariant /\ [Next]_vars => Known'
  BY RingKept, RememberedKept DEF Invariant
<1>3. Known /\ Invariant /\ [Next]_vars =>
          [ /\ pc = "head" /\ pc' = "screen" /\ exp'.kind # "meta"
            /\ exp'.detail \in KnownRejected
            => Range(Slots) \subseteq tried ]_vars
  <2> SUFFICES ASSUME Known, [Next]_vars, pc = "head", pc' = "screen", exp'.kind # "meta",
                      exp'.detail \in KnownRejected
               PROVE  Range(Slots) \subseteq tried
    OBVIOUS
  <2>1. Propose
    BY DEF Next, Step, Start, MeasureBaseline, Screen, Measure, Judge, Save, AppendTsv, Learn,
           End, Fail, Crash, CtrlC, Forget, vars
  <2>2. exp'.detail \in tried \/ IsCompound(exp'.detail)
    BY DEF Remembered, KnownRejected, Settled
  <2> QED
    BY <2>1, <2>2, Proposed
<1> QED
  BY <1>1, <1>2, <1>3, Always, PTL DEF Spec, RejectedOnce

-----------------------------------------------------------------------------
(***************************************************************************)
(* Termination, but for the fairness.                                      *)
(***************************************************************************)

Places == {"idle", "baseline", "head", "screen", "measure", "judge", "save", "tsv", "learn"}

\* The steps that lead to the next head of the loop, or to the one after the next.
Ahead ==
    [idle |-> 0, baseline |-> 8, head |-> 7, screen |-> 6, measure |-> 5, judge |-> 4,
     save |-> 3, tsv |-> 2, learn |-> 8]

\* What a cycle has left: its experiments, and a Ctrl-C.
CycleLeft ==
    IF pc = "idle" THEN 0
    ELSE 7 * (MaxExperiments - count) + Ahead[pc] + (IF cancelled THEN 0 ELSE 1)

\* Every step of a cycle uses something up.
CycleIsUsedUp == [][pc # "idle" => CycleLeft' < CycleLeft]_vars

\* An experiment is under way only while there is one left.
Counted ==
    /\ pc \in Places
    /\ cancelled \in BOOLEAN
    /\ count \in 0 .. MaxExperiments
    /\ pc \in {"screen", "measure", "judge", "save", "tsv"} => count < MaxExperiments
    /\ pc = "idle" => count = 0

LEMMA ExperimentsType == MaxExperiments \in Nat
  BY LabAssumption

LEMMA CycleLeftType == ASSUME Counted PROVE CycleLeft \in 0 .. 7 * MaxExperiments + 9
<1>1. Ahead[pc] \in 0 .. 8 /\ MaxExperiments \in Nat /\ count \in Nat /\ MaxExperiments - count \in Nat
  BY ExperimentsType DEF Counted, Places, Ahead
<1> QED
  BY <1>1 DEF CycleLeft

LEMMA ForgetEnds ==
  ASSUME Counted, pc # "idle", Forget
  PROVE  Counted' /\ CycleLeft' < CycleLeft
<1>1. Counted'
  <2>1. pc' = "idle" /\ cancelled' \in BOOLEAN /\ count' = 0
    BY DEF Forget
  <2>2. 0 \in 0 .. MaxExperiments
    BY ExperimentsType
  <2> QED
    BY <2>1, <2>2 DEF Counted, Places
<1>2. Ahead[pc] \in 1 .. 8 /\ MaxExperiments - count \in Nat
  BY ExperimentsType DEF Counted, Places, Ahead
<1>3. pc' = "idle"
  BY DEF Forget
<1>4. CycleLeft' = 0
  BY <1>3 DEF CycleLeft
<1>5. CycleLeft = 7 * (MaxExperiments - count) + Ahead[pc] + (IF cancelled THEN 0 ELSE 1)
  BY DEF CycleLeft
<1> QED
  BY <1>1, <1>2, <1>4, <1>5

\* A step within an experiment goes ahead.
LEMMA GoesAhead ==
  ASSUME Counted, pc # "idle", pc' # "idle", pc' \in Places, Ahead[pc'] < Ahead[pc],
         count' = count, cancelled' = cancelled
  PROVE  CycleLeft' < CycleLeft
<1>1. Ahead[pc] \in Nat /\ Ahead[pc'] \in Nat /\ MaxExperiments - count \in Nat
  BY ExperimentsType DEF Counted, Places, Ahead
<1> DEFINE rest == 7 * (MaxExperiments - count)
           c == IF cancelled THEN 0 ELSE 1
<1>2. CycleLeft = rest + Ahead[pc] + c /\ CycleLeft' = rest + Ahead[pc'] + c
  BY DEF CycleLeft
<1>3. rest \in Nat /\ c \in Nat
  BY <1>1
<1> HIDE DEF rest, c
<1> QED
  BY <1>1, <1>2, <1>3

LEMMA CycleStep ==
  ASSUME Counted, [Next]_vars
  PROVE  Counted' /\ (vars' # vars /\ pc # "idle" => CycleLeft' < CycleLeft)
<1> USE ExperimentsType
<1>1. CASE Start
  BY <1>1 DEF Start, Counted, Places
<1>2. CASE MeasureBaseline \/ Propose \/ Screen \/ Measure \/ Judge \/ Save \/ Learn
  <2>1. /\ pc # "idle" /\ pc' # "idle" /\ pc' \in Places /\ Ahead[pc'] < Ahead[pc]
        /\ count' = count /\ cancelled' = cancelled
    <3>1. CASE MeasureBaseline \/ Propose \/ Screen
      <4>1. /\ \/ pc = "baseline" /\ pc' = "head"
               \/ pc = "head" /\ pc' = "screen"
               \/ pc = "screen" /\ pc' \in {"save", "measure"}
            /\ count' = count /\ cancelled' = cancelled
        BY <3>1 DEF MeasureBaseline, Propose, Screen
      <4> QED
        BY <4>1 DEF Places, Ahead
    <3>2. CASE Measure
      <4>1. pc = "measure" /\ pc' \in {"judge", "save"} /\ count' = count /\ cancelled' = cancelled
        BY <3>2 DEF Measure
      <4> QED
        BY <4>1 DEF Places, Ahead
    <3>3. CASE Judge \/ Save \/ Learn
      BY <3>3 DEF Judge, Save, Learn, Places, Ahead
    <3> QED
      BY <1>2, <3>1, <3>2, <3>3
  <2>2. /\ pc' \in {"screen", "measure", "judge", "save", "tsv"} => count < MaxExperiments
        /\ pc' # "idle"
    BY <1>2 DEF MeasureBaseline, Propose, Screen, Measure, Judge, Save, Learn, Counted, MayGoOn
  <2>3. Counted'
    BY <2>1, <2>2 DEF Counted
  <2> QED
    BY <2>1, <2>3, GoesAhead
<1>3. CASE AppendTsv
  <2>1. /\ pc = "tsv" /\ pc' \in {"head", "learn"} /\ count' = count + 1
        /\ cancelled' = cancelled
    BY <1>3 DEF AppendTsv
  <2>2. count \in Nat /\ count < MaxExperiments /\ MaxExperiments \in Nat
    BY <2>1 DEF Counted
  <2>3. Counted'
    BY <2>1, <2>2 DEF Counted, Places, Ahead
  <2>4. Ahead[pc] = 2 /\ Ahead[pc'] \in 7 .. 8
    BY <2>1 DEF Ahead
  <2>5. CycleLeft' < CycleLeft
    BY <2>1, <2>2, <2>4 DEF CycleLeft
  <2> QED
    BY <2>3, <2>5
<1>4. CASE End \/ Fail \/ Crash
  <2>1. pc # "idle" /\ Forget
    BY <1>4 DEF End, Fail, Crash
  <2> QED
    BY <2>1, ForgetEnds
<1>5. CASE CtrlC
  <2>1. pc # "idle" /\ pc' = pc /\ count' = count /\ ~cancelled /\ cancelled' = TRUE
    BY <1>5 DEF CtrlC
  <2>2. Ahead[pc] \in Nat /\ MaxExperiments - count \in Nat
    BY DEF Counted, Places, Ahead
  <2>3. Counted'
    BY <2>1 DEF Counted
  <2> QED
    BY <2>1, <2>2, <2>3 DEF CycleLeft
<1>6. CASE UNCHANGED vars
  BY <1>6 DEF vars, generator, Counted
<1> QED
  BY <1>1, <1>2, <1>3, <1>4, <1>5, <1>6 DEF Next, Step

\* A cycle takes at most 7 * MaxExperiments + 9 steps, however its experiments are accepted,
\* rejected or screened out and whenever it fails or Ctrl-C comes (run_experiment_loop).
THEOREM CyclesAreBounded ==
  /\ Spec => CycleIsUsedUp
  /\ Spec => [](CycleLeft \in 0 .. 7 * MaxExperiments + 9)
<1>1. Init => Counted
  <2>1. Init => pc = "idle" /\ cancelled \in BOOLEAN /\ count = 0
    BY DEF Init, Idle
  <2>2. 0 \in 0 .. MaxExperiments
    BY ExperimentsType
  <2> QED
    BY <2>1, <2>2 DEF Counted, Places
<1>2. Counted /\ [Next]_vars => Counted'
  BY CycleStep
<1>3. Counted /\ [Next]_vars => [pc # "idle" => CycleLeft' < CycleLeft]_vars
  BY CycleStep
<1>4. Counted => CycleLeft \in 0 .. 7 * MaxExperiments + 9
  BY CycleLeftType
<1> QED
  BY <1>1, <1>2, <1>3, <1>4, PTL DEF Spec, CycleIsUsedUp
==============================================================================
