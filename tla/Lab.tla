--------------------------------- MODULE Lab ---------------------------------
(***************************************************************************)
(* The self-improvement loop of `--lab` (agent/experiment.rs, with the      *)
(* benchmark it measures by and the log it writes).  A cycle measures a     *)
(* baseline, then proposes one change of the configuration after another,   *)
(* screens it on a few tasks, measures it on all of them and accepts it     *)
(* when it scores higher.  Every verdict goes to the experiments table and  *)
(* to a TSV file.  Ctrl-C, a failing database and the death of the process  *)
(* end a cycle anywhere; the next cycle, of a new process, starts from what *)
(* it can read of the table.  A measurement is a small integer score.       *)
(***************************************************************************)
EXTENDS Integers, Sequences, FiniteSets, SequencesExt, FiniteSetsExt

CONSTANTS
    Rules,              \* the prompt rules, a sequence of details (default_prompt_rules)
    Params,             \* the parameter changes, a sequence of details (param_mutations)
    Reports,            \* what a Dreamer report may add: a set of sequences of details
    MaxScore,           \* bound: scores are 0..MaxScore
    Estimates,          \* the differences the screening may find, integers
    Threshold,          \* prescreening_threshold
    Judged,             \* whether judge_threshold is set
    MaxExperiments,     \* max_experiments
    DreamerInterval,    \* dreamer_interval
    MetaEvery,          \* a compound is tried once in this many experiments (5)
    StagnationThreshold,\* LabStagnationDetector::stagnation_threshold (3)
    Window,             \* LabStagnationDetector::window_size (5)
    MaxCycles,          \* bound: cycles run one after the other on the same database
    MaxRows             \* bound: rows of the experiments table a new cycle leaves room for

ASSUME LabAssumption ==
    /\ Rules \in Seq(Range(Rules)) /\ Len(Rules) > 0
    /\ Params \in Seq(Range(Params))
    /\ \A report \in Reports : report \in Seq(Range(report))
    /\ MaxScore \in Nat
    /\ Estimates \subseteq Int
    /\ Threshold \in Int
    /\ Judged \in BOOLEAN
    /\ MaxExperiments \in Nat
    /\ DreamerInterval \in Nat \ {0}
    /\ MetaEvery \in Nat \ {0}
    /\ StagnationThreshold \in Nat
    /\ Window \in Nat \ {0}
    /\ MaxCycles \in Nat /\ MaxRows \in Nat

Scores == 0..MaxScore

VARIABLES
    log,        \* the experiments table, in the order of its ids
    tsv,        \* the TSV file: the ids of the rows it has
    cycle,      \* history: the number of the cycle
    pc,         \* where run_experiment_loop is, "idle" between cycles
    cancelled,  \* the token of the process
    cut,        \* Ctrl-C came while the present measurement was under way
    tried,      \* HypothesisGenerator::tried
    rules,      \* HypothesisGenerator::rules, the insights at its end
    wraps,      \* HypothesisGenerator::current_index
    archive,    \* MetaMutationGenerator::archive, the ids of its rows
    compounds,  \* meta_cycle
    loaded,     \* history: the rejected changes this cycle has read from the table
    baseline,   \* the score of the accepted configuration
    count,      \* experiment_count
    detector,   \* LabStagnationDetector: best score, repeats, recent deltas
    exp         \* the experiment in hand

persistent == <<log, tsv, cycle>>
generator  == <<tried, rules, wraps, archive, compounds, loaded>>
vars == <<persistent, pc, cancelled, cut, generator, baseline, count, detector, exp>>

Ids == 1..Len(log)

\* SELECT ... WHERE accepted = 1, and the distinct details WHERE accepted = 0.
AcceptedIds == {i \in Ids : log[i].accepted}
RejectedDetails == {log[i].detail : i \in {j \in Ids : ~log[j].accepted}}

\* load_tried_details skips rows it cannot read, and a query that fails loads nothing.
Loadable == SUBSET RejectedDetails

\* MetaMutationGenerator::from_db reads all of the archive or fails, which leaves what there was.
Reread == {AcceptedIds, archive}

NoExperiment == [detail |-> {}, kind |-> "rule", delta |-> 0, score |-> 0, accepted |-> FALSE,
                 prescreened |-> FALSE, whole |-> TRUE, cycle |-> 0]

\* LabStagnationDetector::default; no score is below 0, so -1 stands for minus infinity.
NewDetector == [best |-> -1, repeats |-> 0, deltas |-> <<>>]

Idle ==
    /\ pc = "idle"
    /\ cancelled = FALSE
    /\ cut = FALSE
    /\ tried = {}
    /\ rules = Rules
    /\ wraps = 0
    /\ archive = {}
    /\ compounds = 0
    /\ loaded = {}
    /\ baseline = 0
    /\ count = 0
    /\ detector = NewDetector
    /\ exp = NoExperiment

Init ==
    /\ log = <<>>
    /\ tsv = <<>>
    /\ cycle = 0
    /\ Idle

\* Nothing of a process outlives it.
Forget ==
    /\ pc' = "idle"
    /\ cancelled' = FALSE
    /\ cut' = FALSE
    /\ tried' = {}
    /\ rules' = Rules
    /\ wraps' = 0
    /\ archive' = {}
    /\ compounds' = 0
    /\ loaded' = {}
    /\ baseline' = 0
    /\ count' = 0
    /\ detector' = NewDetector
    /\ exp' = NoExperiment

-----------------------------------------------------------------------------
(***************************************************************************)
(* What the loop proposes.                                                  *)
(***************************************************************************)

\* next_mutation_unfocused: rules first, then parameters, as one ring of slots.
Slots == rules \o Params
SlotAt(k) == ((count + k) % Len(Slots)) + 1
Untried == {k \in 0..(Len(Slots) - 1) : Slots[SlotAt(k)] \notin tried}

KindOf(slot) == IF slot <= Len(rules) THEN "rule" ELSE "param"

\* can_generate and generate_compound: the best accepted rule with one of the others in turn.
Parents == {i \in archive : log[i].kind = "rule"}
Better(i, j) == log[i].delta > log[j].delta \/ (log[i].delta = log[j].delta /\ i < j)
RankedParents == SetToSortSeq(Parents, Better)
WantsCompound == count % MetaEvery = MetaEvery - 1 /\ Cardinality(Parents) >= 2

Compound ==
    LET first  == log[RankedParents[1]]
        second == log[RankedParents[2 + (compounds % (Cardinality(Parents) - 1))]]
    IN  <<first.detail, second.detail, first.delta, second.delta>>

\* The text of an insight on a failed change names the change and how much it lost.
CounterTo(i) == <<log[i].detail, log[i].delta>>

\* extract_worst_reasoning, of which add_worst_reasoning_insights uses the first three.
Failed == {i \in Ids : /\ log[i].cycle = cycle
                       /\ ~log[i].accepted
                       /\ ~log[i].prescreened}
Worse(i, j) == log[i].delta < log[j].delta \/ (log[i].delta = log[j].delta /\ i < j)
WorstInsights ==
    LET worst == SetToSortSeq(Failed, Worse)
    IN  [k \in 1..Min({3, Cardinality(Failed)}) |-> CounterTo(worst[k])]

-----------------------------------------------------------------------------
(***************************************************************************)
(* A cycle.                                                                 *)
(***************************************************************************)

\* Mutant: what was loaded is not given to the generator (with_tried_details).
Start_Afresh ==
    /\ pc = "idle"
    /\ cycle < MaxCycles /\ Len(log) + MaxExperiments <= MaxRows
    /\ cycle' = cycle + 1
    /\ pc' = "baseline"
    /\ loaded' \in Loadable
    /\ UNCHANGED <<log, tsv, cancelled, cut, tried, rules, wraps, archive, compounds, baseline,
                   count, detector, exp>>

\* A new process loads what it can read of what earlier cycles rejected.
Start ==
    /\ pc = "idle"
    /\ cycle < MaxCycles /\ Len(log) + MaxExperiments <= MaxRows
    /\ cycle' = cycle + 1
    /\ pc' = "baseline"
    /\ loaded' \in Loadable
    /\ tried' = loaded'
    /\ UNCHANGED <<log, tsv, cancelled, cut, rules, wraps, archive, compounds, baseline, count,
                   detector, exp>>

\* BenchmarkSuite::run_k returns what it has when the token is set: the mean over the tasks
\* that were run, and 0 when the token was set before the first one.
Measurement(score) ==
    /\ score \in Scores
    /\ cancelled /\ ~cut => score = 0
    /\ cut' = FALSE

MeasureBaseline ==
    /\ pc = "baseline"
    /\ \E score \in Scores :
        /\ Measurement(score)
        /\ baseline' = score
    /\ archive' \in Reread
    /\ pc' = "head"
    /\ UNCHANGED <<persistent, cancelled, tried, rules, wraps, compounds, loaded, count, detector,
                   exp>>

\* Mutant: Ctrl-C is not looked at.
MayGoOn_WhenCancelled == count < MaxExperiments

MayGoOn == ~cancelled /\ count < MaxExperiments

\* The experiment in hand, before it is measured.
Proposal(detail, kind) == [NoExperiment EXCEPT !.detail = detail, !.kind = kind, !.cycle = cycle]

Propose ==
    /\ pc = "head"
    /\ MayGoOn
    /\ \/ /\ WantsCompound
          /\ exp' = Proposal(Compound, "meta")
          /\ compounds' = compounds + 1
          /\ UNCHANGED <<tried, wraps>>
       \/ /\ ~WantsCompound
          /\ Untried # {}
          /\ LET slot == SlotAt(Min(Untried))
             IN  /\ exp' = Proposal(Slots[slot], KindOf(slot))
                 /\ tried' = tried \union {Slots[slot]}
          /\ UNCHANGED <<compounds, wraps>>
       \/ /\ ~WantsCompound
          /\ Untried = {}
          /\ exp' = Proposal(rules[(wraps % Len(rules)) + 1], "rule")
          /\ wraps' = wraps + 1
          /\ UNCHANGED <<compounds, tried>>
    /\ pc' = "screen"
    /\ UNCHANGED <<persistent, cancelled, cut, rules, archive, loaded, baseline, count, detector>>

\* estimate_mutation_effect: both sides are measured on the same few tasks, so that without
\* any task run they do not differ.
Screen ==
    /\ pc = "screen"
    /\ \E estimate \in Estimates \union {0} :
        /\ cancelled /\ ~cut => estimate = 0
        /\ \/ /\ estimate < Threshold
              /\ exp' = [exp EXCEPT !.delta = estimate,
                                    !.score = baseline + estimate,
                                    !.prescreened = TRUE,
                                    !.whole = ~cancelled]
              /\ pc' = "save"
           \/ /\ estimate >= Threshold
              /\ exp' = exp
              /\ pc' = "measure"
    /\ cut' = FALSE
    /\ UNCHANGED <<persistent, cancelled, generator, baseline, count, detector>>

\* Experiment::from_multi_results.
Measure ==
    /\ pc = "measure"
    /\ \E score \in Scores :
        /\ Measurement(score)
        /\ exp' = [exp EXCEPT !.score = score,
                              !.delta = score - baseline,
                              !.accepted = score > baseline,
                              !.whole = ~cancelled]
    /\ pc' = IF Judged /\ exp'.accepted THEN "judge" ELSE "save"
    /\ UNCHANGED <<persistent, cancelled, generator, baseline, count, detector>>

\* The judge may turn an acceptance down; a judge that fails changes nothing.
Judge ==
    /\ pc = "judge"
    /\ \E passed \in BOOLEAN : exp' = [exp EXCEPT !.accepted = passed]
    /\ pc' = "save"
    /\ UNCHANGED <<persistent, cancelled, cut, generator, baseline, count, detector>>

\* Mutant: every measurement becomes the baseline of the next.
Save_EveryScore ==
    /\ pc = "save"
    /\ baseline' = exp.score
    /\ archive' \in IF exp.accepted THEN Reread ELSE {archive}
    /\ log' = Append(log, exp)
    /\ pc' = "tsv"
    /\ UNCHANGED <<tsv, cycle, cancelled, cut, tried, rules, wraps, compounds, loaded, count,
                   detector, exp>>

\* Steps (e) and (f): the archive is read again before the row is written.
Save ==
    /\ pc = "save"
    /\ baseline' = IF exp.accepted THEN exp.score ELSE baseline
    /\ archive' \in IF exp.accepted THEN Reread ELSE {archive}
    /\ log' = Append(log, exp)
    /\ pc' = "tsv"
    /\ UNCHANGED <<tsv, cycle, cancelled, cut, tried, rules, wraps, compounds, loaded, count,
                   detector, exp>>

\* Mutant: what the screening turned down is not written.
AppendTsv_MeasuredOnly ==
    /\ pc = "tsv"
    /\ tsv' = IF exp.prescreened THEN tsv ELSE Append(tsv, Len(log))
    /\ count' = count + 1
    /\ \/ exp.prescreened /\ pc' = "head" /\ exp' = NoExperiment
       \/ ~exp.prescreened /\ pc' = "learn" /\ exp' = exp
    /\ UNCHANGED <<log, cycle, cancelled, cut, generator, baseline, detector>>

AppendTsv ==
    /\ pc = "tsv"
    /\ tsv' = Append(tsv, Len(log))
    /\ count' = count + 1
    /\ \/ exp.prescreened /\ pc' = "head" /\ exp' = NoExperiment
       \/ ~exp.prescreened /\ pc' = "learn" /\ exp' = exp
    /\ UNCHANGED <<log, cycle, cancelled, cut, generator, baseline, detector>>

\* LabStagnationDetector::record_and_check.
Recorded ==
    LET all == Append(detector.deltas, exp.delta)
    IN  [best    |-> IF exp.score > detector.best THEN exp.score ELSE detector.best,
         repeats |-> IF exp.score > detector.best THEN 0 ELSE detector.repeats + 1,
         deltas  |-> IF Len(all) > Window THEN Tail(all) ELSE all]

Stagnates(d) ==
    \/ d.repeats >= StagnationThreshold
    \/ Len(d.deltas) = Window /\ \A i, j \in 1..Window : d.deltas[i] = d.deltas[j]

\* Steps (g) and (h): insights on what failed, and those of the Dreamer, whose failure is ignored.
Learn ==
    /\ pc = "learn"
    /\ LET stagnates == Stagnates(Recorded)
           dreams    == count % DreamerInterval = 0
           reports   == Reports \union {<<>>}
       IN  /\ \E early \in IF stagnates THEN reports ELSE {<<>>},
                 late  \in IF dreams THEN reports ELSE {<<>>} :
                rules' = rules \o (IF stagnates THEN WorstInsights ELSE <<>>) \o early \o late
           /\ detector' = IF stagnates THEN [Recorded EXCEPT !.repeats = 0, !.deltas = <<>>]
                                       ELSE Recorded
    /\ pc' = "head"
    /\ exp' = NoExperiment
    /\ UNCHANGED <<persistent, cancelled, cut, tried, wraps, archive, compounds, loaded, baseline,
                   count>>

-----------------------------------------------------------------------------
(***************************************************************************)
(* How a cycle ends.                                                        *)
(***************************************************************************)

\* Mutant: a cancelled cycle goes on to its next round instead of leaving the loop.
End_NotLeft ==
    /\ pc = "head"
    /\ ~MayGoOn
    /\ ~cancelled
    /\ Forget
    /\ UNCHANGED persistent

\* The head of the loop, with the passes over the cycle's events that follow it.
End ==
    /\ pc = "head"
    /\ ~MayGoOn
    /\ Forget
    /\ UNCHANGED persistent

\* A database error leaves the loop by `?`.  The row may be there all the same: its
\* configuration is written after it.
Fail ==
    /\ \/ pc \in {"baseline", "screen", "measure", "save", "tsv"} /\ UNCHANGED log
       \/ pc = "save" /\ log' = Append(log, exp)
    /\ Forget
    /\ UNCHANGED <<tsv, cycle>>

\* The process dies.
Crash ==
    /\ pc # "idle"
    /\ Forget
    /\ UNCHANGED persistent

CtrlC ==
    /\ pc # "idle"
    /\ ~cancelled
    /\ cancelled' = TRUE
    /\ cut' = (pc \in {"baseline", "screen", "measure"})
    /\ UNCHANGED <<persistent, pc, generator, baseline, count, detector, exp>>

-----------------------------------------------------------------------------
Step == MeasureBaseline \/ Propose \/ Screen \/ Measure \/ Judge \/ Save \/ AppendTsv \/ Learn
            \/ End

Next == Start \/ Step \/ Fail \/ Crash \/ CtrlC

\* The loop runs on: a benchmark task is bounded by its iterations and its timeout.  Nobody is
\* obliged to start a cycle, to stop it or to make it fail.
Spec == Init /\ [][Next]_vars /\ WF_vars(Step)

-----------------------------------------------------------------------------
(* The state is of the right shape. *)
TypeOK ==
    /\ pc \in {"idle", "baseline", "head", "screen", "measure", "judge", "save", "tsv", "learn"}
    /\ cycle \in 0..MaxCycles
    /\ cancelled \in BOOLEAN /\ cut \in BOOLEAN
    /\ Range(tsv) \subseteq Ids
    /\ archive \subseteq AcceptedIds /\ loaded \subseteq RejectedDetails
    /\ baseline \in Scores
    /\ count \in 0..MaxExperiments
    /\ wraps \in 0..MaxExperiments /\ compounds \in 0..MaxExperiments
    /\ detector.best \in Scores \union {-1}
    /\ Len(detector.deltas) <= Window
    /\ detector.repeats \in 0..MaxExperiments

-----------------------------------------------------------------------------
(* Safety. *)

\* What a cycle accepts scores higher than all it has accepted before: a verdict is always
\* against the last accepted measurement (steps (d) and (e) of run_experiment_loop), never
\* against one the judge or the screening turned down.
AcceptsClimb ==
    \A i, j \in AcceptedIds :
        i < j /\ log[i].cycle = log[j].cycle => log[i].score < log[j].score

\* What the cycle knows to be rejected: by earlier ones, as far as it could be read, and by itself.
KnownRejected ==
    loaded \union {log[i].detail : i \in {j \in Ids : ~log[j].accepted /\ log[j].cycle = cycle}}

\* A change that this cycle has rejected, or that an earlier one has, however that one ended, and
\* the table could be asked for it, is proposed again only when every rule and parameter has been
\* tried (load_tried_details, next_mutation).  A compound is outside of it.
RejectedOnce ==
    [][ /\ pc = "head" /\ pc' = "screen" /\ exp'.kind # "meta"
        /\ exp'.detail \in KnownRejected
        => Range(Slots) \subseteq tried ]_vars

\* A verdict on a measurement that Ctrl-C cut short is recorded like any other, but it is the
\* last of its cycle: nothing is compared with it.
PartialVerdictsAreLast ==
    \A i, j \in Ids : i < j /\ log[i].cycle = log[j].cycle => log[i].whole

\* The TSV file has the rows of the table, in their order, but for the last row of a cycle that
\* failed or died (save_to_db, then append_tsv).
TsvFollowsTable ==
    /\ \A k, l \in 1..Len(tsv) : k < l => tsv[k] < tsv[l]
    /\ \A i, j \in Ids : i < j /\ log[i].cycle = log[j].cycle => i \in Range(tsv)

(* Liveness. *)

\* A cycle ends, whether its experiments are accepted, rejected or screened out and whenever
\* Ctrl-C comes.
CycleEnds == pc # "idle" ~> pc = "idle"
==============================================================================
