------------------------------- MODULE ToolProofs -------------------------------
(***************************************************************************)
(* What is proved of the way from a call of the model to its answer: of the  *)
(* detectors that watch the calls (ToolGuards), of their dispatch with its   *)
(* breaker and cache (ToolDispatch), and of the tools that live in another   *)
(* process (McpClient).  The three share no state.                           *)
(***************************************************************************)
EXTENDS ToolGuards, ToolDispatch, McpClient, TLAPS, FiniteSetTheorems, SequenceTheorems,
        WellFoundedInduction

(***************************************************************************)
(* The detectors of error_recovery.rs, for every value of their thresholds   *)
(* that satisfies GuardConstants (the values of the code, 10, 30, 3, 6 and   *)
(* 6, do) and any number of files.                                           *)
(***************************************************************************)
\* The run goes on only below the frequency threshold.
BelowThreshold == running => \A h \in Hashes : frequency[h] < FrequencyThreshold

\* A count that has reached the first threshold has been advised about.
StuckIsAdvised == \A p \in Paths : stuck[p] >= NudgeThreshold => "nudge" \in advised[p]

GuardsIInv ==
    /\ GuardsTypeOK
    /\ BelowThreshold
    /\ StuckIsAdvised
    /\ NudgeBeforeGiveUp
    /\ EditMessagesAreSpaced

-----------------------------------------------------------------------------
\* The window of a detector never holds more than it is made for, nor more than was put in.
LEMMA LastOfType ==
    ASSUME NEW S, NEW s \in Seq(S), NEW e \in S, NEW n \in Nat
    PROVE  /\ LastOf(Append(s, e), n) \in Seq(S)
           /\ Len(LastOf(Append(s, e), n)) \in Nat
           /\ Len(LastOf(Append(s, e), n)) <= n
           /\ Len(LastOf(Append(s, e), n)) <= Len(s) + 1
  <1> DEFINE t == Append(s, e)
             k == IF Len(t) < n THEN Len(t) ELSE n
  <1>1. t \in Seq(S) /\ Len(t) = Len(s) + 1 /\ Len(s) \in Nat
    OBVIOUS
  <1>2. k \in Nat /\ k <= n /\ k <= Len(t)
    BY <1>1
  <1> HIDE DEF t, k
  <1>3. Len(t) - k + 1 \in 1..Len(t) + 1 /\ Len(t) \in Nat
    BY <1>1, <1>2
  <1>4. /\ SubSeq(t, Len(t) - k + 1, Len(t)) \in Seq(S)
        /\ Len(SubSeq(t, Len(t) - k + 1, Len(t))) = k
    BY <1>1, <1>2, <1>3
  <1>5. LastOf(Append(s, e), n) = SubSeq(t, Len(t) - k + 1, Len(t))
    BY DEF LastOf, t, k
  <1> QED  BY <1>1, <1>2, <1>4, <1>5

LEMMA GuardsInitially == GuardConstants /\ GuardsInit => GuardsIInv
  BY DEF GuardConstants, GuardsInit, GuardsIInv, GuardsTypeOK, BelowThreshold, StuckIsAdvised,
         NudgeBeforeGiveUp, EditMessagesAreSpaced

LEMMA DetectStep ==
    ASSUME GuardConstants, GuardsIInv, running, NEW call \in GuardedCalls, Detect(call)
    PROVE  /\ call.hash \in Hashes
           /\ recent' \in Seq(Hashes) /\ Len(recent') <= MaxHistory
           /\ frequency' \in [Hashes -> 0..FrequencyThreshold]
           /\ \A h \in Hashes \ {call.hash} : frequency'[h] < FrequencyThreshold
  <1>1. call.hash \in Hashes
    BY DEF GuardedCalls, Hashes
  <1>2. recent' \in Seq(Hashes) /\ Len(recent') <= MaxHistory
    BY <1>1, LastOfType DEF Detect, GuardsIInv, GuardsTypeOK, GuardConstants
  <1>3. frequency' = [frequency EXCEPT ![call.hash] = @ + 1]
    BY DEF Detect
  <1> QED
    BY <1>1, <1>2, <1>3 DEF GuardsIInv, GuardsTypeOK, BelowThreshold, GuardConstants

LEMMA FileResultStep ==
    ASSUME GuardConstants, GuardsIInv, NEW call \in GuardedCalls, call.path \in Paths,
           NEW ok \in BOOLEAN, FileResult(call, ok)
    PROVE  /\ stuck' \in [Paths -> Nat] /\ advised' \in [Paths -> SUBSET Advice]
           /\ StuckIsAdvised' /\ NudgeBeforeGiveUp'
  <1> DEFINE p == call.path
  <1>1. CASE ok
    <2>1. /\ stuck' = [stuck EXCEPT ![p] = 0]
          /\ \/ advised' = [advised EXCEPT ![p] = {}]
             \/ advised' = [advised EXCEPT ![p] = advised[p]]
      BY <1>1 DEF FileResult
    <2>2. \A q \in Paths : \/ stuck'[q] = 0 /\ (advised'[q] = {} \/ advised'[q] = advised[q])
                           \/ stuck'[q] = stuck[q] /\ advised'[q] = advised[q]
      BY <2>1 DEF GuardsIInv, GuardsTypeOK
    <2>3. stuck' \in [Paths -> Nat] /\ advised' \in [Paths -> SUBSET Advice]
      BY <2>1 DEF GuardsIInv, GuardsTypeOK
    <2>4. ~(0 >= NudgeThreshold)
      BY DEF GuardConstants
    <2>5. StuckIsAdvised'
      BY <2>2, <2>4 DEF GuardsIInv, StuckIsAdvised
    <2>6. NudgeBeforeGiveUp'
      BY <2>2 DEF GuardsIInv, NudgeBeforeGiveUp
    <2> QED  BY <2>3, <2>5, <2>6
  <1>2. CASE ~ok
    <2>1. /\ stuck' = [stuck EXCEPT ![p] = stuck[p] + 1]
          /\ advised' = [advised EXCEPT ![p] = advised[p] \cup CheckStuck(stuck[p] + 1)]
      BY <1>2 DEF FileResult
    <2>2. CheckStuck(stuck[p] + 1) \subseteq Advice
      BY DEF CheckStuck, Advice
    <2>3. stuck[p] \in Nat
      BY DEF GuardsIInv, GuardsTypeOK
    <2>4. stuck[p] + 1 >= NudgeThreshold => "nudge" \in advised'[p]
      BY <2>1, <2>3 DEF CheckStuck, GuardConstants, GuardsIInv, GuardsTypeOK, StuckIsAdvised
    <2>5. "give_up" \in advised'[p] => "nudge" \in advised'[p]
      <3>1. "give_up" \in CheckStuck(stuck[p] + 1) => stuck[p] + 1 >= NudgeThreshold
        BY <2>3 DEF CheckStuck, GuardConstants
      <3>2. advised'[p] = advised[p] \cup CheckStuck(stuck[p] + 1)
        BY <2>1 DEF GuardsIInv, GuardsTypeOK
      <3> QED  BY <3>1, <3>2, <2>4 DEF GuardsIInv, NudgeBeforeGiveUp
    <2>6. stuck' \in [Paths -> Nat] /\ advised' \in [Paths -> SUBSET Advice]
      BY <2>1, <2>2, <2>3 DEF GuardsIInv, GuardsTypeOK
    <2>7. \A q \in Paths \ {p} : stuck'[q] = stuck[q] /\ advised'[q] = advised[q]
      BY <2>1 DEF GuardsIInv, GuardsTypeOK
    <2>8. stuck'[p] = stuck[p] + 1
      BY <2>1 DEF GuardsIInv, GuardsTypeOK
    <2>9. StuckIsAdvised'
      BY <2>4, <2>7, <2>8 DEF GuardsIInv, StuckIsAdvised
    <2>10. NudgeBeforeGiveUp'
      BY <2>5, <2>7 DEF GuardsIInv, NudgeBeforeGiveUp
    <2> QED  BY <2>6, <2>9, <2>10
  <1> QED  BY <1>1, <1>2

LEMMA RecordEditStep ==
    ASSUME GuardConstants, GuardsIInv, NEW path \in Paths, RecordEdit(path)
    PROVE  /\ editWindow' \in Seq(Paths) /\ Len(editWindow') <= Window
           /\ nudges' \in Nat /\ edits' \in Nat
           /\ EditMessagesAreSpaced'
  <1> DEFINE paths == LastOf(Append(editWindow, path), Window)
  <1>1. /\ paths \in Seq(Paths) /\ Len(paths) \in Nat /\ Len(paths) <= Window
        /\ Len(paths) <= Len(editWindow) + 1
    BY LastOfType DEF GuardsIInv, GuardsTypeOK, GuardConstants
  <1>2. Len(editWindow) \in Nat /\ nudges \in Nat /\ edits \in Nat
        /\ 4 * nudges + Len(editWindow) <= edits
    BY DEF GuardsIInv, GuardsTypeOK, EditMessagesAreSpaced
  <1>3. edits' = edits + 1
    BY DEF RecordEdit
  <1>4. CASE InTurn(paths)
    <2>1. editWindow' = <<>> /\ nudges' = nudges + 1
      BY <1>4 DEF RecordEdit, EditWindowAfter
    <2>2. Len(paths) >= 4
      BY <1>4 DEF InTurn
    <2>3. editWindow' \in Seq(Paths) /\ Len(editWindow') = 0
      BY <2>1
    <2> HIDE DEF paths
    <2> QED  BY <2>1, <2>2, <2>3, <1>1, <1>2, <1>3 DEF EditMessagesAreSpaced, GuardConstants
  <1>5. CASE ~InTurn(paths)
    <2>1. editWindow' = paths /\ nudges' = nudges
      BY <1>5 DEF RecordEdit, EditWindowAfter
    <2> HIDE DEF paths
    <2> QED  BY <2>1, <1>1, <1>2, <1>3 DEF EditMessagesAreSpaced
  <1> QED  BY <1>4, <1>5

LEMMA LoopEndsRunStep ==
    ASSUME GuardConstants, GuardsIInv, NEW call \in GuardedCalls, LoopEndsRun(call)
    PROVE  GuardsIInv'
  <1>1. /\ recent' \in Seq(Hashes) /\ Len(recent') <= MaxHistory
        /\ frequency' \in [Hashes -> 0..FrequencyThreshold]
    BY DetectStep DEF LoopEndsRun
  <1>2. running' = FALSE /\ UNCHANGED <<stuck, advised, editWindow, nudges, edits>>
    BY DEF LoopEndsRun, fileVars, editVars
  <1> QED
    BY <1>1, <1>2 DEF GuardsIInv, GuardsTypeOK, BelowThreshold, StuckIsAdvised,
                      NudgeBeforeGiveUp,
                      EditMessagesAreSpaced

LEMMA CallRunsStep ==
    ASSUME GuardConstants, GuardsIInv, NEW call \in GuardedCalls, NEW ok \in BOOLEAN,
           CallRuns(call, ok)
    PROVE  GuardsIInv'
  <1>1. running /\ running' = running /\ Detect(call)
    BY DEF CallRuns
  <1>2. /\ call.hash \in Hashes
        /\ recent' \in Seq(Hashes) /\ Len(recent') <= MaxHistory
        /\ frequency' \in [Hashes -> 0..FrequencyThreshold]
        /\ \A h \in Hashes \ {call.hash} : frequency'[h] < FrequencyThreshold
    BY <1>1, DetectStep
  <1>3. BelowThreshold'
    <2>1. ~(frequency'[call.hash] >= FrequencyThreshold)
      BY DEF CallRuns, Looping
    <2>2. frequency'[call.hash] \in Nat
      BY <1>2, SMT DEF GuardConstants
    <2>3. frequency'[call.hash] < FrequencyThreshold
      BY <2>1, <2>2 DEF GuardConstants
    <2> QED  BY <1>2, <2>3 DEF BelowThreshold
  <1>4. call.path = NoPath \/ call.path \in Paths
    BY DEF GuardedCalls
  <1>5. /\ stuck' \in [Paths -> Nat] /\ advised' \in [Paths -> SUBSET Advice]
        /\ StuckIsAdvised' /\ NudgeBeforeGiveUp'
    <2>1. CASE call.path = NoPath
      <3>1. stuck' = stuck /\ advised' = advised
        BY <2>1 DEF CallRuns, fileVars
      <3> QED  BY <3>1 DEF GuardsIInv, GuardsTypeOK, StuckIsAdvised, NudgeBeforeGiveUp
    <2>2. CASE call.path # NoPath
      BY <2>2, <1>4, FileResultStep DEF CallRuns
    <2> QED  BY <2>1, <2>2
  <1>6. /\ editWindow' \in Seq(Paths) /\ Len(editWindow') <= Window
        /\ nudges' \in Nat /\ edits' \in Nat
        /\ EditMessagesAreSpaced'
    <2>1. CASE IsEdit(call.hash) /\ ok
      <3>1. call.path \in Paths
        BY <2>1 DEF GuardedCalls, IsEdit, Hashes
      <3> QED  BY <2>1, <3>1, RecordEditStep DEF CallRuns
    <2>2. CASE ~(IsEdit(call.hash) /\ ok)
      <3>1. editWindow' = editWindow /\ nudges' = nudges /\ edits' = edits
        BY <2>2 DEF CallRuns, editVars
      <3> QED  BY <3>1 DEF GuardsIInv, GuardsTypeOK, EditMessagesAreSpaced
    <2> QED  BY <2>1, <2>2
  <1>7. running' \in BOOLEAN
    BY <1>1 DEF GuardsIInv, GuardsTypeOK
  <1> QED  BY <1>2, <1>3, <1>5, <1>6, <1>7 DEF GuardsIInv, GuardsTypeOK

LEMMA GuardsInductive == GuardConstants /\ GuardsIInv /\ [GuardsNext]_guardVars => GuardsIInv'
  <1> SUFFICES ASSUME GuardConstants, GuardsIInv, [GuardsNext]_guardVars PROVE GuardsIInv'  OBVIOUS
  <1>1. ASSUME NEW call \in GuardedCalls, LoopEndsRun(call) PROVE GuardsIInv'
    BY <1>1, LoopEndsRunStep
  <1>2. ASSUME NEW call \in GuardedCalls, NEW ok \in BOOLEAN, CallRuns(call, ok) PROVE GuardsIInv'
    BY <1>2, CallRunsStep
  <1>3. CASE UNCHANGED guardVars
    BY <1>3 DEF guardVars, GuardsIInv, GuardsTypeOK, BelowThreshold, StuckIsAdvised,
                NudgeBeforeGiveUp, EditMessagesAreSpaced
  <1> QED  BY <1>1, <1>2, <1>3 DEF GuardsNext, Stopped

LEMMA GuardsInvariance == GuardConstants => (GuardsSpec => []GuardsIInv)
  <1>1. GuardConstants => GuardConstants'
    BY DEF GuardConstants
  <1> QED  BY <1>1, GuardsInitially, GuardsInductive, PTL DEF GuardsSpec

-----------------------------------------------------------------------------
(***************************************************************************)
(* The detectors keep their bounds; among them, no operation is counted past *)
(* the frequency threshold, whatever the model does in between.              *)
(***************************************************************************)
THEOREM GuardsAreBounded == GuardConstants => (GuardsSpec => []GuardsTypeOK)
  BY GuardsInvariance, PTL DEF GuardsIInv

(***************************************************************************)
(* Advice on a file escalates: nobody is told to give a file up who was not  *)
(* told before to read it again, however failures, reads and edits alternate *)
(* (FileStuckGuard, error_recovery.rs:587).                                  *)
(***************************************************************************)
THEOREM NudgeComesFirst == GuardConstants => (GuardsSpec => []NudgeBeforeGiveUp)
  BY GuardsInvariance, PTL DEF GuardsIInv

(***************************************************************************)
(* Each message about editing in turn takes four successful edits that no    *)
(* other message was about (MultiFileEditCycleDetector,                      *)
(* error_recovery.rs:805, 837).                                              *)
(***************************************************************************)
THEOREM EditMessagesSpaced == GuardConstants => (GuardsSpec => []EditMessagesAreSpaced)
  BY GuardsInvariance, PTL DEF GuardsIInv

(***************************************************************************)
(* The dispatch of the calls, for any tools, files and sizes of a batch.     *)
(***************************************************************************)
\* The results that wait belong to the last of the validated calls that have run: so many of
\* the validated calls are answered.
Applications == next - 1 - Len(results)

\* The calls that were refused.
Refusals == Len(batch) - Len(validated)

\* Between two steps nothing is left of the last one.
AtRest == pc = "model" =>
    batch = <<>> /\ validated = <<>> /\ results = <<>> /\ answered = <<>> /\ next = 1

Dispatched == pc = "dispatch" =>
    /\ next <= Len(batch) + 1
    /\ Len(answered) + Len(validated) = next - 1
    /\ \A i \in 1..next - 1 : \/ \E j \in 1..Len(answered) : answered[j] = i
                              \/ \E j \in 1..Len(validated) : validated[j] = i

Executed == pc = "execute" =>
    /\ next <= Len(validated) + 1
    /\ Len(results) <= next - 1
    /\ Len(validated) <= Len(batch)
    /\ Len(answered) = Refusals + Applications
    /\ \A k \in 1..Applications : answered[Refusals + k] = validated[k]
    /\ \A k \in 1..Len(results) : results[k].of = validated[Applications + k]
    /\ \A i \in 1..Len(batch) : \/ \E j \in 1..Refusals : answered[j] = i
                                \/ \E j \in 1..Len(validated) : validated[j] = i

\* What is validated is in the batch, and only the second phase has results.
InBatch ==
    /\ \A k \in 1..Len(validated) : validated[k] \in 1..Len(batch)
    /\ results # <<>> => pc = "execute"

\* Results that wait are of reads that saw what there is to see, or of one write.
Fresh == results # <<>> =>
    \/ \A k \in 1..Len(results) :
          LET tool == batch[results[k].of].tool
          IN  IsReadOnly(tool) /\ results[k].version = writes[AreaOf(tool)]
    \/ Len(results) = 1 /\ ~IsReadOnly(batch[results[1].of].tool)

\* What a tool's failures may come to in so many batches.
Allowed(batches) == BreakerThreshold - 1 + MaxBatch * batches

\* A tool that was let through was available then; each failure since takes one call of the
\* batch that waits.
Admitted == \A t \in Tools :
    /\ cooled[t] => failures[t] <= Allowed(coolDowns[t])
    /\ pc = "dispatch" /\ (\E k \in 1..Len(validated) : batch[validated[k]].tool = t) =>
          failures[t] <= Allowed(coolDowns[t])
    /\ pc = "execute" /\ (\E k \in Applications + 1..Len(validated) : batch[validated[k]].tool = t) =>
          failures[t] + Len(validated) - Applications <= Allowed(coolDowns[t] + 1)
    /\ failures[t] <= Allowed(coolDowns[t] + 1)

Books == AtRest /\ Dispatched /\ Executed /\ InBatch

IInv == TypeOK /\ Books /\ Fresh /\ Admitted /\ FileCacheCoherent

-----------------------------------------------------------------------------
\* A set of numbers has a least one.
LEMMA LeastNumber ==
    ASSUME NEW T \in SUBSET Nat, T # {}
    PROVE  \E n \in T : \A m \in T : n <= m
  <1> DEFINE R == OpToRel(<, Nat)
  <1>1. IsWellFoundedOn(R, Nat)
    BY NatLessThanWellFounded
  <1>2. \E x \in T : \A y \in T : ~(<<y, x>> \in R)
    <2> HIDE DEF R
    <2> QED  BY <1>1, WFMin
  <1>3. PICK x \in T : \A y \in T : ~(<<y, x>> \in R)
    BY <1>2
  <1>4. \A y \in T : ~(y < x)
    BY <1>3 DEF OpToRel
  <1> QED  BY <1>4

LEMMA TypeFacts ==
    ASSUME TypeOK
    PROVE  /\ next \in Nat /\ next >= 1
           /\ Len(batch) \in Nat /\ Len(batch) <= MaxBatch
           /\ Len(validated) \in Nat /\ Len(answered) \in Nat /\ Len(results) \in Nat
           /\ MaxBatch \in Nat /\ BreakerThreshold \in Nat
           /\ \A t \in Tools : failures[t] \in Nat /\ coolDowns[t] \in Nat
           /\ \A i \in 1..Len(batch) : batch[i] \in Calls /\ batch[i].tool \in Tools
           /\ \A k \in 1..Len(validated) : validated[k] \in Positions /\ validated[k] \in Nat
           /\ \A a \in Areas : writes[a] \in Nat
  <1>1. MaxBatch \in Nat /\ BreakerThreshold \in Nat /\ MaxCoolDowns \in Nat
    BY DispatchConstants
  <1>2. next \in Nat /\ next >= 1
    BY <1>1 DEF TypeOK
  <1>3. /\ Len(batch) \in Nat /\ Len(batch) <= MaxBatch
        /\ Len(validated) \in Nat /\ Len(answered) \in Nat /\ Len(results) \in Nat
    BY DEF TypeOK
  <1>4. \A t \in Tools : failures[t] \in Nat /\ coolDowns[t] \in Nat
    BY <1>1 DEF TypeOK
  <1>5. \A i \in 1..Len(batch) : batch[i] \in Calls /\ batch[i].tool \in Tools
    <2>1. \A i \in 1..Len(batch) : batch[i] \in Calls
      BY DEF TypeOK
    <2> QED  BY <2>1, DispatchConstants
  <1>6. \A k \in 1..Len(validated) : validated[k] \in Positions /\ validated[k] \in Nat
    <2>1. \A k \in 1..Len(validated) : validated[k] \in Positions
      BY DEF TypeOK
    <2>2. \A x \in Positions : x \in Nat
      BY <1>1 DEF Positions
    <2> QED  BY <2>1, <2>2
  <1>7. \A a \in Areas : writes[a] \in Nat
    BY DEF TypeOK
  <1> QED  BY <1>1, <1>2, <1>3, <1>4, <1>5, <1>6, <1>7

LEMMA ToolFacts ==
    ASSUME NEW tool PROVE AreaOf(tool) \in Areas /\ ResultsOf(tool) \subseteq ResultKinds
  BY DEF AreaOf, Areas, ResultsOf, ResultKinds

LEMMA AllowedType ==
    ASSUME NEW c \in Nat
    PROVE  /\ Allowed(c) \in Nat
           /\ Allowed(c + 1) = Allowed(c) + MaxBatch
           /\ BreakerThreshold - 1 <= Allowed(c)
  <1>1. MaxBatch * c \in Nat /\ MaxBatch * (c + 1) = MaxBatch * c + MaxBatch
    BY DispatchConstants
  <1> QED  BY <1>1, DispatchConstants DEF Allowed

\* The reads of a batch that run together are the validated calls from `next` on.
LEMMA ReadBatchIsInterval ==
    ASSUME TypeOK
    PROVE  /\ Cardinality(ReadBatch) \in Nat
           /\ ReadBatch = next .. next + Cardinality(ReadBatch) - 1
           /\ ReadBatch \subseteq next .. Len(validated)
  <1> DEFINE n == next
             L == Len(validated)
             Out == {i \in n .. L + 1 : i \notin ReadBatch}
  <1>1. n \in Nat /\ L \in Nat /\ ReadBatch \subseteq n .. L
    BY DEF TypeOK, ReadBatch
  <1>2. CASE n > L
    <2>1. ReadBatch = {}
      BY <1>1, <1>2
    <2> QED  BY <2>1, <1>1, <1>2, FS_EmptySet
  <1>3. CASE n <= L
    <2>1. Out \subseteq Nat /\ Out # {}
      BY <1>1, <1>3
    <2>2. PICK m \in Out : \A i \in Out : m <= i
      <3> HIDE DEF Out
      <3> QED  BY <2>1, LeastNumber
    <2>3. /\ m \in Nat /\ n <= m /\ m <= L + 1 /\ m \notin ReadBatch
          /\ \A i \in n .. m - 1 : i \in ReadBatch
      BY <2>2, <1>1
    <2>4. ASSUME NEW i \in ReadBatch PROVE i < m
      <3>1. CASE m <= i
        <4>1. m \in n .. L /\ \A j \in n .. m : IsReadOnly(ValidatedCall(j).tool)
          BY <2>3, <1>1, <3>1 DEF ReadBatch
        <4> QED  BY <4>1, <2>3 DEF ReadBatch
      <3> QED  BY <3>1, <2>3, <1>1
    <2>5. ReadBatch = n .. m - 1
      <3>1. \A i \in ReadBatch : i \in n .. m - 1
        BY <2>3, <2>4, <1>1
      <3>2. \A i \in n .. m - 1 : i \in ReadBatch
        BY <2>3
      <3> HIDE DEF n
      <3> QED  BY <3>1, <3>2
    <2>6. Cardinality(ReadBatch) = m - n
      <3>1. n \in Int /\ m - 1 \in Int
        BY <1>1, <2>3
      <3>2. Cardinality(n .. m - 1) = IF n > m - 1 THEN 0 ELSE (m - 1) - n + 1
        BY <3>1, FS_Interval
      <3> QED  BY <2>5, <3>2, <2>3, <1>1
    <2> QED  BY <2>5, <2>6, <2>3, <1>1
  <1> QED  BY <1>1, <1>2, <1>3

LEMMA Initially == Init => IInv
  <1> SUFFICES ASSUME Init PROVE IInv  OBVIOUS
  <1>1. TypeOK
    BY DispatchConstants DEF Init, TypeOK, Locations, Pending, Positions
  <1>2. Books
    BY DEF Init, Books, AtRest, Dispatched, Executed, InBatch
  <1>3. \A t \in Tools : failures[t] = 0 /\ ~cooled[t] /\ coolDowns[t] = 0
    BY DEF Init
  <1>4. Admitted
    BY <1>3, AllowedType DEF Admitted, Init
  <1> QED  BY <1>1, <1>2, <1>4 DEF IInv, Init, Fresh, FileCacheCoherent

LEMMA ModelCallsStep == IInv /\ ModelCalls => IInv'
  <1> SUFFICES ASSUME IInv, ModelCalls PROVE IInv'  OBVIOUS
  <1>1. PICK n \in 1..MaxBatch : batch' \in [1..n -> Calls]
    BY DEF ModelCalls
  <1>2. batch' \in Seq(Calls) /\ Len(batch') = n /\ n \in Nat /\ n <= MaxBatch
    BY <1>1, DispatchConstants
  <1>3. /\ pc = "model" /\ pc' = "dispatch" /\ steps' = steps + 1 /\ steps < MaxSteps
        /\ UNCHANGED <<next, validated, results, answered, allSucceeded, failures, cooled,
                       coolDowns, cache, writes>>
    BY DEF ModelCalls, breakerVars
  <1>4. validated = <<>> /\ results = <<>> /\ answered = <<>> /\ next = 1
    BY <1>3 DEF IInv, Books, AtRest
  <1>5. TypeOK'
    <2>1. steps' \in 0 .. MaxSteps /\ pc' \in Locations
      BY <1>3, DispatchConstants DEF IInv, TypeOK, Locations
    <2> QED  BY <1>2, <1>3, <2>1 DEF IInv, TypeOK
  <1>6. Books'
    BY <1>2, <1>3, <1>4 DEF Books, AtRest, Dispatched, Executed, InBatch
  <1>7. Fresh' /\ FileCacheCoherent'
    BY <1>3, <1>4 DEF IInv, Fresh, FileCacheCoherent, WritePending
  <1>8. Admitted'
    BY <1>3, <1>4 DEF IInv, Admitted
  <1> QED  BY <1>5, <1>6, <1>7, <1>8 DEF IInv

LEMMA LoopDetectedStep == IInv /\ LoopDetected => IInv'
  <1> SUFFICES ASSUME IInv, LoopDetected PROVE IInv'  OBVIOUS
  <1>1. /\ pc = "dispatch" /\ pc' = "aborted"
        /\ UNCHANGED <<steps, batch, next, validated, results, answered, allSucceeded, failures,
                       cooled, coolDowns, cache, writes>>
    BY DEF LoopDetected, Dispatching, breakerVars, stepVars
  <1>2. TypeOK'
    BY <1>1 DEF IInv, TypeOK, Locations
  <1>3. Books'
    BY <1>1 DEF IInv, Books, AtRest, Dispatched, Executed, InBatch
  <1>4. Fresh' /\ FileCacheCoherent'
    BY <1>1 DEF IInv, Fresh, FileCacheCoherent, WritePending
  <1>5. Admitted'
    BY <1>1 DEF IInv, Admitted
  <1> QED  BY <1>2, <1>3, <1>4, <1>5 DEF IInv

LEMMA RefuseStep == IInv /\ Refuse => IInv'
  <1> SUFFICES ASSUME IInv, Refuse PROVE IInv'  OBVIOUS
  <1>1. /\ pc = "dispatch" /\ next <= Len(batch) /\ next' = next + 1
        /\ answered' = Append(answered, next)
        /\ UNCHANGED <<pc, steps, batch, validated, results, allSucceeded, failures, cooled,
                       coolDowns, cache, writes>>
    BY DEF Refuse, Dispatching, Answer, breakerVars, stepVars
  <1>2. next \in Nat /\ next <= MaxBatch /\ next \in Positions
    BY <1>1, DispatchConstants DEF IInv, TypeOK, Positions
  <1>3. TypeOK'
    <2>1. answered' \in Seq(Positions)
      BY <1>1, <1>2 DEF IInv, TypeOK
    <2>2. next' \in 1..MaxBatch + 1
      BY <1>1, <1>2, DispatchConstants
    <2> QED  BY <1>1, <2>1, <2>2 DEF IInv, TypeOK
  <1>4. Dispatched'
    <2>1. /\ Len(answered') = Len(answered) + 1 /\ answered'[Len(answered) + 1] = next
          /\ \A j \in 1..Len(answered) : answered'[j] = answered[j]
          /\ Len(answered) \in Nat
      BY <1>1, <1>2 DEF IInv, TypeOK
    <2>2. ASSUME NEW i \in 1..next' - 1
          PROVE  \/ \E j \in 1..Len(answered') : answered'[j] = i
                 \/ \E j \in 1..Len(validated) : validated[j] = i
      <3>1. CASE i = next
        BY <3>1, <2>1
      <3>2. CASE i # next
        <4>1. i \in 1..next - 1
          BY <3>2, <1>1, <1>2
        <4>2. \/ \E j \in 1..Len(answered) : answered[j] = i
              \/ \E j \in 1..Len(validated) : validated[j] = i
          BY <4>1, <1>1 DEF IInv, Books, Dispatched
        <4>3. \A j \in 1..Len(answered) : j \in 1..Len(answered')
          BY <2>1
        <4> QED  BY <4>2, <4>3, <2>1
      <3> QED  BY <3>1, <3>2
    <2>3. next' <= Len(batch') + 1 /\ Len(answered') + Len(validated') = next' - 1
      BY <1>1, <1>2, <2>1, TypeFacts DEF IInv, Books, Dispatched
    <2> QED  BY <1>1, <2>2, <2>3 DEF Dispatched
  <1>5. Books'
    BY <1>1, <1>4 DEF IInv, Books, AtRest, Executed, InBatch
  <1>6. Fresh' /\ FileCacheCoherent'
    BY <1>1 DEF IInv, Fresh, FileCacheCoherent, WritePending
  <1>7. Admitted'
    BY <1>1 DEF IInv, Admitted
  <1> QED  BY <1>3, <1>5, <1>6, <1>7 DEF IInv

LEMMA ValidateStep == IInv /\ Validate => IInv'
  <1> SUFFICES ASSUME IInv, Validate PROVE IInv'  OBVIOUS
  <1> DEFINE tool == batch[next].tool
  <1>1. /\ pc = "dispatch" /\ next <= Len(batch) /\ next' = next + 1
        /\ IsAvailable(tool)
        /\ validated' = Append(validated, next)
        /\ UNCHANGED <<pc, steps, batch, answered, results, allSucceeded, failures, cooled,
                       coolDowns, cache, writes>>
    BY DEF Validate, Dispatching, breakerVars, stepVars
  <1>2. next \in Nat /\ next >= 1 /\ next <= MaxBatch /\ next \in Positions
        /\ next' \in 1..MaxBatch + 1
    <2>1. /\ next \in Nat /\ next >= 1 /\ MaxBatch \in Nat
          /\ Len(batch) \in Nat /\ Len(batch) <= MaxBatch
      BY TypeFacts DEF IInv
    <2> QED  BY <1>1, <2>1 DEF Positions
  <1>3. TypeOK'
    <2>1. validated' \in Seq(Positions)
      BY <1>1, <1>2 DEF IInv, TypeOK
    <2> QED  BY <1>1, <1>2, <2>1 DEF IInv, TypeOK
  <1>4. /\ Len(validated') = Len(validated) + 1 /\ validated'[Len(validated) + 1] = next
        /\ \A j \in 1..Len(validated) : validated'[j] = validated[j]
        /\ Len(validated) \in Nat
    BY <1>1, <1>2 DEF IInv, TypeOK
  <1>5. Dispatched'
    <2>2. ASSUME NEW i \in 1..next' - 1
          PROVE  \/ \E j \in 1..Len(answered) : answered[j] = i
                 \/ \E j \in 1..Len(validated') : validated'[j] = i
      <3>1. CASE i = next
        BY <3>1, <1>4
      <3>2. CASE i # next
        <4>1. i \in 1..next - 1
          BY <3>2, <1>1, <1>2
        <4>2. \/ \E j \in 1..Len(answered) : answered[j] = i
              \/ \E j \in 1..Len(validated) : validated[j] = i
          BY <4>1, <1>1 DEF IInv, Books, Dispatched
        <4>3. \A j \in 1..Len(validated) : j \in 1..Len(validated')
          BY <1>4
        <4> QED  BY <4>2, <4>3, <1>4
      <3> QED  BY <3>1, <3>2
    <2>3. next' <= Len(batch') + 1 /\ Len(answered') + Len(validated') = next' - 1
      <3>1. Len(answered) + Len(validated) = next - 1 /\ Len(answered) \in Nat
        BY <1>1, TypeFacts DEF IInv, Books, Dispatched
      <3>2. next <= Len(batch) /\ Len(batch) \in Nat
        BY <1>1, TypeFacts DEF IInv
      <3> QED  BY <1>1, <1>2, <1>4, <3>1, <3>2
    <2> QED  BY <1>1, <2>2, <2>3 DEF Dispatched
  <1>6. Books'
    <2>1. InBatch'
      <3>1. next \in 1..Len(batch)
        BY <1>1, <1>2, TypeFacts DEF IInv
      <3>2. \A j \in 1..Len(validated') : j \in 1..Len(validated) \/ j = Len(validated) + 1
        BY <1>4
      <3> QED  BY <1>1, <1>4, <3>1, <3>2 DEF IInv, Books, InBatch
    <2> QED  BY <1>1, <1>5, <2>1 DEF IInv, Books, AtRest, Executed
  <1>7. Fresh' /\ FileCacheCoherent'
    BY <1>1 DEF IInv, Fresh, FileCacheCoherent, WritePending
  <1>8. Admitted'
    <2> SUFFICES ASSUME NEW t \in Tools, \E k \in 1..Len(validated') : batch[validated'[k]].tool = t
                 PROVE  failures[t] <= Allowed(coolDowns[t])
      BY <1>1 DEF IInv, Admitted
    <2>1. PICK k \in 1..Len(validated') : batch[validated'[k]].tool = t
      OBVIOUS
    <2>2. CASE k \in 1..Len(validated)
      BY <2>1, <2>2, <1>1, <1>4 DEF IInv, Admitted
    <2>3. CASE k = Len(validated) + 1
      <3>1. t = tool
        BY <2>1, <2>3, <1>4
      <3>2. failures[t] \in Nat /\ coolDowns[t] \in Nat
        BY TypeFacts DEF IInv
      <3>3. CASE failures[t] < BreakerThreshold
        <4>1. Allowed(coolDowns[t]) \in Nat /\ BreakerThreshold - 1 <= Allowed(coolDowns[t])
          BY <3>2, AllowedType
        <4> QED  BY <3>2, <3>3, <4>1, DispatchConstants
      <3>4. CASE cooled[t]
        BY <3>4 DEF IInv, Admitted
      <3> QED  BY <3>1, <3>2, <3>3, <3>4, <1>1, DispatchConstants DEF IsAvailable
    <2> QED  BY <2>1, <2>2, <2>3, <1>4
  <1> QED  BY <1>3, <1>6, <1>7, <1>8 DEF IInv

LEMMA DispatchEndsStep == IInv /\ DispatchEnds => IInv'
  <1> SUFFICES ASSUME IInv, DispatchEnds PROVE IInv'  OBVIOUS
  <1>1. /\ pc = "dispatch" /\ pc' = "execute" /\ next > Len(batch) /\ next' = 1
        /\ UNCHANGED <<steps, batch, validated, answered, results, allSucceeded, failures, cooled,
                       coolDowns, cache, writes>>
    BY DEF DispatchEnds, breakerVars, stepVars
  <1>2. results = <<>>
    BY <1>1 DEF IInv, Books, InBatch
  <1>3. TypeOK'
    BY <1>1, DispatchConstants DEF IInv, TypeOK, Locations
  <1>4. /\ next = Len(batch) + 1 /\ Len(validated) \in Nat /\ Len(answered) \in Nat
        /\ Len(batch) \in Nat /\ Len(batch) <= MaxBatch
        /\ Len(answered) + Len(validated) = Len(batch)
    BY <1>1, TypeFacts DEF IInv, Books, Dispatched
  <1>5. Applications' = 0 /\ Refusals' = Len(answered)
    <2>1. results' = <<>> /\ Len(results') = 0
      BY <1>1, <1>2
    <2>2. next' = 1 /\ Len(batch') = Len(batch) /\ Len(validated') = Len(validated)
      BY <1>1
    <2>3. Applications' = next' - 1 - Len(results') /\ Refusals' = Len(batch') - Len(validated')
      BY DEF Applications, Refusals
    <2>4. Applications' = 0
      BY <2>1, <2>2, <2>3
    <2>5. Refusals' = Len(batch) - Len(validated)
      BY <2>2, <2>3
    <2> QED  BY <2>4, <2>5, <1>4
  <1>6. Executed'
    BY <1>1, <1>2, <1>4, <1>5 DEF IInv, Books, Dispatched, Executed
  <1>7. Books'
    BY <1>1, <1>6 DEF IInv, Books, AtRest, Dispatched, InBatch
  <1>8. Fresh' /\ FileCacheCoherent'
    BY <1>1 DEF IInv, Fresh, FileCacheCoherent, WritePending
  <1>9. Admitted'
    <2> SUFFICES ASSUME NEW t \in Tools,
                        \E k \in 1..Len(validated) : batch[validated[k]].tool = t
                 PROVE  failures[t] + Len(validated) <= Allowed(coolDowns[t] + 1)
      <3>1. /\ \A t \in Tools : failures'[t] = failures[t] /\ coolDowns'[t] = coolDowns[t]
            /\ \A t \in Tools : (failures[t] + Len(validated) - 0) = failures[t] + Len(validated)
        BY <1>1, <1>4, TypeFacts DEF IInv
      <3>2. Applications' + 1 = 1 /\ Len(validated') = Len(validated)
        BY <1>1, <1>5
      <3> QED  BY <1>1, <1>5, <3>1, <3>2 DEF IInv, Admitted
    <2>1. failures[t] <= Allowed(coolDowns[t]) /\ failures[t] \in Nat /\ coolDowns[t] \in Nat
      BY <1>1, TypeFacts DEF IInv, Admitted
    <2>2. Allowed(coolDowns[t]) \in Nat /\ Allowed(coolDowns[t] + 1) = Allowed(coolDowns[t]) + MaxBatch
      BY <2>1, AllowedType
    <2> QED  BY <2>1, <2>2, <1>4, DispatchConstants
  <1> QED  BY <1>3, <1>7, <1>8, <1>9 DEF IInv

-----------------------------------------------------------------------------
\* What the waiting results belong to, when more calls are run ...
LEMMA Launched ==
    ASSUME IInv, Executing, NEW n \in Nat,
           next + n - 1 <= Len(validated), next' = next + n,
           results' \in Seq(Pending), Len(results') = n,
           \A k \in 1..n : results'[k].of = validated[next - 1 + k],
           UNCHANGED <<pc, batch, validated, answered, failures, cooled, coolDowns>>
    PROVE  Books' /\ Admitted'
  <1>1. pc = "execute" /\ results = <<>> /\ next <= Len(validated) /\ Len(results) = 0
    BY DEF Executing
  <1>2. /\ pc' = "execute" /\ batch' = batch /\ validated' = validated /\ answered' = answered
        /\ failures' = failures /\ cooled' = cooled /\ coolDowns' = coolDowns
    BY <1>1
  <1>3. Applications = next - 1 /\ Applications \in Nat /\ next \in Nat
    BY <1>1, TypeFacts DEF IInv, Applications
  <1>4. Applications' = next' - 1 - Len(results') /\ Refusals' = Refusals
    BY <1>2 DEF Applications, Refusals
  <1>5. Applications' = Applications
    BY <1>3, <1>4
  <1>6. Executed'
    <2>1. Len(validated) <= Len(batch) /\ Len(answered) = Refusals + Applications
      BY <1>1 DEF IInv, Books, Executed
    <2>2. \A k \in 1..Applications : answered[Refusals + k] = validated[k]
      BY <1>1 DEF IInv, Books, Executed
    <2>3. \A i \in 1..Len(batch) : \/ \E j \in 1..Refusals : answered[j] = i
                                   \/ \E j \in 1..Len(validated) : validated[j] = i
      BY <1>1 DEF IInv, Books, Executed
    <2>4. next' <= Len(validated) + 1 /\ Len(results') <= next' - 1
      BY <1>3, TypeFacts DEF IInv
    <2>5. \A k \in 1..Len(results') : results'[k].of = validated[Applications + k]
      BY <1>3
    <2> QED  BY <1>2, <1>4, <1>5, <2>1, <2>2, <2>3, <2>4, <2>5 DEF Executed
  <1>7. Books'
    BY <1>2, <1>6 DEF IInv, Books, AtRest, Dispatched, InBatch
  <1>8. Admitted'
    BY <1>2, <1>5, <1>1 DEF IInv, Admitted
  <1> QED  BY <1>7, <1>8

\* ... and when the next one is answered.
LEMMA Answered ==
    ASSUME IInv, pc = "execute", Applications' = Applications + 1,
           Applications + 1 <= Len(validated),
           answered' = Append(answered, validated[Applications + 1]),
           next' <= Len(validated) + 1, Len(results') <= next' - 1,
           \A k \in 1..Len(results') : results'[k].of = validated[Applications + 1 + k],
           UNCHANGED <<pc, batch, validated>>
    PROVE  Books'
  <1>1. pc' = "execute" /\ batch' = batch /\ validated' = validated
    OBVIOUS
  <1>2. Applications \in Nat /\ Refusals \in Nat
    <2>1. Len(results) <= next - 1 /\ Len(validated) <= Len(batch)
      BY DEF IInv, Books, Executed
    <2> QED  BY <2>1, TypeFacts DEF IInv, Applications, Refusals
  <1>3. Refusals' = Refusals
    BY <1>1 DEF Refusals
  <1>4. Len(answered) = Refusals + Applications /\ Len(validated) <= Len(batch)
    BY DEF IInv, Books, Executed
  <1>5. /\ Len(answered') = Len(answered) + 1
        /\ answered'[Len(answered) + 1] = validated[Applications + 1]
        /\ \A j \in 1..Len(answered) : answered'[j] = answered[j]
    BY DEF IInv, TypeOK
  <1>6. \A k \in 1..Applications + 1 : answered'[Refusals + k] = validated[k]
    <2> SUFFICES ASSUME NEW k \in 1..Applications + 1
                 PROVE  answered'[Refusals + k] = validated[k]
      OBVIOUS
    <2>1. CASE k = Applications + 1
      <3>1. Refusals + k = Len(answered) + 1
        BY <2>1, <1>2, <1>4
      <3> QED  BY <2>1, <3>1, <1>5
    <2>2. CASE k # Applications + 1
      <3>1. k \in 1..Applications /\ Refusals + k \in 1..Len(answered)
        BY <2>2, <1>2, <1>4
      <3>2. answered[Refusals + k] = validated[k]
        BY <3>1 DEF IInv, Books, Executed
      <3> QED  BY <3>1, <3>2, <1>5
    <2> QED  BY <2>1, <2>2
  <1>7. \A i \in 1..Len(batch) : \/ \E j \in 1..Refusals : answered'[j] = i
                                 \/ \E j \in 1..Len(validated) : validated[j] = i
    <2>1. \A i \in 1..Len(batch) : \/ \E j \in 1..Refusals : answered[j] = i
                                   \/ \E j \in 1..Len(validated) : validated[j] = i
      BY DEF IInv, Books, Executed
    <2>2. \A j \in 1..Refusals : answered'[j] = answered[j]
      BY <1>2, <1>4, <1>5
    <2> QED  BY <2>1, <2>2
  <1>8. Executed'
    <2>1. Len(answered') = Refusals + (Applications + 1)
      BY <1>2, <1>4, <1>5
    <2>2. /\ next' <= Len(validated') + 1 /\ Len(validated') <= Len(batch')
          /\ Len(answered') = Refusals' + Applications'
      BY <1>1, <1>3, <1>4, <2>1
    <2>3. /\ \A k \in 1..Applications' : answered'[Refusals' + k] = validated'[k]
          /\ \A k \in 1..Len(results') : results'[k].of = validated'[Applications' + k]
      BY <1>1, <1>3, <1>6
    <2>4. \A i \in 1..Len(batch') : \/ \E j \in 1..Refusals' : answered'[j] = i
                                    \/ \E j \in 1..Len(validated') : validated'[j] = i
      BY <1>1, <1>3, <1>7
    <2> QED  BY <2>2, <2>3, <2>4 DEF Executed
  <1> QED  BY <1>1, <1>8 DEF IInv, Books, AtRest, Dispatched, InBatch

LEMMA RunReadsStep == IInv /\ RunReads => IInv'
  <1> SUFFICES ASSUME IInv, RunReads PROVE IInv'  OBVIOUS
  <1> DEFINE n == Cardinality(ReadBatch)
  <1>1. /\ Executing /\ n >= 2 /\ next' = next + n
        /\ UNCHANGED <<pc, steps, batch, validated, answered, allSucceeded, failures, cooled,
                       coolDowns, cache, writes>>
    BY DEF RunReads, breakerVars, stepVars
  <1>2. PICK rs \in [1 .. n -> UNION {ReadResult(i) : i \in ReadBatch}] :
            (\A i \in ReadBatch : rs[i - next + 1] \in ReadResult(i)) /\ results' = rs
    BY DEF RunReads
  <1>3. n \in Nat /\ ReadBatch = next .. next + n - 1 /\ ReadBatch \subseteq next .. Len(validated)
    BY ReadBatchIsInterval DEF IInv
  <1>4. next \in Nat /\ next >= 1 /\ Len(validated) \in Nat
    BY TypeFacts DEF IInv
  <1>5. next + n - 1 <= Len(validated)
    <2>1. next + n - 1 \in ReadBatch
      BY <1>1, <1>3, <1>4
    <2> QED  BY <2>1, <1>3, <1>4
  <1>6. ASSUME NEW k \in 1..n
        PROVE  /\ rs[k].of = validated[next - 1 + k] /\ rs[k] \in Pending
               /\ LET tool == batch[rs[k].of].tool
                  IN  IsReadOnly(tool) /\ rs[k].version = writes[AreaOf(tool)]
    <2> DEFINE i == next - 1 + k
    <2>1. i \in ReadBatch /\ i - next + 1 = k /\ i \in 1..Len(validated) /\ i \in next..i
      BY <1>3, <1>4, <1>5
    <2>2. rs[k] \in ReadResult(i)
      BY <1>2, <2>1
    <2>3. IsReadOnly(ValidatedCall(i).tool)
      BY <2>1 DEF ReadBatch
    <2>4. /\ rs[k].of = validated[i] /\ rs[k].version = writes[AreaOf(ValidatedCall(i).tool)]
          /\ rs[k].kind \in ResultsOf(ValidatedCall(i).tool)
          /\ rs[k] = [of |-> rs[k].of, kind |-> rs[k].kind, version |-> rs[k].version]
      BY <2>2 DEF ReadResult
    <2>5. rs[k].of \in Nat /\ rs[k].version \in Nat /\ rs[k].kind \in ResultKinds
      BY <2>1, <2>4, TypeFacts, ToolFacts DEF IInv
    <2>6. rs[k] \in Pending
      BY <2>4, <2>5 DEF Pending
    <2> QED  BY <2>3, <2>4, <2>6 DEF ValidatedCall
  <1>7. results' \in Seq(Pending) /\ Len(results') = n
    <2>1. rs \in [1..n -> Pending]
      BY <1>2, <1>6
    <2> QED  BY <2>1, <1>2, <1>3
  <1>8. TypeOK'
    <2>1. next' \in 1..MaxBatch + 1
      <3>1. Len(validated) <= MaxBatch
        BY <1>1, TypeFacts DEF IInv, Books, Executed, Executing
      <3> QED  BY <3>1, <1>1, <1>3, <1>4, <1>5, DispatchConstants
    <2> QED  BY <1>1, <1>7, <2>1 DEF IInv, TypeOK
  <1>9. Books' /\ Admitted'
    <2>1. \A k \in 1..n : results'[k].of = validated[next - 1 + k]
      BY <1>2, <1>6
    <2> QED  BY <1>1, <1>3, <1>5, <1>7, <2>1, Launched
  <1>10. Fresh'
    <2>1. \A k \in 1..n : LET tool == batch[results'[k].of].tool
                          IN  IsReadOnly(tool) /\ results'[k].version = writes[AreaOf(tool)]
      BY <1>2, <1>6
    <2> QED  BY <1>1, <1>7, <2>1 DEF Fresh
  <1>11. FileCacheCoherent'
    <2>1. ~WritePending
      BY <1>1 DEF WritePending, Executing
    <2> QED  BY <1>1, <2>1 DEF IInv, FileCacheCoherent
  <1> QED  BY <1>8, <1>9, <1>10, <1>11 DEF IInv

LEMMA HitCacheStep == IInv /\ HitCache => IInv'
  <1> SUFFICES ASSUME IInv, HitCache PROVE IInv'  OBVIOUS
  <1>1. /\ pc = "execute" /\ results = <<>> /\ next <= Len(validated) /\ next' = next + 1
        /\ answered' = Append(answered, validated[next])
        /\ UNCHANGED <<pc, steps, batch, validated, results, allSucceeded, failures, cooled,
                       coolDowns, cache, writes>>
    BY DEF HitCache, Executing, Answer, breakerVars, stepVars
  <1>2. Len(validated) <= Len(batch)
    BY <1>1 DEF IInv, Books, Executed
  <1>3. /\ next \in Nat /\ next >= 1 /\ next <= Len(validated) /\ Len(validated) \in Nat
        /\ Len(validated) <= MaxBatch /\ MaxBatch \in Nat
    BY <1>1, <1>2, TypeFacts DEF IInv
  <1>4. Len(results) = 0 /\ Len(results') = 0
    BY <1>1
  <1>5. Applications = next - 1 /\ Applications' = Applications + 1
    <2>1. Applications' = next' - 1 - Len(results')
      BY DEF Applications
    <2> QED  BY <1>1, <1>3, <1>4, <2>1 DEF Applications
  <1>6. TypeOK'
    <2>1. validated[next] \in Positions
      BY <1>3 DEF IInv, TypeOK
    <2> QED  BY <1>1, <1>3, <2>1 DEF IInv, TypeOK
  <1>7. Books'
    BY <1>1, <1>3, <1>4, <1>5, Answered
  <1>8. Fresh' /\ FileCacheCoherent'
    BY <1>1 DEF IInv, Fresh, FileCacheCoherent, WritePending
  <1>9. Admitted'
    <2> SUFFICES ASSUME NEW t \in Tools, pc' = "execute",
                        NEW k \in Applications' + 1..Len(validated), batch[validated[k]].tool = t
                 PROVE  failures[t] + Len(validated) - Applications' <= Allowed(coolDowns[t] + 1)
      BY <1>1 DEF IInv, Admitted
    <2>1. k \in Applications + 1..Len(validated)
      BY <1>3, <1>5
    <2>2. failures[t] + Len(validated) - Applications <= Allowed(coolDowns[t] + 1)
      BY <1>1, <2>1 DEF IInv, Admitted
    <2>3. failures[t] \in Nat /\ coolDowns[t] \in Nat
      BY TypeFacts DEF IInv
    <2>4. Allowed(coolDowns[t] + 1) \in Nat
      <3>1. coolDowns[t] + 1 \in Nat
        BY <2>3
      <3> QED  BY <3>1, AllowedType
    <2>5. Len(validated) \in Nat /\ Applications \in Nat /\ Applications' = Applications + 1
      BY <1>3, <1>5
    <2> QED  BY <2>2, <2>3, <2>4, <2>5
  <1> QED  BY <1>6, <1>7, <1>8, <1>9 DEF IInv

LEMMA RunReadStep == IInv /\ RunRead => IInv'
  <1> SUFFICES ASSUME IInv, RunRead PROVE IInv'  OBVIOUS
  <1>1. /\ Executing /\ Cardinality(ReadBatch) = 1 /\ next' = next + 1
        /\ UNCHANGED <<pc, steps, batch, validated, answered, allSucceeded, failures, cooled,
                       coolDowns, cache, writes>>
    BY DEF RunRead, breakerVars, stepVars
  <1>2. PICK r \in ReadResult(next) : results' = <<r>>
    BY DEF RunRead
  <1>3. next \in Nat /\ next >= 1 /\ Len(validated) \in Nat /\ next <= Len(validated)
    BY <1>1, TypeFacts DEF IInv, Executing
  <1>4. IsReadOnly(ValidatedCall(next).tool)
    <2>1. next \in ReadBatch
      BY <1>1, <1>3, ReadBatchIsInterval DEF IInv
    <2> QED  BY <2>1, <1>3 DEF ReadBatch
  <1>5. /\ r.of = validated[next] /\ r.version = writes[AreaOf(ValidatedCall(next).tool)]
        /\ r.kind \in ResultsOf(ValidatedCall(next).tool)
        /\ r = [of |-> r.of, kind |-> r.kind, version |-> r.version]
    BY <1>2 DEF ReadResult
  <1>6. r \in Pending
    <2>1. r.of \in Nat /\ r.version \in Nat /\ r.kind \in ResultKinds
      BY <1>3, <1>5, TypeFacts, ToolFacts DEF IInv
    <2> QED  BY <1>5, <2>1 DEF Pending
  <1>7. results' \in Seq(Pending) /\ Len(results') = 1 /\ results'[1] = r
    BY <1>2, <1>6
  <1>8. TypeOK'
    <2>1. next' \in 1..MaxBatch + 1
      BY <1>1, <1>3, TypeFacts DEF IInv, Books, Executed, Executing
    <2> QED  BY <1>1, <1>7, <2>1 DEF IInv, TypeOK
  <1>9. Books' /\ Admitted'
    <2>1. \A k \in 1..1 : results'[k].of = validated[next - 1 + k]
      BY <1>3, <1>5, <1>7
    <2>2. next + 1 - 1 <= Len(validated)
      BY <1>3
    <2> QED  BY <1>1, <1>7, <2>1, <2>2, Launched
  <1>10. Fresh'
    BY <1>1, <1>4, <1>5, <1>7 DEF Fresh, ValidatedCall
  <1>11. FileCacheCoherent'
    BY <1>1 DEF IInv, FileCacheCoherent, WritePending, Executing
  <1> QED  BY <1>8, <1>9, <1>10, <1>11 DEF IInv

LEMMA RunWriteStep == IInv /\ RunWrite => IInv'
  <1> SUFFICES ASSUME IInv, RunWrite PROVE IInv'  OBVIOUS
  <1> DEFINE tool == ValidatedCall(next).tool
  <1>1. /\ Executing /\ ~IsReadOnly(tool) /\ next' = next + 1
        /\ UNCHANGED <<pc, steps, batch, validated, answered, allSucceeded, failures, cooled,
                       coolDowns, cache>>
    BY DEF RunWrite, breakerVars, stepVars
  <1>2. PICK kind \in ResultsOf(tool) :
            results' = <<[of |-> validated[next], kind |-> kind, version |-> writes[AreaOf(tool)]]>>
    BY DEF RunWrite
  <1>3. writes' = [writes EXCEPT ![AreaOf(tool)] = @ + 1] \/ writes' = writes
    BY DEF RunWrite
  <1>4. next \in Nat /\ next >= 1 /\ Len(validated) \in Nat /\ next <= Len(validated)
    BY <1>1, TypeFacts DEF IInv, Executing
  <1>5. AreaOf(tool) \in Areas /\ kind \in ResultKinds /\ validated[next] \in Nat
    BY <1>2, <1>4, TypeFacts, ToolFacts DEF IInv
  <1>6. results' \in Seq(Pending) /\ Len(results') = 1 /\ results'[1].of = validated[next]
    BY <1>2, <1>5 DEF IInv, TypeOK, Pending
  <1>7. TypeOK'
    <2>1. next' \in 1..MaxBatch + 1
      BY <1>1, <1>4, TypeFacts DEF IInv, Books, Executed, Executing
    <2>2. writes' \in [Areas -> Nat]
      <3> DEFINE area == AreaOf(tool)
      <3>1. writes \in [Areas -> Nat] /\ area \in Areas
        BY <1>5 DEF IInv, TypeOK
      <3>2. writes' = [writes EXCEPT ![area] = @ + 1] \/ writes' = writes
        BY <1>3
      <3> HIDE DEF area
      <3> QED  BY <3>1, <3>2
    <2> QED  BY <1>1, <1>6, <2>1, <2>2 DEF IInv, TypeOK
  <1>8. Books' /\ Admitted'
    <2>1. \A k \in 1..1 : results'[k].of = validated[next - 1 + k]
      BY <1>4, <1>6
    <2>2. next + 1 - 1 <= Len(validated)
      BY <1>4
    <2> QED  BY <1>1, <1>6, <2>1, <2>2, Launched
  <1>9. batch'[results'[1].of].tool = tool /\ results' # <<>>
    <2>1. batch' = batch
      BY <1>1
    <2>2. results' # <<>>
      BY <1>2
    <2> QED  BY <1>6, <2>1, <2>2 DEF ValidatedCall
  <1>10. Fresh' /\ FileCacheCoherent'
    BY <1>1, <1>6, <1>9 DEF Fresh, FileCacheCoherent, WritePending
  <1> QED  BY <1>7, <1>8, <1>10 DEF IInv

LEMMA StepEndsStep == IInv /\ StepEnds => IInv'
  <1> SUFFICES ASSUME IInv, StepEnds PROVE IInv'  OBVIOUS
  <1>1. /\ pc' = "model" /\ batch' = <<>> /\ next' = 1 /\ validated' = <<>> /\ answered' = <<>>
        /\ allSucceeded' = TRUE /\ results = <<>>
        /\ UNCHANGED <<steps, results, failures, cooled, coolDowns, cache, writes>>
    BY DEF StepEnds, Finished, breakerVars
  <1>2. TypeOK'
    BY <1>1, DispatchConstants DEF IInv, TypeOK, Locations
  <1>3. Books'
    BY <1>1 DEF IInv, Books, AtRest, Dispatched, Executed, InBatch
  <1>4. Fresh' /\ FileCacheCoherent'
    BY <1>1 DEF IInv, Fresh, FileCacheCoherent, WritePending
  <1>5. Admitted'
    BY <1>1 DEF IInv, Admitted
  <1> QED  BY <1>2, <1>3, <1>4, <1>5 DEF IInv

LEMMA CoolDownStep == ASSUME NEW tool \in Tools PROVE IInv /\ CoolDown(tool) => IInv'
  <1> SUFFICES ASSUME IInv, CoolDown(tool) PROVE IInv'  OBVIOUS
  <1>1. /\ coolDowns[tool] < MaxCoolDowns
        /\ cooled' = [cooled EXCEPT ![tool] = TRUE]
        /\ coolDowns' = [coolDowns EXCEPT ![tool] = @ + 1]
        /\ UNCHANGED <<pc, steps, batch, next, validated, answered, results, allSucceeded,
                       failures, cache, writes>>
    BY DEF CoolDown, stepVars
  <1>2. TypeOK'
    <2>1. coolDowns' \in [Tools -> 0 .. MaxCoolDowns] /\ cooled' \in [Tools -> BOOLEAN]
      BY <1>1, DispatchConstants DEF IInv, TypeOK
    <2> QED  BY <1>1, <2>1 DEF IInv, TypeOK
  <1>3. Books'
    BY <1>1 DEF IInv, Books, AtRest, Dispatched, Executed, InBatch, Applications, Refusals
  <1>4. Fresh' /\ FileCacheCoherent'
    BY <1>1 DEF IInv, Fresh, FileCacheCoherent, WritePending
  <1>5. Admitted'
    <2> SUFFICES ASSUME NEW t \in Tools
                 PROVE  /\ cooled'[t] => failures[t] <= Allowed(coolDowns'[t])
                        /\ pc = "dispatch" /\ (\E k \in 1..Len(validated) : batch[validated[k]].tool = t)
                             => failures[t] <= Allowed(coolDowns'[t])
                        /\ pc = "execute" /\ (\E k \in Applications + 1..Len(validated) :
                                                 batch[validated[k]].tool = t)
                             => failures[t] + Len(validated) - Applications <= Allowed(coolDowns'[t] + 1)
                        /\ failures[t] <= Allowed(coolDowns'[t] + 1)
      <3>1. Applications' = Applications
        BY <1>1 DEF Applications
      <3> QED  BY <1>1, <3>1 DEF Admitted
    <2>1. CASE t # tool
      <3>1. cooled'[t] = cooled[t] /\ coolDowns'[t] = coolDowns[t]
        BY <1>1, <2>1 DEF IInv, TypeOK
      <3> QED  BY <3>1 DEF IInv, Admitted
    <2>2. CASE t = tool
      <3>1. coolDowns'[t] = coolDowns[t] + 1
        BY <1>1, <2>2 DEF IInv, TypeOK
      <3>2. coolDowns[t] \in Nat /\ coolDowns[t] + 1 \in Nat
        BY TypeFacts DEF IInv
      <3>3. /\ Allowed(coolDowns[t]) \in Nat /\ MaxBatch \in Nat
            /\ Allowed(coolDowns[t] + 1) = Allowed(coolDowns[t]) + MaxBatch
            /\ Allowed(coolDowns[t] + 1 + 1) = Allowed(coolDowns[t] + 1) + MaxBatch
        BY <3>2, AllowedType, DispatchConstants
      <3>4. failures[t] <= Allowed(coolDowns[t] + 1) /\ failures[t] \in Nat
        BY TypeFacts DEF IInv, Admitted
      <3>5. ASSUME pc = "execute", \E k \in Applications + 1..Len(validated) :
                                                 batch[validated[k]].tool = t
            PROVE  failures[t] + Len(validated) - Applications <= Allowed(coolDowns[t] + 1 + 1)
        <4>1. failures[t] + Len(validated) - Applications <= Allowed(coolDowns[t] + 1)
          BY <3>5 DEF IInv, Admitted
        <4>2. Len(validated) \in Nat /\ Applications \in Int
          BY TypeFacts DEF IInv, Applications
        <4> QED  BY <4>1, <4>2, <3>3, <3>4
      <3>6. failures[t] <= Allowed(coolDowns[t] + 1 + 1)
        BY <3>3, <3>4
      <3> QED  BY <3>1, <3>4, <3>5, <3>6
    <2> QED  BY <2>1, <2>2
  <1> QED  BY <1>2, <1>3, <1>4, <1>5 DEF IInv

\* The first of the waiting results is taken.
LEMMA ResultTaken ==
    ASSUME IInv, ApplyResult
    PROVE  /\ results \in Seq(Pending) /\ Len(results) \in Nat /\ Len(results) >= 1
           /\ results' \in Seq(Pending) /\ Len(results') = Len(results) - 1
           /\ \A k \in 1..Len(results') : results'[k] = results[k + 1]
  <1>1. results \in Seq(Pending) /\ results # <<>>
    BY DEF IInv, TypeOK, ApplyResult
  <1>2. Len(results) \in Nat /\ Len(results) >= 1
    BY <1>1, EmptySeq, TypeFacts DEF IInv
  <1>3. results' = SubSeq(results, 1, 0) \o SubSeq(results, 2, Len(results))
    BY DEF ApplyResult, Applied
  <1>4. SubSeq(results, 1, 0) = <<>>
    BY <1>1, <1>2, SubSeqProperties
  <1>5. /\ SubSeq(results, 2, Len(results)) \in Seq(Pending)
        /\ Len(SubSeq(results, 2, Len(results))) = Len(results) - 1
        /\ \A k \in 1..Len(results) - 1 : SubSeq(results, 2, Len(results))[k] = results[k + 1]
    <2>1. \A i \in 2..Len(results) : results[i] \in Pending
      BY <1>1, <1>2
    <2> DEFINE rest == SubSeq(results, 2, Len(results))
    <2>2. /\ rest \in Seq(Pending)
          /\ Len(rest) = IF 2 <= Len(results) THEN Len(results) - 2 + 1 ELSE 0
          /\ \A k \in 1..Len(results) - 2 + 1 : rest[k] = results[2 + k - 1]
      <3>1. Len(results) \in Int /\ 2 \in Int
        BY <1>2
      <3> QED  BY <2>1, <3>1, SubSeqProperties
    <2> HIDE DEF rest
    <2>3. Len(rest) = Len(results) - 1
      <3>1. \A n \in Nat : n >= 1 => n - 1 = IF 2 <= n THEN n - 2 + 1 ELSE 0
        OBVIOUS
      <3>2. Len(results) - 1 = IF 2 <= Len(results) THEN Len(results) - 2 + 1 ELSE 0
        BY <1>2, <3>1
      <3> QED  BY <2>2, <3>2
    <2>4. \A k \in 1..Len(results) - 1 : rest[k] = results[k + 1]
      <3>1. \A k \in 1..Len(results) - 1 : k \in 1..Len(results) - 2 + 1 /\ 2 + k - 1 = k + 1
        BY <1>2
      <3> QED  BY <2>2, <3>1
    <2> QED  BY <2>2, <2>3, <2>4 DEF rest
  <1>6. results' = SubSeq(results, 2, Len(results))
    BY <1>3, <1>4, <1>5, ConcatEmptySeq
  <1> QED  BY <1>1, <1>2, <1>5, <1>6

LEMMA ApplyResultStep == IInv /\ ApplyResult => IInv'
  <1> SUFFICES ASSUME IInv, ApplyResult PROVE IInv'  OBVIOUS
  <1> DEFINE r == results[1]
             tool == batch[r.of].tool
             call == batch[r.of]
  <1>1. /\ pc = "execute" /\ pc' = "execute" /\ batch' = batch /\ validated' = validated
        /\ next' = next /\ steps' = steps /\ writes' = writes
        /\ allSucceeded' = (allSucceeded /\ r.kind = "ok")
        /\ answered' = Append(answered, r.of)
        /\ CacheAfter(call, r)
        /\ \/ r.kind = "ok" /\ RecordSuccess(tool)
           \/ r.kind = "cancelled" /\ UNCHANGED breakerVars
           \/ r.kind \in {"failed", "refused"} /\ RecordFailure(tool)
    BY DEF IInv, Books, InBatch, ApplyResult, Applied, Answer, stepVars
  <1>2. /\ results \in Seq(Pending) /\ Len(results) \in Nat /\ Len(results) >= 1
        /\ results' \in Seq(Pending) /\ Len(results') = Len(results) - 1
        /\ \A k \in 1..Len(results') : results'[k] = results[k + 1]
    BY ResultTaken
  <1>3. /\ next <= Len(validated) + 1 /\ Len(results) <= next - 1 /\ Len(validated) <= Len(batch)
        /\ \A k \in 1..Len(results) : results[k].of = validated[Applications + k]
    BY <1>1 DEF IInv, Books, Executed
  <1>4. /\ next \in Nat /\ Len(validated) \in Nat /\ Len(validated) <= MaxBatch /\ MaxBatch \in Nat
        /\ BreakerThreshold \in Nat
    BY <1>3, TypeFacts DEF IInv
  <1>5. /\ Applications = next - 1 - Len(results) /\ Applications \in Nat
        /\ Applications + 1 \in 1..Len(validated) /\ Applications' = Applications + 1
    <2>1. Applications' = next' - 1 - Len(results')
      BY DEF Applications
    <2> QED  BY <2>1, <1>1, <1>2, <1>3, <1>4 DEF Applications
  <1>6. r.of = validated[Applications + 1] /\ r.of \in 1..Len(batch) /\ r.of \in Positions
    <2>1. r.of = validated[Applications + 1]
      BY <1>2, <1>3
    <2> QED  BY <2>1, <1>5, TypeFacts DEF IInv, Books, InBatch
  <1>7. r \in Pending /\ tool \in Tools /\ call \in [tool : Tools, arg : Args]
    BY <1>2, <1>6, TypeFacts, DispatchConstants DEF IInv
  <1>8. Books'
    <2>1. next' <= Len(validated) + 1 /\ Len(results') <= next' - 1
      BY <1>1, <1>2, <1>3, <1>4
    <2>2. \A k \in 1..Len(results') : results'[k].of = validated[Applications + 1 + k]
      <3> SUFFICES ASSUME NEW k \in 1..Len(results')
                   PROVE  results'[k].of = validated[Applications + 1 + k]
        OBVIOUS
      <3>1. k \in Nat /\ k + 1 \in 1..Len(results)
        BY <1>2
      <3>a. Applications + (k + 1) = Applications + 1 + k
        BY <3>1, <1>5
      <3>2. results[k + 1].of = validated[Applications + (k + 1)]
        BY <3>1, <1>3
      <3> QED  BY <3>1, <3>a, <3>2, <1>2
    <2>3. answered' = Append(answered, validated[Applications + 1]) /\ Applications + 1 <= Len(validated)
      BY <1>1, <1>5, <1>6
    <2> QED  BY <1>1, <1>5, <2>1, <2>2, <2>3, Answered
  <1>9. /\ DOMAIN cache' \subseteq [tool : Tools, arg : Args]
        /\ \A k \in DOMAIN cache' : IsReadOnly(k.tool) /\ cache'[k] \in Nat
    <2>1. /\ DOMAIN cache \subseteq [tool : Tools, arg : Args]
          /\ \A k \in DOMAIN cache : IsReadOnly(k.tool) /\ cache[k] \in Nat
      BY DEF IInv, TypeOK
    <2>2. CASE cache' = cache
      BY <2>1, <2>2
    <2>3. CASE IsReadOnly(tool) /\ Put(call, r.version)
      <3>1. KeyOf(call.tool, call.arg) \in [tool : Tools, arg : Args]
            /\ KeyOf(call.tool, call.arg).tool = tool
        BY <1>7 DEF KeyOf
      <3>2. r.version \in Nat
        BY <1>7 DEF Pending
      <3> QED  BY <2>1, <2>3, <3>1, <3>2 DEF Put
    <2>4. CASE Invalidate
      BY <2>1, <2>4 DEF Invalidate
    <2> QED  BY <1>1, <2>2, <2>3, <2>4 DEF CacheAfter
  <1>10. /\ failures' \in [Tools -> Nat] /\ cooled' \in [Tools -> BOOLEAN]
         /\ coolDowns' \in [Tools -> 0 .. MaxCoolDowns]
    <2>1. /\ failures \in [Tools -> Nat] /\ cooled \in [Tools -> BOOLEAN]
          /\ coolDowns \in [Tools -> 0 .. MaxCoolDowns] /\ MaxCoolDowns \in Nat /\ tool \in Tools
      BY <1>7, DispatchConstants DEF IInv, TypeOK
    <2> HIDE DEF tool
    <2>2. CASE RecordSuccess(tool)
      BY <2>1, <2>2 DEF RecordSuccess
    <2>3. CASE RecordFailure(tool)
      BY <2>1, <2>3 DEF RecordFailure
    <2>4. CASE UNCHANGED breakerVars
      BY <2>1, <2>4 DEF breakerVars
    <2> QED  BY <1>1, <2>2, <2>3, <2>4
  <1>11. TypeOK'
    <2>1. answered' \in Seq(Positions) /\ allSucceeded' \in BOOLEAN
      BY <1>1, <1>6 DEF IInv, TypeOK
    <2> QED  BY <1>1, <1>2, <1>9, <1>10, <2>1 DEF IInv, TypeOK
  <1>12. ASSUME IsReadOnly(tool) PROVE Fresh' /\ FileCacheCoherent'
    <2>1. \A k \in 1..Len(results) :
              LET its == batch[results[k].of].tool
              IN  IsReadOnly(its) /\ results[k].version = writes[AreaOf(its)]
      BY <1>2, <1>12 DEF IInv, Fresh
    <2>2. Fresh'
      <3>1. \A k \in 1..Len(results') :
              LET its == batch[results'[k].of].tool
              IN  IsReadOnly(its) /\ results'[k].version = writes[AreaOf(its)]
        <4> SUFFICES ASSUME NEW k \in 1..Len(results')
                     PROVE  LET its == batch[results'[k].of].tool
                            IN  IsReadOnly(its) /\ results'[k].version = writes[AreaOf(its)]
          OBVIOUS
        <4>1. k + 1 \in 1..Len(results) /\ results'[k] = results[k + 1]
          BY <1>2
        <4> QED  BY <4>1, <2>1
      <3> QED  BY <1>1, <3>1 DEF Fresh
    <2>3. \A k \in DOMAIN cache : AreaOf(k.tool) = "files" => cache[k] = writes["files"]
      BY <1>12 DEF IInv, FileCacheCoherent, WritePending
    <2>4. \A k \in DOMAIN cache' : AreaOf(k.tool) = "files" => cache'[k] = writes["files"]
      <3>1. CASE cache' = cache
        BY <3>1, <2>3
      <3>2. CASE Put(call, r.version)
        <4>1. KeyOf(call.tool, call.arg).tool = tool
          BY DEF KeyOf
        <4>2. r.version = writes[AreaOf(tool)]
          BY <1>2, <2>1
        <4> QED  BY <3>2, <4>1, <4>2, <2>3 DEF Put
      <3> QED  BY <1>1, <1>12, <3>1, <3>2 DEF CacheAfter
    <2>5. writes'["files"] = writes["files"]
      BY <1>1
    <2>6. FileCacheCoherent'
      BY <2>4, <2>5 DEF FileCacheCoherent
    <2> QED  BY <2>2, <2>6
  <1>13. ASSUME ~IsReadOnly(tool) PROVE Fresh' /\ FileCacheCoherent'
    <2>1. Len(results) = 1
      BY <1>2, <1>13 DEF IInv, Fresh
    <2>2. results' = <<>>
      BY <2>1, <1>2, EmptySeq
    <2>3. \A k \in DOMAIN cache' : AreaOf(k.tool) # "files"
      <3>1. cache' = [k \in {k \in DOMAIN cache : k.tool # "file_read"} |-> cache[k]]
        BY <1>1, <1>13 DEF CacheAfter, Invalidate
      <3> QED  BY <3>1, <1>9 DEF IsReadOnly, AreaOf
    <2>4. Fresh'
      BY <2>2 DEF Fresh
    <2>5. FileCacheCoherent'
      BY <2>3 DEF FileCacheCoherent
    <2> QED  BY <2>4, <2>5
  <1>14. Admitted'
    <2> SUFFICES ASSUME NEW t \in Tools
                 PROVE  /\ cooled'[t] => failures'[t] <= Allowed(coolDowns'[t])
                        /\ (\E k \in Applications' + 1..Len(validated) :
                                                 batch[validated[k]].tool = t)
                             => failures'[t] + Len(validated) - Applications'
                                    <= Allowed(coolDowns'[t] + 1)
                        /\ failures'[t] <= Allowed(coolDowns'[t] + 1)
      BY <1>1 DEF Admitted
    <2>1. /\ failures[t] \in Nat /\ coolDowns[t] \in Nat
          /\ cooled[t] => failures[t] <= Allowed(coolDowns[t])
          /\ failures[t] <= Allowed(coolDowns[t] + 1)
          /\ (\E k \in Applications + 1..Len(validated) : batch[validated[k]].tool = t)
               => failures[t] + Len(validated) - Applications <= Allowed(coolDowns[t] + 1)
      BY <1>1, TypeFacts DEF IInv, Admitted
    <2>2. Allowed(coolDowns[t]) \in Nat /\ Allowed(coolDowns[t] + 1) = Allowed(coolDowns[t]) + MaxBatch
      BY <2>1, AllowedType
    <2>0. /\ Applications \in Nat /\ Applications' = Applications + 1
          /\ Len(validated) \in Nat /\ Len(validated) <= MaxBatch /\ MaxBatch \in Nat
          /\ Applications + 1 \in 1..Len(validated)
      BY <1>4, <1>5
    <2>3. CASE failures'[t] = failures[t] /\ coolDowns'[t] = coolDowns[t] /\ cooled'[t] = cooled[t]
      <3>1. \A k \in Applications' + 1..Len(validated) : k \in Applications + 1..Len(validated)
        BY <2>0
      <3>2. failures[t] + Len(validated) - Applications <= Allowed(coolDowns[t] + 1) =>
              failures[t] + Len(validated) - Applications' <= Allowed(coolDowns[t] + 1)
        BY <2>0, <2>1, <2>2
      <3> QED  BY <2>1, <2>3, <3>1, <3>2
    <2>4. CASE t = tool /\ RecordFailure(tool)
      <3>1. failures'[t] = failures[t] + 1 /\ coolDowns'[t] = coolDowns[t] /\ cooled'[t] = FALSE
        BY <2>4 DEF IInv, TypeOK, RecordFailure
      <3>2. batch[validated[Applications + 1]].tool = t
        BY <1>6, <2>4
      <3>3. failures[t] + Len(validated) - Applications <= Allowed(coolDowns[t] + 1)
        BY <2>1, <3>2, <2>0
      <3>4. failures[t] + 1 + Len(validated) - Applications' <= Allowed(coolDowns[t] + 1)
        BY <3>3, <2>0, <2>1, <2>2
      <3>5. failures[t] + 1 <= Allowed(coolDowns[t] + 1)
        BY <3>3, <2>0, <2>1, <2>2
      <3> QED  BY <3>1, <3>4, <3>5
    <2>5. CASE t = tool /\ RecordSuccess(tool)
      <3>1. failures'[t] = 0 /\ coolDowns'[t] = 0 /\ cooled'[t] = FALSE
        BY <2>5 DEF IInv, TypeOK, RecordSuccess
      <3>2. Allowed(0) \in Nat /\ Allowed(0 + 1) = Allowed(0) + MaxBatch
        BY AllowedType
      <3>3. 0 + Len(validated) - Applications' <= Allowed(0 + 1) /\ 0 <= Allowed(0 + 1)
        BY <3>2, <2>0
      <3> QED  BY <3>1, <3>3
    <2>6. CASE t # tool
      <3>1. failures'[t] = failures[t] /\ coolDowns'[t] = coolDowns[t] /\ cooled'[t] = cooled[t]
        BY <1>1, <2>6 DEF IInv, TypeOK, RecordSuccess, RecordFailure, breakerVars
      <3> QED  BY <3>1, <2>3
    <2>7. CASE UNCHANGED breakerVars
      BY <2>7, <2>3 DEF breakerVars
    <2> QED  BY <1>1, <2>4, <2>5, <2>6, <2>7
  <1> QED  BY <1>8, <1>11, <1>12, <1>13, <1>14 DEF IInv

LEMMA StutterStep == IInv /\ UNCHANGED vars => IInv'
  <1> SUFFICES ASSUME IInv, UNCHANGED vars PROVE IInv'  OBVIOUS
  <1> USE DEF vars, IInv
  <1>1. TypeOK'  BY DEF TypeOK
  <1>2. Books'  BY DEF Books, AtRest, Dispatched, Executed, InBatch, Applications, Refusals
  <1>3. Fresh' /\ FileCacheCoherent'  BY DEF Fresh, FileCacheCoherent, WritePending
  <1>4. Admitted'  BY DEF Admitted, Applications
  <1> QED  BY <1>1, <1>2, <1>3, <1>4

LEMMA Inductive == IInv /\ [Next]_vars => IInv'
  BY ModelCallsStep, LoopDetectedStep, RefuseStep, ValidateStep, DispatchEndsStep, RunReadsStep,
     HitCacheStep, RunReadStep, RunWriteStep, ApplyResultStep, StepEndsStep, CoolDownStep,
     StutterStep DEF Next, Dispatch, Execute, Terminated

LEMMA Invariance == Spec => []IInv
  <1>1. Init => IInv  BY Initially
  <1>2. IInv /\ [Next]_vars => IInv'  BY Inductive
  <1> QED  BY <1>1, <1>2, PTL DEF Spec

-----------------------------------------------------------------------------
\* The types of the loop's locals, of the breaker and of the cache.
THEOREM DispatchTypes == Spec => []TypeOK
  <1>1. IInv => TypeOK  BY DEF IInv
  <1> QED  BY <1>1, Invariance, PTL

\* A step that goes on has answered every call of the model exactly once: the refusals first, then
\* what was executed, in the order of the calls (execute_step, execute_validated_calls).
THEOREM CallsAnswered == Spec => []EveryCallAnswered
  <1>1. IInv => EveryCallAnswered
    <2> SUFFICES ASSUME IInv, Finished PROVE EveryCallAnswered
      BY DEF EveryCallAnswered
    <2>1. pc = "execute" /\ Len(results) = 0 /\ next > Len(validated)
      BY DEF Finished
    <2>2. /\ Len(batch) \in Nat /\ Len(validated) \in Nat /\ Len(validated) <= Len(batch)
          /\ next \in Nat /\ next <= Len(validated) + 1 /\ Len(answered) = Refusals + Applications
          /\ answered \in Seq(Positions) /\ validated \in Seq(Positions)
          /\ \A k \in 1..Applications : answered[Refusals + k] = validated[k]
      BY <2>1, TypeFacts DEF IInv, TypeOK, Books, Executed
    <2>3. Applications = Len(validated) /\ Refusals \in Nat /\ Refusals = Len(batch) - Len(validated)
      BY <2>1, <2>2 DEF Applications, Refusals
    <2>4. Len(answered) = Len(batch)
      BY <2>2, <2>3
    <2>5. ASSUME NEW i \in 1..Len(batch) PROVE \E j \in 1..Len(answered) : answered[j] = i
      <3>1. CASE \E j \in 1..Refusals : answered[j] = i
        BY <3>1, <2>2, <2>3, <2>4
      <3>2. CASE \E j \in 1..Len(validated) : validated[j] = i
        <4>1. PICK j \in 1..Len(validated) : validated[j] = i
          BY <3>2
        <4>2. answered[Refusals + j] = i
          BY <4>1, <2>2, <2>3
        <4>3. Refusals + j \in 1..Len(answered)
          BY <2>2, <2>3, <2>4
        <4> QED  BY <4>2, <4>3
      <3> QED  BY <2>1, <3>1, <3>2 DEF IInv, Books, Executed
    <2>6. SubSeq(answered, Len(batch) - Len(validated) + 1, Len(batch)) = validated
      <3> DEFINE tail == SubSeq(answered, Refusals + 1, Len(batch))
      <3>1. /\ tail \in Seq(Positions) /\ Len(tail) = Len(validated)
            /\ \A k \in 1..Len(tail) : tail[k] = answered[Refusals + k]
        <4>1. Refusals + 1 \in 1..Len(answered) + 1 /\ Len(batch) \in Refusals..Len(answered)
          BY <2>2, <2>3, <2>4
        <4> QED  BY <4>1, <2>2, <2>3, SubSeqProperties
      <3>2. \A k \in 1..Len(validated) : tail[k] = validated[k]
        BY <3>1, <2>2, <2>3
      <3>3. tail = validated
        <4> HIDE DEF tail
        <4> QED  BY <3>1, <3>2, <2>2, SeqEqual
      <3> QED  BY <3>3, <2>3
    <2> QED  BY <2>4, <2>5, <2>6 DEF EveryCallAnswered
  <1> QED  BY <1>1, Invariance, PTL

\* An open breaker lets one batch of calls through for each cooldown, and no more: a tool fails at
\* most so often as the threshold and the batches allow (CircuitBreaker, error_recovery.rs).
THEOREM FailuresContained == Spec => []BreakerContainsFailures
  <1>1. IInv => BreakerContainsFailures
    <2> SUFFICES ASSUME IInv, NEW t \in Tools
                 PROVE  failures[t] <= BreakerThreshold - 1 + MaxBatch * (1 + coolDowns[t])
      BY DEF BreakerContainsFailures
    <2>1. coolDowns[t] \in Nat /\ coolDowns[t] + 1 = 1 + coolDowns[t]
      BY TypeFacts DEF IInv
    <2> QED  BY <2>1 DEF IInv, Admitted, Allowed
  <1> QED  BY <1>1, Invariance, PTL

\* Whatever the run itself has written, a cached file is the file as it is, as soon as the result of
\* the write is applied (apply_tool_result, ToolResultCache).
THEOREM CacheCoherent == Spec => []FileCacheCoherent
  <1>1. IInv => FileCacheCoherent  BY DEF IInv
  <1> QED  BY <1>1, Invariance, PTL

\* What a step of the loop has left: each call of the model is dispatched, executed and answered
\* at most once.
WorkLeft ==
    IF pc = "dispatch" THEN 3 * (Len(batch) + 1 - next) + 2 * Len(validated) + 2
    ELSE IF pc = "execute" THEN 2 * (Len(validated) + 1 - next) + Len(results) + 1
    ELSE 0

\* Once the model has called tools, only the clock moves without using any of it up.
WorkIsUsedUp ==
    [][ /\ pc \in {"dispatch", "execute"}
        /\ ~(\E t \in Tools : CoolDown(t))
        => WorkLeft' < WorkLeft ]_vars

LEMMA DispatchUsesUp ==
    ASSUME IInv, Dispatch
    PROVE  WorkLeft' < WorkLeft
  <1>1. /\ pc = "dispatch" /\ next \in Nat /\ Len(batch) \in Nat /\ Len(validated) \in Nat
        /\ next <= Len(batch) + 1
    BY TypeFacts DEF IInv, Books, Dispatched, Dispatch, LoopDetected, Refuse, Validate,
                     DispatchEnds,
                     Dispatching
  <1>2. WorkLeft = 3 * (Len(batch) + 1 - next) + 2 * Len(validated) + 2
    BY <1>1 DEF WorkLeft
  <1>3. CASE LoopDetected
    <2>1. WorkLeft' = 0
      BY <1>3 DEF LoopDetected, WorkLeft
    <2> QED  BY <1>1, <1>2, <2>1
  <1>4. CASE Refuse
    <2>1. pc' = pc /\ batch' = batch /\ validated' = validated /\ next' = next + 1
      BY <1>4 DEF Refuse, stepVars
    <2>2. WorkLeft' = 3 * (Len(batch) + 1 - (next + 1)) + 2 * Len(validated) + 2
      BY <1>1, <2>1 DEF WorkLeft
    <2> QED  BY <1>1, <1>2, <2>2
  <1>5. CASE Validate
    <2>1. /\ pc' = pc /\ batch' = batch /\ next' = next + 1
          /\ validated' = Append(validated, next) /\ validated \in Seq(Positions)
      BY <1>5 DEF Validate, stepVars, IInv, TypeOK
    <2>2. Len(validated') = Len(validated) + 1
      BY <2>1, AppendProperties
    <2>3. WorkLeft' = 3 * (Len(batch) + 1 - (next + 1)) + 2 * (Len(validated) + 1) + 2
      BY <1>1, <2>1, <2>2 DEF WorkLeft
    <2> QED  BY <1>1, <1>2, <2>3
  <1>6. CASE DispatchEnds
    <2>1. pc' = "execute" /\ validated' = validated /\ results' = results /\ next' = 1
      BY <1>6 DEF DispatchEnds
    <2>2. Len(results) = 0
      BY <1>1 DEF IInv, Books, InBatch
    <2>3. WorkLeft' = 2 * (Len(validated) + 1 - 1) + 0 + 1
      BY <2>1, <2>2 DEF WorkLeft
    <2>4. next = Len(batch) + 1
      BY <1>1, <1>6 DEF DispatchEnds
    <2> QED  BY <1>1, <1>2, <2>3, <2>4
  <1> QED  BY <1>3, <1>4, <1>5, <1>6 DEF Dispatch

\* A step of execution that takes n of the calls and leaves so many results.
LEMMA TakesCalls ==
    ASSUME IInv, pc = "execute", pc' = "execute", validated' = validated,
           NEW n \in Nat, next' = next + n, Len(results') \in Nat,
           Len(results') < 2 * n + Len(results)
    PROVE  WorkLeft' < WorkLeft
  <1>1. next \in Nat /\ Len(validated) \in Nat /\ Len(results) \in Nat
    BY TypeFacts DEF IInv
  <1>2. /\ WorkLeft = 2 * (Len(validated) + 1 - next) + Len(results) + 1
        /\ WorkLeft' = 2 * (Len(validated) + 1 - (next + n)) + Len(results') + 1
    BY DEF WorkLeft
  <1> QED  BY <1>1, <1>2

LEMMA ExecuteUsesUp ==
    ASSUME IInv, IInv', Execute
    PROVE  WorkLeft' < WorkLeft
  <1>1. /\ next \in Nat /\ Len(validated) \in Nat /\ Len(results) \in Nat
        /\ Len(results') \in Nat
    BY TypeFacts DEF IInv
  <1>2. CASE RunReads
    <2> DEFINE n == Cardinality(ReadBatch)
    <2>1. /\ pc = "execute" /\ pc' = "execute" /\ validated' = validated /\ next' = next + n
          /\ results = <<>> /\ n >= 2
      BY <1>2 DEF RunReads, Executing
    <2>2. n \in Nat
      BY ReadBatchIsInterval DEF IInv
    <2>3. Len(results') = n
      <3>1. PICK rs \in [1 .. n -> UNION {ReadResult(i) : i \in ReadBatch}] : results' = rs
        BY <1>2 DEF RunReads
      <3> HIDE DEF n
      <3> QED  BY <3>1, <2>2
    <2>4. Len(results') < 2 * n + Len(results)
      <3> HIDE DEF n
      <3> QED  BY <2>1, <2>2, <2>3
    <2> QED  BY <1>1, <2>1, <2>2, <2>4, TakesCalls
  <1>3. CASE HitCache
    <2>1. /\ pc = "execute" /\ pc' = "execute" /\ validated' = validated /\ next' = next + 1
          /\ results' = results
      BY <1>3 DEF HitCache, Executing
    <2> QED  BY <1>1, <2>1, TakesCalls
  <1>4. CASE RunRead
    <2>1. /\ pc = "execute" /\ pc' = "execute" /\ validated' = validated /\ next' = next + 1
          /\ Len(results') = 1 /\ results = <<>>
      BY <1>4 DEF RunRead, Executing
    <2> QED  BY <1>1, <2>1, TakesCalls
  <1>5. CASE RunWrite
    <2>1. /\ pc = "execute" /\ pc' = "execute" /\ validated' = validated /\ next' = next + 1
          /\ Len(results') = 1 /\ results = <<>>
      BY <1>5 DEF RunWrite, Executing
    <2> QED  BY <1>1, <2>1, TakesCalls
  <1>6. CASE ApplyResult
    <2>1. /\ pc' = pc /\ validated' = validated /\ next' = next + 0 /\ results # <<>>
          /\ pc = "execute"
      BY <1>1, <1>6 DEF ApplyResult, IInv, Books, InBatch
    <2>2. Len(results') = Len(results) - 1
      BY <1>6, ResultTaken DEF IInv, TypeOK
    <2> QED  BY <1>1, <2>1, <2>2, TakesCalls
  <1>7. CASE StepEnds
    <2>1. pc = "execute" /\ Len(results) = 0 /\ pc' = "model" /\ next <= Len(validated) + 1
      BY <1>7 DEF StepEnds, Finished, IInv, Books, Executed
    <2>2. WorkLeft' = 0 /\ WorkLeft = 2 * (Len(validated) + 1 - next) + 0 + 1
      BY <2>1 DEF WorkLeft
    <2> QED  BY <1>1, <2>1, <2>2
  <1> QED  BY <1>2, <1>3, <1>4, <1>5, <1>6, <1>7 DEF Execute

LEMMA WorkLeftType == ASSUME IInv PROVE WorkLeft \in 0 .. 3 * Len(batch) + 2
  <1>1. /\ next \in Nat /\ next >= 1 /\ Len(batch) \in Nat /\ Len(validated) \in Nat
        /\ Len(results) \in Nat
    BY TypeFacts DEF IInv
  <1>2. CASE pc = "dispatch"
    <2>1. next <= Len(batch) + 1 /\ Len(validated) <= next - 1
      <3>1. Len(answered) \in Nat /\ Len(answered) + Len(validated) = next - 1
        BY <1>2, TypeFacts DEF IInv, Books, Dispatched
      <3> QED  BY <1>1, <1>2, <3>1 DEF IInv, Books, Dispatched
    <2> QED  BY <1>1, <1>2, <2>1 DEF WorkLeft
  <1>3. CASE pc = "execute"
    <2>1. next <= Len(validated) + 1 /\ Len(results) <= next - 1 /\ Len(validated) <= Len(batch)
      BY <1>3 DEF IInv, Books, Executed
    <2>2. WorkLeft = 2 * (Len(validated) + 1 - next) + Len(results) + 1
      BY <1>3 DEF WorkLeft
    <2> QED  BY <1>1, <2>1, <2>2
  <1>4. CASE pc \notin {"dispatch", "execute"}
    BY <1>1, <1>4 DEF WorkLeft
  <1> QED  BY <1>2, <1>3, <1>4

\* An output of n calls is dispatched and executed in at most 3n + 2 steps, whatever is refused,
\* read together, cached or written: no call is taken up twice, and no result waits without
\* being applied (execute_step, execute_validated_calls).
THEOREM StepsAreBounded ==
    /\ Spec => WorkIsUsedUp
    /\ Spec => [](WorkLeft \in 0 .. 3 * Len(batch) + 2)
  <1>1. IInv /\ IInv' /\ [Next]_vars =>
            [ /\ pc \in {"dispatch", "execute"}
              /\ ~(\E t \in Tools : CoolDown(t))
              => WorkLeft' < WorkLeft ]_vars
    <2> SUFFICES ASSUME IInv, IInv', Next, pc \in {"dispatch", "execute"},
                        ~(\E t \in Tools : CoolDown(t)), vars' # vars
                 PROVE  WorkLeft' < WorkLeft
      OBVIOUS
    <2>1. Dispatch \/ Execute
      BY DEF Next, ModelCalls, Terminated
    <2> QED  BY <2>1, DispatchUsesUp, ExecuteUsesUp
  <1>2. IInv => WorkLeft \in 0 .. 3 * Len(batch) + 2
    BY WorkLeftType
  <1> QED  BY <1>1, <1>2, Invariance, PTL DEF Spec, WorkIsUsedUp

(***************************************************************************)
(* The connection to a server of tools, for any number of callers, of        *)
(* processes and of calls.                                                   *)
(***************************************************************************)
\* Whoever is past the lock holds it.
Exclusive == \A c \in Callers : at[c] \notin {"idle", "lock"} <=> holder = c

\* A connection is being set up only by the holder of the lock, in place of a dead one.
SettingUp ==
    /\ holder = none => fresh = 0
    /\ \A c \in Callers :
          /\ at[c] \in {"check", "spawn", "call", "answer"} => fresh = 0
          /\ at[c] \in {"init", "initialized"} => fresh # 0
          /\ at[c] \in {"spawn", "init", "initialized"} => server \notin live
          /\ at[c] \in {"initialized", "answer"} => asked[c] # NoteLine

\* Processes are started in the order of their numbers, each with empty pipes.
Started ==
    /\ server <= started /\ fresh <= started /\ fresh # server
    /\ \A s \in Servers : s > started =>
          s \notin live /\ requests[s] = <<>> /\ answers[s] = <<>>

\* Nothing is on its way through the pipes of a process, or one request or its answer is.
Quiet(s) == requests[s] \in {<<>>, <<NoteLine>>} /\ answers[s] = <<>>
Awaits(s, id) ==
    \/ requests[s] \in {<<id>>, <<NoteLine, id>>} /\ answers[s] = <<>>
    \/ requests[s] = <<>> /\ answers[s] = <<id>>

PipesAgree ==
    /\ \A c \in Callers :
          /\ at[c] = "answer" /\ server \notin noted => Awaits(server, asked[c])
          /\ at[c] = "initialized" /\ fresh \notin noted => Awaits(fresh, asked[c])
          /\ at[c] = "init" /\ fresh \notin noted => Quiet(fresh)
    /\ server \in live \ noted /\ (\A c \in Callers : at[c] # "answer") => Quiet(server)

McpIInv == McpTypeOK /\ Exclusive /\ SettingUp /\ Started /\ PipesAgree /\ NoOrphanServer
              /\ AnswersBelong

-----------------------------------------------------------------------------
LEMMA PipeContents ==
    ASSUME NEW id \in Nat
    PROVE  /\ Append(<<>>, id) = <<id>> /\ Append(<<NoteLine>>, id) = <<NoteLine, id>>
           /\ Append(<<>>, NoteLine) = <<NoteLine>>
           /\ <<id>> # <<>> /\ Head(<<id>>) = id /\ Tail(<<id>>) = <<>>
           /\ <<NoteLine>> # <<>> /\ Head(<<NoteLine>>) = NoteLine /\ Tail(<<NoteLine>>) = <<>>
           /\ Head(<<NoteLine, id>>) = NoteLine /\ Tail(<<NoteLine, id>>) = <<id>>
           /\ <<NoteLine, id>> # <<>>
  <1>1. Append(<<>>, id) = <<id>> /\ Append(<<NoteLine>>, id) = <<NoteLine, id>>
    <2> DEFINE longer == Append(<<NoteLine>>, id)
               both == <<NoteLine, id>>
    <2>1. longer \in Seq(Nat) /\ both \in Seq(Nat)
      BY DEF NoteLine
    <2>2. Len(longer) = 2 /\ longer[1] = NoteLine /\ longer[2] = id
      BY DEF NoteLine
    <2>3. Len(both) = 2 /\ both[1] = NoteLine /\ both[2] = id
      OBVIOUS
    <2>4. longer = both
      <3> HIDE DEF longer, both
      <3>1. \A k \in 1..Len(longer) : longer[k] = both[k]
        BY <2>2, <2>3
      <3>2. Len(longer) = Len(both)
        BY <2>2, <2>3
      <3> QED  BY <2>1, <3>1, <3>2, SeqEqual
    <2>5. Append(<<>>, id) = <<id>>
      OBVIOUS
    <2> QED  BY <2>4, <2>5
  <1>2. Append(<<>>, NoteLine) = <<NoteLine>>
    OBVIOUS
  <1>3. <<id>> # <<>> /\ <<NoteLine>> # <<>> /\ <<NoteLine, id>> # <<>>
    OBVIOUS
  <1>4. Head(<<id>>) = id /\ Head(<<NoteLine>>) = NoteLine /\ Head(<<NoteLine, id>>) = NoteLine
    OBVIOUS
  <1>5. Tail(<<id>>) = <<>> /\ Tail(<<NoteLine>>) = <<>>
    OBVIOUS
  <1>6. Tail(<<NoteLine, id>>) = <<id>>
    OBVIOUS
  <1> QED  BY <1>1, <1>2, <1>3, <1>4, <1>5, <1>6

\* While somebody holds the lock the others are out of the way.
LEMMA OthersWait ==
    ASSUME Exclusive, NEW c \in Callers, at[c] \notin {"idle", "lock"}
    PROVE  holder = c /\ \A d \in Callers : d # c => at[d] \in {"idle", "lock"}
  BY DEF Exclusive

LEMMA McpTypeFacts ==
    ASSUME McpTypeOK
    PROVE  /\ 0 \notin Servers /\ Servers \subseteq Nat /\ started \in Nat /\ server \in Nat
           /\ fresh \in Nat
  BY McpAssumption DEF McpTypeOK, Servers

LEMMA McpInitially == McpInit => McpIInv
  <1> SUFFICES ASSUME McpInit PROVE McpIInv  OBVIOUS
  <1> USE DEF McpInit
  <1>1. McpTypeOK
    <2>1. 1 \in Servers /\ live \subseteq Servers
      BY McpAssumption DEF Servers
    <2>2. requests \in [Servers -> Seq(Nat)] /\ answers \in [Servers -> Seq(Nat)]
      OBVIOUS
    <2>3. by \in [Callers -> 0..MaxServers]
      BY McpAssumption
    <2> QED  BY <2>1, <2>2, <2>3 DEF McpTypeOK
  <1>2. Exclusive
    BY McpAssumption DEF Exclusive
  <1>3. SettingUp /\ AnswersBelong
    BY DEF SettingUp, AnswersBelong
  <1>4. Started /\ NoOrphanServer
    BY McpAssumption DEF Started, NoOrphanServer, Servers
  <1>5. PipesAgree
    BY McpAssumption DEF PipesAgree, Quiet, Servers
  <1> QED  BY <1>1, <1>2, <1>3, <1>4, <1>5 DEF McpIInv

\* A step of a caller that touches no process and no pipe.
LEMMA Proceeds ==
    ASSUME McpIInv, NEW c \in Callers,
           at' \in [Callers -> {"idle", "lock", "check", "spawn", "init", "initialized", "call",
                                "answer"}],
           \A d \in Callers : d # c => at'[d] = at[d],
           \/ at[c] = "idle" /\ at'[c] = "lock" /\ holder' = holder
           \/ at[c] = "lock" /\ at'[c] = "check" /\ holder = none /\ holder' = c
           \/ at[c] = "check" /\ at'[c] = "call" /\ holder' = holder
           \/ at[c] = "check" /\ at'[c] = "spawn" /\ holder' = holder /\ server \notin live,
           UNCHANGED <<server, fresh, started, live, requests, answers, nextId, asked, got, by,
                       noted>>
    PROVE  McpIInv'
  <1> USE DEF McpIInv
  <1>1. McpTypeOK'
    BY DEF McpTypeOK
  <1>2. Exclusive'
    BY McpAssumption DEF Exclusive
  <1>3. SettingUp'
    BY McpAssumption DEF SettingUp
  <1>4. Started' /\ NoOrphanServer' /\ AnswersBelong'
    BY DEF Started, NoOrphanServer, AnswersBelong
  <1>5. PipesAgree'
    <2>1. /\ \A d \in Callers : at'[d] \in {"answer", "init", "initialized"} => at'[d] = at[d]
          /\ \A d \in Callers : at[d] = "answer" => at'[d] = "answer"
      OBVIOUS
    <2> QED  BY <2>1 DEF PipesAgree, Quiet, Awaits
  <1> QED  BY <1>1, <1>2, <1>3, <1>4, <1>5

LEMMA CallStep == ASSUME McpIInv, NEW c \in Callers, Call(c) PROVE McpIInv'
  <1>1. /\ at[c] = "idle" /\ at'[c] = "lock" /\ \A d \in Callers : d # c => at'[d] = at[d]
        /\ at' \in [Callers -> {"idle", "lock", "check", "spawn", "init", "initialized", "call",
                                "answer"}]
    BY DEF Call, McpIInv, McpTypeOK
  <1> QED  BY <1>1, Proceeds DEF Call, pipes

LEMMA LockStep == ASSUME McpIInv, NEW c \in Callers, Lock(c) PROVE McpIInv'
  <1>1. /\ at[c] = "lock" /\ at'[c] = "check" /\ \A d \in Callers : d # c => at'[d] = at[d]
        /\ at' \in [Callers -> {"idle", "lock", "check", "spawn", "init", "initialized", "call",
                                "answer"}]
    BY DEF Lock, McpIInv, McpTypeOK
  <1> QED  BY <1>1, Proceeds DEF Lock, pipes

LEMMA CheckAliveStep == ASSUME McpIInv, NEW c \in Callers, CheckAlive(c) PROVE McpIInv'
  <1>1. /\ at[c] = "check" /\ \A d \in Callers : d # c => at'[d] = at[d]
        /\ at'[c] = "call" \/ (at'[c] = "spawn" /\ server \notin live)
        /\ at' \in [Callers -> {"idle", "lock", "check", "spawn", "init", "initialized", "call",
                                "answer"}]
    BY DEF CheckAlive, McpIInv, McpTypeOK
  <1> QED  BY <1>1, Proceeds DEF CheckAlive, pipes

\* A call that fails leaves a dead process, and takes the one it was starting with it.
LEMMA Fails ==
    ASSUME McpIInv, NEW c \in Callers, at[c] \notin {"idle", "lock"}, server \notin live,
           Return(c, -1), nextId' \in Nat \ {0},
           asked' \in [Callers -> Nat], \A d \in Callers : d # c => asked'[d] = asked[d],
           answers' \in [Servers -> Seq(Nat)],
           \A s \in Servers : s # fresh => answers'[s] = answers[s],
           UNCHANGED <<server, started, requests, by, noted>>
    PROVE  McpIInv'
  <1>1. holder = c /\ \A d \in Callers : d # c => at[d] \in {"idle", "lock"}
    BY OthersWait DEF McpIInv
  <1>2. /\ holder' = none /\ fresh' = 0 /\ live' = live \ {fresh}
        /\ at'[c] = "idle" /\ got'[c] = -1
        /\ \A d \in Callers : d # c => at'[d] = at[d] /\ got'[d] = got[d]
    BY DEF Return, McpIInv, McpTypeOK
  <1>3. McpTypeOK'
    <2>1. at' \in [Callers -> {"idle", "lock", "check", "spawn", "init", "initialized", "call",
                               "answer"}]
      BY DEF Return, McpIInv, McpTypeOK
    <2>2. got' \in [Callers -> Nat \union {-1}]
      <3>1. got \in [Callers -> Nat \union {-1}] /\ got' = [got EXCEPT ![c] = -1]
        BY DEF Return, McpIInv, McpTypeOK
      <3> QED  BY <3>1
    <2> QED  BY <1>2, <2>1, <2>2 DEF McpIInv, McpTypeOK
  <1>4. Exclusive'
    BY <1>1, <1>2, McpAssumption DEF Exclusive
  <1>5. SettingUp'
    BY <1>1, <1>2 DEF SettingUp
  <1>6. Started'
    <2>1. server \in Nat /\ server # 0 /\ started \in Nat /\ fresh <= started
      BY McpTypeFacts DEF McpIInv, McpTypeOK, Started
    <2>2. \A s \in Servers : s > started => s # fresh
      BY <2>1, McpTypeFacts DEF McpIInv
    <2> QED  BY <1>2, <2>1, <2>2 DEF McpIInv, Started
  <1>7. NoOrphanServer'
    BY <1>2, McpTypeFacts DEF McpIInv, McpTypeOK, NoOrphanServer
  <1>8. PipesAgree'
    BY <1>1, <1>2 DEF PipesAgree
  <1>9. AnswersBelong'
    BY <1>1, <1>2 DEF McpIInv, AnswersBelong
  <1> QED  BY <1>3, <1>4, <1>5, <1>6, <1>7, <1>8, <1>9 DEF McpIInv

LEMMA SpawnStep == ASSUME McpIInv, NEW c \in Callers, Spawn(c) PROVE McpIInv'
  <1>1. /\ at[c] = "spawn" /\ server \notin live /\ fresh = 0
        /\ UNCHANGED <<server, requests, answers, nextId, asked, by, noted>>
    BY DEF Spawn, pipes, McpIInv, SettingUp
  <1>2. holder = c /\ \A d \in Callers : d # c => at[d] \in {"idle", "lock"}
    BY <1>1, OthersWait DEF McpIInv
  <1>3. live = {}
    BY <1>1, McpTypeFacts DEF McpIInv, McpTypeOK, NoOrphanServer
  <1>4. CASE Return(c, -1) /\ UNCHANGED started
    BY <1>1, <1>4, Fails DEF McpIInv, McpTypeOK
  <1>5. CASE /\ started < MaxServers /\ started' = started + 1 /\ fresh' = started'
             /\ live' = live \union {started'} /\ at' = [at EXCEPT ![c] = "init"]
             /\ UNCHANGED <<holder, got>>
    <2>1. started' \in Servers /\ started' > started /\ server <= started /\ server # started'
      BY <1>5, McpTypeFacts, McpAssumption DEF McpIInv, McpTypeOK, Started, Servers
    <2>2. at'[c] = "init" /\ \A d \in Callers : d # c => at'[d] = at[d]
      BY <1>5 DEF McpIInv, McpTypeOK
    <2>3. McpTypeOK'
      BY <1>1, <1>5, <2>1 DEF McpIInv, McpTypeOK
    <2>4. Exclusive' /\ SettingUp'
      BY <1>1, <1>2, <1>3, <1>5, <2>1, <2>2, McpAssumption, McpTypeFacts
      DEF McpIInv, Exclusive, SettingUp
    <2>5. Started'
      <3>1. \A s \in Servers : s > started' => s > started /\ s # started'
        BY <2>1, <1>5, McpTypeFacts DEF McpIInv
      <3> QED  BY <1>1, <1>3, <1>5, <2>1, <3>1, McpTypeFacts DEF McpIInv, Started
    <2>6. NoOrphanServer'
      BY <1>1, <1>3, <1>5, <2>1 DEF NoOrphanServer
    <2>7. PipesAgree'
      <3>1. requests[started'] = <<>> /\ answers[started'] = <<>>
        BY <2>1 DEF McpIInv, Started
      <3>2. server \notin live'
        BY <1>3, <1>5, <2>1
      <3> QED  BY <1>1, <1>2, <1>5, <2>2, <3>1, <3>2 DEF PipesAgree, Quiet
    <2>8. AnswersBelong'
      BY <1>1, <1>2, <1>5, <2>2 DEF McpIInv, AnswersBelong
    <2> QED  BY <2>3, <2>4, <2>5, <2>6, <2>7, <2>8 DEF McpIInv
  <1> QED  BY <1>4, <1>5 DEF Spawn

\* A request on a quiet pipe is one whose answer is awaited.
LEMMA Requested ==
    ASSUME NEW s, NEW id \in Nat, Quiet(s), requests'[s] = Append(requests[s], id),
           answers'[s] = answers[s]
    PROVE  \/ requests'[s] \in {<<id>>, <<NoteLine, id>>} /\ answers'[s] = <<>>
           \/ requests'[s] = <<>> /\ answers'[s] = <<id>>
  <1>1. requests'[s] \in {Append(<<>>, id), Append(<<NoteLine>>, id)} /\ answers'[s] = <<>>
    BY DEF Quiet
  <1> QED  BY <1>1, PipeContents

LEMMA SendInitializeStep == ASSUME McpIInv, NEW c \in Callers, SendInitialize(c) PROVE McpIInv'
  <1>1. /\ at[c] = "init" /\ server \notin live /\ fresh # 0 /\ fresh \in Servers
        /\ nextId' = nextId + 1 /\ nextId \in Nat \ {0}
        /\ asked' = [asked EXCEPT ![c] = nextId]
        /\ UNCHANGED <<server, started, answers, by, noted>>
    BY DEF SendInitialize, Send, McpIInv, McpTypeOK, SettingUp
  <1>2. holder = c /\ \A d \in Callers : d # c => at[d] \in {"idle", "lock"}
    BY <1>1, OthersWait DEF McpIInv
  <1>3. asked' \in [Callers -> Nat] /\ asked'[c] = nextId
        /\ \A d \in Callers : d # c => asked'[d] = asked[d]
    BY <1>1 DEF McpIInv, McpTypeOK
  <1>4. CASE Return(c, -1) /\ UNCHANGED requests
    <2>1. nextId' \in Nat \ {0}
      BY <1>1
    <2>2. answers' \in [Servers -> Seq(Nat)] /\ \A s \in Servers : answers'[s] = answers[s]
      BY <1>1 DEF McpIInv, McpTypeOK
    <2> QED  BY <1>1, <1>3, <1>4, <2>1, <2>2, Fails
  <1>5. CASE /\ fresh \in live
             /\ requests' = [requests EXCEPT ![fresh] = Append(@, nextId)]
             /\ at' = [at EXCEPT ![c] = "initialized"]
             /\ UNCHANGED <<holder, got, fresh, live>>
    <2>1. /\ at'[c] = "initialized" /\ \A d \in Callers : d # c => at'[d] = at[d]
          /\ requests'[fresh] = Append(requests[fresh], nextId)
          /\ \A s \in Servers : s # fresh => requests'[s] = requests[s]
      BY <1>1, <1>5 DEF McpIInv, McpTypeOK
    <2>2. McpTypeOK'
      <3>1. requests' \in [Servers -> Seq(Nat)]
        BY <1>1, <1>5 DEF McpIInv, McpTypeOK
      <3>2. at' \in [Callers -> {"idle", "lock", "check", "spawn", "init", "initialized", "call",
                                 "answer"}]
        BY <1>5 DEF McpIInv, McpTypeOK
      <3>3. nextId' \in Nat \ {0}
        BY <1>1
      <3>4. UNCHANGED <<holder, server, fresh, started, live, answers, got, by, noted>>
        BY <1>1, <1>5
      <3> QED  BY <1>3, <3>1, <3>2, <3>3, <3>4 DEF McpIInv, McpTypeOK
    <2>3. Exclusive' /\ SettingUp'
      BY <1>1, <1>2, <1>3, <1>5, <2>1, McpAssumption DEF McpIInv, Exclusive, SettingUp, NoteLine
    <2>4. Started'
      <3>1. \A s \in Servers : s > started => s # fresh
        BY McpTypeFacts DEF McpIInv, Started
      <3> QED  BY <1>1, <1>5, <2>1, <3>1 DEF McpIInv, Started
    <2>5. NoOrphanServer'
      BY <1>1, <1>5 DEF McpIInv, NoOrphanServer
    <2>6. PipesAgree'
      <3>1. fresh \notin noted => Awaits(fresh, asked[c])'
        <4> SUFFICES ASSUME fresh \notin noted
                     PROVE  \/ /\ requests'[fresh] \in {<<nextId>>, <<NoteLine, nextId>>}
                               /\ answers'[fresh] = <<>>
                            \/ requests'[fresh] = <<>> /\ answers'[fresh] = <<nextId>>
          BY <1>3, <1>5 DEF Awaits
        <4>1. Quiet(fresh)
          BY <1>1 DEF McpIInv, PipesAgree
        <4> QED  BY <1>1, <2>1, <4>1, Requested
      <3> QED  BY <1>1, <1>2, <1>5, <2>1, <3>1 DEF PipesAgree
    <2>7. AnswersBelong'
      BY <1>1, <1>2, <1>3, <1>5, <2>1 DEF McpIInv, AnswersBelong
    <2> QED  BY <2>2, <2>3, <2>4, <2>5, <2>6, <2>7 DEF McpIInv
  <1> QED  BY <1>4, <1>5 DEF SendInitialize, Send

LEMMA SendCallStep == ASSUME McpIInv, NEW c \in Callers, SendCall(c) PROVE McpIInv'
  <1>1. /\ at[c] = "call" /\ fresh = 0 /\ server \in Servers
        /\ nextId' = nextId + 1 /\ nextId \in Nat \ {0}
        /\ asked' = [asked EXCEPT ![c] = nextId]
        /\ UNCHANGED <<server, started, answers, by, noted>>
    BY DEF SendCall, Send, McpIInv, McpTypeOK, SettingUp
  <1>2. holder = c /\ \A d \in Callers : d # c => at[d] \in {"idle", "lock"}
    BY <1>1, OthersWait DEF McpIInv
  <1>3. asked' \in [Callers -> Nat] /\ asked'[c] = nextId
        /\ \A d \in Callers : d # c => asked'[d] = asked[d]
    BY <1>1 DEF McpIInv, McpTypeOK
  <1>4. CASE server \notin live /\ Return(c, -1) /\ UNCHANGED requests
    <2>1. nextId' \in Nat \ {0}
      BY <1>1
    <2>2. answers' \in [Servers -> Seq(Nat)] /\ \A s \in Servers : answers'[s] = answers[s]
      BY <1>1 DEF McpIInv, McpTypeOK
    <2> QED  BY <1>1, <1>3, <1>4, <2>1, <2>2, Fails
  <1>5. CASE /\ server \in live
             /\ requests' = [requests EXCEPT ![server] = Append(@, nextId)]
             /\ at' = [at EXCEPT ![c] = "answer"]
             /\ UNCHANGED <<holder, got, fresh, live>>
    <2>1. /\ at'[c] = "answer" /\ \A d \in Callers : d # c => at'[d] = at[d]
          /\ requests'[server] = Append(requests[server], nextId)
          /\ \A s \in Servers : s # server => requests'[s] = requests[s]
      BY <1>1, <1>5 DEF McpIInv, McpTypeOK
    <2>2. McpTypeOK'
      <3>1. requests' \in [Servers -> Seq(Nat)]
        BY <1>1, <1>5 DEF McpIInv, McpTypeOK
      <3>2. at' \in [Callers -> {"idle", "lock", "check", "spawn", "init", "initialized", "call",
                                 "answer"}]
        BY <1>5 DEF McpIInv, McpTypeOK
      <3>3. nextId' \in Nat \ {0}
        BY <1>1
      <3>4. UNCHANGED <<holder, server, fresh, started, live, answers, got, by, noted>>
        BY <1>1, <1>5
      <3> QED  BY <1>3, <3>1, <3>2, <3>3, <3>4 DEF McpIInv, McpTypeOK
    <2>3. Exclusive' /\ SettingUp'
      BY <1>1, <1>2, <1>3, <1>5, <2>1, McpAssumption DEF McpIInv, Exclusive, SettingUp, NoteLine
    <2>4. Started'
      <3>1. \A s \in Servers : s > started => s # server
        BY McpTypeFacts DEF McpIInv, Started
      <3> QED  BY <1>1, <1>5, <2>1, <3>1 DEF McpIInv, Started
    <2>5. NoOrphanServer'
      BY <1>1, <1>5 DEF McpIInv, NoOrphanServer
    <2>6. PipesAgree'
      <3>1. server \notin noted => Awaits(server, asked[c])'
        <4> SUFFICES ASSUME server \notin noted
                     PROVE  \/ /\ requests'[server] \in {<<nextId>>, <<NoteLine, nextId>>}
                               /\ answers'[server] = <<>>
                            \/ requests'[server] = <<>> /\ answers'[server] = <<nextId>>
          BY <1>1, <1>3 DEF Awaits
        <4>1. Quiet(server)
          BY <1>1, <1>2, <1>5 DEF McpIInv, PipesAgree
        <4> QED  BY <1>1, <2>1, <4>1, Requested
      <3> QED  BY <1>1, <1>2, <1>5, <2>1, <3>1 DEF PipesAgree
    <2>7. AnswersBelong'
      BY <1>1, <1>2, <1>3, <1>5, <2>1 DEF McpIInv, AnswersBelong
    <2> QED  BY <2>2, <2>3, <2>4, <2>5, <2>6, <2>7 DEF McpIInv
  <1> QED  BY <1>4, <1>5 DEF SendCall, Send

\* What taking a line does to a pipe.
LEMMA Taken ==
    ASSUME McpIInv, NEW s \in Servers, TakeLine(s)
    PROVE  /\ answers' \in [Servers -> Seq(Nat)] /\ Line(s) \in Nat
           /\ \A x \in Servers : x # s => answers'[x] = answers[x]
           /\ answers[s] = <<>> => answers'[s] = <<>> /\ Line(s) = NoteLine
           /\ \A id \in Nat : answers[s] = <<id>> => answers'[s] = <<>> /\ Line(s) = id
  <1>1. answers \in [Servers -> Seq(Nat)]
    BY DEF McpIInv, McpTypeOK
  <1>2. CASE answers[s] = <<>>
    <2>1. answers' = answers /\ Line(s) = NoteLine
      BY <1>2 DEF TakeLine, Line
    <2>2. \A id \in Nat : answers[s] # <<id>>
      BY <1>2, PipeContents
    <2> QED  BY <1>1, <1>2, <2>1, <2>2 DEF NoteLine
  <1>3. CASE answers[s] # <<>>
    <2>1. answers' = [answers EXCEPT ![s] = Tail(@)] /\ Line(s) = Head(answers[s])
      BY <1>3 DEF TakeLine, Line
    <2>2. Head(answers[s]) \in Nat /\ Tail(answers[s]) \in Seq(Nat)
      BY <1>1, <1>3
    <2>3. \A id \in Nat : answers[s] = <<id>> => Tail(answers[s]) = <<>> /\ Head(answers[s]) = id
      BY PipeContents
    <2> QED  BY <1>1, <1>3, <2>1, <2>2, <2>3
  <1> QED  BY <1>2, <1>3

LEMMA InitializedStep == ASSUME McpIInv, NEW c \in Callers, Initialized(c) PROVE McpIInv'
  <1>1. /\ at[c] = "initialized" /\ server \notin live /\ fresh # 0 /\ fresh \in Servers
        /\ asked[c] # NoteLine /\ TakeLine(fresh)
        /\ UNCHANGED <<started, nextId, asked, by, noted>>
    BY DEF Initialized, McpIInv, McpTypeOK, SettingUp
  <1>2. holder = c /\ \A d \in Callers : d # c => at[d] \in {"idle", "lock"}
    BY <1>1, OthersWait DEF McpIInv
  <1>3. /\ answers' \in [Servers -> Seq(Nat)]
        /\ \A s \in Servers : s # fresh => answers'[s] = answers[s]
        /\ answers[fresh] = <<>> => Line(fresh) = NoteLine
        /\ \A id \in Nat : answers[fresh] = <<id>> => answers'[fresh] = <<>>
    BY <1>1, Taken
  <1>4. CASE Return(c, -1) /\ UNCHANGED <<requests, server>>
    <2>1. nextId' \in Nat \ {0} /\ asked' \in [Callers -> Nat]
      BY <1>1 DEF McpIInv, McpTypeOK
    <2> QED  BY <1>1, <1>3, <1>4, <2>1, Fails
  <1>5. CASE /\ Line(fresh) # NoteLine /\ fresh \in live
             /\ requests' = [requests EXCEPT ![fresh] = Append(@, NoteLine)]
             /\ server' = fresh /\ fresh' = 0 /\ live' = live \ {server}
             /\ at' = [at EXCEPT ![c] = "call"]
             /\ UNCHANGED <<holder, got>>
    <2>1. /\ at'[c] = "call" /\ \A d \in Callers : d # c => at'[d] = at[d]
          /\ requests'[fresh] = Append(requests[fresh], NoteLine)
          /\ \A s \in Servers : s # fresh => requests'[s] = requests[s]
      BY <1>1, <1>5 DEF McpIInv, McpTypeOK
    <2>2. live' = live
      BY <1>1, <1>5
    <2>3. McpTypeOK'
      <3>1. requests' \in [Servers -> Seq(Nat)]
        BY <1>1, <1>5 DEF McpIInv, McpTypeOK, NoteLine
      <3>2. at' \in [Callers -> {"idle", "lock", "check", "spawn", "init", "initialized", "call",
                                 "answer"}]
        BY <1>5 DEF McpIInv, McpTypeOK
      <3> QED  BY <1>1, <1>3, <1>5, <2>2, <3>1, <3>2 DEF McpIInv, McpTypeOK
    <2>4. Exclusive' /\ SettingUp'
      BY <1>1, <1>2, <1>5, <2>1, McpAssumption DEF McpIInv, Exclusive, SettingUp
    <2>5. Started'
      <3>1. \A s \in Servers : s > started => s # fresh
        BY McpTypeFacts DEF McpIInv, Started
      <3>2. 0 <= started /\ fresh <= started
        BY McpTypeFacts DEF McpIInv, Started
      <3> QED  BY <1>1, <1>3, <1>5, <2>1, <2>2, <3>1, <3>2 DEF McpIInv, Started
    <2>6. NoOrphanServer'
      BY <1>1, <1>5, <2>2, McpTypeFacts DEF McpIInv, McpTypeOK, NoOrphanServer
    <2>7. PipesAgree'
      <3>1. fresh \notin noted => Quiet(server)'
        <4> SUFFICES ASSUME fresh \notin noted
                     PROVE  requests'[fresh] = <<NoteLine>> /\ answers'[fresh] = <<>>
          BY <1>5 DEF Quiet
        <4>1. Awaits(fresh, asked[c]) /\ asked[c] \in Nat
          BY <1>1 DEF McpIInv, McpTypeOK, PipesAgree
        <4>2. requests[fresh] = <<>> /\ answers[fresh] = <<asked[c]>>
          BY <1>3, <1>5, <4>1 DEF Awaits
        <4> QED  BY <1>3, <2>1, <4>1, <4>2, PipeContents
      <3> QED  BY <1>1, <1>2, <1>5, <2>1, <3>1 DEF PipesAgree
    <2>8. AnswersBelong'
      BY <1>1, <1>2, <1>5, <2>1 DEF McpIInv, AnswersBelong
    <2> QED  BY <2>3, <2>4, <2>5, <2>6, <2>7, <2>8 DEF McpIInv
  <1> QED  BY <1>4, <1>5 DEF Initialized

LEMMA TakeAnswerStep == ASSUME McpIInv, NEW c \in Callers, TakeAnswer(c) PROVE McpIInv'
  <1> DEFINE outcome == IF Line(server) = NoteLine THEN -1 ELSE Line(server)
  <1>1. /\ at[c] = "answer" /\ fresh = 0 /\ server \in Servers /\ asked[c] # NoteLine
        /\ asked[c] \in Nat /\ HasLine(server) /\ TakeLine(server) /\ Return(c, outcome)
        /\ by' = [by EXCEPT ![c] = server]
        /\ UNCHANGED <<server, started, requests, nextId, asked, noted>>
    BY DEF TakeAnswer, McpIInv, McpTypeOK, SettingUp
  <1>2. holder = c /\ \A d \in Callers : d # c => at[d] \in {"idle", "lock"}
    BY <1>1, OthersWait DEF McpIInv
  <1>3. /\ answers' \in [Servers -> Seq(Nat)] /\ Line(server) \in Nat
        /\ \A s \in Servers : s # server => answers'[s] = answers[s]
        /\ answers[server] = <<>> => answers'[server] = <<>> /\ Line(server) = NoteLine
        /\ \A id \in Nat : answers[server] = <<id>> =>
              answers'[server] = <<>> /\ Line(server) = id
    BY <1>1, Taken
  <1>4. /\ holder' = none /\ fresh' = 0 /\ live' = live
        /\ at'[c] = "idle" /\ got'[c] = outcome /\ by'[c] = server
        /\ \A d \in Callers : d # c => at'[d] = at[d] /\ got'[d] = got[d] /\ by'[d] = by[d]
    <2>1. 0 \notin live
      BY McpTypeFacts DEF McpIInv, McpTypeOK
    <2> HIDE DEF outcome
    <2> QED  BY <1>1, <2>1 DEF Return, McpIInv, McpTypeOK
  <1>5. McpTypeOK'
    <2>1. at' \in [Callers -> {"idle", "lock", "check", "spawn", "init", "initialized", "call",
                               "answer"}]
      BY <1>1 DEF Return, McpIInv, McpTypeOK
    <2>2. got' \in [Callers -> Nat \union {-1}]
      <3>1. outcome \in Nat \union {-1}
        BY <1>3
      <3> HIDE DEF outcome
      <3>2. got \in [Callers -> Nat \union {-1}] /\ got' = [got EXCEPT ![c] = outcome]
        BY <1>1 DEF Return, McpIInv, McpTypeOK
      <3> QED  BY <3>1, <3>2
    <2>3. by' \in [Callers -> 0..MaxServers]
      BY <1>1, McpAssumption DEF McpIInv, McpTypeOK, Servers
    <2> QED  BY <1>1, <1>3, <1>4, <2>1, <2>2, <2>3 DEF McpIInv, McpTypeOK
  <1>6. Exclusive' /\ SettingUp'
    BY <1>1, <1>2, <1>4, McpAssumption DEF Exclusive, SettingUp
  <1>7. Started'
    <2>1. \A s \in Servers : s > started => s # server
      BY McpTypeFacts DEF McpIInv, Started
    <2> QED  BY <1>1, <1>3, <1>4, <2>1 DEF McpIInv, Started
  <1>8. NoOrphanServer'
    BY <1>1, <1>4 DEF McpIInv, NoOrphanServer
  <1>9. server \notin noted => Awaits(server, asked[c])
    BY <1>1 DEF McpIInv, PipesAgree
  <1>10. PipesAgree'
    <2>1. server \in live \ noted => requests[server] = <<>> /\ answers'[server] = <<>>
      BY <1>1, <1>3, <1>9 DEF Awaits, HasLine
    <2>2. server \in live \ noted => Quiet(server)'
      BY <1>1, <2>1 DEF Quiet
    <2> QED  BY <1>1, <1>2, <1>4, <2>2 DEF PipesAgree
  <1>11. AnswersBelong'
    <2>1. server \notin noted => outcome \in {-1, asked[c]}
      BY <1>1, <1>3, <1>9 DEF Awaits
    <2> HIDE DEF outcome
    <2> QED  BY <1>1, <1>4, <2>1 DEF McpIInv, AnswersBelong
  <1> QED  BY <1>5, <1>6, <1>7, <1>8, <1>10, <1>11 DEF McpIInv

LEMMA ServeStep == ASSUME McpIInv, NEW s \in Servers, Serve(s) PROVE McpIInv'
  <1>1. /\ s \in live /\ requests[s] # <<>>
        /\ requests' = [requests EXCEPT ![s] = Tail(@)]
        /\ answers' = IF Head(requests[s]) = NoteLine
                      THEN answers
                      ELSE [answers EXCEPT ![s] = Append(@, Head(requests[s]))]
        /\ UNCHANGED <<holder, at, server, fresh, started, live, nextId, asked, got, by, noted>>
    BY DEF Serve
  <1>2. /\ requests \in [Servers -> Seq(Nat)] /\ answers \in [Servers -> Seq(Nat)]
        /\ Head(requests[s]) \in Nat /\ Tail(requests[s]) \in Seq(Nat)
    <2>1. requests \in [Servers -> Seq(Nat)] /\ answers \in [Servers -> Seq(Nat)]
      BY DEF McpIInv, McpTypeOK
    <2>2. requests[s] \in Seq(Nat) /\ requests[s] # <<>>
      BY <1>1, <2>1
    <2>3. Head(requests[s]) \in Nat /\ Tail(requests[s]) \in Seq(Nat)
      BY <2>2
    <2> QED  BY <2>1, <2>3
  <1>3. /\ requests' \in [Servers -> Seq(Nat)] /\ answers' \in [Servers -> Seq(Nat)]
        /\ requests'[s] = Tail(requests[s])
        /\ \A x \in Servers : x # s => requests'[x] = requests[x] /\ answers'[x] = answers[x]
        /\ Head(requests[s]) = NoteLine => answers'[s] = answers[s]
        /\ Head(requests[s]) # NoteLine => answers'[s] = Append(answers[s], Head(requests[s]))
    BY <1>1, <1>2
  <1>4. \A x \in Servers : Quiet(x) => Quiet(x)'
    <2> SUFFICES ASSUME Quiet(s) PROVE Quiet(s)'
      BY <1>3 DEF Quiet
    <2>1. requests[s] = <<NoteLine>> /\ answers[s] = <<>>
      BY <1>1 DEF Quiet
    <2>2. Head(requests[s]) = NoteLine /\ Tail(requests[s]) = <<>>
      BY <2>1, PipeContents DEF NoteLine
    <2> QED  BY <1>3, <2>1, <2>2 DEF Quiet
  <1>5. \A x \in Servers, id \in Nat : id # NoteLine /\ Awaits(x, id) =>
            \/ requests'[x] \in {<<id>>, <<NoteLine, id>>} /\ answers'[x] = <<>>
            \/ requests'[x] = <<>> /\ answers'[x] = <<id>>
    <2> SUFFICES ASSUME NEW id \in Nat, id # NoteLine, Awaits(s, id)
                 PROVE  \/ requests'[s] \in {<<id>>, <<NoteLine, id>>} /\ answers'[s] = <<>>
                        \/ requests'[s] = <<>> /\ answers'[s] = <<id>>
      BY <1>3 DEF Awaits
    <2>1. requests[s] \in {<<id>>, <<NoteLine, id>>} /\ answers[s] = <<>>
      BY <1>1 DEF Awaits
    <2>2. CASE requests[s] = <<id>>
      BY <1>3, <2>1, <2>2, PipeContents
    <2>3. CASE requests[s] = <<NoteLine, id>>
      BY <1>3, <2>1, <2>3, PipeContents
    <2> QED  BY <2>1, <2>2, <2>3
  <1>6. McpTypeOK'
    BY <1>1, <1>3 DEF McpIInv, McpTypeOK
  <1>7. Exclusive' /\ SettingUp' /\ NoOrphanServer' /\ AnswersBelong'
    BY <1>1 DEF McpIInv, Exclusive, SettingUp, NoOrphanServer, AnswersBelong
  <1>8. Started'
    BY <1>1, <1>3 DEF McpIInv, Started
  <1>9. PipesAgree'
    <2>1. server \in Servers /\ \A c \in Callers : asked[c] \in Nat
      BY DEF McpIInv, McpTypeOK
    <2>2. \A c \in Callers : at[c] \in {"initialized", "answer"} => asked[c] # NoteLine
      BY DEF McpIInv, SettingUp
    <2>3. \A c \in Callers : at[c] \in {"init", "initialized"} => fresh \in Servers
      BY DEF McpIInv, McpTypeOK, SettingUp
    <2>4. ASSUME NEW c \in Callers, at[c] = "answer", server \notin noted
          PROVE  Awaits(server, asked[c])'
      <3>1. Awaits(server, asked[c])
        BY <2>4 DEF McpIInv, PipesAgree
      <3> QED  BY <1>1, <1>5, <2>1, <2>2, <2>4, <3>1 DEF Awaits
    <2>5. ASSUME NEW c \in Callers, at[c] = "initialized", fresh \notin noted
          PROVE  Awaits(fresh, asked[c])'
      <3>1. Awaits(fresh, asked[c])
        BY <2>5 DEF McpIInv, PipesAgree
      <3> QED  BY <1>1, <1>5, <2>1, <2>2, <2>3, <2>5, <3>1 DEF Awaits
    <2>6. ASSUME NEW c \in Callers, at[c] = "init", fresh \notin noted
          PROVE  Quiet(fresh)'
      <3>1. Quiet(fresh)
        BY <2>6 DEF McpIInv, PipesAgree
      <3> QED  BY <1>1, <1>4, <2>3, <2>6, <3>1 DEF Quiet
    <2>7. server \in live \ noted /\ (\A c \in Callers : at[c] # "answer") => Quiet(server)'
      <3>1. server \in live \ noted /\ (\A c \in Callers : at[c] # "answer") => Quiet(server)
        BY DEF McpIInv, PipesAgree
      <3> QED  BY <1>1, <1>4, <2>1, <3>1 DEF Quiet
    <2> QED  BY <1>1, <2>4, <2>5, <2>6, <2>7 DEF PipesAgree
  <1> QED  BY <1>6, <1>7, <1>8, <1>9 DEF McpIInv

LEMMA NotifyStep == ASSUME McpIInv, NEW s \in Servers, Notify(s) PROVE McpIInv'
  <1>1. /\ s \in live /\ s \in Chatty /\ noted' = noted \union {s}
        /\ answers' = [answers EXCEPT ![s] = Append(@, NoteLine)]
        /\ UNCHANGED <<holder, at, server, fresh, started, live, requests, nextId, asked, got, by>>
    BY DEF Notify
  <1>2. /\ answers' \in [Servers -> Seq(Nat)]
        /\ \A x \in Servers : x # s => answers'[x] = answers[x]
    BY <1>1 DEF McpIInv, McpTypeOK, NoteLine
  <1>3. McpTypeOK'
    BY <1>1, <1>2 DEF McpIInv, McpTypeOK
  <1>4. Exclusive' /\ SettingUp' /\ NoOrphanServer' /\ AnswersBelong'
    BY <1>1 DEF McpIInv, Exclusive, SettingUp, NoOrphanServer, AnswersBelong
  <1>5. Started'
    BY <1>1, <1>2 DEF McpIInv, Started
  <1>6. PipesAgree'
    <2>1. server \in Servers /\ \A c \in Callers : at[c] \in {"init", "initialized"} => fresh \in Servers
      BY DEF McpIInv, McpTypeOK, SettingUp
    <2>2. server \notin noted' => answers'[server] = answers[server]
      BY <1>1, <1>2, <2>1
    <2>3. \A c \in Callers : at[c] \in {"init", "initialized"} /\ fresh \notin noted' =>
              answers'[fresh] = answers[fresh]
      BY <1>1, <1>2, <2>1
    <2> QED  BY <1>1, <2>2, <2>3 DEF McpIInv, PipesAgree, Quiet, Awaits
  <1> QED  BY <1>3, <1>4, <1>5, <1>6 DEF McpIInv

LEMMA DieStep == ASSUME McpIInv, NEW s \in Servers, Die(s) PROVE McpIInv'
  <1>1. /\ live' = live \ {s}
        /\ UNCHANGED <<holder, at, server, fresh, started, requests, answers, nextId, asked, got, by,
                       noted>>
    BY DEF Die, pipes
  <1>2. McpTypeOK' /\ Exclusive' /\ SettingUp' /\ Started'
    BY <1>1 DEF McpIInv, McpTypeOK, Exclusive, SettingUp, Started
  <1>3. NoOrphanServer' /\ AnswersBelong'
    BY <1>1 DEF McpIInv, NoOrphanServer, AnswersBelong
  <1>4. PipesAgree'
    BY <1>1 DEF McpIInv, PipesAgree, Quiet, Awaits
  <1> QED  BY <1>2, <1>3, <1>4 DEF McpIInv

LEMMA McpStutters == ASSUME McpIInv, UNCHANGED mcpVars PROVE McpIInv'
  <1> USE DEF mcpVars, McpIInv
  <1>1. McpTypeOK' /\ Exclusive' /\ SettingUp' /\ Started'
    BY DEF McpTypeOK, Exclusive, SettingUp, Started
  <1>2. NoOrphanServer' /\ AnswersBelong' /\ PipesAgree'
    BY DEF NoOrphanServer, AnswersBelong, PipesAgree, Quiet, Awaits
  <1> QED  BY <1>1, <1>2

LEMMA McpInductive == McpIInv /\ [McpNext]_mcpVars => McpIInv'
  <1> SUFFICES ASSUME McpIInv, [McpNext]_mcpVars PROVE McpIInv'  OBVIOUS
  <1>1. ASSUME NEW c \in Callers, Call(c) \/ CallerStep(c) PROVE McpIInv'
    BY <1>1, CallStep, LockStep, CheckAliveStep, SpawnStep, SendInitializeStep, InitializedStep,
       SendCallStep, TakeAnswerStep DEF CallerStep
  <1>2. ASSUME NEW s \in Servers, Serve(s) \/ Notify(s) \/ Die(s) PROVE McpIInv'
    BY <1>2, ServeStep, NotifyStep, DieStep
  <1>3. CASE UNCHANGED mcpVars
    BY <1>3, McpStutters
  <1> QED  BY <1>1, <1>2, <1>3 DEF McpNext

LEMMA McpInvariance == McpSpec => []McpIInv
  <1>1. McpInit => McpIInv  BY McpInitially
  <1>2. McpIInv /\ [McpNext]_mcpVars => McpIInv'  BY McpInductive
  <1> QED  BY <1>1, <1>2, PTL DEF McpSpec

-----------------------------------------------------------------------------
\* The lock, the processes and their pipes keep their types.
THEOREM McpTypes == McpSpec => []McpTypeOK
  <1>1. McpIInv => McpTypeOK  BY DEF McpIInv
  <1> QED  BY <1>1, McpInvariance, PTL

\* A call that succeeds returns the answer to its own request, though answers are taken in the order
\* they come and processes are replaced inside a call, unless its own process has sent a line that
\* answers nothing (McpConnection::send_request, mcp_client.rs).
THEOREM AnswersAreOnesOwn == McpSpec => []AnswersBelong
  <1>1. McpIInv => AnswersBelong  BY DEF McpIInv
  <1> QED  BY <1>1, McpInvariance, PTL

\* However calls, failed restarts and deaths of the server interleave, no server process runs that
\* nobody holds (McpToolWrapper::call, Drop for McpConnection, mcp_client.rs).
THEOREM ServersAreHeld == McpSpec => []NoOrphanServer
  <1>1. McpIInv => NoOrphanServer  BY DEF McpIInv
  <1> QED  BY <1>1, McpInvariance, PTL

(***************************************************************************)
(* What the connection promises those who share it.                         *)
(***************************************************************************)
\* On a process that keeps to the protocol the next line is the answer to the last request.
LEMMA LineIsTheAnswer ==
    ASSUME McpIInv, NEW c \in Callers, at[c] = "answer", server \notin noted, HasLine(server)
    PROVE  Line(server) \in {NoteLine, asked[c]}
  <1>1. Awaits(server, asked[c]) /\ asked[c] \in Nat
    BY DEF McpIInv, McpTypeOK, PipesAgree
  <1>2. CASE answers[server] = <<>>
    BY <1>2 DEF Line
  <1>3. CASE answers[server] = <<asked[c]>>
    BY <1>1, <1>3, PipeContents DEF Line
  <1> QED  BY <1>1, <1>2, <1>3 DEF Awaits

LEMMA RpcInitially == McpInit => Rpc!Init
  BY DEF McpInit, Rpc!Init, Stage

\* A step that leaves the lock and the requests alone is none of the connection's.
LEMMA RpcRests ==
    ASSUME UNCHANGED <<holder, asked, got, nextId>>,
           holder = none \/ (at'[holder] = "answer" <=> at[holder] = "answer")
    PROVE  UNCHANGED Rpc!vars
  BY DEF Rpc!vars, Stage

\* Whatever a call ends with, the connection is free again.
LEMMA RpcEnds ==
    ASSUME NEW c \in Callers, NEW result, holder = c, Return(c, result)
    PROVE  Rpc!End(c, result)
  BY DEF Return, Rpc!End, Stage

LEMMA RpcFails ==
    ASSUME McpIInv, NEW c \in Callers, at[c] \notin {"idle", "lock"}, Return(c, -1),
           \/ UNCHANGED <<asked, nextId>>
           \/ at[c] # "answer" /\ nextId' = nextId + 1 /\ asked' = [asked EXCEPT ![c] = nextId]
    PROVE  Rpc!Next
  <1>1. holder = c
    BY OthersWait DEF McpIInv
  <1>2. Stage # "free" /\ (at[c] # "answer" => Stage = "taken")
    BY <1>1, McpAssumption DEF Stage
  <1>3. Rpc!Fail(c)
    BY <1>1, <1>2, RpcEnds DEF Rpc!Fail, Rpc!Number
  <1> QED  BY <1>3 DEF Rpc!Next

\* A request that is sent is one of the connection.
LEMMA RpcSends ==
    ASSUME McpIInv, NEW c \in Callers, NEW s, NEW then \in {"initialized", "answer"},
           at[c] \in {"init", "call"}, Send(c, s, then)
    PROVE  Rpc!Next
  <1>1. holder = c /\ holder # none
    BY OthersWait, McpAssumption DEF McpIInv
  <1>2. nextId' = nextId + 1 /\ asked' = [asked EXCEPT ![c] = nextId]
    BY DEF Send
  <1>3. CASE Return(c, -1)
    BY <1>2, <1>3, RpcFails
  <1>4. CASE at' = [at EXCEPT ![c] = then] /\ UNCHANGED <<holder, got>>
    <2>1. at'[c] = then
      BY <1>4 DEF McpIInv, McpTypeOK
    <2>2. Stage = "taken" /\ Stage' \in {"taken", "asked"}
      BY <1>1, <1>4, <2>1 DEF Stage
    <2>3. Rpc!Request(c)
      BY <1>1, <1>2, <1>4, <2>2 DEF Rpc!Request, Rpc!Number
    <2> QED  BY <2>3 DEF Rpc!Next
  <1> QED  BY <1>3, <1>4 DEF Send

LEMMA RpcCallerStep ==
    ASSUME McpIInv, noted = {}, NEW c \in Callers, CallerStep(c)
    PROVE  [Rpc!Next]_(Rpc!vars)
  <1>1. CASE Lock(c)
    <2>1. holder = none /\ holder' = c /\ at'[c] = "check" /\ UNCHANGED <<asked, got, nextId>>
      BY <1>1 DEF Lock, McpIInv, McpTypeOK
    <2>2. Rpc!Take(c)
      BY <2>1, McpAssumption DEF Rpc!Take, Stage
    <2> QED  BY <2>2 DEF Rpc!Next
  <1>2. CASE CheckAlive(c)
    <2>1. at[c] = "check" /\ at'[c] # "answer" /\ UNCHANGED <<holder, asked, got, nextId>>
      BY <1>2 DEF CheckAlive, McpIInv, McpTypeOK
    <2>2. holder = c
      BY <2>1, OthersWait DEF McpIInv
    <2> QED  BY <2>1, <2>2, RpcRests
  <1>3. CASE Spawn(c)
    <2>1. at[c] = "spawn" /\ UNCHANGED <<asked, nextId>>
      BY <1>3 DEF Spawn
    <2>2. holder = c
      BY <2>1, OthersWait DEF McpIInv
    <2>3. CASE Return(c, -1)
      BY <2>1, <2>3, RpcFails
    <2>4. CASE at' = [at EXCEPT ![c] = "init"] /\ UNCHANGED <<holder, got>>
      <3>1. at'[c] = "init"
        BY <2>4 DEF McpIInv, McpTypeOK
      <3> QED  BY <2>1, <2>2, <2>4, <3>1, RpcRests
    <2> QED  BY <1>3, <2>3, <2>4 DEF Spawn
  <1>4. CASE SendInitialize(c) \/ SendCall(c)
    BY <1>4, RpcSends DEF SendInitialize, SendCall
  <1>5. CASE Initialized(c)
    <2>1. at[c] = "initialized" /\ UNCHANGED <<asked, nextId>>
      BY <1>5 DEF Initialized
    <2>2. holder = c
      BY <2>1, OthersWait DEF McpIInv
    <2>3. CASE Return(c, -1)
      BY <2>1, <2>3, RpcFails
    <2>4. CASE at' = [at EXCEPT ![c] = "call"] /\ UNCHANGED <<holder, got>>
      <3>1. at'[c] = "call"
        BY <2>4 DEF McpIInv, McpTypeOK
      <3> QED  BY <2>1, <2>2, <2>4, <3>1, RpcRests
    <2> QED  BY <1>5, <2>3, <2>4 DEF Initialized
  <1>6. CASE TakeAnswer(c)
    <2>1. /\ at[c] = "answer" /\ HasLine(server) /\ UNCHANGED <<asked, nextId>>
          /\ Return(c, IF Line(server) = NoteLine THEN -1 ELSE Line(server))
      BY <1>6 DEF TakeAnswer
    <2>2. holder = c /\ holder # none
      BY <2>1, OthersWait, McpAssumption DEF McpIInv
    <2>3. Line(server) \in {NoteLine, asked[c]}
      BY <2>1, LineIsTheAnswer
    <2>4. CASE Line(server) = NoteLine
      BY <2>1, <2>4, RpcFails
    <2>5. CASE Line(server) # NoteLine
      <3>1. Return(c, asked[c])
        BY <2>1, <2>3, <2>5
      <3>2. Stage = "asked"
        BY <2>1, <2>2 DEF Stage
      <3>3. Rpc!Succeed(c)
        BY <2>1, <2>2, <3>1, <3>2, RpcEnds DEF Rpc!Succeed
      <3> QED  BY <3>3 DEF Rpc!Next
    <2> QED  BY <2>4, <2>5
  <1> QED  BY <1>1, <1>2, <1>3, <1>4, <1>5, <1>6 DEF CallerStep

LEMMA RpcStep ==
    ASSUME McpIInv, Chatty = {}, [McpNext]_mcpVars
    PROVE  [Rpc!Next]_(Rpc!vars)
  <1>1. noted = {}
    BY DEF McpIInv, McpTypeOK
  <1>2. ASSUME NEW c \in Callers, CallerStep(c) PROVE [Rpc!Next]_(Rpc!vars)
    BY <1>1, <1>2, RpcCallerStep
  <1>3. ASSUME NEW c \in Callers, Call(c) PROVE [Rpc!Next]_(Rpc!vars)
    <2>1. /\ at[c] = "idle" /\ at' = [at EXCEPT ![c] = "lock"]
          /\ UNCHANGED <<holder, asked, got, nextId>>
      BY <1>3 DEF Call
    <2>2. holder # c
      BY <2>1 DEF McpIInv, Exclusive
    <2>3. holder = none \/ at'[holder] = at[holder]
      BY <2>1, <2>2 DEF McpIInv, McpTypeOK
    <2> QED  BY <2>1, <2>3, RpcRests
  <1>4. ASSUME NEW s \in Servers, Serve(s) \/ Notify(s) \/ Die(s)
        PROVE  [Rpc!Next]_(Rpc!vars)
    BY <1>4, RpcRests DEF Serve, Notify, Die
  <1>5. CASE UNCHANGED mcpVars
    BY <1>5, RpcRests DEF mcpVars
  <1> QED  BY <1>2, <1>3, <1>4, <1>5 DEF McpNext

\* Callers take turns on the connection, every request has a number nobody had before, and a turn ends
\* with the answer to its own request or fails, however often the process behind it dies and is
\* replaced, if no process sends lines of its own (McpToolWrapper::call, McpConnection, mcp_client.rs).
THEOREM ConnectionTakesTurns ==
    ASSUME Chatty = {}
    PROVE  McpSpec => TakesTurns
  <1>1. McpInit => Rpc!Init
    BY RpcInitially
  <1>2. McpIInv /\ [McpNext]_mcpVars => [Rpc!Next]_(Rpc!vars)
    BY RpcStep
  <1> QED  BY <1>1, <1>2, McpInvariance, PTL DEF McpSpec, TakesTurns, Rpc!Spec
(***************************************************************************)
(* The end of a call.                                                       *)
(***************************************************************************)
\* Whoever waits for a line of a process finds one, or the end of the pipe, or the process still has
\* a request to read that it answers.
OnItsWay(s) == HasLine(s) \/ \E i \in 1..Len(requests[s]) : requests[s][i] # NoteLine
AnswersAreComing ==
    \A c \in Callers :
        /\ at[c] = "answer" => OnItsWay(server)
        /\ at[c] = "initialized" => OnItsWay(fresh)

\* The steps the holder of the lock has before it, and the lines its processes have not read.
StepsLeft(place) ==
    CASE place = "check" -> 6 [] place = "spawn" -> 5 [] place = "init" -> 4
      [] place = "initialized" -> 3 [] place = "call" -> 2 [] place = "answer" -> 1
Unread(s) == IF s \in live THEN Len(requests[s]) ELSE 0
CallLeft == IF holder = none THEN 0 ELSE 2 * StepsLeft(at[holder]) + Unread(server) + Unread(fresh)

\* A call that has the lock comes nearer to its end with each of its own steps and of the servers';
\* calls that begin, notifications and deaths do not put it off.
CallIsUsedUp ==
    [][holder # none =>
          IF (\E c \in Callers : CallerStep(c)) \/ (\E s \in Servers : Serve(s))
          THEN CallLeft' < CallLeft
          ELSE CallLeft' <= CallLeft]_mcpVars

-----------------------------------------------------------------------------
\* A step of the holder that does not end in a wait leaves nobody waiting.
LEMMA NobodyLeftWaiting ==
    ASSUME McpIInv, NEW c \in Callers, at[c] \notin {"idle", "lock"} \/ holder = none,
           NEW place, place \notin {"answer", "initialized"}, at' = [at EXCEPT ![c] = place]
    PROVE  \A d \in Callers : at'[d] \notin {"answer", "initialized"}
  <1>1. \A d \in Callers : d # c => at[d] \in {"idle", "lock"}
    BY McpAssumption DEF McpIInv, Exclusive
  <1>2. at'[c] = place /\ \A d \in Callers : d # c => at'[d] = at[d]
    BY DEF McpIInv, McpTypeOK
  <1> QED  BY <1>1, <1>2

\* A request that was sent will be answered.
LEMMA SentIsComing ==
    ASSUME McpIInv, NEW c \in Callers, at[c] \in {"init", "call"}, NEW s \in Servers,
           NEW then \in {"answer", "initialized"}, Send(c, s, then)
    PROVE  \/ \A d \in Callers : at'[d] \notin {"answer", "initialized"}
           \/ /\ \A d \in Callers : d # c => at'[d] \notin {"answer", "initialized"}
              /\ at'[c] = then /\ UNCHANGED fresh
              /\ \E i \in 1..Len(requests'[s]) : requests'[s][i] # NoteLine
  <1>1. CASE Return(c, -1)
    BY <1>1, NobodyLeftWaiting DEF Return
  <1>2. CASE /\ requests' = [requests EXCEPT ![s] = Append(@, nextId)]
             /\ at' = [at EXCEPT ![c] = then]
             /\ UNCHANGED <<holder, got, fresh, live>>
    <2>1. \A d \in Callers : d # c => at[d] \in {"idle", "lock"}
      BY OthersWait DEF McpIInv
    <2>2. at'[c] = then /\ \A d \in Callers : d # c => at'[d] = at[d]
      BY <1>2 DEF McpIInv, McpTypeOK
    <2>3. requests[s] \in Seq(Nat) /\ nextId \in Nat \ {0} /\ requests'[s] = Append(requests[s], nextId)
      BY <1>2 DEF McpIInv, McpTypeOK
    <2>4. /\ Len(requests'[s]) = Len(requests[s]) + 1 /\ Len(requests[s]) \in Nat
          /\ requests'[s][Len(requests[s]) + 1] = nextId
      BY <2>3
    <2>5. Len(requests[s]) + 1 \in 1..Len(requests'[s])
          /\ requests'[s][Len(requests[s]) + 1] # NoteLine
      BY <2>3, <2>4 DEF NoteLine
    <2> QED  BY <1>2, <2>1, <2>2, <2>5
  <1> QED  BY <1>1, <1>2 DEF Send

LEMMA CallersKeepComing ==
    ASSUME McpIInv, AnswersAreComing, NEW c \in Callers, CallerStep(c)
    PROVE  AnswersAreComing'
  <1>1. CASE Lock(c) \/ CheckAlive(c) \/ TakeAnswer(c)
    <2>1. \A d \in Callers : at'[d] \notin {"answer", "initialized"}
      BY <1>1, NobodyLeftWaiting DEF Lock, CheckAlive, TakeAnswer, Return
    <2> QED  BY <2>1 DEF AnswersAreComing
  <1>2. CASE Spawn(c) \/ Initialized(c)
    <2>1. \A d \in Callers : at'[d] \notin {"answer", "initialized"}
      BY <1>2, NobodyLeftWaiting DEF Spawn, Initialized, Return
    <2> QED  BY <2>1 DEF AnswersAreComing
  <1>3. CASE SendInitialize(c)
    <2>1. fresh \in Servers /\ at[c] = "init" /\ Send(c, fresh, "initialized")
      BY <1>3 DEF SendInitialize, McpIInv, McpTypeOK, SettingUp
    <2> QED  BY <2>1, SentIsComing DEF AnswersAreComing, OnItsWay
  <1>4. CASE SendCall(c)
    <2>1. server \in Servers /\ at[c] = "call" /\ Send(c, server, "answer") /\ UNCHANGED server
      BY <1>4 DEF SendCall, McpIInv, McpTypeOK
    <2> QED  BY <2>1, SentIsComing DEF AnswersAreComing, OnItsWay
  <1> QED  BY <1>1, <1>2, <1>3, <1>4 DEF CallerStep

\* A server that reads a request answers it; one that has died is noticed.
LEMMA ServersKeepComing ==
    ASSUME McpIInv, NEW s \in Servers, Serve(s) \/ Notify(s) \/ Die(s), NEW x \in Servers,
           OnItsWay(x)
    PROVE  OnItsWay(x)'
  <1>1. /\ requests \in [Servers -> Seq(Nat)] /\ answers \in [Servers -> Seq(Nat)]
    BY DEF McpIInv, McpTypeOK
  <1>2. CASE Die(s)
    BY <1>2 DEF Die, pipes, OnItsWay, HasLine
  <1>3. CASE Notify(s)
    <2>1. /\ UNCHANGED <<requests, live>> /\ answers'[s] = Append(answers[s], NoteLine)
          /\ x # s => answers'[x] = answers[x]
      BY <1>1, <1>3 DEF Notify
    <2>2. answers[s] \in Seq(Nat) /\ NoteLine \in Nat
      BY <1>1 DEF NoteLine
    <2>3. answers'[s] # <<>>
      BY <2>1, <2>2
    <2> QED  BY <2>1, <2>3 DEF OnItsWay, HasLine
  <1>4. CASE Serve(s)
    <2> DEFINE line == Head(requests[s])
    <2>1. /\ live' = live /\ requests[s] # <<>> /\ requests[s] \in Seq(Nat)
          /\ requests'[s] = Tail(requests[s])
          /\ x # s => requests'[x] = requests[x] /\ answers'[x] = answers[x]
          /\ line = NoteLine => answers'[s] = answers[s]
          /\ line # NoteLine => answers'[s] = Append(answers[s], line)
      BY <1>1, <1>4 DEF Serve
    <2>2. CASE x # s
      BY <2>1, <2>2 DEF OnItsWay, HasLine
    <2>3. CASE x = s /\ line # NoteLine
      <3>1. line \in Nat /\ answers[s] \in Seq(Nat)
        BY <1>1, <2>1
      <3> HIDE DEF line
      <3>2. answers'[s] # <<>>
        BY <2>1, <2>3, <3>1
      <3> QED  BY <2>3, <3>2 DEF OnItsWay, HasLine
    <2>4. CASE x = s /\ line = NoteLine /\ HasLine(s)
      BY <2>1, <2>4 DEF OnItsWay, HasLine
    <2>5. CASE x = s /\ line = NoteLine /\ \E i \in 1..Len(requests[s]) : requests[s][i] # NoteLine
      <3>1. PICK i \in 1..Len(requests[s]) : requests[s][i] # NoteLine
        BY <2>5
      <3>2. i # 1
        BY <2>1, <2>5, <3>1
      <3>3. Len(requests'[s]) = Len(requests[s]) - 1 /\ Len(requests[s]) \in Nat
        BY <2>1
      <3>4. i - 1 \in 1..Len(requests'[s]) /\ requests'[s][i - 1] = requests[s][i]
        BY <2>1, <3>2, <3>3
      <3> QED  BY <2>5, <3>1, <3>4 DEF OnItsWay
    <2> QED  BY <2>2, <2>3, <2>4, <2>5 DEF OnItsWay
  <1> QED  BY <1>2, <1>3, <1>4

LEMMA ComingInductive ==
    ASSUME McpIInv, AnswersAreComing, [McpNext]_mcpVars
    PROVE  AnswersAreComing'
  <1>1. ASSUME NEW c \in Callers, CallerStep(c) PROVE AnswersAreComing'
    BY <1>1, CallersKeepComing
  <1>2. ASSUME NEW c \in Callers, Call(c) PROVE AnswersAreComing'
    <2>1. \A d \in Callers : at'[d] \in {"answer", "initialized"} => at'[d] = at[d]
      BY <1>2 DEF Call, McpIInv, McpTypeOK
    <2>2. UNCHANGED <<server, fresh, live, requests, answers>>
      BY <1>2 DEF Call, pipes
    <2> QED  BY <2>1, <2>2 DEF AnswersAreComing, OnItsWay, HasLine
  <1>3. ASSUME NEW s \in Servers, Serve(s) \/ Notify(s) \/ Die(s) PROVE AnswersAreComing'
    <2>1. server \in Servers /\ \A c \in Callers : at[c] = "initialized" => fresh \in Servers
      BY DEF McpIInv, McpTypeOK, SettingUp
    <2>2. UNCHANGED <<at, server, fresh>>
      BY <1>3 DEF Serve, Notify, Die
    <2>3. /\ OnItsWay(server) => OnItsWay(server)'
          /\ fresh \in Servers /\ OnItsWay(fresh) => OnItsWay(fresh)'
      <3>1. \A x \in Servers : OnItsWay(x) => (HasLine(x) \/ \E i \in 1..Len(requests[x]) : requests[x][i] # NoteLine)'
        BY <1>3, ServersKeepComing DEF OnItsWay
      <3> QED  BY <2>1, <2>2, <3>1 DEF OnItsWay, HasLine
    <2> QED  BY <2>1, <2>2, <2>3 DEF AnswersAreComing
  <1>4. CASE UNCHANGED mcpVars
    BY <1>4 DEF mcpVars, AnswersAreComing, OnItsWay, HasLine
  <1> QED  BY <1>1, <1>2, <1>3, <1>4 DEF McpNext

\* Only a silent server keeps anybody waiting: behind every wait for an answer is a line in the pipe,
\* the end of the pipe, or a request the server has not read, also when notifications have been taken
\* for answers (McpConnection::send_request, which has no deadline, mcp_client.rs).
THEOREM NobodyWaitsInVain == McpSpec => []AnswersAreComing
  <1>1. McpInit => AnswersAreComing
    BY DEF McpInit, AnswersAreComing
  <1>2. McpIInv /\ AnswersAreComing /\ [McpNext]_mcpVars => AnswersAreComing'
    BY ComingInductive
  <1> QED  BY <1>1, <1>2, McpInvariance, PTL DEF McpSpec

-----------------------------------------------------------------------------
LEMMA PlacesLeft ==
    ASSUME NEW place \in {"check", "spawn", "init", "initialized", "call", "answer"}
    PROVE  StepsLeft(place) \in 1..6
  BY DEF StepsLeft

LEMMA CallLeftFacts ==
    ASSUME McpTypeOK
    PROVE  /\ \A s \in Servers : Len(requests[s]) \in Nat
           /\ \A s : Unread(s) \in Nat
           /\ Unread(0) = 0
  <1>1. \A s \in Servers : Len(requests[s]) \in Nat
    BY DEF McpTypeOK
  <1>2. \A s : s \in live => s \in Servers
    BY DEF McpTypeOK
  <1>3. 0 \notin live
    BY <1>2, McpTypeFacts
  <1> QED  BY <1>1, <1>2, <1>3 DEF Unread

\* The holder of the lock is at a place of a call.
LEMMA HolderIsInside ==
    ASSUME McpTypeOK, Exclusive, holder # none
    PROVE  /\ holder \in Callers
           /\ at[holder] \in {"check", "spawn", "init", "initialized", "call", "answer"}
           /\ StepsLeft(at[holder]) \in 1..6
           /\ CallLeft = 2 * StepsLeft(at[holder]) + Unread(server) + Unread(fresh)
  <1>1. holder \in Callers
    BY DEF McpTypeOK
  <1>2. at[holder] \in {"check", "spawn", "init", "initialized", "call", "answer"}
    BY <1>1 DEF McpTypeOK, Exclusive
  <1>3. StepsLeft(at[holder]) \in 1..6
    BY <1>2, PlacesLeft
  <1> QED  BY <1>1, <1>2, <1>3 DEF CallLeft

LEMMA CallLeftType ==
    ASSUME McpIInv
    PROVE  CallLeft \in Nat /\ ({server, fresh} \intersect noted = {} => CallLeft =< 14)
  <1>1. CASE holder = none
    BY <1>1 DEF CallLeft
  <1>2. CASE holder # none
    <2>1. /\ StepsLeft(at[holder]) \in 1..6 /\ Unread(server) \in Nat /\ Unread(fresh) \in Nat
          /\ CallLeft = 2 * StepsLeft(at[holder]) + Unread(server) + Unread(fresh)
      BY <1>2, HolderIsInside, CallLeftFacts DEF McpIInv
    <2>2. ASSUME {server, fresh} \intersect noted = {}
          PROVE  Unread(server) + Unread(fresh) =< 2
      <3>1. ASSUME NEW s \in Servers, NEW id \in Nat, Quiet(s) \/ Awaits(s, id)
            PROVE  Unread(s) =< 2
        <4>1. requests[s] \in {<<>>, <<NoteLine>>, <<id>>, <<NoteLine, id>>}
          BY <3>1 DEF Quiet, Awaits
        <4>2. /\ Len(<<>>) = 0 /\ Len(<<NoteLine>>) = 1
              /\ Len(<<id>>) = 1 /\ Len(<<NoteLine, id>>) = 2
          OBVIOUS
        <4>3. Len(requests[s]) \in 0..2
          BY <4>1, <4>2
        <4> DEFINE length == Len(requests[s])
        <4>4. Unread(s) \in {length, 0} /\ length \in 0..2
          BY <4>3 DEF Unread
        <4> HIDE DEF length
        <4> QED  BY <4>4
      <3>2. \A c \in Callers : asked[c] \in Nat
        BY DEF McpIInv, McpTypeOK
      <3>3. \A s : s \notin live => Unread(s) = 0
        BY DEF Unread
      <3>4. CASE server \in live
        <4>1. Unread(fresh) = 0 /\ server \in Servers
          BY <3>3, <3>4 DEF McpIInv, McpTypeOK, NoOrphanServer
        <4>2. Quiet(server) \/ \E c \in Callers : Awaits(server, asked[c])
          BY <2>2, <3>4 DEF McpIInv, PipesAgree
        <4>3. Unread(server) =< 2
          BY <3>1, <3>2, <4>1, <4>2
        <4> QED  BY <2>1, <4>1, <4>3
      <3>5. CASE server \notin live /\ fresh \in live
        <4>1. Unread(server) = 0 /\ fresh \in Servers /\ fresh # 0
          BY <3>3, <3>5, McpTypeFacts DEF McpIInv, McpTypeOK
        <4>2. at[holder] \in {"init", "initialized"} /\ holder \in Callers
          BY <1>2, <4>1, HolderIsInside DEF McpIInv, SettingUp
        <4>3. Quiet(fresh) \/ Awaits(fresh, asked[holder])
          BY <2>2, <4>2 DEF McpIInv, PipesAgree
        <4>4. Unread(fresh) =< 2
          BY <3>1, <3>2, <4>1, <4>2, <4>3
        <4> QED  BY <2>1, <4>1, <4>4
      <3>6. CASE server \notin live /\ fresh \notin live
        BY <3>3, <3>6
      <3> QED  BY <3>4, <3>5, <3>6
    <2> QED  BY <2>1, <2>2
  <1> QED  BY <1>1, <1>2

\* A call that has returned has nothing left, and one that goes on had more before.
LEMMA ReturnUsesUp ==
    ASSUME McpIInv, holder # none, holder' = none
    PROVE  CallLeft' < CallLeft
  <1>1. /\ StepsLeft(at[holder]) \in 1..6 /\ Unread(server) \in Nat /\ Unread(fresh) \in Nat
        /\ CallLeft = 2 * StepsLeft(at[holder]) + Unread(server) + Unread(fresh)
    BY HolderIsInside, CallLeftFacts DEF McpIInv
  <1>2. CallLeft' = 0
    BY DEF CallLeft
  <1> QED  BY <1>1, <1>2

LEMMA StepUsesUp ==
    ASSUME McpIInv, McpIInv', holder # none, holder' = holder,
           StepsLeft(at'[holder]) < StepsLeft(at[holder]),
           Unread(server)' + Unread(fresh)' =< Unread(server) + Unread(fresh) + 1
    PROVE  CallLeft' < CallLeft
  <1>1. /\ StepsLeft(at[holder]) \in 1..6 /\ Unread(server) \in Nat /\ Unread(fresh) \in Nat
        /\ CallLeft = 2 * StepsLeft(at[holder]) + Unread(server) + Unread(fresh)
    BY HolderIsInside, CallLeftFacts DEF McpIInv
  <1>2. StepsLeft(at'[holder]) \in 1..6
    BY PlacesLeft DEF McpIInv, McpTypeOK, Exclusive
  <1>3. Unread(server)' \in Nat /\ Unread(fresh)' \in Nat
    <2>1. live' \subseteq Servers /\ requests' \in [Servers -> Seq(Nat)]
      BY DEF McpIInv, McpTypeOK
    <2>2. \A s \in Servers : Len(requests'[s]) \in Nat
      BY <2>1
    <2> QED  BY <2>1, <2>2 DEF Unread
  <1>4. CallLeft' = 2 * StepsLeft(at'[holder]) + Unread(server)' + Unread(fresh)'
    BY DEF CallLeft
  <1> QED  BY <1>1, <1>2, <1>3, <1>4

\* One more line is at most one more to read.
LEMMA OneMoreUnread ==
    ASSUME McpTypeOK, NEW s \in Servers, NEW id \in Nat,
           requests' = [requests EXCEPT ![s] = Append(@, id)]
    PROVE  /\ Len(requests'[s]) = Len(requests[s]) + 1 /\ Len(requests[s]) \in Nat
           /\ \A x \in Servers : x # s => requests'[x] = requests[x]
  <1>1. requests \in [Servers -> Seq(Nat)]
    BY DEF McpTypeOK
  <1>2. requests'[s] = Append(requests[s], id) /\ requests[s] \in Seq(Nat)
    BY <1>1
  <1>3. \A x \in Servers : x # s => requests'[x] = requests[x]
    BY <1>1
  <1> QED  BY <1>2, <1>3

LEMMA SendUsesUp ==
    ASSUME McpIInv, McpIInv', NEW c \in Callers, holder = c, holder # none,
           NEW s \in {server, fresh} \intersect Servers, NEW then,
           \/ at[c] = "init" /\ then = "initialized"
           \/ at[c] = "call" /\ then = "answer",
           Send(c, s, then), UNCHANGED server
    PROVE  CallLeft' < CallLeft
  <1>1. CASE Return(c, -1)
    BY <1>1, ReturnUsesUp DEF Return
  <1>2. CASE /\ s \in live
             /\ requests' = [requests EXCEPT ![s] = Append(@, nextId)]
             /\ at' = [at EXCEPT ![c] = then]
             /\ UNCHANGED <<holder, got, fresh, live>>
    <2>1. at'[c] = then /\ nextId \in Nat /\ live \subseteq Servers
      BY <1>2 DEF McpIInv, McpTypeOK
    <2>2. StepsLeft(at'[c]) < StepsLeft(at[c])
      BY <2>1 DEF StepsLeft
    <2>3. /\ Len(requests'[s]) = Len(requests[s]) + 1 /\ Len(requests[s]) \in Nat
          /\ \A x \in Servers : x # s => requests'[x] = requests[x]
      BY <1>2, <2>1, OneMoreUnread DEF McpIInv
    <2>4. fresh # server /\ Unread(server) \in Nat /\ Unread(fresh) \in Nat
      BY CallLeftFacts DEF McpIInv, Started
    <2>5. /\ \A x : x # s => Unread(x)' = Unread(x)
          /\ Unread(s)' = Unread(s) + 1
      BY <1>2, <2>1, <2>3 DEF Unread
    <2>6. Unread(server)' + Unread(fresh)' =< Unread(server) + Unread(fresh) + 1
      BY <1>2, <2>4, <2>5
    <2> QED  BY <1>2, <2>2, <2>6, StepUsesUp
  <1> QED  BY <1>1, <1>2 DEF Send

LEMMA SpawnUsesUp ==
    ASSUME McpIInv, McpIInv', NEW c \in Callers, holder = c, holder # none, Spawn(c)
    PROVE  CallLeft' < CallLeft
  <1>1. at[c] = "spawn" /\ server \notin live /\ UNCHANGED <<server, requests>>
    BY DEF Spawn, pipes, McpIInv, SettingUp
  <1>2. CASE Return(c, -1)
    BY <1>2, ReturnUsesUp DEF Return
  <1>3. CASE /\ started' = started + 1 /\ fresh' = started' /\ live' = live \union {started'}
             /\ at' = [at EXCEPT ![c] = "init"] /\ holder' = holder
    <2>1. at'[c] = "init"
      BY <1>3 DEF McpIInv, McpTypeOK
    <2>2. StepsLeft(at'[c]) < StepsLeft(at[c])
      BY <1>1, <2>1 DEF StepsLeft
    <2>3. server \notin live'
      <3>1. server =< started /\ started \in Nat /\ server \in Nat
        BY McpTypeFacts DEF McpIInv, Started
      <3> QED  BY <1>1, <1>3, <3>1
    <2>4. Unread(server)' = 0
      BY <1>1, <2>3 DEF Unread
    <2>5. Unread(fresh)' = 0
      <3>1. started' \in Servers /\ started' > started
        BY <1>3, McpTypeFacts DEF McpIInv, McpTypeOK
      <3>2. requests[started'] = <<>>
        BY <3>1 DEF McpIInv, Started
      <3> QED  BY <1>1, <1>3, <3>2 DEF Unread
    <2>6. Unread(server) \in Nat /\ Unread(fresh) \in Nat
      BY CallLeftFacts DEF McpIInv
    <2> QED  BY <1>3, <2>2, <2>4, <2>5, <2>6, StepUsesUp
  <1> QED  BY <1>2, <1>3 DEF Spawn

LEMMA InitializedUsesUp ==
    ASSUME McpIInv, McpIInv', NEW c \in Callers, holder = c, holder # none, Initialized(c)
    PROVE  CallLeft' < CallLeft
  <1>1. at[c] = "initialized" /\ server \notin live /\ fresh \in Servers
    BY DEF Initialized, McpIInv, McpTypeOK, SettingUp
  <1>2. CASE Return(c, -1)
    BY <1>2, ReturnUsesUp DEF Return
  <1>3. CASE /\ fresh \in live
             /\ requests' = [requests EXCEPT ![fresh] = Append(@, NoteLine)]
             /\ server' = fresh /\ fresh' = 0 /\ live' = live \ {server}
             /\ at' = [at EXCEPT ![c] = "call"] /\ holder' = holder
    <2>1. at'[c] = "call"
      BY <1>3 DEF McpIInv, McpTypeOK
    <2>2. StepsLeft(at'[c]) < StepsLeft(at[c])
      BY <1>1, <2>1 DEF StepsLeft
    <2>3. Len(requests'[fresh]) = Len(requests[fresh]) + 1 /\ Len(requests[fresh]) \in Nat
      BY <1>1, <1>3, OneMoreUnread DEF McpIInv, NoteLine
    <2>4. live' = live /\ 0 \notin live
      BY <1>1, <1>3, McpTypeFacts DEF McpIInv, McpTypeOK
    <2>5. Unread(server)' = Unread(fresh) + 1 /\ Unread(fresh)' = 0 /\ Unread(server) = 0
      BY <1>1, <1>3, <2>3, <2>4 DEF Unread
    <2>6. Unread(fresh) \in Nat
      BY CallLeftFacts DEF McpIInv
    <2> QED  BY <1>3, <2>2, <2>5, <2>6, StepUsesUp
  <1> QED  BY <1>2, <1>3 DEF Initialized

LEMMA CallersUseUp ==
    ASSUME McpIInv, McpIInv', NEW c \in Callers, CallerStep(c), holder # none
    PROVE  CallLeft' < CallLeft
  <1>1. ~Lock(c)
    BY DEF Lock
  <1>2. holder = c
    <2>1. at[c] \notin {"idle", "lock"}
      BY <1>1 DEF CallerStep, CheckAlive, Spawn, SendInitialize, Initialized, SendCall, TakeAnswer
    <2> QED  BY <2>1, OthersWait DEF McpIInv
  <1>3. CASE CheckAlive(c)
    <2>1. at[c] = "check" /\ at'[c] \in {"call", "spawn"} /\ UNCHANGED <<holder, server, fresh, live, requests>>
      BY <1>3 DEF CheckAlive, pipes, McpIInv, McpTypeOK
    <2>2. StepsLeft(at'[c]) < StepsLeft(at[c])
      BY <2>1 DEF StepsLeft
    <2>3. Unread(server)' = Unread(server) /\ Unread(fresh)' = Unread(fresh)
      BY <2>1 DEF Unread
    <2>4. Unread(server) \in Nat /\ Unread(fresh) \in Nat
      BY CallLeftFacts DEF McpIInv
    <2> QED  BY <1>2, <2>1, <2>2, <2>3, <2>4, StepUsesUp
  <1>4. CASE SendInitialize(c)
    <2>1. fresh \in Servers /\ at[c] = "init" /\ Send(c, fresh, "initialized") /\ server' = server
      BY <1>4 DEF SendInitialize, McpIInv, McpTypeOK, SettingUp
    <2> QED  BY <1>2, <2>1, SendUsesUp
  <1>5. CASE SendCall(c)
    <2>1. server \in Servers /\ at[c] = "call" /\ Send(c, server, "answer") /\ server' = server
      BY <1>5 DEF SendCall, McpIInv, McpTypeOK
    <2> QED  BY <1>2, <2>1, SendUsesUp
  <1>6. CASE TakeAnswer(c)
    BY <1>6, ReturnUsesUp DEF TakeAnswer, Return
  <1> QED  BY <1>1, <1>2, <1>3, <1>4, <1>5, <1>6, SpawnUsesUp, InitializedUsesUp DEF CallerStep

\* A process that runs is one of the two of the connection, and reading leaves it less to read.
LEMMA ServersUseUp ==
    ASSUME McpIInv, NEW s \in Servers, Serve(s), holder # none
    PROVE  CallLeft' < CallLeft
  <1>1. /\ s \in live /\ requests[s] # <<>> /\ requests[s] \in Seq(Nat)
        /\ requests'[s] = Tail(requests[s])
        /\ \A x \in Servers : x # s => requests'[x] = requests[x]
        /\ UNCHANGED <<holder, at, server, fresh, live>>
    BY DEF Serve, McpIInv, McpTypeOK
  <1>2. Len(requests'[s]) = Len(requests[s]) - 1 /\ Len(requests[s]) \in Nat
    BY <1>1
  <1>3. /\ \A x : x # s => Unread(x)' = Unread(x)
        /\ Unread(s)' = Unread(s) - 1
    <2>1. live \subseteq Servers
      BY DEF McpIInv, McpTypeOK
    <2> QED  BY <1>1, <1>2, <2>1 DEF Unread
  <1>4. s \in {server, fresh} /\ fresh # server
    BY <1>1 DEF McpIInv, Started, NoOrphanServer
  <1>5. Unread(server) \in Nat /\ Unread(fresh) \in Nat
    BY CallLeftFacts DEF McpIInv
  <1>6. \/ Unread(server)' = Unread(server) - 1 /\ Unread(fresh)' = Unread(fresh)
        \/ Unread(server)' = Unread(server) /\ Unread(fresh)' = Unread(fresh) - 1
    BY <1>1, <1>3, <1>4
  <1>7. /\ StepsLeft(at[holder]) \in 1..6
        /\ CallLeft = 2 * StepsLeft(at[holder]) + Unread(server) + Unread(fresh)
    BY HolderIsInside DEF McpIInv
  <1>8. CallLeft' = 2 * StepsLeft(at[holder]) + Unread(server)' + Unread(fresh)'
    BY <1>1 DEF CallLeft
  <1> QED  BY <1>5, <1>6, <1>7, <1>8

\* What else happens does not put the end of a call off.
LEMMA OthersDoNotDelay ==
    ASSUME McpIInv, holder # none,
           \/ \E c \in Callers : Call(c)
           \/ \E s \in Servers : Notify(s) \/ Die(s)
    PROVE  CallLeft' =< CallLeft
  <1>1. UNCHANGED <<holder, server, fresh, requests>> /\ live' \subseteq live
    BY DEF Call, Notify, Die, pipes
  <1>2. at'[holder] = at[holder]
    <2>1. at[holder] # "idle" /\ holder \in Callers
      BY DEF McpIInv, McpTypeOK, Exclusive
    <2> QED  BY <2>1 DEF Call, Notify, Die, McpIInv, McpTypeOK
  <1>3. \A s \in {server, fresh} : Unread(s) \in Nat /\ Unread(s)' \in {0, Unread(s)}
    <2>1. \A s : Unread(s) \in Nat
      BY CallLeftFacts DEF McpIInv
    <2> QED  BY <1>1, <2>1 DEF Unread
  <1>4. /\ StepsLeft(at[holder]) \in 1..6
        /\ CallLeft = 2 * StepsLeft(at[holder]) + Unread(server) + Unread(fresh)
    BY HolderIsInside DEF McpIInv
  <1>5. CallLeft' = 2 * StepsLeft(at[holder]) + Unread(server)' + Unread(fresh)'
    BY <1>1, <1>2 DEF CallLeft
  <1>6. Unread(server)' \in {0, Unread(server)} /\ Unread(fresh)' \in {0, Unread(fresh)}
    BY <1>1, <1>3
  <1> QED  BY <1>3, <1>4, <1>5, <1>6

\* A call that has the lock is over after at most 14 steps of its own and of its servers, whether its
\* process dies under it, is replaced or cannot be, unless a server has sent lines of its own; and no
\* call that waits, no death and no notification puts that off (McpToolWrapper::call, mcp_client.rs).
THEOREM McpCallsAreBounded ==
    /\ McpSpec => CallIsUsedUp
    /\ McpSpec => [](/\ CallLeft \in Nat
                     /\ {server, fresh} \intersect noted = {} => CallLeft =< 14)
  <1>1. McpIInv /\ McpIInv' /\ [McpNext]_mcpVars =>
           [holder # none =>
               IF (\E c \in Callers : CallerStep(c)) \/ (\E s \in Servers : Serve(s))
               THEN CallLeft' < CallLeft
               ELSE CallLeft' <= CallLeft]_mcpVars
    <2> SUFFICES ASSUME McpIInv, McpIInv', McpNext, holder # none
                 PROVE  IF (\E c \in Callers : CallerStep(c)) \/ (\E s \in Servers : Serve(s))
                        THEN CallLeft' < CallLeft
                        ELSE CallLeft' <= CallLeft
      OBVIOUS
    <2>1. CASE (\E c \in Callers : CallerStep(c)) \/ (\E s \in Servers : Serve(s))
      BY <2>1, CallersUseUp, ServersUseUp
    <2>2. CASE ~((\E c \in Callers : CallerStep(c)) \/ (\E s \in Servers : Serve(s)))
      BY <2>2, OthersDoNotDelay DEF McpNext
    <2> QED  BY <2>1, <2>2
  <1>2. McpIInv => /\ CallLeft \in Nat
                   /\ {server, fresh} \intersect noted = {} => CallLeft =< 14
    BY CallLeftType
  <1> QED  BY <1>1, <1>2, McpInvariance, PTL DEF McpSpec, CallIsUsedUp
=================================================================================
