-------------------------- MODULE InteractiveProofs --------------------------
(***************************************************************************)
(* Proofs about Interactive, for any files, any number of lines and of      *)
(* unread thoughts.                                                         *)
(***************************************************************************)
EXTENDS Interactive, TLAPS, FiniteSetTheorems, SequenceTheorems

\* A tick that looked at the flag before the turn began and has not asked the model yet.
Invited == dmn = "tick" /\ ~sampled

\* During a turn the flag is up, and once it has had its guest nobody else is invited.
Invariant ==
    /\ guests \in 0..1
    /\ InTurn => busy /\ (guests = 1 => ~Invited)

\* What the main thread does: a turn begins and ends with its flag, and without one it is down.
LEMMA MainStepKeeps ==
  ASSUME Invariant, MainStep
  PROVE  Invariant'
<1> USE DEF Invariant, InTurn, Invited
<1>1. CASE Prompt
  BY <1>1 DEF Prompt, sensorVars
<1>2. CASE Read
  <2>1. repl' \notin {"turn", "confirm"}
    BY <1>2 DEF Read, After
  <2> QED
    BY <1>2, <2>1 DEF Read
<1>3. CASE BeginTurn
  BY <1>3 DEF BeginTurn, reflectionVars
<1>4. CASE AskUser \/ UserAnswers
  BY <1>4 DEF AskUser, UserAnswers, reflectionVars
<1>5. CASE EndTurn
  BY <1>5 DEF EndTurn
<1>6. CASE Stop \/ Join
  BY <1>6 DEF Stop, Join
<1> QED
  BY <1>1, <1>2, <1>3, <1>4, <1>5, <1>6 DEF MainStep

\* What the reflection does: only an invited one may ask, and then it is no longer invited.
LEMMA ReflectKeeps ==
  ASSUME Invariant, Reflect
  PROVE  Invariant'
<1> USE DEF Invariant, InTurn, Invited, Reflect
<1>1. CASE Look
  BY <1>1 DEF Look
<1>2. CASE Skip \/ Routine \/ Speak
  BY <1>2 DEF Skip, Routine, Speak
<1>3. CASE Ask
  BY <1>3 DEF Ask
<1> QED
  BY <1>1, <1>2, <1>3 DEF ReflectionStep

\* The other threads, the user and the signals leave the flag and the reflection alone.
LEMMA OthersKeep ==
  ASSUME Invariant,
         \/ UNCHANGED vars
         \/ \E line \in Lines : Type(line)
         \/ CtrlC \/ RelaySignal \/ Watch \/ Record \/ Work
  PROVE  Invariant'
  BY DEF Invariant, InTurn, Invited, vars, replVars, reflectionVars, Type, CtrlC, RelaySignal,
         Watch, Record, Work

LEMMA InvariantHolds == Spec => []Invariant
<1>1. Init => Invariant
  BY DEF Init, Invariant, InTurn
<1>2. Invariant /\ [Next]_vars => Invariant'
  BY MainStepKeeps, ReflectKeeps, OthersKeep DEF Next
<1> QED
  BY <1>1, <1>2, PTL DEF Spec

\* For any session: a turn shares the model with one reflection at most.
THEOREM OneGuest == Spec => []AtMostOneGuest
<1>1. Invariant => AtMostOneGuest
  BY DEF Invariant, AtMostOneGuest
<1> QED
  BY <1>1, InvariantHolds, PTL

-----------------------------------------------------------------------------
(***************************************************************************)
(* Types.                                                                   *)
(***************************************************************************)
\* What is typed and not read, and what may be thought, keep within their bounds.
WithinBounds ==
    /\ Len(stdin) <= typed
    /\ dmn = "asking" => inbox < MaxInbox

Typed == TypeOK /\ WithinBounds

LEMMA BoundedSeqIs ==
  ASSUME NEW S, NEW n \in Nat, NEW s
  PROVE  s \in BoundedSeq(S, n) <=> s \in Seq(S) /\ Len(s) <= n
<1>1. s \in BoundedSeq(S, n) <=> \E m \in 0..n : s \in [1..m -> S]
  BY DEF BoundedSeq, SeqOf
<1>2. ASSUME NEW m \in 0..n, s \in [1..m -> S]
      PROVE  s \in Seq(S) /\ Len(s) <= n
  <2>1. m \in Nat /\ s \in Seq(S) /\ Len(s) = m
    BY <1>2
  <2> QED
    BY <2>1
<1>3. ASSUME s \in Seq(S), Len(s) <= n
      PROVE  Len(s) \in 0..n /\ s \in [1..Len(s) -> S]
  BY <1>3
<1> QED
  BY <1>1, <1>2, <1>3

\* The memory holds no more than the generator looks back at.
LEMMA RememberType ==
  ASSUME memory \in BoundedSeq({"failure", "sensor", "other"}, Recent),
         NEW what \in {"failure", "sensor", "other"}
  PROVE  Remember(what) \in BoundedSeq({"failure", "sensor", "other"}, Recent)
<1> DEFINE S == {"failure", "sensor", "other"}
           t == <<what>> \o memory
           k == IF Len(memory) < Recent THEN Len(memory) + 1 ELSE Recent
<1>1. memory \in Seq(S) /\ Len(memory) \in Nat /\ Recent \in Nat
  BY BoundedSeqIs DEF Recent
<1>2. <<what>> \in Seq(S) /\ Len(<<what>>) = 1
  OBVIOUS
<1>3. t \in Seq(S) /\ Len(t) = 1 + Len(memory)
  BY <1>1, <1>2, ConcatProperties
<1>4. k \in 0..Recent /\ k <= 1 + Len(memory)
  BY <1>1
<1>5. Remember(what) = SubSeq(t, 1, k)
  BY DEF Remember
<1> HIDE DEF t, k, S
<1>6. k \in Int /\ 1 \in Int /\ \A i \in 1..k : t[i] \in S
  BY <1>1, <1>3, <1>4
<1>7. SubSeq(t, 1, k) \in Seq(S) /\ Len(SubSeq(t, 1, k)) <= Recent
  <2>1. SubSeq(t, 1, k) \in Seq(S) /\ Len(SubSeq(t, 1, k)) = IF 1 <= k THEN k - 1 + 1 ELSE 0
    BY <1>6, SubSeqProperties
  <2> QED
    BY <1>1, <1>4, <2>1
<1> QED
  BY <1>1, <1>5, <1>7, BoundedSeqIs DEF S

\* A finite set in some order: every element once.
LEMMA SetToSeqIs ==
  ASSUME NEW S, IsFiniteSet(S)
  PROVE  /\ SetToSeq(S) \in Seq(S)
         /\ \A i, j \in 1..Len(SetToSeq(S)) : SetToSeq(S)[i] = SetToSeq(S)[j] => i = j
<1> DEFINE n == Cardinality(S)
<1>1. n \in Nat /\ ExistsBijection(1..n, S)
  BY FS_CardinalityType
<1>2. \E f \in [1..n -> S] : IsInjective(f)
  BY <1>1 DEF ExistsBijection, Bijection, Injection
<1>3. SetToSeq(S) \in [1..n -> S] /\ IsInjective(SetToSeq(S))
  BY <1>2 DEF SetToSeq
<1> HIDE DEF n
<1>4. SetToSeq(S) \in Seq(S) /\ Len(SetToSeq(S)) = n
  BY <1>1, <1>3
<1> QED
  BY <1>3, <1>4 DEF IsInjective

LEMMA NewIsFinite ==
  ASSUME SensorTypeOK
  PROVE  IsFiniteSet(New \intersect Safe) /\ New \subseteq Paths
<1>1. New \intersect Safe \in SUBSET Paths /\ New \subseteq Paths
  BY DEF SensorTypeOK, New
<1> QED
  BY <1>1, SensorAssumption, FS_Subset

\* The sensor sends only what the privacy filter lets through.
LEMMA WatcherTypes ==
  ASSUME SensorTypeOK, WatcherStep
  PROVE  SensorTypeOK' /\ memory' = memory
<1>1. CASE FirstScan
  BY <1>1, NewIsFinite DEF FirstScan, SensorTypeOK
<1>2. CASE Scan
  <2> DEFINE sent == SetToSeq(New \intersect Safe)
  <2>1. sent \in Seq(New \intersect Safe)
    BY NewIsFinite, SetToSeqIs
  <2> HIDE DEF sent
  <2>2. sent \in Seq(Safe)
    BY <2>1
  <2>3. channel \in Seq(Safe)
    BY DEF SensorTypeOK
  <2>4. channel \o sent \in Seq(Safe)
    BY <2>2, <2>3
  <2>5. channel' \in {channel, channel \o sent}
    BY <1>2 DEF Scan, sent
  <2>6. known' = known \union New /\ UNCHANGED <<files, handler, reported, lost, memory>>
        /\ watcher' \in {"watch", "done"}
    BY <1>2 DEF Scan
  <2> QED
    BY <2>3, <2>4, <2>5, <2>6, NewIsFinite DEF SensorTypeOK
<1>3. CASE WatcherStops
  BY <1>3 DEF WatcherStops, SensorTypeOK
<1> QED
  BY <1>1, <1>2, <1>3 DEF WatcherStep

LEMMA HandlerTypes ==
  ASSUME SensorTypeOK, ReflectionTypeOK, HandlerStep
  PROVE  SensorTypeOK' /\ memory' \in BoundedSeq({"failure", "sensor", "other"}, Recent)
<1>1. CASE Handle
  <2>1. channel \in Seq(Safe) /\ channel # <<>> /\ reported \in Seq(Safe)
    BY <1>1 DEF Handle, SensorTypeOK
  <2>2. Tail(channel) \in Seq(Safe) /\ Head(channel) \in Safe
    BY <2>1
  <2>3. Append(reported, Head(channel)) \in Seq(Safe)
    BY <2>1, <2>2
  <2>4. SensorTypeOK'
    BY <1>1, <2>2, <2>3 DEF Handle, SensorTypeOK
  <2>5. memory' \in BoundedSeq({"failure", "sensor", "other"}, Recent)
    BY <1>1, RememberType DEF Handle, ReflectionTypeOK
  <2> QED
    BY <2>4, <2>5
<1>2. CASE HandlerStops
  BY <1>2 DEF HandlerStops, SensorTypeOK, ReflectionTypeOK
<1> QED
  BY <1>1, <1>2 DEF HandlerStep

LEMMA ReflectionTypes ==
  ASSUME ReflectionTypeOK, dmn = "asking" => inbox < MaxInbox, ReflectionStep,
         UNCHANGED <<busy, cancelled>>
  PROVE  ReflectionTypeOK' /\ (dmn' = "asking" => inbox' < MaxInbox) /\ inbox' \in {inbox, inbox + 1}
<1>1. /\ busy \in BOOLEAN /\ cancelled \in BOOLEAN /\ sampled \in BOOLEAN /\ inbox \in 0..MaxInbox
      /\ memory \in BoundedSeq({"failure", "sensor", "other"}, Recent)
  BY DEF ReflectionTypeOK
<1>2. Remember("other") \in BoundedSeq({"failure", "sensor", "other"}, Recent)
  BY <1>1, RememberType
<1>3. memory' \in BoundedSeq({"failure", "sensor", "other"}, Recent)
  BY <1>1, <1>2 DEF ReflectionStep, Look, Skip, Routine, Ask, Speak, Noted
<1>4. dmn' \in {"loop", "tick", "asking", "done"} /\ sampled' \in BOOLEAN
  <2> DEFINE B == BOOLEAN
             no == FALSE
  <2>1. no \in B /\ busy \in B /\ sampled \in B
    BY <1>1
  <2>2. sampled' \in {no, busy, sampled}
    BY DEF ReflectionStep, Look, Skip, Routine, Ask, Speak
  <2> HIDE DEF B, no
  <2>3. sampled' \in B
    BY <2>1, <2>2
  <2> QED
    BY <2>3 DEF B, ReflectionStep, Look, Skip, Routine, Ask, Speak
<1>5. /\ inbox' \in {inbox, inbox + 1} /\ inbox' \in 0..MaxInbox
      /\ dmn' = "asking" => inbox' < MaxInbox
  BY <1>1, ReflectionAssumption DEF ReflectionStep, Look, Skip, Routine, Ask, Speak
<1> QED
  BY <1>1, <1>3, <1>4, <1>5 DEF ReflectionTypeOK

LEMMA RestType ==
  ASSUME stdin \in Seq(Lines), stdin # <<>>, typed \in Nat, Len(stdin) <= typed
  PROVE  Rest \in Seq(Lines) /\ Len(Rest) <= typed
<1>1. Tail(stdin) \in Seq(Lines) /\ Len(Tail(stdin)) = Len(stdin) - 1 /\ Len(stdin) \in Nat
  BY HeadTailProperties
<1> QED
  BY <1>1 DEF Rest

\* The session's own variables keep their types when nothing is typed.
LEMMA SessionTypes ==
  ASSUME Typed, typed' = typed, stdin' \in Seq(Lines), Len(stdin') <= typed,
         repl' \in {"head", "prompt", "begin", "turn", "confirm", "stop", "join", "ended"},
         confirmed' \in BOOLEAN, signalled' \in BOOLEAN, guests' \in 0..2,
         SensorTypeOK', ReflectionTypeOK', dmn' = "asking" => inbox' < MaxInbox
  PROVE  Typed'
<1>1. typed \in 0..MaxLines /\ MaxLines \in Nat /\ Len(stdin') \in Nat
  BY InteractiveAssumption DEF Typed, TypeOK
<1>2. stdin' \in BoundedSeq(Lines, MaxLines)
  BY <1>1, BoundedSeqIs
<1> QED
  BY <1>1, <1>2 DEF Typed, TypeOK, WithinBounds

LEMMA StdinType ==
  ASSUME Typed
  PROVE  stdin \in Seq(Lines) /\ Len(stdin) <= typed /\ typed \in Nat
<1>1. stdin \in BoundedSeq(Lines, MaxLines)
  BY DEF Typed, TypeOK
<1> QED
  BY <1>1, BoundedSeqIs, InteractiveAssumption DEF Typed, TypeOK, WithinBounds

LEMMA MainTypes ==
  ASSUME Typed, Invariant', MainStep
  PROVE  Typed'
<1>1. UNCHANGED <<sensorVars, typed, signalled>>
  BY DEF MainStep, Prompt, Read, BeginTurn, AskUser, UserAnswers, EndTurn, Stop, Join
<1>2. SensorTypeOK'
  BY <1>1 DEF Typed, TypeOK, SensorTypeOK, sensorVars
<1>3. guests' \in 0..2
  BY DEF Invariant
<1>4. stdin' \in Seq(Lines) /\ Len(stdin') <= typed
  <2>1. stdin' = stdin \/ (stdin # <<>> /\ stdin' = Rest)
    BY DEF MainStep, Prompt, Read, BeginTurn, AskUser, UserAnswers, EndTurn, Stop, Join
  <2> QED
    BY <2>1, StdinType, RestType
<1>5. repl' \in {"head", "prompt", "begin", "turn", "confirm", "stop", "join", "ended"}
  BY DEF MainStep, Prompt, Read, After, BeginTurn, AskUser, UserAnswers, EndTurn, Stop, Join
<1>6. memory' \in BoundedSeq({"failure", "sensor", "other"}, Recent)
  <2>1. memory' \in {memory, Remember("failure"), Remember("other")}
    BY DEF MainStep, Prompt, Read, BeginTurn, AskUser, UserAnswers, EndTurn, Stop, Join
  <2> QED
    BY <2>1, RememberType DEF Typed, TypeOK, ReflectionTypeOK
<1>7. dmn' = dmn /\ sampled' = sampled /\ inbox' \in {0, inbox}
  BY DEF MainStep, Prompt, Read, BeginTurn, AskUser, UserAnswers, EndTurn, Stop, Join,
         reflectionVars
<1>8. busy' \in BOOLEAN /\ cancelled' \in BOOLEAN /\ confirmed' \in BOOLEAN
  <2>1. busy \in BOOLEAN /\ cancelled \in BOOLEAN /\ confirmed \in BOOLEAN
    BY DEF Typed, TypeOK, ReflectionTypeOK
  <2> QED
    BY <2>1 DEF MainStep, Prompt, Read, BeginTurn, AskUser, UserAnswers, EndTurn, Stop, Join
<1>9. ReflectionTypeOK' /\ (dmn' = "asking" => inbox' < MaxInbox)
  <2>1. inbox \in 0..MaxInbox /\ MaxInbox \in Nat /\ (dmn = "asking" => inbox < MaxInbox)
    BY ReflectionAssumption DEF Typed, TypeOK, ReflectionTypeOK, WithinBounds
  <2>2. inbox' \in 0..MaxInbox /\ (dmn' = "asking" => inbox' < MaxInbox)
    BY <1>7, <2>1
  <2>3. sampled \in BOOLEAN /\ dmn \in {"loop", "tick", "asking", "done"}
    BY DEF Typed, TypeOK, ReflectionTypeOK
  <2> QED
    BY <1>6, <1>7, <1>8, <2>2, <2>3 DEF ReflectionTypeOK
<1>10. signalled' \in BOOLEAN
  BY <1>1 DEF Typed, TypeOK
<1> QED
  BY <1>1, <1>2, <1>3, <1>4, <1>5, <1>8, <1>9, <1>10, SessionTypes

LEMMA TypingTypes ==
  ASSUME Typed, NEW line \in Lines, Type(line)
  PROVE  Typed'
<1>1. /\ typed \in Nat /\ typed < MaxLines /\ typed' = typed + 1 /\ stdin' = Append(stdin, line)
      /\ UNCHANGED <<cancelled, memory, sensorVars, busy, reflectionVars, repl, confirmed,
                     signalled, guests>>
  BY StdinType DEF Type
<1>2. stdin' \in Seq(Lines) /\ Len(stdin') = Len(stdin) + 1 /\ Len(stdin) <= typed /\ Len(stdin) \in Nat
  BY <1>1, StdinType, AppendProperties
<1>3. typed' \in 0..MaxLines /\ Len(stdin') <= typed' /\ Len(stdin') <= MaxLines /\ MaxLines \in Nat
  BY <1>1, <1>2, InteractiveAssumption
<1>4. stdin' \in BoundedSeq(Lines, MaxLines)
  BY <1>2, <1>3, BoundedSeqIs
<1>5. SensorTypeOK' /\ ReflectionTypeOK'
  BY <1>1 DEF Typed, TypeOK, SensorTypeOK, ReflectionTypeOK, sensorVars, reflectionVars
<1> QED
  BY <1>1, <1>3, <1>4, <1>5 DEF Typed, TypeOK, WithinBounds, reflectionVars

\* The sensor's threads and the user's work.
LEMMA SensorsTypes ==
  ASSUME Typed, Watch \/ Record \/ Work
  PROVE  Typed'
<1>1. UNCHANGED <<cancelled, busy, reflectionVars, replVars>>
  BY DEF Watch, Record, Work
<1>2. SensorTypeOK /\ ReflectionTypeOK
  BY DEF Typed, TypeOK
<1>3. SensorTypeOK' /\ memory' \in BoundedSeq({"failure", "sensor", "other"}, Recent)
  <2>1. CASE Watch
    BY <1>2, <2>1, WatcherTypes DEF Watch, ReflectionTypeOK
  <2>2. CASE Record
    BY <1>2, <2>2, HandlerTypes DEF Record
  <2>3. CASE Work
    BY <1>2, <2>3 DEF Work, FileSystem, SensorTypeOK, ReflectionTypeOK
  <2> QED
    BY <2>1, <2>2, <2>3
<1>4. ReflectionTypeOK'
  BY <1>1, <1>2, <1>3 DEF ReflectionTypeOK, reflectionVars
<1> QED
  BY <1>1, <1>3, <1>4 DEF Typed, TypeOK, WithinBounds, reflectionVars, replVars

LEMMA TypesKeep ==
  ASSUME Typed, Invariant', [Next]_vars
  PROVE  Typed'
<1>1. CASE MainStep
  BY <1>1, MainTypes
<1>2. CASE \E line \in Lines : Type(line)
  BY <1>2, TypingTypes
<1>3. CASE CtrlC \/ RelaySignal
  <2>1. /\ UNCHANGED <<memory, sensorVars, busy, reflectionVars, typed, stdin, repl, confirmed, guests>>
        /\ signalled' \in {signalled, TRUE} /\ cancelled' \in {cancelled, TRUE}
    BY <1>3 DEF CtrlC, RelaySignal, replVars
  <2>2. signalled' \in BOOLEAN /\ cancelled' \in BOOLEAN
    BY <2>1 DEF Typed, TypeOK, ReflectionTypeOK
  <2>3. SensorTypeOK' /\ ReflectionTypeOK'
    BY <2>1, <2>2 DEF Typed, TypeOK, SensorTypeOK, ReflectionTypeOK, sensorVars, reflectionVars
  <2> QED
    BY <2>1, <2>2, <2>3 DEF Typed, TypeOK, WithinBounds, reflectionVars
<1>4. CASE Reflect
  <2>1. /\ ReflectionStep /\ UNCHANGED <<cancelled, sensorVars, busy, typed, stdin, repl, confirmed,
                                         signalled>>
    BY <1>4 DEF Reflect
  <2>2. ReflectionTypeOK' /\ (dmn' = "asking" => inbox' < MaxInbox)
    BY <2>1, ReflectionTypes DEF Typed, TypeOK, WithinBounds
  <2>3. SensorTypeOK'
    BY <2>1 DEF Typed, TypeOK, SensorTypeOK, sensorVars
  <2> QED
    BY <2>1, <2>2, <2>3, StdinType, SessionTypes DEF Typed, TypeOK, Invariant
<1>5. CASE Watch \/ Record \/ Work
  BY <1>5, SensorsTypes
<1>6. CASE UNCHANGED vars
  <2>1. SensorTypeOK' /\ ReflectionTypeOK'
    BY <1>6 DEF Typed, TypeOK, SensorTypeOK, ReflectionTypeOK, vars, sensorVars, reflectionVars
  <2> QED
    BY <1>6, <2>1 DEF Typed, TypeOK, WithinBounds, vars, reflectionVars, replVars
<1> QED
  BY <1>1, <1>2, <1>3, <1>4, <1>5, <1>6 DEF Next

LEMMA TypedInitially == Init => Typed
<1> SUFFICES ASSUME Init PROVE Typed  OBVIOUS
<1>1. \A S, n : n \in Nat => <<>> \in BoundedSeq(S, n)
  <2> SUFFICES ASSUME NEW S, NEW n \in Nat PROVE <<>> \in BoundedSeq(S, n)
    OBVIOUS
  <2>1. <<>> \in Seq(S) /\ Len(<<>>) <= n
    OBVIOUS
  <2> QED
    BY <2>1, BoundedSeqIs
<1>2. /\ stdin = <<>> /\ stdin \in BoundedSeq(Lines, MaxLines)
      /\ memory \in BoundedSeq({"failure", "sensor", "other"}, Recent)
  BY <1>1, InteractiveAssumption DEF Init, Recent
<1>3. SensorTypeOK
  BY DEF Init, SensorInit, SensorTypeOK
<1>4. ReflectionTypeOK
  <2>1. busy \in BOOLEAN /\ sampled \in BOOLEAN /\ cancelled \in BOOLEAN
    BY Zenon DEF Init, ReflectionInit
  <2> QED
    BY <1>2, <2>1, ReflectionAssumption DEF Init, ReflectionInit, ReflectionTypeOK
<1>5. Len(stdin) <= typed /\ typed \in 0..MaxLines
  BY <1>2, InteractiveAssumption DEF Init
<1>6. confirmed \in BOOLEAN /\ signalled \in BOOLEAN
  BY Zenon DEF Init
<1> QED
  BY <1>2, <1>3, <1>4, <1>5, <1>6 DEF Init, ReflectionInit, Typed, TypeOK, WithinBounds

\* The session, its sensor and its reflection keep their types; what the sensor sends and what is
\* recorded are only files that the privacy filter lets through (run_repl_stdio, agent/dmn,
\* agent/sensors).
THEOREM InteractiveTypes == Spec => []TypeOK
<1>1. Init => Typed
  BY TypedInitially
<1>2. Typed /\ Invariant' /\ [Next]_vars => Typed'
  BY TypesKeep
<1>3. Typed => TypeOK
  BY DEF Typed
<1> QED
  BY <1>1, <1>2, <1>3, InvariantHolds, PTL DEF Spec

-----------------------------------------------------------------------------
(***************************************************************************)
(* Files.                                                                   *)
(***************************************************************************)
\* Every element once.
OnceEach(s) == \A i, j \in 1..Len(s) : s[i] = s[j] => i = j

\* However a file comes and goes, it is recorded once at most.
EachFileOnce == OnceEach(reported)

\* What has been sent is known ever after, and on its way or recorded once.
SentOnce ==
    /\ OnceEach(reported) /\ OnceEach(channel)
    /\ \A i \in 1..Len(reported), j \in 1..Len(channel) : reported[i] # channel[j]
    /\ \A i \in 1..Len(reported) : reported[i] \in known
    /\ \A i \in 1..Len(channel) : channel[i] \in known
    /\ watcher = "start" => known = {}

\* A scan sends files that were not known, each once.
LEMMA ScanSendsNew ==
  ASSUME SensorTypeOK, SentOnce, Scan
  PROVE  SentOnce'
<1> DEFINE sent == SetToSeq(New \intersect Safe)
<1>1. /\ known' = known \union New /\ reported' = reported /\ watcher = "watch"
      /\ watcher' \in {"watch", "done"} /\ channel' \in {channel, channel \o sent}
  BY DEF Scan
<1>2. sent \in Seq(New \intersect Safe) /\ OnceEach(sent)
  BY NewIsFinite, SetToSeqIs DEF OnceEach
<1> HIDE DEF sent
<1>3. sent \in Seq(Safe) /\ channel \in Seq(Safe) /\ \A i \in 1..Len(sent) : sent[i] \notin known /\ sent[i] \in New
  <2>1. \A i \in 1..Len(sent) : sent[i] \in New \intersect Safe
    BY <1>2
  <2> QED
    BY <1>2, <2>1 DEF SensorTypeOK, New
<1>4. CASE channel' = channel
  BY <1>1, <1>4 DEF SentOnce, OnceEach
<1>5. CASE channel' = channel \o sent
  <2> DEFINE m == Len(channel)
             n == Len(sent)
  <2>1. /\ m \in Nat /\ n \in Nat /\ Len(channel') = m + n
        /\ \A i \in 1..(m + n) : channel'[i] = IF i <= m THEN channel[i] ELSE sent[i - m]
    BY <1>3, <1>5, ConcatProperties
  <2> HIDE DEF m, n
  <2>2. \A i \in 1..(m + n) : \/ i \in 1..m /\ channel'[i] = channel[i]
                              \/ i - m \in 1..n /\ channel'[i] = sent[i - m]
    BY <2>1
  <2>3. \A i \in 1..m : channel[i] \in known
    BY DEF SentOnce, m
  <2>4. \A i \in 1..n : sent[i] \notin known /\ sent[i] \in New
    BY <1>3 DEF n
  <2>5. OnceEach(channel')
    <3> SUFFICES ASSUME NEW i \in 1..(m + n), NEW j \in 1..(m + n), channel'[i] = channel'[j]
                 PROVE  i = j
      BY <2>1 DEF OnceEach
    <3>1. CASE i \in 1..m /\ j \in 1..m
      <4>1. channel[i] = channel[j]
        BY <2>1, <3>1
      <4> QED
        BY <3>1, <4>1 DEF SentOnce, OnceEach, m
    <3>2. CASE i \notin 1..m /\ j \notin 1..m
      <4>1. i - m \in 1..n /\ j - m \in 1..n /\ sent[i - m] = sent[j - m]
        BY <2>1, <2>2, <3>2
      <4>2. i - m = j - m
        BY <1>2, <4>1 DEF OnceEach, n
      <4> QED
        BY <2>1, <4>2
    <3>3. CASE ~(i \in 1..m <=> j \in 1..m)
      <4>1. \A k \in 1..(m + n) : (k \in 1..m) <=> channel'[k] \in known
        <5> SUFFICES ASSUME NEW k \in 1..(m + n)
                     PROVE  (k \in 1..m) <=> channel'[k] \in known
          OBVIOUS
        <5>1. CASE k \in 1..m
          BY <2>1, <2>3, <5>1
        <5>2. CASE k \notin 1..m
          BY <2>1, <2>2, <2>4, <5>2
        <5> QED
          BY <5>1, <5>2
      <4> QED
        BY <3>3, <4>1
    <3> QED
      BY <3>1, <3>2, <3>3
  <2>6. \A i \in 1..Len(channel') : channel'[i] \in known'
    BY <1>1, <2>1, <2>2, <2>3, <2>4
  <2>7. \A i \in 1..Len(reported'), j \in 1..Len(channel') : reported'[i] # channel'[j]
    <3> SUFFICES ASSUME NEW i \in 1..Len(reported), NEW j \in 1..(m + n)
                 PROVE  reported[i] # channel'[j]
      BY <1>1, <2>1
    <3>1. reported[i] \in known /\ \A k \in 1..m : reported[i] # channel[k]
      BY DEF SentOnce, m
    <3> QED
      BY <2>2, <2>4, <3>1
  <2> QED
    BY <1>1, <2>5, <2>6, <2>7 DEF SentOnce
<1> QED
  BY <1>1, <1>4, <1>5

\* Recording a file takes it out of the channel.
\* What is recorded leaves the channel.
LEMMA HandleRecords ==
  ASSUME SensorTypeOK, SentOnce, Handle, reported' = Append(reported, Head(channel))
  PROVE  SentOnce'
<1> DEFINE m == Len(channel)
           n == Len(reported)
<1>1. /\ channel \in Seq(Safe) /\ reported \in Seq(Safe) /\ channel # <<>>
      /\ channel' = Tail(channel) /\ reported' = Append(reported, Head(channel))
      /\ UNCHANGED <<known, watcher>>
  BY DEF Handle, SensorTypeOK
<1>2. /\ m \in Nat /\ m >= 1 /\ Len(channel') = m - 1
      /\ \A i \in 1..(m - 1) : channel'[i] = channel[i + 1]
      /\ Head(channel) = channel[1]
  BY <1>1, HeadTailProperties
<1>3. /\ n \in Nat /\ Len(reported') = n + 1 /\ reported'[n + 1] = channel[1]
      /\ \A i \in 1..n : reported'[i] = reported[i]
  <2>1. Head(channel) \in Safe
    BY <1>1
  <2> QED
    BY <1>1, <1>2, <2>1, AppendProperties
<1>4. /\ \A i, j \in 1..n : reported[i] = reported[j] => i = j
      /\ \A i, j \in 1..m : channel[i] = channel[j] => i = j
      /\ \A i \in 1..n, j \in 1..m : reported[i] # channel[j]
      /\ \A i \in 1..n : reported[i] \in known
      /\ \A i \in 1..m : channel[i] \in known
  BY DEF SentOnce, OnceEach
<1> HIDE DEF m, n
<1>5. \A i \in 1..(n + 1) : (i \in 1..n /\ reported'[i] = reported[i]) \/ (i = n + 1 /\ reported'[i] = channel[1])
  BY <1>3
<1>6. \A i \in 1..(m - 1) : i + 1 \in 1..m /\ i + 1 # 1 /\ channel'[i] = channel[i + 1]
  BY <1>2
<1>7. 1 \in 1..m
  BY <1>2
<1>8. OnceEach(reported')
  <2> SUFFICES ASSUME NEW i \in 1..(n + 1), NEW j \in 1..(n + 1), reported'[i] = reported'[j]
               PROVE  i = j
    BY <1>3 DEF OnceEach
  <2>1. CASE i \in 1..n /\ j \in 1..n
    BY <1>3, <1>4, <2>1
  <2>2. CASE ~(i \in 1..n /\ j \in 1..n)
    BY <1>4, <1>5, <1>7, <2>2
  <2> QED
    BY <2>1, <2>2
<1>9. OnceEach(channel')
  <2> SUFFICES ASSUME NEW i \in 1..(m - 1), NEW j \in 1..(m - 1), channel'[i] = channel'[j]
               PROVE  i = j
    BY <1>2 DEF OnceEach
  <2>1. i + 1 = j + 1
    BY <1>4, <1>6
  <2> QED
    BY <2>1
<1>10. \A i \in 1..Len(reported'), j \in 1..Len(channel') : reported'[i] # channel'[j]
  <2> SUFFICES ASSUME NEW i \in 1..(n + 1), NEW j \in 1..(m - 1)
               PROVE  reported'[i] # channel'[j]
    BY <1>2, <1>3
  <2>1. j + 1 \in 1..m /\ j + 1 # 1 /\ channel'[j] = channel[j + 1]
    BY <1>6
  <2>2. CASE i \in 1..n /\ reported'[i] = reported[i]
    BY <1>4, <2>1, <2>2
  <2>3. CASE reported'[i] = channel[1]
    BY <1>4, <1>7, <2>1, <2>3
  <2> QED
    BY <1>5, <2>2, <2>3
<1>11. \A i \in 1..Len(reported') : reported'[i] \in known'
  BY <1>1, <1>3, <1>4, <1>5, <1>7
<1>12. \A i \in 1..Len(channel') : channel'[i] \in known'
  BY <1>1, <1>2, <1>4, <1>6
<1> QED
  BY <1>1, <1>8, <1>9, <1>10, <1>11, <1>12 DEF SentOnce

\* What cannot be recorded leaves it too.
LEMMA HandleLoses ==
  ASSUME SensorTypeOK, SentOnce, Handle, reported' = reported
  PROVE  SentOnce'
<1> DEFINE m == Len(channel)
<1>1. /\ channel \in Seq(Safe) /\ channel # <<>> /\ channel' = Tail(channel)
      /\ UNCHANGED <<known, watcher>>
  BY DEF Handle, SensorTypeOK
<1>2. /\ m \in Nat /\ m >= 1 /\ Len(channel') = m - 1
      /\ \A i \in 1..(m - 1) : channel'[i] = channel[i + 1]
  BY <1>1, HeadTailProperties
<1>3. \A i, j \in 1..m : channel[i] = channel[j] => i = j
  BY DEF SentOnce, OnceEach
<1> HIDE DEF m
<1>4. \A i \in 1..(m - 1) : i + 1 \in 1..m
  BY <1>2
<1>5. OnceEach(channel')
  BY <1>2, <1>3, <1>4 DEF OnceEach
<1>6. \A j \in 1..Len(channel') : j + 1 \in 1..m /\ channel'[j] = channel[j + 1]
  BY <1>2, <1>4
<1> QED
  BY <1>1, <1>5, <1>6 DEF SentOnce, m

LEMMA FilesKeep ==
  ASSUME SensorTypeOK, SentOnce, [Next]_vars
  PROVE  SentOnce'
<1>1. CASE Scan
  BY <1>1, ScanSendsNew
<1>2. CASE Handle
  BY <1>2, HandleRecords, HandleLoses DEF Handle
<1>3. CASE FirstScan
  BY <1>3 DEF FirstScan, SentOnce
<1>4. CASE HandlerStops
  <2>1. channel' = <<>> /\ UNCHANGED <<reported, known, watcher>>
    BY <1>4 DEF HandlerStops
  <2>2. Len(channel') = 0
    BY <2>1
  <2> QED
    BY <2>1, <2>2 DEF SentOnce, OnceEach
<1>5. CASE WatcherStops
  BY <1>5 DEF WatcherStops, SentOnce
<1>6. CASE UNCHANGED <<known, channel, watcher, reported>>
  BY <1>6 DEF SentOnce
<1>7. \/ Scan \/ Handle \/ FirstScan \/ HandlerStops \/ WatcherStops
      \/ UNCHANGED <<known, channel, watcher, reported>>
  <2>1. CASE MainStep
    BY <2>1 DEF MainStep, Prompt, Read, BeginTurn, AskUser, UserAnswers, EndTurn, Stop, Join,
                sensorVars
  <2>2. CASE (\E line \in Lines : Type(line)) \/ CtrlC \/ RelaySignal \/ Reflect \/ UNCHANGED vars
    BY <2>2 DEF Type, CtrlC, RelaySignal, Reflect, vars, sensorVars
  <2>3. CASE Watch \/ Record \/ Work
    BY <2>3 DEF Watch, Record, Work, WatcherStep, HandlerStep, FileSystem
  <2> QED
    BY <2>1, <2>2, <2>3 DEF Next
<1> QED
  BY <1>1, <1>2, <1>3, <1>4, <1>5, <1>6, <1>7

\* A file is recorded as experience once at most, however often it is removed and created again, and
\* whichever of the sensor's threads ends first (scan_new_files, whose `known` forgets nothing,
\* sensors/file_watch.rs; SensorEventHandler, sensors/event_handler.rs).
THEOREM FilesAreRecordedOnce == Spec => []EachFileOnce
<1>1. Init => SentOnce
  BY DEF Init, SensorInit, SentOnce, OnceEach
<1>2. TypeOK /\ SentOnce /\ [Next]_vars => SentOnce'
  BY FilesKeep DEF TypeOK
<1>3. SentOnce => EachFileOnce
  BY DEF SentOnce, EachFileOnce
<1> QED
  BY <1>1, <1>2, <1>3, InteractiveTypes, PTL DEF Spec

-----------------------------------------------------------------------------
(***************************************************************************)
(* The end of the session.                                                  *)
(***************************************************************************)
\* Whoever waits for the reflection has told it to stop.
Told == repl = "join" => cancelled

\* The steps the reflection takes once it is told: the thought it is about, a look at the token.
ReflectionLeft ==
    CASE dmn = "tick" -> 3 [] dmn = "asking" -> 2 [] dmn = "loop" -> 1 [] dmn = "done" -> 0
LeavingLeft == IF repl = "join" THEN 1 + ReflectionLeft ELSE 0

\* Nothing but the end of the wait brings it nearer than the reflection, and nothing puts it off.
LeavingIsUsedUp ==
    [][repl = "join" =>
          IF MainStep \/ Reflect
          THEN LeavingLeft' < LeavingLeft
          ELSE LeavingLeft' = LeavingLeft]_vars

LEMMA ToldKeeps ==
  ASSUME Told, [Next]_vars
  PROVE  Told'
<1>1. CASE MainStep
  BY <1>1 DEF Told, MainStep, Prompt, Read, After, BeginTurn, AskUser, UserAnswers, EndTurn, Stop,
              Join
<1>2. CASE ~MainStep
  BY <1>2 DEF Told, Next, Type, CtrlC, RelaySignal, Reflect, Watch, Record, Work, replVars, vars
<1> QED
  BY <1>1, <1>2

LEMMA ReflectionLeftType ==
  ASSUME ReflectionTypeOK
  PROVE  ReflectionLeft \in 0..3
  BY DEF ReflectionTypeOK, ReflectionLeft

LEMMA LeavingUsesUp ==
  ASSUME TypeOK, Told, Next, repl = "join"
  PROVE  IF MainStep \/ Reflect THEN LeavingLeft' < LeavingLeft ELSE LeavingLeft' = LeavingLeft
<1>1. LeavingLeft = 1 + ReflectionLeft /\ ReflectionLeft \in 0..3
  BY ReflectionLeftType DEF LeavingLeft, TypeOK
<1>2. CASE MainStep
  <2>1. repl' = "ended"
    BY <1>2 DEF MainStep, Prompt, Read, BeginTurn, AskUser, UserAnswers, EndTurn, Stop, Join
  <2> QED
    BY <1>1, <1>2, <2>1 DEF LeavingLeft
<1>3. CASE Reflect
  <2>1. repl' = "join" /\ ReflectionStep /\ cancelled
    BY <1>3 DEF Reflect, Told
  <2>2. \/ dmn = "loop" /\ dmn' = "done"
        \/ dmn = "tick" /\ dmn' \in {"loop", "asking"}
        \/ dmn = "asking" /\ dmn' = "loop"
    BY <2>1 DEF ReflectionStep, Look, Skip, Routine, Ask, Speak
  <2>3. \/ LeavingLeft = 2 /\ LeavingLeft' = 1
        \/ LeavingLeft = 4 /\ LeavingLeft' \in {2, 3}
        \/ LeavingLeft = 3 /\ LeavingLeft' = 2
    BY <2>1, <2>2 DEF LeavingLeft, ReflectionLeft
  <2> QED
    BY <1>3, <2>3
<1>4. CASE ~(MainStep \/ Reflect)
  <2>1. UNCHANGED <<repl, dmn>>
    BY <1>4 DEF Next, Type, CtrlC, RelaySignal, Watch, Record, Work, replVars, reflectionVars
  <2> QED
    BY <1>4, <2>1 DEF LeavingLeft, ReflectionLeft
<1> QED
  BY <1>2, <1>3, <1>4

\* The end of a session waits for three steps of the reflection at most: the tick or the call of the
\* model it is in and its look at the token; whatever the user, the signals and the sensor do
\* meanwhile does not put it off (DmnRunner::stop).
THEOREM LeavingIsBounded ==
    /\ Spec => LeavingIsUsedUp
    /\ Spec => [](LeavingLeft \in 0..4)
<1>1. Init => Told
  BY DEF Init, Told
<1>2. Told /\ [Next]_vars => Told'
  BY ToldKeeps
<1>3. TypeOK /\ Told /\ [Next]_vars =>
         [repl = "join" =>
             IF MainStep \/ Reflect
             THEN LeavingLeft' < LeavingLeft
             ELSE LeavingLeft' = LeavingLeft]_vars
  BY LeavingUsesUp
<1>4. TypeOK => LeavingLeft \in 0..4
  BY ReflectionLeftType DEF TypeOK, LeavingLeft
<1> QED
  BY <1>1, <1>2, <1>3, <1>4, InteractiveTypes, PTL DEF Spec, LeavingIsUsedUp
=============================================================================
