-------------------------- MODULE CompactionProofs --------------------------
(***************************************************************************)
(* What is proved of compaction, for any sizes, thresholds and numbers of    *)
(* messages: each level, as an operator on sequences, keeps what a session   *)
(* needs of its messages, and so does every sequence of levels.              *)
(***************************************************************************)
EXTENDS Compaction, TLAPS, FiniteSetTheorems, SequenceTheorems, WellFoundedInduction

-----------------------------------------------------------------------------
\* A set of numbers has a least one, and, when it is bounded, a greatest one.
LEMMA LeastNumber ==
    ASSUME NEW T \in SUBSET Nat, T # {}
    PROVE  \E n \in T : \A m \in T : n <= m
  <1> DEFINE R == OpToRel(<, Nat)
  <1>1. IsWellFoundedOn(R, Nat)
    BY NatLessThanWellFounded
  <1>2. \E x \in T : \A y \in T : ~(<<y, x>> \in R)
    <2> HIDE DEF R
    <2> QED  BY <1>1, WFMin
  <1>3. PICK x \in T : \A y \in T : ~(<<y, x>> \in R)
    BY <1>2
  <1>4. \A y \in T : ~(y < x)
    BY <1>3 DEF OpToRel
  <1> QED  BY <1>4

LEMMA GreatestNumber ==
    ASSUME NEW L \in Nat, NEW T \in SUBSET (0 .. L), T # {}
    PROVE  Max(T) \in T /\ \A n \in T : Max(T) >= n
  <1> DEFINE U == {n \in 0 .. L : L - n \in T}
  <1>1. U \in SUBSET Nat /\ U # {}
    <2>1. PICK t \in T : TRUE
      OBVIOUS
    <2>2. t \in 0 .. L
      BY <2>1
    <2>3. L - t \in 0 .. L /\ L - (L - t) = t
      BY <2>2
    <2>4. L - t \in U
      BY <2>1, <2>3
    <2>5. U \in SUBSET Nat
      OBVIOUS
    <2> HIDE DEF U
    <2> QED  BY <2>4, <2>5
  <1>2. PICK u \in U : \A m \in U : u <= m
    BY <1>1, LeastNumber
  <1>3. \A n \in T : L - u >= n
    <2> SUFFICES ASSUME NEW n \in T PROVE L - u >= n
      OBVIOUS
    <2>1. L - n \in 0 .. L /\ L - (L - n) = n
      OBVIOUS
    <2>2. u <= L - n
      BY <2>1, <1>2
    <2> QED  BY <2>2, <1>2
  <1>4. L - u \in T
    BY <1>2
  <1> QED  BY <1>3, <1>4 DEF Max

LEMMA OfTwo ==
    ASSUME NEW m \in Nat, NEW n \in Nat
    PROVE  /\ Max({m, n}) = IF m >= n THEN m ELSE n
           /\ Min({m, n}) = IF m <= n THEN m ELSE n
  BY DEF Max, Min

-----------------------------------------------------------------------------
(***************************************************************************)
(* Size and Systems add up a sequence one message at a time.  That the       *)
(* function each is the last value of exists, and what its values are, is    *)
(* shown by looking at the least number for which it would not be so.        *)
(***************************************************************************)

IsSizeUpTo(g, s, k) == g = [n \in 0 .. k |-> IF n = 0 THEN 0 ELSE g[n - 1] + s[n].size]

SizeUpTo(s) == CHOOSE g : IsSizeUpTo(g, s, Len(s))

LEMMA SizeUpToExists ==
    ASSUME NEW s \in Seq(Messages), NEW k \in Nat, k <= Len(s)
    PROVE  \E g : IsSizeUpTo(g, s, k)
  <1> DEFINE T == {n \in 0 .. Len(s) : ~ \E g : IsSizeUpTo(g, s, n)}
  <1> SUFFICES ASSUME T # {} PROVE FALSE
    OBVIOUS
  <1>1. PICK m \in T : \A n \in T : m <= n
    <2>1. T \in SUBSET Nat
      OBVIOUS
    <2> HIDE DEF T
    <2> QED  BY <2>1, LeastNumber
  <1>2. m # 0
    <2> DEFINE g0 == [n \in 0 .. 0 |-> 0]
    <2>1. IsSizeUpTo(g0, s, 0)
      BY DEF IsSizeUpTo
    <2> QED  BY <2>1, <1>1
  <1>3. PICK g : IsSizeUpTo(g, s, m - 1)
    BY <1>1, <1>2
  <1> DEFINE h == [n \in 0 .. m |-> IF n = m THEN g[m - 1] + s[m].size ELSE g[n]]
  <1>4. ASSUME NEW n \in 0 .. m
        PROVE  h[n] = IF n = 0 THEN 0 ELSE h[n - 1] + s[n].size
    <2>1. CASE n = m
      BY <2>1, <1>2, <1>1
    <2>2. CASE n # m
      <3>1. n \in 0 .. m - 1
        BY <2>2, <1>1
      <3>2. h[n] = g[n] /\ (n # 0 => h[n - 1] = g[n - 1])
        BY <2>2, <1>1
      <3>3. g[n] = IF n = 0 THEN 0 ELSE g[n - 1] + s[n].size
        BY <1>3, <3>1 DEF IsSizeUpTo
      <3> QED  BY <3>2, <3>3
    <2> QED  BY <2>1, <2>2
  <1>5. IsSizeUpTo(h, s, m)
    <2>1. h = [n \in 0 .. m |-> h[n]]
      OBVIOUS
    <2> HIDE DEF h
    <2> QED  BY <1>4, <2>1 DEF IsSizeUpTo
  <1> QED  BY <1>5, <1>1

LEMMA SizeType ==
    ASSUME NEW s \in Seq(Messages)
    PROVE  Size(s) \in Nat /\ (s = <<>> => Size(s) = 0)
  <1> DEFINE f == SizeUpTo(s)
  <1>1. IsSizeUpTo(f, s, Len(s))
    BY SizeUpToExists DEF SizeUpTo
  <1>2. \A n \in 0 .. Len(s) : f[n] = IF n = 0 THEN 0 ELSE f[n - 1] + s[n].size
    BY <1>1 DEF IsSizeUpTo
  <1>3. Size(s) = f[Len(s)]
    BY DEF Size, SizeUpTo, IsSizeUpTo
  <1>4. \A i \in 1 .. Len(s) : s[i].size \in Nat
    <2>1. \A i \in 1 .. Len(s) : s[i] \in Messages
      BY ElementOfSeq
    <2> QED  BY <2>1 DEF Messages
  <1> DEFINE T == {n \in 0 .. Len(s) : f[n] \notin Nat}
  <1> HIDE DEF f
  <1>5. T = {}
    <2> SUFFICES ASSUME T # {} PROVE FALSE
      OBVIOUS
    <2>1. PICK m \in T : \A n \in T : m <= n
      <3>1. T \in SUBSET Nat
        OBVIOUS
      <3> HIDE DEF T
      <3> QED  BY <3>1, LeastNumber
    <2>2. m # 0
      BY <1>2, <2>1
    <2>3. f[m - 1] \in Nat
      BY <2>1, <2>2
    <2> QED  BY <1>2, <1>4, <2>1, <2>2, <2>3
  <1> QED  BY <1>2, <1>3, <1>5

IsSystemsUpTo(g, s, k) == g = [n \in 0 .. k |->
    IF n = 0 THEN <<>> ELSE IF IsSystem(s[n]) THEN Append(g[n - 1], s[n]) ELSE g[n - 1]]

SystemsUpTo(s) == CHOOSE g : IsSystemsUpTo(g, s, Len(s))

LEMMA SystemsUpToExists ==
    ASSUME NEW s \in Seq(Messages), NEW k \in Nat, k <= Len(s)
    PROVE  \E g : IsSystemsUpTo(g, s, k)
  <1> DEFINE T == {n \in 0 .. Len(s) : ~ \E g : IsSystemsUpTo(g, s, n)}
  <1> SUFFICES ASSUME T # {} PROVE FALSE
    OBVIOUS
  <1>1. PICK m \in T : \A n \in T : m <= n
    <2>1. T \in SUBSET Nat
      OBVIOUS
    <2> HIDE DEF T
    <2> QED  BY <2>1, LeastNumber
  <1>2. m # 0
    <2> DEFINE g0 == [n \in 0 .. 0 |-> <<>>]
    <2>1. IsSystemsUpTo(g0, s, 0)
      BY DEF IsSystemsUpTo
    <2> QED  BY <2>1, <1>1
  <1>3. PICK g : IsSystemsUpTo(g, s, m - 1)
    BY <1>1, <1>2
  <1> DEFINE last == IF IsSystem(s[m]) THEN Append(g[m - 1], s[m]) ELSE g[m - 1]
             h == [n \in 0 .. m |-> IF n = m THEN last ELSE g[n]]
             Next1(G, n) == IF IsSystem(s[n]) THEN Append(G, s[n]) ELSE G
  <1>4. ASSUME NEW n \in 0 .. m
        PROVE  h[n] = IF n = 0 THEN <<>> ELSE Next1(h[n - 1], n)
    <2>1. CASE n = m
      <3>1. h[n] = last /\ h[n - 1] = g[n - 1]
        BY <2>1, <1>2, <1>1
      <3> QED  BY <3>1, <2>1, <1>2
    <2>2. CASE n # m
      <3>1. n \in 0 .. m - 1
        BY <2>2, <1>1
      <3>2. h[n] = g[n] /\ (n # 0 => h[n - 1] = g[n - 1])
        BY <2>2, <1>1
      <3>3. g[n] = IF n = 0 THEN <<>> ELSE Next1(g[n - 1], n)
        BY <1>3, <3>1 DEF IsSystemsUpTo
      <3> QED  BY <3>2, <3>3
    <2> QED  BY <2>1, <2>2
  <1>5. IsSystemsUpTo(h, s, m)
    <2>1. h = [n \in 0 .. m |-> h[n]]
      OBVIOUS
    <2> HIDE DEF h
    <2> QED  BY <1>4, <2>1 DEF IsSystemsUpTo
  <1> QED  BY <1>5, <1>1

\* What Systems keeps of the first n messages: the System messages among them, no other.
KeepsSystems(t, s, n) ==
    /\ t \in Seq(Messages)
    /\ \A j \in 1 .. Len(t) : IsSystem(t[j]) /\ \E i \in 1 .. n : t[j] = s[i]
    /\ \A i \in 1 .. n : IsSystem(s[i]) => \E j \in 1 .. Len(t) : t[j] = s[i]
    /\ n > 0 /\ IsSystem(s[1]) => t # <<>> /\ t[1] = s[1]

LEMMA SystemsKept ==
    ASSUME NEW s \in Seq(Messages)
    PROVE  KeepsSystems(Systems(s), s, Len(s))
  <1> DEFINE f == SystemsUpTo(s)
  <1>1. IsSystemsUpTo(f, s, Len(s))
    BY SystemsUpToExists DEF SystemsUpTo
  <1>2. \A n \in 0 .. Len(s) : f[n] = IF n = 0 THEN <<>>
            ELSE IF IsSystem(s[n]) THEN Append(f[n - 1], s[n]) ELSE f[n - 1]
    BY <1>1 DEF IsSystemsUpTo
  <1>3. Systems(s) = f[Len(s)]
    BY DEF Systems, SystemsUpTo, IsSystemsUpTo
  <1>4. \A i \in 1 .. Len(s) : s[i] \in Messages
    BY ElementOfSeq
  <1> DEFINE T == {n \in 0 .. Len(s) : ~KeepsSystems(f[n], s, n)}
  <1> HIDE DEF f
  <1>5. T = {}
    <2> SUFFICES ASSUME T # {} PROVE FALSE
      OBVIOUS
    <2>1. PICK m \in T : \A n \in T : m <= n
      <3>1. T \in SUBSET Nat
        OBVIOUS
      <3> HIDE DEF T
      <3> QED  BY <3>1, LeastNumber
    <2>2. m # 0
      <3>1. KeepsSystems(<<>>, s, 0)
        BY EmptySeq DEF KeepsSystems
      <3> QED  BY <1>2, <2>1, <3>1
    <2> DEFINE t == f[m - 1]
               u == f[m]
               a == s[m]
    <2>3. KeepsSystems(t, s, m - 1)
      BY <2>1, <2>2
    <2>4. t \in Seq(Messages) /\ a \in Messages /\ Len(t) \in Nat
      BY <2>1, <2>2, <2>3, <1>4 DEF KeepsSystems
    <2>5. u = IF IsSystem(a) THEN Append(t, a) ELSE t
      BY <1>2, <2>1, <2>2
    <2>6. m \in 1 .. Len(s) /\ ~KeepsSystems(u, s, m)
      BY <2>1, <2>2
    <2> HIDE DEF t, u, T
    <2>7. CASE ~IsSystem(a)
      <3>1. u = t
        BY <2>5, <2>7
      <3>2. \A i \in 1 .. m : IsSystem(s[i]) => i \in 1 .. m - 1
        BY <2>6, <2>7
      <3>3. \A i \in 1 .. m - 1 : i \in 1 .. m
        BY <2>6
      <3>4. m > 0 /\ IsSystem(s[1]) => m - 1 > 0
        BY <2>6, <2>7
      <3> HIDE DEF a
      <3> QED  BY <2>3, <2>6, <3>1, <3>2, <3>3, <3>4 DEF KeepsSystems
    <2>8. CASE IsSystem(a)
      <3>1. /\ u \in Seq(Messages) /\ Len(u) = Len(t) + 1
            /\ \A j \in 1 .. Len(t) : u[j] = t[j]
            /\ u[Len(t) + 1] = a
        BY <2>4, <2>5, <2>8, AppendProperties
      <3>2. \A j \in 1 .. Len(u) : IsSystem(u[j]) /\ \E i \in 1 .. m : u[j] = s[i]
        <4> SUFFICES ASSUME NEW j \in 1 .. Len(u)
                     PROVE  IsSystem(u[j]) /\ \E i \in 1 .. m : u[j] = s[i]
          OBVIOUS
        <4>1. CASE j = Len(u)
          BY <4>1, <3>1, <2>8, <2>6, <2>4
        <4>2. CASE j # Len(u)
          <5>1. j \in 1 .. Len(t) /\ u[j] = t[j]
            BY <4>2, <3>1, <2>4
          <5>2. PICK i \in 1 .. m - 1 : t[j] = s[i]
            BY <5>1, <2>3 DEF KeepsSystems
          <5>3. IsSystem(t[j])
            BY <5>1, <2>3 DEF KeepsSystems
          <5> QED  BY <5>1, <5>2, <5>3, <2>6
        <4> QED  BY <4>1, <4>2
      <3>3. \A i \in 1 .. m : IsSystem(s[i]) => \E j \in 1 .. Len(u) : u[j] = s[i]
        <4> SUFFICES ASSUME NEW i \in 1 .. m, IsSystem(s[i])
                     PROVE  \E j \in 1 .. Len(u) : u[j] = s[i]
          OBVIOUS
        <4>1. CASE i = m
          BY <4>1, <3>1, <2>4
        <4>2. CASE i # m
          <5>1. i \in 1 .. m - 1
            BY <4>2, <2>6
          <5>2. PICK j \in 1 .. Len(t) : t[j] = s[i]
            BY <5>1, <2>3 DEF KeepsSystems
          <5> QED  BY <5>2, <3>1, <2>4
        <4> QED  BY <4>1, <4>2
      <3>4. IsSystem(s[1]) => u # <<>> /\ u[1] = s[1]
        <4>1. u # <<>>
          BY <3>1, <2>4, EmptySeq
        <4>2. CASE m = 1
          <5>1. Len(t) = 0
            BY <4>2, <2>3 DEF KeepsSystems
          <5> QED  BY <5>1, <4>1, <4>2, <3>1
        <4>3. CASE m # 1
          <5>1. IsSystem(s[1]) => t # <<>> /\ t[1] = s[1]
            BY <4>3, <2>6, <2>3 DEF KeepsSystems
          <5>2. t # <<>> => 1 \in 1 .. Len(t)
            BY <2>4, EmptySeq
          <5> QED  BY <5>1, <5>2, <4>1, <3>1
        <4> QED  BY <4>2, <4>3
      <3> HIDE DEF a
      <3> QED  BY <3>1, <3>2, <3>3, <3>4, <2>6 DEF KeepsSystems
    <2> QED  BY <2>7, <2>8
  <1>6. Len(s) \in 0 .. Len(s)
    OBVIOUS
  <1> QED  BY <1>3, <1>5, <1>6

-----------------------------------------------------------------------------
(***************************************************************************)
(* Facts about the parameters and the measures                              *)
(***************************************************************************)

LEMMA ConstantFacts ==
    /\ MaxSize \in Nat /\ EmergencyKeep \in Nat /\ KeepRecent \in Nat
    /\ EmergencyKeep <= KeepRecent
    /\ ProtectSize \in Nat /\ LargeOutput \in Nat /\ PreviewSize \in Nat
    /\ PruneMinimum \in Nat /\ MarkerSize \in Nat /\ SummaryMax \in Nat
    /\ BlockSize \in Nat /\ WorthResolving \in Nat /\ HandoffSize \in Nat
  BY CompactionConstants

LEMMA MessageFacts ==
    ASSUME NEW s \in Seq(Messages)
    PROVE  /\ Len(s) \in Nat
           /\ DOMAIN s = 1 .. Len(s)
           /\ s = [i \in 1 .. Len(s) |-> s[i]]
           /\ \A i \in 1 .. Len(s) : s[i] \in Messages
  BY LenProperties, ElementOfSeq

LEMMA KeepFacts ==
    EmergencyKeep \in Nat /\ KeepRecent \in Nat /\ EmergencyKeep <= KeepRecent
  BY ConstantFacts

LEMMA LengthFact ==
    ASSUME NEW s \in Seq(Messages)
    PROVE  Len(s) \in Nat
  BY LenProperties

\* The first n members of a conversation are messages.
LEMMA FrontMessages ==
    ASSUME NEW s \in Seq(Messages), NEW n \in Nat, n <= Len(s)
    PROVE  \A i \in 1 .. n : s[i] \in Messages
  <1>1. Len(s) \in Nat /\ \A i \in 1 .. Len(s) : s[i] \in Messages
    BY MessageFacts
  <1>2. \A i \in 1 .. n : i \in 1 .. Len(s)
    BY <1>1
  <1> QED  BY <1>1, <1>2

LEMMA LastOfFacts ==
    ASSUME NEW s \in Seq(Messages), NEW n \in 0 .. Len(s)
    PROVE  /\ LastOf(s, n) \in Seq(Messages)
           /\ Len(LastOf(s, n)) = n
           /\ \A i \in 1 .. n : LastOf(s, n)[i] = s[Len(s) - n + i]
  <1> DEFINE a == Len(s) - n + 1
             b == Len(s)
  <1>1. LastOf(s, n) = SubSeq(s, a, b)
    <2>1. n \in Nat /\ Len(s) \in Nat /\ n <= Len(s)
      BY MessageFacts
    <2>2. Min({n, Len(s)}) = n
      BY <2>1, OfTwo
    <2> QED  BY <2>2 DEF LastOf
  <1>2. a \in Int /\ b \in Int /\ \A i \in a .. b : s[i] \in Messages
    BY MessageFacts
  <1>3. (IF a <= b THEN b - a + 1 ELSE 0) = n /\ b - a + 1 = n
    BY MessageFacts
  <1>4. \A i \in 1 .. n : a + i - 1 = Len(s) - n + i
    BY MessageFacts
  <1> HIDE DEF a, b
  <1>5. /\ SubSeq(s, a, b) \in Seq(Messages)
        /\ Len(SubSeq(s, a, b)) = n
        /\ \A i \in 1 .. n : SubSeq(s, a, b)[i] = s[a + i - 1]
    BY <1>2, <1>3, SubSeqProperties
  <1> QED  BY <1>1, <1>4, <1>5

\* Level 1 leaves the last KeepRecent messages alone.
LEMMA OldFacts ==
    ASSUME NEW s \in Seq(Messages), Len(s) > KeepRecent
    PROVE  Old(s) \in 0 .. Len(s) - KeepRecent
  <1> DEFINE T == {n \in 0 .. Len(s) : Size(LastOf(s, n)) <= ProtectSize}
  <1>1. T # {}
    <2>1. 0 \in 0 .. Len(s)
      BY MessageFacts
    <2>2. LastOf(s, 0) \in Seq(Messages) /\ Len(LastOf(s, 0)) = 0
      BY <2>1, LastOfFacts
    <2>3. LastOf(s, 0) = <<>>
      BY <2>2, EmptySeq
    <2>4. Size(LastOf(s, 0)) = 0
      BY <2>2, <2>3, SizeType
    <2> QED  BY <2>1, <2>4, ConstantFacts
  <1>2. T \in SUBSET (0 .. Len(s))
    OBVIOUS
  <1>3. KeptBySize(s) \in 0 .. Len(s)
    <2>1. KeptBySize(s) = Max(T)
      BY DEF KeptBySize
    <2> HIDE DEF T
    <2> QED  BY <2>1, <1>1, <1>2, GreatestNumber, MessageFacts
  <1> DEFINE k == KeptBySize(s)
  <1>4. Old(s) = Len(s) - Max({KeepRecent, k})
    BY DEF Old
  <1>5. k \in Nat /\ k <= Len(s)
    BY <1>3, MessageFacts
  <1> HIDE DEF k
  <1>6. Max({KeepRecent, k}) = IF KeepRecent >= k THEN KeepRecent ELSE k
    BY <1>5, OfTwo, ConstantFacts
  <1> QED  BY <1>4, <1>5, <1>6, LengthFact, KeepFacts

-----------------------------------------------------------------------------
(***************************************************************************)
(* The invariant, of a session s and the log of what was added to it         *)
(***************************************************************************)

Recent(lg) == IF EmergencyKeep <= Len(lg) THEN EmergencyKeep ELSE Len(lg)

\* A message is the one its id names, as far as its role tells.
Fits(m, lg) ==
    /\ m.id \in 0 .. Len(lg)
    /\ m.id > 0 => m.role = lg[m.id].role
    /\ m.marked => m.role = "assistant"
    /\ m.role = "user" => m.id > 0 /\ m = lg[m.id]

AsAdded(m, added) ==
    \/ m = added
    \/ m = [added EXCEPT !.size = PreviewSize] /\ added.role = "tool"

\* The session starts with a System message, so that it is never shorter than what level 3
\* keeps of it.
Headed(s) == Len(s) >= 1 /\ IsSystem(s[1])

EndIntact(s, lg) ==
    /\ Len(s) >= Recent(lg)
    /\ \A n \in 0 .. Recent(lg) - 1 : AsAdded(s[Len(s) - n], lg[Len(lg) - n])

SystemsIn(s, lg) == \A i \in 1 .. Len(lg) : IsSystem(lg[i]) => \E j \in 1 .. Len(s) : s[j].id = i

InOrder(s) ==
    \A i, j \in 1 .. Len(s) :
        i < j /\ ~IsSystem(s[i]) /\ ~IsSystem(s[j]) => s[i].id < s[j].id

Sound(s, lg) ==
    /\ s \in Seq(Messages)
    /\ \A i \in 1 .. Len(s) : Fits(s[i], lg)
    /\ EndIntact(s, lg)
    /\ SystemsIn(s, lg)
    /\ InOrder(s)

Good(s, lg) == Sound(s, lg) /\ Headed(s)

-----------------------------------------------------------------------------
(***************************************************************************)
(* Levels 0 to 2 rewrite messages in their places.                           *)
(***************************************************************************)

\* What a level may do to a message, and to a recent one.
Rewrites(m, n) ==
    /\ n \in Messages
    /\ n.id = m.id /\ n.role = m.role
    /\ m.role # "assistant" => n.marked = m.marked
    /\ m.role = "user" => n = m

Previews(m, n) == n = m \/ (n = [m EXCEPT !.size = PreviewSize] /\ m.role = "tool")

Rewritten(s, t) ==
    /\ t \in Seq(Messages)
    /\ Len(t) = Len(s)
    /\ \A i \in 1 .. Len(s) : Rewrites(s[i], t[i])
    /\ \A i \in 1 .. Len(s) : i > Len(s) - EmergencyKeep => Previews(s[i], t[i])

LEMMA RewrittenIsGood ==
    ASSUME NEW s, NEW t, NEW lg \in Seq(Messages), Good(s, lg), Rewritten(s, t)
    PROVE  Good(t, lg)
  <1>1. s \in Seq(Messages) /\ t \in Seq(Messages) /\ Len(s) \in Nat /\ Len(t) = Len(s)
        /\ Len(lg) \in Nat
    BY MessageFacts DEF Good, Sound, Rewritten
  <1>2. \A i \in 1 .. Len(s) : Rewrites(s[i], t[i]) /\ s[i] \in Messages
    BY <1>1, MessageFacts DEF Rewritten
  <1>3. \A i \in 1 .. Len(t) : Fits(t[i], lg)
    <2> SUFFICES ASSUME NEW i \in 1 .. Len(s) PROVE Fits(t[i], lg)
      BY <1>1
    <2> DEFINE m == s[i]
               n == t[i]
    <2>1. Rewrites(m, n) /\ m \in Messages /\ Fits(m, lg)
      BY <1>2 DEF Good, Sound
    <2> HIDE DEF m, n
    <2>2. Fits(n, lg)
      BY <2>1 DEF Fits, Rewrites, Messages
    <2> QED  BY <2>2 DEF n
  <1>4. Headed(t)
    BY <1>1, <1>2 DEF Good, Sound, Headed, Rewrites, IsSystem
  <1>5. EndIntact(t, lg)
    <2>1. Recent(lg) \in Nat /\ Recent(lg) <= EmergencyKeep /\ Recent(lg) <= Len(s)
      BY <1>1, ConstantFacts DEF Recent, Good, Sound, EndIntact
    <2> SUFFICES ASSUME NEW n \in 0 .. Recent(lg) - 1
                 PROVE  AsAdded(t[Len(s) - n], lg[Len(lg) - n])
      BY <1>1, <2>1 DEF EndIntact
    <2> DEFINE i == Len(s) - n
               added == lg[Len(lg) - n]
    <2>2. i \in 1 .. Len(s) /\ i > Len(s) - EmergencyKeep
      BY <1>1, <2>1, ConstantFacts
    <2>3. Previews(s[i], t[i]) /\ AsAdded(s[i], added)
      BY <2>2 DEF Good, Sound, EndIntact, Rewritten
    <2>4. Len(lg) - n \in 1 .. Len(lg)
      BY <1>1, <2>1 DEF Recent
    <2>5. added \in Messages
      BY <2>4, MessageFacts
    <2> HIDE DEF i, added
    <2>6. AsAdded(t[i], added)
      BY <2>3, <2>5 DEF Previews, AsAdded, Messages
    <2> QED  BY <2>6 DEF i, added
  <1>6. SystemsIn(t, lg)
    <2> SUFFICES ASSUME NEW i \in 1 .. Len(lg), IsSystem(lg[i])
                 PROVE  \E j \in 1 .. Len(t) : t[j].id = i
      BY DEF SystemsIn
    <2>1. PICK j \in 1 .. Len(s) : s[j].id = i
      BY DEF Good, Sound, SystemsIn
    <2> QED  BY <2>1, <1>1, <1>2 DEF Rewrites
  <1>7. InOrder(t)
    <2>1. \A i \in 1 .. Len(s) : t[i].id = s[i].id /\ (IsSystem(t[i]) <=> IsSystem(s[i]))
      BY <1>2 DEF Rewrites, IsSystem
    <2> QED  BY <2>1, <1>1 DEF Good, Sound, InOrder
  <1> QED  BY <1>1, <1>3, <1>4, <1>5, <1>6, <1>7 DEF Good, Sound

LEMMA UntouchedRewrites ==
    ASSUME NEW m \in Messages
    PROVE  Rewrites(m, m) /\ Previews(m, m)
  <1>1. Rewrites(m, m)
    BY Zenon DEF Rewrites
  <1>2. Previews(m, m)
    BY Zenon DEF Previews
  <1> QED  BY <1>1, <1>2

LEMMA PreviewRewrites ==
    ASSUME NEW m \in Messages, m.role = "tool"
    PROVE  LET n == [m EXCEPT !.size = PreviewSize] IN Rewrites(m, n) /\ Previews(m, n)
  BY ConstantFacts DEF Rewrites, Previews, Messages

LEMMA PrunedRewrites ==
    ASSUME NEW m \in Messages
    PROVE  Rewrites(m, Pruned(m))
  BY ConstantFacts DEF Rewrites, Pruned, Messages

LEMMA SummarisedRewrites ==
    ASSUME NEW m \in Messages
    PROVE  Rewrites(m, Summarised(m))
  <1> DEFINE cut == IF m.thought <= SummaryMax THEN m.thought ELSE 0
  <1>1. cut \in Nat
    BY DEF Messages
  <1>2. Summarised(m) =
            IF m.role = "assistant" /\ ~m.marked /\ m.size > SummaryMax
            THEN [m EXCEPT !.size = SummaryMax, !.marked = TRUE, !.thought = cut]
            ELSE m
    BY DEF Summarised
  <1> HIDE DEF cut
  <1> QED  BY <1>1, <1>2, ConstantFacts DEF Rewrites, Messages

LEMMA ThinkingRewrites ==
    ASSUME NEW m \in Messages, m.role = "assistant"
    PROVE  Rewrites(m, WithThinking(Summarised(m)))
  <1> DEFINE n == Summarised(m)
  <1>1. Rewrites(m, n)
    BY SummarisedRewrites
  <1>2. n \in Messages
    BY <1>1 DEF Rewrites
  <1> HIDE DEF n
  <1> DEFINE w == WithThinking(n)
             size == n.size + BlockSize
  <1>3. size \in Nat
    BY <1>2, ConstantFacts DEF Messages
  <1>4. w = [n EXCEPT !.size = size]
    BY DEF WithThinking
  <1> HIDE DEF size, w
  <1>5. w \in Messages /\ w.id = n.id /\ w.role = n.role
    BY <1>2, <1>3, <1>4 DEF Messages
  <1>6. Rewrites(m, w)
    BY <1>1, <1>5 DEF Rewrites
  <1> QED  BY <1>6 DEF n, w

LEMMA Level0Rewrites ==
    ASSUME NEW s \in Seq(Messages), NEW writable
    PROVE  Rewritten(s, Level0(s, writable))
  <1> DEFINE moved(i) == IF writable /\ s[i].role = "tool" /\ s[i].size > LargeOutput
                         THEN [s[i] EXCEPT !.size = PreviewSize] ELSE s[i]
             t == [i \in 1 .. Len(s) |-> moved(i)]
  <1>1. \A i \in 1 .. Len(s) : Rewrites(s[i], moved(i)) /\ Previews(s[i], moved(i))
    BY MessageFacts, UntouchedRewrites, PreviewRewrites
  <1>2. Level0(s, writable) = t
    BY MessageFacts DEF Level0
  <1>3. \A i \in 1 .. Len(s) : moved(i) \in Messages
    BY <1>1 DEF Rewrites
  <1>4. \A i \in 1 .. Len(s) : t[i] = moved(i)
    OBVIOUS
  <1> HIDE DEF moved
  <1>5. t \in Seq(Messages) /\ Len(t) = Len(s)
    BY <1>3, MessageFacts
  <1> HIDE DEF t
  <1> QED  BY <1>1, <1>2, <1>4, <1>5 DEF Rewritten

\* Levels 1 and 2 rewrite the messages up to some place and leave the others.
LEMMA FrontRewrites ==
    ASSUME NEW s \in Seq(Messages), NEW old \in 0 .. Len(s) - EmergencyKeep,
           NEW front, front = [i \in 1 .. old |-> front[i]],
           \A i \in 1 .. old : Rewrites(s[i], front[i])
    PROVE  Rewritten(s, front \o SubSeq(s, old + 1, Len(s)))
  <1> DEFINE a == old + 1
             b == Len(s)
             end == SubSeq(s, a, b)
             t == front \o end
  <1>1. old \in Nat /\ b \in Nat /\ old <= b /\ a \in Int /\ b \in Int
    BY LengthFact, KeepFacts
  <1>2. \A i \in a .. b : s[i] \in Messages
    BY <1>1, MessageFacts
  <1>3. b - a + 1 = b - old /\ (IF a <= b THEN b - a + 1 ELSE 0) = b - old
        /\ \A i \in 1 .. b - old : a + i - 1 = old + i
    <2>1. \A m, n \in Nat : m <= n =>
              /\ n - (m + 1) + 1 = n - m
              /\ (IF m + 1 <= n THEN n - (m + 1) + 1 ELSE 0) = n - m
              /\ \A i \in 1 .. n - m : m + 1 + i - 1 = m + i
      OBVIOUS
    <2>2. old \in Nat /\ b \in Nat /\ old <= b
      BY <1>1
    <2> HIDE DEF b
    <2> QED  BY <2>1, <2>2 DEF a
  <1>4. /\ end \in Seq(Messages) /\ Len(end) = b - old
        /\ \A i \in 1 .. b - old : end[i] = s[old + i]
    <2> HIDE DEF a, b
    <2>1. /\ end \in Seq(Messages)
          /\ Len(end) = IF a <= b THEN b - a + 1 ELSE 0
          /\ \A i \in 1 .. b - a + 1 : end[i] = s[a + i - 1]
      BY <1>1, <1>2, SubSeqProperties
    <2> QED  BY <2>1, <1>3
  <1>5. \A i \in 1 .. old : front[i] \in Messages
    BY DEF Rewrites
  <1>6. front \in Seq(Messages) /\ Len(front) = old
    <2>1. front \in [1 .. old -> Messages]
      BY <1>5
    <2> QED  BY <2>1, <1>1
  <1> HIDE DEF a, end
  <1>7. /\ t \in Seq(Messages) /\ Len(t) = old + (b - old)
        /\ \A i \in 1 .. old + (b - old) : t[i] = IF i <= old THEN front[i] ELSE end[i - old]
    BY <1>4, <1>6, ConcatProperties
  <1>8. old + (b - old) = b
    BY <1>1
  <1> HIDE DEF t, b
  <1>9. \A i \in 1 .. b : t[i] = IF i <= old THEN front[i] ELSE s[i]
    <2> SUFFICES ASSUME NEW i \in 1 .. b, i > old PROVE t[i] = s[i]
      BY <1>7, <1>8
    <2>1. i - old \in 1 .. b - old /\ old + (i - old) = i
      BY <1>1
    <2> QED  BY <2>1, <1>4, <1>7, <1>8
  <1>10. b = Len(s)
    BY DEF b
  <1>11. \A i \in 1 .. b : Rewrites(s[i], t[i])
    BY <1>9, <1>1, <1>10, MessageFacts, UntouchedRewrites
  <1>12. \A i \in 1 .. b : i > b - EmergencyKeep => Previews(s[i], t[i])
    <2> SUFFICES ASSUME NEW i \in 1 .. b, i > b - EmergencyKeep PROVE Previews(s[i], t[i])
      OBVIOUS
    <2>1. i > old
      <3>1. old <= b - EmergencyKeep /\ EmergencyKeep \in Nat
        BY <1>10, KeepFacts
      <3> QED  BY <1>1, <3>1
    <2>2. t[i] = s[i] /\ s[i] \in Messages
      BY <2>1, <1>9, <1>1, <1>10, MessageFacts
    <2> QED  BY <2>2, UntouchedRewrites
  <1>13. Rewritten(s, t)
    BY <1>7, <1>8, <1>10, <1>11, <1>12 DEF Rewritten
  <1> QED  BY <1>13 DEF t, end, a, b

LEMMA Level1Rewrites ==
    ASSUME NEW s \in Seq(Messages)
    PROVE  Rewritten(s, Level1(s))
  <1>1. CASE Len(s) <= KeepRecent
    BY <1>1, MessageFacts, UntouchedRewrites DEF Level1, Rewritten
  <1>2. CASE ~(Len(s) <= KeepRecent)
    <2> DEFINE old == Old(s)
               front == [i \in 1 .. old |-> Pruned(s[i])]
    <2>1. old \in 0 .. Len(s) - EmergencyKeep
      <3>1. Len(s) \in Nat /\ Len(s) > KeepRecent
        BY <1>2, LengthFact, KeepFacts
      <3>2. old \in 0 .. Len(s) - KeepRecent
        BY <3>1, OldFacts
      <3> HIDE DEF old
      <3> QED  BY <3>1, <3>2, KeepFacts
    <2>2. Level1(s) = front \o SubSeq(s, old + 1, Len(s))
      BY <1>2 DEF Level1
    <2> HIDE DEF old
    <2>3. \A i \in 1 .. old : Rewrites(s[i], front[i])
      <3>1. old \in Nat /\ old <= Len(s)
        BY <2>1, LengthFact, KeepFacts
      <3>2. \A i \in 1 .. old : s[i] \in Messages
        BY <3>1, FrontMessages
      <3> QED  BY <3>2, PrunedRewrites
    <2>4. front = [i \in 1 .. old |-> front[i]]
      OBVIOUS
    <2> HIDE DEF front
    <2> QED  BY <2>1, <2>2, <2>3, <2>4, FrontRewrites
  <1> QED  BY <1>1, <1>2

LEMMA Level2Rewrites ==
    ASSUME NEW s \in Seq(Messages)
    PROVE  Rewritten(s, Level2(s))
  <1>1. CASE Len(s) <= KeepRecent
    BY <1>1, MessageFacts, UntouchedRewrites DEF Level2, Rewritten
  <1>2. CASE ~(Len(s) <= KeepRecent)
    <2> DEFINE old == Len(s) - KeepRecent
               ours == Assistants(s, old)
               thought == \E i \in ours : s[i].thought > 0
               New(i) == IF thought /\ i = Max(ours) THEN WithThinking(Summarised(s[i]))
                         ELSE Summarised(s[i])
               front == [i \in 1 .. old |-> New(i)]
    <2>1. old \in 0 .. Len(s) - EmergencyKeep /\ old \in Nat
      BY <1>2, LengthFact, KeepFacts
    <2>2. Level2(s) = front \o SubSeq(s, old + 1, Len(s))
      BY <1>2 DEF Level2
    <2>3. thought => Max(ours) \in ours
      <3>1. ours \in SUBSET (0 .. old)
        BY DEF Assistants
      <3>2. thought => ours # {}
        OBVIOUS
      <3> HIDE DEF ours, old
      <3> QED  BY <2>1, <3>1, <3>2, GreatestNumber
    <2>4. thought => s[Max(ours)].role = "assistant"
      BY <2>3 DEF Assistants
    <2> HIDE DEF old, ours, thought
    <2>5. \A i \in 1 .. old : s[i] \in Messages
      <3>1. old <= Len(s)
        BY <2>1, LengthFact, KeepFacts
      <3> QED  BY <2>1, <3>1, FrontMessages
    <2>6. \A i \in 1 .. old : Rewrites(s[i], New(i))
      BY <2>4, <2>5, SummarisedRewrites, ThinkingRewrites
    <2>7. front = [i \in 1 .. old |-> front[i]] /\ \A i \in 1 .. old : front[i] = New(i)
      OBVIOUS
    <2> HIDE DEF front, New
    <2> QED  BY <2>1, <2>2, <2>6, <2>7, FrontRewrites DEF old
  <1> QED  BY <1>1, <1>2

LEMMA Level0IsGood ==
    ASSUME NEW s, NEW lg \in Seq(Messages), Good(s, lg), NEW writable
    PROVE  Good(Level0(s, writable), lg)
  BY Level0Rewrites, RewrittenIsGood DEF Good, Sound

LEMMA Level1IsGood ==
    ASSUME NEW s, NEW lg \in Seq(Messages), Good(s, lg)
    PROVE  Good(Level1(s), lg)
  BY Level1Rewrites, RewrittenIsGood DEF Good, Sound

LEMMA Level2IsGood ==
    ASSUME NEW s, NEW lg \in Seq(Messages), Good(s, lg)
    PROVE  Good(Level2(s), lg)
  BY Level2Rewrites, RewrittenIsGood DEF Good, Sound

-----------------------------------------------------------------------------
(***************************************************************************)
(* Level 3 keeps the System messages and the last ones.                      *)
(***************************************************************************)

\* What level 3 puts before the last messages.
LEMMA FrontOfLevel3 ==
    ASSUME NEW s, NEW lg \in Seq(Messages), Good(s, lg)
    PROVE  LET front == Systems(s) \o Handoff(s)
           IN /\ front \in Seq(Messages)
              /\ Headed(front)
              /\ \A i \in 1 .. Len(front) : IsSystem(front[i]) /\ Fits(front[i], lg)
              /\ SystemsIn(front, lg)
  <1> DEFINE a == Systems(s)
             b == Handoff(s)
             front == a \o b
             handoff == Message([role |-> "system", size |-> HandoffSize, thought |-> 0], 0)
  <1>1. s \in Seq(Messages) /\ Len(s) \in Nat /\ Len(s) >= 1 /\ Len(lg) \in Nat
    BY MessageFacts DEF Good, Sound, Headed
  <1>2. KeepsSystems(a, s, Len(s))
    BY <1>1, SystemsKept
  <1>3. handoff \in Messages /\ IsSystem(handoff) /\ Fits(handoff, lg)
    BY <1>1, ConstantFacts DEF Message, Messages, IsSystem, Fits, Roles
  <1>4. b = <<handoff>> \/ b = <<>>
    BY DEF Handoff
  <1> HIDE DEF handoff, a, b
  <1>5. b \in Seq(Messages) /\ \A i \in 1 .. Len(b) : b[i] = handoff
    <2>1. CASE b = <<handoff>>
      <3>1. b \in Seq(Messages)
        BY <1>3, <2>1
      <3>2. Len(b) = 1 /\ b[1] = handoff
        BY <2>1
      <3> QED  BY <3>1, <3>2
    <2>2. CASE b = <<>>
      BY <2>2, EmptySeq
    <2> QED  BY <1>4, <2>1, <2>2
  <1>6. a \in Seq(Messages) /\ Len(a) \in Nat /\ Len(b) \in Nat
    BY <1>2, <1>5, MessageFacts DEF KeepsSystems
  <1>7. /\ front \in Seq(Messages) /\ Len(front) = Len(a) + Len(b)
        /\ \A i \in 1 .. Len(a) + Len(b) : front[i] = IF i <= Len(a) THEN a[i] ELSE b[i - Len(a)]
    BY <1>5, <1>6, ConcatProperties
  <1> HIDE DEF front
  <1>8. \A i \in 1 .. Len(a) : IsSystem(a[i]) /\ Fits(a[i], lg)
    BY <1>2 DEF KeepsSystems, Good, Sound
  <1>9. \A i \in 1 .. Len(front) : IsSystem(front[i]) /\ Fits(front[i], lg)
    <2> SUFFICES ASSUME NEW i \in 1 .. Len(a) + Len(b)
                 PROVE  IsSystem(front[i]) /\ Fits(front[i], lg)
      BY <1>7
    <2>1. CASE i <= Len(a)
      BY <2>1, <1>6, <1>7, <1>8
    <2>2. CASE ~(i <= Len(a))
      <3>1. i - Len(a) \in 1 .. Len(b)
        BY <2>2, <1>6
      <3> QED  BY <3>1, <2>2, <1>3, <1>5, <1>7
    <2> QED  BY <2>1, <2>2
  <1>10. Len(a) >= 1
    <2>1. a # <<>>
      BY <1>1, <1>2 DEF KeepsSystems, Good, Headed
    <2> QED  BY <2>1, <1>6, EmptySeq
  <1>11. Headed(front)
    BY <1>6, <1>7, <1>9, <1>10 DEF Headed
  <1>12. SystemsIn(front, lg)
    <2> SUFFICES ASSUME NEW i \in 1 .. Len(lg), IsSystem(lg[i])
                 PROVE  \E j \in 1 .. Len(front) : front[j].id = i
      BY DEF SystemsIn
    <2>1. PICK k \in 1 .. Len(s) : s[k].id = i
      BY DEF Good, Sound, SystemsIn
    <2>2. Fits(s[k], lg)
      BY DEF Good, Sound
    <2>3. IsSystem(s[k])
      BY <2>1, <2>2 DEF Fits, IsSystem
    <2>4. PICK j \in 1 .. Len(a) : a[j] = s[k]
      BY <2>3, <1>2 DEF KeepsSystems
    <2>5. j \in 1 .. Len(front) /\ front[j] = a[j]
      BY <1>6, <1>7
    <2> QED  BY <2>1, <2>4, <2>5
  <1> QED  BY <1>7, <1>9, <1>11, <1>12 DEF front, a, b

\* A session of System messages followed by the end of a sound one.
LEMMA EndIsKept ==
    ASSUME NEW s, NEW lg \in Seq(Messages), Good(s, lg), Len(s) > EmergencyKeep,
           NEW front \in Seq(Messages), Headed(front), SystemsIn(front, lg),
           \A i \in 1 .. Len(front) : IsSystem(front[i]) /\ Fits(front[i], lg)
    PROVE  LET t == front \o LastOf(s, EmergencyKeep)
           IN /\ Good(t, lg)
              /\ \A i \in 1 .. Len(t) : IsSystem(t[i]) \/ i > Len(t) - EmergencyKeep
  <1> DEFINE end == LastOf(s, EmergencyKeep)
             t == front \o end
             k == EmergencyKeep
             L == Len(front)
  <1>1. /\ s \in Seq(Messages) /\ Len(s) \in Nat /\ Len(lg) \in Nat /\ L \in Nat
        /\ k \in Nat /\ k <= Len(s) /\ L >= 1
    <2>1. s \in Seq(Messages) /\ L >= 1
      BY DEF Good, Sound, Headed
    <2> QED  BY <2>1, LengthFact, KeepFacts
  <1>2. /\ end \in Seq(Messages) /\ Len(end) = k
        /\ \A i \in 1 .. k : end[i] = s[Len(s) - k + i]
    BY <1>1, LastOfFacts
  <1> HIDE DEF end
  <1>3. /\ t \in Seq(Messages) /\ Len(t) = L + k
        /\ \A i \in 1 .. L + k : t[i] = IF i <= L THEN front[i] ELSE end[i - L]
    BY <1>2, ConcatProperties
  <1> HIDE DEF t
  <1>4. \A i \in 1 .. L : t[i] = front[i]
    BY <1>1, <1>3
  <1>5. \A i \in L + 1 .. L + k : /\ t[i] = s[Len(s) - k + (i - L)]
                                  /\ Len(s) - k + (i - L) \in 1 .. Len(s)
    <2> SUFFICES ASSUME NEW i \in L + 1 .. L + k
                 PROVE  /\ t[i] = s[Len(s) - k + (i - L)]
                        /\ Len(s) - k + (i - L) \in 1 .. Len(s)
      OBVIOUS
    <2>1. i - L \in 1 .. k /\ i \in 1 .. L + k /\ ~(i <= L)
      BY <1>1
    <2>2. t[i] = end[i - L]
      BY <2>1, <1>3
    <2> QED  BY <2>1, <2>2, <1>1, <1>2
  <1> HIDE DEF k, L
  <1>6. \A i \in 1 .. L + k : IsSystem(t[i]) \/ i > L
    BY <1>1, <1>4 DEF L
  <1>7. \A i \in 1 .. Len(t) : Fits(t[i], lg)
    <2> SUFFICES ASSUME NEW i \in 1 .. L + k PROVE Fits(t[i], lg)
      BY <1>3
    <2>1. CASE i <= L
      BY <2>1, <1>1, <1>4 DEF L
    <2>2. CASE i > L
      <3>1. i \in L + 1 .. L + k
        BY <2>2, <1>1
      <3> QED  BY <3>1, <1>5 DEF Good, Sound
    <2> QED  BY <2>1, <2>2, <1>1
  <1>8. Headed(t)
    BY <1>1, <1>3, <1>4 DEF Headed, L
  <1>9. EndIntact(t, lg)
    <2>1. Recent(lg) \in Nat /\ Recent(lg) <= k /\ Recent(lg) <= Len(s)
      BY <1>1 DEF Recent, k
    <2> SUFFICES ASSUME NEW n \in 0 .. Recent(lg) - 1
                 PROVE  AsAdded(t[Len(t) - n], lg[Len(lg) - n])
      BY <1>1, <1>3, <2>1 DEF EndIntact
    <2>2. L + k - n \in L + 1 .. L + k /\ Len(s) - k + ((L + k - n) - L) = Len(s) - n
      <3>1. L \in Nat /\ k \in Nat /\ Len(s) \in Nat
        BY <1>1
      <3>2. n \in Nat /\ n < k
        BY <3>1, <2>1
      <3> QED  BY <3>1, <3>2
    <2> DEFINE i == L + k - n
    <2>3. i = Len(t) - n
      <3>1. Len(t) = L + k
        BY <1>3
      <3>2. i = (L + k) - n
        BY <1>1, <2>1
      <3> HIDE DEF i
      <3> QED  BY <3>1, <3>2
    <2>4. i \in L + 1 .. L + k /\ Len(s) - k + (i - L) = Len(s) - n
      BY <2>2
    <2> HIDE DEF i
    <2>5. t[i] = s[Len(s) - n]
      BY <2>4, <1>5
    <2> QED  BY <2>3, <2>5 DEF Good, Sound, EndIntact
  <1>10. SystemsIn(t, lg)
    <2> SUFFICES ASSUME NEW i \in 1 .. Len(lg), IsSystem(lg[i])
                 PROVE  \E j \in 1 .. Len(t) : t[j].id = i
      BY DEF SystemsIn
    <2>1. PICK j \in 1 .. L : front[j].id = i
      BY DEF SystemsIn, L
    <2> QED  BY <2>1, <1>1, <1>3, <1>4
  <1>11. InOrder(t)
    <2> SUFFICES ASSUME NEW i \in 1 .. L + k, NEW j \in 1 .. L + k, i < j,
                        ~IsSystem(t[i]), ~IsSystem(t[j])
                 PROVE  t[i].id < t[j].id
      BY <1>3 DEF InOrder
    <2> DEFINE p == Len(s) - k + (i - L)
               q == Len(s) - k + (j - L)
    <2>1. i \in L + 1 .. L + k /\ j \in L + 1 .. L + k
      BY <1>1, <1>6
    <2>2. t[i] = s[p] /\ t[j] = s[q] /\ p \in 1 .. Len(s) /\ q \in 1 .. Len(s)
      BY <2>1, <1>5
    <2>3. p < q
      BY <1>1
    <2> HIDE DEF p, q
    <2>4. s[p].id < s[q].id
      BY <2>2, <2>3 DEF Good, Sound, InOrder
    <2> QED  BY <2>2, <2>4
  <1>12. Good(t, lg)
    BY <1>3, <1>7, <1>8, <1>9, <1>10, <1>11 DEF Good, Sound
  <1>13. \A i \in 1 .. Len(t) : IsSystem(t[i]) \/ i > Len(t) - EmergencyKeep
    BY <1>1, <1>3, <1>6 DEF k
  <1> QED  BY <1>12, <1>13 DEF t, end

LEMMA Level3IsGood ==
    ASSUME NEW s, NEW lg \in Seq(Messages), Good(s, lg)
    PROVE  LET t == Level3(s)
           IN /\ Good(t, lg)
              /\ \A i \in 1 .. Len(t) : IsSystem(t[i]) \/ i > Len(t) - EmergencyKeep
  <1>1. Len(s) \in Nat /\ EmergencyKeep \in Nat
    BY MessageFacts, ConstantFacts DEF Good, Sound
  <1>2. CASE Len(s) <= EmergencyKeep + 1
    <2>1. Level3(s) = s
      BY <1>2 DEF Level3
    <2>2. \A i \in 1 .. Len(s) : IsSystem(s[i]) \/ i > Len(s) - EmergencyKeep
      <3> SUFFICES ASSUME NEW i \in 1 .. Len(s), ~(i > Len(s) - EmergencyKeep)
                   PROVE  IsSystem(s[i])
        OBVIOUS
      <3>1. i = 1
        BY <1>1, <1>2
      <3> QED  BY <3>1 DEF Good, Headed
    <2> QED  BY <2>1, <2>2
  <1>3. CASE ~(Len(s) <= EmergencyKeep + 1)
    <2> DEFINE front == Systems(s) \o Handoff(s)
    <2>1. Level3(s) = front \o LastOf(s, EmergencyKeep)
      BY <1>3 DEF Level3
    <2>2. /\ front \in Seq(Messages) /\ Headed(front) /\ SystemsIn(front, lg)
          /\ \A i \in 1 .. Len(front) : IsSystem(front[i]) /\ Fits(front[i], lg)
      BY FrontOfLevel3
    <2>3. Len(s) > EmergencyKeep
      BY <1>1, <1>3
    <2> HIDE DEF front
    <2> QED  BY <2>1, <2>2, <2>3, EndIsKept
  <1> QED  BY <1>2, <1>3

LEMMA CompactedIsGood ==
    ASSUME NEW s, NEW lg \in Seq(Messages), Good(s, lg), NEW writable
    PROVE  Good(Compacted(s, writable), lg)
  <1> DEFINE s0 == Level0(s, writable)
             s1 == IF Size(s0) > (3 * MaxSize) \div 4 THEN Level1(s0) ELSE s0
             s2 == IF Size(s1) > (9 * MaxSize) \div 10 THEN Level2(s1) ELSE s1
             s3 == IF Size(s2) > MaxSize THEN Level3(s2) ELSE s2
  <1>1. Good(s0, lg)
    BY Level0IsGood
  <1> HIDE DEF s0
  <1>2. Good(s1, lg)
    BY <1>1, Level1IsGood
  <1> HIDE DEF s1
  <1>3. Good(s2, lg)
    BY <1>2, Level2IsGood
  <1> HIDE DEF s2
  <1>4. Good(s3, lg)
    BY <1>3, Level3IsGood
  <1> QED  BY <1>4 DEF Compacted, s0, s1, s2, s3

-----------------------------------------------------------------------------
(***************************************************************************)
(* What a step adds goes to the end of the session and of the log.           *)
(***************************************************************************)

LEMMA AddedFacts ==
    ASSUME NEW texts \in Seq(Texts), NEW count \in Nat
    PROVE  LET new == Added(texts, count)
           IN /\ new \in Seq(Messages)
              /\ \A i \in 1 .. Len(new) :
                     /\ new[i].id = count + i
                     /\ ~new[i].marked
  <1> DEFINE new == [i \in 1 .. Len(texts) |-> Message(texts[i], count + i)]
  <1>1. Len(texts) \in Nat /\ DOMAIN texts = 1 .. Len(texts)
        /\ \A i \in 1 .. Len(texts) : texts[i] \in Texts
    BY LenProperties, ElementOfSeq
  <1>2. Added(texts, count) = new
    BY <1>1 DEF Added
  <1>3. ASSUME NEW i \in 1 .. Len(texts)
        PROVE  /\ Message(texts[i], count + i) \in Messages
               /\ Message(texts[i], count + i).id = count + i
               /\ ~Message(texts[i], count + i).marked
    <2>1. texts[i] \in Texts
      BY <1>1
    <2> QED  BY <2>1 DEF Texts, Message, Messages
  <1>4. new \in Seq(Messages) /\ Len(new) = Len(texts)
    <2>1. new \in [1 .. Len(texts) -> Messages]
      BY <1>3
    <2> QED  BY <2>1, <1>1
  <1>5. \A i \in 1 .. Len(texts) : new[i] = Message(texts[i], count + i)
    OBVIOUS
  <1> HIDE DEF new
  <1> QED  BY <1>2, <1>3, <1>4, <1>5

LEMMA AppendedIsSound ==
    ASSUME NEW s, NEW lg \in Seq(Messages), Sound(s, lg), NEW texts \in Seq(Texts)
    PROVE  LET new == Added(texts, Len(lg))
           IN Sound(s \o new, lg \o new) /\ lg \o new \in Seq(Messages)
  <1> DEFINE new == Added(texts, Len(lg))
             S == Len(s)
             L == Len(lg)
             K == Len(new)
             t == s \o new
             u == lg \o new
  <1>1. s \in Seq(Messages) /\ S \in Nat /\ L \in Nat
    BY MessageFacts DEF Sound
  <1>2. new \in Seq(Messages) /\ K \in Nat
        /\ \A i \in 1 .. K : new[i].id = L + i /\ ~new[i].marked
    BY <1>1, AddedFacts, MessageFacts
  <1> HIDE DEF new
  <1>3. /\ t \in Seq(Messages) /\ Len(t) = S + K
        /\ \A i \in 1 .. S + K : t[i] = IF i <= S THEN s[i] ELSE new[i - S]
    BY <1>1, <1>2, ConcatProperties
  <1>4. /\ u \in Seq(Messages) /\ Len(u) = L + K
        /\ \A i \in 1 .. L + K : u[i] = IF i <= L THEN lg[i] ELSE new[i - L]
    BY <1>1, <1>2, ConcatProperties
  <1> HIDE DEF t, u
  <1>5. \A i \in 1 .. S : t[i] = s[i] /\ i \in 1 .. S + K
    <2> SUFFICES ASSUME NEW i \in 1 .. S PROVE t[i] = s[i] /\ i \in 1 .. S + K
      OBVIOUS
    <2>1. i \in 1 .. S + K /\ i <= S
      BY <1>1, <1>2
    <2> QED  BY <2>1, <1>3
  <1>6. \A i \in S + 1 .. S + K : t[i] = new[i - S] /\ i - S \in 1 .. K
    <2> SUFFICES ASSUME NEW i \in S + 1 .. S + K PROVE t[i] = new[i - S] /\ i - S \in 1 .. K
      OBVIOUS
    <2>1. i \in 1 .. S + K /\ ~(i <= S) /\ i - S \in 1 .. K
      BY <1>1, <1>2
    <2> QED  BY <2>1, <1>3
  <1>7. \A i \in 1 .. L : u[i] = lg[i]
    BY <1>1, <1>2, <1>4
  <1>8. \A i \in L + 1 .. L + K : u[i] = new[i - L] /\ i - L \in 1 .. K
    BY <1>1, <1>2, <1>4
  <1>9. \A i \in 1 .. S : Fits(s[i], lg) /\ Fits(s[i], u)
    <2> SUFFICES ASSUME NEW i \in 1 .. S PROVE Fits(s[i], lg) /\ Fits(s[i], u)
      OBVIOUS
    <2>1. Fits(s[i], lg)
      BY DEF Sound
    <2>2. s[i].id \in 0 .. L + K
      BY <2>1, <1>1, <1>2 DEF Fits
    <2>3. s[i].id > 0 => u[s[i].id] = lg[s[i].id]
      BY <2>1, <1>1, <1>7 DEF Fits
    <2> QED  BY <2>1, <2>2, <2>3, <1>4 DEF Fits
  <1>10. \A i \in 1 .. Len(t) : Fits(t[i], u)
    <2> SUFFICES ASSUME NEW i \in 1 .. S + K PROVE Fits(t[i], u)
      BY <1>3
    <2>1. CASE i <= S
      BY <2>1, <1>5, <1>9
    <2>2. CASE ~(i <= S)
      <3> DEFINE k == i - S
                 m == new[k]
      <3>1. t[i] = m /\ k \in 1 .. K /\ k \in Nat /\ k > 0
        BY <2>2, <1>1, <1>2, <1>6
      <3> HIDE DEF k
      <3> DEFINE j == L + k
      <3>2. j \in L + 1 .. L + K /\ j - L = k /\ j > 0 /\ j \in 0 .. L + K
        BY <3>1, <1>1, <1>2
      <3> HIDE DEF m
      <3>3. u[j] = m
        <4> HIDE DEF j
        <4>1. u[j] = new[j - L]
          BY <3>2, <1>8
        <4> QED  BY <4>1, <3>2 DEF m
      <3>4. m.id = j /\ ~m.marked
        BY <3>1, <1>2 DEF m
      <3> HIDE DEF j
      <3> QED  BY <3>1, <3>2, <3>3, <3>4, <1>4 DEF Fits
    <2> QED  BY <2>1, <2>2
  <1>11. EndIntact(t, u)
    <2>1. /\ Recent(lg) \in Nat /\ Recent(u) \in Nat /\ Recent(u) <= L + K
          /\ Recent(lg) <= S /\ Recent(u) <= Recent(lg) + K /\ Recent(lg) <= L
      BY <1>1, <1>2, <1>4, KeepFacts DEF Recent, Sound, EndIntact
    <2>2. ASSUME NEW n \in 0 .. Recent(u) - 1
          PROVE  AsAdded(t[S + K - n], u[L + K - n])
      <3>1. CASE n < K
        <4> DEFINE i == S + K - n
                   j == L + K - n
                   k == K - n
        <4>1. i \in S + 1 .. S + K /\ j \in L + 1 .. L + K /\ i - S = k /\ j - L = k
          BY <3>1, <2>1, <1>1, <1>2
        <4> HIDE DEF i, j, k
        <4>2. t[i] = new[k] /\ u[j] = new[k]
          BY <4>1, <1>6, <1>8
        <4>3. AsAdded(t[i], u[j])
          BY <4>2 DEF AsAdded
        <4> QED  BY <4>3 DEF i, j
      <3>2. CASE ~(n < K)
        <4> DEFINE p == n - K
        <4>1. p \in 0 .. Recent(lg) - 1
          BY <3>2, <2>1, <1>1, <1>2, <1>4, KeepFacts DEF Recent
        <4>2. S + K - n = S - p /\ L + K - n = L - p
              /\ S - p \in 1 .. S /\ L - p \in 1 .. L
          BY <4>1, <2>1, <1>1, <1>2
        <4>3. t[S + K - n] = s[S - p] /\ u[L + K - n] = lg[L - p]
          BY <4>2, <1>5, <1>7
        <4> QED  BY <4>1, <4>3 DEF Sound, EndIntact
      <3> QED  BY <3>1, <3>2
    <2>3. Len(t) >= Recent(u)
      BY <2>1, <1>1, <1>2, <1>3
    <2>4. Len(t) = S + K /\ Len(u) = L + K
      BY <1>3, <1>4
    <2>5. ASSUME NEW n \in 0 .. Recent(u) - 1
          PROVE  AsAdded(t[Len(t) - n], u[Len(u) - n])
      <3>1. Len(t) - n = S + K - n /\ Len(u) - n = L + K - n
        BY <2>4
      <3>2. AsAdded(t[S + K - n], u[L + K - n])
        BY <2>2
      <3> QED
        BY <3>1, <3>2, Zenon
    <2> QED  BY <2>3, <2>5 DEF EndIntact
  <1>12. SystemsIn(t, u)
    <2> SUFFICES ASSUME NEW i \in 1 .. L + K, IsSystem(u[i])
                 PROVE  \E j \in 1 .. S + K : t[j].id = i
      BY <1>3, <1>4 DEF SystemsIn
    <2>1. CASE i <= L
      <3>1. i \in 1 .. L /\ IsSystem(lg[i])
        BY <2>1, <1>1, <1>7
      <3>2. PICK j \in 1 .. S : s[j].id = i
        BY <3>1 DEF Sound, SystemsIn
      <3> QED  BY <3>2, <1>5
    <2>2. CASE ~(i <= L)
      <3> DEFINE j == S + (i - L)
      <3>1. i - L \in 1 .. K /\ L + (i - L) = i /\ j \in S + 1 .. S + K /\ j - S = i - L
            /\ j \in 1 .. S + K
        BY <2>2, <1>1, <1>2
      <3> HIDE DEF j
      <3>2. t[j] = new[i - L]
        BY <3>1, <1>6
      <3> QED  BY <3>1, <3>2, <1>2
    <2> QED  BY <2>1, <2>2
  <1>13. InOrder(t)
    <2> SUFFICES ASSUME NEW i \in 1 .. S + K, NEW j \in 1 .. S + K, i < j,
                        ~IsSystem(t[i]), ~IsSystem(t[j])
                 PROVE  t[i].id < t[j].id
      BY <1>3 DEF InOrder
    <2>1. CASE j <= S
      <3>1. i \in 1 .. S /\ j \in 1 .. S
        BY <2>1, <1>1
      <3>2. t[i] = s[i] /\ t[j] = s[j]
        BY <3>1, <1>5
      <3> QED  BY <3>1, <3>2 DEF Sound, InOrder
    <2>2. CASE ~(j <= S)
      <3>1. t[j] = new[j - S] /\ j - S \in 1 .. K
        BY <2>2, <1>1, <1>2, <1>6
      <3>2. t[j].id = L + (j - S)
        BY <3>1, <1>2
      <3>3. CASE i <= S
        <4>1. t[i] = s[i] /\ s[i].id \in 0 .. L
          BY <3>3, <1>1, <1>5, <1>9 DEF Fits
        <4>2. L \in Nat /\ S \in Nat
          BY <1>1
        <4>3. t[i].id <= L
          BY <4>1, <4>2
        <4> DEFINE k == j - S
        <4>4. t[j].id = L + k /\ k \in Nat /\ k >= 1
          BY <3>1, <3>2, <4>2
        <4> HIDE DEF k
        <4> QED  BY <4>1, <4>2, <4>3, <4>4
      <3>4. CASE ~(i <= S)
        <4>1. t[i] = new[i - S] /\ i - S \in 1 .. K
          BY <3>4, <1>1, <1>2, <1>6
        <4>2. t[i].id = L + (i - S)
          BY <4>1, <1>2
        <4> QED  BY <4>2, <3>2, <1>1, <1>2
      <3> QED  BY <3>3, <3>4
    <2> QED  BY <2>1, <2>2
  <1>14. Sound(t, u)
    BY <1>3, <1>10, <1>11, <1>12, <1>13 DEF Sound
  <1> QED  BY <1>4, <1>14 DEF t, u, new

LEMMA AppendedIsGood ==
    ASSUME NEW s, NEW lg \in Seq(Messages), Good(s, lg), NEW texts \in Seq(Texts)
    PROVE  LET new == Added(texts, Len(lg))
           IN Good(s \o new, lg \o new) /\ lg \o new \in Seq(Messages)
  <1> DEFINE new == Added(texts, Len(lg))
  <1>1. s \in Seq(Messages) /\ Len(s) \in Nat /\ Len(s) >= 1 /\ Len(lg) \in Nat
    BY MessageFacts DEF Good, Sound, Headed
  <1>2. new \in Seq(Messages) /\ Len(new) \in Nat
    BY <1>1, AddedFacts, MessageFacts
  <1> HIDE DEF new
  <1>3. Len(s \o new) = Len(s) + Len(new) /\ 1 \in 1 .. Len(s) + Len(new) /\ (s \o new)[1] = s[1]
    BY <1>1, <1>2, ConcatProperties
  <1>4. Headed(s \o new)
    BY <1>1, <1>2, <1>3 DEF Good, Headed
  <1> QED  BY <1>4, AppendedIsSound DEF Good, new

-----------------------------------------------------------------------------
(***************************************************************************)
(* A session                                                               *)
(***************************************************************************)

\* The guard before the model: the context fits, or nothing is left to drop.
IInv ==
    /\ pc \in {"model", "after_step", "before_step", "aborted"}
    /\ steps \in 0 .. MaxSteps
    /\ log \in Seq(Messages)
    /\ Good(messages, log)
    /\ StopsOnlyWhenNothingIsLeft

LEMMA Initially ==
    ASSUME Init PROVE IInv
  <1> DEFINE new == Added(Opening, 0)
  <1>1. Opening \in Seq(Texts) /\ Len(Opening) \in Nat /\ Len(Opening) >= 1
    BY CompactionConstants, EmptySeq, LenProperties
  <1>2. Sound(<<>>, <<>>)
    <2>1. Len(<<>>) = 0
      OBVIOUS
    <2>2. Recent(<<>>) = 0
      BY <2>1, ConstantFacts DEF Recent
    <2> QED  BY <2>1, <2>2, EmptySeq DEF Sound, EndIntact, SystemsIn, InOrder
  <1>3. <<>> \in Seq(Messages) /\ Len(<<>>) = 0
    BY EmptySeq
  <1>4. Sound(<<>> \o new, <<>> \o new)
    BY <1>1, <1>2, <1>3, AppendedIsSound
  <1>5. new \in Seq(Messages) /\ Len(new) = Len(Opening)
    <2>1. new = [i \in 1 .. Len(Opening) |-> Message(Opening[i], 0 + i)]
      BY <1>1, LenProperties DEF Added
    <2>2. new \in Seq(Messages)
      BY <1>1, AddedFacts
    <2>3. DOMAIN new = 1 .. Len(Opening)
      BY <2>1
    <2> QED  BY <2>2, <2>3, <1>1, LenProperties
  <1>6. new[1].role = "system"
    BY <1>1, LenProperties, CompactionConstants DEF Added, Message
  <1> HIDE DEF new
  <1>7. Sound(new, new)
    BY <1>4, <1>5, ConcatEmptySeq
  <1>8. Good(new, new)
    BY <1>1, <1>5, <1>6, <1>7 DEF Good, Headed, IsSystem
  <1>9. log = new /\ messages = new /\ pc = "model" /\ steps = 0
    BY DEF Init, new
  <1>10. StopsOnlyWhenNothingIsLeft
    BY <1>9 DEF StopsOnlyWhenNothingIsLeft
  <1> QED  BY <1>5, <1>8, <1>9, <1>10, CompactionConstants DEF IInv

LEMMA StepTakenStep ==
    ASSUME IInv, StepTaken PROVE IInv'
  <1>1. PICK texts \in Steps :
            /\ log' = log \o Added(texts, Len(log))
            /\ messages' = messages \o Added(texts, Len(log))
            /\ pc' = IF GoesOn(texts) THEN "after_step" ELSE "before_step"
    BY DEF StepTaken
  <1>2. texts \in Seq(Texts)
    BY CompactionConstants
  <1>3. Good(messages', log') /\ log' \in Seq(Messages)
    BY <1>1, <1>2, AppendedIsGood DEF IInv
  <1>4. steps' \in 0 .. MaxSteps
    <2>1. MaxSteps \in Nat
      BY CompactionConstants
    <2>2. steps \in 0 .. MaxSteps /\ steps < MaxSteps /\ steps' = steps + 1
      BY DEF IInv, StepTaken
    <2> QED  BY <2>1, <2>2
  <1>5. pc' = "after_step" \/ pc' = "before_step"
    BY <1>1
  <1>6. StopsOnlyWhenNothingIsLeft'
    BY <1>5 DEF StopsOnlyWhenNothingIsLeft
  <1> QED  BY <1>3, <1>4, <1>5, <1>6 DEF IInv

LEMMA AfterStepStep ==
    ASSUME IInv, AfterStep PROVE IInv'
  <1>1. PICK writable \in BOOLEAN, texts \in Notes :
            /\ log' = log \o Added(texts, Len(log))
            /\ messages' = Compacted(messages, writable) \o Added(texts, Len(log))
    BY DEF AfterStep
  <1>2. texts \in Seq(Texts)
    <2> DEFINE Warnings == [role : {"system"}, size : Nat, thought : {0}]
    <2>1. Warnings \subseteq Texts
      BY DEF Texts, Roles
    <2>2. texts \in Seq(Warnings)
      BY CompactionConstants
    <2> HIDE DEF Warnings
    <2> QED  BY <2>1, <2>2, SeqMonotonic
  <1>3. Good(Compacted(messages, writable), log)
    BY CompactedIsGood DEF IInv
  <1>4. Good(messages', log') /\ log' \in Seq(Messages)
    BY <1>1, <1>2, <1>3, AppendedIsGood DEF IInv
  <1>5. pc' = "before_step" /\ steps' = steps
    BY DEF AfterStep
  <1>6. StopsOnlyWhenNothingIsLeft'
    BY <1>5 DEF StopsOnlyWhenNothingIsLeft
  <1> QED  BY <1>4, <1>5, <1>6 DEF IInv

LEMMA BeforeStepStep ==
    ASSUME IInv, BeforeStep PROVE IInv'
  <1>1. messages' = IF Size(messages) <= MaxSize THEN messages ELSE Level3(messages)
    BY DEF BeforeStep
  <1>2. pc' = (IF Size(messages') > MaxSize THEN "aborted" ELSE "model")
        /\ steps' = steps /\ log' = log
    BY DEF BeforeStep
  <1>3. Good(messages', log)
    BY <1>1, Level3IsGood DEF IInv
  <1>4. messages' \in Seq(Messages)
    BY <1>3 DEF Good, Sound
  <1>5. Size(messages') \in Nat
    BY <1>4, SizeType
  <1>6. pc' = "aborted" =>
            \A i \in 1 .. Len(messages') :
                IsSystem(messages'[i]) \/ i > Len(messages') - EmergencyKeep
    <2>1. CASE Size(messages) <= MaxSize
      BY <2>1, <1>1, <1>2, <1>5, ConstantFacts
    <2>2. CASE ~(Size(messages) <= MaxSize)
      BY <2>2, <1>1, Level3IsGood DEF IInv
    <2> QED  BY <2>1, <2>2
  <1>7. pc' = "model" => Size(messages') <= MaxSize
    BY <1>2, <1>5, ConstantFacts
  <1>8. StopsOnlyWhenNothingIsLeft'
    BY <1>4, <1>6, <1>7, MessageFacts DEF StopsOnlyWhenNothingIsLeft
  <1> QED  BY <1>2, <1>3, <1>8 DEF IInv

LEMMA Inductive ==
    ASSUME IInv, [Next]_vars PROVE IInv'
  <1>1. CASE StepTaken
    BY <1>1, StepTakenStep
  <1>2. CASE AfterStep
    BY <1>2, AfterStepStep
  <1>3. CASE BeforeStep
    BY <1>3, BeforeStepStep
  <1>4. CASE Terminated \/ UNCHANGED vars
    <2>1. UNCHANGED vars
      BY <1>4 DEF Terminated
    <2> QED  BY <2>1 DEF IInv, vars, StopsOnlyWhenNothingIsLeft
  <1> QED  BY <1>1, <1>2, <1>3, <1>4 DEF Next

LEMMA Invariance == Spec => []IInv
  BY Initially, Inductive, PTL DEF Spec

\* Compaction never changes a user's message nor the role of any, and summarises the
\* assistant's texts only (compaction.rs, levels 0 to 3).
THEOREM CompactionTypes == Spec => []TypeOK
  <1>1. ASSUME IInv PROVE TypeOK
    BY <1>1, MessageFacts DEF IInv, Good, Sound, Fits, TypeOK
  <1> QED  BY <1>1, Invariance, PTL

\* The model always sees the end of the conversation as it was added, whatever levels fired
\* and however often (compaction.rs 667-690, 708-721).
THEOREM EndIsIntact == Spec => []RecentMessagesIntact
  <1>1. ASSUME IInv PROVE RecentMessagesIntact
    <2>1. Min({EmergencyKeep, Len(log)}) = Recent(log)
      <3>1. Len(log) \in Nat
        BY <1>1, MessageFacts DEF IInv
      <3> QED  BY <3>1, OfTwo, ConstantFacts DEF Recent
    <2> QED  BY <1>1, <2>1 DEF IInv, Good, Sound, EndIntact, AsAdded, RecentMessagesIntact
  <1> QED  BY <1>1, Invariance, PTL

\* No compaction loses a System message (compaction.rs 700-704).
THEOREM InstructionsSurvive == Spec => []SystemMessagesSurvive
  <1>1. ASSUME IInv PROVE SystemMessagesSurvive
    <2>1. messages \in Seq(Messages) /\ log \in Seq(Messages)
      BY <1>1 DEF IInv, Good, Sound
    <2> QED  BY <1>1, <2>1, MessageFacts DEF IInv, Good, Sound, SystemsIn, SystemMessagesSurvive
  <1> QED  BY <1>1, Invariance, PTL

\* No compaction repeats or reorders what the user, the assistant and the tools said
\* (compaction.rs 708-721).
THEOREM OrderIsKept == Spec => []ConversationInOrder
  <1>1. ASSUME IInv PROVE ConversationInOrder
    <2>1. messages \in Seq(Messages)
      BY <1>1 DEF IInv, Good, Sound
    <2> QED  BY <1>1, <2>1, MessageFacts DEF IInv, Good, Sound, InOrder, ConversationInOrder
  <1> QED  BY <1>1, Invariance, PTL

\* The context the model gets fits, and the run is stopped only when level 3 had nothing
\* left to drop (middleware.rs 283-312).
THEOREM StopsOnlyWhenItMust == Spec => []StopsOnlyWhenNothingIsLeft
  <1>1. ASSUME IInv PROVE StopsOnlyWhenNothingIsLeft
    BY <1>1 DEF IInv
  <1> QED  BY <1>1, Invariance, PTL
=============================================================================
