----------------------------- MODULE TotalsProofs -----------------------------
(***************************************************************************)
(* What Total of Totals adds up to, for any sequence of integers.          *)
(*                                                                         *)
(* The induction is over a set of natural numbers, which the well-founded  *)
(* order of the naturals gives in first-order form.  Total folds over the  *)
(* sets of indices; IndexFold shows that the fold exists, and Running that *)
(* its value is the last of the running totals, which are unique.  From    *)
(* there on a total grows with its sequence as one expects.                *)
(***************************************************************************)
EXTENDS Totals, SequenceTheorems, WellFoundedInduction, TLAPS

\* A set with 0 and with the successor of each of its numbers has them all.
LEMMA SetInduction ==
    ASSUME NEW S, 0 \in S, \A n \in Nat : n \in S => n + 1 \in S
    PROVE  \A n \in Nat : n \in S
<1> DEFINE T == Nat \ S
<1> DEFINE R == OpToRel(<, Nat)
<1> SUFFICES ASSUME T # {} PROVE FALSE
  OBVIOUS
<1>1. PICK m \in T : \A k \in T : <<k, m>> \notin R
  <2>1. IsWellFoundedOn(R, Nat) /\ T \subseteq Nat /\ T # {}
    BY NatLessThanWellFounded
  <2> HIDE DEF R, T
  <2> QED  BY <2>1, WFMin
<1>2. m - 1 \in T
  OBVIOUS
<1>3. <<m - 1, m>> \in R
  BY <1>2 DEF OpToRel
<1> QED  BY <1>1, <1>2, <1>3

-----------------------------------------------------------------------------
\* The largest of some of the indices 1 .. n.
LEMMA MaxIndex ==
    ASSUME NEW n \in Nat, NEW t \in SUBSET (1 .. n), t # {}
    PROVE  Max(t) \in t /\ \A i \in t : i <= Max(t)
<1> DEFINE S == {k \in Nat : \A u \in SUBSET (1 .. k) :
                   u # {} => \E m \in u : \A i \in u : i <= m}
<1>1. 0 \in S
  <2>1. 1 .. 0 = {}
    OBVIOUS
  <2> QED  BY <2>1
<1>2. ASSUME NEW k \in Nat, k \in S PROVE k + 1 \in S
  <2> SUFFICES ASSUME NEW u \in SUBSET (1 .. k + 1), u # {}
               PROVE  \E m \in u : \A i \in u : i <= m
    OBVIOUS
  <2>1. CASE k + 1 \in u
    BY <2>1
  <2>2. CASE k + 1 \notin u
    <3>1. u \in SUBSET (1 .. k)
      BY <2>2
    <3> QED  BY <3>1, <1>2
  <2> QED  BY <2>1, <2>2
<1>3. n \in S
  <2> HIDE DEF S
  <2> QED  BY <1>1, <1>2, SetInduction
<1>4. \E m \in t : \A i \in t : m >= i
  BY <1>3
<1> QED  BY <1>4 DEF Max

LEMMA MaxIs ==
    ASSUME NEW n \in Nat, NEW t \in SUBSET (1 .. n), NEW m \in t,
           \A i \in t : i <= m
    PROVE  Max(t) = m
<1>1. Max(t) \in t /\ \A i \in t : i <= Max(t)
  BY MaxIndex
<1>2. \A i, j \in 1 .. n : i <= j /\ j <= i => i = j
  OBVIOUS
<1>3. Max(t) \in 1 .. n /\ m \in 1 .. n
  BY <1>1
<1> QED  BY <1>1, <1>2, <1>3

\* What the fold of FoldLeft computes for the sets of the first n indices.
IsFold(fold, s, n) ==
    fold = [t \in SUBSET (1 .. n) |->
              IF t = {} THEN 0 ELSE fold[t \ {Max(t)}] + s[Max(t)]]

HasFold(s, n) == \E fold \in [SUBSET (1 .. n) -> Int] : IsFold(fold, s, n)

\* The recursive definition of the fold has a solution, in integers.
LEMMA IndexFold ==
    ASSUME NEW s \in Seq(Int)
    PROVE  HasFold(s, Len(s))
<1> DEFINE S == {n \in Nat : n <= Len(s) => HasFold(s, n)}
<1>1. 0 \in S
  <2> DEFINE zero == [t \in SUBSET (1 .. 0) |-> 0]
  <2>1. 1 .. 0 = {} /\ SUBSET {} = {{}}
    OBVIOUS
  <2>2. zero \in [SUBSET (1 .. 0) -> Int] /\ IsFold(zero, s, 0)
    BY <2>1 DEF IsFold
  <2> QED  BY <2>2 DEF HasFold
<1>2. ASSUME NEW n \in Nat, n \in S PROVE n + 1 \in S
  <2> SUFFICES ASSUME n + 1 <= Len(s)
               PROVE  HasFold(s, n + 1)
    OBVIOUS
  <2>1. PICK old \in [SUBSET (1 .. n) -> Int] : IsFold(old, s, n)
    <3>1. HasFold(s, n)
      BY <1>2
    <3> QED  BY <3>1 DEF HasFold
  <2>2. s[n + 1] \in Int
    OBVIOUS
  <2> DEFINE new == [t \in SUBSET (1 .. n + 1) |->
                       IF n + 1 \in t THEN old[t \ {n + 1}] + s[n + 1] ELSE old[t]]
  <2>3. ASSUME NEW t \in SUBSET (1 .. n + 1)
        PROVE  /\ t \ {n + 1} \in SUBSET (1 .. n)
               /\ n + 1 \notin t => t \in SUBSET (1 .. n)
    OBVIOUS
  <2>4. new \in [SUBSET (1 .. n + 1) -> Int]
    BY <2>2, <2>3
  <2>5. ASSUME NEW t \in SUBSET (1 .. n + 1)
        PROVE  new[t] = IF t = {} THEN 0 ELSE new[t \ {Max(t)}] + s[Max(t)]
    <3>1. CASE n + 1 \in t
      <4>1. Max(t) = n + 1
        <5>1. n + 1 \in Nat /\ \A i \in t : i <= n + 1
          OBVIOUS
        <5> QED  BY <3>1, <5>1, MaxIs
      <4>2. new[t \ {n + 1}] = old[t \ {n + 1}]
        OBVIOUS
      <4> QED  BY <3>1, <4>1, <4>2
    <3>2. CASE n + 1 \notin t
      <4>1. new[t] = old[t] /\ t \in SUBSET (1 .. n)
        BY <3>2
      <4>2. old[t] = IF t = {} THEN 0 ELSE old[t \ {Max(t)}] + s[Max(t)]
        BY <2>1, <4>1 DEF IsFold
      <4>3. new[t \ {Max(t)}] = old[t \ {Max(t)}]
        BY <3>2
      <4> QED  BY <4>1, <4>2, <4>3
    <3> QED  BY <3>1, <3>2
  <2>6. IsFold(new, s, n + 1)
    <3> HIDE DEF new
    <3> QED  BY <2>4, <2>5 DEF IsFold
  <2> QED  BY <2>4, <2>6 DEF HasFold
<1>3. Len(s) \in S
  <2> HIDE DEF S
  <2> QED  BY <1>1, <1>2, SetInduction, Len(s) \in Nat
<1> QED  BY <1>3

-----------------------------------------------------------------------------
\* running[i] is what the first i amounts add up to.
IsRunning(running, s) ==
    /\ running \in [0 .. Len(s) -> Int]
    /\ running[0] = 0
    /\ \A i \in 1 .. Len(s) : running[i] = running[i - 1] + s[i]

\* Total is the last of the running totals.
LEMMA TotalRuns ==
    ASSUME NEW s \in Seq(Int)
    PROVE  \E running : IsRunning(running, s) /\ Total(s) = running[Len(s)]
<1> DEFINE fold == CHOOSE f : IsFold(f, s, Len(s))
<1>1. IsFold(fold, s, Len(s))
  BY IndexFold DEF HasFold
<1>2. Total(s) = fold[1 .. Len(s)]
  <2>1. DOMAIN s = 1 .. Len(s)
    OBVIOUS
  <2> QED  BY <2>1 DEF Total, FoldLeft, MapThenFoldSet, IsFold
<1> HIDE DEF fold
<1> DEFINE running == [i \in 0 .. Len(s) |-> fold[1 .. i]]
<1>3. running[0] = 0
  BY <1>1 DEF IsFold
<1>4. ASSUME NEW i \in 1 .. Len(s) PROVE running[i] = running[i - 1] + s[i]
  <2>1. /\ 1 .. i \in SUBSET (1 .. Len(s))
        /\ (1 .. i) \ {i} = 1 .. i - 1
    OBVIOUS
  <2>2. Max(1 .. i) = i
    <3>1. i \in 1 .. i /\ \A k \in 1 .. i : k <= i
      OBVIOUS
    <3> QED  BY <2>1, <3>1, MaxIs, Len(s) \in Nat
  <2>3. fold[1 .. i] = IF 1 .. i = {} THEN 0
                         ELSE fold[(1 .. i) \ {Max(1 .. i)}] + s[Max(1 .. i)]
    BY <1>1, <2>1 DEF IsFold
  <2>4. i \in 1 .. i
    OBVIOUS
  <2>5. fold[1 .. i] = fold[1 .. i - 1] + s[i]
    <3> HIDE DEF running
    <3> QED  BY <2>1, <2>2, <2>3, <2>4
  <2>6. running[i] = fold[1 .. i] /\ running[i - 1] = fold[1 .. i - 1]
    OBVIOUS
  <2> QED  BY <2>5, <2>6
<1>5. running \in [0 .. Len(s) -> Int]
  <2> DEFINE S == {n \in Nat : n <= Len(s) => running[n] \in Int}
  <2>1. 0 \in S
    BY <1>3
  <2>2. \A n \in Nat : n \in S => n + 1 \in S
    <3> SUFFICES ASSUME NEW n \in Nat, running[n] \in Int, n + 1 <= Len(s)
                 PROVE  running[n + 1] \in Int
      OBVIOUS
    <3> HIDE DEF running
    <3>1. running[n + 1] = running[n] + s[n + 1] /\ s[n + 1] \in Int
      BY <1>4
    <3> QED  BY <3>1
  <2>3. \A n \in Nat : n \in S
    <3> HIDE DEF S
    <3> QED  BY <2>1, <2>2, SetInduction
  <2>4. \A n \in 0 .. Len(s) : running[n] \in Int
    <3> HIDE DEF running
    <3> QED  BY <2>3
  <2> QED  BY <2>4
<1> HIDE DEF running
<1>6. Total(s) = running[Len(s)]
  BY <1>2 DEF running
<1> QED  BY <1>3, <1>4, <1>5, <1>6 DEF IsRunning

\* There is one way to run up a sequence.
LEMMA RunningUnique ==
    ASSUME NEW s \in Seq(Int), NEW r, NEW q, IsRunning(r, s), IsRunning(q, s)
    PROVE  r[Len(s)] = q[Len(s)]
<1> DEFINE S == {n \in Nat : n <= Len(s) => r[n] = q[n]}
<1>1. 0 \in S
  BY DEF IsRunning
<1>2. \A n \in Nat : n \in S => n + 1 \in S
  BY DEF IsRunning
<1>3. \A n \in Nat : n \in S
  <2> HIDE DEF S
  <2> QED  BY <1>1, <1>2, SetInduction
<1> QED  BY <1>3

LEMMA TotalIs ==
    ASSUME NEW s \in Seq(Int), NEW running, IsRunning(running, s)
    PROVE  Total(s) = running[Len(s)] /\ Total(s) \in Int
<1>1. PICK r : IsRunning(r, s) /\ Total(s) = r[Len(s)]
  BY TotalRuns
<1>2. r[Len(s)] = running[Len(s)]
  BY <1>1, RunningUnique
<1>3. running[Len(s)] \in Int
  BY DEF IsRunning
<1> QED  BY <1>1, <1>2, <1>3

\* The total of no amounts, of one more amount at the end, and at the front.
LEMMA TotalOfEmpty == Total(<<>>) = 0
<1>1. PICK running : IsRunning(running, <<>>) /\ Total(<<>>) = running[0]
  BY TotalRuns, <<>> \in Seq(Int), Len(<<>>) = 0
<1> QED  BY <1>1 DEF IsRunning

LEMMA TotalIsInt ==
    ASSUME NEW s \in Seq(Int)
    PROVE  Total(s) \in Int
BY TotalRuns, TotalIs

\* One more element, put in place by place.
LEMMA AppendIs ==
    ASSUME NEW s \in Seq(Int), NEW a \in Int, NEW t,
           t \in [1 .. Len(s) + 1 -> Int],
           \A i \in 1 .. Len(s) : t[i] = s[i], t[Len(s) + 1] = a
    PROVE  t = Append(s, a)
<1>1. Len(s) \in Nat
  OBVIOUS
<1>2. /\ Append(s, a) \in Seq(Int) /\ Len(Append(s, a)) = Len(s) + 1
      /\ \A i \in 1 .. Len(s) : Append(s, a)[i] = s[i]
      /\ Append(s, a)[Len(s) + 1] = a
  OBVIOUS
<1>3. Append(s, a) \in [1 .. Len(s) + 1 -> Int]
  BY <1>2, LenProperties
<1>4. \A i \in 1 .. Len(s) + 1 : t[i] = Append(s, a)[i]
  BY <1>1, <1>2
<1> QED  BY <1>3, <1>4

LEMMA TotalAppend ==
    ASSUME NEW s \in Seq(Int), NEW a \in Int
    PROVE  Total(Append(s, a)) = Total(s) + a
<1>1. PICK r : IsRunning(r, s) /\ Total(s) = r[Len(s)]
  BY TotalRuns
<1> DEFINE n == Len(s)
<1> DEFINE q == [i \in 0 .. n + 1 |-> IF i = n + 1 THEN r[n] + a ELSE r[i]]
<1>2. /\ Append(s, a) \in Seq(Int)
      /\ Len(Append(s, a)) = n + 1
      /\ \A i \in 1 .. n : Append(s, a)[i] = s[i]
      /\ Append(s, a)[n + 1] = a
  OBVIOUS
<1>3. IsRunning(q, Append(s, a))
  <2>1. r \in [0 .. n -> Int] /\ n \in Nat
    BY <1>1 DEF IsRunning
  <2>2. q \in [0 .. n + 1 -> Int] /\ q[0] = 0
    BY <1>1, <2>1 DEF IsRunning
  <2>3. ASSUME NEW i \in 1 .. n + 1
        PROVE  q[i] = q[i - 1] + Append(s, a)[i]
    BY <1>1, <1>2, <2>1 DEF IsRunning
  <2> HIDE DEF q
  <2> QED  BY <1>2, <2>2, <2>3 DEF IsRunning
<1>4. Total(Append(s, a)) = q[n + 1]
  <2> HIDE DEF q
  <2> QED  BY <1>2, <1>3, TotalIs
<1> QED  BY <1>1, <1>4

LEMMA TotalCons ==
    ASSUME NEW s \in Seq(Int), NEW a \in Int
    PROVE  Total(<<a>> \o s) = a + Total(s)
<1>1. PICK r : IsRunning(r, s) /\ Total(s) = r[Len(s)]
  BY TotalRuns
<1> DEFINE n == Len(s)
<1> DEFINE c == <<a>> \o s
<1> DEFINE q == [i \in 0 .. n + 1 |-> IF i = 0 THEN 0 ELSE a + r[i - 1]]
<1>2. /\ c \in Seq(Int)
      /\ Len(c) = n + 1
      /\ \A i \in 1 .. n : c[i + 1] = s[i]
      /\ c[1] = a
  OBVIOUS
<1> HIDE DEF c
<1>3. IsRunning(q, c)
  <2>1. r \in [0 .. n -> Int] /\ n \in Nat /\ r[0] = 0
    BY <1>1 DEF IsRunning
  <2>2. q \in [0 .. n + 1 -> Int] /\ q[0] = 0
    BY <2>1
  <2>3. ASSUME NEW i \in 1 .. n + 1
        PROVE  q[i] = q[i - 1] + c[i]
    <3>1. CASE i = 1
      BY <1>2, <2>1, <3>1
    <3>2. CASE i # 1
      <4>1. PICK k \in 1 .. n : i = k + 1
        <5>1. i - 1 \in 1 .. n /\ i = (i - 1) + 1
          BY <3>2, <2>1
        <5> QED  BY <5>1
      <4>2. c[i] = s[k] /\ r[k] = r[k - 1] + s[k]
        BY <1>1, <1>2, <4>1 DEF IsRunning
      <4>3. q[i] = a + r[k] /\ q[i - 1] = a + r[k - 1]
        BY <4>1, <2>1
      <4>4. r[k - 1] \in Int /\ s[k] \in Int
        BY <2>1
      <4> QED  BY <4>2, <4>3, <4>4
    <3> QED  BY <3>1, <3>2
  <2> HIDE DEF q
  <2> QED  BY <1>2, <2>2, <2>3 DEF IsRunning
<1>4. Total(c) = q[n + 1]
  <2> HIDE DEF q
  <2> QED  BY <1>2, <1>3, TotalIs
<1> QED  BY <1>1, <1>4 DEF c

=============================================================================
