--------------------------- MODULE SequenceLemmas ---------------------------
(***************************************************************************)
(* What the proofs about trees and programs keep needing: to go from one   *)
(* number to the next without an induction rule, and what FlattenSeq makes *)
(* of sequences.                                                           *)
(***************************************************************************)
EXTENDS Integers, Sequences, SequencesExt, TLAPS, WellFoundedInduction

-----------------------------------------------------------------------------
(* Recursion over depths.                                                   *)

\* Of the depths something happens at, one is the least.
LEMMA LeastDepth ==
    ASSUME NEW S, S \subseteq Nat, S # {}
    PROVE  \E m \in S : \A k \in S : m <= k
<1>1. PICK m \in S : \A k \in S : <<k, m>> \notin OpToRel(<, Nat)
  BY NatLessThanWellFounded, WFMin
<1>2. \A k \in S : ~(k < m)
  BY <1>1 DEF OpToRel
<1> QED BY <1>2

\* What carries over from each depth to the next one holds at all.
LEMMA Upwards ==
    ASSUME NEW n \in Nat, NEW S, 0 \in S, \A k \in 0..(n - 1) : k \in S => k + 1 \in S
    PROVE  0..n \subseteq S
<1> DEFINE B == (0..n) \ S
<1> SUFFICES ASSUME B # {} PROVE FALSE
  OBVIOUS
<1>1. PICK m \in B : \A k \in B : m <= k
  <2>1. B \subseteq Nat
    OBVIOUS
  <2> QED BY <2>1, LeastDepth
<1>2. m \in 1..n /\ m - 1 \in 0..(n - 1)
  OBVIOUS
<1>3. m - 1 \in S
  BY <1>1, <1>2
<1> QED BY <1>1, <1>2, <1>3

\* And so does what carries over from each depth to the one before.
LEMMA Downwards ==
    ASSUME NEW n \in Nat, NEW S, n \in S, \A k \in 0..(n - 1) : k + 1 \in S => k \in S
    PROVE  0..n \subseteq S
<1> DEFINE T == {k \in 0..n : n - k \in S}
<1>1. 0 \in T
  OBVIOUS
<1>2. \A k \in 0..(n - 1) : k \in T => k + 1 \in T
  <2> SUFFICES ASSUME NEW k \in 0..(n - 1), k \in T PROVE k + 1 \in T
    OBVIOUS
  <2>1. n - (k + 1) \in 0..(n - 1) /\ n - (k + 1) + 1 = n - k
    OBVIOUS
  <2> QED BY <2>1
<1>3. 0..n \subseteq T
  <2> HIDE DEF T
  <2> QED BY <1>1, <1>2, Upwards
<1>4. \A k \in 0..n : n - k \in 0..n /\ n - (n - k) = k
  OBVIOUS
<1> QED BY <1>3, <1>4

-----------------------------------------------------------------------------
(* Sequences one after the other.                                           *)

\* flat holds what the sequences up to n hold, each from its own offset on.
Placed(flat, seqs, n, offset) ==
    /\ \A m \in 1..n : \A j \in 1..Len(seqs[m]) :
          offset[m] + j \in 1..Len(flat) /\ flat[offset[m] + j] = seqs[m][j]
    /\ \A k \in 1..Len(flat) : \E m \in 1..n : \E j \in 1..Len(seqs[m]) : k = offset[m] + j

FlattenFrom(f, seqs, n) == f = [i \in 1..n |-> IF i = 1 THEN seqs[i] ELSE f[i - 1] \o seqs[i]]

\* The recursion of FlattenSeq has a solution.
LEMMA FlattenExists ==
    ASSUME NEW n \in Nat \ {0}, NEW seqs
    PROVE  \E f : FlattenFrom(f, seqs, n)
<1> DEFINE K == {k \in 0..(n - 1) : \E f : FlattenFrom(f, seqs, k + 1)}
<1>1. 0 \in K
  <2> DEFINE f == [i \in 1..1 |-> seqs[1]]
  <2>1. FlattenFrom(f, seqs, 0 + 1)
    BY DEF FlattenFrom
  <2> QED BY <2>1
<1>2. \A k \in 0..((n - 1) - 1) : k \in K => k + 1 \in K
  <2> SUFFICES ASSUME NEW k \in 0..((n - 1) - 1), k \in K PROVE k + 1 \in K
    OBVIOUS
  <2>1. PICK f : FlattenFrom(f, seqs, k + 1)
    OBVIOUS
  <2> DEFINE g == [i \in 1..(k + 2) |-> IF i = k + 2 THEN f[k + 1] \o seqs[k + 2] ELSE f[i]]
  <2>2. \A i \in 1..(k + 1) : g[i] = f[i] /\ f[i] = IF i = 1 THEN seqs[i] ELSE f[i - 1] \o seqs[i]
    <3>1. \A i \in 1..(k + 1) : i \in 1..(k + 2) /\ i # k + 2
      OBVIOUS
    <3>2. \A i \in 1..(k + 1) : g[i] = f[i]
      BY <3>1
    <3> HIDE DEF g
    <3> QED BY <2>1, <3>2 DEF FlattenFrom
  <2>3. \A i \in 1..(k + 2) : g[i] = IF i = 1 THEN seqs[i] ELSE g[i - 1] \o seqs[i]
    <3> TAKE i \in 1..(k + 2)
    <3>1. CASE i = k + 2
      <4>1. g[i] = f[k + 1] \o seqs[k + 2]
        BY <3>1
      <4>2. i # 1 /\ i - 1 = k + 1 /\ k + 1 \in 1..(k + 1)
        BY <3>1
      <4> HIDE DEF g
      <4> QED BY <2>2, <3>1, <4>1, <4>2
    <3>2. CASE i # k + 2
      <4>1. i \in 1..(k + 1) /\ (i # 1 => i - 1 \in 1..(k + 1))
        BY <3>2
      <4> HIDE DEF g
      <4> QED BY <2>2, <4>1
    <3> QED BY <3>1, <3>2
  <2>4. g = [i \in 1..(k + 2) |-> g[i]]
    OBVIOUS
  <2> HIDE DEF g
  <2>5. FlattenFrom(g, seqs, k + 2)
    BY <2>3, <2>4 DEF FlattenFrom
  <2>6. (k + 1) + 1 = k + 2 /\ k + 1 \in 0..(n - 1)
    OBVIOUS
  <2> QED BY <2>5, <2>6
<1>3. n - 1 \in Nat /\ n - 1 \in 0..(n - 1) /\ (n - 1) + 1 = n
  OBVIOUS
<1>4. n - 1 \in K
  <2> HIDE DEF K
  <2>1. 0..(n - 1) \subseteq K
    BY <1>1, <1>2, <1>3, Upwards
  <2> QED BY <1>3, <2>1
<1> QED BY <1>3, <1>4

\* One sequence after another.
LEMMA Joins ==
    ASSUME NEW S, NEW s \in Seq(S), NEW t \in Seq(S), NEW joined, joined = s \o t
    PROVE  /\ joined \in Seq(S) /\ Len(joined) = Len(s) + Len(t)
           /\ Len(s) \in Nat /\ Len(t) \in Nat
           /\ \A x \in 1..Len(s) : joined[x] = s[x]
           /\ \A x \in 1..Len(t) : joined[Len(s) + x] = t[x]
OBVIOUS

\* FlattenSeq puts every sequence at a place of its own and adds nothing.
LEMMA Flattens ==
    ASSUME NEW n \in Nat \ {0}, NEW S, NEW seqs \in [1..n -> Seq(S)]
    PROVE  /\ FlattenSeq(seqs) \in Seq(S)
           /\ \E offset : Placed(FlattenSeq(seqs), seqs, n, offset) /\ \A m \in 1..n : offset[m] \in Nat
<1> DEFINE f == CHOOSE g : FlattenFrom(g, seqs, n)
<1>1. FlattenFrom(f, seqs, n)
  BY FlattenExists
<1>2. FlattenSeq(seqs) = f[n]
  <2>1. Len(seqs) = n
    OBVIOUS
  <2> QED BY <2>1 DEF FlattenSeq, FlattenFrom
<1> HIDE DEF f
<1>3. \A i \in 1..n : f[i] = IF i = 1 THEN seqs[i] ELSE f[i - 1] \o seqs[i]
  BY <1>1 DEF FlattenFrom
<1> DEFINE Right(i) == /\ f[i] \in Seq(S)
                       /\ \E offset : Placed(f[i], seqs, i, offset) /\ \A m \in 1..i : offset[m] \in Nat
           K == {k \in 0..(n - 1) : Right(k + 1)}
<1>4. 0 \in K
  <2> DEFINE offset == [m \in 1..1 |-> 0]
  <2>1. f[1] = seqs[1] /\ seqs[1] \in Seq(S)
    BY <1>3
  <2>2. Placed(f[1], seqs, 1, offset) /\ \A m \in 1..1 : offset[m] \in Nat
    BY <2>1 DEF Placed
  <2>3. Right(1)
    BY <2>1, <2>2
  <2> QED BY <2>3
<1>5. \A k \in 0..((n - 1) - 1) : k \in K => k + 1 \in K
  <2> SUFFICES ASSUME NEW k \in 0..((n - 1) - 1), Right(k + 1) PROVE Right(k + 2)
    <3>1. \A k \in 0..((n - 1) - 1) : k + 1 \in 0..(n - 1) /\ (k + 1) + 1 = k + 2
      OBVIOUS
    <3> HIDE DEF Right
    <3> QED BY <3>1
  <2> DEFINE i == k + 1
             j == k + 2
  <2>1. i \in 1..n /\ j \in 1..n /\ j # 1 /\ j - 1 = i /\ 1..j = (1..i) \cup {j} /\ j \notin 1..i
    OBVIOUS
  <2>2. PICK old : Placed(f[i], seqs, i, old) /\ \A m \in 1..i : old[m] \in Nat
    OBVIOUS
  <2>3. f[i] \in Seq(S) /\ seqs[j] \in Seq(S)
    BY <2>1
  <2> HIDE DEF i, j
  <2>4. f[j] = f[i] \o seqs[j]
    BY <1>3, <2>1
  <2>5. /\ f[j] \in Seq(S) /\ Len(f[j]) = Len(f[i]) + Len(seqs[j])
        /\ Len(f[i]) \in Nat /\ Len(seqs[j]) \in Nat
        /\ \A x \in 1..Len(f[i]) : f[j][x] = f[i][x]
        /\ \A x \in 1..Len(seqs[j]) : f[j][Len(f[i]) + x] = seqs[j][x]
    <3> DEFINE s == f[i]
               t == seqs[j]
               joined == f[j]
    <3>1. s \in Seq(S) /\ t \in Seq(S) /\ joined = s \o t
      BY <2>3, <2>4
    <3> HIDE DEF s, t, joined
    <3>2. /\ joined \in Seq(S) /\ Len(joined) = Len(s) + Len(t)
          /\ Len(s) \in Nat /\ Len(t) \in Nat
          /\ \A x \in 1..Len(s) : joined[x] = s[x]
          /\ \A x \in 1..Len(t) : joined[Len(s) + x] = t[x]
      BY <3>1, Joins
    <3> QED BY <3>2 DEF s, t, joined
  <2> DEFINE offset == [m \in 1..j |-> IF m = j THEN Len(f[i]) ELSE old[m]]
  <2>6. offset[j] = Len(f[i]) /\ \A m \in 1..i : offset[m] = old[m]
    BY <2>1
  <2> HIDE DEF offset
  <2>7. \A m \in 1..j : offset[m] \in Nat
    BY <2>1, <2>2, <2>5, <2>6
  <2> DEFINE a == Len(f[i])
             b == Len(seqs[j])
             c == Len(f[j])
  <2>11. a \in Nat /\ b \in Nat /\ c = a + b
    BY <2>5
  <2>8. ASSUME NEW m \in 1..j, NEW x \in 1..Len(seqs[m])
        PROVE  offset[m] + x \in 1..c /\ f[j][offset[m] + x] = seqs[m][x]
    <3>1. CASE m = j
      <4>1. offset[m] = a /\ x \in 1..b
        BY <2>6, <3>1
      <4>2. f[j][a + x] = seqs[j][x]
        BY <2>5, <4>1
      <4> HIDE DEF a, b, c
      <4>3. a + x \in 1..c
        BY <2>11, <4>1
      <4> QED BY <3>1, <4>1, <4>2, <4>3
    <3>2. CASE m \in 1..i
      <4>1. old[m] + x \in 1..a /\ f[i][old[m] + x] = seqs[m][x]
        BY <2>2, <3>2 DEF Placed
      <4>2. f[j][old[m] + x] = f[i][old[m] + x]
        BY <2>5, <4>1
      <4> HIDE DEF a, b, c
      <4>3. old[m] + x \in 1..c
        BY <2>11, <4>1
      <4> QED BY <2>6, <3>2, <4>1, <4>2, <4>3
    <3> QED BY <2>1, <3>1, <3>2
  <2>9. ASSUME NEW x \in 1..c
        PROVE  \E m \in 1..j : \E y \in 1..Len(seqs[m]) : x = offset[m] + y
    <3>1. CASE x \in 1..a
      <4>1. PICK m \in 1..i : \E y \in 1..Len(seqs[m]) : x = old[m] + y
        BY <2>2, <3>1 DEF Placed
      <4> QED BY <2>1, <2>6, <4>1
    <3>2. CASE x \notin 1..a
      <4> HIDE DEF a, b, c
      <4>1. x - a \in 1..b /\ x = a + (x - a)
        BY <2>11, <3>2
      <4>2. x - a \in 1..Len(seqs[j]) /\ offset[j] = a /\ j \in 1..j
        BY <2>1, <2>6, <4>1 DEF a, b
      <4> QED BY <4>1, <4>2
    <3> QED BY <3>1, <3>2
  <2>10. Placed(f[j], seqs, j, offset)
    BY <2>8, <2>9 DEF Placed
  <2> QED BY <2>5, <2>7, <2>10 DEF j
<1>6. Right(n)
  <2>1. n - 1 \in Nat /\ n - 1 \in 0..(n - 1) /\ (n - 1) + 1 = n
    OBVIOUS
  <2>2. 0..(n - 1) \subseteq K
    <3> HIDE DEF K
    <3> QED BY <1>4, <1>5, <2>1, Upwards
  <2>3. Right((n - 1) + 1)
    <3> HIDE DEF Right
    <3> QED BY <2>1, <2>2
  <2> HIDE DEF Right
  <2> QED BY <2>1, <2>3
<1> QED BY <1>2, <1>6


\* The same, by the places of elements.
Spread(flat, seqs, n, offset) ==
    /\ \A m \in 1..n : offset[m] \in Nat
    /\ \A m \in 1..n : \A j \in DOMAIN seqs[m] :
          offset[m] + j \in DOMAIN flat /\ flat[offset[m] + j] = seqs[m][j]
    /\ \A k \in DOMAIN flat : \E m \in 1..n : \E j \in DOMAIN seqs[m] :
          k = offset[m] + j /\ flat[k] = seqs[m][j]

\* Each element of the sequences has its place in the whole, and the whole no others.
LEMMA FlatPlaces ==
    ASSUME NEW n \in Nat \ {0}, NEW S, NEW seqs \in [1..n -> Seq(S)],
           NEW flat, flat = FlattenSeq(seqs)
    PROVE  /\ flat \in Seq(S)
           /\ \A m \in 1..n : DOMAIN seqs[m] \subseteq Nat
           /\ \A x : x \in ToSet(flat) <=> \E m \in 1..n : x \in ToSet(seqs[m])
           /\ \E offset : Spread(flat, seqs, n, offset)
<1>1. PICK offset : Placed(flat, seqs, n, offset) /\ \A m \in 1..n : offset[m] \in Nat
  BY Flattens
<1>2. flat \in Seq(S) /\ DOMAIN flat = 1..Len(flat)
  BY Flattens
<1>3. \A m \in 1..n : DOMAIN seqs[m] = 1..Len(seqs[m]) /\ Len(seqs[m]) \in Nat
  <2> TAKE m \in 1..n
  <2>1. seqs[m] \in Seq(S)
    OBVIOUS
  <2> QED BY <2>1
<1>4. \A m \in 1..n : \A j \in DOMAIN seqs[m] :
          offset[m] + j \in DOMAIN flat /\ flat[offset[m] + j] = seqs[m][j]
  BY <1>1, <1>2, <1>3 DEF Placed
<1>5. \A k \in DOMAIN flat : \E m \in 1..n : \E j \in DOMAIN seqs[m] :
          k = offset[m] + j /\ flat[k] = seqs[m][j]
  <2> TAKE k \in DOMAIN flat
  <2>1. PICK m \in 1..n : \E j \in DOMAIN seqs[m] : k = offset[m] + j
    BY <1>1, <1>2, <1>3 DEF Placed
  <2> QED BY <1>4, <2>1
<1>6. \A x : x \in ToSet(flat) <=> \E m \in 1..n : x \in ToSet(seqs[m])
  <2>1. ASSUME NEW x \in ToSet(flat) PROVE \E m \in 1..n : x \in ToSet(seqs[m])
    <3>1. PICK k \in DOMAIN flat : x = flat[k]
      BY DEF ToSet
    <3>2. PICK m \in 1..n : \E j \in DOMAIN seqs[m] : flat[k] = seqs[m][j]
      BY <1>5
    <3> QED BY <3>1, <3>2 DEF ToSet
  <2>2. ASSUME NEW m \in 1..n, NEW x \in ToSet(seqs[m]) PROVE x \in ToSet(flat)
    <3>1. PICK j \in DOMAIN seqs[m] : x = seqs[m][j]
      BY DEF ToSet
    <3> QED BY <1>4, <3>1 DEF ToSet
  <2> QED BY <2>1, <2>2
<1>7. Spread(flat, seqs, n, offset)
  BY <1>1, <1>4, <1>5 DEF Spread
<1> QED BY <1>2, <1>3, <1>6, <1>7

\* No element twice.
Once(s) == \A i, k \in DOMAIN s : s[i] = s[k] => i = k

\* Sequences without repetitions that share nothing make one without repetitions.
LEMMA FlatOnce ==
    ASSUME NEW n \in Nat \ {0}, NEW S, NEW seqs \in [1..n -> Seq(S)],
           NEW flat, flat = FlattenSeq(seqs),
           \A m \in 1..n : Once(seqs[m]),
           \A m, k \in 1..n : \A x \in ToSet(seqs[m]) : x \in ToSet(seqs[k]) => m = k
    PROVE  Once(flat)
<1> SUFFICES ASSUME NEW i \in DOMAIN flat, NEW j \in DOMAIN flat, flat[i] = flat[j]
             PROVE  i = j
  BY DEF Once
<1>0. PICK offset : Spread(flat, seqs, n, offset)
  BY FlatPlaces
<1>1. \A k \in DOMAIN flat : \E m \in 1..n : \E x \in DOMAIN seqs[m] :
          k = offset[m] + x /\ flat[k] = seqs[m][x]
  BY <1>0 DEF Spread
<1>2. PICK m \in 1..n : \E x \in DOMAIN seqs[m] : i = offset[m] + x /\ flat[i] = seqs[m][x]
  BY <1>1
<1>3. PICK x \in DOMAIN seqs[m] : i = offset[m] + x /\ flat[i] = seqs[m][x]
  BY <1>2
<1>4. PICK k \in 1..n : \E y \in DOMAIN seqs[k] : j = offset[k] + y /\ flat[j] = seqs[k][y]
  BY <1>1
<1>5. PICK y \in DOMAIN seqs[k] : j = offset[k] + y /\ flat[j] = seqs[k][y]
  BY <1>4
<1>6. m = k
  <2>1. flat[i] \in ToSet(seqs[m]) /\ flat[i] \in ToSet(seqs[k])
    BY <1>3, <1>5 DEF ToSet
  <2> QED BY <2>1
<1>7. x = y
  BY <1>3, <1>5, <1>6 DEF Once
<1> QED BY <1>3, <1>5, <1>6, <1>7

\* What two sequences make together.
LEMMA JoinOnce ==
    ASSUME NEW S, NEW s \in Seq(S), NEW t \in Seq(S)
    PROVE  /\ s \o t \in Seq(S) /\ Len(s \o t) = Len(s) + Len(t)
           /\ ToSet(s \o t) = ToSet(s) \cup ToSet(t)
           /\ Once(s) /\ Once(t) /\ ToSet(s) \cap ToSet(t) = {} => Once(s \o t)
<1> DEFINE joined == s \o t
<1>0. joined = s \o t
  OBVIOUS
<1> HIDE DEF joined
<1>1. /\ joined \in Seq(S) /\ Len(joined) = Len(s) + Len(t)
      /\ Len(s) \in Nat /\ Len(t) \in Nat
      /\ \A x \in 1..Len(s) : joined[x] = s[x]
      /\ \A x \in 1..Len(t) : joined[Len(s) + x] = t[x]
  BY <1>0, Joins
<1>2. DOMAIN s = 1..Len(s) /\ DOMAIN t = 1..Len(t) /\ DOMAIN joined = 1..Len(joined)
  BY <1>1
<1> DEFINE a == Len(s)
           b == Len(t)
<1>3. a \in Nat /\ b \in Nat /\ DOMAIN s = 1..a /\ DOMAIN t = 1..b /\ DOMAIN joined = 1..(a + b)
      /\ (\A x \in 1..a : joined[x] = s[x]) /\ \A x \in 1..b : joined[a + x] = t[x]
  BY <1>1, <1>2
<1> HIDE DEF a, b
<1>4. \A i \in DOMAIN joined :
          \/ i \in DOMAIN s /\ joined[i] = s[i]
          \/ i - a \in DOMAIN t /\ i = a + (i - a) /\ joined[i] = t[i - a]
  BY <1>3
<1>5. /\ \A i \in DOMAIN s : i \in DOMAIN joined
      /\ \A i \in DOMAIN t : a + i \in DOMAIN joined
  BY <1>3
<1>6. ToSet(joined) = ToSet(s) \cup ToSet(t)
  <2>1. \A x \in ToSet(joined) : x \in ToSet(s) \cup ToSet(t)
    BY <1>4 DEF ToSet
  <2>2. \A x \in ToSet(s) : x \in ToSet(joined)
    BY <1>3, <1>5 DEF ToSet
  <2>3. \A x \in ToSet(t) : x \in ToSet(joined)
    BY <1>3, <1>5 DEF ToSet
  <2> QED BY <2>1, <2>2, <2>3
<1>7. ASSUME Once(s), Once(t), ToSet(s) \cap ToSet(t) = {},
             NEW i \in DOMAIN joined, NEW k \in DOMAIN joined, joined[i] = joined[k]
      PROVE  i = k
  <2>1. CASE i \in DOMAIN s /\ joined[i] = s[i]
    <3>1. k \in DOMAIN s /\ joined[k] = s[k]
      <4>1. s[i] \in ToSet(s)
        BY <2>1 DEF ToSet
      <4>2. ~(k - a \in DOMAIN t /\ joined[k] = t[k - a])
        <5> SUFFICES ASSUME k - a \in DOMAIN t, joined[k] = t[k - a] PROVE FALSE
          OBVIOUS
        <5>1. t[k - a] \in ToSet(t)
          BY DEF ToSet
        <5> QED BY <1>7, <2>1, <4>1, <5>1
      <4> QED BY <1>4, <4>2
    <3> QED BY <1>7, <2>1, <3>1 DEF Once
  <2>2. CASE i - a \in DOMAIN t /\ i = a + (i - a) /\ joined[i] = t[i - a]
    <3>1. k - a \in DOMAIN t /\ k = a + (k - a) /\ joined[k] = t[k - a]
      <4>1. t[i - a] \in ToSet(t)
        BY <2>2 DEF ToSet
      <4>2. ~(k \in DOMAIN s /\ joined[k] = s[k])
        <5> SUFFICES ASSUME k \in DOMAIN s, joined[k] = s[k] PROVE FALSE
          OBVIOUS
        <5>1. s[k] \in ToSet(s)
          BY DEF ToSet
        <5> QED BY <1>7, <2>2, <4>1, <5>1
      <4> QED BY <1>4, <4>2
    <3>2. i - a = k - a
      BY <1>7, <2>2, <3>1 DEF Once
    <3> QED BY <2>2, <3>1, <3>2
  <2> QED BY <1>4, <2>1, <2>2
<1>8. Once(s) /\ Once(t) /\ ToSet(s) \cap ToSet(t) = {} => Once(joined)
  BY <1>7 DEF Once
<1> QED BY <1>1, <1>6, <1>8 DEF joined

Disjoint(s, t) == ToSet(s) \cap ToSet(t) = {}

\* What two sequences without repetitions make together, and how it begins.
LEMMA JoinDisjoint ==
    ASSUME NEW S, NEW s, NEW t, s \in Seq(S), t \in Seq(S), Once(s), Once(t), Disjoint(s, t)
    PROVE  /\ s \o t \in Seq(S) /\ Once(s \o t)
           /\ ToSet(s \o t) = ToSet(s) \cup ToSet(t)
           /\ Len(s) \in Nat \ {0} => Len(s \o t) \in Nat \ {0} /\ (s \o t)[1] = s[1]
<1>1. ToSet(s) \cap ToSet(t) = {}
  BY DEF Disjoint
<1>2. /\ s \o t \in Seq(S) /\ Once(s \o t)
      /\ ToSet(s \o t) = ToSet(s) \cup ToSet(t)
  BY <1>1, JoinOnce
<1> DEFINE joined == s \o t
<1>3. joined = s \o t
  OBVIOUS
<1> HIDE DEF joined
<1>4. /\ Len(joined) = Len(s) + Len(t) /\ Len(t) \in Nat
      /\ \A x \in 1..Len(s) : joined[x] = s[x]
  BY <1>3, Joins
<1>5. Len(s) \in Nat \ {0} => Len(joined) \in Nat \ {0} /\ joined[1] = s[1]
  BY <1>4
<1> QED BY <1>2, <1>5 DEF joined

\* The rest of a sequence without repetitions lacks its first element.
LEMMA TailOnce ==
    ASSUME NEW S, NEW s \in Seq(S), s # <<>>
    PROVE  /\ Tail(s) \in Seq(S) /\ Head(s) \in S /\ Head(s) = s[1] /\ Len(s) \in Nat \ {0}
           /\ ToSet(s) = {Head(s)} \cup ToSet(Tail(s))
           /\ Once(s) => Once(Tail(s)) /\ Head(s) \notin ToSet(Tail(s))
<1> DEFINE n == Len(s)
           t == Tail(s)
<1>1. /\ t \in Seq(S) /\ Head(s) \in S /\ Head(s) = s[1] /\ n \in Nat \ {0}
      /\ Len(t) = n - 1 /\ \A i \in 1..(n - 1) : t[i] = s[i + 1]
  OBVIOUS
<1>2. DOMAIN s = 1..n /\ DOMAIN t = 1..(n - 1)
  BY <1>1
<1> HIDE DEF n, t
<1>3. \A i \in DOMAIN s : i = 1 \/ (i - 1 \in DOMAIN t /\ s[i] = t[i - 1])
  BY <1>1, <1>2
<1>4. 1 \in DOMAIN s /\ \A i \in DOMAIN t : i \in Nat /\ i + 1 \in DOMAIN s /\ i + 1 # 1 /\ t[i] = s[i + 1]
  BY <1>1, <1>2
<1>5. ToSet(s) = {Head(s)} \cup ToSet(t)
  <2>1. \A x \in ToSet(s) : x = Head(s) \/ x \in ToSet(t)
    BY <1>1, <1>3 DEF ToSet
  <2>2. Head(s) \in ToSet(s)
    BY <1>1, <1>4 DEF ToSet
  <2>3. \A x \in ToSet(t) : x \in ToSet(s)
    BY <1>4 DEF ToSet
  <2> QED BY <2>1, <2>2, <2>3
<1>6. ASSUME Once(s) PROVE Once(t) /\ Head(s) \notin ToSet(t)
  <2>1. ASSUME NEW i \in DOMAIN t, NEW k \in DOMAIN t, t[i] = t[k] PROVE i = k
    <3>1. i + 1 = k + 1
      BY <1>4, <1>6, <2>1 DEF Once
    <3> QED BY <1>4, <3>1
  <2>2. ASSUME NEW i \in DOMAIN t, t[i] = Head(s) PROVE FALSE
    <3>1. i + 1 = 1
      BY <1>1, <1>4, <1>6, <2>2 DEF Once
    <3> QED BY <1>4, <3>1
  <2> QED BY <2>1, <2>2 DEF Once, ToSet
<1> QED BY <1>1, <1>5, <1>6 DEF n, t

\* What is left of a program after its first n calls.
LEMMA RestOf ==
    ASSUME NEW S, NEW s \in Seq(S), NEW n \in 0..Len(s)
    PROVE  LET rest == SubSeq(s, n + 1, Len(s)) IN
           /\ rest \in Seq(S)
           /\ rest = <<>> <=> n = Len(s)
           /\ n < Len(s) => /\ rest # <<>> /\ Head(rest) = s[n + 1]
                            /\ Tail(rest) = SubSeq(s, n + 2, Len(s))
           /\ ToSet(rest) = {s[i] : i \in (n + 1)..Len(s)}
<1> DEFINE c == Len(s)
           rest == SubSeq(s, n + 1, c)
<1>1. c \in Nat /\ n \in 0..c
  OBVIOUS
<1>2. /\ rest \in Seq(S) /\ Len(rest) = c - n /\ \A i \in 1..(c - n) : rest[i] = s[n + i]
  OBVIOUS
<1>3. DOMAIN rest = 1..(c - n)
  BY <1>2
<1>4. rest = <<>> <=> n = c
  <2> HIDE DEF rest
  <2>1. rest = <<>> => Len(rest) = 0
    OBVIOUS
  <2>2. Len(rest) = 0 => rest = <<>>
    BY <1>2
  <2> HIDE DEF c
  <2> QED BY <1>1, <1>2, <2>1, <2>2
<1>5. ASSUME n < c PROVE rest # <<>> /\ Head(rest) = s[n + 1] /\ Tail(rest) = SubSeq(s, n + 2, c)
  <2> DEFINE u == SubSeq(s, n + 2, c)
  <2>1. u \in Seq(S) /\ Len(u) = c - n - 1 /\ \A i \in 1..(c - n - 1) : u[i] = s[n + 1 + i]
    BY <1>1, <1>5
  <2>2. rest # <<>> /\ Head(rest) = s[n + 1]
    <3>1. rest # <<>>
      BY <1>1, <1>4, <1>5
    <3> HIDE DEF rest
    <3>2. Head(rest) = rest[1]
      BY <1>2, <3>1
    <3> HIDE DEF c
    <3>3. rest[1] = s[n + 1]
      BY <1>1, <1>2, <1>5
    <3> QED BY <3>1, <3>2, <3>3
  <2> DEFINE t == Tail(rest)
  <2> HIDE DEF u, rest
  <2>3. t \in Seq(S) /\ Len(t) = c - n - 1 /\ \A i \in 1..(c - n - 1) : t[i] = rest[i + 1]
    BY <1>1, <1>2, <1>5, <2>2
  <2>4. \A i \in 1..(c - n - 1) : t[i] = u[i]
    <3> TAKE i \in 1..(c - n - 1)
    <3>1. i + 1 \in 1..(c - n) /\ n + (i + 1) = n + 1 + i
      BY <1>1
    <3> QED BY <1>2, <2>1, <2>3, <3>1
  <2> HIDE DEF t, c
  <2>5. t = u
    BY <2>1, <2>3, <2>4
  <2> QED BY <2>2, <2>5 DEF t, u
<1>6. ToSet(rest) = {s[i] : i \in (n + 1)..c}
  <2>1. \A i \in 1..(c - n) : n + i \in (n + 1)..c
    BY <1>1
  <2>2. \A i \in (n + 1)..c : i - n \in 1..(c - n) /\ n + (i - n) = i
    BY <1>1
  <2> HIDE DEF rest, c
  <2>3. \A x \in ToSet(rest) : x \in {s[i] : i \in (n + 1)..c}
    BY <1>2, <1>3, <2>1 DEF ToSet
  <2>4. \A i \in (n + 1)..c : s[i] \in ToSet(rest)
    <3> TAKE i \in (n + 1)..c
    <3>1. rest[i - n] = s[i]
      BY <1>2, <2>2
    <3> QED BY <1>3, <2>2, <3>1 DEF ToSet
  <2> QED BY <2>3, <2>4
<1> QED BY <1>2, <1>4, <1>5, <1>6

\* w is the part of s behind its first a elements that ends with the b-th.
IsWindow(w, s, a, b) ==
    /\ a \in Nat /\ b \in Nat /\ a <= b
    /\ Len(w) = b - a /\ \A x \in 1..(b - a) : w[x] = s[a + x]

\* A sequence of one window after another is a window (snapshots of the children of a node).
LEMMA WindowsJoin ==
    ASSUME NEW S, NEW v \in Seq(S), NEW w \in Seq(S), NEW s, NEW a, NEW b, NEW c,
           IsWindow(v, s, a, b), IsWindow(w, s, b, c), NEW joined, joined = v \o w
    PROVE  joined \in Seq(S) /\ IsWindow(joined, s, a, c)
<1>1. /\ joined \in Seq(S) /\ Len(joined) = Len(v) + Len(w)
      /\ \A x \in 1..Len(v) : joined[x] = v[x]
      /\ \A x \in 1..Len(w) : joined[Len(v) + x] = w[x]
  BY Joins
<1>2. /\ a \in Nat /\ b \in Nat /\ c \in Nat /\ a <= b /\ b <= c
      /\ Len(v) = b - a /\ Len(w) = c - b
      /\ \A x \in 1..(b - a) : v[x] = s[a + x]
      /\ \A x \in 1..(c - b) : w[x] = s[b + x]
  BY DEF IsWindow
<1>3. Len(joined) = c - a /\ a <= c
  BY <1>1, <1>2
<1>4. ASSUME NEW x \in 1..(c - a) PROVE joined[x] = s[a + x]
  <2>1. CASE x <= b - a
    <3>1. x \in 1..(b - a)
      BY <1>2, <2>1
    <3> QED BY <1>1, <1>2, <3>1
  <2>2. CASE x > b - a
    <3> DEFINE y == x - (b - a)
    <3>1. y \in 1..(c - b) /\ x = (b - a) + y /\ b + y = a + x
      BY <1>2, <2>2
    <3> HIDE DEF y
    <3>2. joined[Len(v) + y] = w[y] /\ w[y] = s[b + y]
      BY <1>1, <1>2, <3>1
    <3> QED BY <1>2, <3>1, <3>2
  <2> QED BY <1>2, <2>1, <2>2
<1> QED BY <1>1, <1>2, <1>3, <1>4 DEF IsWindow

\* FlattenSeq of windows that follow one another.
LEMMA FlatWindows ==
    ASSUME NEW n \in Nat \ {0}, NEW S, NEW seqs \in [1..n -> Seq(S)], NEW s, NEW at,
           \A m \in 1..n : IsWindow(seqs[m], s, at[m - 1], at[m])
    PROVE  FlattenSeq(seqs) \in Seq(S) /\ IsWindow(FlattenSeq(seqs), s, at[0], at[n])
<1> DEFINE f == CHOOSE g : FlattenFrom(g, seqs, n)
<1>1. FlattenFrom(f, seqs, n)
  BY FlattenExists
<1>2. FlattenSeq(seqs) = f[n]
  <2>1. Len(seqs) = n
    OBVIOUS
  <2> QED BY <2>1 DEF FlattenSeq, FlattenFrom
<1> HIDE DEF f
<1>3. \A i \in 1..n : f[i] = IF i = 1 THEN seqs[i] ELSE f[i - 1] \o seqs[i]
  BY <1>1 DEF FlattenFrom
<1> DEFINE Right(i) == f[i] \in Seq(S) /\ IsWindow(f[i], s, at[0], at[i])
           K == {k \in 0..(n - 1) : Right(k + 1)}
<1>4. 0 \in K
  <2>1. f[1] = seqs[1] /\ seqs[1] \in Seq(S) /\ 1 - 1 = 0 /\ 1 \in 1..n
    BY <1>3
  <2>2. Right(1)
    BY <2>1
  <2> QED BY <2>2
<1>5. \A k \in 0..((n - 1) - 1) : k \in K => k + 1 \in K
  <2> SUFFICES ASSUME NEW k \in 0..((n - 1) - 1), Right(k + 1) PROVE Right(k + 2)
    <3>1. \A k \in 0..((n - 1) - 1) : k + 1 \in 0..(n - 1) /\ (k + 1) + 1 = k + 2
      OBVIOUS
    <3> HIDE DEF Right
    <3> QED BY <3>1
  <2> DEFINE i == k + 1
             j == k + 2
  <2>1. i \in 1..n /\ j \in 1..n /\ j # 1 /\ j - 1 = i
    OBVIOUS
  <2>2. Right(i)
    OBVIOUS
  <2> HIDE DEF i, j
  <2>3. f[j] = f[i] \o seqs[j] /\ seqs[j] \in Seq(S)
    BY <1>3, <2>1
  <2>4. IsWindow(seqs[j], s, at[i], at[j])
    BY <2>1
  <2>5. f[j] \in Seq(S) /\ IsWindow(f[j], s, at[0], at[j])
    BY <2>2, <2>3, <2>4, WindowsJoin
  <2> QED BY <2>5 DEF j
<1>6. Right(n)
  <2>1. n - 1 \in Nat /\ n - 1 \in 0..(n - 1) /\ (n - 1) + 1 = n
    OBVIOUS
  <2>2. 0..(n - 1) \subseteq K
    <3> HIDE DEF K
    <3> QED BY <1>4, <1>5, <2>1, Upwards
  <2>3. Right((n - 1) + 1)
    <3> HIDE DEF Right
    <3> QED BY <2>1, <2>2
  <2> HIDE DEF Right
  <2> QED BY <2>1, <2>3
<1> QED BY <1>2, <1>6

\* The window of everything is everything.
LEMMA WholeWindow ==
    ASSUME NEW S, NEW s \in Seq(S), NEW w \in Seq(S), IsWindow(w, s, 0, Len(s))
    PROVE  w = s
BY DEF IsWindow

\* Each sequence is found in the whole behind those before it.
Joined(flat, seqs, at, n) ==
    /\ Len(flat) = at[n]
    /\ \A m \in 1..n : \A x \in 1..Len(seqs[m]) : flat[at[m - 1] + x] = seqs[m][x]

\* FlattenSeq of sequences of known lengths.
LEMMA FlatLengths ==
    ASSUME NEW n \in Nat, NEW S, NEW seqs \in [1..n -> Seq(S)], NEW at,
           \A m \in 0..n : at[m] \in Nat,
           at[0] = 0, \A m \in 1..n : at[m] = at[m - 1] + Len(seqs[m])
    PROVE  FlattenSeq(seqs) \in Seq(S) /\ Joined(FlattenSeq(seqs), seqs, at, n)
<1>1. CASE n = 0
  <2>1. seqs = <<>>
    BY <1>1
  <2>2. FlattenSeq(seqs) = <<>>
    BY <2>1 DEF FlattenSeq
  <2>3. <<>> \in Seq(S) /\ Len(<<>>) = 0
    OBVIOUS
  <2> QED BY <1>1, <2>2, <2>3 DEF Joined
<1>2. CASE n # 0
  <2>0. n \in Nat \ {0}
    BY <1>2
  <2> DEFINE f == CHOOSE g : FlattenFrom(g, seqs, n)
  <2>1. FlattenFrom(f, seqs, n)
    BY <2>0, FlattenExists
  <2>2. FlattenSeq(seqs) = f[n]
    <3>1. Len(seqs) = n
      OBVIOUS
    <3> QED BY <2>0, <3>1 DEF FlattenSeq, FlattenFrom
  <2> HIDE DEF f
  <2>3. \A i \in 1..n : f[i] = IF i = 1 THEN seqs[i] ELSE f[i - 1] \o seqs[i]
    BY <2>1 DEF FlattenFrom
  <2> DEFINE Right(i) == /\ f[i] \in Seq(S) /\ Joined(f[i], seqs, at, i)
                         /\ \A m \in 0..i : at[m] <= at[i]
             K == {k \in 0..(n - 1) : Right(k + 1)}
  <2>4. 0 \in K
    <3>1. f[1] = seqs[1] /\ seqs[1] \in Seq(S) /\ 1 - 1 = 0 /\ 1 \in 1..n /\ 1 \in 0..n
      BY <2>0, <2>3
    <3>2. at[1] = Len(seqs[1]) /\ at[1] \in Nat
      <4>1. at[1] = at[0] + Len(seqs[1]) /\ Len(seqs[1]) \in Nat
        BY <3>1
      <4> QED BY <4>1
    <3>3. Joined(f[1], seqs, at, 1)
      <4>1. \A m \in 1..1 : m = 1
        OBVIOUS
      <4>2. \A x \in 1..Len(seqs[1]) : at[0] + x = x
        OBVIOUS
      <4>3. \A x \in 1..Len(seqs[1]) : f[1][at[1 - 1] + x] = seqs[1][x]
        BY <3>1, <4>2
      <4> QED BY <3>1, <3>2, <4>1, <4>3 DEF Joined
    <3>4. \A m \in 0..1 : at[m] <= at[1]
      <4>1. \A m \in 0..1 : m = 0 \/ m = 1
        OBVIOUS
      <4> QED BY <3>2, <4>1
    <3>5. Right(1)
      BY <3>1, <3>3, <3>4
    <3> HIDE DEF Right
    <3>6. 0 \in 0..(n - 1) /\ 0 + 1 = 1
      BY <2>0
    <3> QED BY <3>5, <3>6
  <2>5. \A k \in 0..((n - 1) - 1) : k \in K => k + 1 \in K
    <3> SUFFICES ASSUME NEW k \in 0..((n - 1) - 1), Right(k + 1) PROVE Right(k + 2)
      <4>1. \A k \in 0..((n - 1) - 1) : k + 1 \in 0..(n - 1) /\ (k + 1) + 1 = k + 2
        OBVIOUS
      <4> HIDE DEF Right
      <4> QED BY <4>1
    <3> DEFINE i == k + 1
               j == k + 2
    <3>1. i \in 1..n /\ j \in 1..n /\ j # 1 /\ j - 1 = i /\ j = i + 1 /\ i \in Nat
      OBVIOUS
    <3>2. Right(i)
      OBVIOUS
    <3> HIDE DEF i, j
    <3> DEFINE v == f[i]
               w == seqs[j]
    <3>3. f[j] = v \o w /\ v \in Seq(S) /\ w \in Seq(S)
      BY <2>3, <3>1, <3>2
    <3> HIDE DEF v, w
    <3>4. /\ f[j] \in Seq(S) /\ Len(f[j]) = Len(v) + Len(w)
          /\ Len(v) \in Nat /\ Len(w) \in Nat
          /\ \A x \in 1..Len(v) : f[j][x] = v[x]
          /\ \A x \in 1..Len(w) : f[j][Len(v) + x] = w[x]
      BY <3>3, Joins
    <3>5. at[j] = at[i] + Len(w) /\ Len(v) = at[i]
      BY <3>1, <3>2 DEF Joined, v, w
    <3>6. \A m \in 0..j : at[m] \in Nat
      BY <3>1
    <3>7. \A m \in 0..j : at[m] <= at[j]
      <4> TAKE m \in 0..j
      <4>1. m \in 0..i \/ m = j
        BY <3>1
      <4>2. at[i] <= at[j] /\ at[i] \in Nat /\ at[j] \in Nat /\ at[m] \in Nat
        <5>1. i \in 0..j /\ j \in 0..j
          BY <3>1
        <5>2. at[i] \in Nat /\ at[j] \in Nat /\ at[m] \in Nat
          BY <3>6, <5>1
        <5> QED BY <3>4, <3>5, <5>2
      <4>3. m \in 0..i => at[m] <= at[i]
        BY <3>2
      <4> QED BY <4>1, <4>2, <4>3
    <3>8. ASSUME NEW m \in 1..j, NEW x \in 1..Len(seqs[m])
          PROVE  f[j][at[m - 1] + x] = seqs[m][x]
      <4>1. CASE m = j
        BY <3>1, <3>4, <3>5, <4>1 DEF w
      <4>2. CASE m # j
        <5>1. m \in 1..i /\ m \in 0..i /\ m \in 1..n /\ m - 1 \in 0..j
          BY <3>1, <4>2
        <5>2. f[i][at[m - 1] + x] = seqs[m][x]
          BY <3>2, <5>1 DEF Joined
        <5>3. at[m] = at[m - 1] + Len(seqs[m]) /\ at[m] <= at[i] /\ Len(seqs[m]) \in Nat
          BY <3>2, <5>1
        <5>4. at[m - 1] \in Nat /\ at[i] \in Nat
          BY <3>1, <3>6, <5>1
        <5> DEFINE a == at[m - 1]
                   c == Len(seqs[m])
        <5>5. a \in Nat /\ c \in Nat /\ x \in 1..c /\ a + c <= at[i] /\ at[i] \in Nat /\ Len(v) = at[i]
          BY <3>5, <5>3, <5>4
        <5> HIDE DEF a, c
        <5>6. a + x \in 1..Len(v)
          BY <5>5
        <5> QED BY <3>4, <5>2, <5>6 DEF v, a
      <4> QED BY <4>1, <4>2
    <3>9. Joined(f[j], seqs, at, j)
      BY <3>4, <3>5, <3>8 DEF Joined
    <3>10. Right(j)
      BY <3>4, <3>7, <3>9
    <3> QED BY <3>10 DEF j
  <2>6. Right(n)
    <3>1. n - 1 \in Nat /\ n - 1 \in 0..(n - 1) /\ (n - 1) + 1 = n
      BY <2>0
    <3>2. 0..(n - 1) \subseteq K
      <4> HIDE DEF K
      <4> QED BY <2>4, <2>5, <3>1, Upwards
    <3>3. Right((n - 1) + 1)
      <4> HIDE DEF Right
      <4> QED BY <3>1, <3>2
    <3> HIDE DEF Right
    <3> QED BY <3>1, <3>3
  <2> QED BY <2>2, <2>6
<1> QED BY <1>1, <1>2
=============================================================================
