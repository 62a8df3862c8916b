--------------------------- MODULE Session_proofs ---------------------------
(***************************************************************************)
(* For every number of clients, every limit and every width of ids: types, *)
(* and that a handle keeps its meaning.  The inductive invariant says that *)
(* the ids issued are those up to next, and that a retained writer is      *)
(* always the one its id was issued for.  The accounting needs sums over   *)
(* finite sets, and that the arithmetic of words never wraps around within *)
(* the limits.                                                             *)
(***************************************************************************)
EXTENDS Session, TLAPS, FiniteSetTheorems, WellFoundedInduction

-----------------------------------------------------------------------------
(* Sums over finite sets.  What MapThenSumSet computes is a function that  *)
(* satisfies its recursion; that there is one, what it returns and that    *)
(* the order does not matter follow from the smallest set for which they   *)
(* fail.                                                                   *)

ChargeOf(W, id) == Charge[W[id]]
First(s) == CHOOSE id \in s : TRUE

\* g sums the charges of each subset of D, one element after the other.
IsSum(g, D, W) ==
    g = [s \in SUBSET D |->
           IF s = {} THEN 0 ELSE ChargeOf(W, First(s)) + g[s \ {First(s)}]]

TotalOf(D, W) == (CHOOSE g : IsSum(g, D, W))[D]

\* The sum in ChargeIsExact is this one (charge).
LEMMA TotalIsTheSum ==
    ASSUME NEW D, NEW W
    PROVE  MapThenSumSet(LAMBDA id : Charge[W[id]], D) = TotalOf(D, W)
BY DEF MapThenSumSet, MapThenFoldSet, TotalOf, IsSum, ChargeOf, First

\* Among subsets of a finite set one is the smallest (induction over writers).
LEMMA SmallestSet ==
    ASSUME NEW D, IsFiniteSet(D), NEW B, B \subseteq SUBSET D, B # {}
    PROVE  \E s \in B : \A t \in B : t \subseteq s => t = s
<1>1. B \subseteq FiniteSubsetsOf(D)
  BY FS_FiniteSubsetsOfFinite
<1>2. PICK s \in B : \A t \in B : <<t, s>> \notin StrictSubsetOrdering(D)
  BY <1>1, FS_StrictSubsetOrderingWellFounded, WFMin
<1>3. \A t \in B : t \subseteq s /\ t # s => <<t, s>> \in StrictSubsetOrdering(D)
  BY DEF StrictSubsetOrdering
<1>4. \A t \in B : t \subseteq s => t = s
  <2> TAKE t \in B
  <2>1. <<t, s>> \notin StrictSubsetOrdering(D)
    BY <1>2
  <2> QED BY <1>3, <2>1
<1> QED BY <1>4

\* An element taken from a set leaves a smaller one.
LEMMA FirstOf ==
    ASSUME NEW s, s # {}
    PROVE  First(s) \in s /\ s \ {First(s)} \subseteq s /\ s \ {First(s)} # s
BY DEF First

\* All sums agree where they are defined.
LEMMA SumsAgree ==
    ASSUME NEW W, NEW V, NEW r, IsFiniteSet(r), \A id \in r : W[id] = V[id],
           NEW S, NEW T, r \subseteq S, r \subseteq T,
           NEW g, NEW h, IsSum(g, S, W), IsSum(h, T, V)
    PROVE  g[r] = h[r]
<1> DEFINE B == {s \in SUBSET r : g[s] # h[s]}
<1> SUFFICES ASSUME B # {} PROVE FALSE
  OBVIOUS
<1>1. PICK s \in B : \A t \in B : t \subseteq s => t = s
  <2> HIDE DEF B
  <2>1. B \subseteq SUBSET r
    BY DEF B
  <2> QED BY <2>1, SmallestSet
<1>2. s \in SUBSET S /\ s \in SUBSET T
  OBVIOUS
<1>3. g[s] = IF s = {} THEN 0 ELSE ChargeOf(W, First(s)) + g[s \ {First(s)}]
  BY <1>2 DEF IsSum
<1>4. h[s] = IF s = {} THEN 0 ELSE ChargeOf(V, First(s)) + h[s \ {First(s)}]
  BY <1>2 DEF IsSum
<1>5. s # {}
  BY <1>3, <1>4
<1>6. g[s \ {First(s)}] = h[s \ {First(s)}]
  BY <1>1, <1>5, FirstOf
<1>7. ChargeOf(W, First(s)) = ChargeOf(V, First(s))
  BY <1>5, FirstOf DEF ChargeOf
<1> QED BY <1>3, <1>4, <1>5, <1>6, <1>7

\* There is a sum over every finite set.
LEMMA SumExists ==
    ASSUME NEW W, NEW D, IsFiniteSet(D)
    PROVE  \E g : IsSum(g, D, W)
<1> DEFINE B == {s \in SUBSET D : ~\E g : IsSum(g, s, W)}
<1> SUFFICES ASSUME B # {} PROVE FALSE
  OBVIOUS
<1>1. PICK s \in B : \A t \in B : t \subseteq s => t = s
  <2> HIDE DEF B
  <2>1. B \subseteq SUBSET D
    BY DEF B
  <2> QED BY <2>1, SmallestSet
<1> DEFINE G == [t \in SUBSET s |->
                   IF t # s THEN TotalOf(t, W)
                   ELSE IF s = {} THEN 0
                   ELSE ChargeOf(W, First(s)) + TotalOf(s \ {First(s)}, W)]
<1>2. ASSUME NEW t \in SUBSET s, t # s
      PROVE  TotalOf(t, W) = IF t = {} THEN 0
                             ELSE ChargeOf(W, First(t)) + TotalOf(t \ {First(t)}, W)
  <2>1. \A u \in SUBSET t : \E g : IsSum(g, u, W)
    BY <1>1, <1>2
  <2>2. PICK g : IsSum(g, t, W) /\ TotalOf(t, W) = g[t]
    <3>1. \E g : IsSum(g, t, W)
      BY <2>1
    <3> DEFINE g == CHOOSE g : IsSum(g, t, W)
    <3>2. IsSum(g, t, W) /\ TotalOf(t, W) = g[t]
      BY <3>1 DEF TotalOf
    <3> QED BY <3>2
  <2>3. g[t] = IF t = {} THEN 0 ELSE ChargeOf(W, First(t)) + g[t \ {First(t)}]
    BY <2>2 DEF IsSum
  <2>4. CASE t = {}
    BY <2>2, <2>3, <2>4
  <2>5. CASE t # {}
    <3> DEFINE u == t \ {First(t)}
    <3>1. u \in SUBSET t
      OBVIOUS
    <3>2. PICK h : IsSum(h, u, W) /\ TotalOf(u, W) = h[u]
      <4>1. \E h : IsSum(h, u, W)
        BY <2>1, <3>1
      <4> DEFINE h == CHOOSE h : IsSum(h, u, W)
      <4> HIDE DEF u
      <4>2. IsSum(h, u, W) /\ TotalOf(u, W) = h[u]
        BY <4>1 DEF TotalOf
      <4> QED BY <4>2
    <3>3. IsFiniteSet(u)
      BY FS_Subset
    <3> HIDE DEF u
    <3>4. g[u] = h[u]
      BY <2>2, <3>1, <3>2, <3>3, SumsAgree
    <3> QED BY <2>2, <2>3, <2>5, <3>2, <3>4 DEF u
  <2> QED BY <2>4, <2>5
<1>3. \A t \in SUBSET s :
         G[t] = IF t = {} THEN 0 ELSE ChargeOf(W, First(t)) + G[t \ {First(t)}]
  <2> TAKE t \in SUBSET s
  <2>1. t # {} => t \ {First(t)} \in SUBSET s /\ t \ {First(t)} # s
    BY FirstOf
  <2>2. t # {} => G[t \ {First(t)}] = TotalOf(t \ {First(t)}, W)
    BY <2>1
  <2>3. CASE t = s
    BY <2>2, <2>3
  <2>4. CASE t # s
    <3>1. G[t] = TotalOf(t, W)
      BY <2>4
    <3> HIDE DEF G
    <3> QED BY <1>2, <2>2, <2>4, <3>1
  <2> QED BY <2>3, <2>4
<1>4. IsSum(G, s, W)
  <2>1. DOMAIN G = SUBSET s /\ G = [t \in SUBSET s |-> G[t]]
    OBVIOUS
  <2> HIDE DEF G
  <2> QED BY <1>3, <2>1 DEF IsSum
<1> QED BY <1>1, <1>4

\* A total is taken one element after the other.
LEMMA TotalStep ==
    ASSUME NEW W, NEW D, IsFiniteSet(D)
    PROVE  TotalOf(D, W) = IF D = {} THEN 0
                           ELSE ChargeOf(W, First(D)) + TotalOf(D \ {First(D)}, W)
<1>1. ASSUME NEW S, IsFiniteSet(S)
      PROVE  \E g : IsSum(g, S, W) /\ TotalOf(S, W) = g[S]
  <2>1. \E g : IsSum(g, S, W)
    BY <1>1, SumExists
  <2> DEFINE g == CHOOSE g : IsSum(g, S, W)
  <2>2. IsSum(g, S, W) /\ TotalOf(S, W) = g[S]
    BY <2>1 DEF TotalOf
  <2> QED BY <2>2
<1> DEFINE u == D \ {First(D)}
<1>2. IsFiniteSet(u) /\ u \in SUBSET D
  BY FS_Subset
<1> HIDE DEF u
<1>3. PICK g : IsSum(g, D, W) /\ TotalOf(D, W) = g[D]
  BY <1>1
<1>4. PICK h : IsSum(h, u, W) /\ TotalOf(u, W) = h[u]
  BY <1>1, <1>2
<1>5. g[u] = h[u]
  <2>1. u \in SUBSET D
    BY <1>2
  <2>2. IsSum(g, D, W) /\ IsSum(h, u, W) /\ IsFiniteSet(u)
    BY <1>2, <1>3, <1>4
  <2>3. g[u] = h[u]
    BY <2>1, <2>2, SumsAgree, SMTT(90)
  <2> QED BY <2>3
<1>6. g[D] = IF D = {} THEN 0 ELSE ChargeOf(W, First(D)) + g[u]
  BY <1>3 DEF IsSum, u
<1> QED BY <1>3, <1>4, <1>5, <1>6 DEF u

\* The total depends on the writers in the set only.
LEMMA TotalDependsOn ==
    ASSUME NEW W, NEW V, NEW D, IsFiniteSet(D), \A id \in D : W[id] = V[id]
    PROVE  TotalOf(D, W) = TotalOf(D, V)
<1>1. (\E g : IsSum(g, D, W)) /\ (\E h : IsSum(h, D, V))
  BY SumExists
<1> DEFINE g == CHOOSE g : IsSum(g, D, W)
           h == CHOOSE h : IsSum(h, D, V)
<1>2. IsSum(g, D, W) /\ IsSum(h, D, V)
  BY <1>1
<1>3. TotalOf(D, W) = g[D] /\ TotalOf(D, V) = h[D]
  BY DEF TotalOf
<1> HIDE DEF g, h
<1> QED BY <1>2, <1>3, SumsAgree

\* A total of charges is a number.
LEMMA TotalIsNatural ==
    ASSUME NEW W, NEW D, IsFiniteSet(D), \A id \in D : ChargeOf(W, id) \in Nat
    PROVE  TotalOf(D, W) \in Nat
<1> DEFINE B == {s \in SUBSET D : TotalOf(s, W) \notin Nat}
<1> SUFFICES ASSUME B # {} PROVE FALSE
  OBVIOUS
<1>1. PICK s \in B : \A t \in B : t \subseteq s => t = s
  <2> HIDE DEF B
  <2>1. B \subseteq SUBSET D
    BY DEF B
  <2> QED BY <2>1, SmallestSet
<1>2. IsFiniteSet(s)
  BY FS_Subset
<1>3. TotalOf(s, W) = IF s = {} THEN 0
                      ELSE ChargeOf(W, First(s)) + TotalOf(s \ {First(s)}, W)
  BY <1>2, TotalStep
<1>4. s # {}
  BY <1>3
<1>5. TotalOf(s \ {First(s)}, W) \in Nat /\ ChargeOf(W, First(s)) \in Nat
  BY <1>1, <1>4, FirstOf
<1> QED BY <1>1, <1>3, <1>4, <1>5

\* Each element counts once, whichever is taken first (retain, Discard).
LEMMA TotalWithout ==
    ASSUME NEW W, NEW D, IsFiniteSet(D), \A id \in D : ChargeOf(W, id) \in Nat,
           NEW x \in D
    PROVE  TotalOf(D, W) = ChargeOf(W, x) + TotalOf(D \ {x}, W)
<1> DEFINE B == {s \in SUBSET D :
                   \E y \in s : TotalOf(s, W) # ChargeOf(W, y) + TotalOf(s \ {y}, W)}
<1> SUFFICES ASSUME B # {} PROVE FALSE
  BY DEF B
<1>1. PICK s \in B : \A t \in B : t \subseteq s => t = s
  <2> HIDE DEF B
  <2>1. B \subseteq SUBSET D
    BY DEF B
  <2> QED BY <2>1, SmallestSet
<1>2. PICK y \in s : TotalOf(s, W) # ChargeOf(W, y) + TotalOf(s \ {y}, W)
  OBVIOUS
<1>3. s \in SUBSET D /\ IsFiniteSet(s) /\ s # {}
  BY <1>2, FS_Subset
<1> DEFINE f == First(s)
<1>4. f \in s
  BY <1>3, FirstOf
<1>5. TotalOf(s, W) = ChargeOf(W, f) + TotalOf(s \ {f}, W)
  BY <1>3, TotalStep
<1> HIDE DEF f
<1>6. f # y
  BY <1>2, <1>5
<1>7. TotalOf(s \ {f}, W) = ChargeOf(W, y) + TotalOf((s \ {f}) \ {y}, W)
  <2>1. s \ {f} \notin B /\ s \ {f} \in SUBSET D /\ y \in s \ {f}
    BY <1>1, <1>3, <1>4, <1>6
  <2> QED BY <2>1
<1>8. TotalOf(s \ {y}, W) = ChargeOf(W, f) + TotalOf((s \ {y}) \ {f}, W)
  <2>1. s \ {y} \notin B /\ s \ {y} \in SUBSET D /\ f \in s \ {y}
    BY <1>1, <1>3, <1>4, <1>6
  <2> QED BY <2>1
<1> DEFINE r == (s \ {f}) \ {y}
<1>9. (s \ {y}) \ {f} = r /\ r \in SUBSET D /\ IsFiniteSet(r)
  BY <1>3, FS_Subset
<1> HIDE DEF r, B
<1>10. TotalOf(r, W) \in Nat
  BY <1>9, TotalIsNatural
<1>11. ChargeOf(W, f) \in Nat /\ ChargeOf(W, y) \in Nat
  BY <1>3, <1>4
<1> QED BY <1>2, <1>5, <1>7, <1>8, <1>9, <1>10, <1>11 DEF r

IInv ==
    /\ TypeOK
    /\ DOMAIN writers \subseteq DOMAIN issued
    /\ \A id \in DOMAIN writers : writers[id] = issued[id]

\* The capacity check keeps the id after the last one within a word (capacity).
LEMMA NextIdIsNew ==
    ASSUME IInv, Capacity
    PROVE  /\ (next + 1) % Word = next + 1
           /\ next + 1 \in Ids
           /\ next + 1 \notin DOMAIN issued
<1>1. next \in 0..MaxUint /\ next # MaxUint /\ DOMAIN issued = 1..next
  BY DEF IInv, TypeOK, Ids, Capacity
<1>2. next + 1 \in 0..MaxUint
  BY <1>1, LimitsAssumption DEF LimitsAssumption
<1>3. (next + 1) % Word = next + 1
  BY <1>1, <1>2, LimitsAssumption, SMT DEF LimitsAssumption, Word
<1> QED BY <1>1, <1>2, <1>3 DEF Ids

\* Sums and differences of charges are those of unsigned integers.
LEMMA WordsAreBounded ==
    ASSUME NEW x \in Int
    PROVE  x % Word \in 0..MaxUint
BY LimitsAssumption, SMT DEF LimitsAssumption, Word

\* A candidate that is retained gets the next id and leaves the others alone.
LEMMA RetainPreserves ==
    ASSUME IInv, Capacity, NEW c \in Clients, NEW w \in Writers, Retain(c, w)
    PROVE  IInv'
<1> DEFINE id == next + 1
<1>1. id \in Ids /\ id \notin DOMAIN issued /\ next' = id
  BY NextIdIsNew DEF Retain
<1>2. writers' = With(writers, id, w) /\ issued' = With(issued, id, w)
  BY <1>1 DEF Retain
<1>3. DOMAIN writers' = DOMAIN writers \cup {id} /\ DOMAIN issued' = DOMAIN issued \cup {id}
  BY <1>2 DEF With
<1>4. /\ \A x \in DOMAIN writers' : writers'[x] = IF x = id THEN w ELSE writers[x]
      /\ \A x \in DOMAIN issued' : issued'[x] = IF x = id THEN w ELSE issued[x]
  BY <1>2 DEF With
<1>5. writers' \in [DOMAIN writers' -> Writers] /\ issued' \in [DOMAIN issued' -> Writers]
  BY <1>2, <1>3 DEF With, IInv, TypeOK
<1>6. charge' \in 0..MaxUint
  <2>1. charge + Charge[w] \in Int
    BY LimitsAssumption DEF IInv, TypeOK, LimitsAssumption
  <2> QED BY <2>1, WordsAreBounded DEF Retain
<1>7. handles' \in [Clients -> SUBSET Ids]
  BY <1>1 DEF Retain, IInv, TypeOK
<1>8. DOMAIN issued' = 1..next'
  BY <1>1, <1>3, LimitsAssumption DEF IInv, TypeOK, Ids, LimitsAssumption
<1>9. TypeOK'
  <2>1. DOMAIN writers' \subseteq Ids /\ next' \in Ids
    BY <1>1, <1>3 DEF IInv, TypeOK
  <2> QED BY <1>5, <1>6, <1>7, <1>8, <2>1 DEF TypeOK, Ids
<1>10. DOMAIN writers' \subseteq DOMAIN issued'
  BY <1>3 DEF IInv
<1>11. \A x \in DOMAIN writers' : writers'[x] = issued'[x]
  BY <1>3, <1>4, <1>10 DEF IInv
<1> QED BY <1>9, <1>10, <1>11 DEF IInv

\* Discard only takes an id away.
LEMMA DiscardPreserves ==
    ASSUME IInv, NEW c \in Clients, NEW id, Discard(c, id)
    PROVE  IInv'
<1>1. /\ DOMAIN writers' = DOMAIN writers \ {id}
      /\ \A x \in DOMAIN writers' : writers'[x] = writers[x]
      /\ writers' = [x \in DOMAIN writers \ {id} |-> writers[x]]
  BY DEF Discard, Restrict
<1>2. charge' \in 0..MaxUint
  <2>1. writers[id] \in Writers
    BY DEF Discard, IInv, TypeOK
  <2>2. charge - Charge[writers[id]] \in Int
    BY <2>1, LimitsAssumption DEF IInv, TypeOK, LimitsAssumption
  <2> QED BY <2>2, WordsAreBounded DEF Discard
<1>3. TypeOK'
  BY <1>1, <1>2 DEF Discard, IInv, TypeOK, Ids
<1>4. DOMAIN writers' \subseteq DOMAIN issued' /\ \A x \in DOMAIN writers' : writers'[x] = issued'[x]
  BY <1>1 DEF Discard, IInv
<1> QED BY <1>3, <1>4 DEF IInv

\* The invariant of every session.
THEOREM Invariance == Spec => []IInv
<1>1. Init => IInv
  BY LimitsAssumption DEF Init, IInv, TypeOK, Ids, LimitsAssumption
<1>2. IInv /\ [Next]_vars => IInv'
  <2> SUFFICES ASSUME IInv, [Next]_vars PROVE IInv'
    OBVIOUS
  <2>1. CASE \E c \in Clients, w \in Writers : Create(c, w)
    BY <2>1, RetainPreserves DEF Create
  <2>2. CASE \E c \in Clients : \E id \in handles[c], w \in Writers : Apply(c, id, w)
    BY <2>2, RetainPreserves DEF Apply
  <2>3. CASE \E c \in Clients : \E id \in handles[c] : Discard(c, id)
    BY <2>3, DiscardPreserves
  <2>4. CASE Clear
    BY <2>4, LimitsAssumption DEF Clear, IInv, TypeOK, Ids, LimitsAssumption
  <2>5. CASE UNCHANGED vars
    BY <2>5 DEF vars, IInv, TypeOK
  <2> QED BY <2>1, <2>2, <2>3, <2>4, <2>5 DEF Next
<1> QED BY <1>1, <1>2, PTL DEF Spec

\* Types, the width of charges and ids included (Session).
THEOREM TypeCorrect == Spec => []TypeOK
<1>1. IInv => TypeOK
  BY DEF IInv
<1> QED BY <1>1, Invariance, PTL

\* A client's handle is unknown or means the writer it was issued for (retain,
\* Discard).
THEOREM HandlesFaithful == Spec => []HandlesAreFaithful
<1>1. IInv => HandlesAreFaithful
  BY DEF IInv, HandlesAreFaithful
<1> QED BY <1>1, Invariance, PTL

\* An id that was issued once never enters the session again, and one that is
\* in it does not change its writer (capacity, retain, Clear).
THEOREM NeverReused == Spec => HandlesNeverReused
<1> DEFINE Step == /\ \A id \in DOMAIN writers' : id \in DOMAIN writers \/ id \notin DOMAIN issued
                   /\ \A id \in DOMAIN writers \cap DOMAIN writers' : writers'[id] = writers[id]
<1>1. IInv /\ [Next]_vars => [Step]_vars
  <2> SUFFICES ASSUME IInv, Next PROVE Step
    OBVIOUS
  <2>1. ASSUME NEW c \in Clients, NEW w \in Writers, Capacity, Retain(c, w) PROVE Step
    <3>1. writers' = With(writers, next + 1, w) /\ next + 1 \notin DOMAIN issued
      BY <2>1, NextIdIsNew DEF Retain
    <3>2. DOMAIN writers \subseteq DOMAIN issued
      BY DEF IInv
    <3> QED BY <3>1, <3>2 DEF With
  <2>2. ASSUME NEW c \in Clients, NEW id, Discard(c, id) PROVE Step
    BY <2>2 DEF Discard, Restrict
  <2>3. CASE Clear
    BY <2>3 DEF Clear
  <2> QED BY <2>1, <2>2, <2>3 DEF Next, Create, Apply
<1> QED BY <1>1, Invariance, PTL DEF Spec, HandlesNeverReused

-----------------------------------------------------------------------------
(* The accounting.                                                          *)

\* Charges are exact and within the limits.
ChargeInv ==
    /\ IsFiniteSet(DOMAIN writers)
    /\ charge = TotalOf(DOMAIN writers, writers)
    /\ charge <= MaxStateBytes
    /\ Cardinality(DOMAIN writers) <= MaxCandidates

\* Below the limits the arithmetic of words is that of numbers (retain).
LEMMA WordsAreNumbers ==
    ASSUME NEW x \in 0..MaxUint
    PROVE  x % Word = x
BY LimitsAssumption, SMT DEF LimitsAssumption, Word

\* The charge of a retained writer is a number.
LEMMA ChargesAreNumbers ==
    ASSUME IInv
    PROVE  \A id \in DOMAIN writers : ChargeOf(writers, id) \in Nat
BY LimitsAssumption DEF LimitsAssumption, IInv, TypeOK, ChargeOf

\* A candidate that fits is charged once (retain).
LEMMA RetainCharges ==
    ASSUME IInv, ChargeInv, Capacity, NEW c \in Clients, NEW w \in Writers, Retain(c, w)
    PROVE  ChargeInv'
<1> DEFINE id == next + 1
           D == DOMAIN writers
<1>1. id \notin D /\ writers' = With(writers, id, w)
  BY NextIdIsNew DEF Retain, IInv
<1>2. DOMAIN writers' = D \cup {id} /\ writers'[id] = w
      /\ \A x \in D : writers'[x] = writers[x]
  BY <1>1 DEF With
<1>3. IsFiniteSet(D \cup {id}) /\ Cardinality(D \cup {id}) = Cardinality(D) + 1
      /\ IsFiniteSet(D) /\ Cardinality(D) \in Nat
  BY <1>1, FS_AddElement, FS_CardinalityType DEF ChargeInv
<1>4. charge \in Nat /\ charge <= MaxStateBytes /\ Charge[w] \in Nat
      /\ MaxStateBytes \in Nat /\ MaxUint \in Nat /\ MaxStateBytes <= MaxUint
  BY LimitsAssumption DEF LimitsAssumption, IInv, TypeOK, ChargeInv
<1>5. Charge[w] <= MaxStateBytes - charge
  <2>1. (MaxStateBytes - charge) % Word = MaxStateBytes - charge
    BY <1>4, WordsAreNumbers
  <2> QED BY <2>1 DEF Retain, Fits
<1>6. charge + Charge[w] \in 0..MaxUint /\ charge + Charge[w] <= MaxStateBytes
  BY <1>4, <1>5
<1>7. charge' = charge + Charge[w]
  BY <1>6, WordsAreNumbers DEF Retain
<1> HIDE DEF id, D
<1>8. TotalOf(D \cup {id}, writers') = Charge[w] + TotalOf(D, writers)
  <2>1. \A x \in D \cup {id} : ChargeOf(writers', x) \in Nat
    BY <1>2, <1>4, ChargesAreNumbers DEF ChargeOf, D
  <2>2. ChargeOf(writers', id) = Charge[w] /\ (D \cup {id}) \ {id} = D
    BY <1>1, <1>2 DEF ChargeOf
  <2>3. TotalOf(D \cup {id}, writers') = ChargeOf(writers', id) + TotalOf(D, writers')
    BY <1>3, <2>1, <2>2, TotalWithout
  <2>4. TotalOf(D, writers') = TotalOf(D, writers)
    BY <1>2, <1>3, TotalDependsOn
  <2> QED BY <2>2, <2>3, <2>4
<1>9. charge' = TotalOf(DOMAIN writers', writers')
  BY <1>2, <1>4, <1>7, <1>8 DEF ChargeInv, D
<1>10. Cardinality(D) + 1 <= MaxCandidates
  BY <1>3, LimitsAssumption DEF Capacity, LimitsAssumption, D
<1> QED BY <1>2, <1>3, <1>6, <1>7, <1>9, <1>10 DEF ChargeInv

\* A discarded candidate gives back what it was charged (Discard).
LEMMA DiscardCharges ==
    ASSUME IInv, ChargeInv, NEW c \in Clients, NEW id, Discard(c, id)
    PROVE  ChargeInv'
<1> DEFINE D == DOMAIN writers
           n == ChargeOf(writers, id)
<1>1. /\ id \in D /\ DOMAIN writers' = D \ {id}
      /\ \A x \in D \ {id} : writers'[x] = writers[x]
  BY DEF Discard, Restrict
<1>2. /\ IsFiniteSet(D) /\ IsFiniteSet(D \ {id})
      /\ Cardinality(D \ {id}) = Cardinality(D) - 1 /\ Cardinality(D) \in Nat
  BY <1>1, FS_RemoveElement, FS_CardinalityType DEF ChargeInv
<1>3. \A x \in D : ChargeOf(writers, x) \in Nat
  BY ChargesAreNumbers
<1>4. n \in Nat /\ charge' = (charge - n) % Word
  BY <1>1, <1>3 DEF Discard, ChargeOf
<1> HIDE DEF D, n
<1>5. charge = n + TotalOf(D \ {id}, writers)
  BY <1>1, <1>2, <1>3, TotalWithout DEF ChargeInv, D, n
<1>6. TotalOf(D \ {id}, writers) \in Nat
  BY <1>2, <1>3, TotalIsNatural
<1>7. TotalOf(D \ {id}, writers') = TotalOf(D \ {id}, writers)
  BY <1>1, <1>2, TotalDependsOn
<1>8. charge' = TotalOf(D \ {id}, writers)
  <2>1. charge - n = TotalOf(D \ {id}, writers) /\ charge - n \in 0..MaxUint
    BY <1>4, <1>5, <1>6, LimitsAssumption DEF IInv, TypeOK, LimitsAssumption
  <2> QED BY <1>4, <2>1, WordsAreNumbers
<1>9. charge' <= MaxStateBytes
  BY <1>4, <1>5, <1>6, <1>8, LimitsAssumption DEF ChargeInv, LimitsAssumption
<1>10. Cardinality(D \ {id}) <= MaxCandidates
  BY <1>2, LimitsAssumption DEF ChargeInv, LimitsAssumption, D
<1> QED BY <1>1, <1>2, <1>7, <1>8, <1>9, <1>10 DEF ChargeInv

\* An empty session is charged nothing (NewSession, Clear).
LEMMA NothingCharged ==
    ASSUME NEW W
    PROVE  /\ TotalOf({}, W) = 0 /\ IsFiniteSet({}) /\ Cardinality({}) = 0
           /\ DOMAIN <<>> = {}
<1>1. IsFiniteSet({}) /\ Cardinality({}) = 0
  BY FS_EmptySet
<1>2. TotalOf({}, W) = 0
  BY <1>1, TotalStep
<1>3. DOMAIN <<>> = {}
  OBVIOUS
<1> QED BY <1>1, <1>2, <1>3

\* At any time the charge is the sum of the charges of the retained writers, and
\* neither limit is exceeded (capacity, retain, Discard, Clear).
THEOREM Accounting == Spec => []ChargeIsExact
<1>1. Init => ChargeInv
  BY NothingCharged, LimitsAssumption DEF Init, ChargeInv, LimitsAssumption
<1>2. IInv /\ ChargeInv /\ [Next]_vars => ChargeInv'
  <2> SUFFICES ASSUME IInv, ChargeInv, [Next]_vars PROVE ChargeInv'
    OBVIOUS
  <2>1. CASE \E c \in Clients, w \in Writers : Create(c, w)
    BY <2>1, RetainCharges DEF Create
  <2>2. CASE \E c \in Clients : \E id \in handles[c], w \in Writers : Apply(c, id, w)
    BY <2>2, RetainCharges DEF Apply
  <2>3. CASE \E c \in Clients : \E id \in handles[c] : Discard(c, id)
    BY <2>3, DiscardCharges
  <2>4. CASE Clear
    BY <2>4, NothingCharged, LimitsAssumption DEF Clear, ChargeInv, LimitsAssumption
  <2>5. CASE UNCHANGED vars
    BY <2>5 DEF vars, ChargeInv
  <2> QED BY <2>1, <2>2, <2>3, <2>4, <2>5 DEF Next
<1>3. ChargeInv => ChargeIsExact
  BY TotalIsTheSum DEF ChargeInv, ChargeIsExact
<1> QED BY <1>1, <1>2, <1>3, Invariance, PTL DEF Spec
=============================================================================
