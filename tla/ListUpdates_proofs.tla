------------------------ MODULE ListUpdates_proofs ------------------------
(***************************************************************************)
(* For every number of slots, every width of counts and every history of   *)
(* operations: the Root of a List is the one a Commit of its items has,    *)
(* operations are accepted for what the items are and nothing else, write  *)
(* children before parents, and the tree implements a sequence beside a    *)
(* payload; a range proof that verifies is about the window it claims.     *)
(*                                                                         *)
(* Counts and shifts come first: what positions are, as products of spans  *)
(* (DigitsAre, ChildIs, RootIs).  Then, each by the height of a node: how  *)
(* the recursions unfold; what a tree is made of (TreeIs) and that it is   *)
(* determined by its window of the items (TreeSame); that appending,       *)
(* truncating and replacing make of the tree of some items the tree of the *)
(* others (TreeGrows, TreeCuts, TreeReplaces), in which order they write   *)
(* (Orderly), and that a Snapshot of it finds its items (TreeHolds).  Then *)
(* come proofs: the cells on the way to an index (CellsOnWay), what is     *)
(* found there (ProveIs) and what verifies (VerifyIs, RangeHolds).  Last   *)
(* come nodes of any shape: a walk accepts the trees of items and nothing  *)
(* else (WalksTell, TreeWalks, SnapshotTells).                             *)
(***************************************************************************)
EXTENDS ListUpdates, SequenceLemmas

-----------------------------------------------------------------------------
(* Powers of two.                                                           *)

PowersUpTo(f, k) == f = [n \in 0..k |-> IF n = 0 THEN 1 ELSE 2 * f[n - 1]]

\* The shifts of positions have a solution, and unfold.
LEMMA PowersExist ==
    \A n \in 0..(Width * Bits) : TwoTo[n] = IF n = 0 THEN 1 ELSE 2 * TwoTo[n - 1]
<1> USE ListAssumption
<1> DEFINE W == Width * Bits
           K == {k \in 0..W : \E f : PowersUpTo(f, k)}
<1>1. W \in Nat
  OBVIOUS
<1> HIDE DEF W
<1>2. 0 \in K
  <2> DEFINE f == [n \in 0..0 |-> 1]
  <2>1. PowersUpTo(f, 0)
    BY DEF PowersUpTo
  <2> QED BY <1>1, <2>1
<1>3. \A k \in 0..(W - 1) : k \in K => k + 1 \in K
  <2> SUFFICES ASSUME NEW k \in 0..(W - 1), k \in K PROVE k + 1 \in K
    OBVIOUS
  <2>1. PICK f : PowersUpTo(f, k)
    OBVIOUS
  <2> DEFINE g == [n \in 0..(k + 1) |-> IF n = k + 1 THEN 2 * f[k] ELSE f[n]]
  <2>2. \A n \in 0..k : g[n] = f[n] /\ n # k + 1 /\ n \in 0..(k + 1)
    BY <1>1
  <2>3. g[k + 1] = 2 * f[k] /\ k + 1 # 0 /\ (k + 1) - 1 = k /\ k \in 0..k
    BY <1>1
  <2>4. \A n \in 0..k : f[n] = IF n = 0 THEN 1 ELSE 2 * f[n - 1]
    BY <2>1 DEF PowersUpTo
  <2>5. \A n \in 0..(k + 1) : (n # 0 => n - 1 \in 0..k) /\ (n = k + 1 \/ n \in 0..k)
    BY <1>1
  <2>6. g = [n \in 0..(k + 1) |-> g[n]]
    OBVIOUS
  <2> HIDE DEF g
  <2>7. \A n \in 0..(k + 1) : g[n] = IF n = 0 THEN 1 ELSE 2 * g[n - 1]
    <3> TAKE n \in 0..(k + 1)
    <3>1. CASE n = k + 1
      BY <2>2, <2>3, <3>1
    <3>2. CASE n \in 0..k
      <4>1. n # 0 => n - 1 \in 0..k
        BY <2>5
      <4> QED BY <2>2, <2>4, <3>2, <4>1
    <3> QED BY <2>5, <3>1, <3>2
  <2>8. PowersUpTo(g, k + 1)
    BY <2>6, <2>7 DEF PowersUpTo
  <2>9. k + 1 \in 0..W
    BY <1>1
  <2> QED BY <2>8, <2>9
<1>4. W \in K
  <2> HIDE DEF K
  <2>1. 0..W \subseteq K
    BY <1>1, <1>2, <1>3, Upwards
  <2> QED BY <1>1, <2>1
<1>5. \E f : PowersUpTo(f, W)
  BY <1>4
<1>6. TwoTo = CHOOSE f : PowersUpTo(f, W)
  BY DEF TwoTo, PowersUpTo, W
<1>7. PowersUpTo(TwoTo, W)
  BY <1>5, <1>6
<1> QED BY <1>7 DEF PowersUpTo, W

\* They are positive, and double.
LEMMA Powers ==
    /\ \A n \in 0..(Width * Bits) : TwoTo[n] \in Nat \ {0}
    /\ TwoTo[0] = 1
    /\ \A n \in 0..(Width * Bits) : n # 0 => TwoTo[n] = 2 * TwoTo[n - 1]
<1> DEFINE W == Width * Bits
           S == {n \in 0..W : TwoTo[n] \in Nat \ {0}}
<1>1. W \in Nat
  BY ListAssumption
<1>2. \A n \in 0..W : TwoTo[n] = IF n = 0 THEN 1 ELSE 2 * TwoTo[n - 1]
  BY PowersExist
<1> HIDE DEF W
<1>3. 0 \in S
  BY <1>1, <1>2
<1>4. \A k \in 0..(W - 1) : k \in S => k + 1 \in S
  <2> SUFFICES ASSUME NEW k \in 0..(W - 1), k \in S PROVE k + 1 \in S
    OBVIOUS
  <2>1. k + 1 \in 0..W /\ k + 1 # 0 /\ (k + 1) - 1 = k
    BY <1>1
  <2>2. TwoTo[k + 1] = 2 * TwoTo[k]
    BY <1>2, <2>1
  <2> QED BY <2>1, <2>2
<1>5. 0..W \subseteq S
  <2> HIDE DEF S
  <2> QED BY <1>1, <1>3, <1>4, Upwards
<1>6. 0 \in 0..W
  BY <1>1
<1> QED BY <1>2, <1>5, <1>6 DEF W

\* Shifts add up.
LEMMA PowersAdd ==
    ASSUME NEW m \in Nat, NEW n \in Nat, m + n <= Width * Bits
    PROVE  TwoTo[m + n] = TwoTo[m] * TwoTo[n]
<1> DEFINE W == Width * Bits
           S == {k \in 0..n : TwoTo[m + k] = TwoTo[m] * TwoTo[k]}
<1>1. W \in Nat /\ m + n <= W
  BY ListAssumption
<1>2. /\ \A k \in 0..W : TwoTo[k] \in Nat \ {0}
      /\ TwoTo[0] = 1
      /\ \A k \in 0..W : k # 0 => TwoTo[k] = 2 * TwoTo[k - 1]
  BY Powers
<1> HIDE DEF W
<1>3. 0 \in S
  <2>1. m \in 0..W /\ m + 0 = m /\ 0 \in 0..n
    BY <1>1
  <2>2. TwoTo[m] \in Nat /\ TwoTo[m] * 1 = TwoTo[m]
    BY <1>2, <2>1
  <2> QED BY <1>2, <2>1, <2>2
<1>4. \A k \in 0..(n - 1) : k \in S => k + 1 \in S
  <2> SUFFICES ASSUME NEW k \in 0..(n - 1), k \in S PROVE k + 1 \in S
    OBVIOUS
  <2>1. /\ k + 1 \in 0..W /\ k + 1 # 0 /\ (k + 1) - 1 = k /\ k + 1 \in 0..n /\ k \in 0..W
        /\ m + (k + 1) \in 0..W /\ m + (k + 1) # 0 /\ (m + (k + 1)) - 1 = m + k /\ m \in 0..W
    BY <1>1
  <2>2. TwoTo[m + (k + 1)] = 2 * TwoTo[m + k]
    BY <1>2, <2>1
  <2>3. TwoTo[k + 1] = 2 * TwoTo[k]
    BY <1>2, <2>1
  <2>4. TwoTo[m + k] = TwoTo[m] * TwoTo[k]
    OBVIOUS
  <2> DEFINE a == TwoTo[m]
             b == TwoTo[k]
  <2>5. a \in Nat /\ b \in Nat
    BY <1>2, <2>1
  <2>6. TwoTo[m + (k + 1)] = 2 * (a * b) /\ TwoTo[k + 1] = 2 * b
    BY <2>2, <2>3, <2>4
  <2> HIDE DEF a, b
  <2>7. 2 * (a * b) = a * (2 * b)
    BY <2>5
  <2>8. TwoTo[m + (k + 1)] = a * TwoTo[k + 1]
    BY <2>6, <2>7
  <2> QED BY <2>1, <2>8 DEF a
<1>5. 0..n \subseteq S
  <2> HIDE DEF S
  <2> QED BY <1>3, <1>4, Upwards
<1> QED BY <1>5

\* How many indices a child of a node of a height has.
Span(height) == TwoTo[height * Bits]

\* Spans are powers of the number of slots, and the greatest is beyond the counts.
LEMMA Spans ==
    /\ Slots \in Nat /\ Slots >= 2 /\ MaxUint \in Nat /\ TwoTo[Width] = MaxUint + 1
    /\ Span(0) = 1 /\ Span(Width) > MaxUint
    /\ \A h \in 0..Width : Span(h) \in Nat \ {0} /\ (h * Bits >= Width => Span(h) > MaxUint)
    /\ \A h \in 1..Width : Span(h) = Slots * Span(h - 1)
<1> DEFINE W == Width * Bits
<1>1. W \in Nat /\ Bits \in 0..W /\ Bits # 0 /\ Bits - 1 \in 0..W /\ Width \in 0..W /\ Width \in Nat \ {0} /\ Bits \in Nat \ {0}
  <2>1. \A w, b \in Nat \ {0} : w * b \in Nat /\ b <= w * b /\ w <= w * b
    <3> TAKE w, b \in Nat \ {0}
    <3>1. w * b = b + (w - 1) * b /\ w * b = w + w * (b - 1)
      OBVIOUS
    <3>2. (w - 1) * b \in Nat /\ w * (b - 1) \in Nat
      OBVIOUS
    <3> QED BY <3>1, <3>2
  <2> QED BY <2>1, ListAssumption
<1>2. /\ \A n \in 0..W : TwoTo[n] \in Nat \ {0}
      /\ TwoTo[0] = 1
      /\ \A n \in 0..W : n # 0 => TwoTo[n] = 2 * TwoTo[n - 1]
  BY Powers
<1>3. \A h \in 0..Width : h * Bits \in 0..W
  <2> TAKE h \in 0..Width
  <2>1. W = h * Bits + (Width - h) * Bits
    BY <1>1
  <2>2. (Width - h) * Bits \in Nat /\ h * Bits \in Nat
    BY <1>1
  <2> HIDE DEF W
  <2> QED BY <1>1, <2>1, <2>2
<1>4. TwoTo[Bits] = 2 * TwoTo[Bits - 1] /\ TwoTo[Bits - 1] \in Nat \ {0} /\ Slots = TwoTo[Bits]
  BY <1>1, <1>2, ListAssumption
<1>5. Slots \in Nat /\ Slots >= 2
  BY <1>4
<1>6. TwoTo[Width] \in Nat \ {0}
  BY <1>1, <1>2
<1>7. MaxUint \in Nat /\ TwoTo[Width] = MaxUint + 1
  BY <1>6 DEF MaxUint
<1>8. \A h \in 0..Width : Span(h) \in Nat \ {0}
  BY <1>2, <1>3 DEF Span
<1>9. Span(0) = 1
  <2>1. 0 * Bits = 0
    BY <1>1
  <2> QED BY <1>2, <2>1 DEF Span
<1>10. \A h \in 0..Width : h * Bits >= Width => Span(h) > MaxUint
  <2> SUFFICES ASSUME NEW h \in 0..Width, h * Bits >= Width PROVE Span(h) > MaxUint
    OBVIOUS
  <2>1. h * Bits \in 0..W
    BY <1>3
  <2> DEFINE n == h * Bits - Width
  <2>2. n \in 0..W /\ n \in Nat /\ Width + n = h * Bits /\ Width + n <= W
    <3> HIDE DEF W
    <3> QED BY <1>1, <2>1
  <2>3. TwoTo[Width + n] = TwoTo[Width] * TwoTo[n]
    BY <1>1, <2>2, PowersAdd
  <2> DEFINE a == TwoTo[Width]
             b == TwoTo[n]
  <2>4. a \in Nat \ {0} /\ b \in Nat \ {0} /\ Span(h) = a * b /\ a = MaxUint + 1
    BY <1>2, <1>6, <1>7, <2>2, <2>3 DEF Span
  <2> HIDE DEF a, b
  <2>5. a * b = a + a * (b - 1) /\ a * (b - 1) \in Nat
    BY <2>4
  <2> QED BY <1>7, <2>4, <2>5
<1>11. Span(Width) > MaxUint
  BY <1>1, <1>10
<1>12. \A h \in 1..Width : Span(h) = Slots * Span(h - 1)
  <2> TAKE h \in 1..Width
  <2>1. h - 1 \in 0..Width /\ h \in 0..Width
    BY <1>1
  <2>2. (h - 1) * Bits \in Nat /\ Bits + (h - 1) * Bits = h * Bits /\ h * Bits \in 0..W
    BY <1>1, <1>3, <2>1
  <2> HIDE DEF W
  <2>3. Bits + (h - 1) * Bits <= W /\ Bits \in Nat
    BY <1>1, <2>2
  <2>4. TwoTo[Bits + (h - 1) * Bits] = TwoTo[Bits] * TwoTo[(h - 1) * Bits]
    BY <2>2, <2>3, PowersAdd DEF W
  <2> QED BY <1>4, <2>2, <2>4 DEF Span
<1> QED BY <1>5, <1>7, <1>8, <1>9, <1>10, <1>11, <1>12

-----------------------------------------------------------------------------
(* Positions.                                                               *)

\* The lesser of two numbers.
LEMMA LeastOfTwo ==
    ASSUME NEW x \in Int, NEW y \in Int
    PROVE  Min({x, y}) = IF x <= y THEN x ELSE y
<1> DEFINE m == IF x <= y THEN x ELSE y
<1>1. m \in {x, y} /\ \A z \in {x, y} : m <= z
  OBVIOUS
<1>2. \A w \in {x, y} : (\A z \in {x, y} : w <= z) => w = m
  OBVIOUS
<1> QED BY <1>1, <1>2 DEF Min

\* The digits of a position are what its count divided by its span is (used).
Digital(pos) ==
    \A d \in Int : d \in Digits(pos) <=> d >= 0 /\ d * Span(pos.height) < pos.count

\* A position that a node of as many slots can have.
Fits(pos) == pos \in Positions /\ Used(pos) <= Slots - Base(pos)

\* The digits are those whose start is below the count (used).
LEMMA DigitsAre ==
    ASSUME NEW pos \in Positions
    PROVE  Used(pos) \in Nat /\ Base(pos) \in 0..1 /\ Digital(pos)
           /\ Digits(pos) \subseteq Nat /\ (pos.count > 0 => 0 \in Digits(pos))
<1> DEFINE S == Span(pos.height)
           n == pos.count
<1>1. n \in Nat /\ pos.height \in 0..Width /\ pos.root \in BOOLEAN
  BY Spans DEF Positions
<1>2. S \in Nat \ {0}
  BY <1>1, Spans
<1>3. Used(pos) = IF n = 0 THEN 0 ELSE ((n - 1) \div S) + 1
  BY DEF Used, Shr, Shift, Span
<1> HIDE DEF S, n
<1>4. Used(pos) \in Nat
  BY <1>1, <1>2, <1>3
<1>5. \A d \in Int : d \in 0..(Used(pos) - 1) <=> d >= 0 /\ d * S < n
  <2> TAKE d \in Int
  <2>1. CASE n = 0
    <3>1. d >= 0 => d * S >= 0
      BY <1>2
    <3>2. Used(pos) = 0
      BY <1>3, <2>1
    <3> DEFINE x == d * S
    <3>3. x \in Int
      BY <1>2
    <3> HIDE DEF x
    <3>4. d \in 0..(Used(pos) - 1) <=> d >= 0 /\ x < n
      BY <2>1, <3>1, <3>2, <3>3 DEF x
    <3> QED BY <3>4 DEF x
  <2>2. CASE n # 0
    <3>1. n - 1 \in Nat
      BY <1>1, <2>2
    <3>2. d >= 0 => (d <= (n - 1) \div S <=> d * S <= n - 1)
      BY <1>2, <3>1
    <3>3. d * S \in Int /\ (n - 1) \div S \in Nat
      BY <1>2, <3>1
    <3> DEFINE q == (n - 1) \div S
               x == d * S
    <3>4. Used(pos) = q + 1 /\ q \in Nat /\ x \in Int /\ (d >= 0 => (d <= q <=> x <= n - 1))
      BY <1>3, <2>2, <3>2, <3>3
    <3> HIDE DEF q, x
    <3>5. d \in 0..(Used(pos) - 1) <=> d >= 0 /\ x < n
      BY <1>1, <3>4
    <3> QED BY <3>5 DEF x
  <2> QED BY <2>1, <2>2
<1>6. Digital(pos) /\ Digits(pos) \subseteq Nat
  BY <1>4, <1>5 DEF Digital, Digits, S, n
<1>7. n > 0 => 0 \in 0..(Used(pos) - 1)
  <2>1. 0 * S = 0
    BY <1>2
  <2> QED BY <1>5, <2>1
<1>8. Base(pos) \in 0..1
  BY DEF Base
<1> QED BY <1>4, <1>6, <1>7, <1>8 DEF n, Digits

\* Where a child starts and what is left for it (child), shifts past the width
\* included: for digits that are used nothing wraps around.
LEMMA ChildIs ==
    ASSUME NEW pos \in Positions, pos.height # 0, NEW d \in Nat
    PROVE  /\ ChildPosition(pos, d) \in Positions /\ Start(pos, d) \in 0..MaxUint
           /\ ChildPosition(pos, d).height = pos.height - 1
           /\ ChildPosition(pos, d).root = FALSE
           /\ ChildPosition(pos, d).count <= Span(pos.height)
           /\ d \in Digits(pos) =>
                  /\ Start(pos, d) = d * Span(pos.height)
                  /\ ChildPosition(pos, d).count =
                         IF pos.count - d * Span(pos.height) <= Span(pos.height)
                         THEN pos.count - d * Span(pos.height) ELSE Span(pos.height)
<1> DEFINE S == Span(pos.height)
           n == pos.count
           M == TwoTo[Width]
           start == (d * S) % M
           rest == (n - start) % M
           child == ChildPosition(pos, d)
<1>1. n \in 0..MaxUint /\ pos.height \in 1..Width /\ pos.height \in 0..Width /\ M = MaxUint + 1 /\ MaxUint \in Nat
  BY Spans DEF Positions
<1>2. S \in Nat \ {0} /\ (pos.height * Bits >= Width => S > MaxUint)
  BY <1>1, Spans
<1>3. Start(pos, d) = start
  BY DEF Start, Shl, Shift, Span
<1>4. Bits \in Nat /\ pos.height * Bits \in Int /\ Width \in Nat
  BY <1>1, ListAssumption
<1>5. child = Position(IF pos.height * Bits < Width THEN Min({rest, S}) ELSE rest, pos.height - 1, FALSE)
  BY <1>3 DEF ChildPosition, Minus, Shift, Span
<1> HIDE DEF S, n, M, child
<1>6. start \in 0..MaxUint
  <2>1. d * S \in Nat
    BY <1>2
  <2> QED BY <1>1, <2>1
<1>7. rest \in 0..MaxUint
  <2> HIDE DEF start
  <2>1. n - start \in Int
    BY <1>1, <1>6
  <2> QED BY <1>1, <2>1
<1> HIDE DEF start, rest
<1>8. child = Position(IF rest <= S THEN rest ELSE S, pos.height - 1, FALSE)
  <2>1. Min({rest, S}) = IF rest <= S THEN rest ELSE S
    BY <1>1, <1>2, <1>7, LeastOfTwo
  <2>2. CASE pos.height * Bits < Width
    BY <1>5, <2>1, <2>2
  <2>3. CASE ~(pos.height * Bits < Width)
    <3>1. pos.height * Bits >= Width
      BY <1>4, <2>3
    <3>2. rest <= S
      BY <1>1, <1>2, <1>7, <3>1
    <3> QED BY <1>5, <2>3, <3>2
  <2> QED BY <2>2, <2>3
<1>9. /\ child.count = (IF rest <= S THEN rest ELSE S) /\ child.height = pos.height - 1
      /\ child.root = FALSE
  BY <1>8 DEF Position
<1>10. child.count \in 0..MaxUint /\ child.count <= S
  BY <1>1, <1>2, <1>7, <1>9
<1>11. child \in Positions
  <2>1. pos.height - 1 \in 0..Width
    BY <1>1, <1>4
  <2> QED BY <1>8, <1>9, <1>10, <2>1 DEF Position, Positions
<1>12. ASSUME d \in Digits(pos)
       PROVE  start = d * S /\ child.count = IF n - d * S <= S THEN n - d * S ELSE S
  <2>1. d * S < n /\ d * S \in Nat
    BY <1>2, <1>12, DigitsAre DEF Digital, S, n
  <2>2. start = d * S
    <3> DEFINE x == d * S
    <3>1. x \in Nat /\ x < M
      BY <1>1, <2>1
    <3>2. M \in Nat \ {0}
      BY <1>1
    <3>3. start = x % M
      BY DEF start
    <3> HIDE DEF x
    <3>4. x % M = x
      BY <3>1, <3>2
    <3> QED BY <3>3, <3>4 DEF x
  <2>3. rest = n - d * S
    <3> DEFINE x == n - d * S
    <3>1. x \in Nat /\ x < M
      BY <1>1, <2>1
    <3>2. M \in Nat \ {0}
      BY <1>1
    <3>3. rest = x % M
      BY <2>2 DEF rest
    <3> HIDE DEF x
    <3>4. x % M = x
      BY <3>1, <3>2
    <3> QED BY <3>3, <3>4 DEF x
  <2> QED BY <1>9, <2>2, <2>3
<1> QED BY <1>3, <1>6, <1>9, <1>10, <1>11, <1>12 DEF S, n, child

\* A child fits its node, whatever the position of the parent.
LEMMA ChildFits ==
    ASSUME NEW pos \in Positions, pos.height # 0, NEW d \in Nat
    PROVE  Fits(ChildPosition(pos, d)) /\ Base(ChildPosition(pos, d)) = 0
<1> DEFINE child == ChildPosition(pos, d)
           T == Span(pos.height - 1)
<1>1. /\ child \in Positions /\ child.height = pos.height - 1 /\ child.root = FALSE
      /\ child.count <= Span(pos.height)
  BY ChildIs
<1>2. pos.height \in 1..Width /\ pos.height - 1 \in 0..Width
  BY ListAssumption DEF Positions
<1>3. Span(pos.height) = Slots * T /\ T \in Nat \ {0} /\ Slots \in Nat
  BY <1>2, Spans
<1>4. Used(child) \in Nat /\ Digital(child)
  BY <1>1, DigitsAre
<1>5. child.count \in Nat
  BY <1>1, Spans DEF Positions
<1> HIDE DEF child, T
<1>6. Used(child) <= Slots
  <2> SUFFICES ASSUME Used(child) > Slots PROVE FALSE
    BY <1>3, <1>4
  <2>1. Slots \in Digits(child)
    BY <1>3, <1>4 DEF Digits
  <2>2. Slots * T < child.count
    BY <1>1, <1>3, <1>4, <2>1 DEF Digital, T
  <2>3. Slots * T \in Nat
    BY <1>3
  <2> QED BY <1>1, <1>3, <1>5, <2>2, <2>3
<1>7. Base(child) = 0
  BY <1>1 DEF Base
<1> QED BY <1>1, <1>3, <1>6, <1>7 DEF Fits, child

\* The heights a root can have, and the one it has (rootPosition).
Roomy(count, height) == count = 0 \/ count - 1 < (Slots - 1) * Span(height)

\* The root has a slot for every digit, and no lower one would have (rootPosition).
LEMMA RootIs ==
    ASSUME NEW count \in 0..MaxUint
    PROVE  LET top == RootPosition(count) IN
           /\ Fits(top) /\ top.count = count /\ top.root = TRUE /\ Base(top) = 1
           /\ \A h \in 0..Width : Roomy(count, h) <=> h >= top.height
<1> DEFINE top == RootPosition(count)
           H == {h \in 0..Width : count = 0 \/ Shr(count - 1, h * Bits) < Slots - 1}
<1>1. /\ count \in Nat /\ MaxUint \in Nat /\ Slots \in Nat /\ Slots >= 2 /\ Width \in Nat
      /\ \A h \in 0..Width : Span(h) \in Nat \ {0}
  BY Spans, ListAssumption
<1>2. \A h \in 0..Width : h \in H <=> Roomy(count, h)
  <2> TAKE h \in 0..Width
  <2>1. Shr(count - 1, h * Bits) = (count - 1) \div Span(h)
    BY DEF Shr, Span
  <2> DEFINE S == Span(h)
             x == count - 1
             k == Slots - 1
  <2>2. S \in Nat \ {0} /\ k \in Nat
    BY <1>1
  <2>3. count # 0 => (x \div S < k <=> x < k * S)
    <3> SUFFICES ASSUME count # 0 PROVE x \div S < k <=> x < k * S
      OBVIOUS
    <3>1. x \in Nat
      BY <1>1
    <3> HIDE DEF S, x, k
    <3>2. k <= x \div S <=> k * S <= x
      BY <2>2, <3>1
    <3>3. x \div S \in Nat /\ k * S \in Nat
      BY <2>2, <3>1
    <3> QED BY <2>2, <3>1, <3>2, <3>3
  <2> QED BY <2>1, <2>3 DEF Roomy
<1>3. \A h \in 0..(Width - 1) : Roomy(count, h) => Roomy(count, h + 1)
  <2> SUFFICES ASSUME NEW h \in 0..(Width - 1), Roomy(count, h) PROVE Roomy(count, h + 1)
    OBVIOUS
  <2>1. h + 1 \in 1..Width /\ (h + 1) - 1 = h /\ h \in 0..Width
    BY <1>1
  <2>2. Span(h + 1) = Slots * Span(h)
    BY <2>1, Spans
  <2> DEFINE S == Span(h)
             T == Span(h + 1)
             k == Slots - 1
  <2>3. S \in Nat \ {0} /\ k \in Nat /\ T = (k + 1) * S
    BY <1>1, <2>1, <2>2
  <2> HIDE DEF S, T, k
  <2>4. T = k * S + S
    BY <2>3
  <2>5. k * T = k * (k * S) + k * S /\ k * (k * S) \in Nat /\ k * S \in Nat
    BY <2>3, <2>4
  <2>6. k * S <= k * T
    BY <2>5
  <2>7. count = 0 \/ count - 1 < k * S
    BY DEF Roomy, S, k
  <2>8. k * T \in Nat
    BY <2>5
  <2>9. count = 0 \/ count - 1 < k * T
    BY <1>1, <2>5, <2>6, <2>7, <2>8
  <2> QED BY <2>9 DEF Roomy, T, k
<1>4. Roomy(count, Width)
  <2> DEFINE S == Span(Width)
             k == Slots - 1
  <2>1. S \in Nat /\ S > MaxUint /\ k \in Nat /\ k >= 1
    BY <1>1, Spans
  <2> HIDE DEF S, k
  <2>2. k * S = S + (k - 1) * S /\ (k - 1) * S \in Nat
    BY <2>1
  <2>3. count - 1 < k * S
    BY <1>1, <2>1, <2>2
  <2> QED BY <2>3 DEF Roomy, S, k
<1>5. H \subseteq Nat /\ H # {} /\ Width \in H
  BY <1>1, <1>2, <1>4
<1>6. PICK m \in H : \A h \in H : m <= h
  BY <1>5, LeastDepth
<1>7. Min(H) \in H /\ \A h \in H : Min(H) <= h
  BY <1>6 DEF Min
<1>8. top = Position(count, Min(H), TRUE)
  BY DEF RootPosition
<1> DEFINE t == Min(H)
<1> HIDE DEF H, t
<1>9. top.count = count /\ top.height = t /\ top.root = TRUE /\ t \in 0..Width /\ Roomy(count, t)
  BY <1>2, <1>7, <1>8 DEF Position, t, H
<1>10. top \in Positions
  BY <1>8, <1>9 DEF Position, Positions, t
<1>11. \A h \in 0..Width : Roomy(count, h) <=> h >= t
  <2>1. ASSUME NEW h \in 0..Width, Roomy(count, h) PROVE h >= t
    BY <1>2, <1>7, <1>9, <2>1 DEF t
  <2>2. ASSUME NEW h \in 0..Width, h >= t PROVE Roomy(count, h)
    <3> DEFINE R == {k \in 0..(Width - t) : Roomy(count, t + k)}
    <3>1. 0 \in R
      <4>1. t + 0 = t /\ 0 \in 0..(Width - t)
        BY <1>1, <1>9
      <4> QED BY <1>9, <4>1
    <3>2. \A k \in 0..((Width - t) - 1) : k \in R => k + 1 \in R
      <4> SUFFICES ASSUME NEW k \in 0..((Width - t) - 1), k \in R PROVE k + 1 \in R
        OBVIOUS
      <4>1. t + k \in 0..(Width - 1) /\ (t + k) + 1 = t + (k + 1) /\ k + 1 \in 0..(Width - t)
        BY <1>1, <1>9
      <4> QED BY <1>3, <4>1
    <3>3. Width - t \in Nat /\ h - t \in 0..(Width - t) /\ t + (h - t) = h
      BY <1>1, <1>9, <2>2
    <3>4. 0..(Width - t) \subseteq R
      <4> HIDE DEF R
      <4> QED BY <3>1, <3>2, <3>3, Upwards
    <3>5. h - t \in R
      <4> HIDE DEF R
      <4> QED BY <3>3, <3>4
    <3> QED BY <3>3, <3>5
  <2> QED BY <2>1, <2>2
<1>12. Base(top) = 1
  BY <1>9 DEF Base
<1>13. Used(top) <= Slots - 1
  <2>1. Used(top) \in Nat /\ Digital(top)
    BY <1>10, DigitsAre
  <2> SUFFICES ASSUME Used(top) > Slots - 1 PROVE FALSE
    BY <1>1, <2>1
  <2>2. Slots - 1 \in Digits(top)
    BY <1>1, <2>1 DEF Digits
  <2>3. (Slots - 1) * Span(t) < count
    BY <1>1, <1>9, <2>1, <2>2 DEF Digital
  <2>4. (Slots - 1) * Span(t) \in Nat /\ count # 0 /\ count - 1 < (Slots - 1) * Span(t)
    <3>1. (Slots - 1) * Span(t) \in Nat
      BY <1>1, <1>9
    <3>2. count # 0
      BY <1>1, <2>3, <3>1
    <3> QED BY <1>9, <3>1, <3>2 DEF Roomy
  <2> QED BY <1>1, <2>3, <2>4
<1> QED BY <1>9, <1>10, <1>11, <1>12, <1>13 DEF Fits

-----------------------------------------------------------------------------
(* The recursions over the height have solutions, and unfold.               *)

\* What is built for the heights up to k (build).
BuildsUpTo(f, items, meta, k) ==
    f = [height \in 0..k |-> BuildsAt(f[height - 1], items, meta, height)]

\* A node is built of the nodes below it (builder.listNode).
LEMMA BuildsUnfold ==
    ASSUME NEW items, NEW meta
    PROVE  \A h \in 0..Width :
               Builds(items, meta)[h] = BuildsAt(Builds(items, meta)[h - 1], items, meta, h)
<1> DEFINE At(x, h) == BuildsAt(x, items, meta, h)
           UpTo(f, k) == BuildsUpTo(f, items, meta, k)
           K == {k \in 0..Width : \E f : UpTo(f, k)}
<1>1. Width \in Nat
  BY ListAssumption
<1>2. \A x, y : At(x, 0) = At(y, 0)
  BY DEF BuildsAt
<1>3. \A f, k : UpTo(f, k) <=> f = [h \in 0..k |-> At(f[h - 1], h)]
  BY DEF BuildsUpTo
<1>4. Builds(items, meta) = CHOOSE f : UpTo(f, Width)
  BY DEF Builds, BuildsUpTo
<1> HIDE DEF At, UpTo
<1>5. 0 \in K
  <2> DEFINE f == [h \in 0..0 |-> At(h, 0)]
  <2>1. f = [h \in 0..0 |-> At(f[h - 1], h)]
    <3>1. \A h \in 0..0 : h = 0
      OBVIOUS
    <3>2. \A h \in 0..0 : At(h, 0) = At(f[h - 1], h)
      BY <1>2, <3>1
    <3> QED BY <3>2
  <2>2. UpTo(f, 0)
    <3> HIDE DEF f
    <3> QED BY <1>3, <2>1
  <2>3. 0 \in 0..Width
    BY <1>1
  <2> QED BY <2>2, <2>3
<1>6. \A k \in 0..(Width - 1) : k \in K => k + 1 \in K
  <2> SUFFICES ASSUME NEW k \in 0..(Width - 1), k \in K PROVE k + 1 \in K
    OBVIOUS
  <2>1. PICK f : UpTo(f, k)
    OBVIOUS
  <2>2. f = [h \in 0..k |-> At(f[h - 1], h)]
    BY <1>3, <2>1
  <2> DEFINE g == [h \in 0..(k + 1) |-> IF h <= k THEN f[h] ELSE At(f[k], h)]
  <2>3. \A h \in 0..(k + 1) : g[h] = At(g[h - 1], h)
    <3> TAKE h \in 0..(k + 1)
    <3>1. CASE h = 0
      <4>1. g[h] = f[h] /\ f[h] = At(f[h - 1], h)
        BY <1>1, <2>2, <3>1
      <4> QED BY <1>2, <3>1, <4>1
    <3>2. CASE h \in 1..k
      <4>1. h \in 0..k /\ h - 1 \in 0..k /\ h - 1 \in 0..(k + 1) /\ h - 1 <= k /\ h <= k
        BY <3>2
      <4>2. g[h] = f[h] /\ g[h - 1] = f[h - 1] /\ f[h] = At(f[h - 1], h)
        BY <2>2, <4>1
      <4> QED BY <4>2
    <3>3. CASE h = k + 1
      <4>1. ~(h <= k) /\ h - 1 = k /\ k <= k /\ k \in 0..(k + 1)
        BY <1>1, <3>3
      <4>2. g[h] = At(f[k], h) /\ g[k] = f[k]
        BY <4>1
      <4> QED BY <4>1, <4>2
    <3> QED BY <1>1, <3>1, <3>2, <3>3
  <2>4. g = [h \in 0..(k + 1) |-> At(g[h - 1], h)]
    <3> HIDE DEF g
    <3>1. g = [h \in 0..(k + 1) |-> g[h]]
      BY DEF g
    <3> QED BY <2>3, <3>1
  <2>5. UpTo(g, k + 1)
    BY <1>3, <2>4
  <2> QED BY <1>1, <2>5
<1>7. Width \in K
  <2>1. Width \in 0..Width
    BY <1>1
  <2> HIDE DEF K
  <2> QED BY <1>1, <1>5, <1>6, <2>1, Upwards
<1>8. UpTo(Builds(items, meta), Width)
  BY <1>4, <1>7
<1>9. Builds(items, meta) = [h \in 0..Width |-> At(Builds(items, meta)[h - 1], h)]
  BY <1>3, <1>8
<1> DEFINE F == Builds(items, meta)
<1> HIDE DEF F
<1>10. \A h \in 0..Width : F[h] = At(F[h - 1], h)
  BY <1>9 DEF F
<1> QED BY <1>10 DEF At, F

\* What grows, for the heights up to k (appendNode).
GrowsUpTo(f, store, items, meta, k) ==
    f = [height \in 0..k |-> GrowsAt(f[height - 1], store, items, meta, height)]

\* A node grows by what its children become (nodeEdit.appendNode).
LEMMA GrowsUnfold ==
    ASSUME NEW store, NEW items, NEW meta
    PROVE  \A h \in 0..Width :
               Grows(store, items, meta)[h] = GrowsAt(Grows(store, items, meta)[h - 1], store, items, meta, h)
<1> DEFINE At(x, h) == GrowsAt(x, store, items, meta, h)
           UpTo(f, k) == GrowsUpTo(f, store, items, meta, k)
           K == {k \in 0..Width : \E f : UpTo(f, k)}
<1>1. Width \in Nat
  BY ListAssumption
<1>2. \A x, y : At(x, 0) = At(y, 0)
  BY DEF GrowsAt
<1>3. \A f, k : UpTo(f, k) <=> f = [h \in 0..k |-> At(f[h - 1], h)]
  BY DEF GrowsUpTo
<1>4. Grows(store, items, meta) = CHOOSE f : UpTo(f, Width)
  BY DEF Grows, GrowsUpTo
<1> HIDE DEF At, UpTo
<1>5. 0 \in K
  <2> DEFINE f == [h \in 0..0 |-> At(h, 0)]
  <2>1. f = [h \in 0..0 |-> At(f[h - 1], h)]
    <3>1. \A h \in 0..0 : h = 0
      OBVIOUS
    <3>2. \A h \in 0..0 : At(h, 0) = At(f[h - 1], h)
      BY <1>2, <3>1
    <3> QED BY <3>2
  <2>2. UpTo(f, 0)
    <3> HIDE DEF f
    <3> QED BY <1>3, <2>1
  <2>3. 0 \in 0..Width
    BY <1>1
  <2> QED BY <2>2, <2>3
<1>6. \A k \in 0..(Width - 1) : k \in K => k + 1 \in K
  <2> SUFFICES ASSUME NEW k \in 0..(Width - 1), k \in K PROVE k + 1 \in K
    OBVIOUS
  <2>1. PICK f : UpTo(f, k)
    OBVIOUS
  <2>2. f = [h \in 0..k |-> At(f[h - 1], h)]
    BY <1>3, <2>1
  <2> DEFINE g == [h \in 0..(k + 1) |-> IF h <= k THEN f[h] ELSE At(f[k], h)]
  <2>3. \A h \in 0..(k + 1) : g[h] = At(g[h - 1], h)
    <3> TAKE h \in 0..(k + 1)
    <3>1. CASE h = 0
      <4>1. g[h] = f[h] /\ f[h] = At(f[h - 1], h)
        BY <1>1, <2>2, <3>1
      <4> QED BY <1>2, <3>1, <4>1
    <3>2. CASE h \in 1..k
      <4>1. h \in 0..k /\ h - 1 \in 0..k /\ h - 1 \in 0..(k + 1) /\ h - 1 <= k /\ h <= k
        BY <3>2
      <4>2. g[h] = f[h] /\ g[h - 1] = f[h - 1] /\ f[h] = At(f[h - 1], h)
        BY <2>2, <4>1
      <4> QED BY <4>2
    <3>3. CASE h = k + 1
      <4>1. ~(h <= k) /\ h - 1 = k /\ k <= k /\ k \in 0..(k + 1)
        BY <1>1, <3>3
      <4>2. g[h] = At(f[k], h) /\ g[k] = f[k]
        BY <4>1
      <4> QED BY <4>1, <4>2
    <3> QED BY <1>1, <3>1, <3>2, <3>3
  <2>4. g = [h \in 0..(k + 1) |-> At(g[h - 1], h)]
    <3> HIDE DEF g
    <3>1. g = [h \in 0..(k + 1) |-> g[h]]
      BY DEF g
    <3> QED BY <2>3, <3>1
  <2>5. UpTo(g, k + 1)
    BY <1>3, <2>4
  <2> QED BY <1>1, <2>5
<1>7. Width \in K
  <2>1. Width \in 0..Width
    BY <1>1
  <2> HIDE DEF K
  <2> QED BY <1>1, <1>5, <1>6, <2>1, Upwards
<1>8. UpTo(Grows(store, items, meta), Width)
  BY <1>4, <1>7
<1>9. Grows(store, items, meta) = [h \in 0..Width |-> At(Grows(store, items, meta)[h - 1], h)]
  BY <1>3, <1>8
<1> DEFINE F == Grows(store, items, meta)
<1> HIDE DEF F
<1>10. \A h \in 0..Width : F[h] = At(F[h - 1], h)
  BY <1>9 DEF F
<1> QED BY <1>10 DEF At, F

\* What is cut, for the heights up to k (truncateNode).
CutsUpTo(f, store, meta, k) ==
    f = [height \in 0..k |-> CutsAt(f[height - 1], store, meta, height)]

\* A node is cut by cutting its children (nodeEdit.truncateNode).
LEMMA CutsUnfold ==
    ASSUME NEW store, NEW meta
    PROVE  \A h \in 0..Width :
               Cuts(store, meta)[h] = CutsAt(Cuts(store, meta)[h - 1], store, meta, h)
<1> DEFINE At(x, h) == CutsAt(x, store, meta, h)
           UpTo(f, k) == CutsUpTo(f, store, meta, k)
           K == {k \in 0..Width : \E f : UpTo(f, k)}
<1>1. Width \in Nat
  BY ListAssumption
<1>2. \A x, y : At(x, 0) = At(y, 0)
  BY DEF CutsAt
<1>3. \A f, k : UpTo(f, k) <=> f = [h \in 0..k |-> At(f[h - 1], h)]
  BY DEF CutsUpTo
<1>4. Cuts(store, meta) = CHOOSE f : UpTo(f, Width)
  BY DEF Cuts, CutsUpTo
<1> HIDE DEF At, UpTo
<1>5. 0 \in K
  <2> DEFINE f == [h \in 0..0 |-> At(h, 0)]
  <2>1. f = [h \in 0..0 |-> At(f[h - 1], h)]
    <3>1. \A h \in 0..0 : h = 0
      OBVIOUS
    <3>2. \A h \in 0..0 : At(h, 0) = At(f[h - 1], h)
      BY <1>2, <3>1
    <3> QED BY <3>2
  <2>2. UpTo(f, 0)
    <3> HIDE DEF f
    <3> QED BY <1>3, <2>1
  <2>3. 0 \in 0..Width
    BY <1>1
  <2> QED BY <2>2, <2>3
<1>6. \A k \in 0..(Width - 1) : k \in K => k + 1 \in K
  <2> SUFFICES ASSUME NEW k \in 0..(Width - 1), k \in K PROVE k + 1 \in K
    OBVIOUS
  <2>1. PICK f : UpTo(f, k)
    OBVIOUS
  <2>2. f = [h \in 0..k |-> At(f[h - 1], h)]
    BY <1>3, <2>1
  <2> DEFINE g == [h \in 0..(k + 1) |-> IF h <= k THEN f[h] ELSE At(f[k], h)]
  <2>3. \A h \in 0..(k + 1) : g[h] = At(g[h - 1], h)
    <3> TAKE h \in 0..(k + 1)
    <3>1. CASE h = 0
      <4>1. g[h] = f[h] /\ f[h] = At(f[h - 1], h)
        BY <1>1, <2>2, <3>1
      <4> QED BY <1>2, <3>1, <4>1
    <3>2. CASE h \in 1..k
      <4>1. h \in 0..k /\ h - 1 \in 0..k /\ h - 1 \in 0..(k + 1) /\ h - 1 <= k /\ h <= k
        BY <3>2
      <4>2. g[h] = f[h] /\ g[h - 1] = f[h - 1] /\ f[h] = At(f[h - 1], h)
        BY <2>2, <4>1
      <4> QED BY <4>2
    <3>3. CASE h = k + 1
      <4>1. ~(h <= k) /\ h - 1 = k /\ k <= k /\ k \in 0..(k + 1)
        BY <1>1, <3>3
      <4>2. g[h] = At(f[k], h) /\ g[k] = f[k]
        BY <4>1
      <4> QED BY <4>1, <4>2
    <3> QED BY <1>1, <3>1, <3>2, <3>3
  <2>4. g = [h \in 0..(k + 1) |-> At(g[h - 1], h)]
    <3> HIDE DEF g
    <3>1. g = [h \in 0..(k + 1) |-> g[h]]
      BY DEF g
    <3> QED BY <2>3, <3>1
  <2>5. UpTo(g, k + 1)
    BY <1>3, <2>4
  <2> QED BY <1>1, <2>5
<1>7. Width \in K
  <2>1. Width \in 0..Width
    BY <1>1
  <2> HIDE DEF K
  <2> QED BY <1>1, <1>5, <1>6, <2>1, Upwards
<1>8. UpTo(Cuts(store, meta), Width)
  BY <1>4, <1>7
<1>9. Cuts(store, meta) = [h \in 0..Width |-> At(Cuts(store, meta)[h - 1], h)]
  BY <1>3, <1>8
<1> DEFINE F == Cuts(store, meta)
<1> HIDE DEF F
<1>10. \A h \in 0..Width : F[h] = At(F[h - 1], h)
  BY <1>9 DEF F
<1> QED BY <1>10 DEF At, F

\* What is replaced, for the heights up to k (applyList).
ReplacesUpTo(f, store, changes, k) ==
    f = [height \in 0..k |-> ReplacesAt(f[height - 1], store, changes, height)]

\* A node is changed by changing its children (nodeEdit.replace).
LEMMA ReplacesUnfold ==
    ASSUME NEW store, NEW changes
    PROVE  \A h \in 0..Width :
               Replaces(store, changes)[h] = ReplacesAt(Replaces(store, changes)[h - 1], store, changes, h)
<1> DEFINE At(x, h) == ReplacesAt(x, store, changes, h)
           UpTo(f, k) == ReplacesUpTo(f, store, changes, k)
           K == {k \in 0..Width : \E f : UpTo(f, k)}
<1>1. Width \in Nat
  BY ListAssumption
<1>2. \A x, y : At(x, 0) = At(y, 0)
  BY DEF ReplacesAt
<1>3. \A f, k : UpTo(f, k) <=> f = [h \in 0..k |-> At(f[h - 1], h)]
  BY DEF ReplacesUpTo
<1>4. Replaces(store, changes) = CHOOSE f : UpTo(f, Width)
  BY DEF Replaces, ReplacesUpTo
<1> HIDE DEF At, UpTo
<1>5. 0 \in K
  <2> DEFINE f == [h \in 0..0 |-> At(h, 0)]
  <2>1. f = [h \in 0..0 |-> At(f[h - 1], h)]
    <3>1. \A h \in 0..0 : h = 0
      OBVIOUS
    <3>2. \A h \in 0..0 : At(h, 0) = At(f[h - 1], h)
      BY <1>2, <3>1
    <3> QED BY <3>2
  <2>2. UpTo(f, 0)
    <3> HIDE DEF f
    <3> QED BY <1>3, <2>1
  <2>3. 0 \in 0..Width
    BY <1>1
  <2> QED BY <2>2, <2>3
<1>6. \A k \in 0..(Width - 1) : k \in K => k + 1 \in K
  <2> SUFFICES ASSUME NEW k \in 0..(Width - 1), k \in K PROVE k + 1 \in K
    OBVIOUS
  <2>1. PICK f : UpTo(f, k)
    OBVIOUS
  <2>2. f = [h \in 0..k |-> At(f[h - 1], h)]
    BY <1>3, <2>1
  <2> DEFINE g == [h \in 0..(k + 1) |-> IF h <= k THEN f[h] ELSE At(f[k], h)]
  <2>3. \A h \in 0..(k + 1) : g[h] = At(g[h - 1], h)
    <3> TAKE h \in 0..(k + 1)
    <3>1. CASE h = 0
      <4>1. g[h] = f[h] /\ f[h] = At(f[h - 1], h)
        BY <1>1, <2>2, <3>1
      <4> QED BY <1>2, <3>1, <4>1
    <3>2. CASE h \in 1..k
      <4>1. h \in 0..k /\ h - 1 \in 0..k /\ h - 1 \in 0..(k + 1) /\ h - 1 <= k /\ h <= k
        BY <3>2
      <4>2. g[h] = f[h] /\ g[h - 1] = f[h - 1] /\ f[h] = At(f[h - 1], h)
        BY <2>2, <4>1
      <4> QED BY <4>2
    <3>3. CASE h = k + 1
      <4>1. ~(h <= k) /\ h - 1 = k /\ k <= k /\ k \in 0..(k + 1)
        BY <1>1, <3>3
      <4>2. g[h] = At(f[k], h) /\ g[k] = f[k]
        BY <4>1
      <4> QED BY <4>1, <4>2
    <3> QED BY <1>1, <3>1, <3>2, <3>3
  <2>4. g = [h \in 0..(k + 1) |-> At(g[h - 1], h)]
    <3> HIDE DEF g
    <3>1. g = [h \in 0..(k + 1) |-> g[h]]
      BY DEF g
    <3> QED BY <2>3, <3>1
  <2>5. UpTo(g, k + 1)
    BY <1>3, <2>4
  <2> QED BY <1>1, <2>5
<1>7. Width \in K
  <2>1. Width \in 0..Width
    BY <1>1
  <2> HIDE DEF K
  <2> QED BY <1>1, <1>5, <1>6, <2>1, Upwards
<1>8. UpTo(Replaces(store, changes), Width)
  BY <1>4, <1>7
<1>9. Replaces(store, changes) = [h \in 0..Width |-> At(Replaces(store, changes)[h - 1], h)]
  BY <1>3, <1>8
<1> DEFINE F == Replaces(store, changes)
<1> HIDE DEF F
<1>10. \A h \in 0..Width : F[h] = At(F[h - 1], h)
  BY <1>9 DEF F
<1> QED BY <1>10 DEF At, F

\* The targets below nodes, for the heights up to k (walk).
ItemsBelowUpTo(f, nodes, k) ==
    f = [height \in 0..k |-> ItemsAt(f[height - 1], nodes, height)]

\* The items of a node are those of its children (SnapshotBounded).
LEMMA ItemsBelowUnfold ==
    ASSUME NEW nodes
    PROVE  \A h \in 0..Width :
               ItemsBelow(nodes)[h] = ItemsAt(ItemsBelow(nodes)[h - 1], nodes, h)
<1> DEFINE At(x, h) == ItemsAt(x, nodes, h)
           UpTo(f, k) == ItemsBelowUpTo(f, nodes, k)
           K == {k \in 0..Width : \E f : UpTo(f, k)}
<1>1. Width \in Nat
  BY ListAssumption
<1>2. \A x, y : At(x, 0) = At(y, 0)
  BY DEF ItemsAt
<1>3. \A f, k : UpTo(f, k) <=> f = [h \in 0..k |-> At(f[h - 1], h)]
  BY DEF ItemsBelowUpTo
<1>4. ItemsBelow(nodes) = CHOOSE f : UpTo(f, Width)
  BY DEF ItemsBelow, ItemsBelowUpTo
<1> HIDE DEF At, UpTo
<1>5. 0 \in K
  <2> DEFINE f == [h \in 0..0 |-> At(h, 0)]
  <2>1. f = [h \in 0..0 |-> At(f[h - 1], h)]
    <3>1. \A h \in 0..0 : h = 0
      OBVIOUS
    <3>2. \A h \in 0..0 : At(h, 0) = At(f[h - 1], h)
      BY <1>2, <3>1
    <3> QED BY <3>2
  <2>2. UpTo(f, 0)
    <3> HIDE DEF f
    <3> QED BY <1>3, <2>1
  <2>3. 0 \in 0..Width
    BY <1>1
  <2> QED BY <2>2, <2>3
<1>6. \A k \in 0..(Width - 1) : k \in K => k + 1 \in K
  <2> SUFFICES ASSUME NEW k \in 0..(Width - 1), k \in K PROVE k + 1 \in K
    OBVIOUS
  <2>1. PICK f : UpTo(f, k)
    OBVIOUS
  <2>2. f = [h \in 0..k |-> At(f[h - 1], h)]
    BY <1>3, <2>1
  <2> DEFINE g == [h \in 0..(k + 1) |-> IF h <= k THEN f[h] ELSE At(f[k], h)]
  <2>3. \A h \in 0..(k + 1) : g[h] = At(g[h - 1], h)
    <3> TAKE h \in 0..(k + 1)
    <3>1. CASE h = 0
      <4>1. g[h] = f[h] /\ f[h] = At(f[h - 1], h)
        BY <1>1, <2>2, <3>1
      <4> QED BY <1>2, <3>1, <4>1
    <3>2. CASE h \in 1..k
      <4>1. h \in 0..k /\ h - 1 \in 0..k /\ h - 1 \in 0..(k + 1) /\ h - 1 <= k /\ h <= k
        BY <3>2
      <4>2. g[h] = f[h] /\ g[h - 1] = f[h - 1] /\ f[h] = At(f[h - 1], h)
        BY <2>2, <4>1
      <4> QED BY <4>2
    <3>3. CASE h = k + 1
      <4>1. ~(h <= k) /\ h - 1 = k /\ k <= k /\ k \in 0..(k + 1)
        BY <1>1, <3>3
      <4>2. g[h] = At(f[k], h) /\ g[k] = f[k]
        BY <4>1
      <4> QED BY <4>1, <4>2
    <3> QED BY <1>1, <3>1, <3>2, <3>3
  <2>4. g = [h \in 0..(k + 1) |-> At(g[h - 1], h)]
    <3> HIDE DEF g
    <3>1. g = [h \in 0..(k + 1) |-> g[h]]
      BY DEF g
    <3> QED BY <2>3, <3>1
  <2>5. UpTo(g, k + 1)
    BY <1>3, <2>4
  <2> QED BY <1>1, <2>5
<1>7. Width \in K
  <2>1. Width \in 0..Width
    BY <1>1
  <2> HIDE DEF K
  <2> QED BY <1>1, <1>5, <1>6, <2>1, Upwards
<1>8. UpTo(ItemsBelow(nodes), Width)
  BY <1>4, <1>7
<1>9. ItemsBelow(nodes) = [h \in 0..Width |-> At(ItemsBelow(nodes)[h - 1], h)]
  BY <1>3, <1>8
<1> DEFINE F == ItemsBelow(nodes)
<1> HIDE DEF F
<1>10. \A h \in 0..Width : F[h] = At(F[h - 1], h)
  BY <1>9 DEF F
<1> QED BY <1>10 DEF At, F

\* The walks of a Snapshot.
WalksUpTo(f, store, k) == f = [height \in 0..k |-> WalksAt(f[height - 1], store, height)]

\* A walk of a node takes those of its children (snapshotItems).
LEMMA WalksUnfold ==
    ASSUME NEW store
    PROVE  \A h \in 0..Width :
               Walks(store)[h] = WalksAt(Walks(store)[h - 1], store, h)
<1> DEFINE At(x, h) == WalksAt(x, store, h)
           UpTo(f, k) == WalksUpTo(f, store, k)
           K == {k \in 0..Width : \E f : UpTo(f, k)}
<1>1. Width \in Nat
  BY ListAssumption
<1>2. \A x, y : At(x, 0) = At(y, 0)
  BY DEF WalksAt
<1>3. \A f, k : UpTo(f, k) <=> f = [h \in 0..k |-> At(f[h - 1], h)]
  BY DEF WalksUpTo
<1>4. Walks(store) = CHOOSE f : UpTo(f, Width)
  BY DEF Walks, WalksUpTo
<1> HIDE DEF At, UpTo
<1>5. 0 \in K
  <2> DEFINE f == [h \in 0..0 |-> At(h, 0)]
  <2>1. f = [h \in 0..0 |-> At(f[h - 1], h)]
    <3>1. \A h \in 0..0 : h = 0
      OBVIOUS
    <3>2. \A h \in 0..0 : At(h, 0) = At(f[h - 1], h)
      BY <1>2, <3>1
    <3> QED BY <3>2
  <2>2. UpTo(f, 0)
    <3> HIDE DEF f
    <3> QED BY <1>3, <2>1
  <2>3. 0 \in 0..Width
    BY <1>1
  <2> QED BY <2>2, <2>3
<1>6. \A k \in 0..(Width - 1) : k \in K => k + 1 \in K
  <2> SUFFICES ASSUME NEW k \in 0..(Width - 1), k \in K PROVE k + 1 \in K
    OBVIOUS
  <2>1. PICK f : UpTo(f, k)
    OBVIOUS
  <2>2. f = [h \in 0..k |-> At(f[h - 1], h)]
    BY <1>3, <2>1
  <2> DEFINE g == [h \in 0..(k + 1) |-> IF h <= k THEN f[h] ELSE At(f[k], h)]
  <2>3. \A h \in 0..(k + 1) : g[h] = At(g[h - 1], h)
    <3> TAKE h \in 0..(k + 1)
    <3>1. CASE h = 0
      <4>1. g[h] = f[h] /\ f[h] = At(f[h - 1], h)
        BY <1>1, <2>2, <3>1
      <4> QED BY <1>2, <3>1, <4>1
    <3>2. CASE h \in 1..k
      <4>1. h \in 0..k /\ h - 1 \in 0..k /\ h - 1 \in 0..(k + 1) /\ h - 1 <= k /\ h <= k
        BY <3>2
      <4>2. g[h] = f[h] /\ g[h - 1] = f[h - 1] /\ f[h] = At(f[h - 1], h)
        BY <2>2, <4>1
      <4> QED BY <4>2
    <3>3. CASE h = k + 1
      <4>1. ~(h <= k) /\ h - 1 = k /\ k <= k /\ k \in 0..(k + 1)
        BY <1>1, <3>3
      <4>2. g[h] = At(f[k], h) /\ g[k] = f[k]
        BY <4>1
      <4> QED BY <4>1, <4>2
    <3> QED BY <1>1, <3>1, <3>2, <3>3
  <2>4. g = [h \in 0..(k + 1) |-> At(g[h - 1], h)]
    <3> HIDE DEF g
    <3>1. g = [h \in 0..(k + 1) |-> g[h]]
      BY DEF g
    <3> QED BY <2>3, <3>1
  <2>5. UpTo(g, k + 1)
    BY <1>3, <2>4
  <2> QED BY <1>1, <2>5
<1>7. Width \in K
  <2>1. Width \in 0..Width
    BY <1>1
  <2> HIDE DEF K
  <2> QED BY <1>1, <1>5, <1>6, <2>1, Upwards
<1>8. UpTo(Walks(store), Width)
  BY <1>4, <1>7
<1>9. Walks(store) = [h \in 0..Width |-> At(Walks(store)[h - 1], h)]
  BY <1>3, <1>8
<1> DEFINE F == Walks(store)
<1> HIDE DEF F
<1>10. \A h \in 0..Width : F[h] = At(F[h - 1], h)
  BY <1>9 DEF F
<1> QED BY <1>10 DEF At, F

\* The nodes of one depth are the children of those above.
LayerAt(above, base, depth) ==
    IF depth = 0 THEN {base} ELSE UNION {ChildNodes(n) : n \in above}

\* The nodes below a root, for the depths up to k.
LayersUpTo(f, base, k) ==
    f = [height \in 0..k |-> LayerAt(f[height - 1], base, height)]

\* The nodes of a layer are the children of the one above.
LEMMA LayersUnfold ==
    ASSUME NEW base
    PROVE  \A h \in 0..Width :
               Layers(base)[h] = LayerAt(Layers(base)[h - 1], base, h)
<1> DEFINE At(x, h) == LayerAt(x, base, h)
           UpTo(f, k) == LayersUpTo(f, base, k)
           K == {k \in 0..Width : \E f : UpTo(f, k)}
<1>1. Width \in Nat
  BY ListAssumption
<1>2. \A x, y : At(x, 0) = At(y, 0)
  BY DEF LayerAt
<1>3. \A f, k : UpTo(f, k) <=> f = [h \in 0..k |-> At(f[h - 1], h)]
  BY DEF LayersUpTo
<1>4. Layers(base) = CHOOSE f : UpTo(f, Width)
  BY DEF Layers, LayersUpTo, LayerAt
<1> HIDE DEF At, UpTo
<1>5. 0 \in K
  <2> DEFINE f == [h \in 0..0 |-> At(h, 0)]
  <2>1. f = [h \in 0..0 |-> At(f[h - 1], h)]
    <3>1. \A h \in 0..0 : h = 0
      OBVIOUS
    <3>2. \A h \in 0..0 : At(h, 0) = At(f[h - 1], h)
      BY <1>2, <3>1
    <3> QED BY <3>2
  <2>2. UpTo(f, 0)
    <3> HIDE DEF f
    <3> QED BY <1>3, <2>1
  <2>3. 0 \in 0..Width
    BY <1>1
  <2> QED BY <2>2, <2>3
<1>6. \A k \in 0..(Width - 1) : k \in K => k + 1 \in K
  <2> SUFFICES ASSUME NEW k \in 0..(Width - 1), k \in K PROVE k + 1 \in K
    OBVIOUS
  <2>1. PICK f : UpTo(f, k)
    OBVIOUS
  <2>2. f = [h \in 0..k |-> At(f[h - 1], h)]
    BY <1>3, <2>1
  <2> DEFINE g == [h \in 0..(k + 1) |-> IF h <= k THEN f[h] ELSE At(f[k], h)]
  <2>3. \A h \in 0..(k + 1) : g[h] = At(g[h - 1], h)
    <3> TAKE h \in 0..(k + 1)
    <3>1. CASE h = 0
      <4>1. g[h] = f[h] /\ f[h] = At(f[h - 1], h)
        BY <1>1, <2>2, <3>1
      <4> QED BY <1>2, <3>1, <4>1
    <3>2. CASE h \in 1..k
      <4>1. h \in 0..k /\ h - 1 \in 0..k /\ h - 1 \in 0..(k + 1) /\ h - 1 <= k /\ h <= k
        BY <3>2
      <4>2. g[h] = f[h] /\ g[h - 1] = f[h - 1] /\ f[h] = At(f[h - 1], h)
        BY <2>2, <4>1
      <4> QED BY <4>2
    <3>3. CASE h = k + 1
      <4>1. ~(h <= k) /\ h - 1 = k /\ k <= k /\ k \in 0..(k + 1)
        BY <1>1, <3>3
      <4>2. g[h] = At(f[k], h) /\ g[k] = f[k]
        BY <4>1
      <4> QED BY <4>1, <4>2
    <3> QED BY <1>1, <3>1, <3>2, <3>3
  <2>4. g = [h \in 0..(k + 1) |-> At(g[h - 1], h)]
    <3> HIDE DEF g
    <3>1. g = [h \in 0..(k + 1) |-> g[h]]
      BY DEF g
    <3> QED BY <2>3, <3>1
  <2>5. UpTo(g, k + 1)
    BY <1>3, <2>4
  <2> QED BY <1>1, <2>5
<1>7. Width \in K
  <2>1. Width \in 0..Width
    BY <1>1
  <2> HIDE DEF K
  <2> QED BY <1>1, <1>5, <1>6, <2>1, Upwards
<1>8. UpTo(Layers(base), Width)
  BY <1>4, <1>7
<1>9. Layers(base) = [h \in 0..Width |-> At(Layers(base)[h - 1], h)]
  BY <1>3, <1>8
<1> DEFINE F == Layers(base)
<1> HIDE DEF F
<1>10. \A h \in 0..Width : F[h] = At(F[h - 1], h)
  BY <1>9 DEF F
<1> QED BY <1>10 DEF At, F

\* What is reached on the way down, for the heights from k on (Truncate).
LowAt(above, store, base, height) ==
    LET top == RootPosition(base[0].count) IN
    IF height >= top.height THEN [ok |-> TRUE, node |-> base, pos |-> top, reads |-> {}]
    ELSE Down(above, store)

DescendFrom(f, store, base, k) ==
    f = [height \in k..Width |-> LowAt(f[height + 1], store, base, height)]

\* Truncate goes down one level at a time (loadFirstChild).
LEMMA DescendUnfold ==
    ASSUME NEW store, NEW base, base[0].count \in 0..MaxUint
    PROVE  \A h \in 0..Width :
               Descend(store, base, h) = LowAt(Descend(store, base, h + 1), store, base, h)
<1> DEFINE At(x, h) == LowAt(x, store, base, h)
           From(f, k) == DescendFrom(f, store, base, k)
           K == {k \in 0..Width : \E f : From(f, k)}
           top == RootPosition(base[0].count)
           low == CHOOSE f : From(f, 0)
<1>1. Width \in Nat /\ top.height \in 0..Width
  <2>1. top \in Positions
    BY RootIs DEF Fits
  <2> QED BY <2>1, ListAssumption DEF Positions
<1>2. \A h \in 0..Width : h >= top.height => \A x, y : At(x, h) = At(y, h)
  BY DEF LowAt
<1>3. \A f, k : From(f, k) <=> f = [h \in k..Width |-> At(f[h + 1], h)]
  BY DEF DescendFrom
<1>4. \A h : Descend(store, base, h) = low[h]
  BY DEF Descend, DescendFrom, LowAt
<1> HIDE DEF At, From
<1>5. Width \in K
  <2> DEFINE f == [h \in Width..Width |-> At(h, h)]
  <2>1. \A h \in Width..Width : f[h] = At(f[h + 1], h)
    <3> TAKE h \in Width..Width
    <3>1. h \in 0..Width /\ h >= top.height
      BY <1>1
    <3>2. f[h] = At(h, h)
      OBVIOUS
    <3> QED BY <1>2, <3>1, <3>2
  <2>2. f = [h \in Width..Width |-> At(f[h + 1], h)]
    <3> HIDE DEF f
    <3>1. f = [h \in Width..Width |-> f[h]]
      BY DEF f
    <3> QED BY <2>1, <3>1
  <2>3. From(f, Width)
    <3> HIDE DEF f
    <3> QED BY <1>3, <2>2
  <2>4. Width \in 0..Width
    BY <1>1
  <2> QED BY <2>3, <2>4
<1>6. \A k \in 0..(Width - 1) : k + 1 \in K => k \in K
  <2> SUFFICES ASSUME NEW k \in 0..(Width - 1), k + 1 \in K PROVE k \in K
    OBVIOUS
  <2>1. PICK f : From(f, k + 1)
    OBVIOUS
  <2>2. f = [h \in (k + 1)..Width |-> At(f[h + 1], h)]
    BY <1>3, <2>1
  <2> DEFINE g == [h \in k..Width |-> IF h > k THEN f[h] ELSE At(f[k + 1], h)]
  <2>3. \A h \in k..Width : g[h] = At(g[h + 1], h)
    <3> TAKE h \in k..Width
    <3>1. CASE h = Width
      <4>1. h \in (k + 1)..Width /\ h > k /\ h \in 0..Width /\ h >= top.height
        BY <1>1, <3>1
      <4>2. g[h] = f[h] /\ f[h] = At(f[h + 1], h)
        BY <2>2, <4>1
      <4> QED BY <1>2, <4>1, <4>2
    <3>2. CASE h \in (k + 1)..(Width - 1)
      <4>1. h \in (k + 1)..Width /\ h + 1 \in (k + 1)..Width /\ h + 1 \in k..Width /\ h > k /\ h + 1 > k
        BY <1>1, <3>2
      <4>2. g[h] = f[h] /\ g[h + 1] = f[h + 1] /\ f[h] = At(f[h + 1], h)
        BY <2>2, <4>1
      <4> QED BY <4>2
    <3>3. CASE h = k
      <4>1. ~(h > k) /\ k + 1 > k /\ k + 1 \in k..Width
        BY <1>1, <3>3
      <4>2. g[h] = At(f[k + 1], h) /\ g[k + 1] = f[k + 1]
        BY <4>1
      <4> QED BY <3>3, <4>2
    <3> QED BY <1>1, <3>1, <3>2, <3>3
  <2>4. g = [h \in k..Width |-> At(g[h + 1], h)]
    <3> HIDE DEF g
    <3>1. g = [h \in k..Width |-> g[h]]
      BY DEF g
    <3> QED BY <2>3, <3>1
  <2>5. From(g, k)
    <3> HIDE DEF g
    <3> QED BY <1>3, <2>4
  <2>6. k \in 0..Width
    BY <1>1
  <2> QED BY <2>5, <2>6
<1>7. 0 \in K
  <2>1. 0 \in 0..Width
    BY <1>1
  <2> HIDE DEF K
  <2> QED BY <1>1, <1>5, <1>6, <2>1, Downwards
<1>8. From(low, 0)
  BY <1>7
<1>9. low = [h \in 0..Width |-> At(low[h + 1], h)]
  BY <1>3, <1>8
<1> HIDE DEF low
<1>10. \A h \in 0..Width : low[h] = At(low[h + 1], h)
  BY <1>9
<1> QED BY <1>4, <1>10 DEF At

-----------------------------------------------------------------------------
(* The tree of a sequence of items.                                         *)

\* The cells of a node at a position: the metadata, what the digits have, padding.
Cells(meta, pos, below) ==
    [slot \in Slot |-> IF slot < Base(pos) THEN meta
                       ELSE IF slot - Base(pos) \in Digits(pos) THEN below[slot - Base(pos)]
                       ELSE Empty]

\* The node of the items from first on, and what its digits have.
Tree(items, meta, pos, first) == Built(items, meta, pos, first).node

TreeBelow(items, meta, pos, first) ==
    [d \in Digits(pos) |->
        IF pos.height = 0 THEN Item(items[first + d])
        ELSE ChildCell(Tree(items, meta, ChildPosition(pos, d), first + Start(pos, d)))]

Children(results) == [d \in DOMAIN results |-> ChildCell(results[d].node)]

\* A node without children has a slot for every item.
LEMMA LeafDigits ==
    ASSUME NEW pos \in Positions, pos.height = 0
    PROVE  Used(pos) = pos.count /\ Digits(pos) = 0..(pos.count - 1) /\ pos.count \in Nat
<1>1. pos.count \in Nat
  BY Spans DEF Positions
<1>2. Span(pos.height) = 1
  BY Spans
<1>3. Used(pos) = IF pos.count = 0 THEN 0 ELSE ((pos.count - 1) \div Span(pos.height)) + 1
  BY DEF Used, Shr, Shift, Span
<1>4. \A x \in Int : x \div 1 = x
  OBVIOUS
<1>5. Used(pos) = pos.count
  BY <1>1, <1>2, <1>3, <1>4
<1> QED BY <1>1, <1>5 DEF Digits

\* The indices below a child are indices of the node.
LEMMA ChildWindow ==
    ASSUME NEW pos \in Positions, pos.height # 0, NEW d \in Digits(pos)
    PROVE  /\ d \in Nat /\ ChildPosition(pos, d) \in Positions /\ Start(pos, d) \in Nat
           /\ \A i \in 0..(ChildPosition(pos, d).count - 1) : Start(pos, d) + i \in 0..(pos.count - 1)
<1> DEFINE S == Span(pos.height)
           x == d * S
           child == ChildPosition(pos, d)
<1>1. d \in Nat /\ Digital(pos)
  BY DigitsAre
<1>2. /\ child \in Positions /\ Start(pos, d) = x
      /\ child.count <= S
      /\ child.count = IF pos.count - x <= S THEN pos.count - x ELSE S
  BY <1>1, ChildIs
<1>3. pos.count \in Nat /\ pos.height \in 0..Width /\ S \in Nat /\ child.count \in Nat
  BY <1>2, Spans DEF Positions
<1>4. x < pos.count
  BY <1>1, <1>3 DEF Digital
<1>5. x \in Nat
  BY <1>1, <1>3
<1> HIDE DEF S, x, child
<1> QED BY <1>1, <1>2, <1>3, <1>4, <1>5 DEF child

\* What is built is a tree of the items, written below its node first (build).
LEMMA BuiltIs ==
    ASSUME NEW items, NEW meta, NEW pos \in Positions, NEW first \in Nat
    PROVE  Built(items, meta, pos, first) =
               IF pos.height = 0 THEN Written(BuiltLeaves(items, meta, pos, first), <<>>, {})
               ELSE Combined(pos, meta,
                        [d \in Digits(pos) |->
                            Built(items, meta, ChildPosition(pos, d), first + Start(pos, d))], {})
<1>1. pos.height \in 0..Width
  BY DEF Positions
<1> DEFINE h == pos.height
           B == Builds(items, meta)
<1>2. B[h] = BuildsAt(B[h - 1], items, meta, h)
  BY <1>1, BuildsUnfold
<1>3. B[h][pos][first] =
          IF h = 0 THEN Written(BuiltLeaves(items, meta, pos, first), <<>>, {})
          ELSE Combined(pos, meta,
                  [d \in Digits(pos) |-> B[h - 1][ChildPosition(pos, d)][first + Start(pos, d)]], {})
  BY <1>2 DEF BuildsAt
<1>4. CASE h = 0
  BY <1>3, <1>4 DEF Built
<1>5. CASE h # 0
  <2>1. \A d \in Digits(pos) :
            B[h - 1][ChildPosition(pos, d)][first + Start(pos, d)] =
                Built(items, meta, ChildPosition(pos, d), first + Start(pos, d))
    <3> TAKE d \in Digits(pos)
    <3>1. d \in Nat
      BY DigitsAre
    <3>2. ChildPosition(pos, d).height = h - 1
      BY <1>5, <3>1, ChildIs
    <3> QED BY <3>2 DEF Built
  <2>2. [d \in Digits(pos) |-> B[h - 1][ChildPosition(pos, d)][first + Start(pos, d)]] =
        [d \in Digits(pos) |-> Built(items, meta, ChildPosition(pos, d), first + Start(pos, d))]
    BY <2>1
  <2> QED BY <1>3, <1>5, <2>2 DEF Built
<1> QED BY <1>4, <1>5

\* Of the results for the digits come a node and an acceptance.
LEMMA CombinedIs ==
    ASSUME NEW pos \in Positions, NEW meta, NEW read, NEW results, DOMAIN results = Digits(pos)
    PROVE  /\ Combined(pos, meta, results, read).node = Cells(meta, pos, Children(results))
           /\ Combined(pos, meta, results, read).ok = \A d \in Digits(pos) : results[d].ok
<1>1. Combined(pos, meta, results, read).ok = \A d \in Digits(pos) : results[d].ok
  BY DEF Combined
<1> DEFINE Cell(slot) == IF slot < Base(pos) THEN meta
                         ELSE IF slot - Base(pos) \in Digits(pos)
                         THEN ChildCell(results[slot - Base(pos)].node) ELSE Empty
           Cell2(slot) == IF slot < Base(pos) THEN meta
                         ELSE IF slot - Base(pos) \in Digits(pos)
                         THEN Children(results)[slot - Base(pos)] ELSE Empty
<1>2. Combined(pos, meta, results, read).node = [slot \in Slot |-> Cell(slot)]
  BY DEF Combined
<1>3. \A slot \in Slot : Cell(slot) = Cell2(slot)
  BY DEF Children
<1>4. Cells(meta, pos, Children(results)) = [slot \in Slot |-> Cell2(slot)]
  BY DEF Cells
<1> HIDE DEF Cell, Cell2
<1>5. [slot \in Slot |-> Cell(slot)] = [slot \in Slot |-> Cell2(slot)]
  BY <1>3
<1> QED BY <1>1, <1>2, <1>4, <1>5

\* The cells of a tree (build).
LEMMA TreeIs ==
    ASSUME NEW items, NEW meta, NEW pos \in Positions, NEW first \in Nat
    PROVE  Tree(items, meta, pos, first) = Cells(meta, pos, TreeBelow(items, meta, pos, first))
<1> DEFINE below == TreeBelow(items, meta, pos, first)
<1>1. CASE pos.height = 0
  <2>1. Tree(items, meta, pos, first) = BuiltLeaves(items, meta, pos, first)
    <3>1. Built(items, meta, pos, first) = Written(BuiltLeaves(items, meta, pos, first), <<>>, {})
      BY <1>1, BuiltIs
    <3> QED BY <3>1 DEF Tree, Written
  <2>2. Used(pos) \in Nat /\ Base(pos) \in 0..1 /\ Slots \in Nat
    BY DigitsAre, Spans
  <2>3. \A d \in Digits(pos) : below[d] = Item(items[first + d])
    BY <1>1 DEF TreeBelow
  <2>4. BuiltLeaves(items, meta, pos, first) =
            [slot \in Slot |-> IF slot - Base(pos) < 0 THEN meta
                               ELSE IF slot - Base(pos) < Used(pos)
                               THEN Item(items[first + (slot - Base(pos))]) ELSE Empty]
    BY DEF BuiltLeaves
  <2>5. \A slot \in Slot :
            (IF slot - Base(pos) < 0 THEN meta
             ELSE IF slot - Base(pos) < Used(pos)
             THEN Item(items[first + (slot - Base(pos))]) ELSE Empty) =
            (IF slot < Base(pos) THEN meta
             ELSE IF slot - Base(pos) \in Digits(pos) THEN below[slot - Base(pos)] ELSE Empty)
    <3> TAKE slot \in Slot
    <3> DEFINE b == Base(pos)
               u == Used(pos)
    <3>1. slot \in Nat /\ b \in 0..1 /\ u \in Nat
      BY <2>2 DEF Slot
    <3> HIDE DEF b, u
    <3>2. /\ slot - b < 0 <=> slot < b
          /\ slot >= b => (slot - b < u <=> slot - b \in 0..(u - 1))
      BY <3>1
    <3>3. Digits(pos) = 0..(u - 1)
      BY DEF Digits, u
    <3>4. CASE slot < b
      BY <3>2, <3>4 DEF b
    <3>5. CASE slot >= b /\ slot - b < u
      <4>1. slot - b \in Digits(pos) /\ ~(slot - b < 0) /\ ~(slot < b)
        BY <3>1, <3>2, <3>3, <3>5
      <4>2. below[slot - b] = Item(items[first + (slot - b)])
        BY <2>3, <4>1
      <4> HIDE DEF below
      <4> QED BY <3>5, <4>1, <4>2 DEF b, u
    <3>6. CASE slot >= b /\ ~(slot - b < u)
      <4>1. slot - b \notin Digits(pos) /\ ~(slot - b < 0) /\ ~(slot < b)
        BY <3>1, <3>2, <3>3, <3>6
      <4> HIDE DEF below
      <4> QED BY <3>6, <4>1 DEF b, u
    <3> QED BY <3>1, <3>4, <3>5, <3>6
  <2> HIDE DEF below
  <2>6. BuiltLeaves(items, meta, pos, first) = Cells(meta, pos, below)
    BY <2>4, <2>5 DEF Cells
  <2> QED BY <2>1, <2>6 DEF below
<1>2. CASE pos.height # 0
  <2> DEFINE results == [d \in Digits(pos) |->
                            Built(items, meta, ChildPosition(pos, d), first + Start(pos, d))]
  <2>1. Tree(items, meta, pos, first) = Combined(pos, meta, results, {}).node
    BY <1>2, BuiltIs DEF Tree
  <2>2. Children(results) = below
    BY <1>2 DEF Children, TreeBelow, Tree
  <2>3. DOMAIN results = Digits(pos)
    OBVIOUS
  <2> HIDE DEF results, below
  <2>4. Combined(pos, meta, results, {}).node = Cells(meta, pos, Children(results))
    BY <2>3, CombinedIs
  <2> QED BY <2>1, <2>2, <2>4 DEF below
<1> QED BY <1>1, <1>2

\* A Commit refuses nothing but an undefined target.
LEMMA BuiltAccepts ==
    ASSUME NEW items, NEW meta, NEW pos \in Positions, NEW first \in Nat
    PROVE  Built(items, meta, pos, first).ok = TRUE
<1> DEFINE Good(p, f) == Built(items, meta, p, f).ok = TRUE
           S == {h \in 0..Width : \A p \in Positions : \A f \in Nat : p.height = h => Good(p, f)}
<1>1. Width \in Nat
  BY ListAssumption
<1> HIDE DEF Good
<1>2. 0 \in S
  <2> SUFFICES ASSUME NEW p \in Positions, NEW f \in Nat, p.height = 0
               PROVE  Good(p, f)
    BY <1>1
  <2>1. Built(items, meta, p, f) = Written(BuiltLeaves(items, meta, p, f), <<>>, {})
    BY BuiltIs
  <2> QED BY <2>1 DEF Written, Good
<1>3. \A h \in 0..(Width - 1) : h \in S => h + 1 \in S
  <2> SUFFICES ASSUME NEW h \in 0..(Width - 1), h \in S,
                      NEW p \in Positions, NEW f \in Nat, p.height = h + 1
               PROVE  Good(p, f)
    BY <1>1
  <2> DEFINE results == [d \in Digits(p) |-> Built(items, meta, ChildPosition(p, d), f + Start(p, d))]
  <2>1. p.height # 0 /\ Built(items, meta, p, f) = Combined(p, meta, results, {})
    BY <1>1, BuiltIs
  <2>2. \A d \in Digits(p) : results[d].ok = TRUE
    <3> TAKE d \in Digits(p)
    <3>1. d \in Nat /\ ChildPosition(p, d) \in Positions /\ Start(p, d) \in Nat
      BY <2>1, ChildWindow
    <3>2. ChildPosition(p, d).height = h
      <4>1. ChildPosition(p, d).height = p.height - 1
        BY <2>1, <3>1, ChildIs
      <4> QED BY <1>1, <4>1
    <3>3. f + Start(p, d) \in Nat
      BY <3>1
    <3>4. Good(ChildPosition(p, d), f + Start(p, d))
      BY <3>1, <3>2, <3>3
    <3> QED BY <3>4 DEF Good
  <2>3. DOMAIN results = Digits(p)
    OBVIOUS
  <2>4. Combined(p, meta, results, {}).ok = \A d \in Digits(p) : results[d].ok
    <3> HIDE DEF results
    <3> QED BY <2>3, CombinedIs
  <2> HIDE DEF results, S
  <2> QED BY <2>1, <2>2, <2>4 DEF Good
<1>4. 0..Width \subseteq S
  <2> HIDE DEF S
  <2> QED BY <1>1, <1>2, <1>3, Upwards
<1>5. pos.height \in 0..Width
  BY DEF Positions
<1>6. Good(pos, first)
  BY <1>4, <1>5
<1> QED BY <1>6 DEF Good

\* A tree depends on the items of its window alone.
LEMMA TreeSame ==
    ASSUME NEW s, NEW t, NEW m, NEW n
    PROVE  \A pos \in Positions : \A i, j \in Nat :
               (\A x \in 0..(pos.count - 1) : s[i + x] = t[j + x]) /\ (pos.root => m = n)
                   => Tree(s, m, pos, i) = Tree(t, n, pos, j)
<1> DEFINE Same(pos, i, j) == \A x \in 0..(pos.count - 1) : s[i + x] = t[j + x]
           S == {h \in 0..Width : \A pos \in Positions : \A i, j \in Nat :
                    pos.height = h /\ Same(pos, i, j) /\ (pos.root => m = n)
                        => Tree(s, m, pos, i) = Tree(t, n, pos, j)}
<1>1. Width \in Nat
  BY ListAssumption
<1>2. \A pos \in Positions : \A i, j \in Nat :
          (pos.root => m = n) /\ TreeBelow(s, m, pos, i) = TreeBelow(t, n, pos, j)
              => Tree(s, m, pos, i) = Tree(t, n, pos, j)
  <2> SUFFICES ASSUME NEW pos \in Positions, NEW i \in Nat, NEW j \in Nat,
                      pos.root => m = n, TreeBelow(s, m, pos, i) = TreeBelow(t, n, pos, j)
               PROVE  Tree(s, m, pos, i) = Tree(t, n, pos, j)
    OBVIOUS
  <2> DEFINE below == TreeBelow(s, m, pos, i)
  <2>1. Tree(s, m, pos, i) = Cells(m, pos, below) /\ Tree(t, n, pos, j) = Cells(n, pos, below)
    BY TreeIs
  <2> HIDE DEF below
  <2>2. CASE pos.root
    BY <2>1, <2>2
  <2>3. CASE ~pos.root
    <3>1. Base(pos) = 0
      BY <2>3 DEF Base
    <3>2. \A slot \in Slot : ~(slot < Base(pos))
      BY <3>1, Spans DEF Slot
    <3>3. Cells(m, pos, below) = Cells(n, pos, below)
      BY <3>2 DEF Cells
    <3> QED BY <2>1, <3>3
  <2> QED BY <2>2, <2>3
<1>3. 0 \in S
  <2> SUFFICES ASSUME NEW pos \in Positions, NEW i \in Nat, NEW j \in Nat,
                      pos.height = 0, Same(pos, i, j)
               PROVE  TreeBelow(s, m, pos, i) = TreeBelow(t, n, pos, j)
    BY <1>1, <1>2
  <2>1. Digits(pos) = 0..(pos.count - 1)
    BY LeafDigits
  <2>2. \A d \in Digits(pos) : Item(s[i + d]) = Item(t[j + d])
    BY <2>1
  <2> QED BY <2>2 DEF TreeBelow
<1>4. \A h \in 0..(Width - 1) : h \in S => h + 1 \in S
  <2> SUFFICES ASSUME NEW h \in 0..(Width - 1), h \in S,
                      NEW pos \in Positions, NEW i \in Nat, NEW j \in Nat,
                      pos.height = h + 1, Same(pos, i, j)
               PROVE  TreeBelow(s, m, pos, i) = TreeBelow(t, n, pos, j)
    BY <1>1, <1>2
  <2>1. pos.height # 0
    BY <1>1
  <2>2. \A d \in Digits(pos) :
            Tree(s, m, ChildPosition(pos, d), i + Start(pos, d)) =
            Tree(t, n, ChildPosition(pos, d), j + Start(pos, d))
    <3> TAKE d \in Digits(pos)
    <3> DEFINE child == ChildPosition(pos, d)
               b == Start(pos, d)
    <3>1. /\ d \in Nat /\ child \in Positions /\ b \in Nat
          /\ \A x \in 0..(child.count - 1) : b + x \in 0..(pos.count - 1)
      BY <2>1, ChildWindow
    <3>2. child.height = h /\ child.root = FALSE
      <4>1. child.height = pos.height - 1 /\ child.root = FALSE
        BY <2>1, <3>1, ChildIs
      <4> QED BY <1>1, <4>1
    <3>3. child.count \in Nat
      BY <3>1, Spans DEF Positions
    <3> HIDE DEF child, b
    <3>4. Same(child, i + b, j + b)
      <4> TAKE x \in 0..(child.count - 1)
      <4>1. b + x \in 0..(pos.count - 1) /\ (i + b) + x = i + (b + x) /\ (j + b) + x = j + (b + x)
        BY <3>1, <3>3
      <4>2. s[i + (b + x)] = t[j + (b + x)]
        BY <4>1
      <4> QED BY <4>1, <4>2
    <3>5. i + b \in Nat /\ j + b \in Nat
      BY <3>1
    <3> HIDE DEF Same
    <3> QED BY <3>1, <3>2, <3>4, <3>5 DEF child, b
  <2> QED BY <2>1, <2>2 DEF TreeBelow
<1>5. 0..Width \subseteq S
  <2> HIDE DEF S
  <2> QED BY <1>1, <1>3, <1>4, Upwards
<1>6. \A pos \in Positions : pos.height \in 0..Width
  BY DEF Positions
<1> QED BY <1>5, <1>6

\* Where the cells of a node are.
LEMMA CellsAre ==
    ASSUME NEW pos, Fits(pos), NEW meta, NEW below, NEW node, node = Cells(meta, pos, below)
    PROVE  /\ \A d \in Digits(pos) : Base(pos) + d \in Slot /\ node[Base(pos) + d] = below[d]
           /\ 0 \in Slot /\ (pos.root => node[0] = meta)
           /\ \A slot \in Slot : \/ slot < Base(pos) /\ node[slot] = meta
                                 \/ slot - Base(pos) \in Digits(pos) /\ node[slot] = below[slot - Base(pos)]
                                 \/ slot - Base(pos) >= Used(pos) /\ node[slot] = Empty
<1> DEFINE b == Base(pos)
           u == Used(pos)
<1>1. /\ pos \in Positions /\ u \in Nat /\ b \in 0..1 /\ u <= Slots - b
      /\ Slots \in Nat /\ Slots >= 2
  BY DigitsAre, Spans DEF Fits
<1>2. Digits(pos) = 0..(u - 1) /\ Slot = 0..(Slots - 1)
  BY DEF Digits, Slot
<1>3. node = [slot \in Slot |-> IF slot < b THEN meta
                                ELSE IF slot - b \in Digits(pos) THEN below[slot - b] ELSE Empty]
  BY DEF Cells
<1>4. pos.root => b = 1
  BY DEF Base
<1> HIDE DEF b, u
<1>5. \A d \in Digits(pos) : b + d \in Slot /\ node[b + d] = below[d]
  <2> TAKE d \in Digits(pos)
  <2>1. b + d \in Slot /\ ~(b + d < b) /\ (b + d) - b = d
    BY <1>1, <1>2
  <2> QED BY <1>3, <2>1
<1>6. 0 \in Slot /\ (pos.root => node[0] = meta)
  <2>1. 0 \in Slot
    BY <1>1, <1>2
  <2>2. b = 1 => 0 < b
    OBVIOUS
  <2> QED BY <1>3, <1>4, <2>1, <2>2
<1>7. \A slot \in Slot : \/ slot < b /\ node[slot] = meta
                         \/ slot - b \in Digits(pos) /\ node[slot] = below[slot - b]
                         \/ slot - b >= u /\ node[slot] = Empty
  <2> TAKE slot \in Slot
  <2>1. slot < b \/ slot - b \in Digits(pos) \/ (slot - b >= u /\ slot - b \notin Digits(pos) /\ ~(slot < b))
    BY <1>1, <1>2
  <2>2. slot - b \in Digits(pos) => ~(slot < b)
    BY <1>1, <1>2
  <2> QED BY <1>3, <2>1, <2>2
<1> QED BY <1>5, <1>6, <1>7 DEF b, u

\* A tree has the shape that its position demands (checkPosition).
LEMMA TreeShaped ==
    ASSUME NEW items, NEW meta, NEW pos, Fits(pos), NEW first \in Nat
    PROVE  /\ Shaped(Tree(items, meta, pos, first), pos)
           /\ \A d \in Digits(pos) :
                  /\ Base(pos) + d \in Slot
                  /\ Tree(items, meta, pos, first)[Base(pos) + d] =
                         IF pos.height = 0 THEN Item(items[first + d])
                         ELSE ChildCell(Tree(items, meta, ChildPosition(pos, d), first + Start(pos, d)))
           /\ pos.root => Tree(items, meta, pos, first)[0] = meta
<1> DEFINE node == Tree(items, meta, pos, first)
           below == TreeBelow(items, meta, pos, first)
<1>1. pos \in Positions /\ Used(pos) <= Slots - Base(pos)
  BY DEF Fits
<1>2. node = Cells(meta, pos, below)
  BY <1>1, TreeIs
<1>3. \A d \in Digits(pos) : below[d] =
          IF pos.height = 0 THEN Item(items[first + d])
          ELSE ChildCell(Tree(items, meta, ChildPosition(pos, d), first + Start(pos, d)))
  BY DEF TreeBelow
<1> HIDE DEF node, below
<1>4. \A d \in Digits(pos) : below[d].kind = IF pos.height = 0 THEN "item" ELSE "child"
  <2>1. \A x : Item(x).kind = "item" /\ ChildCell(x).kind = "child"
    BY DEF Item, ChildCell
  <2> QED BY <1>3, <2>1
<1> HIDE DEF node, below
<1>5. /\ \A d \in Digits(pos) : Base(pos) + d \in Slot /\ node[Base(pos) + d] = below[d]
      /\ pos.root => node[0] = meta
      /\ \A slot \in Slot : \/ slot < Base(pos) /\ node[slot] = meta
                            \/ slot - Base(pos) \in Digits(pos) /\ node[slot] = below[slot - Base(pos)]
                            \/ slot - Base(pos) >= Used(pos) /\ node[slot] = Empty
  BY <1>2, CellsAre
<1>6. Shaped(node, pos)
  <2> SUFFICES ASSUME NEW slot \in Base(pos)..(Slots - 1)
               PROVE  node[slot].kind = IF slot - Base(pos) >= Used(pos) THEN "empty"
                                        ELSE IF pos.height = 0 THEN "item" ELSE "child"
    BY <1>1 DEF Shaped
  <2> DEFINE b == Base(pos)
             u == Used(pos)
  <2>1. u \in Nat /\ b \in 0..1 /\ Slots \in Nat /\ Digits(pos) = 0..(u - 1) /\ Slot = 0..(Slots - 1)
    BY <1>1, DigitsAre, Spans DEF Digits, Slot
  <2> HIDE DEF b, u
  <2>2. slot \in Slot /\ ~(slot < b) /\ (slot - b \in Digits(pos) => ~(slot - b >= u))
    BY <2>1 DEF b
  <2>3. \/ slot - b \in Digits(pos) /\ node[slot] = below[slot - b]
        \/ slot - b >= u /\ node[slot] = Empty
    BY <1>5, <2>2 DEF b, u
  <2>4. Empty.kind = "empty"
    BY DEF Empty
  <2>5. CASE slot - b >= u
    BY <2>2, <2>3, <2>4, <2>5 DEF b, u
  <2>6. CASE ~(slot - b >= u)
    <3>1. node[slot] = below[slot - b] /\ slot - b \in Digits(pos)
      BY <2>3, <2>6
    <3> QED BY <1>4, <2>6, <3>1 DEF b, u
  <2> QED BY <2>5, <2>6
<1> QED BY <1>3, <1>5, <1>6 DEF node

-----------------------------------------------------------------------------
(* What is below a node.                                                    *)

\* The nodes below a child are below the node, one deeper.
LEMMA LayersBelow ==
    ASSUME NEW node, NEW child \in ChildNodes(node)
    PROVE  /\ Layers(node)[0] = {node}
           /\ \A k \in 0..(Width - 1) : Layers(child)[k] \subseteq Layers(node)[k + 1]
<1>1. Width \in Nat \ {0}
  BY ListAssumption
<1> DEFINE L == Layers(node)
           M == Layers(child)
<1>2. /\ \A k \in 0..Width : L[k] = LayerAt(L[k - 1], node, k)
      /\ \A k \in 0..Width : M[k] = LayerAt(M[k - 1], child, k)
  BY LayersUnfold
<1> HIDE DEF L, M
<1>3. L[0] = {node} /\ M[0] = {child}
  <2>1. 0 \in 0..Width
    BY <1>1
  <2>2. \A x, r : LayerAt(x, r, 0) = {r}
    BY DEF LayerAt
  <2> QED BY <1>2, <2>1, <2>2
<1>4. \A k \in 1..Width : /\ L[k] = UNION {ChildNodes(n) : n \in L[k - 1]}
                          /\ M[k] = UNION {ChildNodes(n) : n \in M[k - 1]}
  <2> TAKE k \in 1..Width
  <2>1. k \in 0..Width /\ k # 0
    BY <1>1
  <2>2. \A x, r : LayerAt(x, r, k) = UNION {ChildNodes(n) : n \in x}
    BY <2>1 DEF LayerAt
  <2>3. L[k] = LayerAt(L[k - 1], node, k) /\ M[k] = LayerAt(M[k - 1], child, k)
    BY <1>2, <2>1
  <2> QED BY <2>2, <2>3
<1> DEFINE S == {k \in 0..(Width - 1) : M[k] \subseteq L[k + 1]}
<1>5. 0 \in S
  <2>1. 1 \in 1..Width /\ 1 - 1 = 0 /\ 0 + 1 = 1 /\ 0 \in 0..(Width - 1)
    BY <1>1
  <2>2. L[1] = UNION {ChildNodes(n) : n \in {node}}
    BY <1>3, <1>4, <2>1
  <2>3. M[0] \subseteq L[1]
    BY <1>3, <2>2
  <2> QED BY <2>1, <2>3
<1>6. \A k \in 0..((Width - 1) - 1) : k \in S => k + 1 \in S
  <2> SUFFICES ASSUME NEW k \in 0..((Width - 1) - 1), k \in S PROVE k + 1 \in S
    OBVIOUS
  <2>1. /\ k + 1 \in 0..(Width - 1) /\ k + 1 \in 1..Width /\ (k + 1) - 1 = k
        /\ (k + 1) + 1 \in 1..Width /\ ((k + 1) + 1) - 1 = k + 1
    BY <1>1
  <2>2. /\ M[k + 1] = UNION {ChildNodes(n) : n \in M[k]}
        /\ L[(k + 1) + 1] = UNION {ChildNodes(n) : n \in L[k + 1]}
    BY <1>4, <2>1
  <2>3. M[k] \subseteq L[k + 1]
    OBVIOUS
  <2>4. M[k + 1] \subseteq L[(k + 1) + 1]
    BY <2>2, <2>3
  <2> QED BY <2>1, <2>4
<1>7. 0..(Width - 1) \subseteq S
  <2>1. Width - 1 \in Nat
    BY <1>1
  <2> HIDE DEF S
  <2> QED BY <1>5, <1>6, <2>1, Upwards
<1> QED BY <1>3, <1>7 DEF L, M

\* A store that has the nodes of a tree down to a depth.
Whole(node, height, store) == \A k \in 0..height : Layers(node)[k] \subseteq store

\* What is below a child of a node is below the node.
LEMMA WholeBelow ==
    ASSUME NEW node, NEW height \in 0..Width, NEW store, Whole(node, height, store)
    PROVE  /\ node \in store /\ node \in Referenced(store)
           /\ height # 0 => \A child \in ChildNodes(node) : Whole(child, height - 1, store)
<1>1. Width \in Nat \ {0}
  BY ListAssumption
<1>2. Layers(node)[0] = {node}
  <2>1. 0 \in 0..Width
    BY <1>1
  <2> QED BY <2>1, LayersUnfold DEF LayerAt
<1>3. node \in store
  <2>1. 0 \in 0..height
    BY <1>1
  <2> QED BY <1>2, <2>1 DEF Whole
<1>4. ASSUME height # 0, NEW child \in ChildNodes(node), NEW k \in 0..(height - 1)
      PROVE  Layers(child)[k] \subseteq store
  <2>1. k \in 0..(Width - 1) /\ k + 1 \in 0..height
    BY <1>1, <1>4
  <2>2. Layers(child)[k] \subseteq Layers(node)[k + 1]
    BY <2>1, LayersBelow
  <2> QED BY <2>1, <2>2 DEF Whole
<1> QED BY <1>3, <1>4 DEF Whole, Referenced

-----------------------------------------------------------------------------
(* The order in which an operation writes.                                  *)

\* The nodes of a tree down to a depth.
DownTo(node, height) == UNION {Layers(node)[k] : k \in 0..height}

\* What may be referred to: what was known, and the children of what was read.
KnownFrom(base, reads) == base \cup UNION {ChildNodes(n) : n \in reads}

\* Each node follows those of its children that are not known.
InOrder(puts, known) ==
    \A i \in DOMAIN puts : ChildNodes(puts[i]) \subseteq known \cup {puts[j] : j \in 1..(i - 1)}

\* A result reads what is known by then; it writes nodes of its tree alone, in order,
\* and its root unless that is known.
Orderly(result, base, height) ==
    /\ result.reads \subseteq KnownFrom(base, result.reads)
    /\ result.puts \in Seq(DownTo(result.node, height))
    /\ InOrder(result.puts, KnownFrom(base, result.reads))
    /\ result.node \in KnownFrom(base, result.reads) \cup ToSet(result.puts)

\* A node is at the top of its tree, and what is below a child is below the node.
LEMMA DownToIs ==
    ASSUME NEW node, NEW height \in 0..Width
    PROVE  /\ node \in DownTo(node, height)
           /\ \A k \in 0..height : DownTo(node, k) \subseteq DownTo(node, height)
           /\ height # 0 => \A child \in ChildNodes(node) :
                                DownTo(child, height - 1) \subseteq DownTo(node, height)
<1>1. Width \in Nat \ {0} /\ height \in Nat
  BY ListAssumption
<1>2. node \in DownTo(node, height)
  <2>1. 0 \in 0..height /\ 0 \in 0..Width
    BY <1>1
  <2>2. Layers(node)[0] = {node}
    BY <2>1, LayersUnfold DEF LayerAt
  <2> QED BY <2>1, <2>2 DEF DownTo
<1>3. \A k \in 0..height : DownTo(node, k) \subseteq DownTo(node, height)
  <2>1. \A k \in 0..height : 0..k \subseteq 0..height
    BY <1>1
  <2> QED BY <2>1 DEF DownTo
<1>4. ASSUME height # 0, NEW child \in ChildNodes(node)
      PROVE  DownTo(child, height - 1) \subseteq DownTo(node, height)
  <2>1. ASSUME NEW k \in 0..(height - 1) PROVE Layers(child)[k] \subseteq DownTo(node, height)
    <3>1. k \in 0..(Width - 1) /\ k + 1 \in 0..height
      BY <1>1, <1>4
    <3>2. Layers(child)[k] \subseteq Layers(node)[k + 1]
      BY <3>1, LayersBelow
    <3> QED BY <3>1, <3>2 DEF DownTo
  <2> QED BY <2>1 DEF DownTo
<1> QED BY <1>2, <1>3, <1>4

\* The same writes are in order where more is known, and for a tree taken to be deeper.
LEMMA OrderlyMore ==
    ASSUME NEW r, NEW q, q.puts = r.puts, q.node = r.node,
           NEW base, NEW more, KnownFrom(base, r.reads) \subseteq KnownFrom(more, q.reads),
           q.reads \subseteq r.reads \cup KnownFrom(more, q.reads), NEW height \in 0..Width, NEW low \in 0..height, Orderly(r, base, low)
    PROVE  Orderly(q, more, height)
<1> DEFINE A == DownTo(r.node, low)
           B == DownTo(r.node, height)
           known == KnownFrom(base, r.reads)
           wider == KnownFrom(more, q.reads)
<1>1. A \subseteq B
  BY DownToIs
<1>2. /\ r.puts \in Seq(A) /\ InOrder(r.puts, known) /\ r.reads \subseteq known
      /\ r.node \in known \cup ToSet(r.puts)
  BY DEF Orderly
<1>7. q.reads \subseteq r.reads \cup wider
  OBVIOUS
<1> HIDE DEF A, B, known, wider
<1>3. known \subseteq wider
  BY DEF known, wider
<1>4. r.puts \in Seq(B)
  BY <1>1, <1>2
<1>5. InOrder(r.puts, wider)
  BY <1>2, <1>3 DEF InOrder
<1>6. r.node \in wider \cup ToSet(r.puts)
  BY <1>2, <1>3
<1>8. q.reads \subseteq wider
  BY <1>2, <1>3, <1>7
<1> QED BY <1>4, <1>5, <1>6, <1>8 DEF Orderly, B, wider

\* Writes stay in order where more is known.
LEMMA OrderlyBase ==
    ASSUME NEW r, NEW base, NEW more, base \subseteq more, NEW height \in 0..Width,
           Orderly(r, base, height)
    PROVE  Orderly(r, more, height)
<1>1. KnownFrom(base, r.reads) \subseteq KnownFrom(more, r.reads)
  BY DEF KnownFrom
<1>2. height \in 0..height
  BY ListAssumption
<1> QED BY <1>1, <1>2, OrderlyMore

\* What was read before adds to what is known, and a tree may be taken to be as deep as any.
LEMMA ReadingOrderly ==
    ASSUME NEW r, NEW base, NEW tree, NEW nodes, base \subseteq KnownFrom({tree}, nodes),
           nodes \subseteq KnownFrom({tree}, nodes), NEW low \in 0..Width, Orderly(r, base, low)
    PROVE  Orderly(Reading(r, nodes), {tree}, Width)
<1> DEFINE q == Reading(r, nodes)
<1>1. q.puts = r.puts /\ q.node = r.node /\ q.reads = r.reads \cup nodes
  BY DEF Reading
<1>2. Width \in 0..Width /\ low \in 0..Width
  BY ListAssumption
<1> HIDE DEF q
<1>3. KnownFrom(base, r.reads) \subseteq KnownFrom({tree}, q.reads)
  BY <1>1 DEF KnownFrom
<1>4. q.reads \subseteq r.reads \cup KnownFrom({tree}, q.reads)
  BY <1>1 DEF KnownFrom
<1> QED BY <1>1, <1>2, <1>3, <1>4, OrderlyMore DEF q

\* A tree may be taken to be as deep as any.
LEMMA OrderlyDeep ==
    ASSUME NEW r, NEW base, NEW low \in 0..Width, Orderly(r, base, low)
    PROVE  Orderly(r, base, Width)
<1>1. Width \in 0..Width /\ KnownFrom(base, r.reads) \subseteq KnownFrom(base, r.reads)
  BY ListAssumption
<1> QED BY <1>1, OrderlyMore

\* The metadata of a List is not a child.
LEMMA MetaIsNoChild ==
    ASSUME NEW count, NEW p
    PROVE  Meta(count, p).kind # "child"
BY DEF Meta

\* Nothing is written for a node that stays.
LEMMA UnchangedOrderly ==
    ASSUME NEW node, NEW base, node \in base, NEW height
    PROVE  Orderly(Unchanged(node), base, height)
<1>1. /\ Unchanged(node).puts = <<>> /\ Unchanged(node).node = node
      /\ node \in KnownFrom(base, Unchanged(node).reads) /\ Unchanged(node).reads = {}
  BY DEF Unchanged, KnownFrom
<1>2. <<>> \in Seq(DownTo(node, height)) /\ \A known : InOrder(<<>>, known)
  BY DEF InOrder
<1> HIDE DEF Orderly
<1> QED BY <1>1, <1>2 DEF Orderly

\* Nothing is written for a root that was read and stays.
LEMMA KeptOrderly ==
    ASSUME NEW tree
    PROVE  Orderly(Reading(Unchanged(tree), {tree}), {tree}, Width)
<1>1. {tree} \subseteq KnownFrom({tree}, {tree})
  BY DEF KnownFrom
<1>2. Orderly(Unchanged(tree), {tree}, Width) /\ Width \in 0..Width
  BY UnchangedOrderly, ListAssumption
<1> QED BY <1>1, <1>2, ReadingOrderly

\* A node is written alone if its children are known.
LEMMA WrittenOrderly ==
    ASSUME NEW node, NEW base, NEW read, ChildNodes(node) \subseteq KnownFrom(base, read),
           read \subseteq base, NEW height \in 0..Width
    PROVE  Orderly(Written(node, <<>>, read), base, height)
<1> DEFINE r == Written(node, <<>>, read)
           puts == <<node>>
<1>1. r.puts = puts /\ r.node = node /\ r.reads = read
  BY DEF Written
<1>2. node \in DownTo(node, height)
  BY DownToIs
<1>3. puts \in Seq(DownTo(node, height)) /\ DOMAIN puts = {1} /\ puts[1] = node
  BY <1>2
<1>4. ToSet(puts) = {node}
  BY <1>3 DEF ToSet
<1> HIDE DEF puts, r
<1>5. InOrder(puts, KnownFrom(base, read))
  BY <1>3 DEF InOrder
<1>6. read \subseteq KnownFrom(base, read)
  BY DEF KnownFrom
<1> QED BY <1>1, <1>3, <1>4, <1>5, <1>6 DEF Orderly, r

\* Writes for one child after the other are in order.
LEMMA FlatInOrder ==
    ASSUME NEW n \in Nat, NEW S, NEW seqs \in [1..n -> Seq(S)], NEW known,
           \A m \in 1..n : InOrder(seqs[m], known),
           NEW flat, flat = FlattenSeq(seqs)
    PROVE  /\ flat \in Seq(S) /\ InOrder(flat, known)
           /\ \A m \in 1..n : ToSet(seqs[m]) \subseteq ToSet(flat)
<1>1. CASE n = 0
  <2>1. seqs = <<>>
    BY <1>1
  <2>2. flat = <<>>
    BY <2>1 DEF FlattenSeq
  <2>3. <<>> \in Seq(S) /\ InOrder(<<>>, known)
    BY DEF InOrder
  <2> QED BY <1>1, <2>2, <2>3
<1>2. CASE n # 0
  <2>1. n \in Nat \ {0}
    BY <1>2
  <2>2. /\ flat \in Seq(S)
        /\ \A x : x \in ToSet(flat) <=> \E m \in 1..n : x \in ToSet(seqs[m])
        /\ \A m \in 1..n : DOMAIN seqs[m] \subseteq Nat
    BY <2>1, FlatPlaces
  <2>3. PICK offset : Spread(flat, seqs, n, offset)
    BY <2>1, FlatPlaces
  <2>4. InOrder(flat, known)
    <3> SUFFICES ASSUME NEW k \in DOMAIN flat
                 PROVE  ChildNodes(flat[k]) \subseteq known \cup {flat[j] : j \in 1..(k - 1)}
      BY DEF InOrder
    <3>1. PICK m \in 1..n : \E j \in DOMAIN seqs[m] : k = offset[m] + j /\ flat[k] = seqs[m][j]
      BY <2>3 DEF Spread
    <3>2. PICK j \in DOMAIN seqs[m] : k = offset[m] + j /\ flat[k] = seqs[m][j]
      BY <3>1
    <3> DEFINE s == seqs[m]
    <3>3. s \in Seq(S) /\ InOrder(s, known)
      OBVIOUS
    <3>4. /\ offset[m] \in Nat
          /\ \A i \in DOMAIN s : offset[m] + i \in DOMAIN flat /\ flat[offset[m] + i] = s[i]
      BY <2>3 DEF Spread
    <3>5. ChildNodes(s[j]) \subseteq known \cup {s[i] : i \in 1..(j - 1)}
      BY <3>2, <3>3 DEF InOrder
    <3>6. \A i \in 1..(j - 1) : \E x \in 1..(k - 1) : s[i] = flat[x]
      <4> TAKE i \in 1..(j - 1)
      <4>1. j \in 1..Len(s) /\ Len(s) \in Nat /\ DOMAIN s = 1..Len(s)
        BY <3>2, <3>3
      <4> HIDE DEF s
      <4>2. i \in DOMAIN s /\ offset[m] + i \in 1..(k - 1)
        BY <3>2, <3>4, <4>1
      <4> QED BY <3>4, <4>2
    <3> HIDE DEF s
    <3>7. ChildNodes(flat[k]) \subseteq known \cup {s[i] : i \in 1..(j - 1)}
      BY <3>2, <3>5 DEF s
    <3> QED BY <3>6, <3>7
  <2> QED BY <2>2, <2>4
<1> QED BY <1>1, <1>2

\* A node written after what was written for its children.
LEMMA GatherInOrder ==
    ASSUME NEW n \in Nat, NEW S, NEW seqs \in [1..n -> Seq(S)], NEW known,
           \A m \in 1..n : InOrder(seqs[m], known),
           NEW node \in S,
           \A child \in ChildNodes(node) : child \in known \/ \E m \in 1..n : child \in ToSet(seqs[m])
    PROVE  LET puts == Append(FlattenSeq(seqs), node)
           IN  puts \in Seq(S) /\ InOrder(puts, known) /\ node \in ToSet(puts)
<1> DEFINE flat == FlattenSeq(seqs)
           puts == Append(flat, node)
<1> SUFFICES puts \in Seq(S) /\ InOrder(puts, known) /\ node \in ToSet(puts)
  OBVIOUS
<1>1. /\ flat \in Seq(S) /\ InOrder(flat, known)
      /\ \A m \in 1..n : ToSet(seqs[m]) \subseteq ToSet(flat)
  BY FlatInOrder
<1>2. puts = Append(flat, node)
  OBVIOUS
<1> HIDE DEF flat, puts
<1> DEFINE l == Len(flat)
<1>3. /\ puts \in Seq(S) /\ DOMAIN puts = 1..(l + 1) /\ l \in Nat /\ DOMAIN flat = 1..l
      /\ puts[l + 1] = node /\ \A i \in 1..l : puts[i] = flat[i]
  BY <1>1, <1>2
<1> HIDE DEF l
<1>4. ASSUME NEW i \in DOMAIN puts
      PROVE  ChildNodes(puts[i]) \subseteq known \cup {puts[j] : j \in 1..(i - 1)}
  <2>1. CASE i = l + 1
    <3>1. \A x \in ToSet(flat) : \E j \in 1..(i - 1) : x = puts[j]
      <4> SUFFICES ASSUME NEW x \in ToSet(flat) PROVE \E j \in 1..(i - 1) : x = puts[j]
        OBVIOUS
      <4>1. PICK j \in 1..l : x = flat[j]
        BY <1>3 DEF ToSet
      <4>2. (l + 1) - 1 = l
        BY <1>3
      <4> QED BY <1>3, <2>1, <4>1, <4>2
    <3> QED BY <1>1, <1>3, <2>1, <3>1
  <2>2. CASE i # l + 1
    <3>1. i \in 1..l /\ \A j \in 1..(i - 1) : j \in 1..l
      BY <1>3, <2>2
    <3>2. ChildNodes(flat[i]) \subseteq known \cup {flat[j] : j \in 1..(i - 1)}
      BY <1>1, <1>3, <3>1 DEF InOrder
    <3> QED BY <1>3, <3>1, <3>2
  <2> QED BY <2>1, <2>2
<1>5. node \in ToSet(puts)
  <2>1. l + 1 \in DOMAIN puts
    BY <1>3
  <2> QED BY <1>3, <2>1 DEF ToSet
<1> QED BY <1>3, <1>4, <1>5 DEF InOrder

\* A node made of what its digits yield is written in order after them (builder.commit).
LEMMA CombinedOrderly ==
    ASSUME NEW pos, Fits(pos), pos.height # 0, NEW meta, pos.root => meta.kind # "child",
           NEW base, NEW read, read \subseteq base, NEW results, DOMAIN results = Digits(pos),
           \A d \in Digits(pos) : Orderly(results[d], KnownFrom(base, read), pos.height - 1)
    PROVE  Orderly(Combined(pos, meta, results, read), base, pos.height)
<1> DEFINE r == Combined(pos, meta, results, read)
           node == r.node
           known == KnownFrom(base, r.reads)
           S == DownTo(node, pos.height)
           n == Used(pos)
           seqs == [i \in 1..n |-> results[i - 1].puts]
           b == Base(pos)
<1>1. /\ pos \in Positions /\ n <= Slots - b /\ n \in Nat /\ b \in 0..1 /\ Slots \in Nat
      /\ pos.height \in 1..Width /\ pos.height \in 0..Width /\ pos.height - 1 \in 0..pos.height
      /\ Digits(pos) = 0..(n - 1) /\ Slot = 0..(Slots - 1)
      /\ b = IF pos.root THEN 1 ELSE 0
  <2>1. pos \in Positions /\ n <= Slots - b
    BY DEF Fits
  <2>2. n \in Nat /\ b \in 0..1 /\ Slots \in Nat
    BY <2>1, DigitsAre, Spans
  <2>3. pos.height \in 0..Width /\ Width \in Nat
    BY <2>1, ListAssumption DEF Positions
  <2>4. pos.height \in 1..Width /\ pos.height - 1 \in 0..pos.height
    BY <2>3
  <2> QED BY <2>1, <2>2, <2>3, <2>4 DEF Digits, Slot, Base
<1>2. /\ r.reads = read \cup UNION {results[d].reads : d \in Digits(pos)}
      /\ r.puts = Append(FlattenSeq(seqs), node)
      /\ node = [slot \in Slot |-> IF slot < b THEN meta
                                   ELSE IF slot - b \in Digits(pos) THEN ChildCell(results[slot - b].node)
                                   ELSE Empty]
  BY DEF Combined
<1> HIDE DEF r, node, b, n
<1>3. /\ \A d \in Digits(pos) : b + d \in Slot /\ node[b + d] = ChildCell(results[d].node)
      /\ \A slot \in Slot : node[slot].kind = "child" =>
             slot - b \in Digits(pos) /\ node[slot].node = results[slot - b].node
  <2>1. ASSUME NEW d \in Digits(pos) PROVE b + d \in Slot /\ node[b + d] = ChildCell(results[d].node)
    <3>1. \A x \in 0..(n - 1) : b + x \in 0..(Slots - 1) /\ ~(b + x < b) /\ (b + x) - b = x
      <4>1. n <= Slots - b /\ n \in Nat /\ b \in Nat /\ Slots \in Nat
        BY <1>1
      <4> QED BY <4>1
    <3>2. b + d \in Slot /\ ~(b + d < b) /\ (b + d) - b = d
      BY <1>1, <3>1
    <3> QED BY <1>2, <3>2
  <2>2. ASSUME NEW slot \in Slot, node[slot].kind = "child"
        PROVE  slot - b \in Digits(pos) /\ node[slot].node = results[slot - b].node
    <3>1. ~(slot < b)
      <4> SUFFICES ASSUME slot < b PROVE FALSE
        OBVIOUS
      <4>1. pos.root
        BY <1>1
      <4>2. node[slot] = meta
        BY <1>2
      <4> QED BY <2>2, <4>1, <4>2
    <3>2. node[slot] = IF slot - b \in Digits(pos) THEN ChildCell(results[slot - b].node) ELSE Empty
      BY <1>2, <3>1
    <3>3. Empty.kind # "child" /\ \A x : ChildCell(x).node = x
      BY DEF Empty, ChildCell
    <3> QED BY <2>2, <3>2, <3>3
  <2> QED BY <2>1, <2>2
<1>4. ChildNodes(node) = {results[d].node : d \in Digits(pos)}
  <2>1. \A x : ChildCell(x).kind = "child" /\ ChildCell(x).node = x
    BY DEF ChildCell
  <2> QED BY <1>3, <2>1 DEF ChildNodes
<1>5. ASSUME NEW d \in Digits(pos)
      PROVE  /\ results[d].puts \in Seq(S) /\ InOrder(results[d].puts, known)
             /\ results[d].node \in known \cup ToSet(results[d].puts)
             /\ results[d].reads \subseteq known
  <2> DEFINE q == results[d]
             own == KnownFrom(KnownFrom(base, read), q.reads)
             A == DownTo(q.node, pos.height - 1)
  <2>1. /\ q.puts \in Seq(A) /\ InOrder(q.puts, own) /\ q.node \in own \cup ToSet(q.puts)
        /\ q.reads \subseteq own
    BY DEF Orderly
  <2>2. A \subseteq S
    <3>1. q.node \in ChildNodes(node) /\ pos.height # 0
      BY <1>4
    <3> HIDE DEF q
    <3> QED BY <1>1, <3>1, DownToIs
  <2>3. own \subseteq known
    BY <1>2 DEF KnownFrom
  <2> HIDE DEF q, own, A, S, known
  <2>4. q.puts \in Seq(S)
    BY <2>1, <2>2
  <2>5. InOrder(q.puts, known)
    BY <2>1, <2>3 DEF InOrder
  <2> QED BY <2>1, <2>3, <2>4, <2>5 DEF q
<1>6. node \in S
  BY <1>1, DownToIs
<1> HIDE DEF S, known
<1>7. \A i \in 1..n : i - 1 \in Digits(pos) /\ seqs[i] = results[i - 1].puts
  BY <1>1
<1>8. seqs \in [1..n -> Seq(S)] /\ \A i \in 1..n : InOrder(seqs[i], known)
  BY <1>5, <1>7
<1>9. ASSUME NEW child \in ChildNodes(node)
      PROVE  child \in known \/ \E i \in 1..n : child \in ToSet(seqs[i])
  <2>1. PICK d \in Digits(pos) : child = results[d].node
    BY <1>4
  <2>2. d + 1 \in 1..n /\ (d + 1) - 1 = d
    <3>1. d \in 0..(n - 1) /\ n \in Nat
      BY <1>1
    <3> QED BY <3>1
  <2> QED BY <1>5, <1>7, <2>1, <2>2
<1> HIDE DEF seqs
<1>10. r.puts \in Seq(S) /\ InOrder(r.puts, known) /\ node \in ToSet(r.puts)
  <2> DEFINE puts == r.puts
  <2>1. puts = Append(FlattenSeq(seqs), node) /\ n \in Nat
    BY <1>1, <1>2
  <2>2. \A child \in ChildNodes(node) : child \in known \/ \E i \in 1..n : child \in ToSet(seqs[i])
    BY <1>9
  <2> HIDE DEF puts
  <2>3. puts \in Seq(S) /\ InOrder(puts, known) /\ node \in ToSet(puts)
    BY <1>6, <1>8, <2>1, <2>2, GatherInOrder
  <2> QED BY <2>3 DEF puts
<1>11. r.reads \subseteq known
  <2>1. read \subseteq known
    BY DEF known, KnownFrom
  <2> QED BY <1>2, <1>5, <2>1
<1> QED BY <1>10, <1>11 DEF Orderly, S, known, node, r

\* A tree of items alone has no children.
LEMMA LeavesHaveNone ==
    ASSUME NEW items, NEW meta, NEW pos, Fits(pos), pos.height = 0, pos.root => meta.kind # "child",
           NEW first \in Nat
    PROVE  ChildNodes(Tree(items, meta, pos, first)) = {}
<1> DEFINE node == Tree(items, meta, pos, first)
           below == TreeBelow(items, meta, pos, first)
<1>1. pos \in Positions
  BY DEF Fits
<1>2. node = Cells(meta, pos, below)
  BY <1>1, TreeIs
<1>3. \A d \in Digits(pos) : below[d] = Item(items[first + d])
  BY DEF TreeBelow
<1> HIDE DEF node, below
<1>4. \A x : Item(x).kind # "child"
  BY DEF Item
<1>5. Empty.kind # "child"
  BY DEF Empty
<1>6. \A slot \in Slot : slot < Base(pos) => pos.root
  BY DEF Base, Slot
<1>7. \A slot \in Slot : node[slot].kind # "child"
  BY <1>2, <1>3, <1>4, <1>5, <1>6 DEF Cells
<1> QED BY <1>7 DEF ChildNodes, node

\* What a Commit writes is what its Root reaches, children first (build).
LEMMA BuiltOrderly ==
    ASSUME NEW items, NEW meta, NEW pos, Fits(pos), pos.root => meta.kind # "child",
           NEW first \in Nat, NEW base
    PROVE  Orderly(Built(items, meta, pos, first), base, pos.height)
<1> DEFINE Good(p, f, b) == Orderly(Built(items, meta, p, f), b, p.height)
           Ready(p) == Fits(p) /\ (p.root => meta.kind # "child")
           S == {h \in 0..Width : \A p, b : \A f \in Nat : p.height = h /\ Ready(p) => Good(p, f, b)}
<1>1. Width \in Nat
  BY ListAssumption
<1>2. 0 \in S
  <2> SUFFICES ASSUME NEW p, NEW b, NEW f \in Nat, p.height = 0, Ready(p) PROVE Good(p, f, b)
    BY <1>1
  <2>1. p \in Positions
    BY DEF Fits
  <2>2. Built(items, meta, p, f) = Written(BuiltLeaves(items, meta, p, f), <<>>, {})
    BY <2>1, BuiltIs
  <2>3. Tree(items, meta, p, f) = BuiltLeaves(items, meta, p, f)
    BY <2>2 DEF Tree, Written
  <2>4. ChildNodes(BuiltLeaves(items, meta, p, f)) = {}
    BY <2>3, LeavesHaveNone
  <2>5. p.height \in 0..Width
    BY <1>1
  <2>6. Orderly(Written(BuiltLeaves(items, meta, p, f), <<>>, {}), b, p.height)
    BY <2>4, <2>5, WrittenOrderly
  <2> QED BY <2>2, <2>6
<1>3. \A h \in 0..(Width - 1) : h \in S => h + 1 \in S
  <2> SUFFICES ASSUME NEW h \in 0..(Width - 1), h \in S PROVE h + 1 \in S
    OBVIOUS
  <2>0. h + 1 \in 0..Width
    BY <1>1
  <2> SUFFICES ASSUME NEW p, NEW b, NEW f \in Nat, p.height = h + 1, Ready(p)
               PROVE  Good(p, f, b)
    BY <2>0
  <2>1. p \in Positions /\ p.height # 0 /\ (h + 1) - 1 = h
    BY DEF Fits
  <2> DEFINE results == [d \in Digits(p) |-> Built(items, meta, ChildPosition(p, d), f + Start(p, d))]
  <2>2. Built(items, meta, p, f) = Combined(p, meta, results, {})
    BY <2>1, BuiltIs
  <2>3. ASSUME NEW d \in Digits(p) PROVE Orderly(results[d], KnownFrom(b, {}), p.height - 1)
    <3> DEFINE q == ChildPosition(p, d)
    <3>1. d \in Nat /\ Start(p, d) \in Nat
      BY <2>1, ChildWindow
    <3>2. Fits(q) /\ q.height = h /\ q.root = FALSE
      BY <2>1, <3>1, ChildFits, ChildIs
    <3>3. f + Start(p, d) \in Nat
      BY <3>1
    <3> HIDE DEF q
    <3>4. Good(q, f + Start(p, d), KnownFrom(b, {}))
      BY <3>2, <3>3
    <3>5. results[d] = Built(items, meta, q, f + Start(p, d))
      BY DEF q
    <3> QED BY <2>1, <3>2, <3>4, <3>5
  <2>4. DOMAIN results = Digits(p)
    OBVIOUS
  <2> HIDE DEF results
  <2>5. Orderly(Combined(p, meta, results, {}), b, p.height)
    BY <2>1, <2>3, <2>4, CombinedOrderly
  <2> QED BY <2>2, <2>5
<1>4. 0..Width \subseteq S
  <2> HIDE DEF S
  <2> QED BY <1>1, <1>2, <1>3, Upwards
<1>5. pos.height \in 0..Width
  BY DEF Fits, Positions
<1> HIDE DEF Good
<1>6. Good(pos, first, base)
  BY <1>4, <1>5
<1> QED BY <1>6 DEF Good

-----------------------------------------------------------------------------
(* Positions of one height.                                                 *)

\* The longer of two positions of one height has the digits of the shorter, and
\* their children are the same but for the last one of the shorter (child).
LEMMA ChildGrows ==
    ASSUME NEW p \in Positions, NEW q \in Positions, p.height = q.height, p.count <= q.count
    PROVE  /\ Digits(p) \subseteq Digits(q)
           /\ \A d \in Digits(q) : p.height # 0 =>
                  /\ d \in Nat /\ Start(p, d) = Start(q, d) /\ Start(p, d) = d * Span(q.height)
                  /\ d \in Digits(p) <=> Start(p, d) < p.count
                  /\ d \in Digits(p) =>
                         /\ ChildPosition(p, d).count <= ChildPosition(q, d).count
                         /\ \/ ChildPosition(p, d) = ChildPosition(q, d)
                            \/ ChildPosition(p, d).count = p.count - Start(p, d)
<1> DEFINE S == Span(p.height)
<1>1. /\ p.count \in Nat /\ q.count \in Nat /\ S \in Nat \ {0} /\ p.height \in 0..Width
      /\ Digital(p) /\ Digital(q) /\ Digits(p) \subseteq Nat /\ Digits(q) \subseteq Nat
      /\ S = Span(q.height)
  BY Spans, DigitsAre DEF Positions
<1>2. \A d \in Nat : /\ d \in Digits(p) <=> d * S < p.count
                     /\ d \in Digits(q) <=> d * S < q.count
  BY <1>1 DEF Digital
<1>3. Digits(p) \subseteq Digits(q)
  <2> SUFFICES ASSUME NEW d \in Digits(p) PROVE d \in Digits(q)
    OBVIOUS
  <2> DEFINE x == d * S
  <2>1. d \in Nat
    BY <1>1
  <2>2. x \in Nat /\ x < p.count
    BY <1>1, <1>2, <2>1
  <2> HIDE DEF x
  <2>3. x < q.count
    BY <1>1, <2>2
  <2> QED BY <1>2, <2>1, <2>3 DEF x
<1>4. ASSUME NEW d \in Digits(q), p.height # 0
      PROVE  /\ d \in Nat /\ Start(p, d) = Start(q, d) /\ Start(p, d) = d * Span(q.height)
             /\ d \in Digits(p) <=> Start(p, d) < p.count
             /\ d \in Digits(p) =>
                    /\ ChildPosition(p, d).count <= ChildPosition(q, d).count
                    /\ \/ ChildPosition(p, d) = ChildPosition(q, d)
                       \/ ChildPosition(p, d).count = p.count - Start(p, d)
  <2> DEFINE x == d * S
  <2>1. d \in Nat /\ x \in Nat
    BY <1>1
  <2>2. Start(q, d) = x
    BY <1>1, <1>4, <2>1, ChildIs
  <2>3. Start(p, d) = Start(q, d)
    BY DEF Start, Shift
  <2>4. ASSUME d \in Digits(p)
        PROVE  /\ ChildPosition(p, d).count <= ChildPosition(q, d).count
               /\ \/ ChildPosition(p, d) = ChildPosition(q, d)
                  \/ ChildPosition(p, d).count = p.count - x
    <3> DEFINE a == ChildPosition(p, d)
               b == ChildPosition(q, d)
    <3>1. /\ a.count = IF p.count - x <= S THEN p.count - x ELSE S
          /\ a.height = p.height - 1 /\ a.root = FALSE /\ a \in Positions
      BY <1>1, <1>4, <2>1, <2>4, ChildIs
    <3>2. /\ b.count = IF q.count - x <= S THEN q.count - x ELSE S
          /\ b.height = q.height - 1 /\ b.root = FALSE /\ b \in Positions
      BY <1>1, <1>4, <2>1, ChildIs
    <3>3. x < p.count
      BY <1>2, <2>1, <2>4
    <3>4. a.count = b.count => a = b
      <4>1. a = Position(a.count, a.height, a.root) /\ b = Position(b.count, b.height, b.root)
        BY <3>1, <3>2 DEF Positions, Position
      <4> HIDE DEF a, b
      <4> QED BY <3>1, <3>2, <4>1
    <3> HIDE DEF a, b, x, S
    <3>5. a.count <= b.count /\ (a.count = b.count \/ a.count = p.count - x)
      BY <1>1, <2>1, <3>1, <3>2, <3>3
    <3> QED BY <3>4, <3>5 DEF a, b
  <2>5. d \in Digits(p) <=> x < p.count
    BY <1>2, <2>1
  <2> HIDE DEF x
  <2> QED BY <1>1, <2>1, <2>2, <2>3, <2>4, <2>5 DEF x
<1> QED BY <1>3, <1>4

-----------------------------------------------------------------------------
(* AppendBatch on trees.                                                    *)

\* All items: those of a List of n items, and m more.
Continues(s, n, t, m, all) ==
    /\ \A i \in 1..n : all[i] = s[i]
    /\ \A i \in 1..m : all[n + i] = t[i]

\* What is asked of two positions, the first of which the items up to n fill.
Grown(old, next, f, n, m) ==
    /\ Fits(old) /\ Fits(next) /\ f \in Nat \ {0} /\ n \in Nat /\ m \in Nat
    /\ old.height <= next.height /\ (old.height < next.height => old.root)
    /\ f + old.count - 1 <= n /\ f + next.count - 1 <= n + m
    /\ IF old = next THEN ~old.root ELSE f + old.count - 1 = n /\ old.count <= next.count

\* The results for the digits, and what was read for them.
ChildrenGrown(store, t, meta, node, old, next, first) ==
    [d \in Digits(next) |->
        GrowChild(Grows(store, t, meta)[next.height - 1], t, node, old, next, first, d)]

ReadToGrow(node, old, next) == IF old.height = next.height THEN {node} ELSE {}

\* What appendNode does with a node, for all positions and all items.
LEMMA GrowsIs ==
    ASSUME NEW store, NEW t, NEW meta, NEW node \in Referenced(store),
           NEW old \in Positions, NEW next \in Positions, NEW first \in Nat
    PROVE  Grows(store, t, meta)[next.height][node][old][next][first] =
               IF old = next THEN Unchanged(node)
               ELSE IF old.count = 0 THEN Built(t, meta, next, first)
               ELSE IF old.height = next.height /\ ~(node \in store /\ Shaped(node, old)) THEN Refused
               ELSE IF next.height = 0
               THEN Written(GrownLeaves(t, meta, node, old, next, first), <<>>, ReadToGrow(node, old, next))
               ELSE Combined(next, meta, ChildrenGrown(store, t, meta, node, old, next, first),
                             ReadToGrow(node, old, next))
<1> DEFINE h == next.height
           G == Grows(store, t, meta)
<1>1. h \in 0..Width
  BY DEF Positions
<1>2. G[h] = GrowsAt(G[h - 1], store, t, meta, h)
  BY <1>1, GrowsUnfold
<1> HIDE DEF h, G
<1>3. G[h][node][old][next][first] =
          IF old = next THEN Unchanged(node)
          ELSE IF old.count = 0 THEN Built(t, meta, next, first)
          ELSE IF old.height = h /\ ~(node \in store /\ Shaped(node, old)) THEN Refused
          ELSE IF h = 0
          THEN Written(GrownLeaves(t, meta, node, old, next, first), <<>>,
                       IF old.height = h THEN {node} ELSE {})
          ELSE Combined(next, meta,
                   [d \in Digits(next) |-> GrowChild(G[h - 1], t, node, old, next, first, d)],
                   IF old.height = h THEN {node} ELSE {})
  BY <1>2 DEF GrowsAt
<1> QED BY <1>3 DEF ChildrenGrown, ReadToGrow, G, h

\* The leaves of a longer List: those that were there, and new ones behind them.
LEMMA LeavesGrow ==
    ASSUME NEW s, NEW t, NEW all, NEW n, NEW m, Continues(s, n, t, m, all),
           NEW old, NEW next, NEW f, Grown(old, next, f, n, m), old # next, next.height = 0,
           NEW meta, NEW meta0
    PROVE  GrownLeaves(t, meta, Tree(s, meta0, old, f), old, next, 1) = Tree(all, meta, next, f)
<1> DEFINE node == Tree(s, meta0, old, f)
           below == TreeBelow(all, meta, next, f)
           b == Base(next)
           c == Base(old)
<1>1. /\ old \in Positions /\ next \in Positions /\ f \in Nat \ {0} /\ n \in Nat /\ m \in Nat
      /\ old.height = 0 /\ old.count <= next.count /\ f + old.count - 1 = n
      /\ f + next.count - 1 <= n + m
      /\ old.height \in 0..Width
  BY DEF Grown, Fits, Positions
<1>2. /\ Digits(old) = 0..(old.count - 1) /\ Digits(next) = 0..(next.count - 1)
      /\ old.count \in Nat /\ next.count \in Nat
  BY <1>1, LeafDigits
<1>3. b \in 0..1 /\ c \in 0..1 /\ Slots \in Nat
  BY <1>1, DigitsAre, Spans
<1>4. \A d \in Digits(old) : node[c + d] = Item(s[f + d])
  <2>1. f \in Nat /\ Fits(old)
    BY <1>1 DEF Grown
  <2> QED BY <1>1, <2>1, TreeShaped
<1>5. \A d \in Digits(next) : below[d] = Item(all[f + d])
  BY DEF TreeBelow
<1>6. Tree(all, meta, next, f) = Cells(meta, next, below)
  BY <1>1, TreeIs
<1> DEFINE Cell(slot) == LET d == slot - b IN
                         IF d < 0 THEN meta
                         ELSE IF d < old.count THEN node[c + d]
                         ELSE IF d < next.count THEN Item(t[1 + d - old.count])
                         ELSE Empty
           Cell2(slot) == IF slot < b THEN meta
                          ELSE IF slot - b \in Digits(next) THEN below[slot - b] ELSE Empty
<1>7. GrownLeaves(t, meta, node, old, next, 1) = [slot \in Slot |-> Cell(slot)]
  BY DEF GrownLeaves
<1>8. Cells(meta, next, below) = [slot \in Slot |-> Cell2(slot)]
  BY DEF Cells
<1> HIDE DEF node, below
<1>9. \A slot \in Slot : Cell(slot) = Cell2(slot)
  <2> TAKE slot \in Slot
  <2> DEFINE d == slot - b
  <2>1. slot \in Nat /\ d \in Int /\ (slot < b <=> d < 0)
    BY <1>3 DEF Slot
  <2> HIDE DEF b, c, d
  <2>2. CASE d < 0
    BY <2>1, <2>2 DEF d
  <2>3. CASE d \in 0..(old.count - 1)
    <3>1. /\ d \in Digits(next) /\ ~(d < 0) /\ d < old.count /\ f + d \in 1..n /\ ~(slot < b)
      BY <1>1, <1>2, <2>1, <2>3
    <3>2. node[c + d] = Item(s[f + d]) /\ below[d] = Item(all[f + d])
      BY <1>2, <1>4, <1>5, <2>3, <3>1
    <3>3. all[f + d] = s[f + d]
      BY <3>1 DEF Continues
    <3> QED BY <3>1, <3>2, <3>3 DEF d
  <2>4. CASE d \in old.count..(next.count - 1)
    <3>1. /\ d \in Digits(next) /\ ~(d < 0) /\ ~(d < old.count) /\ d < next.count /\ ~(slot < b)
          /\ 1 + d - old.count \in 1..m /\ n + (1 + d - old.count) = f + d
      <4> DEFINE o == old.count
                 e == next.count
      <4>1. /\ o \in Nat /\ e \in Nat /\ f \in Nat /\ n \in Nat /\ m \in Nat /\ f + o - 1 = n
            /\ f + e - 1 <= n + m /\ d \in o..(e - 1) /\ Digits(next) = 0..(e - 1)
        BY <1>1, <1>2, <2>4
      <4> HIDE DEF o, e
      <4>2. d \in Int /\ o <= d /\ d <= e - 1
        BY <4>1
      <4>3. 1 + d - o \in 1..m /\ n + (1 + d - o) = f + d
        BY <4>1, <4>2
      <4>4. d \in Digits(next) /\ ~(d < 0) /\ ~(d < o) /\ d < e /\ ~(slot < b)
        BY <2>1, <4>1, <4>2
      <4> QED BY <4>3, <4>4 DEF o, e
    <3>2. below[d] = Item(all[f + d])
      BY <1>5, <3>1
    <3>3. all[n + (1 + d - old.count)] = t[1 + d - old.count]
      BY <3>1 DEF Continues
    <3>4. all[f + d] = t[1 + d - old.count]
      BY <3>1, <3>3
    <3> QED BY <3>1, <3>2, <3>4 DEF d
  <2>5. CASE d >= next.count
    <3>1. /\ d \notin Digits(next) /\ ~(d < 0) /\ ~(d < old.count) /\ ~(d < next.count) /\ ~(slot < b)
      BY <1>1, <1>2, <2>1, <2>5
    <3> QED BY <3>1 DEF d
  <2>6. d < 0 \/ d \in 0..(old.count - 1) \/ d \in old.count..(next.count - 1) \/ d >= next.count
    BY <1>2, <2>1
  <2> QED BY <2>2, <2>3, <2>4, <2>5, <2>6
<1> HIDE DEF Cell, Cell2
<1>10. [slot \in Slot |-> Cell(slot)] = [slot \in Slot |-> Cell2(slot)]
  BY <1>9
<1> QED BY <1>6, <1>7, <1>8, <1>10 DEF node

\* Metadata shows at a root alone.
Agree(pos, x, y) == pos.root => x = y

\* An operation is accepted and makes a node.
Makes(result, node) == result.ok = TRUE /\ result.node = node

\* New items behind those that were there make a tree of their own.
LEMMA NewTree ==
    ASSUME NEW s, NEW t, NEW all, NEW n, NEW m, Continues(s, n, t, m, all), n \in Nat, m \in Nat
    PROVE  \A pos \in Positions : \A i, f \in Nat :
               i # 0 /\ f = n + i /\ i + pos.count - 1 <= m =>
                   \A meta, other : Agree(pos, meta, other) =>
                       Makes(Built(t, other, pos, i), Tree(all, meta, pos, f))
<1> SUFFICES ASSUME NEW pos \in Positions, NEW i \in Nat, NEW f \in Nat,
                    i # 0, f = n + i, i + pos.count - 1 <= m,
                    NEW meta, NEW other, Agree(pos, meta, other)
             PROVE  Makes(Built(t, other, pos, i), Tree(all, meta, pos, f))
  OBVIOUS
<1>1. pos.count \in Nat
  BY Spans DEF Positions
<1>2. \A x \in 0..(pos.count - 1) : t[i + x] = all[f + x]
  <2> TAKE x \in 0..(pos.count - 1)
  <2>1. i + x \in 1..m /\ n + (i + x) = f + x
    BY <1>1
  <2>2. all[n + (i + x)] = t[i + x]
    BY <2>1 DEF Continues
  <2> QED BY <2>1, <2>2
<1>3. Tree(t, other, pos, i) = Tree(all, meta, pos, f)
  BY <1>2, TreeSame DEF Agree
<1>4. Built(t, other, pos, i).ok = TRUE
  BY BuiltAccepts
<1> QED BY <1>3, <1>4 DEF Tree, Makes

\* Higher spans are no less, and a node has no more than the span above it.
LEMMA SpansGrow ==
    /\ \A i, k \in 0..Width : i <= k => Span(i) <= Span(k)
    /\ \A pos : Fits(pos) /\ pos.height < Width => pos.count <= Span(pos.height + 1)
<1>1. /\ Width \in Nat /\ Slots \in Nat /\ Slots >= 2
      /\ \A h \in 0..Width : Span(h) \in Nat \ {0}
      /\ \A h \in 1..Width : Span(h) = Slots * Span(h - 1)
  BY Spans, ListAssumption
<1>2. \A i \in 0..Width : \A k \in 0..Width : i <= k => Span(i) <= Span(k)
  <2> TAKE i \in 0..Width
  <2> DEFINE S == {k \in 0..(Width - i) : Span(i) <= Span(i + k)}
  <2>1. Width - i \in Nat
    BY <1>1
  <2>2. 0 \in S
    <3>1. i + 0 = i /\ 0 \in 0..(Width - i)
      BY <2>1
    <3>2. Span(i) <= Span(i)
      BY <1>1
    <3> QED BY <3>1, <3>2
  <2>3. \A k \in 0..((Width - i) - 1) : k \in S => k + 1 \in S
    <3> SUFFICES ASSUME NEW k \in 0..((Width - i) - 1), k \in S PROVE k + 1 \in S
      OBVIOUS
    <3>1. /\ k + 1 \in 0..(Width - i) /\ i + (k + 1) \in 1..Width /\ (i + (k + 1)) - 1 = i + k
          /\ i + k \in 0..Width
      BY <1>1
    <3>2. Span(i + (k + 1)) = Slots * Span(i + k)
      BY <1>1, <3>1
    <3> DEFINE x == Span(i + k)
               y == Span(i)
               z == Span(i + (k + 1))
    <3>3. x \in Nat /\ y \in Nat /\ y <= x /\ z = Slots * x
      BY <1>1, <3>1, <3>2
    <3> HIDE DEF x, y, z
    <3>4. Slots * x = x + (Slots - 1) * x /\ (Slots - 1) * x \in Nat
      BY <1>1, <3>3
    <3>5. y <= z
      BY <3>3, <3>4
    <3> QED BY <3>1, <3>5 DEF y, z
  <2>4. 0..(Width - i) \subseteq S
    <3> HIDE DEF S
    <3> QED BY <2>1, <2>2, <2>3, Upwards
  <2> SUFFICES ASSUME NEW k \in 0..Width, i <= k PROVE Span(i) <= Span(k)
    OBVIOUS
  <2>5. k - i \in 0..(Width - i) /\ i + (k - i) = k
    BY <1>1
  <2> QED BY <2>4, <2>5
<1>3. ASSUME NEW pos, Fits(pos), pos.height < Width PROVE pos.count <= Span(pos.height + 1)
  <2>1. /\ pos \in Positions /\ Used(pos) <= Slots - Base(pos)
        /\ Used(pos) \in Nat /\ Base(pos) \in 0..1 /\ Digital(pos)
    BY <1>3, DigitsAre DEF Fits
  <2>2. pos.height \in 0..Width /\ pos.count \in Nat /\ pos.height + 1 \in 1..Width /\ (pos.height + 1) - 1 = pos.height
    BY <1>1, <1>3, <2>1, Spans DEF Positions
  <2>3. Span(pos.height + 1) = Slots * Span(pos.height)
    BY <1>1, <2>2
  <2>4. Slots \notin Digits(pos)
    BY <1>1, <2>1 DEF Digits
  <2>5. ~(Slots * Span(pos.height) < pos.count)
    BY <1>1, <2>1, <2>4 DEF Digital
  <2>6. Slots * Span(pos.height) \in Nat
    BY <1>1, <2>2
  <2> QED BY <2>2, <2>3, <2>5, <2>6
<1> QED BY <1>2, <1>3

\* An operation makes a tree, whose nodes it writes in order.
Yields(result, node, base, height) == Makes(result, node) /\ Orderly(result, base, height)

\* What AppendBatch makes of the tree of the items up to n.
GrowsTo(store, s, meta0, t, all, meta, old, next, f) ==
    Yields(Grows(store, t, meta)[next.height][Tree(s, meta0, old, f)][old][next][1],
           Tree(all, meta, next, f), {Tree(s, meta0, old, f)}, next.height)

\* That it does so for all positions of a height.
AllGrow(store, s, meta0, t, all, meta, n, m, height) ==
    \A old, next, f :
        /\ next.height = height /\ Grown(old, next, f, n, m)
        /\ Whole(Tree(s, meta0, old, f), old.height, store)
        => GrowsTo(store, s, meta0, t, all, meta, old, next, f)

\* Each child is one that stays or grows, the old tree below a higher root, or new.
LEMMA ChildTreeGrows ==
    ASSUME NEW s, NEW t, NEW all, NEW n, NEW m, Continues(s, n, t, m, all),
           NEW store, NEW meta, NEW meta0,
           NEW old, NEW next, NEW f, Grown(old, next, f, n, m), old # next, next.height # 0,
           Whole(Tree(s, meta0, old, f), old.height, store),
           AllGrow(store, s, meta0, t, all, meta, n, m, next.height - 1),
           NEW d \in Digits(next)
    PROVE  LET below == Grows(store, t, meta)[next.height - 1]
               r == GrowChild(below, t, Tree(s, meta0, old, f), old, next, 1, d)
           IN  Yields(r, Tree(all, meta, ChildPosition(next, d), f + Start(next, d)),
                      KnownFrom({Tree(s, meta0, old, f)}, ReadToGrow(Tree(s, meta0, old, f), old, next)),
                      next.height - 1)
<1> DEFINE h == next.height
           node == Tree(s, meta0, old, f)
           known == KnownFrom({node}, ReadToGrow(node, old, next))
           below == Grows(store, t, meta)[h - 1]
           r == GrowChild(below, t, node, old, next, 1, d)
           start == Start(next, d)
           to == ChildPosition(next, d)
           S == Span(h)
<1>1. /\ old \in Positions /\ next \in Positions /\ f \in Nat \ {0} /\ n \in Nat /\ m \in Nat
      /\ Fits(old) /\ Fits(next)
      /\ old.height <= h /\ (old.height < h => old.root)
      /\ f + old.count - 1 = n /\ f + next.count - 1 <= n + m /\ old.count <= next.count
  BY DEF Grown, Fits
<1>2. /\ old.height \in 0..Width /\ h \in 0..Width /\ old.count \in Nat /\ next.count \in Nat
      /\ Width \in Nat /\ S \in Nat \ {0} /\ h # 0 /\ h \in Nat
  BY <1>1, Spans, ListAssumption DEF Positions
<1>3. /\ d \in Nat /\ to \in Positions /\ start = d * S /\ start \in Nat
      /\ to.height = h - 1 /\ to.root = FALSE
      /\ to.count = IF next.count - start <= S THEN next.count - start ELSE S
  <2>1. d \in Nat /\ to \in Positions /\ start \in Nat
    BY <1>1, ChildWindow
  <2>2. next.height # 0
    OBVIOUS
  <2>3. /\ Start(next, d) = d * Span(next.height)
        /\ ChildPosition(next, d).height = next.height - 1 /\ ChildPosition(next, d).root = FALSE
        /\ ChildPosition(next, d).count =
               IF next.count - d * Span(next.height) <= Span(next.height)
               THEN next.count - d * Span(next.height) ELSE Span(next.height)
    BY <1>1, <2>1, <2>2, ChildIs
  <2> QED BY <2>1, <2>3
<1>4. Fits(to) /\ to.count \in Nat
  <2>1. Fits(to)
    BY <1>1, <1>3, ChildFits
  <2> QED BY <1>3, <2>1, Spans DEF Positions
<1>5. start < next.count
  <2>1. Digital(next)
    BY <1>1, DigitsAre
  <2> QED BY <1>1, <1>2, <1>3, <2>1 DEF Digital
<1>10. node \in known /\ (old.height = h => ChildNodes(node) \subseteq known)
  BY DEF KnownFrom, ReadToGrow
<1>11. h - 1 \in 0..Width
  BY <1>2
<1>6. CASE start >= old.count
  <2>1. r = Built(t, Empty, to, 1 + start - old.count)
    BY <1>6 DEF GrowChild
  <2> DEFINE i == 1 + start - old.count
  <2>2. to.count <= next.count - start
    BY <1>2, <1>3, <1>5
  <2>3. i \in Nat \ {0} /\ f + start = n + i /\ i + to.count - 1 <= m /\ f + start \in Nat
    <3> HIDE DEF start, to, S, h
    <3> QED BY <1>1, <1>2, <1>3, <1>4, <1>6, <2>2
  <2>4. Agree(to, meta, Empty)
    BY <1>3 DEF Agree
  <2> DEFINE j == f + start
  <2> HIDE DEF i, start, to, h, j
  <2>5. i \in Nat /\ i # 0 /\ j \in Nat /\ j = n + i /\ i + to.count - 1 <= m
        /\ n \in Nat /\ m \in Nat /\ to \in Positions
    BY <1>1, <1>3, <2>3 DEF j
  <2>6. Makes(Built(t, Empty, to, i), Tree(all, meta, to, j))
    <3>1. \A pos \in Positions : \A g, k \in Nat :
              g # 0 /\ k = n + g /\ g + pos.count - 1 <= m =>
                  \A x, y : Agree(pos, x, y) =>
                      Makes(Built(t, y, pos, g), Tree(all, x, pos, k))
      BY <2>5, NewTree
    <3> QED BY <2>4, <2>5, <3>1
  <2>7. r = Built(t, Empty, to, i)
    BY <2>1 DEF i
  <2>8. Orderly(Built(t, Empty, to, i), known, h - 1)
    <3>1. Fits(to) /\ to.root = FALSE /\ to.height = h - 1
      BY <1>3, <1>4
    <3> HIDE DEF known
    <3> QED BY <2>5, <3>1, BuiltOrderly
  <2> HIDE DEF r, known
  <2>9. Yields(r, Tree(all, meta, to, f + start), known, h - 1)
    BY <2>6, <2>7, <2>8 DEF j, Yields
  <2> QED BY <2>9 DEF r, start, to, h, known
<1>7. CASE start < old.count /\ old.height # h
  <2>1. r = below[node][old][to][1]
    BY <1>2, <1>3, <1>7 DEF GrowChild
  <2>2. old.count <= S
    <3>1. old.height < Width /\ old.height + 1 \in 0..Width /\ old.height + 1 <= h
      BY <1>1, <1>2, <1>7
    <3>2. old.count <= Span(old.height + 1)
      BY <1>1, <3>1, SpansGrow
    <3>3. Span(old.height + 1) <= S
      BY <1>2, <3>1, SpansGrow
    <3>4. Span(old.height + 1) \in Nat
      BY <3>1, Spans
    <3> QED BY <1>2, <3>2, <3>3, <3>4
  <2>3. d = 0
    <3> SUFFICES ASSUME d # 0 PROVE FALSE
      OBVIOUS
    <3> HIDE DEF start, S
    <3>1. d * S = S + (d - 1) * S /\ (d - 1) * S \in Nat
      BY <1>2, <1>3
    <3>2. start >= S
      BY <1>2, <1>3, <3>1
    <3> QED BY <1>2, <1>3, <1>7, <2>2, <3>2
  <2>4. start = 0 /\ f + start = f /\ to.count <= next.count /\ old.count <= to.count
    <3> HIDE DEF start, S, to
    <3>1. start = 0
      BY <1>2, <1>3, <2>3
    <3> QED BY <1>1, <1>2, <1>3, <2>2, <3>1
  <2>5. old.root /\ old # to /\ old.height <= h - 1
    <3>1. old.root /\ old.height <= h - 1
      BY <1>1, <1>2, <1>7
    <3> QED BY <1>3, <3>1
  <2>6. Grown(old, to, f, n, m)
    <3> HIDE DEF start, S, to, h
    <3>1. f + old.count - 1 <= n /\ f + to.count - 1 <= n + m
      BY <1>1, <1>2, <1>4, <2>4
    <3> QED BY <1>1, <1>3, <1>4, <2>4, <2>5, <3>1 DEF Grown
  <2>7. GrowsTo(store, s, meta0, t, all, meta, old, to, f)
    <3>1. Whole(node, old.height, store) /\ to.height = next.height - 1
      BY <1>3
    <3> QED BY <2>6, <3>1 DEF AllGrow
  <2>8. to.height = h - 1
    BY <1>3
  <2> HIDE DEF to, h, start, below, node, known
  <2>9. Yields(below[node][old][to][1], Tree(all, meta, to, f + start), {node}, h - 1)
    BY <2>4, <2>7, <2>8 DEF GrowsTo, below, node, h
  <2> HIDE DEF r
  <2>10. Yields(r, Tree(all, meta, to, f + start), known, h - 1)
    <3>1. Makes(r, Tree(all, meta, to, f + start)) /\ Orderly(r, {node}, h - 1)
      BY <2>1, <2>9 DEF Yields
    <3>2. {node} \subseteq known
      BY <1>10
    <3> QED BY <1>11, <3>1, <3>2, OrderlyBase DEF Yields
  <2> QED BY <2>10 DEF to, h, start, r, below, node, known
<1>8. CASE start < old.count /\ old.height = h
  <2> DEFINE cell == node[Base(old) + d]
             from == ChildPosition(old, d)
             child == Tree(s, meta0, from, f + start)
  <2>1. /\ d \in Digits(old) /\ Start(old, d) = start
        /\ from.count <= to.count
        /\ from = to \/ from.count = old.count - start
    <3>1. old.height = next.height /\ old.height # 0
      BY <1>2, <1>8
    <3>2. Start(old, d) = start /\ (d \in Digits(old) <=> Start(old, d) < old.count)
      BY <1>1, <3>1, ChildGrows
    <3>3. d \in Digits(old)
      BY <1>8, <3>2
    <3>4. from.count <= to.count /\ (from = to \/ from.count = old.count - Start(old, d))
      BY <1>1, <3>1, <3>3, ChildGrows
    <3> QED BY <3>2, <3>3, <3>4
  <2>2. cell = ChildCell(child) /\ Base(old) + d \in Slot
    <3>1. f \in Nat
      BY <1>1
    <3>2. /\ Base(old) + d \in Slot
          /\ node[Base(old) + d] = ChildCell(Tree(s, meta0, ChildPosition(old, d), f + Start(old, d)))
      BY <1>1, <1>2, <1>8, <2>1, <3>1, TreeShaped
    <3> QED BY <2>1, <3>2
  <2>3. cell.kind = "child" /\ cell.node = child
    BY <2>2 DEF ChildCell
  <2>4. r = below[child][from][to][1]
    <3>1. ~(start >= old.count) /\ ~(old.height # next.height) /\ ~(cell.kind # "child")
      BY <1>2, <1>3, <1>8, <2>3
    <3>2. r = below[cell.node][from][to][1]
      BY <3>1 DEF GrowChild
    <3> QED BY <2>3, <3>2
  <2>5. Whole(child, h - 1, store)
    <3>1. child \in ChildNodes(node)
      BY <2>2, <2>3 DEF ChildNodes
    <3> HIDE DEF child, node
    <3> QED BY <1>2, <1>8, <3>1, WholeBelow DEF node
  <2>6. Fits(from) /\ from \in Positions /\ from.height = h - 1 /\ from.root = FALSE
    <3>1. old.height # 0 /\ d \in Nat /\ old \in Positions
      BY <1>1, <1>2, <1>3, <1>8
    <3> HIDE DEF start, to, below, node, known, r
    <3>2. Fits(from)
      BY <3>1, ChildFits
    <3>3. from \in Positions /\ from.height = old.height - 1 /\ from.root = FALSE
      BY <3>1, ChildIs
    <3> QED BY <1>8, <3>2, <3>3
  <2>7. Grown(from, to, f + start, n, m)
    <3>1. /\ from.count \in Nat /\ to.count <= next.count - start
          /\ from.count <= old.count - start
      <4>1. from.count \in Nat
        BY <2>6, Spans DEF Positions
      <4>2. to.count <= next.count - start
        BY <1>2, <1>3, <1>5
      <4>3. from.count = IF old.count - start <= S THEN old.count - start ELSE S
        <5>1. d \in Nat /\ old.height # 0
          BY <1>2, <1>3, <1>8
        <5>2. from.count = IF old.count - d * Span(old.height) <= Span(old.height)
                           THEN old.count - d * Span(old.height) ELSE Span(old.height)
          BY <1>1, <2>1, <5>1, ChildIs
        <5>3. d * Span(old.height) = start /\ Span(old.height) = S
          BY <1>3, <1>8
        <5> QED BY <5>2, <5>3
      <4> HIDE DEF from, to, start, S
      <4>4. from.count <= old.count - start
        BY <1>2, <1>3, <4>3
      <4> QED BY <4>1, <4>2, <4>4
    <3> HIDE DEF from, to, start, h, S
    <3>2. f + start \in Nat \ {0} /\ (f + start) + from.count - 1 <= n /\ (f + start) + to.count - 1 <= n + m
      BY <1>1, <1>2, <1>3, <1>4, <3>1
    <3>3. from # to => (f + start) + from.count - 1 = n
      BY <1>1, <1>2, <1>3, <2>1, <3>1
    <3>4. from.height <= to.height /\ ~(from.height < to.height)
      BY <1>2, <1>3, <2>6
    <3> QED BY <1>1, <1>4, <2>1, <2>6, <3>2, <3>3, <3>4 DEF Grown
  <2>8. GrowsTo(store, s, meta0, t, all, meta, from, to, f + start)
    <3> HIDE DEF from, to, start, h
    <3>1. to.height = next.height - 1 /\ from.height = next.height - 1
      BY <1>3, <2>6 DEF h
    <3>2. Whole(Tree(s, meta0, from, f + start), from.height, store)
      BY <2>5, <2>6 DEF child
    <3> QED BY <2>7, <3>1, <3>2 DEF AllGrow
  <2>9. to.height = h - 1
    BY <1>3
  <2>12. child \in known
    <3>1. child \in ChildNodes(node)
      BY <2>2, <2>3 DEF ChildNodes
    <3> HIDE DEF child, node, known
    <3> QED BY <1>8, <1>10, <3>1
  <2> HIDE DEF to, h, start, from, below, child, known
  <2>10. Yields(below[child][from][to][1], Tree(all, meta, to, f + start), {child}, h - 1)
    BY <2>8, <2>9 DEF GrowsTo, below, child, h
  <2> HIDE DEF r
  <2>11. Yields(r, Tree(all, meta, to, f + start), known, h - 1)
    <3>1. Makes(r, Tree(all, meta, to, f + start)) /\ Orderly(r, {child}, h - 1)
      BY <2>4, <2>10 DEF Yields
    <3>2. {child} \subseteq known
      BY <2>12
    <3> QED BY <1>11, <3>1, <3>2, OrderlyBase DEF Yields
  <2> QED BY <2>11 DEF to, h, start, r, below, known
<1>9. start >= old.count \/ (start < old.count /\ old.height # h) \/ (start < old.count /\ old.height = h)
  BY <1>2, <1>3
<1> QED BY <1>6, <1>7, <1>8, <1>9

\* Results for the digits that are the children of a tree make the tree.
LEMMA CombinedMakes ==
    ASSUME NEW items, NEW meta, NEW pos \in Positions, pos.height # 0, NEW f \in Nat,
           NEW read, NEW results, DOMAIN results = Digits(pos),
           \A d \in Digits(pos) :
               Makes(results[d], Tree(items, meta, ChildPosition(pos, d), f + Start(pos, d)))
    PROVE  Makes(Combined(pos, meta, results, read), Tree(items, meta, pos, f))
<1>1. \A d \in Digits(pos) : /\ results[d].ok = TRUE
                             /\ results[d].node = Tree(items, meta, ChildPosition(pos, d), f + Start(pos, d))
  BY DEF Makes
<1>2. Children(results) = TreeBelow(items, meta, pos, f)
  BY <1>1 DEF Children, TreeBelow
<1>3. /\ Combined(pos, meta, results, read).node = Cells(meta, pos, Children(results))
      /\ Combined(pos, meta, results, read).ok = \A d \in Digits(pos) : results[d].ok
  BY CombinedIs
<1>4. Tree(items, meta, pos, f) = Cells(meta, pos, TreeBelow(items, meta, pos, f))
  BY TreeIs
<1>5. Combined(pos, meta, results, read).ok = TRUE
  BY <1>1, <1>3
<1> QED BY <1>2, <1>3, <1>4, <1>5 DEF Makes

\* AppendBatch makes the tree of all the items (appendNode).
LEMMA TreeGrows ==
    ASSUME NEW s, NEW t, NEW all, NEW n, NEW m, Continues(s, n, t, m, all),
           NEW store, NEW meta, meta.kind # "child", NEW meta0
    PROVE  \A h \in 0..Width : AllGrow(store, s, meta0, t, all, meta, n, m, h)
<1> DEFINE S == {h \in 0..Width : AllGrow(store, s, meta0, t, all, meta, n, m, h)}
<1>1. Width \in Nat
  BY ListAssumption
<1>9. ASSUME NEW h,
             \A old, next, f :
                 next.height = h =>
                     (Grown(old, next, f, n, m) =>
                         (Whole(Tree(s, meta0, old, f), old.height, store) =>
                             GrowsTo(store, s, meta0, t, all, meta, old, next, f)))
      PROVE  AllGrow(store, s, meta0, t, all, meta, n, m, h)
  BY <1>9 DEF AllGrow
<1>2. ASSUME NEW h \in 0..Width, h # 0 => AllGrow(store, s, meta0, t, all, meta, n, m, h - 1)
      PROVE  AllGrow(store, s, meta0, t, all, meta, n, m, h)
  <2> SUFFICES ASSUME NEW old, NEW next, NEW f, next.height = h, Grown(old, next, f, n, m),
                      Whole(Tree(s, meta0, old, f), old.height, store)
               PROVE  GrowsTo(store, s, meta0, t, all, meta, old, next, f)
    BY <1>9
  <2> DEFINE node == Tree(s, meta0, old, f)
             G == Grows(store, t, meta)
             r == G[h][node][old][next][1]
             read == ReadToGrow(node, old, next)
             results == ChildrenGrown(store, t, meta, node, old, next, 1)
  <2>1. /\ old \in Positions /\ next \in Positions /\ Fits(old) /\ Fits(next)
        /\ f \in Nat \ {0} /\ f \in Nat /\ n \in Nat /\ m \in Nat
        /\ old.height <= h
        /\ f + old.count - 1 <= n /\ f + next.count - 1 <= n + m
        /\ (old # next => f + old.count - 1 = n /\ old.count <= next.count)
        /\ (old = next => ~old.root)
    BY DEF Grown, Fits
  <2>2. old.count \in Nat /\ next.count \in Nat /\ old.height \in 0..Width
    BY <2>1, Spans DEF Positions
  <2>3. node \in store /\ node \in Referenced(store)
    BY <2>2, WholeBelow
  <2>4. Shaped(node, old)
    BY <2>1, TreeShaped
  <2>5. r = IF old = next THEN Unchanged(node)
            ELSE IF old.count = 0 THEN Built(t, meta, next, 1)
            ELSE IF old.height = h /\ ~(node \in store /\ Shaped(node, old)) THEN Refused
            ELSE IF h = 0 THEN Written(GrownLeaves(t, meta, node, old, next, 1), <<>>, read)
            ELSE Combined(next, meta, results, read)
    <3>1. 1 \in Nat
      OBVIOUS
    <3> HIDE DEF node
    <3> QED BY <2>1, <2>3, <3>1, GrowsIs
  <2>6. DOMAIN results = Digits(next)
    BY DEF ChildrenGrown
  <2>11. read \subseteq {node}
    BY DEF ReadToGrow
  <2> HIDE DEF node, G, r, read, results
  <2>7. CASE old = next
    <3>1. \A x \in 0..(old.count - 1) : s[f + x] = all[f + x]
      <4> TAKE x \in 0..(old.count - 1)
      <4>1. f + x \in 1..n
        BY <2>1, <2>2
      <4> QED BY <4>1 DEF Continues
    <3>2. Tree(s, meta0, old, f) = Tree(all, meta, old, f)
      BY <2>1, <2>7, <3>1, TreeSame
    <3>3. Makes(Unchanged(node), node)
      BY DEF Makes, Unchanged
    <3>4. Makes(r, Tree(all, meta, next, f))
      BY <2>5, <2>7, <3>2, <3>3 DEF node
    <3>5. Orderly(r, {node}, h)
      <4>1. Orderly(Unchanged(node), {node}, h)
        BY UnchangedOrderly
      <4> QED BY <2>5, <2>7, <4>1
    <3> QED BY <3>4, <3>5 DEF GrowsTo, Yields, r, node, G
  <2>8. CASE old # next /\ old.count = 0
    <3>1. f = n + 1 /\ 1 + next.count - 1 <= m /\ 1 \in Nat /\ 1 # 0
      BY <2>1, <2>2, <2>8
    <3>2. Agree(next, meta, meta)
      BY DEF Agree
    <3>3. Makes(Built(t, meta, next, 1), Tree(all, meta, next, f))
      <4>1. \A pos \in Positions : \A g, k \in Nat :
                g # 0 /\ k = n + g /\ g + pos.count - 1 <= m =>
                    \A x, y : Agree(pos, x, y) =>
                        Makes(Built(t, y, pos, g), Tree(all, x, pos, k))
        BY <2>1, NewTree
      <4> QED BY <2>1, <3>1, <3>2, <4>1
    <3>4. r = Built(t, meta, next, 1)
      BY <2>5, <2>8
    <3>5. Orderly(Built(t, meta, next, 1), {node}, h)
      BY <2>1, <3>1, BuiltOrderly
    <3> QED BY <3>3, <3>4, <3>5 DEF GrowsTo, Yields, r, node, G
  <2>9. CASE old # next /\ old.count # 0 /\ h = 0
    <3>1. r = Written(GrownLeaves(t, meta, node, old, next, 1), <<>>, read)
      BY <2>3, <2>4, <2>5, <2>9
    <3>2. GrownLeaves(t, meta, node, old, next, 1) = Tree(all, meta, next, f)
      BY <2>9, LeavesGrow DEF node
    <3>3. Makes(r, Tree(all, meta, next, f))
      BY <3>1, <3>2 DEF Makes, Written
    <3>4. Orderly(r, {node}, h)
      <4> DEFINE new == GrownLeaves(t, meta, node, old, next, 1)
      <4>1. ChildNodes(new) = {}
        BY <2>1, <2>9, <3>2, LeavesHaveNone
      <4> HIDE DEF new
      <4>2. Orderly(Written(new, <<>>, read), {node}, h)
        BY <2>11, <4>1, WrittenOrderly
      <4> QED BY <3>1, <4>2 DEF new
    <3> QED BY <3>3, <3>4 DEF GrowsTo, Yields, r, node, G
  <2>10. CASE old # next /\ old.count # 0 /\ h # 0
    <3>1. r = Combined(next, meta, results, read)
      BY <2>3, <2>4, <2>5, <2>10
    <3>2. \A d \in Digits(next) :
              Yields(results[d], Tree(all, meta, ChildPosition(next, d), f + Start(next, d)),
                     KnownFrom({node}, read), h - 1)
      <4> TAKE d \in Digits(next)
      <4>1. AllGrow(store, s, meta0, t, all, meta, n, m, next.height - 1)
        BY <1>2, <2>10
      <4>2. Yields(GrowChild(Grows(store, t, meta)[next.height - 1], t, Tree(s, meta0, old, f), old, next, 1, d),
                   Tree(all, meta, ChildPosition(next, d), f + Start(next, d)),
                   KnownFrom({Tree(s, meta0, old, f)}, ReadToGrow(Tree(s, meta0, old, f), old, next)),
                   next.height - 1)
        BY <2>10, <4>1, ChildTreeGrows
      <4>3. results[d] = GrowChild(G[h - 1], t, node, old, next, 1, d)
        BY DEF results, ChildrenGrown, G
      <4> QED BY <4>2, <4>3 DEF G, node, read
    <3>6. \A d \in Digits(next) :
              /\ Makes(results[d], Tree(all, meta, ChildPosition(next, d), f + Start(next, d)))
              /\ Orderly(results[d], KnownFrom({node}, read), next.height - 1)
      BY <3>2 DEF Yields
    <3>3. Makes(Combined(next, meta, results, read), Tree(all, meta, next, f))
      BY <2>1, <2>6, <2>10, <3>6, CombinedMakes
    <3>5. Orderly(Combined(next, meta, results, read), {node}, next.height)
      BY <2>1, <2>6, <2>10, <2>11, <3>6, CombinedOrderly
    <3>4. Makes(r, Tree(all, meta, next, f)) /\ Orderly(r, {node}, h)
      BY <3>1, <3>3, <3>5
    <3> QED BY <3>4 DEF GrowsTo, Yields, r, node, G
  <2> QED BY <2>7, <2>8, <2>9, <2>10
<1>3. 0 \in S
  <2>1. 0 \in 0..Width
    BY <1>1
  <2> QED BY <1>2, <2>1
<1>4. \A h \in 0..(Width - 1) : h \in S => h + 1 \in S
  <2> SUFFICES ASSUME NEW h \in 0..(Width - 1), h \in S PROVE h + 1 \in S
    OBVIOUS
  <2>1. h + 1 \in 0..Width /\ (h + 1) - 1 = h
    BY <1>1
  <2>2. AllGrow(store, s, meta0, t, all, meta, n, m, h)
    OBVIOUS
  <2>3. AllGrow(store, s, meta0, t, all, meta, n, m, h + 1)
    BY <1>2, <2>1, <2>2
  <2> QED BY <2>1, <2>3
<1>5. 0..Width \subseteq S
  <2> HIDE DEF S
  <2> QED BY <1>1, <1>3, <1>4, Upwards
<1> QED BY <1>5

-----------------------------------------------------------------------------
(* Truncate on trees.                                                       *)

\* What is asked of two positions, the second of which has fewer of the items.
Cut(old, next, f) ==
    /\ Fits(old) /\ Fits(next) /\ f \in Nat
    /\ old.height = next.height /\ next.count <= old.count
    /\ old = next => ~old.root

\* The results for the digits.
ChildrenCut(store, meta, node, old, next) ==
    [d \in Digits(next) |-> CutChild(Cuts(store, meta)[next.height - 1], node, old, next, d)]

CutOf(store, meta, node, old, next) ==
    IF old = next THEN Unchanged(node)
    ELSE IF node \notin store \/ ~Shaped(node, old) THEN Refused
    ELSE IF next.height = 0 THEN Written(KeptLeaves(meta, node, old, next), <<>>, {node})
    ELSE Combined(next, meta, ChildrenCut(store, meta, node, old, next), {node})

\* What truncateNode does with a node, for all positions.
LEMMA CutsIs ==
    ASSUME NEW store, NEW meta, NEW node \in Referenced(store),
           NEW old \in Positions, NEW next \in Positions
    PROVE  Cuts(store, meta)[next.height][node][old][next] = CutOf(store, meta, node, old, next)
<1> DEFINE h == next.height
           G == Cuts(store, meta)
<1>1. h \in 0..Width
  BY DEF Positions
<1>2. G[h] = CutsAt(G[h - 1], store, meta, h)
  BY <1>1, CutsUnfold
<1> HIDE DEF h, G
<1>3. G[h][node][old][next] =
          IF old = next THEN Unchanged(node)
          ELSE IF node \notin store \/ ~Shaped(node, old) THEN Refused
          ELSE IF h = 0 THEN Written(KeptLeaves(meta, node, old, next), <<>>, {node})
          ELSE Combined(next, meta,
                   [d \in Digits(next) |-> CutChild(G[h - 1], node, old, next, d)], {node})
  BY <1>2 DEF CutsAt
<1> QED BY <1>3 DEF CutOf, ChildrenCut, G, h

\* The leaves of a shorter List.
LEMMA LeavesCut ==
    ASSUME NEW s, NEW old, NEW next, NEW f, Cut(old, next, f), next.height = 0, NEW meta, NEW meta0
    PROVE  KeptLeaves(meta, Tree(s, meta0, old, f), old, next) = Tree(s, meta, next, f)
<1> DEFINE node == Tree(s, meta0, old, f)
           below == TreeBelow(s, meta, next, f)
           b == Base(next)
           c == Base(old)
           u == Used(next)
<1>1. /\ old \in Positions /\ next \in Positions /\ f \in Nat /\ Fits(old)
      /\ old.height = 0 /\ next.count <= old.count /\ old.height = next.height
  BY DEF Cut, Fits
<1>2. Digits(next) \subseteq Digits(old)
  BY <1>1, ChildGrows
<1>3. b \in 0..1 /\ u \in Nat /\ Digits(next) = 0..(u - 1)
  BY <1>1, DigitsAre DEF Digits
<1>4. \A d \in Digits(old) : node[c + d] = Item(s[f + d])
  BY <1>1, TreeShaped
<1>5. \A d \in Digits(next) : below[d] = Item(s[f + d])
  BY DEF TreeBelow
<1>6. Tree(s, meta, next, f) = Cells(meta, next, below)
  BY <1>1, TreeIs
<1> DEFINE Cell(slot) == LET d == slot - b IN
                         IF d < 0 THEN meta ELSE IF d < u THEN node[c + d] ELSE Empty
           Cell2(slot) == IF slot < b THEN meta
                          ELSE IF slot - b \in Digits(next) THEN below[slot - b] ELSE Empty
<1>7. KeptLeaves(meta, node, old, next) = [slot \in Slot |-> Cell(slot)]
  BY DEF KeptLeaves
<1>8. Cells(meta, next, below) = [slot \in Slot |-> Cell2(slot)]
  BY DEF Cells
<1> HIDE DEF node, below
<1>9. \A slot \in Slot : Cell(slot) = Cell2(slot)
  <2> TAKE slot \in Slot
  <2> DEFINE d == slot - b
  <2>1. slot \in Nat /\ d \in Int /\ (slot < b <=> d < 0)
    BY <1>3, Spans DEF Slot
  <2> HIDE DEF b, c, d, u
  <2>2. CASE d < 0
    BY <2>1, <2>2 DEF d
  <2>3. CASE d \in 0..(u - 1)
    <3>1. d \in Digits(next) /\ d \in Digits(old) /\ ~(d < 0) /\ d < u /\ ~(slot < b)
      BY <1>2, <1>3, <2>1, <2>3
    <3>2. node[c + d] = Item(s[f + d]) /\ below[d] = Item(s[f + d])
      BY <1>4, <1>5, <3>1
    <3> QED BY <3>1, <3>2 DEF d
  <2>4. CASE d >= u
    <3>1. d \notin Digits(next) /\ ~(d < 0) /\ ~(d < u) /\ ~(slot < b)
      BY <1>3, <2>1, <2>4
    <3> QED BY <3>1 DEF d
  <2>5. d < 0 \/ d \in 0..(u - 1) \/ d >= u
    BY <1>3, <2>1
  <2> QED BY <2>2, <2>3, <2>4, <2>5
<1> HIDE DEF Cell, Cell2
<1>10. [slot \in Slot |-> Cell(slot)] = [slot \in Slot |-> Cell2(slot)]
  BY <1>9
<1> QED BY <1>6, <1>7, <1>8, <1>10 DEF node

\* What Truncate makes of a tree, and for all positions of a height.
CutsTo(store, s, meta0, meta, old, next, f) ==
    Yields(Cuts(store, meta)[next.height][Tree(s, meta0, old, f)][old][next], Tree(s, meta, next, f),
           {Tree(s, meta0, old, f)}, next.height)

AllCut(store, s, meta0, meta, height) ==
    \A old, next, f :
        (next.height = height /\ Cut(old, next, f) /\ Whole(Tree(s, meta0, old, f), height, store))
            => CutsTo(store, s, meta0, meta, old, next, f)

\* Truncate makes the tree of the items that are left (truncateNode).
LEMMA TreeCuts ==
    ASSUME NEW s, NEW store, NEW meta, meta.kind # "child", NEW meta0
    PROVE  \A h \in 0..Width : AllCut(store, s, meta0, meta, h)
<1> DEFINE S == {h \in 0..Width : AllCut(store, s, meta0, meta, h)}
<1>1. Width \in Nat
  BY ListAssumption
<1>9. ASSUME NEW h,
             \A old, next, f :
                 next.height = h =>
                     (Cut(old, next, f) =>
                         (Whole(Tree(s, meta0, old, f), h, store) =>
                             CutsTo(store, s, meta0, meta, old, next, f)))
      PROVE  AllCut(store, s, meta0, meta, h)
  BY <1>9 DEF AllCut
<1>2. ASSUME NEW h \in 0..Width, h # 0 => AllCut(store, s, meta0, meta, h - 1)
      PROVE  AllCut(store, s, meta0, meta, h)
  <2> SUFFICES ASSUME NEW old, NEW next, NEW f, next.height = h, Cut(old, next, f),
                      Whole(Tree(s, meta0, old, f), h, store)
               PROVE  CutsTo(store, s, meta0, meta, old, next, f)
    BY <1>9
  <2> DEFINE node == Tree(s, meta0, old, f)
             G == Cuts(store, meta)
             r == G[h][node][old][next]
             results == ChildrenCut(store, meta, node, old, next)
  <2>1. /\ old \in Positions /\ next \in Positions /\ Fits(old) /\ Fits(next)
        /\ f \in Nat /\ old.height = h /\ old.height = next.height /\ next.count <= old.count
        /\ (old = next => ~old.root)
    BY DEF Cut, Fits
  <2>2. old.count \in Nat
    BY <2>1, Spans DEF Positions
  <2>3. node \in store /\ node \in Referenced(store)
    BY WholeBelow
  <2>4. Shaped(node, old)
    BY <2>1, TreeShaped
  <2>5. r = IF old = next THEN Unchanged(node)
            ELSE IF node \notin store \/ ~Shaped(node, old) THEN Refused
            ELSE IF h = 0 THEN Written(KeptLeaves(meta, node, old, next), <<>>, {node})
            ELSE Combined(next, meta, results, {node})
    <3> HIDE DEF node
    <3>1. Cuts(store, meta)[next.height][node][old][next] = CutOf(store, meta, node, old, next)
      BY <2>1, <2>3, CutsIs
    <3> QED BY <3>1 DEF CutOf
  <2>6. DOMAIN results = Digits(next)
    BY DEF ChildrenCut
  <2> HIDE DEF node, G, r, results
  <2>7. CASE old = next
    <3>1. Tree(s, meta0, old, f) = Tree(s, meta, old, f)
      BY <2>1, <2>7, TreeSame
    <3>2. Makes(Unchanged(node), node)
      BY DEF Makes, Unchanged
    <3>3. Makes(r, Tree(s, meta, next, f))
      BY <2>5, <2>7, <3>1, <3>2 DEF node
    <3>4. Orderly(r, {node}, h)
      <4>1. Orderly(Unchanged(node), {node}, h)
        BY UnchangedOrderly
      <4> QED BY <2>5, <2>7, <4>1
    <3> QED BY <3>3, <3>4 DEF CutsTo, Yields, r, node, G
  <2>8. CASE old # next /\ h = 0
    <3>1. r = Written(KeptLeaves(meta, node, old, next), <<>>, {node})
      BY <2>3, <2>4, <2>5, <2>8
    <3>2. KeptLeaves(meta, node, old, next) = Tree(s, meta, next, f)
      BY <2>8, LeavesCut DEF node
    <3>3. Makes(r, Tree(s, meta, next, f))
      BY <3>1, <3>2 DEF Makes, Written
    <3>4. Orderly(r, {node}, h)
      <4> DEFINE new == KeptLeaves(meta, node, old, next)
      <4>1. ChildNodes(new) = {}
        BY <2>1, <2>8, <3>2, LeavesHaveNone
      <4> HIDE DEF new
      <4>2. Orderly(Written(new, <<>>, {node}), {node}, h)
        BY <4>1, WrittenOrderly
      <4> QED BY <3>1, <4>2 DEF new
    <3> QED BY <3>3, <3>4 DEF CutsTo, Yields, r, node, G
  <2>9. CASE old # next /\ h # 0
    <3>1. r = Combined(next, meta, results, {node})
      BY <2>3, <2>4, <2>5, <2>9
    <3>2. ASSUME NEW d \in Digits(next)
          PROVE  Yields(results[d], Tree(s, meta, ChildPosition(next, d), f + Start(next, d)),
                        KnownFrom({node}, {node}), h - 1)
      <4> DEFINE from == ChildPosition(old, d)
                 to == ChildPosition(next, d)
                 start == Start(next, d)
                 child == Tree(s, meta0, from, f + start)
                 cell == node[Base(old) + d]
      <4>1. /\ d \in Nat /\ d \in Digits(old) /\ Start(old, d) = start /\ start \in Nat
            /\ to.count <= from.count
        <5>1. d \in Digits(old)
          BY <2>1, <2>9, ChildGrows
        <5>2. d \in Nat /\ start \in Nat
          BY <2>1, <2>9, ChildWindow
        <5>3. to.count <= from.count /\ Start(old, d) = start
          BY <2>1, <2>9, <5>1, ChildGrows
        <5> QED BY <5>1, <5>2, <5>3
      <4>2. Base(old) + d \in Slot /\ cell = ChildCell(child)
        <5>1. /\ Base(old) + d \in Slot
              /\ node[Base(old) + d] = ChildCell(Tree(s, meta0, ChildPosition(old, d), f + Start(old, d)))
          BY <2>1, <2>9, <4>1, TreeShaped DEF node
        <5> QED BY <4>1, <5>1
      <4>3. cell.kind = "child" /\ cell.node = child
        BY <4>2 DEF ChildCell
      <4>4. Whole(child, h - 1, store)
        <5>1. child \in ChildNodes(node)
          BY <4>2, <4>3 DEF ChildNodes
        <5> HIDE DEF child
        <5> QED BY <2>9, <5>1, WholeBelow DEF node
      <4>5. /\ Fits(from) /\ from.height = h - 1 /\ from.root = FALSE
            /\ Fits(to) /\ to.height = h - 1 /\ f + start \in Nat
        <5>1. Fits(from) /\ Fits(to)
          BY <2>1, <2>9, <4>1, ChildFits
        <5>2. from.height = old.height - 1 /\ from.root = FALSE /\ to.height = next.height - 1
          BY <2>1, <2>9, <4>1, ChildIs
        <5> QED BY <2>1, <4>1, <5>1, <5>2
      <4>6. Cut(from, to, f + start)
        <5> HIDE DEF from, to, start
        <5> QED BY <4>1, <4>5 DEF Cut
      <4>7. CutsTo(store, s, meta0, meta, from, to, f + start)
        <5>1. AllCut(store, s, meta0, meta, h - 1) /\ to.height = h - 1
          BY <1>2, <2>9, <4>5
        <5> HIDE DEF from, to, start
        <5> QED BY <4>4, <4>6, <5>1 DEF AllCut, child
      <4>8. results[d] = CutChild(G[h - 1], node, old, next, d)
        BY DEF results, ChildrenCut, G
      <4>9. CutChild(G[h - 1], node, old, next, d) = G[h - 1][child][from][to]
        BY <4>3 DEF CutChild
      <4> HIDE DEF from, to, start, child
      <4>10. Yields(G[h - 1][child][from][to], Tree(s, meta, to, f + start), {child}, h - 1)
        BY <4>5, <4>7 DEF CutsTo, G, child
      <4>11. {child} \subseteq KnownFrom({node}, {node})
        BY <4>2, <4>3 DEF KnownFrom, ChildNodes
      <4>12. h - 1 \in 0..Width
        BY <1>1, <2>9
      <4>13. Yields(G[h - 1][child][from][to], Tree(s, meta, to, f + start),
                    KnownFrom({node}, {node}), h - 1)
        BY <4>10, <4>11, <4>12, OrderlyBase DEF Yields
      <4> QED BY <4>8, <4>9, <4>13 DEF to, start
    <3>5. \A d \in Digits(next) :
              /\ Makes(results[d], Tree(s, meta, ChildPosition(next, d), f + Start(next, d)))
              /\ Orderly(results[d], KnownFrom({node}, {node}), next.height - 1)
      BY <2>1, <3>2 DEF Yields
    <3>3. Makes(Combined(next, meta, results, {node}), Tree(s, meta, next, f))
      BY <2>1, <2>6, <2>9, <3>5, CombinedMakes
    <3>6. Orderly(Combined(next, meta, results, {node}), {node}, next.height)
      BY <2>1, <2>6, <2>9, <3>5, CombinedOrderly
    <3>4. Makes(r, Tree(s, meta, next, f)) /\ Orderly(r, {node}, h)
      BY <2>1, <3>1, <3>3, <3>6
    <3> QED BY <3>4 DEF CutsTo, Yields, r, node, G
  <2> QED BY <2>7, <2>8, <2>9
<1>3. 0 \in S
  <2>1. 0 \in 0..Width
    BY <1>1
  <2> QED BY <1>2, <2>1
<1>4. \A h \in 0..(Width - 1) : h \in S => h + 1 \in S
  <2> SUFFICES ASSUME NEW h \in 0..(Width - 1), h \in S PROVE h + 1 \in S
    OBVIOUS
  <2>1. h + 1 \in 0..Width /\ (h + 1) - 1 = h
    BY <1>1
  <2>2. AllCut(store, s, meta0, meta, h)
    OBVIOUS
  <2>3. AllCut(store, s, meta0, meta, h + 1)
    BY <1>2, <2>1, <2>2
  <2> QED BY <2>1, <2>3
<1>5. 0..Width \subseteq S
  <2> HIDE DEF S
  <2> QED BY <1>1, <1>3, <1>4, Upwards
<1> QED BY <1>5

-----------------------------------------------------------------------------
(* Apply on trees.                                                          *)

\* The changes to the items of a position, the first of which is the f-th.
Affecting(changes, pos, f) ==
    {c \in changes : f - 1 <= c.index /\ c.index < f - 1 + pos.count}

\* A position whose items are within the counts, and indices that are numbers.
Indexed(changes, pos, f) ==
    /\ Fits(pos) /\ f \in Nat \ {0} /\ f - 1 + pos.count <= MaxUint
    /\ \A c \in changes : c.index \in Nat

\* What a quotient is.
LEMMA Quotients ==
    ASSUME NEW k \in Nat, NEW n \in Nat \ {0}, NEW e \in Nat
    PROVE  (e <= k \div n <=> e * n <= k) /\ k \div n \in Nat
OBVIOUS

\* The slots that the changes belong to (groups of applyList).
LEMMA GroupsAre ==
    ASSUME NEW changes, NEW pos, NEW f, Indexed(changes, pos, f)
    PROVE  LET Group(slot) == GroupAt(pos, f - 1, Affecting(changes, pos, f), slot) IN
           /\ \A c \in Affecting(changes, pos, f) :
                  \E d \in Digits(pos) :
                      /\ SlotOf(pos, Minus(c.index, f - 1)) = Base(pos) + d
                      /\ Base(pos) + d \in Slot
                      /\ pos.height = 0 => d = c.index - (f - 1)
           /\ \A d \in Digits(pos) : pos.height = 0 =>
                  Group(Base(pos) + d) = {c \in changes : c.index = f - 1 + d}
           /\ \A d \in Digits(pos) : pos.height # 0 =>
                  Group(Base(pos) + d) = Affecting(changes, ChildPosition(pos, d), f + Start(pos, d))
<1> DEFINE S == Span(pos.height)
           A == Affecting(changes, pos, f)
           b == Base(pos)
<1>1. /\ pos \in Positions /\ f \in Nat \ {0} /\ f - 1 + pos.count <= MaxUint
      /\ Used(pos) <= Slots - b /\ Used(pos) \in Nat /\ b \in 0..1 /\ Slots \in Nat
      /\ Digital(pos) /\ Digits(pos) \subseteq Nat /\ Digits(pos) = 0..(Used(pos) - 1)
      /\ pos.count \in Nat /\ pos.height \in 0..Width /\ S \in Nat \ {0}
      /\ MaxUint \in Nat /\ TwoTo[Width] = MaxUint + 1
      /\ \A c \in changes : c.index \in Nat
  BY DigitsAre, Spans DEF Indexed, Fits, Positions, Digits
<1>2. \A d \in Nat : d \in Digits(pos) <=> d * S < pos.count
  BY <1>1 DEF Digital
<1>3. ASSUME NEW c \in A
      PROVE  LET k == c.index - (f - 1) IN
             /\ c \in changes /\ k \in 0..(pos.count - 1)
             /\ SlotOf(pos, Minus(c.index, f - 1)) = b + (k \div S)
             /\ k \div S \in Digits(pos)
  <2> DEFINE k == c.index - (f - 1)
  <2>1. c \in changes /\ k \in 0..(pos.count - 1)
    <3>1. c \in changes /\ f - 1 <= c.index /\ c.index < f - 1 + pos.count
      BY DEF Affecting
    <3>2. c.index \in Nat /\ f \in Nat /\ pos.count \in Nat
      BY <1>1, <3>1
    <3> HIDE DEF S, A, b
    <3> QED BY <3>1, <3>2
  <2>2. k % TwoTo[Width] = k
    <3> DEFINE M == TwoTo[Width]
    <3>1. M \in Nat \ {0} /\ k \in Nat /\ k < M
      BY <1>1, <2>1
    <3> HIDE DEF k, M
    <3>2. k % M = k
      BY <3>1
    <3> QED BY <3>2 DEF M
  <2>3. SlotOf(pos, Minus(c.index, f - 1)) = b + (k \div S)
    BY <2>2 DEF SlotOf, Minus, Shr, Shift, Span
  <2>4. k \div S \in Digits(pos)
    <3>1. k \in Nat
      BY <2>1
    <3> DEFINE q == k \div S
               x == q * S
    <3>2. q \in Nat
      <4> HIDE DEF k, S
      <4> QED BY <1>1, <3>1
    <3>3. x <= k
      <4> HIDE DEF k, S, q
      <4>1. q <= k \div S <=> q * S <= k
        BY <1>1, <3>1, <3>2
      <4>2. q <= k \div S
        BY <3>2 DEF q
      <4> QED BY <4>1, <4>2
    <3>4. x \in Nat
      <4> HIDE DEF q, S
      <4> QED BY <1>1, <3>2
    <3> HIDE DEF x, k
    <3>5. x < pos.count
      BY <1>1, <2>1, <3>3, <3>4
    <3> QED BY <1>2, <3>2, <3>5 DEF x
  <2> QED BY <2>1, <2>3, <2>4
<1>4. ASSUME NEW c \in A
      PROVE  \E d \in Digits(pos) : /\ SlotOf(pos, Minus(c.index, f - 1)) = b + d
                                    /\ b + d \in Slot
                                    /\ pos.height = 0 => d = c.index - (f - 1)
  <2> DEFINE k == c.index - (f - 1)
             d == k \div S
  <2>1. SlotOf(pos, Minus(c.index, f - 1)) = b + d /\ d \in Digits(pos) /\ k \in 0..(pos.count - 1)
    BY <1>3
  <2>2. pos.height = 0 => d = k
    <3> SUFFICES ASSUME pos.height = 0 PROVE d = k
      OBVIOUS
    <3>1. S = 1
      BY Spans
    <3>2. k \in Int
      BY <1>1, <2>1
    <3> HIDE DEF k
    <3> QED BY <3>1, <3>2
  <2> HIDE DEF d, k, b
  <2>3. b + d \in Slot
    <3>1. /\ d \in 0..(Used(pos) - 1) /\ b \in 0..1 /\ Slots \in Nat
          /\ Used(pos) <= Slots - b /\ Used(pos) \in Nat
      BY <1>1, <2>1
    <3> QED BY <3>1 DEF Slot
  <2> QED BY <2>1, <2>2, <2>3 DEF k
<1>5. ASSUME NEW d \in Digits(pos), pos.height = 0
      PROVE  GroupAt(pos, f - 1, A, b + d) = {c \in changes : c.index = f - 1 + d}
  <2>1. d \in Nat /\ d \in 0..(pos.count - 1)
    BY <1>1, <1>5, LeafDigits
  <2>2. ASSUME NEW c \in GroupAt(pos, f - 1, A, b + d) PROVE c \in changes /\ c.index = f - 1 + d
    <3>1. c \in A /\ c \in changes /\ SlotOf(pos, Minus(c.index, f - 1)) = b + d
      BY DEF GroupAt, Affecting
    <3>2. PICK e \in Digits(pos) : /\ SlotOf(pos, Minus(c.index, f - 1)) = b + e
                                   /\ e = c.index - (f - 1)
      BY <1>4, <1>5, <3>1
    <3>3. e \in Nat /\ b + e = b + d
      BY <1>1, <3>1, <3>2
    <3>4. c.index \in Nat
      BY <1>1, <3>1
    <3>5. e = d
      <4> HIDE DEF b
      <4>1. b \in Nat
        BY <1>1
      <4> QED BY <2>1, <3>3, <4>1
    <3> DEFINE i == c.index
    <3>6. i \in Nat /\ d = i - (f - 1) /\ f \in Nat
      BY <1>1, <3>2, <3>4, <3>5
    <3> HIDE DEF i
    <3>7. i = f - 1 + d
      BY <3>6
    <3> QED BY <3>1, <3>7 DEF i
  <2>3. ASSUME NEW c \in changes, c.index = f - 1 + d PROVE c \in GroupAt(pos, f - 1, A, b + d)
    <3>1. c \in A
      BY <1>1, <2>1, <2>3 DEF Affecting
    <3>2. PICK e \in Digits(pos) : /\ SlotOf(pos, Minus(c.index, f - 1)) = b + e
                                   /\ e = c.index - (f - 1)
      BY <1>4, <1>5, <3>1
    <3>3. e = d
      <4> DEFINE i == c.index
      <4>1. i = f - 1 + d /\ e = i - (f - 1) /\ d \in Nat /\ f \in Nat
        BY <1>1, <2>1, <2>3, <3>2
      <4> HIDE DEF i
      <4> QED BY <4>1
    <3> QED BY <3>1, <3>2, <3>3 DEF GroupAt
  <2> QED BY <2>2, <2>3
<1>6. ASSUME NEW d \in Digits(pos), pos.height # 0
      PROVE  GroupAt(pos, f - 1, A, b + d) =
                 Affecting(changes, ChildPosition(pos, d), f + Start(pos, d))
  <2> DEFINE start == Start(pos, d)
             child == ChildPosition(pos, d)
             x == d * S
  <2>1. d \in Nat /\ start = x /\ x \in Nat /\ x < pos.count
    <3>1. d \in Nat
      BY <1>1
    <3>2. start = x
      BY <1>1, <1>6, <3>1, ChildIs
    <3>3. x < pos.count
      BY <1>2, <3>1
    <3>4. x \in Nat
      <4> HIDE DEF S
      <4> QED BY <1>1, <3>1
    <3> QED BY <3>1, <3>2, <3>3, <3>4
  <2>2. child.count = IF pos.count - x <= S THEN pos.count - x ELSE S
    BY <1>1, <1>6, <2>1, ChildIs
  <2>3. \A k \in Nat : k \div S = d <=> x <= k /\ k < x + S
    <3> TAKE k \in Nat
    <3> HIDE DEF S, x
    <3>1. d <= k \div S <=> d * S <= k
      BY <1>1, <2>1, Quotients
    <3>2. d + 1 <= k \div S <=> (d + 1) * S <= k
      <4> DEFINE e == d + 1
      <4>1. e \in Nat /\ S \in Nat \ {0}
        BY <1>1, <2>1
      <4> HIDE DEF e
      <4>2. e <= k \div S <=> e * S <= k
        BY <4>1, Quotients
      <4> QED BY <4>2 DEF e
    <3>3. (d + 1) * S = d * S + S
      BY <1>1, <2>1
    <3>4. k \div S \in Nat
      BY <1>1
    <3> DEFINE q == k \div S
    <3>5. q \in Nat /\ (d <= q <=> x <= k) /\ (d + 1 <= q <=> x + S <= k)
      BY <3>1, <3>2, <3>3, <3>4 DEF x
    <3> HIDE DEF q
    <3>6. q = d <=> x <= k /\ k < x + S
      BY <1>1, <2>1, <3>5
    <3> QED BY <3>6 DEF q
  <2> DEFINE lhs == GroupAt(pos, f - 1, A, b + d)
             rhs == Affecting(changes, child, f + start)
  <2>4. ASSUME NEW c \in lhs PROVE c \in rhs
    <3> DEFINE k == c.index - (f - 1)
    <3>1. c \in A /\ SlotOf(pos, Minus(c.index, f - 1)) = b + d
      BY DEF GroupAt
    <3>2. /\ c \in changes /\ k \in 0..(pos.count - 1)
          /\ SlotOf(pos, Minus(c.index, f - 1)) = b + (k \div S)
      BY <1>3, <3>1
    <3>3. k \div S = d
      <4> DEFINE q == k \div S
      <4>1. q \in Nat
        BY <1>1, <3>1, <1>3
      <4> HIDE DEF q, b
      <4>2. b + q = b + d
        BY <3>1, <3>2 DEF q
      <4>3. q = d
        BY <1>1, <2>1, <4>1, <4>2
      <4> QED BY <4>3 DEF q
    <3>4. x <= k /\ k < x + S /\ k \in Nat
      BY <2>3, <3>2, <3>3
    <3>5. c.index \in Nat
      BY <1>1, <3>2
    <3> HIDE DEF x, S
    <3>6. (f + x) - 1 <= c.index /\ c.index < (f + x) - 1 + child.count
      <4> DEFINE w == child.count
                 n == pos.count
                 i == c.index
      <4>1. /\ w = IF n - x <= S THEN n - x ELSE S
            /\ n \in Nat /\ i \in Nat /\ x \in Nat /\ S \in Nat /\ f \in Nat
            /\ k = i - (f - 1) /\ x <= k /\ k < x + S /\ k \in 0..(n - 1)
        BY <1>1, <2>1, <2>2, <3>2, <3>4, <3>5
      <4> HIDE DEF child, w, n, i, k
      <4>2. k < x + w
        BY <4>1
      <4>3. w \in Int
        BY <4>1
      <4>4. (f + x) - 1 <= i /\ i < (f + x) - 1 + w
        BY <4>1, <4>2, <4>3
      <4> QED BY <4>4 DEF w, i
    <3> HIDE DEF child, start
    <3> QED BY <2>1, <3>2, <3>6 DEF Affecting
  <2>5. ASSUME NEW c \in rhs PROVE c \in lhs
    <3> DEFINE k == c.index - (f - 1)
    <3>1. c \in changes /\ (f + start) - 1 <= c.index /\ c.index < (f + start) - 1 + child.count
      BY DEF Affecting
    <3>2. c.index \in Nat
      BY <1>1, <3>1
    <3>3. x <= k /\ k < x + S /\ k < pos.count /\ k \in Nat
      <4> DEFINE w == child.count
                 n == pos.count
                 i == c.index
      <4>1. /\ w = IF n - x <= S THEN n - x ELSE S
            /\ n \in Nat /\ i \in Nat /\ x \in Nat /\ S \in Nat /\ f \in Nat \ {0} /\ x < n
            /\ k = i - (f - 1) /\ (f + x) - 1 <= i /\ i < (f + x) - 1 + w
        <5> HIDE DEF x, S, child, start
        <5> QED BY <1>1, <2>1, <2>2, <3>1, <3>2
      <4> HIDE DEF child, w, n, i, k, x, S, start
      <4>2. w \in Int /\ w <= S /\ w <= n - x
        BY <4>1
      <4>3. x <= k /\ k < x + S /\ k < n /\ k \in Nat
        BY <4>1, <4>2
      <4> QED BY <4>3 DEF n
    <3>4. c \in A
      <4> HIDE DEF x, S
      <4>1. f - 1 <= c.index /\ c.index < f - 1 + pos.count
        BY <1>1, <3>2, <3>3
      <4> QED BY <3>1, <4>1 DEF Affecting
    <3>5. k \div S = d
      BY <2>3, <3>3
    <3>6. SlotOf(pos, Minus(c.index, f - 1)) = b + d
      <4>1. SlotOf(pos, Minus(c.index, f - 1)) = b + (k \div S)
        BY <1>3, <3>4
      <4> QED BY <3>5, <4>1
    <3> QED BY <3>4, <3>6 DEF GroupAt
  <2> QED BY <2>4, <2>5
<1> HIDE DEF A, b
<1> QED BY <1>4, <1>5, <1>6 DEF A, b

\* What a change does to a node, and to the child at a slot.
ReplaceOf(store, all, node, pos, offset, changes) ==
    IF node \notin store \/ ~Shaped(node, pos) THEN Refused
    ELSE IF pos.height > 0
    THEN ReplaceNode(Replaces(store, all)[pos.height - 1], node, pos, offset, changes)
    ELSE IF \E c \in changes : node[SlotOf(pos, Minus(c.index, offset))].target # c.before
    THEN Refused
    ELSE Written(ReplacedLeaves(node, pos, offset, changes), <<>>, {node})

ChildReplaced(below, node, pos, offset, changes, slot) ==
    IF node[slot].kind # "child" THEN Refused
    ELSE below[node[slot].node][ChildPosition(pos, slot - Base(pos))]
              [Plus(offset, Start(pos, slot - Base(pos)))][GroupAt(pos, offset, changes, slot)]

CellsReplaced(below, node, pos, offset, changes) ==
    [slot \in Slot |->
        IF GroupAt(pos, offset, changes, slot) # {}
        THEN ChildCell(ChildReplaced(below, node, pos, offset, changes, slot).node)
        ELSE node[slot]]

ChildrenAccept(below, node, pos, offset, changes) ==
    \A slot \in Slot : GroupAt(pos, offset, changes, slot) # {} =>
        ChildReplaced(below, node, pos, offset, changes, slot).ok

\* What replace does with a node, for all positions and groups of changes.
LEMMA ReplacesIs ==
    ASSUME NEW store, NEW all, NEW node \in Referenced(store), NEW pos \in Positions,
           NEW offset \in 0..MaxUint, NEW changes \in SUBSET all
    PROVE  Replaces(store, all)[pos.height][node][pos][offset][changes] =
               ReplaceOf(store, all, node, pos, offset, changes)
<1> DEFINE h == pos.height
           G == Replaces(store, all)
<1>1. h \in 0..Width
  BY DEF Positions
<1>2. G[h] = ReplacesAt(G[h - 1], store, all, h)
  BY <1>1, ReplacesUnfold
<1> HIDE DEF h, G
<1>3. G[h][node][pos][offset][changes] =
          IF node \notin store \/ ~Shaped(node, pos) THEN Refused
          ELSE IF h > 0 THEN ReplaceNode(G[h - 1], node, pos, offset, changes)
          ELSE IF \E c \in changes : node[SlotOf(pos, Minus(c.index, offset))].target # c.before
          THEN Refused
          ELSE Written(ReplacedLeaves(node, pos, offset, changes), <<>>, {node})
  BY <1>2 DEF ReplacesAt
<1> QED BY <1>3 DEF ReplaceOf, G, h

\* A node takes what its children are replaced by (applyList).
LEMMA ReplaceNodeIs ==
    ASSUME NEW below, NEW node, NEW pos, NEW offset, NEW changes
    PROVE  LET r == ReplaceNode(below, node, pos, offset, changes) IN
           /\ r.ok = ChildrenAccept(below, node, pos, offset, changes)
           /\ r.node = CellsReplaced(below, node, pos, offset, changes)
<1> DEFINE Group(slot) == GroupAt(pos, offset, changes, slot)
           touched == {slot \in Slot : Group(slot) # {}}
           Child(slot) == ChildReplaced(below, node, pos, offset, changes, slot)
           r == ReplaceNode(below, node, pos, offset, changes)
<1>1. /\ r.ok = (\A slot \in touched : Child(slot).ok)
      /\ r.node = [slot \in Slot |-> IF slot \in touched THEN ChildCell(Child(slot).node) ELSE node[slot]]
  BY DEF ReplaceNode, ChildReplaced
<1> HIDE DEF Child, Group, r
<1>2. (\A slot \in touched : Child(slot).ok) = (\A slot \in Slot : Group(slot) # {} => Child(slot).ok)
  OBVIOUS
<1>3. [slot \in Slot |-> IF slot \in touched THEN ChildCell(Child(slot).node) ELSE node[slot]] =
      [slot \in Slot |-> IF Group(slot) # {} THEN ChildCell(Child(slot).node) ELSE node[slot]]
  OBVIOUS
<1>4. /\ r.ok = (\A slot \in Slot : Group(slot) # {} => Child(slot).ok)
      /\ r.node = [slot \in Slot |-> IF Group(slot) # {} THEN ChildCell(Child(slot).node) ELSE node[slot]]
  BY <1>1, <1>2, <1>3
<1> QED BY <1>4 DEF Child, Group, r, ChildrenAccept, CellsReplaced

\* The node is written after its replaced children; the others stay (applyList).
LEMMA ReplaceNodeOrderly ==
    ASSUME NEW below, NEW node, NEW pos, NEW offset, NEW changes, NEW height \in 1..Width,
           \A slot \in Slot :
               GroupAt(pos, offset, changes, slot) # {} =>
                   Orderly(ChildReplaced(below, node, pos, offset, changes, slot),
                           KnownFrom({node}, {node}), height - 1)
    PROVE  Orderly(ReplaceNode(below, node, pos, offset, changes), {node}, height)
<1> DEFINE Group(slot) == GroupAt(pos, offset, changes, slot)
           touched == {slot \in Slot : Group(slot) # {}}
           Child(slot) == ChildReplaced(below, node, pos, offset, changes, slot)
           r == ReplaceNode(below, node, pos, offset, changes)
           new == r.node
           known == KnownFrom({node}, r.reads)
           S == DownTo(new, height)
           seqs == [i \in 1..Slots |-> IF i - 1 \in touched THEN Child(i - 1).puts ELSE <<>>]
<1>1. /\ r.node = [slot \in Slot |-> IF slot \in touched THEN ChildCell(Child(slot).node) ELSE node[slot]]
      /\ r.reads = {node} \cup UNION {Child(slot).reads : slot \in touched}
      /\ r.puts = Append(FlattenSeq(seqs), new)
  <2> DEFINE C(slot) == LET digit == slot - Base(pos) IN
                        IF node[slot].kind # "child" THEN Refused
                        ELSE below[node[slot].node][ChildPosition(pos, digit)]
                                  [Plus(offset, Start(pos, digit))][Group(slot)]
             cells == [slot \in Slot |-> IF slot \in touched THEN ChildCell(C(slot).node) ELSE node[slot]]
  <2>1. \A slot : C(slot) = Child(slot)
    BY DEF ChildReplaced
  <2>2. r = [ok    |-> \A slot \in touched : C(slot).ok,
             node  |-> cells,
             reads |-> {node} \cup UNION {C(slot).reads : slot \in touched},
             puts  |-> Append(FlattenSeq([i \in 1..Slots |->
                           IF i - 1 \in touched THEN C(i - 1).puts ELSE <<>>]), cells)]
    BY DEF ReplaceNode
  <2> HIDE DEF C, Child, r, Group, touched
  <2>3. cells = [slot \in Slot |-> IF slot \in touched THEN ChildCell(Child(slot).node) ELSE node[slot]]
    BY <2>1
  <2>4. [i \in 1..Slots |-> IF i - 1 \in touched THEN C(i - 1).puts ELSE <<>>] = seqs
    BY <2>1
  <2>5. {C(slot).reads : slot \in touched} = {Child(slot).reads : slot \in touched}
    BY <2>1
  <2> HIDE DEF cells, seqs
  <2> QED BY <2>2, <2>3, <2>4, <2>5 DEF new
<1>2. \A slot \in touched : Orderly(Child(slot), KnownFrom({node}, {node}), height - 1)
  OBVIOUS
<1>3. height \in 0..Width /\ height # 0 /\ height - 1 \in 0..height /\ Slots \in Nat /\ Slot = 0..(Slots - 1)
  BY ListAssumption, Spans DEF Slot
<1> HIDE DEF Group, Child, r, new
<1>4. /\ \A slot \in touched : Child(slot).node \in ChildNodes(new)
      /\ \A child \in ChildNodes(new) :
             child \in ChildNodes(node) \/ \E slot \in touched : child = Child(slot).node
  <2>1. \A x : ChildCell(x).kind = "child" /\ ChildCell(x).node = x
    BY DEF ChildCell
  <2>2. \A slot \in Slot : /\ slot \in touched => new[slot] = ChildCell(Child(slot).node)
                           /\ slot \notin touched => new[slot] = node[slot]
    BY <1>1 DEF new
  <2> HIDE DEF touched
  <2>3. touched \subseteq Slot
    BY DEF touched
  <2> QED BY <2>1, <2>2, <2>3 DEF ChildNodes
<1>5. ASSUME NEW slot \in touched
      PROVE  /\ Child(slot).puts \in Seq(S) /\ InOrder(Child(slot).puts, known)
             /\ Child(slot).node \in known \cup ToSet(Child(slot).puts)
             /\ Child(slot).reads \subseteq known
  <2> DEFINE q == Child(slot)
             own == KnownFrom(KnownFrom({node}, {node}), q.reads)
             A == DownTo(q.node, height - 1)
  <2>1. /\ q.puts \in Seq(A) /\ InOrder(q.puts, own) /\ q.node \in own \cup ToSet(q.puts)
        /\ q.reads \subseteq own
    BY <1>2 DEF Orderly
  <2>2. A \subseteq S
    <3>1. q.node \in ChildNodes(new)
      BY <1>4
    <3> HIDE DEF q
    <3> QED BY <1>3, <3>1, DownToIs
  <2>3. own \subseteq known
    <3>1. node \in r.reads /\ q.reads \subseteq r.reads
      BY <1>1
    <3> HIDE DEF q
    <3> QED BY <3>1 DEF KnownFrom
  <2> HIDE DEF q, own, A, S, known
  <2>4. q.puts \in Seq(S)
    BY <2>1, <2>2
  <2>5. InOrder(q.puts, known)
    BY <2>1, <2>3 DEF InOrder
  <2> QED BY <2>1, <2>3, <2>4, <2>5 DEF q
<1>6. new \in S
  BY <1>3, DownToIs
<1>7. ChildNodes(node) \subseteq known
  <2>1. node \in r.reads
    BY <1>1
  <2> QED BY <2>1 DEF KnownFrom
<1> HIDE DEF S, known
<1>8. <<>> \in Seq(S) /\ InOrder(<<>>, known)
  BY DEF InOrder
<1>9. seqs \in [1..Slots -> Seq(S)] /\ \A i \in 1..Slots : InOrder(seqs[i], known)
  <2>1. \A i \in 1..Slots : IF i - 1 \in touched THEN seqs[i] = Child(i - 1).puts ELSE seqs[i] = <<>>
    OBVIOUS
  <2>2. \A i \in 1..Slots : seqs[i] \in Seq(S) /\ InOrder(seqs[i], known)
    BY <1>5, <1>8, <2>1
  <2>3. DOMAIN seqs = 1..Slots /\ seqs = [i \in 1..Slots |-> seqs[i]]
    OBVIOUS
  <2> HIDE DEF seqs
  <2> QED BY <2>2, <2>3
<1>10. ASSUME NEW child \in ChildNodes(new)
       PROVE  child \in known \/ \E i \in 1..Slots : child \in ToSet(seqs[i])
  <2>1. CASE child \in ChildNodes(node)
    BY <1>7, <2>1
  <2>2. CASE \E slot \in touched : child = Child(slot).node
    <3>1. PICK slot \in touched : child = Child(slot).node
      BY <2>2
    <3>2. slot + 1 \in 1..Slots /\ (slot + 1) - 1 = slot
      <4>1. slot \in 0..(Slots - 1) /\ Slots \in Nat
        BY <1>3
      <4> QED BY <4>1
    <3>3. seqs[slot + 1] = Child(slot).puts
      BY <3>2
    <3> HIDE DEF seqs, touched
    <3> QED BY <1>5, <3>1, <3>2, <3>3
  <2> QED BY <1>4, <2>1, <2>2
<1> HIDE DEF seqs, touched
<1>11. r.puts \in Seq(S) /\ InOrder(r.puts, known) /\ new \in ToSet(r.puts)
  <2> DEFINE puts == r.puts
  <2>1. puts = Append(FlattenSeq(seqs), new) /\ Slots \in Nat
    BY <1>1, <1>3
  <2>2. \A child \in ChildNodes(new) : child \in known \/ \E i \in 1..Slots : child \in ToSet(seqs[i])
    BY <1>10
  <2> HIDE DEF puts
  <2>3. puts \in Seq(S) /\ InOrder(puts, known) /\ new \in ToSet(puts)
    BY <1>6, <1>9, <2>1, <2>2, GatherInOrder
  <2> QED BY <2>3 DEF puts
<1>12. r.reads \subseteq known
  <2>1. node \in known
    BY DEF known, KnownFrom
  <2> QED BY <1>1, <1>5, <2>1
<1> QED BY <1>11, <1>12 DEF Orderly, S, known, new, r

\* The items before and after, and changes that name those before.
Exchanged(s, t, changes) ==
    /\ \A c \in changes : t[c.index + 1] = c.after
    /\ \A i \in Nat : (\A c \in changes : c.index + 1 # i) => t[i] = s[i]

Present(s, changes) == \A c \in changes : s[c.index + 1] = c.before

\* What Apply makes of a tree, and for all positions of a height.
ReplacesTo(store, s, t, meta, changes, pos, f) ==
    LET r == Replaces(store, changes)[pos.height][Tree(s, meta, pos, f)][pos][f - 1]
                 [Affecting(changes, pos, f)]
    IN  IF Present(s, Affecting(changes, pos, f))
        THEN Yields(r, Tree(t, meta, pos, f), {Tree(s, meta, pos, f)}, pos.height)
        ELSE r.ok = FALSE

AllReplace(store, s, t, meta, changes, height) ==
    \A pos, f :
        (pos.height = height /\ Indexed(changes, pos, f) /\ Whole(Tree(s, meta, pos, f), height, store))
            => ReplacesTo(store, s, t, meta, changes, pos, f)

\* The leaves with the changes.
LEMMA LeavesReplaced ==
    ASSUME NEW s, NEW t, NEW changes, Exchanged(s, t, changes), NEW meta,
           NEW pos, NEW f, Indexed(changes, pos, f), pos.height = 0
    PROVE  LET A == Affecting(changes, pos, f)
               node == Tree(s, meta, pos, f)
           IN  /\ ReplacedLeaves(node, pos, f - 1, A) = Tree(t, meta, pos, f)
               /\ Present(s, A) <=>
                      ~ \E c \in A : node[SlotOf(pos, Minus(c.index, f - 1))].target # c.before
<1> DEFINE A == Affecting(changes, pos, f)
           node == Tree(s, meta, pos, f)
           b == Base(pos)
           Group(slot) == GroupAt(pos, f - 1, A, slot)
           below == TreeBelow(s, meta, pos, f)
           after == TreeBelow(t, meta, pos, f)
<1>1. /\ Fits(pos) /\ pos \in Positions /\ f \in Nat \ {0} /\ f \in Nat
      /\ \A c \in changes : c.index \in Nat
  BY DEF Indexed, Fits
<1>2. /\ \A c \in A : \E d \in Digits(pos) :
             /\ SlotOf(pos, Minus(c.index, f - 1)) = b + d /\ b + d \in Slot
             /\ d = c.index - (f - 1)
      /\ \A d \in Digits(pos) : Group(b + d) = {c \in changes : c.index = f - 1 + d}
  BY GroupsAre
<1>3. node = Cells(meta, pos, below) /\ Tree(t, meta, pos, f) = Cells(meta, pos, after)
  BY <1>1, TreeIs
<1>4. \A d \in Digits(pos) : below[d] = Item(s[f + d]) /\ after[d] = Item(t[f + d])
  BY DEF TreeBelow
<1>5. A \subseteq changes /\ Digits(pos) \subseteq Nat /\ b \in 0..1
  BY <1>1, DigitsAre DEF Affecting
<1>6. \A x : Item(x).target = x
  BY DEF Item
<1> HIDE DEF A, b, node, below, after
<1>7. \A d \in Digits(pos) : node[b + d] = below[d]
  BY <1>1, <1>3, CellsAre DEF b
<1>8. \A slot \in Slot : \/ slot < b /\ node[slot] = meta
                         \/ slot - b \in Digits(pos) /\ node[slot] = below[slot - b]
                         \/ slot - b >= Used(pos) /\ node[slot] = Empty
  BY <1>1, <1>3, CellsAre DEF b
<1>9. ASSUME NEW c \in A
      PROVE  node[SlotOf(pos, Minus(c.index, f - 1))].target = s[c.index + 1]
  <2>1. PICK d \in Digits(pos) : /\ SlotOf(pos, Minus(c.index, f - 1)) = b + d
                                 /\ d = c.index - (f - 1)
    BY <1>2
  <2>2. f + d = c.index + 1
    <3>1. c.index \in Nat
      BY <1>1, <1>5
    <3> QED BY <1>1, <2>1, <3>1
  <2>3. node[b + d] = Item(s[f + d])
    BY <1>4, <1>7
  <2> QED BY <1>6, <2>1, <2>2, <2>3
<1>10. Present(s, A) <=> ~ \E c \in A : node[SlotOf(pos, Minus(c.index, f - 1))].target # c.before
  BY <1>9 DEF Present
<1> DEFINE Cell(slot) == IF Group(slot) = {} THEN node[slot]
                         ELSE Item((CHOOSE c \in Group(slot) : TRUE).after)
           Cell2(slot) == IF slot < b THEN meta
                          ELSE IF slot - b \in Digits(pos) THEN after[slot - b] ELSE Empty
<1>11. ReplacedLeaves(node, pos, f - 1, A) = [slot \in Slot |-> Cell(slot)]
  BY DEF ReplacedLeaves
<1>12. Cells(meta, pos, after) = [slot \in Slot |-> Cell2(slot)]
  BY DEF Cells, b
<1>13. \A slot \in Slot : slot \in Int
  BY DEF Slot
<1>14. \A d \in Digits(pos) : d < Used(pos) /\ d >= 0 /\ Used(pos) \in Nat
  BY <1>1, DigitsAre DEF Digits
<1>15. ASSUME NEW slot \in Slot PROVE Cell(slot) = Cell2(slot)
  <2>1. CASE \E d \in Digits(pos) : slot = b + d
    <3>1. PICK d \in Digits(pos) : slot = b + d
      BY <2>1
    <3>2. Group(slot) = {c \in changes : c.index = f - 1 + d}
      BY <1>2, <3>1
    <3>3. ~(slot < b) /\ slot - b = d /\ f + d \in Nat /\ d \in Nat
      BY <1>1, <1>5, <3>1
    <3>4. Cell2(slot) = Item(t[f + d])
      BY <1>4, <3>3
    <3>5. CASE Group(slot) = {}
      <4>1. \A c \in changes : c.index + 1 # f + d
        <5> SUFFICES ASSUME NEW c \in changes, c.index + 1 = f + d PROVE FALSE
          OBVIOUS
        <5>1. c.index = f - 1 + d
          BY <1>1, <3>3
        <5> QED BY <3>2, <3>5, <5>1
      <4>2. t[f + d] = s[f + d]
        BY <3>3, <4>1 DEF Exchanged
      <4>3. node[slot] = Item(s[f + d])
        BY <1>4, <1>7, <3>1
      <4> QED BY <3>4, <3>5, <4>2, <4>3
    <3>6. CASE Group(slot) # {}
      <4> DEFINE c == CHOOSE x \in Group(slot) : TRUE
      <4>1. c \in Group(slot)
        BY <3>6
      <4> HIDE DEF c
      <4>2. c \in changes /\ c.index = f - 1 + d
        BY <3>2, <4>1
      <4>3. c.index + 1 = f + d
        BY <1>1, <3>3, <4>2
      <4>4. t[f + d] = c.after
        BY <4>2, <4>3 DEF Exchanged
      <4>5. Cell(slot) = Item(c.after)
        BY <3>6 DEF c
      <4> QED BY <3>4, <4>4, <4>5
    <3> HIDE DEF Cell, Cell2
    <3> QED BY <3>5, <3>6
  <2>2. CASE ~ \E d \in Digits(pos) : slot = b + d
    <3>1. Group(slot) = {}
      <4> SUFFICES ASSUME NEW c \in Group(slot) PROVE FALSE
        OBVIOUS
      <4>1. c \in A /\ SlotOf(pos, Minus(c.index, f - 1)) = slot
        BY DEF GroupAt
      <4> QED BY <1>2, <2>2, <4>1
    <3>2. slot - b \notin Digits(pos)
      <4> SUFFICES ASSUME slot - b \in Digits(pos) PROVE FALSE
        OBVIOUS
      <4>1. slot = b + (slot - b)
        BY <1>5, <1>13
      <4> QED BY <2>2, <4>1
    <3>3. (slot < b /\ node[slot] = meta) \/ (slot - b >= Used(pos) /\ node[slot] = Empty)
      BY <1>8, <3>2
    <3>4. slot - b >= Used(pos) => ~(slot < b)
      <4>1. Used(pos) \in Nat
        BY <1>1, DigitsAre
      <4> QED BY <1>5, <1>13, <4>1
    <3> QED BY <3>1, <3>2, <3>3, <3>4
  <2> QED BY <2>1, <2>2
<1> HIDE DEF Cell, Cell2
<1>16. [slot \in Slot |-> Cell(slot)] = [slot \in Slot |-> Cell2(slot)]
  BY <1>15
<1>17. ReplacedLeaves(node, pos, f - 1, A) = Tree(t, meta, pos, f)
  BY <1>3, <1>11, <1>12, <1>16
<1> QED BY <1>10, <1>17 DEF A, node

\* Apply makes the tree of the changed items, if the changes name the present ones.
LEMMA TreeReplaces ==
    ASSUME NEW s, NEW t, NEW changes, Exchanged(s, t, changes),
           NEW meta, meta.kind # "child", NEW store
    PROVE  \A h \in 0..Width : AllReplace(store, s, t, meta, changes, h)
<1> DEFINE S == {h \in 0..Width : AllReplace(store, s, t, meta, changes, h)}
<1>1. Width \in Nat
  BY ListAssumption
<1>9. ASSUME NEW h,
             \A pos, f :
                 pos.height = h =>
                     (Indexed(changes, pos, f) =>
                         (Whole(Tree(s, meta, pos, f), h, store) =>
                             ReplacesTo(store, s, t, meta, changes, pos, f)))
      PROVE  AllReplace(store, s, t, meta, changes, h)
  BY <1>9 DEF AllReplace
<1>2. ASSUME NEW h \in 0..Width, h # 0 => AllReplace(store, s, t, meta, changes, h - 1)
      PROVE  AllReplace(store, s, t, meta, changes, h)
  <2> SUFFICES ASSUME NEW pos, NEW f, pos.height = h, Indexed(changes, pos, f),
                      Whole(Tree(s, meta, pos, f), h, store)
               PROVE  ReplacesTo(store, s, t, meta, changes, pos, f)
    BY <1>9
  <2> DEFINE A == Affecting(changes, pos, f)
             node == Tree(s, meta, pos, f)
             new == Tree(t, meta, pos, f)
             G == Replaces(store, changes)
             r == G[h][node][pos][f - 1][A]
             b == Base(pos)
  <2>1. /\ Fits(pos) /\ pos \in Positions /\ f \in Nat \ {0} /\ f \in Nat
        /\ f - 1 + pos.count <= MaxUint /\ f - 1 \in Nat
        /\ \A c \in changes : c.index \in Nat
    BY DEF Indexed, Fits
  <2>2. pos.count \in Nat /\ MaxUint \in Nat /\ f - 1 \in 0..MaxUint
    <3>1. pos.count \in Nat /\ MaxUint \in Nat
      BY <2>1, Spans DEF Positions
    <3> QED BY <2>1, <3>1
  <2>3. node \in store /\ node \in Referenced(store) /\ A \in SUBSET changes
    BY WholeBelow DEF Affecting
  <2>4. Shaped(node, pos)
    BY <2>1, TreeShaped
  <2>5. r = ReplaceOf(store, changes, node, pos, f - 1, A)
    <3> HIDE DEF node, A
    <3>1. Replaces(store, changes)[pos.height][node][pos][f - 1][A]
              = ReplaceOf(store, changes, node, pos, f - 1, A)
      BY <2>1, <2>2, <2>3, ReplacesIs
    <3> QED BY <3>1
  <2>6. ReplacesTo(store, s, t, meta, changes, pos, f)
            <=> IF Present(s, A) THEN Yields(r, new, {node}, h) ELSE r.ok = FALSE
    BY DEF ReplacesTo
  <2> HIDE DEF node, G, r, A, new, b
  <2>7. CASE h = 0
    <3>1. /\ ReplacedLeaves(node, pos, f - 1, A) = new
          /\ Present(s, A) <=> ~ \E c \in A : node[SlotOf(pos, Minus(c.index, f - 1))].target # c.before
      BY <2>7, LeavesReplaced DEF node, A, new
    <3>2. r = IF Present(s, A) THEN Written(ReplacedLeaves(node, pos, f - 1, A), <<>>, {node}) ELSE Refused
      BY <2>3, <2>4, <2>5, <2>7, <3>1 DEF ReplaceOf
    <3>3. Refused.ok = FALSE
      BY DEF Refused
    <3>4. Makes(Written(new, <<>>, {node}), new)
      BY DEF Makes, Written
    <3>5. Orderly(Written(new, <<>>, {node}), {node}, h)
      <4>1. ChildNodes(new) = {}
        BY <2>1, <2>7, LeavesHaveNone DEF new
      <4> QED BY <4>1, WrittenOrderly
    <3> QED BY <2>6, <3>1, <3>2, <3>3, <3>4, <3>5 DEF Yields
  <2>8. CASE h # 0
    <3> DEFINE Group(slot) == GroupAt(pos, f - 1, A, slot)
               Child(slot) == ChildReplaced(G[h - 1], node, pos, f - 1, A, slot)
               child(d) == ChildPosition(pos, d)
               start(d) == Start(pos, d)
    <3>1. r = ReplaceNode(G[h - 1], node, pos, f - 1, A)
      <4>1. pos.height > 0
        BY <1>1, <2>8
      <4> QED BY <2>3, <2>4, <2>5, <4>1 DEF ReplaceOf, G
    <3>2. /\ r.ok = (\A slot \in Slot : Group(slot) # {} => Child(slot).ok)
          /\ r.node = [slot \in Slot |-> IF Group(slot) # {} THEN ChildCell(Child(slot).node)
                                         ELSE node[slot]]
      <4>1. /\ r.ok = ChildrenAccept(G[h - 1], node, pos, f - 1, A)
            /\ r.node = CellsReplaced(G[h - 1], node, pos, f - 1, A)
        BY <3>1, ReplaceNodeIs
      <4> QED BY <4>1 DEF ChildrenAccept, CellsReplaced
    <3>3. /\ \A c \in A : \E d \in Digits(pos) :
                 SlotOf(pos, Minus(c.index, f - 1)) = b + d /\ b + d \in Slot
          /\ \A d \in Digits(pos) : Group(b + d) = Affecting(changes, child(d), f + start(d))
      BY <2>8, GroupsAre DEF A, b
    <3>4. b \in 0..1 /\ Digits(pos) \subseteq Nat
      BY <2>1, DigitsAre DEF b
    <3>5. ASSUME NEW d \in Digits(pos)
          PROVE  /\ node[b + d] = ChildCell(Tree(s, meta, child(d), f + start(d)))
                 /\ new[b + d] = ChildCell(Tree(t, meta, child(d), f + start(d)))
                 /\ b + d \in Slot
      BY <2>1, <2>8, TreeShaped DEF node, new, b
    <3>6. ASSUME NEW d \in Digits(pos)
          PROVE  IF Present(s, Group(b + d))
                 THEN Yields(Child(b + d), Tree(t, meta, child(d), f + start(d)),
                             KnownFrom({node}, {node}), h - 1)
                 ELSE Child(b + d).ok = FALSE
      <4> DEFINE p == child(d)
                 g == f + start(d)
                 below == Tree(s, meta, p, g)
      <4>1. d \in Nat /\ start(d) \in Nat /\ p \in Positions /\ Fits(p) /\ p.height = h - 1
        <5>1. d \in Nat /\ start(d) \in Nat /\ p \in Positions
          BY <2>1, <2>8, ChildWindow
        <5> QED BY <2>1, <2>8, <5>1, ChildFits, ChildIs
      <4>2. g \in Nat \ {0} /\ (g - 1) + p.count <= MaxUint /\ g - 1 = (f - 1) + start(d) /\ p.count \in Nat
        <5>1. p.count \in Nat
          BY <4>1, Spans DEF Positions
        <5>2. start(d) + p.count <= pos.count
          <6>1. start(d) < pos.count
            <7>1. Digital(pos) /\ start(d) = d * Span(pos.height)
              BY <2>1, <2>8, <4>1, DigitsAre, ChildIs
            <7> QED BY <4>1, <7>1 DEF Digital
          <6>2. \A i \in 0..(p.count - 1) : start(d) + i \in 0..(pos.count - 1)
            BY <2>1, <2>8, ChildWindow
          <6> HIDE DEF p, start
          <6>3. CASE p.count = 0
            BY <2>2, <4>1, <6>1, <6>3
          <6>4. CASE p.count # 0
            <7>1. p.count - 1 \in 0..(p.count - 1)
              BY <5>1, <6>4
            <7>2. start(d) + (p.count - 1) \in 0..(pos.count - 1)
              BY <6>2, <7>1
            <7> QED BY <2>2, <4>1, <5>1, <7>2
          <6> QED BY <6>3, <6>4
        <5> HIDE DEF p, start
        <5> QED BY <2>1, <2>2, <4>1, <5>1, <5>2
      <4>3. Plus(f - 1, start(d)) = g - 1
        <5> DEFINE M == TwoTo[Width]
                   x == g - 1
        <5>1. M = MaxUint + 1
          BY Spans
        <5>2. x \in Nat /\ x < M /\ M \in Nat \ {0}
          <6> HIDE DEF p, g, M
          <6> QED BY <2>2, <4>2, <5>1
        <5>3. Plus(f - 1, start(d)) = x % M
          BY <4>2 DEF Plus
        <5> HIDE DEF x, M
        <5>4. x % M = x
          BY <5>2
        <5> QED BY <5>3, <5>4 DEF x
      <4>4. Indexed(changes, p, g)
        <5> HIDE DEF p, g, start
        <5> QED BY <2>1, <4>1, <4>2 DEF Indexed
      <4>5. node[b + d].kind = "child" /\ node[b + d].node = below
        <5>1. node[b + d] = ChildCell(below)
          BY <3>5
        <5> QED BY <5>1 DEF ChildCell
      <4>6. Whole(below, h - 1, store)
        <5>1. below \in ChildNodes(node)
          BY <3>5, <4>5 DEF ChildNodes
        <5> HIDE DEF below
        <5> QED BY <2>8, <5>1, WholeBelow DEF node
      <4>7. ReplacesTo(store, s, t, meta, changes, p, g)
        <5>1. AllReplace(store, s, t, meta, changes, h - 1)
          BY <1>2, <2>8
        <5> HIDE DEF p, g, child, start
        <5> QED BY <4>1, <4>4, <4>6, <5>1 DEF AllReplace, below
      <4>8. (b + d) - b = d
        BY <3>4
      <4>9. Child(b + d) = G[h - 1][below][p][g - 1][Affecting(changes, p, g)]
        <5>1. Child(b + d) = G[h - 1][below][ChildPosition(pos, (b + d) - b)]
                                 [Plus(f - 1, Start(pos, (b + d) - b))][Group(b + d)]
          BY <4>5 DEF ChildReplaced, b
        <5>2. Group(b + d) = Affecting(changes, p, g)
          BY <3>3
        <5> HIDE DEF Child, Group
        <5> QED BY <4>3, <4>8, <5>1, <5>2
      <4>10. Group(b + d) = Affecting(changes, p, g)
        BY <3>3
      <4> HIDE DEF Child, Group, p, g, below, child, start
      <4>11. LET q == Child(b + d) IN
             IF Present(s, Affecting(changes, p, g)) THEN Yields(q, Tree(t, meta, p, g), {below}, h - 1)
             ELSE q.ok = FALSE
        BY <4>1, <4>7, <4>9 DEF ReplacesTo, G, below
      <4>12. {below} \subseteq KnownFrom({node}, {node})
        BY <3>5, <4>5 DEF KnownFrom, ChildNodes
      <4>13. h - 1 \in 0..Width
        BY <1>1, <2>8
      <4>14. LET q == Child(b + d) IN
             IF Present(s, Affecting(changes, p, g))
             THEN Yields(q, Tree(t, meta, p, g), KnownFrom({node}, {node}), h - 1)
             ELSE q.ok = FALSE
        BY <4>11, <4>12, <4>13, OrderlyBase DEF Yields
      <4> QED BY <4>10, <4>14 DEF p, g
    <3>7. ASSUME NEW slot \in Slot, Group(slot) # {}
          PROVE  \E d \in Digits(pos) : slot = b + d
      <4>1. PICK c \in A : SlotOf(pos, Minus(c.index, f - 1)) = slot
        BY <3>7 DEF GroupAt
      <4> QED BY <3>3, <4>1
    <3>8. Present(s, A) <=> \A d \in Digits(pos) : Present(s, Group(b + d))
      <4>1. ASSUME NEW c \in A PROVE \E d \in Digits(pos) : c \in Group(b + d)
        BY <3>3 DEF GroupAt
      <4>2. \A d \in Digits(pos) : Group(b + d) \subseteq A
        BY DEF GroupAt
      <4> HIDE DEF Group
      <4> QED BY <4>1, <4>2 DEF Present
    <3> HIDE DEF Group, Child, child, start
    <3>9. CASE ~Present(s, A)
      <4>1. PICK d \in Digits(pos) : ~Present(s, Group(b + d))
        BY <3>8, <3>9
      <4>2. b + d \in Slot /\ Child(b + d).ok = FALSE
        BY <3>5, <3>6, <4>1
      <4>3. Group(b + d) # {}
        BY <4>1 DEF Present
      <4>4. r.ok = FALSE
        BY <3>2, <4>2, <4>3
      <4> QED BY <2>6, <3>9, <4>4
    <3>10. CASE Present(s, A)
      <4>1. \A d \in Digits(pos) : /\ Makes(Child(b + d), Tree(t, meta, child(d), f + start(d)))
                                   /\ Orderly(Child(b + d), KnownFrom({node}, {node}), h - 1)
        BY <3>6, <3>8, <3>10 DEF Yields
      <4>2. \A slot \in Slot : Group(slot) # {} => Child(slot).ok
        <5> SUFFICES ASSUME NEW slot \in Slot, Group(slot) # {} PROVE Child(slot).ok
          OBVIOUS
        <5>1. PICK d \in Digits(pos) : slot = b + d
          BY <3>7
        <5>2. Child(slot).ok = TRUE
          BY <4>1, <5>1 DEF Makes
        <5> QED BY <5>2
      <4>3. r.ok = TRUE
        BY <3>2, <4>2
      <4> DEFINE Cell(slot) == IF Group(slot) # {} THEN ChildCell(Child(slot).node) ELSE node[slot]
      <4>4. ASSUME NEW slot \in Slot PROVE Cell(slot) = new[slot]
        <5>1. CASE \E d \in Digits(pos) : slot = b + d
          <6>1. PICK d \in Digits(pos) : slot = b + d
            BY <5>1
          <6>2. CASE Group(slot) # {}
            <7>1. Cell(slot) = ChildCell(Child(slot).node)
              BY <6>2
            <7>2. Child(slot).node = Tree(t, meta, child(d), f + start(d))
              BY <4>1, <6>1 DEF Makes
            <7>3. new[slot] = ChildCell(Tree(t, meta, child(d), f + start(d)))
              BY <3>5, <6>1
            <7> HIDE DEF Cell
            <7> QED BY <7>1, <7>2, <7>3
          <6>3. CASE Group(slot) = {}
            <7>1. Cell(slot) = ChildCell(Tree(s, meta, child(d), f + start(d)))
              BY <3>5, <6>1, <6>3
            <7>2. new[slot] = ChildCell(Tree(t, meta, child(d), f + start(d)))
              BY <3>5, <6>1
            <7>3. Affecting(changes, child(d), f + start(d)) = {}
              BY <3>3, <6>1, <6>3
            <7>4. /\ child(d) \in Positions /\ start(d) \in Nat
                  /\ child(d).root = FALSE
              <8>1. /\ d \in Nat /\ ChildPosition(pos, d) \in Positions /\ Start(pos, d) \in Nat
                BY <2>1, <2>8, ChildWindow
              <8>2. ChildPosition(pos, d).root = FALSE
                BY <2>1, <2>8, <8>1, ChildIs
              <8> QED BY <8>1, <8>2 DEF child, start
            <7> DEFINE p == child(d)
                       g == f + start(d)
            <7>5. g \in Nat /\ p \in Positions /\ g # 0 /\ p.count \in Nat
              BY <2>1, <7>4, Spans DEF Positions
            <7> HIDE DEF p, g
            <7>6. \A x \in 0..(p.count - 1) : s[g + x] = t[g + x]
              <8> SUFFICES ASSUME NEW x \in 0..(p.count - 1) PROVE s[g + x] = t[g + x]
                OBVIOUS
              <8>1. \A c \in changes : c.index + 1 # g + x
                <9> SUFFICES ASSUME NEW c \in changes, c.index + 1 = g + x PROVE FALSE
                  OBVIOUS
                <9>1. c.index \in Nat
                  BY <2>1
                <9>2. g - 1 <= c.index /\ c.index < g - 1 + p.count
                  BY <7>5, <9>1
                <9>3. c \in Affecting(changes, p, g)
                  BY <9>2 DEF Affecting
                <9> QED BY <7>3, <9>3 DEF p, g
              <8>2. g + x \in Nat
                BY <7>5
              <8> QED BY <8>1, <8>2 DEF Exchanged
            <7>7. p.root => meta = meta
              OBVIOUS
            <7>8. Tree(s, meta, p, g) = Tree(t, meta, p, g)
              BY <7>5, <7>6, TreeSame
            <7> HIDE DEF Cell
            <7> QED BY <7>1, <7>2, <7>8 DEF p, g
          <6> HIDE DEF Cell
          <6> QED BY <6>2, <6>3
        <5>2. CASE ~ \E d \in Digits(pos) : slot = b + d
          <6>1. Group(slot) = {}
            BY <3>7, <5>2
          <6>2. slot - b \notin Digits(pos)
            <7> SUFFICES ASSUME slot - b \in Digits(pos) PROVE FALSE
              OBVIOUS
            <7>1. slot \in Int /\ slot = b + (slot - b)
              BY <3>4 DEF Slot
            <7> QED BY <5>2, <7>1
          <6>3. /\ node = Cells(meta, pos, TreeBelow(s, meta, pos, f))
                /\ new = Cells(meta, pos, TreeBelow(t, meta, pos, f))
            BY <2>1, TreeIs DEF node, new
          <6>4. node[slot] = new[slot]
            BY <6>2, <6>3 DEF Cells, b
          <6> QED BY <6>1, <6>4
        <5> HIDE DEF Cell
        <5> QED BY <5>1, <5>2
      <4>5. r.node = [slot \in Slot |-> Cell(slot)]
        BY <3>2
      <4> HIDE DEF Cell
      <4>6. new = [slot \in Slot |-> new[slot]]
        <5>1. new = Cells(meta, pos, TreeBelow(t, meta, pos, f))
          BY <2>1, TreeIs DEF new
        <5> QED BY <5>1 DEF Cells
      <4>7. r.node = new
        BY <4>4, <4>5, <4>6
      <4>8. Makes(r, new)
        BY <4>3, <4>7 DEF Makes
      <4>9. Orderly(r, {node}, h)
        <5>1. \A slot \in Slot : Group(slot) # {} => Orderly(Child(slot), KnownFrom({node}, {node}), h - 1)
          BY <3>7, <4>1
        <5>2. h \in 1..Width
          BY <1>1, <2>8
        <5>3. Orderly(ReplaceNode(G[h - 1], node, pos, f - 1, A), {node}, h)
          BY <5>1, <5>2, ReplaceNodeOrderly DEF Group, Child
        <5> QED BY <3>1, <5>3
      <4> QED BY <2>6, <3>10, <4>8, <4>9 DEF Yields
    <3> QED BY <3>9, <3>10
  <2> QED BY <2>7, <2>8
<1>3. 0 \in S
  <2>1. 0 \in 0..Width
    BY <1>1
  <2> QED BY <1>2, <2>1
<1>4. \A h \in 0..(Width - 1) : h \in S => h + 1 \in S
  <2> SUFFICES ASSUME NEW h \in 0..(Width - 1), h \in S PROVE h + 1 \in S
    OBVIOUS
  <2>1. h + 1 \in 0..Width /\ (h + 1) - 1 = h
    BY <1>1
  <2>2. AllReplace(store, s, t, meta, changes, h)
    OBVIOUS
  <2>3. AllReplace(store, s, t, meta, changes, h + 1)
    BY <1>2, <2>1, <2>2
  <2> QED BY <2>1, <2>3
<1>5. 0..Width \subseteq S
  <2> HIDE DEF S
  <2> QED BY <1>1, <1>3, <1>4, Upwards
<1> QED BY <1>5

-----------------------------------------------------------------------------
(* The way down to a lower tree.                                            *)

\* The leftmost descendant of a height, if there is one below the root.
LowIs(low, items, meta, top, height, store) ==
    /\ low.ok = TRUE
    /\ Fits(low.pos) /\ low.pos.height = height
    /\ IF height = top.height THEN low.pos = top
       ELSE low.pos.root = FALSE
            /\ low.pos.count = IF top.count <= Span(height + 1) THEN top.count ELSE Span(height + 1)
    /\ low.node = Tree(items, meta, low.pos, 1)
    /\ Whole(low.node, height, store)
    /\ {low.node} \cup low.reads \subseteq KnownFrom({Tree(items, meta, top, 1)}, low.reads)

\* Truncate finds the tree of a prefix of the items (Truncate, loadFirstChild).
LEMMA DescendsTo ==
    ASSUME NEW items, NEW base, NEW meta, NEW store, base[0].count \in 1..MaxUint,
           base = Tree(items, meta, RootPosition(base[0].count), 1),
           Whole(base, RootPosition(base[0].count).height, store)
    PROVE  \A h \in 0..RootPosition(base[0].count).height :
               LowIs(Descend(store, base, h), items, meta, RootPosition(base[0].count), h, store)
<1> DEFINE top == RootPosition(base[0].count)
           D(h) == Descend(store, base, h)
           n == base[0].count
           S == {h \in 0..top.height : LowIs(D(h), items, meta, top, h, store)}
<1>1. /\ n \in 1..MaxUint /\ n \in 0..MaxUint /\ n \in Nat /\ MaxUint \in Nat
      /\ Width \in Nat
  BY Spans, ListAssumption
<1>2. Fits(top) /\ top.count = n /\ top.root = TRUE /\ top \in Positions /\ top.height \in 0..Width
  <2>1. Fits(top) /\ top.count = n /\ top.root = TRUE
    BY <1>1, RootIs
  <2> QED BY <2>1 DEF Fits, Positions
<1>3. \A h \in 0..Width :
          D(h) = IF h >= top.height THEN [ok |-> TRUE, node |-> base, pos |-> top, reads |-> {}]
                 ELSE Down(D(h + 1), store)
  <2>1. \A h \in 0..Width : D(h) = LowAt(D(h + 1), store, base, h)
    BY <1>1, DescendUnfold
  <2> QED BY <2>1 DEF LowAt
<1>4. base = Tree(items, meta, top, 1) /\ Whole(base, top.height, store)
  OBVIOUS
<1> HIDE DEF top, D, n
<1>5. top.height \in S
  <2>1. top.height \in 0..Width /\ top.height >= top.height /\ top.height \in 0..top.height
    BY <1>1, <1>2
  <2>2. D(top.height) = [ok |-> TRUE, node |-> base, pos |-> top, reads |-> {}]
    BY <1>3, <2>1
  <2>3. LowIs(D(top.height), items, meta, top, top.height, store)
    BY <1>2, <1>4, <2>2 DEF LowIs, KnownFrom
  <2> QED BY <2>1, <2>3
<1>6. \A h \in 0..(top.height - 1) : h + 1 \in S => h \in S
  <2> SUFFICES ASSUME NEW h \in 0..(top.height - 1), h + 1 \in S PROVE h \in S
    OBVIOUS
  <2> DEFINE above == D(h + 1)
             low == D(h)
             child == ChildPosition(above.pos, 0)
             cell == above.node[Base(above.pos)]
             m == above.pos.count
  <2>1. /\ h \in 0..Width /\ ~(h >= top.height) /\ h + 1 \in 0..Width /\ h \in 0..top.height
        /\ h + 1 # 0 /\ (h + 1) - 1 = h /\ h # top.height /\ h \in Nat
    BY <1>1, <1>2
  <2>2. low = Down(above, store)
    BY <1>3, <2>1
  <2>3. /\ above.ok = TRUE /\ Fits(above.pos) /\ above.pos.height = h + 1
        /\ above.node = Tree(items, meta, above.pos, 1) /\ Whole(above.node, h + 1, store)
        /\ above.pos \in Positions
    BY DEF LowIs, Fits
  <2>4. IF h + 1 = top.height THEN above.pos = top
        ELSE m = IF n <= Span((h + 1) + 1) THEN n ELSE Span((h + 1) + 1)
    BY <1>2 DEF LowIs
  <2>19. above.node \in KnownFrom({Tree(items, meta, top, 1)}, above.reads)
         /\ above.reads \subseteq KnownFrom({Tree(items, meta, top, 1)}, above.reads)
    BY DEF LowIs
  <2> HIDE DEF above, low, S
  <2>5. /\ Span(h + 1) \in Nat \ {0} /\ m \in Nat
        /\ h + 1 # top.height => Span((h + 1) + 1) \in Nat /\ Span(h + 1) <= Span((h + 1) + 1)
    <3>1. Span(h + 1) \in Nat \ {0} /\ m \in Nat
      BY <2>1, <2>3, Spans DEF Positions
    <3>2. ASSUME h + 1 # top.height PROVE Span((h + 1) + 1) \in Nat /\ Span(h + 1) <= Span((h + 1) + 1)
      <4>1. (h + 1) + 1 \in 0..Width /\ h + 1 <= (h + 1) + 1
        BY <1>1, <1>2, <2>1, <3>2
      <4> QED BY <2>1, <4>1, Spans, SpansGrow
    <3> QED BY <3>1, <3>2
  <2>6. m > 0 /\ (m <= Span(h + 1) <=> n <= Span(h + 1)) /\ (m <= Span(h + 1) => m = n)
    <3> DEFINE x == Span(h + 1)
               y == Span((h + 1) + 1)
    <3>1. CASE h + 1 = top.height
      <4>1. m = n
        BY <1>2, <2>4, <3>1
      <4> QED BY <1>1, <4>1
    <3>2. CASE h + 1 # top.height
      <4>1. m = (IF n <= y THEN n ELSE y) /\ x \in Nat \ {0} /\ y \in Nat /\ x <= y /\ m \in Nat
        BY <2>4, <2>5, <3>2
      <4> HIDE DEF x, y, m
      <4>2. x < y
        <5>1. (h + 1) + 1 \in 1..Width /\ ((h + 1) + 1) - 1 = h + 1
          BY <1>1, <1>2, <2>1, <3>2
        <5>2. y = Slots * x
          BY <5>1, Spans DEF x, y
        <5>3. Slots * x = x + (Slots - 1) * x /\ (Slots - 1) * x \in Nat /\ (Slots - 1) * x = x + (Slots - 2) * x
              /\ (Slots - 2) * x \in Nat
          BY <4>1, Spans
        <5> QED BY <4>1, <5>2, <5>3
      <4>3. m > 0 /\ (m <= x => n <= x) /\ (n <= x => m <= x)
        BY <1>1, <4>1, <4>2
      <4>4. m <= x => m = n
        BY <1>1, <4>1, <4>2
      <4> QED BY <4>3, <4>4 DEF x
    <3> QED BY <3>1, <3>2
  <2>7. 0 \in Digits(above.pos)
    BY <2>3, <2>6, DigitsAre
  <2>8. Start(above.pos, 0) = 0 /\ Start(above.pos, 0) = 0 * Span(h + 1)
    <3>1. Start(above.pos, 0) = 0 * Span(h + 1)
      BY <2>1, <2>3, <2>7, ChildIs
    <3> QED BY <2>5, <3>1
  <2>9. /\ Fits(child) /\ child.height = h /\ child.root = FALSE
        /\ child.count = IF n <= Span(h + 1) THEN n ELSE Span(h + 1)
    <3>1. /\ child.height = h /\ child.root = FALSE
          /\ child.count = IF m - 0 * Span(h + 1) <= Span(h + 1) THEN m - 0 * Span(h + 1) ELSE Span(h + 1)
      BY <2>1, <2>3, <2>7, ChildIs
    <3>2. Fits(child)
      BY <2>1, <2>3, ChildFits
    <3>3. 0 * Span(h + 1) = 0
      BY <2>8
    <3>4. child.count = IF m <= Span(h + 1) THEN m ELSE Span(h + 1)
      BY <2>5, <3>1, <3>3
    <3> HIDE DEF m, child
    <3>5. child.count = IF n <= Span(h + 1) THEN n ELSE Span(h + 1)
      BY <2>6, <3>4
    <3> QED BY <3>1, <3>2, <3>5
  <2>10. cell = ChildCell(Tree(items, meta, child, 1)) /\ Base(above.pos) \in Slot
    <3> DEFINE b == Base(above.pos)
    <3>1. b \in 0..1
      BY <2>3, DigitsAre
    <3>2. 1 + Start(above.pos, 0) = 1 /\ b + 0 = b
      BY <2>8, <3>1
    <3>3. 1 \in Nat
      OBVIOUS
    <3>4. above.pos.height # 0
      BY <2>1, <2>3
    <3>5. /\ b + 0 \in Slot
          /\ above.node[b + 0] = ChildCell(Tree(items, meta, ChildPosition(above.pos, 0), 1 + Start(above.pos, 0)))
      BY <2>3, <2>7, <3>3, <3>4, TreeShaped
    <3> QED BY <3>2, <3>5
  <2>11. cell.kind = "child" /\ cell.node = Tree(items, meta, child, 1)
    BY <2>10 DEF ChildCell
  <2>12. above.node \in store /\ Shaped(above.node, above.pos)
    <3>1. Shaped(above.node, above.pos)
      <4> DEFINE at == above.pos
                 made == above.node
      <4>1. Fits(at) /\ made = Tree(items, meta, at, 1) /\ 1 \in Nat
        BY <2>3
      <4> HIDE DEF at, made
      <4>2. Shaped(made, at)
        BY <4>1, TreeShaped
      <4> QED BY <4>2 DEF at, made
    <3> QED BY <2>1, <2>3, <3>1, WholeBelow
  <2>13. Whole(cell.node, h, store)
    <3>1. cell.node \in ChildNodes(above.node)
      BY <2>10, <2>11 DEF ChildNodes
    <3> QED BY <2>1, <2>3, <3>1, WholeBelow
  <2>14. low = [ok |-> TRUE, node |-> cell.node, pos |-> child, reads |-> above.reads \cup {above.node}]
    BY <2>2, <2>3, <2>11, <2>12 DEF Down
  <2>17. cell.node \in ChildNodes(above.node)
    BY <2>10, <2>11 DEF ChildNodes
  <2> HIDE DEF child, cell
  <2>15. low.ok = TRUE /\ low.node = cell.node /\ low.pos = child /\ above.node \in low.reads
    BY <2>14
  <2>20. low.reads = above.reads \cup {above.node}
    BY <2>14
  <2>18. {low.node} \cup low.reads \subseteq KnownFrom({Tree(items, meta, top, 1)}, low.reads)
    <3> HIDE DEF above, low
    <3> QED BY <2>15, <2>17, <2>19, <2>20 DEF KnownFrom
  <2>16. LowIs(low, items, meta, top, h, store)
    BY <1>2, <2>1, <2>9, <2>11, <2>13, <2>15, <2>18 DEF LowIs
  <2> QED BY <2>1, <2>16 DEF S, low
<1>7. 0..top.height \subseteq S
  <2>1. top.height \in Nat
    BY <1>1, <1>2
  <2> HIDE DEF S
  <2> QED BY <1>5, <1>6, <2>1, Downwards
<1> QED BY <1>7 DEF top, D

-----------------------------------------------------------------------------
(* The items of a tree.                                                     *)

\* How many of the items of a position its slots before slot hold.
Until(pos, slot) ==
    IF slot <= Base(pos) THEN 0
    ELSE IF (slot - Base(pos)) * Span(pos.height) <= pos.count
    THEN (slot - Base(pos)) * Span(pos.height) ELSE pos.count

\* Each digit adds what its child has, other slots nothing (snapshotItems).
LEMMA UntilIs ==
    ASSUME NEW pos, Fits(pos)
    PROVE  /\ Until(pos, 0) = 0 /\ Until(pos, Slots) = pos.count
           /\ \A slot \in Slot :
                  /\ Until(pos, slot) \in Nat /\ Until(pos, slot) <= pos.count
                  /\ slot < Base(pos) => Until(pos, slot + 1) = Until(pos, slot)
                  /\ slot >= Base(pos) /\ slot - Base(pos) \notin Digits(pos)
                         => Until(pos, slot + 1) = Until(pos, slot)
                  /\ slot - Base(pos) \in Digits(pos)
                         => /\ Until(pos, slot) = (slot - Base(pos)) * Span(pos.height)
                            /\ Until(pos, slot + 1) = Until(pos, slot) +
                                   IF pos.count - (slot - Base(pos)) * Span(pos.height) <= Span(pos.height)
                                   THEN pos.count - (slot - Base(pos)) * Span(pos.height)
                                   ELSE Span(pos.height)
<1> DEFINE b == Base(pos)
           S == Span(pos.height)
           n == pos.count
<1>1. /\ b \in 0..1 /\ S \in Nat \ {0} /\ n \in Nat /\ Slots \in Nat /\ Slots >= 2
      /\ \A d \in Int : d \in Digits(pos) <=> d >= 0 /\ d * S < n
  BY Spans, DigitsAre DEF Fits, Positions, Digital
<1>2. Slots - b \notin Digits(pos) /\ Slots - b \in Int
  <2>1. Used(pos) \in Nat /\ Used(pos) <= Slots - b
    BY DigitsAre DEF Fits
  <2> QED BY <1>1, <2>1 DEF Digits
<1>3. (Slots - b) * S >= n
  <2> DEFINE x == (Slots - b) * S
  <2>1. Slots - b >= 0 /\ Slots - b \in Int /\ x \in Int
    BY <1>1
  <2>2. ~(x < n)
    BY <1>1, <1>2, <2>1
  <2> HIDE DEF x, n
  <2>3. x >= n
    BY <1>1, <2>1, <2>2
  <2> QED BY <2>3 DEF x
<1>4. Until(pos, Slots) = n
  <2> DEFINE x == (Slots - b) * S
  <2>1. ~(Slots <= b) /\ x \in Int /\ x >= n
    BY <1>1, <1>3
  <2>2. Until(pos, Slots) = IF x <= n THEN x ELSE n
    BY <2>1 DEF Until
  <2> HIDE DEF x, n
  <2>3. Until(pos, Slots) = n
    BY <1>1, <2>1, <2>2
  <2> QED BY <2>3
<1>5. Until(pos, 0) = 0
  BY <1>1 DEF Until
<1>6. ASSUME NEW slot \in Slot
      PROVE  /\ Until(pos, slot) \in Nat /\ Until(pos, slot) <= n
             /\ slot < b => Until(pos, slot + 1) = Until(pos, slot)
             /\ slot >= b /\ slot - b \notin Digits(pos) => Until(pos, slot + 1) = Until(pos, slot)
             /\ slot - b \in Digits(pos)
                    => /\ Until(pos, slot) = (slot - b) * S
                       /\ Until(pos, slot + 1) = Until(pos, slot) +
                              IF n - (slot - b) * S <= S THEN n - (slot - b) * S ELSE S
  <2> DEFINE d == slot - b
             x == d * S
  <2>1. slot \in Nat /\ d \in Int /\ x \in Int /\ (slot + 1) - b = d + 1 /\ (d + 1) * S = x + S
    BY <1>1 DEF Slot
  <2>2. d > 0 => x >= S
    <3>1. d > 0 => d = 1 + (d - 1) /\ d - 1 \in Nat /\ (d - 1) * S \in Nat
      BY <1>1, <2>1
    <3>2. d > 0 => x = S + (d - 1) * S
      BY <1>1, <2>1
    <3> QED BY <1>1, <2>1, <3>1, <3>2
  <2>3. d = 0 => x = 0
    BY <1>1
  <2>4. Until(pos, slot) = IF d <= 0 THEN 0 ELSE IF x <= n THEN x ELSE n
    <3>1. slot <= b <=> d <= 0
      BY <1>1, <2>1
    <3> QED BY <3>1 DEF Until
  <2>5. Until(pos, slot + 1) = IF d + 1 <= 0 THEN 0 ELSE IF x + S <= n THEN x + S ELSE n
    <3>1. slot + 1 <= b <=> d + 1 <= 0
      BY <1>1, <2>1
    <3>2. ((slot + 1) - b) * S = x + S
      BY <2>1
    <3> HIDE DEF x, d
    <3> QED BY <3>1, <3>2 DEF Until
  <2>6. /\ d \in Digits(pos) <=> d >= 0 /\ x < n
        /\ slot < b <=> d < 0
    BY <1>1, <2>1
  <2> HIDE DEF d, x, b, S, n
  <2>7. Until(pos, slot) \in Nat /\ Until(pos, slot) <= n
    BY <1>1, <2>1, <2>2, <2>4
  <2>8. d < 0 => Until(pos, slot + 1) = Until(pos, slot)
    BY <1>1, <2>1, <2>4, <2>5
  <2>9. d >= 0 /\ d \notin Digits(pos) => Until(pos, slot + 1) = Until(pos, slot)
    BY <1>1, <2>1, <2>2, <2>3, <2>4, <2>5, <2>6
  <2>10. d \in Digits(pos) =>
             /\ Until(pos, slot) = x
             /\ Until(pos, slot + 1) = Until(pos, slot) + IF n - x <= S THEN n - x ELSE S
    BY <1>1, <2>1, <2>2, <2>3, <2>4, <2>5, <2>6
  <2> QED BY <1>1, <2>1, <2>6, <2>7, <2>8, <2>9, <2>10 DEF d, x
<1> QED BY <1>4, <1>5, <1>6

\* What a cell of a node of a height contributes to the items.
ItemsOfCell(below, nodes, height, cell) ==
    IF cell.kind = "item" THEN <<cell.target>>
    ELSE IF cell.kind = "child" /\ height > 0 /\ cell.node \in nodes THEN below[cell.node]
    ELSE <<>>

\* The items of a node are those of its cells, one after another (snapshotItems).
LEMMA ItemsAre ==
    ASSUME NEW nodes, NEW node \in nodes, NEW h \in 0..Width
    PROVE  ItemsBelow(nodes)[h][node] =
               FlattenSeq([i \in 1..Slots |->
                   ItemsOfCell(ItemsBelow(nodes)[h - 1], nodes, h, node[i - 1])])
<1> DEFINE G == ItemsBelow(nodes)
<1>1. G[h] = ItemsAt(G[h - 1], nodes, h)
  BY ItemsBelowUnfold
<1> HIDE DEF G
<1>2. G[h][node] = FlattenSeq([i \in 1..Slots |-> ItemsOfCell(G[h - 1], nodes, h, node[i - 1])])
  BY <1>1 DEF ItemsAt, ItemsOfCell
<1> QED BY <1>2 DEF G

\* The items of a cell of the tree are those of the slots up to it and not before.
CellItems(below, nodes, height, s, S, meta, pos, f, slot) ==
    LET w == ItemsOfCell(below, nodes, height, Tree(s, meta, pos, f)[slot])
    IN  w \in Seq(S) /\ IsWindow(w, s, f - 1 + Until(pos, slot), f - 1 + Until(pos, slot + 1))

Listed(s, S, meta, pos, f) ==
    /\ s \in Seq(S) /\ Fits(pos) /\ f \in Nat \ {0} /\ f - 1 + pos.count <= Len(s)
    /\ pos.root => meta.kind = "meta"

\* The items of a child are items of the sequence.
LEMMA ListedBelow ==
    ASSUME NEW s, NEW S, NEW meta, NEW pos, NEW f, Listed(s, S, meta, pos, f),
           pos.height # 0, NEW d \in Digits(pos)
    PROVE  Listed(s, S, meta, ChildPosition(pos, d), f + Start(pos, d))
<1> DEFINE child == ChildPosition(pos, d)
           g == f + Start(pos, d)
<1>1. /\ Fits(pos) /\ pos \in Positions /\ f \in Nat \ {0} /\ f - 1 + pos.count <= Len(s)
      /\ s \in Seq(S) /\ pos.count \in Nat /\ pos.height \in 0..Width /\ Len(s) \in Nat
  BY Spans DEF Listed, Fits, Positions
<1>2. d \in Nat /\ d * Span(pos.height) < pos.count
  BY <1>1, DigitsAre DEF Digital
<1>3. Fits(child) /\ Start(pos, d) \in Nat /\ child.count \in Nat /\ child.root = FALSE
  <2>1. Fits(child) /\ Start(pos, d) \in 0..MaxUint /\ child.root = FALSE
    BY <1>1, <1>2, ChildFits, ChildIs
  <2> QED BY <2>1, Spans DEF Fits, Positions
<1>4. child.count > 0
  <2> DEFINE x == d * Span(pos.height)
  <2>1. child.count = IF pos.count - x <= Span(pos.height) THEN pos.count - x ELSE Span(pos.height)
    BY <1>1, <1>2, ChildIs
  <2>2. Span(pos.height) \in Nat \ {0} /\ x \in Nat /\ x < pos.count
    BY <1>1, <1>2, Spans
  <2> HIDE DEF x, child
  <2> QED BY <1>1, <2>1, <2>2
<1>5. \A i \in 0..(child.count - 1) : Start(pos, d) + i \in 0..(pos.count - 1)
  BY <1>1, ChildWindow
<1> HIDE DEF child
<1>6. Start(pos, d) + child.count <= pos.count
  <2>1. child.count - 1 \in 0..(child.count - 1)
    BY <1>3, <1>4
  <2>2. Start(pos, d) + (child.count - 1) <= pos.count - 1
    BY <1>1, <1>5, <2>1
  <2> QED BY <1>1, <1>3, <2>2
<1>7. g \in Nat \ {0} /\ g - 1 + child.count <= Len(s)
  BY <1>1, <1>3, <1>6
<1> QED BY <1>1, <1>3, <1>7 DEF Listed, child

\* Metadata and padding have no items, a leaf cell has its own, a child those below it.
LEMMA CellsHold ==
    ASSUME NEW S, NEW s, NEW meta, NEW pos, NEW f, Listed(s, S, meta, pos, f),
           NEW below, NEW nodes, NEW h \in Nat, pos.height <= h, NEW slot \in Slot,
           \A d \in Digits(pos) : pos.height # 0 =>
               LET child == ChildPosition(pos, d)
                   w == below[Tree(s, meta, child, f + Start(pos, d))]
               IN  /\ Tree(s, meta, child, f + Start(pos, d)) \in nodes
                   /\ w \in Seq(S)
                   /\ IsWindow(w, s, (f + Start(pos, d)) - 1, (f + Start(pos, d)) - 1 + child.count)
    PROVE  CellItems(below, nodes, h, s, S, meta, pos, f, slot)
<1> DEFINE node == Tree(s, meta, pos, f)
           b == Base(pos)
           d == slot - b
           here == TreeBelow(s, meta, pos, f)
           w == ItemsOfCell(below, nodes, h, node[slot])
           A == f - 1 + Until(pos, slot)
           B == f - 1 + Until(pos, slot + 1)
<1>1. /\ pos \in Positions /\ pos.height \in Nat /\ s \in Seq(S) /\ f \in Nat /\ f # 0
      /\ pos.count \in Nat /\ f - 1 + pos.count <= Len(s) /\ Len(s) \in Nat
  BY Spans, ListAssumption DEF Listed, Fits, Positions
<1>2. Fits(pos)
  BY DEF Listed
<1>3. node = Cells(meta, pos, here)
  BY <1>1, TreeIs
<1> HIDE DEF node, here
<1>4. \/ slot < b /\ node[slot] = meta
      \/ d \in Digits(pos) /\ node[slot] = here[d]
      \/ d >= Used(pos) /\ node[slot] = Empty
  BY <1>2, <1>3, CellsAre
<1>5. slot \in Nat /\ b \in 0..1 /\ A \in Nat
  BY <1>1, <1>2, DigitsAre, UntilIs, Spans DEF Slot
<1>6. ASSUME w = <<>>, A = B PROVE CellItems(below, nodes, h, s, S, meta, pos, f, slot)
  <2>1. <<>> \in Seq(S) /\ IsWindow(<<>>, s, A, A)
    BY <1>5 DEF IsWindow
  <2>2. w \in Seq(S) /\ IsWindow(w, s, A, B)
    BY <1>6, <2>1
  <2> QED BY <2>2 DEF CellItems, node
<1>7. CASE slot < b /\ node[slot] = meta
  <2>1. Until(pos, slot + 1) = Until(pos, slot)
    BY <1>2, <1>7, UntilIs
  <2>2. pos.root = TRUE \/ b = 0
    BY DEF Base
  <2>3. meta.kind = "meta"
    <3>1. pos.root
      BY <1>5, <1>7, <2>2
    <3> QED BY <3>1 DEF Listed
  <2>4. w = <<>>
    BY <1>7, <2>3 DEF ItemsOfCell
  <2> QED BY <1>6, <2>1, <2>4
<1>8. CASE d >= Used(pos) /\ node[slot] = Empty
  <2>1. Until(pos, slot + 1) = Until(pos, slot)
    <3>1. Used(pos) \in Nat /\ slot >= b /\ d \notin Digits(pos)
      BY <1>1, <1>5, <1>8, DigitsAre DEF Digits
    <3> QED BY <1>2, <3>1, UntilIs
  <2>2. w = <<>>
    BY <1>8 DEF ItemsOfCell, Empty
  <2> QED BY <1>6, <2>1, <2>2
<1>9. CASE d \in Digits(pos) /\ node[slot] = here[d] /\ pos.height = 0
  <2>1. node[slot] = Item(s[f + d])
    BY <1>9 DEF here, TreeBelow
  <2>2. w = <<s[f + d]>>
    BY <2>1 DEF ItemsOfCell, Item
  <2>3. d \in Nat /\ d <= pos.count - 1
    BY <1>1, <1>9, LeafDigits
  <2>4. /\ Until(pos, slot) = d * Span(0)
        /\ Until(pos, slot + 1) = Until(pos, slot) +
               IF pos.count - d * Span(0) <= Span(0) THEN pos.count - d * Span(0) ELSE Span(0)
    BY <1>2, <1>9, UntilIs
  <2>5. Until(pos, slot) = d /\ Until(pos, slot + 1) = d + 1
    <3>1. Span(0) = 1
      BY Spans
    <3>2. d * Span(0) = d
      BY <2>3, <3>1
    <3> HIDE DEF d
    <3> QED BY <1>1, <2>3, <2>4, <3>1, <3>2
  <2>6. A = f - 1 + d /\ B = f + d
    <3> HIDE DEF d
    <3> QED BY <1>1, <2>3, <2>5
  <2> HIDE DEF A, B, d, w
  <2>7. f + d \in 1..Len(s) /\ B - A = 1 /\ A + 1 = f + d /\ A \in Nat /\ B \in Nat /\ A <= B
    BY <1>1, <2>3, <2>6
  <2>8. s[f + d] \in S
    BY <1>1, <2>7
  <2>9. w \in Seq(S) /\ Len(w) = 1 /\ w[1] = s[f + d]
    BY <2>2, <2>8
  <2>10. IsWindow(w, s, A, B)
    BY <2>7, <2>9 DEF IsWindow
  <2> QED BY <2>9, <2>10 DEF CellItems, node, w, A, B
<1>10. CASE d \in Digits(pos) /\ node[slot] = here[d] /\ pos.height # 0
  <2> DEFINE child == ChildPosition(pos, d)
             tree == Tree(s, meta, child, f + Start(pos, d))
  <2>1. node[slot] = ChildCell(tree)
    BY <1>10 DEF here, TreeBelow
  <2>2. /\ tree \in nodes /\ below[tree] \in Seq(S)
        /\ IsWindow(below[tree], s, (f + Start(pos, d)) - 1, (f + Start(pos, d)) - 1 + child.count)
    BY <1>10
  <2>3. h > 0
    BY <1>1, <1>10
  <2>4. w = below[tree]
    BY <2>1, <2>2, <2>3 DEF ItemsOfCell, ChildCell
  <2>5. d \in Nat
    BY <1>1, <1>10, DigitsAre
  <2>6. /\ Start(pos, d) = d * Span(pos.height)
        /\ child.count = IF pos.count - d * Span(pos.height) <= Span(pos.height)
                         THEN pos.count - d * Span(pos.height) ELSE Span(pos.height)
        /\ Start(pos, d) \in Nat /\ child.count \in Nat
    <3>1. Start(pos, d) \in 0..MaxUint /\ child \in Positions
      BY <1>1, <1>10, <2>5, ChildIs
    <3>2. Start(pos, d) \in Nat /\ child.count \in Nat
      BY <3>1, Spans DEF Positions
    <3> QED BY <1>1, <1>10, <2>5, <3>2, ChildIs
  <2>7. /\ Until(pos, slot) = d * Span(pos.height)
        /\ Until(pos, slot + 1) = Until(pos, slot) +
               IF pos.count - d * Span(pos.height) <= Span(pos.height)
               THEN pos.count - d * Span(pos.height) ELSE Span(pos.height)
    BY <1>2, <1>10, UntilIs
  <2>8. Until(pos, slot) = Start(pos, d) /\ Until(pos, slot + 1) = Start(pos, d) + child.count
    BY <2>6, <2>7
  <2> HIDE DEF child, d, tree, w
  <2>9. A = (f + Start(pos, d)) - 1 /\ B = (f + Start(pos, d)) - 1 + child.count
    BY <1>1, <2>6, <2>8
  <2> HIDE DEF A, B
  <2>10. w \in Seq(S) /\ IsWindow(w, s, A, B)
    BY <2>2, <2>4, <2>9
  <2> QED BY <2>10 DEF CellItems, node, w, A, B
<1> QED BY <1>4, <1>7, <1>8, <1>9, <1>10

\* A tree holds the items it was built of, and for all positions of a height.
Holds(nodes, height, s, S, meta, pos, f) ==
    LET w == ItemsBelow(nodes)[height][Tree(s, meta, pos, f)]
    IN  w \in Seq(S) /\ IsWindow(w, s, f - 1, f - 1 + pos.count)

AllHold(nodes, s, S, meta, height) ==
    \A pos, f :
        (pos.height <= height /\ Listed(s, S, meta, pos, f)
            /\ Whole(Tree(s, meta, pos, f), pos.height, nodes))
                => Holds(nodes, height, s, S, meta, pos, f)

\* Snapshot finds the items a tree was built of, each once and in their order.
LEMMA TreeHolds ==
    ASSUME NEW S, NEW s, NEW meta, NEW nodes
    PROVE  \A h \in 0..Width : AllHold(nodes, s, S, meta, h)
<1> DEFINE K == {h \in 0..Width : AllHold(nodes, s, S, meta, h)}
<1>1. Width \in Nat
  BY ListAssumption
<1>2. ASSUME NEW h \in 0..Width, h # 0 => AllHold(nodes, s, S, meta, h - 1),
             NEW pos, NEW f, pos.height <= h, Listed(s, S, meta, pos, f),
             Whole(Tree(s, meta, pos, f), pos.height, nodes)
      PROVE  Holds(nodes, h, s, S, meta, pos, f)
  <2> DEFINE node == Tree(s, meta, pos, f)
             below == ItemsBelow(nodes)[h - 1]
             at == [m \in 0..Slots |-> f - 1 + Until(pos, m)]
             seqs == [i \in 1..Slots |-> ItemsOfCell(below, nodes, h, node[i - 1])]
  <2>1. /\ pos \in Positions /\ Fits(pos) /\ pos.height \in 0..Width /\ f \in Nat \ {0} /\ h \in Nat
        /\ Slots \in Nat \ {0} /\ pos.height \in Nat /\ f - 1 + pos.count <= Len(s) /\ s \in Seq(S)
        /\ pos.count \in Nat /\ f \in Nat
    <3>1. Fits(pos) /\ f \in Nat \ {0} /\ f - 1 + pos.count <= Len(s) /\ s \in Seq(S)
      BY <1>2 DEF Listed
    <3>2. pos \in Positions /\ pos.height \in 0..Width /\ pos.count \in 0..MaxUint
      BY <3>1 DEF Fits, Positions
    <3>3. Slots \in Nat \ {0} /\ MaxUint \in Nat
      BY Spans
    <3> QED BY <1>1, <3>1, <3>2, <3>3
  <2>2. node \in nodes
    BY <1>2, <2>1, WholeBelow
  <2>3. ItemsBelow(nodes)[h][node] = FlattenSeq(seqs)
    BY <2>2, ItemsAre
  <2>4. ASSUME NEW d \in Digits(pos), pos.height # 0
        PROVE  LET child == ChildPosition(pos, d)
                   w == below[Tree(s, meta, child, f + Start(pos, d))]
               IN  /\ Tree(s, meta, child, f + Start(pos, d)) \in nodes
                   /\ w \in Seq(S)
                   /\ IsWindow(w, s, (f + Start(pos, d)) - 1, (f + Start(pos, d)) - 1 + child.count)
    <3> DEFINE child == ChildPosition(pos, d)
               g == f + Start(pos, d)
               tree == Tree(s, meta, child, g)
    <3>1. /\ h # 0 /\ h - 1 \in 0..Width /\ child.height = pos.height - 1 /\ child.height <= h - 1
          /\ child.root = FALSE
      <4>1. d \in Nat
        BY <2>1, DigitsAre
      <4>2. child.height = pos.height - 1 /\ child.root = FALSE
        BY <2>1, <2>4, <4>1, ChildIs
      <4>3. h # 0 /\ h - 1 \in 0..Width /\ pos.height - 1 <= h - 1
        BY <1>1, <1>2, <2>1, <2>4
      <4> QED BY <4>2, <4>3
    <3>2. Whole(tree, pos.height - 1, nodes)
      <4>1. node[Base(pos) + d] = ChildCell(tree) /\ Base(pos) + d \in Slot
        <5>1. Fits(pos) /\ f \in Nat /\ d \in Digits(pos)
          BY <2>1, <2>4
        <5> HIDE DEF tree, node
        <5>2. /\ node[Base(pos) + d] = IF pos.height = 0 THEN Item(s[f + d]) ELSE ChildCell(tree)
              /\ Base(pos) + d \in Slot
          BY <5>1, TreeShaped DEF tree, node, child, g
        <5> QED BY <2>4, <5>2
      <4>2. tree \in ChildNodes(node)
        BY <4>1 DEF ChildNodes, ChildCell
      <4> QED BY <1>2, <2>1, <2>4, <4>2, WholeBelow
    <3>3. Listed(s, S, meta, child, g)
      BY <1>2, <2>4, ListedBelow
    <3>4. Holds(nodes, h - 1, s, S, meta, child, g)
      <4>1. AllHold(nodes, s, S, meta, h - 1)
        BY <1>2, <3>1
      <4>2. Whole(tree, child.height, nodes)
        BY <3>1, <3>2
      <4> HIDE DEF child, g
      <4> QED BY <3>1, <3>3, <4>1, <4>2 DEF AllHold
    <3>5. tree \in nodes
      <4>1. pos.height - 1 \in 0..Width
        BY <1>1, <2>1, <2>4
      <4> HIDE DEF tree
      <4> QED BY <3>2, <4>1, WholeBelow
    <3>6. below[tree] \in Seq(S) /\ IsWindow(below[tree], s, g - 1, g - 1 + child.count)
      <4> HIDE DEF child, g
      <4> QED BY <3>4 DEF Holds
    <3> HIDE DEF below
    <3> QED BY <3>5, <3>6
  <2>5. \A slot \in Slot : CellItems(below, nodes, h, s, S, meta, pos, f, slot)
    <3> TAKE slot \in Slot
    <3> HIDE DEF below
    <3> QED BY <1>2, <2>1, <2>4, CellsHold
  <2>6. \A i \in 1..Slots :
            /\ i - 1 \in Slot /\ i - 1 \in 0..Slots /\ (i - 1) + 1 = i
            /\ seqs[i] = ItemsOfCell(below, nodes, h, node[i - 1])
            /\ at[i - 1] = f - 1 + Until(pos, i - 1) /\ at[i] = f - 1 + Until(pos, i)
    BY <2>1 DEF Slot
  <2> HIDE DEF below
  <2>7. \A i \in 1..Slots : seqs[i] \in Seq(S) /\ IsWindow(seqs[i], s, at[i - 1], at[i])
    <3> TAKE i \in 1..Slots
    <3>1. CellItems(below, nodes, h, s, S, meta, pos, f, i - 1)
      BY <2>5, <2>6
    <3>2. /\ seqs[i] \in Seq(S)
          /\ IsWindow(seqs[i], s, f - 1 + Until(pos, i - 1), f - 1 + Until(pos, (i - 1) + 1))
      <4> HIDE DEF seqs, at
      <4>1. seqs[i] = ItemsOfCell(below, nodes, h, node[i - 1])
        BY <2>6
      <4> QED BY <3>1, <4>1 DEF CellItems, node
    <3> HIDE DEF seqs, at
    <3> QED BY <2>6, <3>2
  <2>8. seqs \in [1..Slots -> Seq(S)]
    BY <2>7
  <2>9. at[0] = f - 1 /\ at[Slots] = f - 1 + pos.count
    <3>1. Until(pos, 0) = 0 /\ Until(pos, Slots) = pos.count
      BY <2>1, UntilIs
    <3>2. 0 \in 0..Slots /\ Slots \in 0..Slots /\ f - 1 + 0 = f - 1
      BY <2>1
    <3>3. at[0] = f - 1 + Until(pos, 0) /\ at[Slots] = f - 1 + Until(pos, Slots)
      BY <3>2
    <3> HIDE DEF at
    <3> QED BY <3>1, <3>2, <3>3
  <2> HIDE DEF seqs, at
  <2>10. FlattenSeq(seqs) \in Seq(S) /\ IsWindow(FlattenSeq(seqs), s, at[0], at[Slots])
    BY <2>1, <2>7, <2>8, FlatWindows
  <2> QED BY <2>3, <2>9, <2>10 DEF Holds, node
<1>3. ASSUME NEW h \in 0..Width, h # 0 => AllHold(nodes, s, S, meta, h - 1)
      PROVE  AllHold(nodes, s, S, meta, h)
  BY <1>2, <1>3 DEF AllHold
<1>4. 0 \in K
  <2>1. 0 \in 0..Width
    BY <1>1
  <2> QED BY <1>3, <2>1
<1>5. \A h \in 0..(Width - 1) : h \in K => h + 1 \in K
  <2> SUFFICES ASSUME NEW h \in 0..(Width - 1), h \in K PROVE h + 1 \in K
    OBVIOUS
  <2>1. h + 1 \in 0..Width /\ (h + 1) - 1 = h
    BY <1>1
  <2> QED BY <1>3, <2>1
<1>6. 0..Width \subseteq K
  <2> HIDE DEF K
  <2> QED BY <1>1, <1>4, <1>5, Upwards
<1> QED BY <1>6

\* A Snapshot of a committed List has the items that were committed (Snapshot).
LEMMA BuiltItems ==
    ASSUME NEW S, NEW s \in Seq(S), Len(s) <= MaxUint, NEW p
    PROVE  ListItems(BuildList(s, p)) = s
<1> DEFINE n == Len(s)
           top == RootPosition(n)
           meta == Meta(n, p)
           base == BuildList(s, p)
           nodes == ListNodes(base)
<1>1. base = Tree(s, meta, top, 1)
  BY DEF BuildList, ListBuilt, Tree
<1>2. n \in 0..MaxUint
  BY Spans
<1>3. Fits(top) /\ top.count = n
  BY <1>2, RootIs
<1>4. meta.kind = "meta"
  BY DEF Meta
<1> HIDE DEF n, top, meta, base
<1>5. /\ Width \in Nat /\ Width \in 0..Width /\ top.height \in 0..Width /\ top.height <= Width
  BY <1>3, ListAssumption DEF Fits, Positions
<1>6. Whole(base, top.height, nodes)
  BY <1>5 DEF Whole, ListNodes
<1>7. Listed(s, S, meta, top, 1)
  BY <1>2, <1>3, <1>4 DEF Listed, n
<1>8. Holds(nodes, Width, s, S, meta, top, 1)
  <2>1. AllHold(nodes, s, S, meta, Width)
    BY <1>5, TreeHolds
  <2> HIDE DEF nodes
  <2> QED BY <1>1, <1>5, <1>6, <1>7, <2>1 DEF AllHold
<1>9. ListItems(base) \in Seq(S) /\ IsWindow(ListItems(base), s, 0, n)
  <2>1. 1 - 1 = 0 /\ 1 - 1 + top.count = n
    BY <1>2, <1>3
  <2> QED BY <1>1, <1>8, <2>1 DEF Holds, ListItems
<1> QED BY <1>9, WholeWindow DEF base, n

-----------------------------------------------------------------------------
(* The operations on a committed List.                                      *)

\* A List of these items and this payload, in the tree that a Commit makes of them.
IsList(tree, items, p) ==
    /\ items \in Seq(Targets \ {Undef}) /\ Len(items) <= MaxUint
    /\ tree = BuildList(items, p)

\* What a committed List is: a tree of the shape of its length, whose nodes all load.
ListFacts(tree, items, p) ==
    LET n == Len(items)
        top == RootPosition(n)
    IN  /\ n \in 0..MaxUint /\ Fits(top) /\ top.count = n /\ top.root = TRUE /\ Base(top) = 1
        /\ top.height \in 0..Width
        /\ tree = Tree(items, Meta(n, p), top, 1)
        /\ tree[0] = Meta(n, p) /\ tree[0].count = n /\ tree[0].payload = p
        /\ Whole(tree, top.height, ListNodes(tree))
        /\ tree \in ListNodes(tree)
        /\ Sequence(ListNodes(tree), tree)
        /\ ListItems(tree) = items

\* What an operation finds at the Root of such a List (sequence, Metadata).
LEMMA ListIs ==
    ASSUME NEW tree, NEW items, NEW p, IsList(tree, items, p)
    PROVE  ListFacts(tree, items, p)
<1> DEFINE n == Len(items)
           top == RootPosition(n)
           meta == Meta(n, p)
<1>1. items \in Seq(Targets \ {Undef}) /\ n <= MaxUint /\ tree = BuildList(items, p)
  BY DEF IsList
<1>2. tree = Tree(items, meta, top, 1)
  BY <1>1 DEF BuildList, ListBuilt, Tree
<1>3. n \in 0..MaxUint
  BY <1>1, Spans
<1> HIDE DEF n
<1>4. Fits(top) /\ top.count = n /\ top.root = TRUE /\ Base(top) = 1
  BY <1>3, RootIs
<1> HIDE DEF top, meta
<1>5. top.height \in 0..Width /\ Width \in Nat
  BY <1>4, ListAssumption DEF Fits, Positions
<1>6. Shaped(tree, top) /\ tree[0] = meta
  BY <1>2, <1>4, TreeShaped
<1>7. meta.count = n /\ meta.payload = p
  BY DEF meta, Meta
<1>8. Whole(tree, top.height, ListNodes(tree))
  BY <1>5 DEF Whole, ListNodes
<1>9. tree \in ListNodes(tree)
  BY <1>5, <1>8, WholeBelow
<1>10. Sequence(ListNodes(tree), tree)
  BY <1>6, <1>7, <1>9 DEF Sequence, top
<1>11. ListItems(tree) = items
  BY <1>1, BuiltItems DEF n
<1> QED BY <1>2, <1>3, <1>4, <1>5, <1>6, <1>7, <1>8, <1>9, <1>10, <1>11 DEF n, top, meta, ListFacts

\* A batch is appended if it is there, has no absent target and leaves no count beyond
\* the integers; the List is then that of a Commit of all the items (AppendBatch).
LEMMA AppendIs ==
    ASSUME NEW tree, NEW items, NEW p, IsList(tree, items, p),
           NEW targets \in Seq(Targets \cup {Undef})
    PROVE  LET r == AppendBatch(ListNodes(tree), tree, targets) IN
           /\ r.ok <=> /\ targets # <<>> /\ Len(items) + Len(targets) <= MaxUint
                       /\ \A i \in DOMAIN targets : targets[i] # Undef
           /\ r.ok => IsList(r.node, items \o targets, p)
           /\ r.ok => Orderly(r, {tree}, Width)
<1> DEFINE n == Len(items)
           m == Len(targets)
           all == items \o targets
           top == RootPosition(n)
           next == RootPosition(n + m)
           meta == Meta(n + m, p)
           meta0 == Meta(n, p)
           store == ListNodes(tree)
           grown == Grows(store, targets, meta)[next.height][tree][top][next][1]
           r == AppendBatch(store, tree, targets)
           Ready == /\ targets # <<>> /\ n + m <= MaxUint
                    /\ \A i \in DOMAIN targets : targets[i] # Undef
<1>1. /\ n \in 0..MaxUint /\ Fits(top) /\ top.count = n /\ top.root = TRUE /\ top.height \in 0..Width
      /\ tree = Tree(items, meta0, top, 1)
      /\ tree[0].count = n /\ tree[0].payload = p
      /\ Whole(tree, top.height, store) /\ Sequence(store, tree)
  <2>1. ListFacts(tree, items, p)
    BY ListIs
  <2> QED BY <2>1 DEF ListFacts
<1>2. items \in Seq(Targets \ {Undef}) /\ m \in Nat /\ MaxUint \in Nat
  BY Spans DEF IsList
<1>3. r = IF Ready THEN Reading(grown, {tree}) ELSE Refused
  <2>1. Overflow(n, targets) <=> ~(n + m <= MaxUint)
    BY <1>1, <1>2 DEF Overflow
  <2>2. next.count = n + m
    BY DEF RootPosition, Position
  <2> HIDE DEF n, m, store, top, Ready
  <2>3. r = IF ~Sequence(store, tree) \/ targets = <<>> \/ Overflow(n, targets)
               \/ \E i \in DOMAIN targets : targets[i] = Undef
            THEN Refused ELSE Reading(grown, {tree})
    BY <1>1, <2>2 DEF AppendBatch, AppendAll, m, top
  <2>4. Ready <=> ~(targets = <<>> \/ Overflow(n, targets)
                      \/ \E i \in DOMAIN targets : targets[i] = Undef)
    BY <2>1 DEF Ready, m, n
  <2> HIDE DEF grown, r
  <2> QED BY <1>1, <2>3, <2>4
<1>4. ~Ready => r.ok = FALSE
  <2> HIDE DEF Ready, grown, r
  <2> QED BY <1>3 DEF Refused
<1>5. ASSUME Ready PROVE r.ok = TRUE /\ IsList(r.node, all, p) /\ Orderly(r, {tree}, Width)
  <2>1. /\ all \in Seq(Targets \ {Undef}) /\ Len(all) = n + m /\ m # 0
        /\ \A i \in 1..n : all[i] = items[i]
        /\ \A i \in 1..m : all[n + i] = targets[i]
    <3>1. targets \in Seq(Targets \ {Undef})
      BY <1>5
    <3>2. m # 0
      BY <1>5
    <3> HIDE DEF all
    <3>3. all = items \o targets
      BY DEF all
    <3> QED BY <1>2, <3>1, <3>2, <3>3, Joins
  <2>2. n + m \in 0..MaxUint /\ n + m # n /\ n \in Nat
    BY <1>1, <1>2, <1>5, <2>1
  <2>3. Continues(items, n, targets, m, all)
    <3> HIDE DEF all, n, m
    <3> QED BY <2>1 DEF Continues
  <2>4. Fits(next) /\ next.count = n + m /\ next.root = TRUE /\ next.height \in 0..Width
    BY <2>2, RootIs DEF Fits, Positions
  <2>5. top.height <= next.height
    <3>1. Roomy(n + m, next.height)
      <4>1. next.height >= next.height
        BY <2>4, ListAssumption
      <4> QED BY <2>2, <2>4, <4>1, RootIs
    <3>2. Roomy(n, next.height)
      <4> DEFINE x == (Slots - 1) * Span(next.height)
      <4>1. x \in Int
        BY <2>4, Spans
      <4>2. n + m - 1 < x
        <5>1. n + m # 0
          BY <1>2, <2>1, <2>2
        <5> QED BY <3>1, <5>1 DEF Roomy
      <4> HIDE DEF x, n, m
      <4>3. n - 1 < x
        BY <1>2, <2>2, <4>1, <4>2
      <4> QED BY <4>3 DEF Roomy, x
    <3>3. next.height >= top.height
      BY <1>1, <2>4, <3>2, RootIs
    <3> QED BY <1>1, <2>4, <3>3, ListAssumption
  <2>6. Grown(top, next, 1, n, m)
    <3>1. top # next
      BY <1>1, <2>2, <2>4
    <3>2. 1 + top.count - 1 = n /\ 1 + next.count - 1 = n + m /\ top.count <= next.count
          /\ 1 \in Nat \ {0} /\ n <= n /\ n + m <= n + m
      <4> HIDE DEF n, m, top, next
      <4> QED BY <1>1, <1>2, <2>2, <2>4
    <3> HIDE DEF n, m, top, next
    <3> QED BY <1>1, <1>2, <2>2, <2>4, <2>5, <3>1, <3>2 DEF Grown
  <2>7. Yields(grown, Tree(all, meta, next, 1), {tree}, next.height)
    <3>1. AllGrow(store, items, meta0, targets, all, meta, n, m, next.height)
      <4>1. meta.kind # "child"
        BY MetaIsNoChild
      <4> HIDE DEF store, meta0, meta, n, m, next, all
      <4> QED BY <2>3, <2>4, <4>1, TreeGrows
    <3>2. GrowsTo(store, items, meta0, targets, all, meta, top, next, 1)
      <4> HIDE DEF store, meta0, meta, n, m, next, all, top
      <4>1. Whole(Tree(items, meta0, top, 1), top.height, store)
        BY <1>1
      <4> QED BY <2>6, <3>1, <4>1 DEF AllGrow
    <3> HIDE DEF store, meta0, meta, n, m, next, all, top
    <3> QED BY <1>1, <3>2 DEF GrowsTo
  <2>8. BuildList(all, p) = Tree(all, meta, next, 1)
    <3>1. Len(all) = n + m
      BY <2>1
    <3> HIDE DEF all, n, m
    <3> QED BY <3>1 DEF BuildList, ListBuilt, Tree
  <2> HIDE DEF grown, all, n, m, meta, next, Ready, r
  <2>9. r.ok = grown.ok /\ r.node = grown.node
    BY <1>3, <1>5 DEF Reading
  <2>10. r.ok = TRUE /\ IsList(r.node, all, p)
    BY <2>1, <2>2, <2>7, <2>8, <2>9 DEF IsList, Makes, Yields
  <2>11. Orderly(r, {tree}, Width)
    <3>1. {tree} \subseteq KnownFrom({tree}, {tree})
      BY DEF KnownFrom
    <3>2. Orderly(Reading(grown, {tree}), {tree}, Width)
      BY <2>4, <2>7, <3>1, ReadingOrderly DEF Yields
    <3> QED BY <1>3, <1>5, <3>2
  <2> QED BY <2>10, <2>11
<1> HIDE DEF Ready, r, all
<1>6. r.ok <=> Ready
  BY <1>4, <1>5
<1>7. (r.ok => IsList(r.node, all, p)) /\ (r.ok => Orderly(r, {tree}, Width))
  BY <1>4, <1>5
<1> QED BY <1>6, <1>7 DEF Ready, r, all

\* A count up to the present one can be kept; the List is then that of a Commit of as
\* many of its first items, from whichever level of the old tree it is cut (Truncate).
LEMMA TruncateIs ==
    ASSUME NEW tree, NEW items, NEW p, IsList(tree, items, p), NEW count \in 0..MaxUint
    PROVE  LET r == Truncate(ListNodes(tree), tree, count) IN
           /\ r.ok <=> count <= Len(items)
           /\ r.ok => IsList(r.node, SubSeq(items, 1, count), p)
           /\ r.ok => Orderly(r, {tree}, Width)
<1> DEFINE n == Len(items)
           kept == SubSeq(items, 1, count)
           top == RootPosition(n)
           next == RootPosition(count)
           meta == Meta(count, p)
           meta0 == Meta(n, p)
           store == ListNodes(tree)
           low == Descend(store, tree, next.height)
           cut == Cuts(store, meta)[next.height][low.node][low.pos][next]
           r == Truncate(store, tree, count)
<1> SUFFICES /\ r.ok <=> count <= n
             /\ r.ok => IsList(r.node, kept, p)
             /\ r.ok => Orderly(r, {tree}, Width)
  OBVIOUS
<1>1. /\ n \in 0..MaxUint /\ Fits(top) /\ top.count = n /\ top.root = TRUE /\ top.height \in 0..Width
      /\ tree = Tree(items, meta0, top, 1)
      /\ tree[0].count = n /\ tree[0].payload = p
      /\ Whole(tree, top.height, store) /\ Sequence(store, tree)
  <2>1. ListFacts(tree, items, p)
    BY ListIs
  <2> QED BY <2>1 DEF ListFacts
<1>2. items \in Seq(Targets \ {Undef}) /\ MaxUint \in Nat /\ count \in Nat /\ n \in Nat
  BY Spans DEF IsList
<1>3. r = IF count > n THEN Refused
          ELSE IF count = n THEN Reading(Unchanged(tree), {tree})
          ELSE IF count = 0 THEN Reading(ListBuilt(<<>>, p), {tree})
          ELSE IF ~low.ok THEN Refused
          ELSE Reading(cut, low.reads \cup {tree})
  <2> HIDE DEF n, store
  <2> QED BY <1>1 DEF Truncate
<1>4. CASE count > n
  <2>1. r.ok = FALSE
    BY <1>3, <1>4 DEF Refused
  <2> HIDE DEF r
  <2> QED BY <1>2, <1>4, <2>1
<1>5. CASE count = n
  <2>1. r.ok = TRUE /\ r.node = tree
    BY <1>2, <1>3, <1>5 DEF Unchanged, Reading
  <2>2. kept = items
    BY <1>2, <1>5
  <2>3. Orderly(r, {tree}, Width)
    <3>1. Orderly(Reading(Unchanged(tree), {tree}), {tree}, Width)
      BY KeptOrderly
    <3>2. r = Reading(Unchanged(tree), {tree})
      BY <1>2, <1>3, <1>5
    <3> QED BY <3>1, <3>2
  <2> HIDE DEF r, kept
  <2> QED BY <1>2, <1>5, <2>1, <2>2, <2>3
<1>6. CASE count < n /\ count = 0
  <2> DEFINE built == ListBuilt(<<>>, p)
  <2>1. r = Reading(built, {tree}) /\ r.ok = built.ok /\ r.node = built.node
    BY <1>2, <1>3, <1>6 DEF Reading
  <2>2. kept = <<>> /\ <<>> \in Seq(Targets \ {Undef}) /\ Len(<<>>) = 0
    BY <1>2, <1>6
  <2>3. r.node = BuildList(<<>>, p)
    BY <2>1 DEF BuildList
  <2>4. r.ok = TRUE
    <3>1. RootPosition(0) \in Positions
      BY <1>2, <1>6, RootIs DEF Fits
    <3>2. built = Built(<<>>, Meta(0, p), RootPosition(0), 1)
      BY <2>2 DEF ListBuilt
    <3> QED BY <2>1, <3>1, <3>2, BuiltAccepts
  <2>5. Orderly(r, {tree}, Width)
    <3>1. built = Built(<<>>, Meta(0, p), RootPosition(0), 1)
      BY <2>2 DEF ListBuilt
    <3>2. Fits(RootPosition(0)) /\ RootPosition(0).height \in 0..Width
      BY <1>2, <1>6, RootIs DEF Fits, Positions
    <3>3. Meta(0, p).kind # "child" /\ 1 \in Nat
      BY MetaIsNoChild
    <3>4. Orderly(Built(<<>>, Meta(0, p), RootPosition(0), 1), {tree}, RootPosition(0).height)
      BY <3>2, <3>3, BuiltOrderly
    <3>5. {tree} \subseteq KnownFrom({tree}, {tree})
      BY DEF KnownFrom
    <3> HIDE DEF built, r
    <3>6. Orderly(Reading(built, {tree}), {tree}, Width)
      BY <3>1, <3>2, <3>4, <3>5, ReadingOrderly
    <3> QED BY <2>1, <3>6
  <2> HIDE DEF r, kept
  <2> QED BY <1>2, <1>6, <2>2, <2>3, <2>4, <2>5 DEF IsList
<1>7. CASE count < n /\ count # 0
  <2>1. kept \in Seq(Targets \ {Undef}) /\ Len(kept) = count /\ \A i \in 1..count : kept[i] = items[i]
    BY <1>2, <1>7
  <2>2. n \in 1..MaxUint
    BY <1>1, <1>2, <1>7
  <2>3. Fits(next) /\ next.count = count /\ next.root = TRUE /\ next.height \in 0..Width
    BY RootIs DEF Fits, Positions
  <2>4. next.height <= top.height
    <3>1. Roomy(n, top.height)
      <4>1. top.height >= top.height
        BY <1>1, ListAssumption
      <4> QED BY <1>1, <4>1, RootIs
    <3>2. Roomy(count, top.height)
      <4> DEFINE x == (Slots - 1) * Span(top.height)
      <4>1. x \in Int
        BY <1>1, Spans
      <4>2. n - 1 < x
        <5>1. n # 0
          BY <2>2
        <5> QED BY <3>1, <5>1 DEF Roomy
      <4> HIDE DEF x, n
      <4>3. count - 1 < x
        BY <1>2, <1>7, <4>1, <4>2
      <4> QED BY <4>3 DEF Roomy, x
    <3>3. top.height >= next.height
      BY <1>1, <2>3, <3>2, RootIs
    <3> QED BY <1>1, <2>3, <3>3, ListAssumption
  <2>5. LowIs(low, items, meta0, top, next.height, store)
    <3>1. next.height \in 0..top.height
      BY <1>1, <2>3, <2>4, ListAssumption
    <3> HIDE DEF store, meta0
    <3>2. /\ tree[0].count \in 1..MaxUint /\ RootPosition(tree[0].count) = top
          /\ tree = Tree(items, meta0, RootPosition(tree[0].count), 1)
          /\ Whole(tree, RootPosition(tree[0].count).height, store)
      BY <1>1, <2>2
    <3> HIDE DEF next
    <3>3. \A h \in 0..RootPosition(tree[0].count).height :
              LowIs(Descend(store, tree, h), items, meta0, RootPosition(tree[0].count), h, store)
      BY <3>2, DescendsTo
    <3> QED BY <3>1, <3>2, <3>3
  <2> HIDE DEF low, store, meta, meta0, r, kept
  <2>6. /\ low.ok = TRUE /\ Fits(low.pos) /\ low.pos.height = next.height
        /\ low.node = Tree(items, meta0, low.pos, 1) /\ Whole(low.node, next.height, store)
        /\ {low.node} \cup low.reads \subseteq KnownFrom({Tree(items, meta0, top, 1)}, low.reads)
        /\ IF next.height = top.height THEN low.pos = top
           ELSE low.pos.root = FALSE
                /\ low.pos.count = IF top.count <= Span(next.height + 1) THEN top.count
                                   ELSE Span(next.height + 1)
    BY <2>5 DEF LowIs
  <2>7. Cut(low.pos, next, 1)
    <3>1. next.count <= low.pos.count
      <4>1. CASE next.height = top.height
        BY <1>1, <1>2, <1>7, <2>3, <2>6, <4>1
      <4>2. CASE next.height # top.height
        <5>1. next.height < Width /\ next.height + 1 \in 0..Width
          BY <1>1, <2>3, <2>4, <4>2, ListAssumption
        <5>2. count <= Span(next.height + 1)
          BY <2>3, <5>1, SpansGrow
        <5> HIDE DEF next, top, n
        <5> QED BY <1>1, <1>2, <1>7, <2>3, <2>6, <4>2, <5>2
      <4> QED BY <4>1, <4>2
    <3>2. low.pos = next => ~low.pos.root
      <4>1. CASE next.height = top.height
        <5>1. low.pos.count = n /\ next.count = count /\ count # n
          BY <1>1, <1>2, <1>7, <2>3, <2>6, <4>1
        <5> HIDE DEF next
        <5> QED BY <5>1
      <4>2. CASE next.height # top.height
        BY <2>6, <4>2
      <4> QED BY <4>1, <4>2
    <3> HIDE DEF next
    <3> QED BY <2>3, <2>6, <3>1, <3>2 DEF Cut
  <2>8. Yields(cut, Tree(items, meta, next, 1), {low.node}, next.height)
    <3>1. AllCut(store, items, meta0, meta, next.height)
      <4>1. meta.kind # "child"
        BY MetaIsNoChild DEF meta
      <4> QED BY <2>3, <4>1, TreeCuts
    <3> HIDE DEF next
    <3>2. CutsTo(store, items, meta0, meta, low.pos, next, 1)
      BY <2>6, <2>7, <3>1 DEF AllCut
    <3> QED BY <2>6, <3>2 DEF CutsTo
  <2>9. Tree(items, meta, next, 1) = Tree(kept, meta, next, 1)
    <3>1. \A x \in 0..(next.count - 1) : items[1 + x] = kept[1 + x]
      <4> SUFFICES ASSUME NEW x \in 0..(count - 1) PROVE items[1 + x] = kept[1 + x]
        BY <2>3
      <4>1. 1 + x \in 1..count
        BY <1>2
      <4> QED BY <2>1, <4>1
    <3>2. next \in Positions /\ 1 \in Nat
      BY <2>3 DEF Fits
    <3> HIDE DEF next
    <3> QED BY <3>1, <3>2, TreeSame
  <2>10. BuildList(kept, p) = Tree(kept, meta, next, 1)
    BY <2>1 DEF BuildList, ListBuilt, Tree, meta
  <2> HIDE DEF cut, next
  <2>11. r.ok = cut.ok /\ r.node = cut.node
    <3>1. r = Reading(cut, low.reads \cup {tree})
      BY <1>2, <1>3, <1>7, <2>6
    <3> QED BY <3>1 DEF Reading
  <2>12. r.ok = TRUE /\ r.node = BuildList(kept, p)
    BY <2>8, <2>9, <2>10, <2>11 DEF Makes, Yields
  <2>14. Orderly(r, {tree}, Width)
    <3>1. r = Reading(cut, low.reads \cup {tree})
      BY <1>2, <1>3, <1>7, <2>6
    <3>2. /\ {low.node} \subseteq KnownFrom({tree}, low.reads \cup {tree})
          /\ low.reads \cup {tree} \subseteq KnownFrom({tree}, low.reads \cup {tree})
      <4>1. {low.node} \cup low.reads \subseteq KnownFrom({tree}, low.reads)
        BY <1>1, <2>6 DEF meta0
      <4> HIDE DEF n, top
      <4> QED BY <4>1 DEF KnownFrom
    <3>3. Orderly(Reading(cut, low.reads \cup {tree}), {tree}, Width)
      BY <2>3, <2>8, <3>2, ReadingOrderly DEF Yields
    <3> QED BY <3>1, <3>3
  <2>13. IsList(r.node, kept, p)
    <3>1. count <= MaxUint
      OBVIOUS
    <3> QED BY <2>1, <2>12, <3>1 DEF IsList
  <2> QED BY <1>2, <1>7, <2>12, <2>13, <2>14
<1> QED BY <1>2, <1>4, <1>5, <1>6, <1>7

\* What Apply asks of a set of replacements, and the items it leaves.
Exchangeable(items, changes) ==
    /\ \A c, d \in changes : c.index = d.index => c = d
    /\ \A c \in changes :
           /\ c.after # Undef /\ c.index < Len(items)
           /\ items[c.index + 1] = c.before

ItemsExchanged(items, changes) ==
    [i \in DOMAIN items |->
        IF \E c \in changes : c.index + 1 = i
        THEN (CHOOSE c \in changes : c.index + 1 = i).after ELSE items[i]]

\* The same for all numbers, which is what the lemma about trees is told.
EveryExchanged(items, changes) ==
    [i \in Nat |->
        IF \E c \in changes : c.index + 1 = i
        THEN (CHOOSE c \in changes : c.index + 1 = i).after ELSE items[i]]

\* The changed items are a sequence as long as the old one, with the new targets in place.
LEMMA ExchangeIs ==
    ASSUME NEW items \in Seq(Targets \ {Undef}), NEW changes,
           \A c \in changes : c.index \in Nat /\ c.after \in Targets \cup {Undef},
           \A c, d \in changes : c.index = d.index => c = d,
           \A c \in changes : c.after # Undef /\ c.index < Len(items)
    PROVE  LET new == ItemsExchanged(items, changes)
               every == EveryExchanged(items, changes)
           IN  /\ new \in Seq(Targets \ {Undef}) /\ Len(new) = Len(items)
               /\ Exchanged(items, every, changes)
               /\ \A i \in 1..Len(items) : new[i] = every[i]
<1> DEFINE new == ItemsExchanged(items, changes)
           every == EveryExchanged(items, changes)
           n == Len(items)
<1>1. n \in Nat /\ DOMAIN items = 1..n /\ \A i \in 1..n : items[i] \in Targets \ {Undef}
  OBVIOUS
<1>2. \A i \in Nat : every[i] = IF \E c \in changes : c.index + 1 = i
                                THEN (CHOOSE c \in changes : c.index + 1 = i).after ELSE items[i]
  BY DEF EveryExchanged
<1>3. /\ DOMAIN new = 1..n /\ new = [i \in 1..n |-> new[i]]
      /\ \A i \in 1..n : new[i] = IF \E c \in changes : c.index + 1 = i
                                  THEN (CHOOSE c \in changes : c.index + 1 = i).after ELSE items[i]
  BY <1>1 DEF ItemsExchanged
<1> HIDE DEF new, every, n
<1>4. \A i \in 1..n : new[i] = every[i]
  <2> TAKE i \in 1..n
  <2>1. i \in Nat
    BY <1>1
  <2> QED BY <1>2, <1>3, <2>1
<1>5. \A c \in changes : every[c.index + 1] = c.after
  <2> TAKE c \in changes
  <2> DEFINE i == c.index + 1
             d == CHOOSE x \in changes : x.index + 1 = i
  <2>1. c.index \in Nat /\ i \in Nat
    OBVIOUS
  <2>2. d \in changes /\ d.index + 1 = i
    OBVIOUS
  <2>3. every[i] = d.after
    BY <1>2, <2>1
  <2>4. d.index \in Nat
    BY <2>2
  <2> HIDE DEF d
  <2>5. d.index = c.index
    BY <2>1, <2>2, <2>4
  <2>6. d = c
    BY <2>2, <2>5
  <2> QED BY <2>3, <2>6
<1>6. \A i \in Nat : (\A c \in changes : c.index + 1 # i) => every[i] = items[i]
  BY <1>2
<1>7. \A i \in 1..n : new[i] \in Targets \ {Undef}
  <2> TAKE i \in 1..n
  <2>1. CASE \E c \in changes : c.index + 1 = i
    <3>1. PICK c \in changes : c.index + 1 = i
      BY <2>1
    <3>2. new[i] = c.after
      BY <1>4, <1>5, <3>1
    <3>3. c.after \in Targets \ {Undef}
      OBVIOUS
    <3> QED BY <3>2, <3>3
  <2>2. CASE ~ \E c \in changes : c.index + 1 = i
    <3>1. new[i] = items[i]
      BY <1>3, <2>2
    <3> QED BY <1>1, <3>1
  <2> QED BY <2>1, <2>2
<1>8. new \in Seq(Targets \ {Undef}) /\ Len(new) = n
  BY <1>1, <1>3, <1>7
<1>9. Exchanged(items, every, changes)
  BY <1>5, <1>6 DEF Exchanged
<1> QED BY <1>4, <1>8, <1>9 DEF new, every, n

\* Replacements are made if each names the target at its index, no index twice, and no
\* absent target, whatever the tree; and each leaves its own target there (Apply).
LEMMA ReplaceIs ==
    ASSUME NEW tree, NEW items, NEW p, IsList(tree, items, p), NEW changes,
           \A c \in changes : c.index \in Nat /\ c.after \in Targets \cup {Undef}
    PROVE  LET r == ApplyList(ListNodes(tree), tree, changes) IN
           /\ r.ok <=> Exchangeable(items, changes)
           /\ r.ok => IsList(r.node, ItemsExchanged(items, changes), p)
           /\ r.ok => Orderly(r, {tree}, Width)
<1> DEFINE n == Len(items)
           new == ItemsExchanged(items, changes)
           every == EveryExchanged(items, changes)
           top == RootPosition(n)
           meta == Meta(n, p)
           store == ListNodes(tree)
           replaced == Replaces(store, changes)[top.height][tree][top][0][changes]
           r == ApplyList(store, tree, changes)
           Twice == \E c, d \in changes : c # d /\ c.index = d.index
           Absent == \E c \in changes : c.before = Undef \/ c.after = Undef
           Beyond == \E c \in changes : c.index >= n
<1> SUFFICES /\ r.ok <=> Exchangeable(items, changes)
             /\ r.ok => IsList(r.node, new, p)
             /\ r.ok => Orderly(r, {tree}, Width)
  OBVIOUS
<1>1. /\ n \in 0..MaxUint /\ Fits(top) /\ top.count = n /\ top.root = TRUE /\ top.height \in 0..Width
      /\ tree = Tree(items, meta, top, 1)
      /\ tree[0].count = n /\ tree[0].payload = p
      /\ Whole(tree, top.height, store) /\ tree \in store
  <2>1. ListFacts(tree, items, p)
    BY ListIs
  <2> QED BY <2>1 DEF ListFacts
<1>2. /\ items \in Seq(Targets \ {Undef}) /\ MaxUint \in Nat /\ n \in Nat /\ n <= MaxUint
      /\ tree = BuildList(items, p)
  BY Spans DEF IsList
<1>3. r = IF Twice \/ Absent THEN Refused
          ELSE IF changes = {} THEN Unchanged(tree)
          ELSE IF Beyond THEN Refused ELSE replaced
  <2> HIDE DEF n, store
  <2> QED BY <1>1 DEF ApplyList
<1> HIDE DEF r, new, store, replaced, n
<1>4. CASE Twice
  <2>1. r.ok = FALSE
    BY <1>3, <1>4 DEF Refused
  <2>2. ~Exchangeable(items, changes)
    BY <1>4 DEF Exchangeable
  <2> QED BY <2>1, <2>2
<1>5. CASE Absent
  <2>1. r.ok = FALSE
    BY <1>3, <1>5 DEF Refused
  <2>2. ASSUME Exchangeable(items, changes) PROVE FALSE
    <3>1. PICK c \in changes : c.before = Undef \/ c.after = Undef
      BY <1>5
    <3>2. c.after # Undef /\ c.index < n /\ items[c.index + 1] = c.before /\ c.index \in Nat
      BY <2>2 DEF Exchangeable, n
    <3>3. c.index + 1 \in 1..n
      BY <1>2, <3>2
    <3>4. items[c.index + 1] # Undef
      BY <1>2, <3>3 DEF n
    <3> QED BY <3>1, <3>2, <3>4
  <2> QED BY <2>1, <2>2
<1>6. CASE ~Twice /\ ~Absent /\ changes = {}
  <2>1. r.ok = TRUE /\ r.node = tree
    BY <1>3, <1>6 DEF Unchanged
  <2>2. Exchangeable(items, changes)
    BY <1>6 DEF Exchangeable
  <2>3. new = items
    BY <1>2, <1>6 DEF new, ItemsExchanged
  <2>4. Orderly(r, {tree}, Width)
    <3>1. Orderly(Unchanged(tree), {tree}, Width)
      BY UnchangedOrderly
    <3> QED BY <1>3, <1>6, <3>1
  <2> QED BY <2>1, <2>2, <2>3, <2>4
<1>7. CASE ~Twice /\ ~Absent /\ changes # {} /\ Beyond
  <2>1. r.ok = FALSE
    BY <1>3, <1>7 DEF Refused
  <2>2. ~Exchangeable(items, changes)
    <3>1. PICK c \in changes : c.index >= n
      BY <1>7
    <3>2. ~(c.index < n)
      BY <1>2, <3>1
    <3> QED BY <3>2 DEF Exchangeable, n
  <2> QED BY <2>1, <2>2
<1>8. CASE ~Twice /\ ~Absent /\ changes # {} /\ ~Beyond
  <2>1. r = replaced
    BY <1>3, <1>8
  <2>2. /\ \A c, d \in changes : c.index = d.index => c = d
        /\ \A c \in changes : c.after # Undef /\ c.index < n /\ c.index \in Nat
    BY <1>2, <1>8
  <2>3. /\ new \in Seq(Targets \ {Undef}) /\ Len(new) = n
        /\ Exchanged(items, every, changes)
        /\ \A i \in 1..n : new[i] = every[i]
    BY <1>2, <2>2, ExchangeIs DEF n, new
  <2> HIDE DEF every
  <2>4. Affecting(changes, top, 1) = changes
    <3>1. \A c \in changes : 1 - 1 <= c.index /\ c.index < 1 - 1 + top.count
      <4> TAKE c \in changes
      <4>1. c.index \in Nat /\ c.index < n /\ top.count = n
        BY <1>1, <2>2
      <4> HIDE DEF top
      <4> QED BY <1>2, <4>1
    <3> QED BY <3>1 DEF Affecting
  <2>5. Indexed(changes, top, 1)
    <3>1. 1 - 1 + top.count <= MaxUint
      <4>1. top.count = n
        BY <1>1
      <4> HIDE DEF top
      <4> QED BY <1>2, <4>1
    <3> HIDE DEF top
    <3> QED BY <1>1, <2>2, <3>1 DEF Indexed
  <2>6. Exchangeable(items, changes) <=> Present(items, changes)
    BY <2>2 DEF Exchangeable, Present, n
  <2>7. IF Present(items, changes) THEN Yields(replaced, Tree(every, meta, top, 1), {tree}, top.height)
        ELSE replaced.ok = FALSE
    <3>1. AllReplace(store, items, every, meta, changes, top.height)
      <4>1. meta.kind # "child"
        BY MetaIsNoChild
      <4> HIDE DEF meta, top
      <4> QED BY <1>1, <2>3, <4>1, TreeReplaces
    <3> HIDE DEF meta, top
    <3>2. ReplacesTo(store, items, every, meta, changes, top, 1)
      <4>1. Whole(Tree(items, meta, top, 1), top.height, store)
        BY <1>1
      <4> QED BY <2>5, <3>1, <4>1 DEF AllReplace
    <3>3. 1 - 1 = 0
      OBVIOUS
    <3>4. replaced = Replaces(store, changes)[top.height][Tree(items, meta, top, 1)][top][1 - 1]
                         [Affecting(changes, top, 1)]
      BY <1>1, <2>4, <3>3 DEF replaced, top
    <3> QED BY <1>1, <2>4, <3>2, <3>4 DEF ReplacesTo
  <2>8. Tree(every, meta, top, 1) = Tree(new, meta, top, 1)
    <3>1. \A x \in 0..(top.count - 1) : every[1 + x] = new[1 + x]
      <4> SUFFICES ASSUME NEW x \in 0..(n - 1) PROVE every[1 + x] = new[1 + x]
        BY <1>1
      <4>1. 1 + x \in 1..n
        BY <1>2
      <4> QED BY <2>3, <4>1
    <3>2. top \in Positions /\ 1 \in Nat
      BY <1>1 DEF Fits
    <3> HIDE DEF top, meta
    <3> QED BY <3>1, <3>2, TreeSame
  <2>9. BuildList(new, p) = Tree(new, meta, top, 1)
    BY <2>3 DEF BuildList, ListBuilt, Tree, n
  <2> HIDE DEF meta, top
  <2>10. r.ok <=> Present(items, changes)
    BY <2>1, <2>7 DEF Makes, Yields
  <2>12. ASSUME r.ok PROVE Orderly(r, {tree}, Width)
    <3>1. Orderly(replaced, {tree}, top.height)
      BY <2>7, <2>10, <2>12 DEF Yields
    <3>2. Orderly(replaced, {tree}, Width)
      BY <1>1, <3>1, OrderlyDeep
    <3> QED BY <2>1, <3>2
  <2>11. ASSUME r.ok PROVE IsList(r.node, new, p)
    <3>1. r.node = BuildList(new, p)
      BY <2>1, <2>7, <2>8, <2>9, <2>10, <2>11 DEF Makes, Yields
    <3> QED BY <1>2, <2>3, <3>1 DEF IsList
  <2> QED BY <2>6, <2>10, <2>11, <2>12
<1> QED BY <1>4, <1>5, <1>6, <1>7, <1>8

\* The payload can always be set and is the only thing that changes (SetPayload).
LEMMA PayloadIs ==
    ASSUME NEW tree, NEW items, NEW p, IsList(tree, items, p), NEW q
    PROVE  LET r == SetPayload(ListNodes(tree), tree, q) IN
           r.ok = TRUE /\ IsList(r.node, items, q) /\ Orderly(r, {tree}, Width)
<1> DEFINE n == Len(items)
           top == RootPosition(n)
           store == ListNodes(tree)
           new == [tree EXCEPT ![0] = Meta(@.count, q)]
           r == SetPayload(store, tree, q)
<1> SUFFICES r.ok = TRUE /\ IsList(r.node, items, q) /\ Orderly(r, {tree}, Width)
  OBVIOUS
<1>1. /\ n \in 0..MaxUint /\ Fits(top) /\ top.count = n /\ top.root = TRUE /\ top.height \in 0..Width
      /\ Base(top) = 1
      /\ tree = Tree(items, Meta(n, p), top, 1)
      /\ tree[0].count = n /\ tree[0].payload = p /\ Sequence(store, tree)
  <2>1. ListFacts(tree, items, p)
    BY ListIs
  <2> QED BY <2>1 DEF ListFacts
<1>2. items \in Seq(Targets \ {Undef}) /\ n <= MaxUint /\ tree = BuildList(items, p)
  BY DEF IsList
<1>3. r = IF p = q THEN Reading(Unchanged(tree), {tree}) ELSE Written(new, <<>>, {tree})
  <2> HIDE DEF store, new
  <2> QED BY <1>1 DEF SetPayload, new
<1> HIDE DEF r, store
<1>4. CASE p = q
  <2>1. r.ok = TRUE /\ r.node = tree
    BY <1>3, <1>4 DEF Unchanged, Reading
  <2>2. Orderly(r, {tree}, Width)
    BY <1>3, <1>4, KeptOrderly
  <2> QED BY <1>4, <2>1, <2>2
<1>5. CASE p # q
  <2>1. r.ok = TRUE /\ r.node = new
    BY <1>3, <1>5 DEF Written
  <2> DEFINE before == TreeBelow(items, Meta(n, p), top, 1)
             after == TreeBelow(items, Meta(n, q), top, 1)
  <2>2. top \in Positions
    BY <1>1 DEF Fits
  <2>3. tree = Cells(Meta(n, p), top, before)
    BY <1>1, <2>2, TreeIs
  <2>4. Tree(items, Meta(n, q), top, 1) = Cells(Meta(n, q), top, after)
    BY <2>2, TreeIs
  <2>5. \A d \in Digits(top) : before[d] = after[d]
    <3> TAKE d \in Digits(top)
    <3>1. CASE top.height = 0
      BY <3>1 DEF TreeBelow
    <3>2. CASE top.height # 0
      <4> DEFINE child == ChildPosition(top, d)
                 f == 1 + Start(top, d)
      <4>1. d \in Nat
        BY <2>2, DigitsAre
      <4>2. child \in Positions /\ child.root = FALSE /\ Start(top, d) \in 0..MaxUint
        BY <2>2, <3>2, <4>1, ChildIs
      <4>3. f \in Nat
        <5>1. Start(top, d) \in Nat
          BY <4>2, Spans
        <5> QED BY <5>1
      <4>4. before[d] = ChildCell(Tree(items, Meta(n, p), child, f))
            /\ after[d] = ChildCell(Tree(items, Meta(n, q), child, f))
        BY <3>2 DEF TreeBelow
      <4> HIDE DEF child, f, before, after, n
      <4>5. Tree(items, Meta(n, p), child, f) = Tree(items, Meta(n, q), child, f)
        BY <4>2, <4>3, TreeSame
      <4> QED BY <4>4, <4>5
    <3> QED BY <3>1, <3>2
  <2> HIDE DEF before, after, n, top
  <2>6. new = Cells(Meta(n, q), top, after)
    <3>1. 0 \in Slot /\ Slot \subseteq Nat
      BY Spans DEF Slot
    <3>2. \A slot \in Slot :
              tree[slot] = IF slot < 1 THEN Meta(n, p)
                           ELSE IF slot - 1 \in Digits(top) THEN before[slot - 1] ELSE Empty
      BY <1>1, <2>3 DEF Cells
    <3>3. DOMAIN tree = Slot
      BY <2>3 DEF Cells
    <3>4. new = [slot \in Slot |-> IF slot = 0 THEN Meta(n, q) ELSE tree[slot]]
      BY <1>1, <3>1, <3>3
    <3>5. \A slot \in Slot :
              (IF slot = 0 THEN Meta(n, q) ELSE tree[slot]) =
                  IF slot < 1 THEN Meta(n, q)
                  ELSE IF slot - 1 \in Digits(top) THEN after[slot - 1] ELSE Empty
      <4> TAKE slot \in Slot
      <4>1. slot \in Nat /\ (slot < 1 <=> slot = 0)
        BY <3>1
      <4> QED BY <2>5, <3>2, <4>1
    <3> HIDE DEF new
    <3> QED BY <1>1, <3>4, <3>5 DEF Cells
  <2>7. BuildList(items, q) = Tree(items, Meta(n, q), top, 1)
    BY DEF BuildList, ListBuilt, Tree, n, top
  <2>9. ChildNodes(new) \subseteq ChildNodes(tree)
    <3>1. 0 \in Slot /\ DOMAIN tree = Slot
      BY <2>3, Spans DEF Slot, Cells
    <3>2. \A slot \in Slot : new[slot] = IF slot = 0 THEN Meta(n, q) ELSE tree[slot]
      BY <1>1, <3>1
    <3>3. Meta(n, q).kind # "child"
      BY MetaIsNoChild
    <3> HIDE DEF new
    <3> QED BY <3>2, <3>3 DEF ChildNodes
  <2> HIDE DEF new
  <2>8. r.node = BuildList(items, q)
    BY <2>1, <2>4, <2>6, <2>7
  <2>10. Orderly(r, {tree}, Width)
    <3>1. ChildNodes(new) \subseteq KnownFrom({tree}, {tree}) /\ Width \in 0..Width
      BY <2>9, ListAssumption DEF KnownFrom
    <3>2. Orderly(Written(new, <<>>, {tree}), {tree}, Width)
      BY <3>1, WrittenOrderly
    <3> QED BY <1>3, <1>5, <3>2
  <2> QED BY <1>2, <2>1, <2>8, <2>10 DEF IsList, n
<1> QED BY <1>4, <1>5

-----------------------------------------------------------------------------
(* The way to an index.                                                     *)

WayAt(above, top, index, depth) == IF depth = 0 THEN [pos |-> top, index |-> index] ELSE Deeper(above)

WayUpTo(f, top, index, k) == f = [depth \in 0..k |-> WayAt(f[depth - 1], top, index, depth)]

\* The positions on the way to an index follow from those above them (prove).
LEMMA WayUnfold ==
    ASSUME NEW count \in 0..MaxUint, NEW index
    PROVE  \A d \in 0..RootPosition(count).height :
               Way(count, index)[d] = WayAt(Way(count, index)[d - 1], RootPosition(count), index, d)
<1> DEFINE At(x, h) == WayAt(x, RootPosition(count), index, h)
           n == RootPosition(count).height
           UpTo(f, k) == WayUpTo(f, RootPosition(count), index, k)
           K == {k \in 0..n : \E f : UpTo(f, k)}
           F == Way(count, index)
<1>1. n \in Nat
  <2>1. RootPosition(count) \in Positions
    BY RootIs DEF Fits
  <2> QED BY <2>1, ListAssumption DEF Positions
<1>2. \A x, y : At(x, 0) = At(y, 0)
  BY DEF WayAt
<1>3. \A f, k : UpTo(f, k) <=> f = [h \in 0..k |-> At(f[h - 1], h)]
  BY DEF WayUpTo
<1>4. F = CHOOSE f : UpTo(f, n)
  BY DEF Way, WayUpTo, WayAt
<1> HIDE DEF At, UpTo, n, F
<1>5. 0 \in K
  <2> DEFINE f == [h \in 0..0 |-> At(h, 0)]
  <2>1. f = [h \in 0..0 |-> At(f[h - 1], h)]
    <3>1. \A h \in 0..0 : h = 0
      OBVIOUS
    <3>2. \A h \in 0..0 : At(h, 0) = At(f[h - 1], h)
      BY <1>2, <3>1
    <3> QED BY <3>2
  <2>2. UpTo(f, 0)
    <3> HIDE DEF f
    <3> QED BY <1>3, <2>1
  <2>3. 0 \in 0..n
    BY <1>1
  <2> QED BY <2>2, <2>3
<1>6. \A k \in 0..(n - 1) : k \in K => k + 1 \in K
  <2> SUFFICES ASSUME NEW k \in 0..(n - 1), k \in K PROVE k + 1 \in K
    OBVIOUS
  <2>1. PICK f : UpTo(f, k)
    OBVIOUS
  <2>2. f = [h \in 0..k |-> At(f[h - 1], h)]
    BY <1>3, <2>1
  <2> DEFINE g == [h \in 0..(k + 1) |-> IF h <= k THEN f[h] ELSE At(f[k], h)]
  <2>3. \A h \in 0..(k + 1) : g[h] = At(g[h - 1], h)
    <3> TAKE h \in 0..(k + 1)
    <3>1. CASE h = 0
      <4>1. g[h] = f[h] /\ f[h] = At(f[h - 1], h)
        BY <1>1, <2>2, <3>1
      <4> QED BY <1>2, <3>1, <4>1
    <3>2. CASE h \in 1..k
      <4>1. h \in 0..k /\ h - 1 \in 0..k /\ h - 1 \in 0..(k + 1) /\ h - 1 <= k /\ h <= k
        BY <3>2
      <4>2. g[h] = f[h] /\ g[h - 1] = f[h - 1] /\ f[h] = At(f[h - 1], h)
        BY <2>2, <4>1
      <4> QED BY <4>2
    <3>3. CASE h = k + 1
      <4>1. ~(h <= k) /\ h - 1 = k /\ k <= k /\ k \in 0..(k + 1)
        BY <1>1, <3>3
      <4>2. g[h] = At(f[k], h) /\ g[k] = f[k]
        BY <4>1
      <4> QED BY <4>1, <4>2
    <3> QED BY <1>1, <3>1, <3>2, <3>3
  <2>4. g = [h \in 0..(k + 1) |-> At(g[h - 1], h)]
    <3> HIDE DEF g
    <3>1. g = [h \in 0..(k + 1) |-> g[h]]
      BY DEF g
    <3> QED BY <2>3, <3>1
  <2>5. UpTo(g, k + 1)
    BY <1>3, <2>4
  <2> QED BY <1>1, <2>5
<1>7. n \in K
  <2>1. n \in 0..n
    BY <1>1
  <2> HIDE DEF K
  <2> QED BY <1>1, <1>5, <1>6, <2>1, Upwards
<1>8. UpTo(F, n)
  BY <1>4, <1>7
<1>9. F = [h \in 0..n |-> At(F[h - 1], h)]
  BY <1>3, <1>8
<1>10. \A h \in 0..n : F[h] = At(F[h - 1], h)
  BY <1>9
<1> QED BY <1>10 DEF At, F, n

\* The cells that a proof opens.
CellOnWay(above, store, tree, way, depth) ==
    OpenChild(store, IF depth = 0 THEN ChildCell(tree) ELSE above, way[depth])

CellsUpTo(f, store, tree, way, k) ==
    f = [depth \in 0..k |-> CellOnWay(f[depth - 1], store, tree, way, depth)]

CellsOf(store, tree, way, last) == CHOOSE f : CellsUpTo(f, store, tree, way, last)

\* The cell that is opened at each node follows from the one above (prove).
LEMMA CellsUnfold ==
    ASSUME NEW store, NEW tree, NEW way, NEW n \in Nat
    PROVE  /\ CellsOf(store, tree, way, n) = [d \in 0..n |-> CellsOf(store, tree, way, n)[d]]
           /\ \A d \in 0..n :
                  CellsOf(store, tree, way, n)[d] =
                      CellOnWay(CellsOf(store, tree, way, n)[d - 1], store, tree, way, d)
<1> DEFINE At(x, h) == CellOnWay(x, store, tree, way, h)
           UpTo(f, k) == CellsUpTo(f, store, tree, way, k)
           K == {k \in 0..n : \E f : UpTo(f, k)}
           F == CellsOf(store, tree, way, n)
<1>1. n \in Nat
  OBVIOUS
<1>2. \A x, y : At(x, 0) = At(y, 0)
  BY DEF CellOnWay
<1>3. \A f, k : UpTo(f, k) <=> f = [h \in 0..k |-> At(f[h - 1], h)]
  BY DEF CellsUpTo
<1>4. F = CHOOSE f : UpTo(f, n)
  BY DEF CellsOf
<1> HIDE DEF At, UpTo, F
<1>5. 0 \in K
  <2> DEFINE f == [h \in 0..0 |-> At(h, 0)]
  <2>1. f = [h \in 0..0 |-> At(f[h - 1], h)]
    <3>1. \A h \in 0..0 : h = 0
      OBVIOUS
    <3>2. \A h \in 0..0 : At(h, 0) = At(f[h - 1], h)
      BY <1>2, <3>1
    <3> QED BY <3>2
  <2>2. UpTo(f, 0)
    <3> HIDE DEF f
    <3> QED BY <1>3, <2>1
  <2>3. 0 \in 0..n
    BY <1>1
  <2> QED BY <2>2, <2>3
<1>6. \A k \in 0..(n - 1) : k \in K => k + 1 \in K
  <2> SUFFICES ASSUME NEW k \in 0..(n - 1), k \in K PROVE k + 1 \in K
    OBVIOUS
  <2>1. PICK f : UpTo(f, k)
    OBVIOUS
  <2>2. f = [h \in 0..k |-> At(f[h - 1], h)]
    BY <1>3, <2>1
  <2> DEFINE g == [h \in 0..(k + 1) |-> IF h <= k THEN f[h] ELSE At(f[k], h)]
  <2>3. \A h \in 0..(k + 1) : g[h] = At(g[h - 1], h)
    <3> TAKE h \in 0..(k + 1)
    <3>1. CASE h = 0
      <4>1. g[h] = f[h] /\ f[h] = At(f[h - 1], h)
        BY <1>1, <2>2, <3>1
      <4> QED BY <1>2, <3>1, <4>1
    <3>2. CASE h \in 1..k
      <4>1. h \in 0..k /\ h - 1 \in 0..k /\ h - 1 \in 0..(k + 1) /\ h - 1 <= k /\ h <= k
        BY <3>2
      <4>2. g[h] = f[h] /\ g[h - 1] = f[h - 1] /\ f[h] = At(f[h - 1], h)
        BY <2>2, <4>1
      <4> QED BY <4>2
    <3>3. CASE h = k + 1
      <4>1. ~(h <= k) /\ h - 1 = k /\ k <= k /\ k \in 0..(k + 1)
        BY <1>1, <3>3
      <4>2. g[h] = At(f[k], h) /\ g[k] = f[k]
        BY <4>1
      <4> QED BY <4>1, <4>2
    <3> QED BY <1>1, <3>1, <3>2, <3>3
  <2>4. g = [h \in 0..(k + 1) |-> At(g[h - 1], h)]
    <3> HIDE DEF g
    <3>1. g = [h \in 0..(k + 1) |-> g[h]]
      BY DEF g
    <3> QED BY <2>3, <3>1
  <2>5. UpTo(g, k + 1)
    BY <1>3, <2>4
  <2> QED BY <1>1, <2>5
<1>7. n \in K
  <2>1. n \in 0..n
    BY <1>1
  <2> HIDE DEF K
  <2> QED BY <1>1, <1>5, <1>6, <2>1, Upwards
<1>8. UpTo(F, n)
  BY <1>4, <1>7
<1>9. F = [h \in 0..n |-> At(F[h - 1], h)]
  BY <1>3, <1>8
<1>10. \A h \in 0..n : F[h] = At(F[h - 1], h)
  BY <1>9
<1>11. F = [h \in 0..n |-> F[h]]
  BY <1>9
<1> QED BY <1>10, <1>11 DEF At, F

\* An index below a position belongs to one digit, and below that digit's child (child).
LEMMA StepIs ==
    ASSUME NEW pos, Fits(pos), NEW k \in 0..(pos.count - 1)
    PROVE  \E d \in Digits(pos) :
               /\ SlotOf(pos, k) = Base(pos) + d /\ SlotOf(pos, k) - Base(pos) = d
               /\ Base(pos) + d \in Slot /\ d \in Nat
               /\ pos.height = 0 => d = k
               /\ pos.height # 0 => /\ Start(pos, d) \in Nat /\ Start(pos, d) <= k
                                    /\ Minus(k, Start(pos, d)) = k - Start(pos, d)
                                    /\ k - Start(pos, d) \in 0..(ChildPosition(pos, d).count - 1)
<1> DEFINE S == Span(pos.height)
           b == Base(pos)
           d == k \div S
           n == pos.count
           M == TwoTo[Width]
<1>1. /\ pos \in Positions /\ n \in Nat /\ S \in Nat \ {0} /\ b \in 0..1 /\ n <= MaxUint
      /\ MaxUint \in Nat /\ M = MaxUint + 1 /\ k \in Nat /\ k < n
      /\ Slots \in Nat /\ Used(pos) <= Slots - b /\ Used(pos) \in Nat /\ Digital(pos)
  BY DigitsAre, Spans DEF Fits, Positions
<1>2. SlotOf(pos, k) = b + d
  BY DEF SlotOf, Shr, Shift, Span
<1>3. d \in Nat
  <2> HIDE DEF S
  <2> QED BY <1>1
<1> DEFINE x == d * S
<1>4. x \in Nat /\ x <= k /\ k < x + S
  <2> HIDE DEF S, d, n, M, b
  <2>1. d <= k \div S <=> d * S <= k
    BY <1>1, <1>3, Quotients
  <2>2. d + 1 <= k \div S <=> (d + 1) * S <= k
    <3> DEFINE e == d + 1
    <3>1. e \in Nat
      BY <1>3
    <3> HIDE DEF e
    <3>2. e <= k \div S <=> e * S <= k
      BY <1>1, <3>1, Quotients
    <3> QED BY <3>2 DEF e
  <2>3. k \div S = d
    BY DEF d
  <2>4. x \in Nat /\ (d + 1) * S = x + S
    BY <1>1, <1>3
  <2>5. d <= d /\ ~(d + 1 <= d)
    BY <1>3
  <2>6. x <= k /\ ~(x + S <= k)
    BY <2>1, <2>2, <2>3, <2>4, <2>5
  <2> HIDE DEF x
  <2> QED BY <1>1, <2>4, <2>6
<1>5. d \in Digits(pos)
  <2> HIDE DEF S, d, n, M, b
  <2>1. d \in Int /\ d >= 0 /\ d * S < n
    <3>1. x < n
      <4> HIDE DEF x
      <4> QED BY <1>1, <1>4
    <3> QED BY <1>3, <3>1
  <2> QED BY <1>1, <2>1 DEF Digital, S, n
<1>6. b + d \in Slot /\ (b + d) - b = d
  <2>1. d \in 0..(Used(pos) - 1)
    BY <1>5 DEF Digits
  <2> HIDE DEF d, b
  <2> QED BY <1>1, <2>1 DEF Slot
<1>7. ASSUME pos.height = 0 PROVE d = k
  <2>1. S = 1
    BY <1>7, Spans
  <2> QED BY <1>1, <2>1
<1>8. ASSUME pos.height # 0
      PROVE  /\ Start(pos, d) = x
             /\ Minus(k, x) = k - x
             /\ k - x \in 0..(ChildPosition(pos, d).count - 1)
  <2> DEFINE w == ChildPosition(pos, d).count
  <2>1. Start(pos, d) = x /\ w = IF n - x <= S THEN n - x ELSE S
    <3> HIDE DEF d
    <3> QED BY <1>1, <1>3, <1>5, <1>8, ChildIs
  <2> HIDE DEF w, d, S, n, x
  <2>2. Minus(k, x) = (k - x) % M
    BY DEF Minus
  <2> HIDE DEF M
  <2>3. (k - x) % M = k - x
    <3> DEFINE y == k - x
    <3>1. y \in Nat /\ y < M /\ M \in Nat \ {0}
      BY <1>1, <1>4
    <3> HIDE DEF y
    <3>2. y % M = y
      BY <3>1
    <3> QED BY <3>2 DEF y
  <2>4. k - x \in 0..(w - 1)
    BY <1>1, <1>4, <2>1
  <2> QED BY <2>1, <2>2, <2>3, <2>4 DEF w
<1> HIDE DEF S, d, n, M, x
<1> QED BY <1>2, <1>3, <1>4, <1>5, <1>6, <1>7, <1>8 DEF b

\* A step on the way to an index: what is left of the index is one below the position.
OnWay(step, index) ==
    /\ Fits(step.pos)
    /\ step.index \in 0..(step.pos.count - 1) /\ step.index <= index

\* The tree a step has reached.
TreeOn(items, meta, step, index) == Tree(items, meta, step.pos, 1 + (index - step.index))

\* Each step finds in its tree the one of the next step, and the item in the last (prove).
LEMMA StepFinds ==
    ASSUME NEW items, NEW meta, NEW index \in Nat, NEW step, OnWay(step, index)
    PROVE  LET slot == SlotOf(step.pos, step.index) IN
           /\ slot \in Slot
           /\ step.pos.height = 0 =>
                  TreeOn(items, meta, step, index)[slot] = Item(items[index + 1])
           /\ step.pos.height # 0 =>
                  /\ OnWay(Deeper(step), index)
                  /\ Deeper(step).pos.height = step.pos.height - 1
                  /\ TreeOn(items, meta, step, index)[slot] =
                         ChildCell(TreeOn(items, meta, Deeper(step), index))
<1> DEFINE pos == step.pos
           k == step.index
           slot == SlotOf(pos, k)
           first == 1 + (index - k)
           node == Tree(items, meta, pos, first)
           next == Deeper(step)
<1>1. Fits(pos) /\ pos \in Positions /\ k \in 0..(pos.count - 1) /\ k <= index /\ pos.count \in Nat
  <2>1. Fits(pos) /\ pos \in Positions /\ k \in 0..(pos.count - 1) /\ k <= index
    BY DEF OnWay, Fits
  <2> QED BY <2>1, Spans DEF Positions
<1>2. TreeOn(items, meta, step, index) = node
  BY DEF TreeOn
<1>3. next = [pos |-> ChildPosition(pos, slot - Base(pos)), index |-> Minus(k, Start(pos, slot - Base(pos)))]
  BY DEF Deeper, ChildOf, Below
<1>4. TreeOn(items, meta, next, index) = Tree(items, meta, next.pos, 1 + (index - next.index))
  BY DEF TreeOn
<1> HIDE DEF pos, k, next
<1>5. first \in Nat
  BY <1>1
<1>6. PICK d \in Digits(pos) :
          /\ slot = Base(pos) + d /\ slot - Base(pos) = d
          /\ Base(pos) + d \in Slot /\ d \in Nat
          /\ pos.height = 0 => d = k
          /\ pos.height # 0 => /\ Start(pos, d) \in Nat /\ Start(pos, d) <= k
                               /\ Minus(k, Start(pos, d)) = k - Start(pos, d)
                               /\ k - Start(pos, d) \in 0..(ChildPosition(pos, d).count - 1)
  BY <1>1, StepIs
<1> DEFINE start == Start(pos, d)
           child == ChildPosition(pos, d)
<1> HIDE DEF slot, node, first
<1>7. node[slot] = IF pos.height = 0 THEN Item(items[first + d])
                   ELSE ChildCell(Tree(items, meta, child, first + start))
  BY <1>1, <1>5, <1>6, TreeShaped DEF node
<1>8. ASSUME pos.height = 0 PROVE node[slot] = Item(items[index + 1])
  <2>1. first + d = index + 1
    BY <1>1, <1>6, <1>8 DEF first
  <2> QED BY <1>7, <1>8, <2>1
<1>9. ASSUME pos.height # 0
      PROVE  /\ OnWay(next, index) /\ next.pos.height = pos.height - 1
             /\ node[slot] = ChildCell(TreeOn(items, meta, next, index))
  <2>1. next.pos = child /\ next.index = k - start /\ start \in Nat /\ start <= k
        /\ next.index \in 0..(child.count - 1)
    BY <1>3, <1>6, <1>9
  <2>2. Fits(child) /\ child.height = pos.height - 1
    BY <1>1, <1>6, <1>9, ChildFits, ChildIs
  <2> HIDE DEF child, start
  <2>3. next.index <= index /\ first + start = 1 + (index - next.index)
    BY <1>1, <2>1 DEF first
  <2>4. OnWay(next, index)
    BY <2>1, <2>2, <2>3 DEF OnWay
  <2>5. node[slot] = ChildCell(Tree(items, meta, next.pos, 1 + (index - next.index)))
    BY <1>7, <1>9, <2>1, <2>3 DEF child, start
  <2> QED BY <1>4, <2>1, <2>2, <2>4, <2>5
<1> QED BY <1>2, <1>6, <1>8, <1>9 DEF pos, k, slot, next

\* Every step on the way to an index of a List is one, and they go down one height each.
LEMMA WayIs ==
    ASSUME NEW count \in 0..MaxUint, NEW index \in 0..(count - 1)
    PROVE  \A d \in 0..RootPosition(count).height :
               /\ OnWay(Way(count, index)[d], index)
               /\ Way(count, index)[d].pos.height = RootPosition(count).height - d
<1> DEFINE top == RootPosition(count)
           way == Way(count, index)
           n == top.height
           S == {d \in 0..n : OnWay(way[d], index) /\ way[d].pos.height = n - d}
<1>1. Fits(top) /\ top.count = count /\ n \in Nat /\ count \in Nat
  <2>1. Fits(top) /\ top.count = count
    BY RootIs
  <2> QED BY <2>1, ListAssumption, Spans DEF Fits, Positions
<1>2. /\ way[0] = [pos |-> top, index |-> index]
      /\ \A d \in 1..n : way[d] = Deeper(way[d - 1])
  <2>1. \A d \in 0..n : way[d] = WayAt(way[d - 1], top, index, d)
    BY WayUnfold
  <2> HIDE DEF way, top, n
  <2>2. 0 \in 0..n /\ \A d \in 1..n : d \in 0..n /\ d # 0
    BY <1>1
  <2> QED BY <2>1, <2>2 DEF WayAt
<1> HIDE DEF way
<1>3. 0 \in S
  <2>1. way[0].pos = top /\ way[0].index = index
    BY <1>2
  <2> HIDE DEF top
  <2>2. index \in 0..(top.count - 1) /\ index <= index
    BY <1>1
  <2> QED BY <1>1, <2>1, <2>2 DEF OnWay
<1>4. \A d \in 0..(n - 1) : d \in S => d + 1 \in S
  <2> SUFFICES ASSUME NEW d \in 0..(n - 1), d \in S PROVE d + 1 \in S
    OBVIOUS
  <2> HIDE DEF n
  <2>1. d + 1 \in 1..n /\ (d + 1) - 1 = d /\ n - (d + 1) = (n - d) - 1 /\ n - d # 0 /\ d + 1 \in 0..n
    BY <1>1
  <2>2. way[d + 1] = Deeper(way[d])
    BY <1>2, <2>1
  <2>3. OnWay(way[d], index) /\ way[d].pos.height = n - d
    OBVIOUS
  <2>4. index \in Nat
    OBVIOUS
  <2>5. OnWay(Deeper(way[d]), index) /\ Deeper(way[d]).pos.height = way[d].pos.height - 1
    BY <2>1, <2>3, <2>4, StepFinds
  <2> QED BY <2>1, <2>2, <2>3, <2>5
<1>5. 0..n \subseteq S
  <2> HIDE DEF S, n
  <2> QED BY <1>1, <1>3, <1>4, Upwards
<1> QED BY <1>5 DEF way

\* What there is to open on the way to an index of a List.
CellOn(items, meta, count, index, d) ==
    TreeOn(items, meta, Way(count, index)[d], index)
        [SlotOf(Way(count, index)[d].pos, Way(count, index)[d].index)]

\* The way starts at the Root, each cell refers to the tree of the next step, and the
\* last is the item (prove, verify).
LEMMA CellsOnWay ==
    ASSUME NEW items, NEW meta, NEW count \in 0..MaxUint, NEW index \in 0..(count - 1)
    PROVE  LET way == Way(count, index)
               last == RootPosition(count).height
           IN  /\ last \in Nat
               /\ TreeOn(items, meta, way[0], index) = Tree(items, meta, RootPosition(count), 1)
               /\ \A d \in 0..last : SlotOf(way[d].pos, way[d].index) \in Slot
               /\ \A d \in 0..(last - 1) :
                      CellOn(items, meta, count, index, d) =
                          ChildCell(TreeOn(items, meta, way[d + 1], index))
               /\ CellOn(items, meta, count, index, last) = Item(items[index + 1])
<1> DEFINE way == Way(count, index)
           top == RootPosition(count)
           last == top.height
<1>1. last \in Nat /\ index \in Nat
  <2>1. Fits(top)
    BY RootIs
  <2> QED BY <2>1, ListAssumption DEF Fits, Positions
<1>2. \A d \in 0..last : OnWay(way[d], index) /\ way[d].pos.height = last - d
  BY WayIs
<1>3. /\ way[0] = [pos |-> top, index |-> index]
      /\ \A d \in 1..last : way[d] = Deeper(way[d - 1])
  <2>1. \A d \in 0..last : way[d] = WayAt(way[d - 1], top, index, d)
    BY WayUnfold
  <2> HIDE DEF way, top, last
  <2>2. 0 \in 0..last /\ \A d \in 1..last : d \in 0..last /\ d # 0
    BY <1>1
  <2> QED BY <2>1, <2>2 DEF WayAt
<1>4. \A d : CellOn(items, meta, count, index, d) =
                 TreeOn(items, meta, way[d], index)[SlotOf(way[d].pos, way[d].index)]
  BY DEF CellOn
<1> HIDE DEF way, top, last
<1>5. TreeOn(items, meta, way[0], index) = Tree(items, meta, top, 1)
  <2>1. 1 + (index - index) = 1
    BY <1>1
  <2> QED BY <1>3, <2>1 DEF TreeOn
<1>6. \A d \in 0..last : SlotOf(way[d].pos, way[d].index) \in Slot
  BY <1>1, <1>2, StepFinds
<1>7. ASSUME NEW d \in 0..(last - 1)
      PROVE  CellOn(items, meta, count, index, d) = ChildCell(TreeOn(items, meta, way[d + 1], index))
  <2>1. d \in 0..last /\ d + 1 \in 1..last /\ (d + 1) - 1 = d /\ last - d # 0
    BY <1>1
  <2>2. TreeOn(items, meta, way[d], index)[SlotOf(way[d].pos, way[d].index)] =
            ChildCell(TreeOn(items, meta, Deeper(way[d]), index))
    BY <1>1, <1>2, <2>1, StepFinds
  <2>3. way[d + 1] = Deeper(way[d])
    BY <1>3, <2>1
  <2> QED BY <1>4, <2>2, <2>3
<1>8. CellOn(items, meta, count, index, last) = Item(items[index + 1])
  <2>1. last \in 0..last /\ last - last = 0
    BY <1>1
  <2>2. TreeOn(items, meta, way[last], index)[SlotOf(way[last].pos, way[last].index)] = Item(items[index + 1])
    BY <1>1, <1>2, <2>1, StepFinds
  <2> QED BY <1>4, <2>2
<1> QED BY <1>1, <1>5, <1>6, <1>7, <1>8 DEF way, last, top

\* What prove opens, one cell after the other, is what there is on the way.
LEMMA CellsFound ==
    ASSUME NEW tree, NEW items, NEW p, IsList(tree, items, p), NEW index \in 0..(Len(items) - 1)
    PROVE  LET n == Len(items)
               last == RootPosition(n).height
               cell == CellsOf(ListNodes(tree), tree, Way(n, index), last)
           IN  \A d \in 0..last : cell[d] = CellOn(items, Meta(n, p), n, index, d)
<1> DEFINE n == Len(items)
           top == RootPosition(n)
           last == top.height
           store == ListNodes(tree)
           meta == Meta(n, p)
           way == Way(n, index)
           cell == CellsOf(store, tree, way, last)
           On(d) == TreeOn(items, meta, way[d], index)
           Cell(d) == CellOn(items, meta, n, index, d)
           slot(d) == SlotOf(way[d].pos, way[d].index)
           S == {d \in 0..last : cell[d] = Cell(d) /\ Whole(On(d), last - d, store)}
<1>1. /\ n \in 0..MaxUint /\ last \in 0..Width /\ tree = Tree(items, meta, top, 1)
      /\ Whole(tree, last, store)
  <2>1. ListFacts(tree, items, p)
    BY ListIs
  <2> QED BY <2>1 DEF ListFacts
<1>2. index \in 0..(n - 1)
  OBVIOUS
<1>3. /\ last \in Nat /\ On(0) = Tree(items, meta, top, 1)
      /\ \A d \in 0..last : slot(d) \in Slot
      /\ \A d \in 0..(last - 1) : Cell(d) = ChildCell(On(d + 1))
  <2> HIDE DEF n, meta
  <2> QED BY <1>1, <1>2, CellsOnWay
<1>4. \A d \in 0..last : cell[d] = CellOnWay(cell[d - 1], store, tree, way, d)
  <2> HIDE DEF store, way, n
  <2> QED BY <1>3, CellsUnfold
<1>5. \A d : Cell(d) = On(d)[slot(d)]
  BY DEF CellOn
<1> HIDE DEF n, meta, way, cell, On, Cell, store, last
<1>6. \A d \in 0..last : Whole(On(d), last - d, store) =>
          OpenChild(store, ChildCell(On(d)), way[d]) = Cell(d)
  <2> SUFFICES ASSUME NEW d \in 0..last, Whole(On(d), last - d, store)
               PROVE  OpenChild(store, ChildCell(On(d)), way[d]) = Cell(d)
    OBVIOUS
  <2>1. last - d \in 0..Width
    BY <1>1, <1>3, ListAssumption
  <2>2. On(d) \in store
    BY <2>1, WholeBelow
  <2>3. OpenChild(store, ChildCell(On(d)), way[d]) = On(d)[slot(d)]
    BY <2>2 DEF OpenChild, ChildCell, Loaded, CellAt, Opened
  <2> QED BY <1>5, <2>3
<1>7. 0 \in S
  <2>1. 0 \in 0..last /\ last - 0 = last
    BY <1>3
  <2>2. cell[0] = OpenChild(store, ChildCell(tree), way[0])
    BY <1>4, <2>1 DEF CellOnWay
  <2>3. On(0) = tree
    BY <1>1, <1>3
  <2>4. Whole(On(0), last - 0, store)
    BY <1>1, <2>1, <2>3
  <2> QED BY <1>6, <2>1, <2>2, <2>3, <2>4
<1>8. \A d \in 0..(last - 1) : d \in S => d + 1 \in S
  <2> SUFFICES ASSUME NEW d \in 0..(last - 1), d \in S PROVE d + 1 \in S
    OBVIOUS
  <2>1. d + 1 \in 0..last /\ (d + 1) - 1 = d /\ last - (d + 1) = (last - d) - 1 /\ d + 1 # 0
        /\ last - d \in 0..Width /\ last - d # 0 /\ d \in 0..last
    BY <1>1, <1>3, ListAssumption
  <2>2. cell[d] = Cell(d) /\ Whole(On(d), last - d, store)
    OBVIOUS
  <2>3. cell[d] = ChildCell(On(d + 1))
    BY <1>3, <2>2
  <2>4. On(d + 1) \in ChildNodes(On(d))
    <3>1. slot(d) \in Slot /\ On(d)[slot(d)] = ChildCell(On(d + 1))
      BY <1>3, <1>5, <2>1
    <3>2. ChildCell(On(d + 1)).kind = "child" /\ ChildCell(On(d + 1)).node = On(d + 1)
      BY DEF ChildCell
    <3> HIDE DEF slot
    <3> QED BY <3>1, <3>2 DEF ChildNodes
  <2>5. Whole(On(d + 1), last - (d + 1), store)
    BY <2>1, <2>2, <2>4, WholeBelow
  <2>6. cell[d + 1] = OpenChild(store, ChildCell(On(d + 1)), way[d + 1])
    BY <1>4, <2>1, <2>3 DEF CellOnWay
  <2> QED BY <1>6, <2>1, <2>5, <2>6
<1>9. 0..last \subseteq S
  <2> HIDE DEF S
  <2> QED BY <1>3, <1>7, <1>8, Upwards
<1> QED BY <1>9 DEF cell, Cell, store, last, way, meta, n

\* The cells on the way to an index of a List.
WayCells(items, p, index) ==
    LET n == Len(items)
    IN  [i \in 1..(RootPosition(n).height + 1) |-> CellOn(items, Meta(n, p), n, index, i - 1)]

\* An index of a List has a proof that it is there, any other one that it is not (prove).
LEMMA ProveIs ==
    ASSUME NEW tree, NEW items, NEW p, IsList(tree, items, p), NEW index \in Nat
    PROVE  LET n == Len(items)
               answer == Prove(ListNodes(tree), tree, index)
           IN  /\ answer.ok = TRUE /\ answer.meta = tree[0] /\ answer.present = (index < n)
               /\ index >= n => answer.target = Undef /\ answer.cells = <<>>
               /\ index < n => answer.target = items[index + 1] /\ answer.cells = WayCells(items, p, index)
<1> DEFINE n == Len(items)
           store == ListNodes(tree)
           answer == Prove(store, tree, index)
           last == RootPosition(n).height
           meta == Meta(n, p)
           cell == CellsOf(store, tree, Way(n, index), last)
<1> SUFFICES /\ answer.ok = TRUE /\ answer.meta = tree[0] /\ answer.present = (index < n)
             /\ index >= n => answer.target = Undef /\ answer.cells = <<>>
             /\ index < n => /\ answer.target = items[index + 1]
                             /\ answer.cells = [i \in 1..(last + 1) |-> CellOn(items, meta, n, index, i - 1)]
  BY DEF WayCells
<1>1. n \in 0..MaxUint /\ tree[0] = meta /\ tree[0].count = n /\ tree \in store /\ n \in Nat
  <2>1. n \in 0..MaxUint /\ tree[0] = meta /\ tree[0].count = n /\ tree \in store
    BY ListIs DEF ListFacts
  <2> HIDE DEF n, meta, store
  <2> QED BY <2>1
<1>2. meta.kind = "meta" /\ meta.count = n
  BY DEF Meta
<1>3. answer = IF index >= n THEN Answer(FALSE, Undef, meta, <<>>)
               ELSE IF cell[last].kind # "item" THEN NoAnswer
               ELSE Answer(TRUE, cell[last].target, meta, [i \in 1..(last + 1) |-> cell[i - 1]])
  <2> HIDE DEF n, meta, store
  <2> QED BY <1>1, <1>2 DEF Prove, Opened, Loaded, CellsOf, CellsUpTo, CellOnWay
<1> HIDE DEF answer
<1>4. CASE index >= n
  <2>1. answer = Answer(FALSE, Undef, meta, <<>>)
    BY <1>3, <1>4
  <2>2. ~(index < n)
    BY <1>1, <1>4
  <2> DEFINE here == index < n
  <2>3. here = FALSE
    BY <2>2
  <2> HIDE DEF n, meta, here
  <2>4. answer.ok = TRUE /\ answer.present = here /\ answer.meta = tree[0]
        /\ answer.target = Undef /\ answer.cells = <<>>
    BY <1>1, <2>1, <2>3 DEF Answer
  <2> QED BY <2>2, <2>4 DEF here
<1>5. CASE index < n
  <2>1. index \in 0..(n - 1) /\ ~(index >= n)
    BY <1>1, <1>5
  <2>2. \A d \in 0..last : cell[d] = CellOn(items, meta, n, index, d)
    BY <2>1, CellsFound
  <2>3. last \in Nat /\ CellOn(items, meta, n, index, last) = Item(items[index + 1])
    <3> HIDE DEF n, meta
    <3> QED BY <1>1, <2>1, CellsOnWay
  <2> HIDE DEF n, meta, cell, last
  <2>4. cell[last] = Item(items[index + 1])
    BY <2>2, <2>3
  <2>5. cell[last].kind = "item" /\ cell[last].target = items[index + 1]
    BY <2>4 DEF Item
  <2>6. [i \in 1..(last + 1) |-> cell[i - 1]] = [i \in 1..(last + 1) |-> CellOn(items, meta, n, index, i - 1)]
    <3>1. \A i \in 1..(last + 1) : i - 1 \in 0..last
      BY <2>3
    <3> QED BY <2>2, <3>1
  <2>7. answer = Answer(TRUE, items[index + 1], meta,
                        [i \in 1..(last + 1) |-> CellOn(items, meta, n, index, i - 1)])
    BY <1>3, <2>1, <2>5, <2>6
  <2> QED BY <1>1, <1>5, <2>1, <2>7 DEF Answer
<1>6. index >= n \/ index < n
  BY <1>1
<1> HIDE DEF n, last, meta
<1> QED BY <1>4, <1>5, <1>6

\* Cells that follow each other from the Root are the ones on the way, and no others.
LEMMA FollowedAre ==
    ASSUME NEW tree, NEW items, NEW p, IsList(tree, items, p), NEW index \in 0..(Len(items) - 1),
           NEW cells
    PROVE  /\ Followed(tree, Len(items), index, WayCells(items, p, index))
           /\ Followed(tree, Len(items), index, cells) => cells[Len(cells)] = Item(items[index + 1])
<1> DEFINE n == Len(items)
           top == RootPosition(n)
           last == top.height
           meta == Meta(n, p)
           way == Way(n, index)
           On(d) == TreeOn(items, meta, way[d], index)
           Cell(d) == CellOn(items, meta, n, index, d)
           slot(d) == SlotOf(way[d].pos, way[d].index)
           whole == [i \in 1..(last + 1) |-> Cell(i - 1)]
           Node(c, d) == IF d = 0 THEN tree ELSE c[d].node
<1>0. WayCells(items, p, index) = whole
  BY DEF WayCells
<1>1. n \in 0..MaxUint /\ tree = Tree(items, meta, top, 1)
  <2>1. ListFacts(tree, items, p)
    BY ListIs
  <2> QED BY <2>1 DEF ListFacts
<1>2. /\ last \in Nat /\ On(0) = tree
      /\ \A d \in 0..last : slot(d) \in Slot
      /\ \A d \in 0..(last - 1) : Cell(d) = ChildCell(On(d + 1))
      /\ Cell(last) = Item(items[index + 1])
  <2>1. index \in 0..(n - 1)
    OBVIOUS
  <2> HIDE DEF n, meta
  <2> QED BY <1>1, <2>1, CellsOnWay
<1>3. \A d : Cell(d) = On(d)[slot(d)]
  BY DEF CellOn
<1>4. \A c : Followed(tree, n, index, c) <=>
          /\ Len(c) = last + 1
          /\ \A d \in 0..last : c[d + 1].kind = IF d = last THEN "item" ELSE "child"
          /\ \A d \in 0..last : slot(d) \in Slot /\ Node(c, d)[slot(d)] = c[d + 1]
  BY DEF Followed, Opens, Opened
<1>5. \A x : ChildCell(x).kind = "child" /\ ChildCell(x).node = x /\ Item(x).kind = "item"
  BY DEF ChildCell, Item
<1> HIDE DEF n, meta, way, On, Cell, slot, last, top
<1>6. Followed(tree, n, index, whole)
  <2>1. Len(whole) = last + 1 /\ \A d \in 0..last : d + 1 \in 1..(last + 1) /\ (d + 1) - 1 = d
    BY <1>2
  <2>2. \A d \in 0..last : whole[d + 1] = Cell(d)
    BY <2>1
  <2>3. ASSUME NEW d \in 0..last
        PROVE  /\ whole[d + 1].kind = IF d = last THEN "item" ELSE "child"
               /\ Node(whole, d) = On(d)
    <3>1. whole[d + 1].kind = IF d = last THEN "item" ELSE "child"
      <4>1. CASE d = last
        <5> HIDE DEF whole
        <5>1. whole[d + 1] = Cell(d) /\ Cell(d) = Item(items[index + 1])
          BY <1>2, <2>2, <4>1
        <5> QED BY <1>5, <4>1, <5>1
      <4>2. CASE d # last
        <5>1. d \in 0..(last - 1)
          BY <1>2, <4>2
        <5> HIDE DEF whole
        <5>2. whole[d + 1] = Cell(d) /\ Cell(d) = ChildCell(On(d + 1))
          BY <1>2, <2>2, <5>1
        <5> QED BY <1>5, <4>2, <5>2
      <4> QED BY <4>1, <4>2
    <3>2. CASE d = 0
      <4> HIDE DEF whole
      <4> QED BY <1>2, <3>1, <3>2
    <3>3. CASE d # 0
      <4>1. d - 1 \in 0..(last - 1) /\ d - 1 \in 0..last /\ (d - 1) + 1 = d
        BY <1>2, <3>3
      <4>2. whole[d] = ChildCell(On(d))
        <5> HIDE DEF whole
        <5>1. whole[(d - 1) + 1] = Cell(d - 1)
          BY <2>2, <4>1
        <5>2. Cell(d - 1) = ChildCell(On((d - 1) + 1))
          BY <1>2, <4>1
        <5> QED BY <4>1, <5>1, <5>2
      <4> HIDE DEF whole
      <4> QED BY <1>5, <3>1, <3>3, <4>2
    <3> HIDE DEF Node, whole
    <3> QED BY <3>2, <3>3
  <2> HIDE DEF whole, Node
  <2> QED BY <1>2, <1>3, <1>4, <2>1, <2>2, <2>3
<1>7. ASSUME Followed(tree, n, index, cells)
      PROVE  Len(cells) = last + 1 /\ cells[last + 1] = Item(items[index + 1])
  <2>1. /\ Len(cells) = last + 1
        /\ \A d \in 0..last : Node(cells, d)[slot(d)] = cells[d + 1]
    BY <1>4, <1>7
  <2> DEFINE S == {d \in 0..last : Node(cells, d) = On(d)}
  <2>2. 0 \in S
    BY <1>2
  <2>3. \A d \in 0..(last - 1) : d \in S => d + 1 \in S
    <3> SUFFICES ASSUME NEW d \in 0..(last - 1), d \in S PROVE d + 1 \in S
      OBVIOUS
    <3>1. d \in 0..last /\ d + 1 \in 0..last /\ d + 1 # 0
      BY <1>2
    <3>2. Node(cells, d) = On(d)
      OBVIOUS
    <3> HIDE DEF Node
    <3>3. cells[d + 1] = Cell(d)
      BY <1>3, <2>1, <3>1, <3>2
    <3>4. cells[d + 1].node = On(d + 1)
      BY <1>2, <1>5, <3>3
    <3>5. Node(cells, d + 1) = cells[d + 1].node
      BY <3>1 DEF Node
    <3> QED BY <3>1, <3>4, <3>5
  <2>4. last \in S
    <3>1. last \in 0..last
      BY <1>2
    <3> HIDE DEF S
    <3>2. 0..last \subseteq S
      BY <1>2, <2>2, <2>3, Upwards
    <3> QED BY <3>1, <3>2
  <2>5. last \in 0..last /\ Node(cells, last) = On(last)
    BY <2>4
  <2> HIDE DEF S, Node
  <2>6. cells[last + 1] = Cell(last)
    BY <1>3, <2>1, <2>5
  <2> QED BY <1>2, <2>1, <2>6
<1> HIDE DEF whole, last
<1> QED BY <1>0, <1>6, <1>7 DEF n

\* An answer that verifies tells what the List has at the index, and nothing else (Verify).
LEMMA VerifyIs ==
    ASSUME NEW tree, NEW items, NEW p, IsList(tree, items, p), NEW index \in Nat,
           NEW answer, Verify(tree, index, answer)
    PROVE  /\ answer.meta = tree[0]
           /\ answer.present <=> index < Len(items)
           /\ index < Len(items) => answer.target = items[index + 1]
<1> DEFINE n == Len(items)
<1>1. n \in 0..MaxUint /\ tree[0].count = n /\ n \in Nat
  <2>1. n \in 0..MaxUint /\ tree[0].count = n
    BY ListIs DEF ListFacts
  <2> HIDE DEF n
  <2> QED BY <2>1
<1>2. answer.meta = tree[0]
  BY DEF Verify, Opens, Opened
<1>3. /\ index >= n => ~answer.present
      /\ ~(index >= n) => /\ answer.present /\ Followed(tree, n, index, answer.cells)
                          /\ answer.cells[Len(answer.cells)].target = answer.target
  <2> HIDE DEF n
  <2> QED BY <1>1, <1>2 DEF Verify
<1>4. ASSUME index < n PROVE answer.target = items[index + 1]
  <2> DEFINE cells == answer.cells
  <2>1. index \in 0..(n - 1) /\ Followed(tree, n, index, cells)
    BY <1>1, <1>3, <1>4
  <2> HIDE DEF cells
  <2>2. cells[Len(cells)] = Item(items[index + 1])
    BY <2>1, FollowedAre
  <2>3. cells[Len(cells)].target = answer.target
    BY <1>1, <1>3, <1>4 DEF cells
  <2> QED BY <2>2, <2>3 DEF Item
<1>5. (index < n) <=> ~(index >= n)
  BY <1>1
<1> HIDE DEF n
<1> QED BY <1>2, <1>3, <1>4, <1>5 DEF n

\* The answer to every index verifies, that it is there or that it is not (Prove, Verify).
LEMMA VerifiesProved ==
    ASSUME NEW tree, NEW items, NEW p, IsList(tree, items, p), NEW index \in Nat
    PROVE  Verify(tree, index, Prove(ListNodes(tree), tree, index))
<1> DEFINE n == Len(items)
           answer == Prove(ListNodes(tree), tree, index)
           way == WayCells(items, p, index)
<1>1. n \in Nat /\ tree[0].count = n /\ tree[0] = Meta(n, p)
  <2>1. n \in 0..MaxUint /\ tree[0].count = n /\ tree[0] = Meta(n, p)
    BY ListIs DEF ListFacts
  <2> HIDE DEF n
  <2> QED BY <2>1
<1>2. /\ answer.meta = tree[0] /\ answer.present = (index < n)
      /\ index >= n => answer.target = Undef /\ answer.cells = <<>>
      /\ index < n => answer.target = items[index + 1] /\ answer.cells = way
  BY ProveIs
<1>3. Opens(tree, 0, answer.meta) /\ answer.meta.kind = "meta"
  <2>1. 0 \in Slot
    BY Spans DEF Slot
  <2> HIDE DEF answer, n
  <2> QED BY <1>1, <1>2, <2>1 DEF Opens, Opened, Meta
<1>4. ASSUME index < n
      PROVE  /\ items[index + 1] # Undef /\ Followed(tree, n, index, way)
             /\ way[Len(way)] = Item(items[index + 1])
  <2>1. index \in 0..(n - 1) /\ index + 1 \in 1..n
    BY <1>1, <1>4
  <2>2. items[index + 1] # Undef
    BY <2>1 DEF IsList
  <2>3. Followed(tree, n, index, way)
    BY <2>1, FollowedAre
  <2> HIDE DEF way
  <2>4. way[Len(way)] = Item(items[index + 1])
    BY <2>1, <2>3, FollowedAre
  <2> QED BY <2>2, <2>3, <2>4
<1>5. index < n <=> ~(index >= n)
  BY <1>1
<1> HIDE DEF answer, n, way
<1>6. CASE index < n
  <2>1. answer.cells[Len(answer.cells)].target = answer.target
    BY <1>2, <1>4, <1>6 DEF Item
  <2>2. answer.present /\ answer.target # Undef /\ Followed(tree, n, index, answer.cells)
    BY <1>2, <1>4, <1>6
  <2> QED BY <1>1, <1>2, <1>3, <1>5, <1>6, <2>1, <2>2 DEF Verify, answer
<1>7. CASE index >= n
  <2>1. ~answer.present /\ answer.target = Undef /\ answer.cells = <<>>
    BY <1>2, <1>5, <1>7
  <2>2. answer.present = (answer.target # Undef)
    BY <1>2, <1>5, <1>7
  <2> QED BY <1>1, <1>2, <1>3, <1>7, <2>1, <2>2 DEF Verify, answer
<1> QED BY <1>5, <1>6, <1>7

-----------------------------------------------------------------------------
(* Windows.                                                                 *)

\* An end is left to Count, or is an index.
IsEnd(end) == end = {} \/ \E e \in Nat : end = {e}

\* The indices of a window are those from its first to its end (RangeBounds).
LEMMA BoundsAre ==
    ASSUME NEW meta, meta.count \in Nat, NEW start \in Nat, NEW end, IsEnd(end),
           Bounded(meta, start, end)
    PROVE  LET bounds == RangeBounds(meta, start, end)
               stop == Stop(meta, end)
           IN  /\ stop \in Nat /\ start <= stop /\ stop <= meta.count
               /\ bounds.count = stop - start
               /\ \A i \in 1..(stop - start) :
                      bounds.first + i - 1 = start + (i - 1) /\ start + (i - 1) \in 0..(meta.count - 1)
<1> DEFINE bounds == RangeBounds(meta, start, end)
           stop == Stop(meta, end)
<1>1. stop \in Nat
  BY DEF Stop, IsEnd
<1>2. start <= stop /\ stop <= meta.count
  BY DEF Bounded
<1>3. bounds = IF start = stop THEN [first |-> 0, count |-> 0]
               ELSE [first |-> start, count |-> stop - start]
  BY DEF RangeBounds
<1> HIDE DEF bounds, stop
<1>4. bounds.count = stop - start
  BY <1>1, <1>3
<1>5. ASSUME NEW i \in 1..(stop - start)
      PROVE  bounds.first + i - 1 = start + (i - 1) /\ start + (i - 1) \in 0..(meta.count - 1)
  <2>1. start # stop
    BY <1>1
  <2>2. bounds.first = start
    BY <1>3, <2>1
  <2> QED BY <1>1, <1>2, <2>1, <2>2
<1> QED BY <1>1, <1>2, <1>4, <1>5 DEF bounds, stop

\* What ProveRange finds of a window within a List.
RangeOf(tree, start, stop) ==
    [ok |-> TRUE, meta |-> tree[0], evidence |-> Prove(ListNodes(tree), tree, MaxUint),
     segments |-> [i \in 1..(stop - start) |-> Prove(ListNodes(tree), tree, start + (i - 1))]]

\* The largest index is never one of a List, so its answer is the metadata (ReadMetadata).
LEMMA MetadataIs ==
    ASSUME NEW tree, NEW items, NEW p, IsList(tree, items, p)
    PROVE  LET evidence == Prove(ListNodes(tree), tree, MaxUint)
           IN  evidence.ok = TRUE /\ evidence.meta = tree[0] /\ Verify(tree, MaxUint, evidence)
<1>1. MaxUint \in Nat
  BY Spans
<1> QED BY <1>1, ProveIs, VerifiesProved

\* A window has a proof exactly if it is within the List (ProveRange).
LEMMA RangeIs ==
    ASSUME NEW tree, NEW items, NEW p, IsList(tree, items, p), NEW start \in Nat,
           NEW end, IsEnd(end)
    PROVE  LET range == ProveRange(ListNodes(tree), tree, start, end)
           IN  /\ range.ok <=> Bounded(tree[0], start, end)
               /\ range.ok => range = RangeOf(tree, start, Stop(tree[0], end))
<1> DEFINE store == ListNodes(tree)
           range == ProveRange(store, tree, start, end)
           evidence == Prove(store, tree, MaxUint)
           bounds == RangeBounds(tree[0], start, end)
           stop == Stop(tree[0], end)
           segments == [i \in 1..bounds.count |-> Prove(store, tree, bounds.first + i - 1)]
<1> SUFFICES /\ range.ok <=> Bounded(tree[0], start, end)
             /\ range.ok => range = RangeOf(tree, start, stop)
  OBVIOUS
<1>1. evidence.ok = TRUE /\ evidence.meta = tree[0]
  BY MetadataIs
<1>2. range = IF ~Bounded(tree[0], start, end) THEN NoRange
              ELSE IF \E i \in DOMAIN segments : ~segments[i].ok \/ ~segments[i].present THEN NoRange
              ELSE [ok |-> TRUE, meta |-> tree[0], evidence |-> evidence, segments |-> segments]
  <2> HIDE DEF evidence, store
  <2> QED BY <1>1 DEF ProveRange, ReadMetadata, evidence
<1>3. ~Bounded(tree[0], start, end) => range.ok = FALSE
  BY <1>2 DEF NoRange
<1>4. ASSUME Bounded(tree[0], start, end)
      PROVE  range = RangeOf(tree, start, stop)
  <2>1. tree[0].count = Len(items) /\ tree[0].count \in Nat
    <3>1. Len(items) \in 0..MaxUint /\ tree[0].count = Len(items)
      BY ListIs DEF ListFacts
    <3> QED BY <3>1
  <2>2. /\ stop \in Nat /\ start <= stop /\ bounds.count = stop - start
        /\ \A i \in 1..(stop - start) :
               bounds.first + i - 1 = start + (i - 1) /\ start + (i - 1) \in 0..(Len(items) - 1)
    BY <1>4, <2>1, BoundsAre
  <2>3. segments = [i \in 1..(stop - start) |-> Prove(store, tree, start + (i - 1))]
    <3> HIDE DEF bounds, stop, store
    <3> QED BY <2>2
  <2>4. \A i \in 1..(stop - start) :
            Prove(store, tree, start + (i - 1)).ok /\ Prove(store, tree, start + (i - 1)).present
    <3> TAKE i \in 1..(stop - start)
    <3> DEFINE index == start + (i - 1)
    <3>1. index \in 0..(Len(items) - 1)
      BY <2>2
    <3> HIDE DEF index
    <3>2. index \in Nat /\ index < Len(items)
      BY <2>1, <3>1
    <3>3. Prove(store, tree, index).ok = TRUE /\ Prove(store, tree, index).present = (index < Len(items))
      BY <3>2, ProveIs
    <3>4. Prove(store, tree, index).ok /\ Prove(store, tree, index).present
      BY <3>2, <3>3
    <3> QED BY <3>4 DEF index
  <2> HIDE DEF segments, stop
  <2>5. \A i \in DOMAIN segments : segments[i].ok /\ segments[i].present
    BY <2>3, <2>4
  <2>6. range = [ok |-> TRUE, meta |-> tree[0], evidence |-> evidence, segments |-> segments]
    <3> HIDE DEF range, evidence
    <3> QED BY <1>2, <1>4, <2>5
  <2> QED BY <2>3, <2>6 DEF RangeOf
<1>5. RangeOf(tree, start, stop).ok = TRUE
  BY DEF RangeOf
<1> HIDE DEF range, stop
<1> QED BY <1>3, <1>4, <1>5

\* The proof of a window verifies (VerifyRange).
LEMMA RangeVerifies ==
    ASSUME NEW tree, NEW items, NEW p, IsList(tree, items, p), NEW start \in Nat,
           NEW end, IsEnd(end), Bounded(tree[0], start, end)
    PROVE  VerifyRange(tree, start, end, RangeOf(tree, start, Stop(tree[0], end)))
<1> DEFINE store == ListNodes(tree)
           stop == Stop(tree[0], end)
           bounds == RangeBounds(tree[0], start, end)
           segments == [i \in 1..(stop - start) |-> Prove(store, tree, start + (i - 1))]
           range == RangeOf(tree, start, stop)
<1>1. tree[0].count = Len(items) /\ tree[0].count \in Nat
  <2>1. Len(items) \in 0..MaxUint /\ tree[0].count = Len(items)
    BY ListIs DEF ListFacts
  <2> QED BY <2>1
<1>2. /\ stop \in Nat /\ start <= stop /\ bounds.count = stop - start
      /\ \A i \in 1..(stop - start) :
             bounds.first + i - 1 = start + (i - 1) /\ start + (i - 1) \in 0..(Len(items) - 1)
  BY <1>1, BoundsAre
<1>3. /\ range.meta = tree[0] /\ range.evidence = Prove(store, tree, MaxUint)
      /\ range.segments = segments
  BY DEF RangeOf
<1> HIDE DEF range, bounds, stop
<1>4. Len(segments) = bounds.count /\ DOMAIN segments = 1..(stop - start)
  BY <1>2
<1>5. \A i \in 1..(stop - start) :
          segments[i].present /\ Verify(tree, bounds.first + i - 1, segments[i])
  <2> TAKE i \in 1..(stop - start)
  <2> DEFINE index == start + (i - 1)
  <2>1. index \in 0..(Len(items) - 1) /\ bounds.first + i - 1 = index
    BY <1>2
  <2>2. segments[i] = Prove(store, tree, index)
    OBVIOUS
  <2> HIDE DEF index, segments
  <2>3. index \in Nat /\ index < Len(items)
    BY <1>1, <2>1
  <2>4. Prove(store, tree, index).present = (index < Len(items)) /\ Verify(tree, index, Prove(store, tree, index))
    BY <2>3, ProveIs, VerifiesProved
  <2> QED BY <2>1, <2>2, <2>3, <2>4
<1>6. Prove(store, tree, MaxUint).meta = tree[0] /\ Verify(tree, MaxUint, Prove(store, tree, MaxUint))
  BY MetadataIs
<1> HIDE DEF segments, store
<1> QED BY <1>3, <1>4, <1>5, <1>6 DEF VerifyRange, range, stop, bounds

\* A range proof that verifies holds the items of the window, each in its place (VerifyRange).
LEMMA RangeHolds ==
    ASSUME NEW tree, NEW items, NEW p, IsList(tree, items, p), NEW start \in Nat,
           NEW end, IsEnd(end), NEW offer, NEW X, offer.segments \in Seq(X),
           VerifyRange(tree, start, end, offer)
    PROVE  /\ Bounded(tree[0], start, end) /\ offer.meta = tree[0]
           /\ [i \in DOMAIN offer.segments |-> offer.segments[i].target]
                  = SubSeq(items, start + 1, Stop(tree[0], end))
<1> DEFINE stop == Stop(tree[0], end)
           bounds == RangeBounds(tree[0], start, end)
           segments == offer.segments
           n == Len(items)
<1>1. n \in Nat /\ tree[0].count = n /\ MaxUint \in Nat /\ items \in Seq(Targets \ {Undef})
  <2>1. n \in 0..MaxUint /\ tree[0].count = n /\ items \in Seq(Targets \ {Undef})
    BY ListIs DEF IsList, ListFacts
  <2> QED BY <2>1, Spans
<1>2. Verify(tree, MaxUint, offer.evidence) /\ offer.meta = offer.evidence.meta
      /\ Bounded(offer.meta, start, end)
  BY DEF VerifyRange
<1>3. offer.meta = tree[0]
  BY <1>1, <1>2, VerifyIs
<1>4. /\ Len(segments) = bounds.count
      /\ \A i \in DOMAIN segments : Verify(tree, bounds.first + i - 1, segments[i])
  BY <1>3 DEF VerifyRange
<1>5. Bounded(tree[0], start, end)
  BY <1>2, <1>3
<1>6. /\ stop \in Nat /\ start <= stop /\ stop <= n /\ bounds.count = stop - start
      /\ \A i \in 1..(stop - start) :
             bounds.first + i - 1 = start + (i - 1) /\ start + (i - 1) \in 0..(n - 1)
  BY <1>1, <1>5, BoundsAre
<1> HIDE DEF bounds, stop, n, segments
<1>7. DOMAIN segments = 1..(stop - start)
  BY <1>4, <1>6 DEF segments
<1>8. \A i \in 1..(stop - start) : segments[i].target = items[start + i]
  <2> TAKE i \in 1..(stop - start)
  <2> DEFINE index == start + (i - 1)
  <2>1. index \in 0..(n - 1) /\ bounds.first + i - 1 = index /\ index + 1 = start + i
    BY <1>6
  <2>2. Verify(tree, index, segments[i])
    BY <1>4, <1>7, <2>1
  <2> HIDE DEF index
  <2>3. index \in Nat /\ index < n
    BY <1>1, <2>1
  <2>4. segments[i].target = items[index + 1]
    BY <2>2, <2>3, VerifyIs DEF n
  <2> QED BY <2>1, <2>4
<1>9. SubSeq(items, start + 1, stop) = [i \in 1..(stop - start) |-> items[start + i]]
  <2> DEFINE a == start + 1
  <2>1. a \in 1..(n + 1) /\ stop \in 0..n /\ (stop - a) + 1 = stop - start
    BY <1>1, <1>6
  <2>2. \A i \in 1..(stop - start) : (i + a) - 1 = start + i
    BY <1>1, <1>6
  <2> HIDE DEF a
  <2>3. SubSeq(items, a, stop) = [i \in 1..((stop - a) + 1) |-> items[(i + a) - 1]]
    BY <1>1, <2>1 DEF SubSeq, n
  <2> QED BY <2>1, <2>2, <2>3 DEF a
<1>10. [i \in DOMAIN segments |-> segments[i].target] = [i \in 1..(stop - start) |-> items[start + i]]
  BY <1>7, <1>8
<1> QED BY <1>3, <1>5, <1>9, <1>10 DEF stop, segments

\* What is offered for a window has a sequence of segments, whatever was left out, added,
\* exchanged or repeated.
LEMMA OfferedAre ==
    ASSUME NEW window, NEW X, Ranged(window).ok =>
               /\ DOMAIN Ranged(window) = {"ok", "meta", "evidence", "segments"}
               /\ Ranged(window).evidence \in X /\ Ranged(window).segments \in Seq(X),
           NEW offer \in Offered(window)
    PROVE  offer.segments \in Seq(X)
<1> DEFINE honest == Ranged(window)
           segments == honest.segments
<1>1. honest.ok
  BY DEF Offered
<1>2. /\ DOMAIN honest = {"ok", "meta", "evidence", "segments"}
      /\ honest.evidence \in X /\ segments \in Seq(X)
  BY <1>1
<1>3. \/ offer = honest
      \/ \E m : offer = [honest EXCEPT !.meta = m]
      \/ \E s \in {Reverse(segments), segments \o segments, segments \o <<honest.evidence>>} :
             offer = [honest EXCEPT !.segments = s]
      \/ segments # <<>> /\ \E s \in {Tail(segments), Front(segments)} :
                                offer = [honest EXCEPT !.segments = s]
  <2> HIDE DEF honest
  <2> QED BY <1>1 DEF Offered, honest
<1> HIDE DEF honest
<1>4. \A s : [honest EXCEPT !.segments = s].segments = s
  BY <1>2
<1>5. \A m : [honest EXCEPT !.meta = m].segments = segments
  BY <1>2
<1> HIDE DEF segments
<1>6. /\ Reverse(segments) \in Seq(X) /\ segments \o segments \in Seq(X)
      /\ segments \o <<honest.evidence>> \in Seq(X)
  <2>1. Reverse(segments) \in Seq(X)
    <3>1. \A i \in 1..Len(segments) : (Len(segments) - i) + 1 \in 1..Len(segments)
      BY <1>2
    <3> QED BY <1>2, <3>1 DEF Reverse
  <2>2. segments \o segments \in Seq(X) /\ segments \o <<honest.evidence>> \in Seq(X)
    BY <1>2
  <2> QED BY <2>1, <2>2
<1>7. segments # <<>> => Tail(segments) \in Seq(X) /\ Front(segments) \in Seq(X)
  <2> SUFFICES ASSUME segments # <<>> PROVE Tail(segments) \in Seq(X) /\ Front(segments) \in Seq(X)
    OBVIOUS
  <2>1. Tail(segments) \in Seq(X)
    BY <1>2
  <2>2. Front(segments) \in Seq(X)
    BY <1>2 DEF Front
  <2> QED BY <2>1, <2>2
<1> QED BY <1>2, <1>3, <1>4, <1>5, <1>6, <1>7 DEF segments

\* The Root of a shorter List, or of one with another payload, has other metadata.
LEMMA OthersAre ==
    ASSUME NEW items, NEW p, IsList(root, items, p), NEW tree \in OtherRoots, tree # root
    PROVE  tree[0] # root[0]
<1> DEFINE n == Len(items)
<1>1. n \in 0..MaxUint /\ root[0] = Meta(n, p) /\ root[0].count = n /\ n \in Nat
  <2>1. n \in 0..MaxUint /\ root[0] = Meta(n, p) /\ root[0].count = n
    BY ListIs DEF ListFacts
  <2> HIDE DEF n
  <2> QED BY <2>1
<1> HIDE DEF n
<1>2. \A k, l, q, r : Meta(k, q) = Meta(l, r) => k = l /\ q = r
  <2>1. \A k, q : Meta(k, q).count = k /\ Meta(k, q).payload = q
    BY DEF Meta
  <2> QED BY <2>1
<1>3. CASE n > 0 /\ tree = Truncated(n - 1).node
  <2> DEFINE short == SubSeq(items, 1, n - 1)
             r == Truncate(ListNodes(root), root, n - 1)
  <2>1. n - 1 \in 0..MaxUint /\ n - 1 <= n
    BY <1>1, <1>3, Spans
  <2>2. (r.ok <=> n - 1 <= n) /\ (r.ok => IsList(r.node, short, p))
    BY <2>1, TruncateIs DEF n
  <2>3. IsList(tree, short, p)
    BY <1>3, <2>1, <2>2 DEF Truncated
  <2>4. Len(short) = n - 1
    <3> DEFINE m == n - 1
    <3>1. m \in 0..Len(items) /\ items \in Seq(Targets \ {Undef})
      BY <1>1, <1>3 DEF IsList, n
    <3> HIDE DEF m
    <3>2. Len(SubSeq(items, 1, m)) = m
      BY <3>1
    <3> QED BY <3>2 DEF m
  <2> HIDE DEF short, r
  <2>5. tree[0] = Meta(Len(short), p)
    BY <2>3, ListIs DEF ListFacts
  <2> QED BY <1>1, <1>2, <2>4, <2>5
<1>4. ASSUME NEW q \in Payloads, tree = PayloadSet(q).node PROVE tree[0] # root[0]
  <2>1. IsList(tree, items, q)
    BY <1>4, PayloadIs DEF PayloadSet
  <2>2. q # p
    BY <2>1 DEF IsList
  <2>3. tree[0] = Meta(n, q)
    BY <2>1, ListIs DEF ListFacts, n
  <2> QED BY <1>1, <1>2, <2>2, <2>3
<1>5. \/ n > 0 /\ tree = Truncated(n - 1).node
      \/ \E q \in Payloads : tree = PayloadSet(q).node
  BY <1>1 DEF OtherRoots
<1> QED BY <1>3, <1>4, <1>5

-----------------------------------------------------------------------------
(* Snapshots of nodes of any shape.                                         *)

\* What a cell can hold: nothing, a target, a reference or metadata.
CellLike(cell, T) ==
    \/ cell = Empty
    \/ \E t \in T : cell = Item(t)
    \/ \E n : cell = ChildCell(n)
    \/ \E c \in 0..MaxUint : \E q : cell = Meta(c, q)

Celled(node, T) ==
    /\ node = [slot \in Slot |-> node[slot]]
    /\ \A slot \in Slot : CellLike(node[slot], T)

\* Nodes that refer to each other alone.
Closed(nodes, T) == \A m \in nodes : Celled(m, T) /\ ChildNodes(m) \subseteq nodes

\* The kind of a cell tells what it is.
LEMMA KindTells ==
    ASSUME NEW T, NEW cell, CellLike(cell, T)
    PROVE  /\ cell.kind = "empty" => cell = Empty
           /\ cell.kind = "item" => cell.target \in T /\ cell = Item(cell.target)
           /\ cell.kind = "child" => cell = ChildCell(cell.node)
           /\ cell.kind = "meta" => /\ cell.count \in 0..MaxUint
                                    /\ cell = Meta(cell.count, cell.payload)
<1>1. CASE cell = Empty
  BY <1>1 DEF Empty
<1>2. CASE \E t \in T : cell = Item(t)
  BY <1>2 DEF Item
<1>3. CASE \E n : cell = ChildCell(n)
  BY <1>3 DEF ChildCell
<1>4. CASE \E c \in 0..MaxUint : \E q : cell = Meta(c, q)
  <2>1. PICK c \in 0..MaxUint : \E q : cell = Meta(c, q)
    BY <1>4
  <2>2. PICK q : cell = Meta(c, q)
    BY <2>1
  <2>3. cell.kind = "meta" /\ cell.count = c /\ cell.payload = q
    BY <2>2 DEF Meta
  <2> QED BY <2>2, <2>3
<1> QED BY <1>1, <1>2, <1>3, <1>4 DEF CellLike

\* The layers below a node of such a set are within it.
LEMMA ClosedLayers ==
    ASSUME NEW nodes, NEW T, Closed(nodes, T), NEW node \in nodes
    PROVE  ListNodes(node) \subseteq nodes
<1>1. Width \in Nat
  BY ListAssumption
<1> DEFINE S == {k \in 0..Width : Layers(node)[k] \subseteq nodes}
<1>2. 0 \in S
  <2>1. 0 \in 0..Width
    BY <1>1
  <2>2. Layers(node)[0] = {node}
    BY <2>1, LayersUnfold DEF LayerAt
  <2> QED BY <2>1, <2>2
<1>3. \A k \in 0..(Width - 1) : k \in S => k + 1 \in S
  <2> SUFFICES ASSUME NEW k \in 0..(Width - 1), k \in S PROVE k + 1 \in S
    OBVIOUS
  <2>1. k + 1 \in 0..Width /\ k + 1 # 0 /\ (k + 1) - 1 = k
    BY <1>1
  <2>2. Layers(node)[k + 1] = UNION {ChildNodes(n) : n \in Layers(node)[k]}
    BY <2>1, LayersUnfold DEF LayerAt
  <2>3. Layers(node)[k] \subseteq nodes
    OBVIOUS
  <2>4. Layers(node)[k + 1] \subseteq nodes
    BY <2>2, <2>3 DEF Closed
  <2> QED BY <2>1, <2>4
<1>4. 0..Width \subseteq S
  <2> HIDE DEF S
  <2> QED BY <1>1, <1>2, <1>3, Upwards
<1> QED BY <1>4 DEF ListNodes

\* What is found below a node is a sequence of targets, whatever its shape (snapshotItems).
LEMMA ItemsTyped ==
    ASSUME NEW nodes, NEW T, \A m \in nodes : Celled(m, T)
    PROVE  \A h \in 0..Width : \A node \in nodes : ItemsBelow(nodes)[h][node] \in Seq(T)
<1>1. Width \in Nat /\ Slots \in Nat \ {0} /\ Slot = 0..(Slots - 1)
  BY ListAssumption, Spans DEF Slot
<1> DEFINE G == ItemsBelow(nodes)
           S == {h \in 0..Width : \A node \in nodes : G[h][node] \in Seq(T)}
<1>2. ASSUME NEW h \in 0..Width, h > 0 => h - 1 \in S, NEW node \in nodes
      PROVE  G[h][node] \in Seq(T)
  <2> DEFINE seqs == [i \in 1..Slots |-> ItemsOfCell(G[h - 1], nodes, h, node[i - 1])]
  <2>1. G[h][node] = FlattenSeq(seqs)
    BY ItemsAre
  <2>2. ASSUME NEW i \in 1..Slots PROVE seqs[i] \in Seq(T)
    <3> DEFINE cell == node[i - 1]
    <3>1. i - 1 \in Slot
      BY <1>1
    <3>2. CellLike(cell, T)
      BY <3>1 DEF Celled
    <3> HIDE DEF G, cell
    <3>3. cell.kind = "item" => cell.target \in T
      BY <3>2, KindTells
    <3>4. h > 0 /\ cell.node \in nodes => G[h - 1][cell.node] \in Seq(T)
      BY <1>2
    <3>5. seqs[i] = ItemsOfCell(G[h - 1], nodes, h, cell)
      BY DEF cell
    <3>6. <<>> \in Seq(T)
      OBVIOUS
    <3>7. cell.kind = "item" => <<cell.target>> \in Seq(T)
      BY <3>3
    <3> HIDE DEF S, seqs
    <3> QED BY <3>4, <3>5, <3>6, <3>7 DEF ItemsOfCell
  <2> HIDE DEF G, S
  <2>3. seqs \in [1..Slots -> Seq(T)]
    BY <2>2
  <2> HIDE DEF seqs
  <2>4. FlattenSeq(seqs) \in Seq(T)
    BY <1>1, <2>3, Flattens
  <2> QED BY <2>1, <2>4
<1> HIDE DEF G
<1>3. 0 \in S
  <2>1. 0 \in 0..Width /\ ~(0 > 0)
    BY <1>1
  <2> QED BY <1>2, <2>1
<1>4. \A h \in 0..(Width - 1) : h \in S => h + 1 \in S
  <2> SUFFICES ASSUME NEW h \in 0..(Width - 1), h \in S PROVE h + 1 \in S
    OBVIOUS
  <2>1. h + 1 \in 0..Width /\ (h + 1) - 1 = h
    BY <1>1
  <2> HIDE DEF S
  <2>2. \A node \in nodes : G[h + 1][node] \in Seq(T)
    BY <1>2, <2>1
  <2> QED BY <2>1, <2>2 DEF S
<1>5. 0..Width \subseteq S
  <2> HIDE DEF S
  <2> QED BY <1>1, <1>3, <1>4, Upwards
<1> QED BY <1>5 DEF G

-----------------------------------------------------------------------------
(* What the digits of a position hold.                                      *)

\* How many of the items of a position the digits before d hold.
Reach(pos, d) ==
    IF d * Span(pos.height) <= pos.count THEN d * Span(pos.height) ELSE pos.count

\* The digits share the items out, each what its child has.
LEMMA ReachIs ==
    ASSUME NEW pos, Fits(pos)
    PROVE  /\ Reach(pos, 0) = 0 /\ Reach(pos, Used(pos)) = pos.count
           /\ \A d \in Digits(pos) :
                  /\ Reach(pos, d) \in Nat /\ Reach(pos, d + 1) \in Nat
                  /\ Reach(pos, d) <= Reach(pos, d + 1) /\ Reach(pos, d + 1) <= pos.count
                  /\ pos.height = 0 => Reach(pos, d) = d /\ Reach(pos, d + 1) = d + 1
                  /\ pos.height # 0 =>
                         /\ Reach(pos, d) = Start(pos, d)
                         /\ Reach(pos, d + 1) = Start(pos, d) + ChildPosition(pos, d).count
<1> DEFINE S == Span(pos.height)
           n == pos.count
           u == Used(pos)
<1>1. /\ pos \in Positions /\ u \in Nat /\ S \in Nat \ {0} /\ n \in Nat
      /\ \A d \in Int : d \in Digits(pos) <=> d >= 0 /\ d * S < n
      /\ Digits(pos) = 0..(u - 1)
  BY Spans, DigitsAre DEF Fits, Positions, Digital, Digits
<1>2. \A d : Reach(pos, d) = IF d * S <= n THEN d * S ELSE n
  BY DEF Reach
<1>3. Reach(pos, 0) = 0
  <2> HIDE DEF S, n
  <2>1. 0 * S = 0
    BY <1>1
  <2> QED BY <1>1, <1>2, <2>1
<1>4. Reach(pos, u) = n
  <2> HIDE DEF S, n, u
  <2> DEFINE x == u * S
  <2>1. ~(u \in Digits(pos)) /\ u \in Int /\ u >= 0
    BY <1>1
  <2>2. x \in Nat /\ ~(x < n)
    BY <1>1, <2>1
  <2>3. Reach(pos, u) = IF x <= n THEN x ELSE n
    BY <1>2
  <2> HIDE DEF x
  <2> QED BY <1>1, <2>2, <2>3
<1>5. ASSUME NEW d \in Digits(pos)
      PROVE  LET x == d * S IN
             /\ d \in Nat /\ x \in Nat /\ x < n /\ Reach(pos, d) = x
             /\ Reach(pos, d + 1) = IF n - x <= S THEN n ELSE x + S
  <2> DEFINE x == d * S
             y == (d + 1) * S
  <2> HIDE DEF S, n, u
  <2>1. d \in Nat
    BY <1>1
  <2>2. x \in Nat /\ y = x + S /\ x < n
    BY <1>1, <2>1
  <2>3. Reach(pos, d) = IF x <= n THEN x ELSE n
    BY <1>2
  <2>4. Reach(pos, d + 1) = IF y <= n THEN y ELSE n
    BY <1>2
  <2> HIDE DEF x, y
  <2>5. Reach(pos, d) = x /\ Reach(pos, d + 1) = IF n - x <= S THEN n ELSE x + S
    BY <1>1, <2>2, <2>3, <2>4
  <2> QED BY <2>1, <2>2, <2>5 DEF x
<1>6. ASSUME NEW d \in Digits(pos)
      PROVE  /\ Reach(pos, d) \in Nat /\ Reach(pos, d + 1) \in Nat
             /\ Reach(pos, d) <= Reach(pos, d + 1) /\ Reach(pos, d + 1) <= n
             /\ pos.height = 0 => Reach(pos, d) = d /\ Reach(pos, d + 1) = d + 1
             /\ pos.height # 0 =>
                    /\ Reach(pos, d) = Start(pos, d)
                    /\ Reach(pos, d + 1) = Start(pos, d) + ChildPosition(pos, d).count
  <2> DEFINE x == d * S
             w == ChildPosition(pos, d).count
  <2>1. /\ d \in Nat /\ x \in Nat /\ x < n /\ Reach(pos, d) = x
        /\ Reach(pos, d + 1) = IF n - x <= S THEN n ELSE x + S
    <3> HIDE DEF S, n
    <3> QED BY <1>5
  <2>2. pos.height = 0 => S = 1 /\ x = d
    <3>1. Span(0) = 1
      BY Spans
    <3>2. d * 1 = d
      BY <2>1
    <3> QED BY <3>1, <3>2
  <2>3. pos.height # 0 => Start(pos, d) = x /\ w = IF n - x <= S THEN n - x ELSE S
    BY <1>1, <2>1, ChildIs
  <2> HIDE DEF x, w, S, n
  <2>4. pos.height # 0 => Reach(pos, d) = Start(pos, d) /\ Reach(pos, d + 1) = Start(pos, d) + w
    BY <1>1, <2>1, <2>3
  <2>5. pos.height = 0 => Reach(pos, d) = d /\ Reach(pos, d + 1) = d + 1
    BY <1>1, <2>1, <2>2
  <2>6. /\ Reach(pos, d) \in Nat /\ Reach(pos, d + 1) \in Nat
        /\ Reach(pos, d) <= Reach(pos, d + 1) /\ Reach(pos, d + 1) <= n
    BY <1>1, <2>1
  <2> QED BY <2>4, <2>5, <2>6 DEF w
<1> QED BY <1>3, <1>4, <1>6 DEF u, n

(* Walks.                                                                   *)

\* What a walk finds at a digit of a node, and at all of them.
VisitOf(store, node, pos, d) ==
    IF pos.height = 0 THEN [ok |-> TRUE, items |-> <<node[Base(pos) + d].target>>]
    ELSE Walks(store)[pos.height - 1][node[Base(pos) + d].node][ChildPosition(pos, d)]

VisitItems(store, node, pos) ==
    FlattenSeq([i \in 1..Used(pos) |-> VisitOf(store, node, pos, i - 1).items])

\* A walk refuses a node that is not of the shape of its position (snapshotItems).
LEMMA WalkIs ==
    ASSUME NEW store, NEW node \in Referenced(store), NEW pos \in Positions
    PROVE  LET walk == Walks(store)[pos.height][node][pos] IN
           /\ walk.ok <=> /\ node \in store /\ Shaped(node, pos)
                          /\ \A d \in Digits(pos) : VisitOf(store, node, pos, d).ok
                          /\ Len(VisitItems(store, node, pos)) = pos.count
           /\ walk.ok => walk = [ok |-> TRUE, items |-> VisitItems(store, node, pos)]
<1> DEFINE h == pos.height
           below == Walks(store)[h - 1]
           u == Used(pos)
           b == Base(pos)
           Visit(slot) ==
               IF h = 0 THEN [ok |-> TRUE, items |-> <<node[slot].target>>]
               ELSE below[node[slot].node][ChildPosition(pos, slot - b)]
           visits == [d \in 1..u |-> Visit(b + d - 1)]
           items == FlattenSeq([d \in 1..u |-> visits[d].items])
<1>1. h \in 0..Width /\ u \in Nat /\ b \in Nat
  BY DigitsAre, ListAssumption DEF Positions
<1>2. Walks(store)[h] = WalksAt(below, store, h)
  BY <1>1, WalksUnfold
<1>3. Walks(store)[h][node][pos] =
          IF node \notin store \/ ~Shaped(node, pos) THEN [ok |-> FALSE, items |-> <<>>]
          ELSE [ok |-> (\A d \in DOMAIN visits : visits[d].ok) /\ Len(items) = pos.count,
                items |-> items]
  <2> HIDE DEF h, u, b
  <2>1. WalksAt(below, store, h)[node][pos] =
          IF node \notin store \/ ~Shaped(node, pos) THEN [ok |-> FALSE, items |-> <<>>]
          ELSE [ok |-> (\A d \in DOMAIN visits : visits[d].ok) /\ Len(items) = pos.count,
                items |-> items]
    BY DEF WalksAt, Loaded, Fitting, u, b
  <2> QED BY <1>2, <2>1
<1>4. \A i \in 1..u : visits[i] = VisitOf(store, node, pos, i - 1)
  <2> TAKE i \in 1..u
  <2>1. b + i - 1 = b + (i - 1) /\ (b + i - 1) - b = i - 1
    <3> HIDE DEF b, u
    <3> QED BY <1>1
  <2>2. visits[i] = Visit(b + i - 1)
    OBVIOUS
  <2> HIDE DEF visits, below, h
  <2> QED BY <2>1, <2>2 DEF VisitOf, below, h
<1> HIDE DEF visits, below
<1>5. items = VisitItems(store, node, pos)
  <2>1. [d \in 1..u |-> visits[d].items] = [i \in 1..u |-> VisitOf(store, node, pos, i - 1).items]
    BY <1>4
  <2> QED BY <2>1 DEF VisitItems
<1>6. (\A d \in DOMAIN visits : visits[d].ok) <=> \A d \in Digits(pos) : VisitOf(store, node, pos, d).ok
  <2>1. DOMAIN visits = 1..u
    BY DEF visits
  <2>2. (\A d \in 1..u : visits[d].ok) <=> \A d \in 1..u : VisitOf(store, node, pos, d - 1).ok
    BY <1>4
  <2>3. (\A d \in 1..u : VisitOf(store, node, pos, d - 1).ok)
            <=> \A d \in 0..(u - 1) : VisitOf(store, node, pos, d).ok
    <3> HIDE DEF u
    <3>1. ASSUME \A d \in 1..u : VisitOf(store, node, pos, d - 1).ok, NEW d \in 0..(u - 1)
          PROVE  VisitOf(store, node, pos, d).ok
      <4>1. d + 1 \in 1..u /\ (d + 1) - 1 = d
        BY <1>1
      <4> QED BY <3>1, <4>1
    <3>2. ASSUME \A d \in 0..(u - 1) : VisitOf(store, node, pos, d).ok, NEW d \in 1..u
          PROVE  VisitOf(store, node, pos, d - 1).ok
      <4>1. d - 1 \in 0..(u - 1)
        BY <1>1
      <4> QED BY <3>2, <4>1
    <3> QED BY <3>1, <3>2
  <2> QED BY <2>1, <2>2, <2>3 DEF Digits
<1> HIDE DEF items, h
<1>7. Walks(store)[pos.height][node][pos] = Walks(store)[h][node][pos]
  BY DEF h
<1> DEFINE walk == Walks(store)[h][node][pos]
<1>8. walk = IF node \notin store \/ ~Shaped(node, pos) THEN [ok |-> FALSE, items |-> <<>>]
             ELSE [ok |-> (\A d \in DOMAIN visits : visits[d].ok) /\ Len(items) = pos.count,
                   items |-> items]
  BY <1>3
<1> HIDE DEF walk
<1>9. /\ walk.ok <=> /\ node \in store /\ Shaped(node, pos)
                     /\ \A d \in DOMAIN visits : visits[d].ok
                     /\ Len(items) = pos.count
      /\ walk.ok => walk = [ok |-> TRUE, items |-> items]
  <2>1. CASE node \notin store \/ ~Shaped(node, pos)
    <3>1. walk.ok = FALSE
      BY <1>8, <2>1
    <3> QED BY <2>1, <3>1
  <2>2. CASE ~(node \notin store \/ ~Shaped(node, pos))
    <3> DEFINE X == (\A d \in DOMAIN visits : visits[d].ok) /\ Len(items) = pos.count
    <3>1. walk = [ok |-> X, items |-> items]
      BY <1>8, <2>2
    <3> HIDE DEF X
    <3>2. walk.ok = X /\ walk.items = items
      BY <3>1
    <3>3. X \in BOOLEAN
      BY DEF X
    <3>4. X => walk = [ok |-> TRUE, items |-> items]
      <4>1. X => X = TRUE
        BY <3>3
      <4> QED BY <3>1, <4>1
    <3> QED BY <2>2, <3>2, <3>4 DEF X
  <2> QED BY <2>1, <2>2
<1> QED BY <1>5, <1>6, <1>7, <1>9 DEF walk

\* Nodes whose cells can be decoded.
AllCelled(store, T) == \A m \in store : Celled(m, T)

\* A node that is the tree of the items which a walk of it finds.
Told(items, T, store, node, pos) ==
    /\ node \in store /\ Fits(pos)
    /\ items \in Seq(T) /\ Len(items) = pos.count
    /\ node = Tree(items, node[0], pos, 1)

AllTell(store, T, height) ==
    \A pos, node :
        (pos \in Positions /\ pos.height = height /\ node \in Referenced(store)
            /\ Walks(store)[height][node][pos].ok)
                => Told(Walks(store)[height][node][pos].items, T, store, node, pos)

\* What a digit of such a node holds.
Visited(store, T, node, pos, d) ==
    LET visit == VisitOf(store, node, pos, d)
        cell == node[Base(pos) + d]
    IN  /\ visit.items \in Seq(T)
        /\ Reach(pos, d + 1) = Reach(pos, d) + Len(visit.items)
        /\ pos.height = 0 => cell = Item(visit.items[1]) /\ Len(visit.items) = 1
        /\ pos.height # 0 =>
               /\ Len(visit.items) = ChildPosition(pos, d).count
               /\ cell = ChildCell(Tree(visit.items, cell.node[0], ChildPosition(pos, d), 1))

\* A cell of a leaf node holds one item, a reference those of the child it leads to.
LEMMA VisitIs ==
    ASSUME NEW store, NEW T, AllCelled(store, T), NEW node \in store,
           NEW pos, Fits(pos), Shaped(node, pos),
           pos.height # 0 => AllTell(store, T, pos.height - 1),
           NEW d \in Digits(pos), VisitOf(store, node, pos, d).ok
    PROVE  Visited(store, T, node, pos, d)
<1> DEFINE visit == VisitOf(store, node, pos, d)
           slot == Base(pos) + d
           cell == node[slot]
           child == ChildPosition(pos, d)
<1>1. /\ pos \in Positions /\ Used(pos) \in Nat /\ Base(pos) \in Nat /\ d \in Nat
      /\ Used(pos) <= Slots - Base(pos) /\ Slots \in Nat /\ d < Used(pos)
  BY DigitsAre, Spans DEF Fits, Digits
<1>2. slot \in Slot /\ slot \in Base(pos)..(Slots - 1) /\ slot - Base(pos) = d
  BY <1>1 DEF Slot
<1>3. cell.kind = IF pos.height = 0 THEN "item" ELSE "child"
  <2>1. cell.kind = IF slot - Base(pos) >= Used(pos) THEN "empty"
                    ELSE IF pos.height = 0 THEN "item" ELSE "child"
    BY <1>2 DEF Shaped
  <2>2. ~(slot - Base(pos) >= Used(pos))
    BY <1>1, <1>2
  <2> QED BY <2>1, <2>2
<1>4. CellLike(cell, T)
  BY <1>2 DEF AllCelled, Celled
<1> HIDE DEF slot
<1>5. CASE pos.height = 0
  <2> HIDE DEF cell
  <2>1. cell.target \in T /\ cell = Item(cell.target)
    BY <1>3, <1>4, <1>5, KindTells
  <2>2. visit = [ok |-> TRUE, items |-> <<cell.target>>]
    BY <1>5 DEF VisitOf, cell, slot
  <2> HIDE DEF visit
  <2>3. visit.items = <<cell.target>>
    BY <2>2
  <2>4. visit.items \in Seq(T) /\ Len(visit.items) = 1 /\ visit.items[1] = cell.target
    BY <2>1, <2>3
  <2>5. Reach(pos, d + 1) = Reach(pos, d) + 1
    <3>1. Reach(pos, d) = d /\ Reach(pos, d + 1) = d + 1
      BY <1>5, ReachIs
    <3> QED BY <3>1
  <2> QED BY <1>5, <2>1, <2>4, <2>5 DEF Visited, visit, cell, slot
<1>6. CASE pos.height # 0
  <2> HIDE DEF cell, child
  <2>1. cell = ChildCell(cell.node)
    BY <1>3, <1>4, <1>6, KindTells
  <2>2. cell.node \in Referenced(store)
    <3>1. cell.node \in ChildNodes(node)
      BY <1>2, <1>3, <1>6 DEF ChildNodes, cell
    <3> QED BY <3>1 DEF Referenced
  <2>3. child \in Positions /\ child.height = pos.height - 1 /\ child.root = FALSE
    BY <1>1, <1>6, ChildIs DEF child
  <2>4. visit = Walks(store)[pos.height - 1][cell.node][child]
    BY <1>6 DEF VisitOf, cell, slot, child
  <2>5. visit.ok
    OBVIOUS
  <2> HIDE DEF visit
  <2>6. Told(visit.items, T, store, cell.node, child)
    BY <1>6, <2>2, <2>3, <2>4, <2>5 DEF AllTell
  <2>7. Reach(pos, d + 1) = Reach(pos, d) + child.count
    BY <1>6, ReachIs DEF child
  <2> QED BY <1>6, <2>1, <2>6, <2>7 DEF Visited, Told, visit, cell, slot, child
<1> QED BY <1>5, <1>6

\* The items of a node, each at the place its digit has.
Collected(store, T, node, pos) ==
    LET items == VisitItems(store, node, pos) IN
    /\ items \in Seq(T) /\ Len(items) = pos.count
    /\ \A d \in Digits(pos) : \A x \in 1..Len(VisitOf(store, node, pos, d).items) :
           items[Reach(pos, d) + x] = VisitOf(store, node, pos, d).items[x]

\* The children have as many items together as the position demands (snapshotItems).
LEMMA VisitsJoin ==
    ASSUME NEW store, NEW T, NEW node, NEW pos, Fits(pos),
           \A d \in Digits(pos) : Visited(store, T, node, pos, d)
    PROVE  Collected(store, T, node, pos)
<1> DEFINE u == Used(pos)
           seqs == [i \in 1..u |-> VisitOf(store, node, pos, i - 1).items]
           at == [m \in 0..u |-> Reach(pos, m)]
           items == VisitItems(store, node, pos)
<1>1. u \in Nat /\ Digits(pos) = 0..(u - 1)
  BY DigitsAre DEF Fits, Digits
<1> HIDE DEF u
<1>2. \A i \in 1..u : /\ i - 1 \in Digits(pos) /\ (i - 1) + 1 = i
                      /\ i - 1 \in 0..u /\ i \in 0..u
                      /\ seqs[i] = VisitOf(store, node, pos, i - 1).items
                      /\ at[i - 1] = Reach(pos, i - 1) /\ at[i] = Reach(pos, i)
  BY <1>1
<1>3. at[0] = 0 /\ at[u] = pos.count
  <2>1. 0 \in 0..u /\ u \in 0..u
    BY <1>1
  <2>2. Reach(pos, 0) = 0 /\ Reach(pos, u) = pos.count
    BY ReachIs DEF u
  <2> QED BY <2>1, <2>2
<1>4. items = FlattenSeq(seqs)
  BY DEF VisitItems, u
<1>5. seqs \in [1..u -> Seq(T)]
  <2>1. \A i \in 1..u : VisitOf(store, node, pos, i - 1).items \in Seq(T)
    BY <1>2 DEF Visited
  <2> QED BY <2>1
<1> HIDE DEF seqs, at, items
<1>6. \A i \in 1..u : at[i] = at[i - 1] + Len(seqs[i])
  <2> TAKE i \in 1..u
  <2>1. Reach(pos, (i - 1) + 1) = Reach(pos, i - 1) + Len(VisitOf(store, node, pos, i - 1).items)
    BY <1>2 DEF Visited
  <2> QED BY <1>2, <2>1
<1>7. \A m \in 0..u : at[m] \in Nat
  <2> TAKE m \in 0..u
  <2>1. CASE m = 0
    BY <1>3, <2>1
  <2>2. CASE m # 0
    <3>1. m \in 1..u
      BY <1>1, <2>2
    <3>2. Reach(pos, (m - 1) + 1) \in Nat
      BY <1>2, <3>1, ReachIs
    <3> QED BY <1>2, <3>1, <3>2
  <2> QED BY <2>1, <2>2
<1>8. items \in Seq(T) /\ Joined(items, seqs, at, u)
  BY <1>1, <1>3, <1>4, <1>5, <1>6, <1>7, FlatLengths
<1>9. ASSUME NEW d \in Digits(pos), NEW x \in 1..Len(VisitOf(store, node, pos, d).items)
      PROVE  items[Reach(pos, d) + x] = VisitOf(store, node, pos, d).items[x]
  <2>1. d + 1 \in 1..u /\ (d + 1) - 1 = d
    BY <1>1
  <2>2. seqs[d + 1] = VisitOf(store, node, pos, d).items /\ at[d] = Reach(pos, d)
    BY <1>2, <2>1
  <2>3. items[at[(d + 1) - 1] + x] = seqs[d + 1][x]
    BY <1>8, <2>1, <2>2 DEF Joined
  <2> QED BY <2>1, <2>2, <2>3
<1> QED BY <1>3, <1>8, <1>9 DEF Collected, Joined, items

\* The node of a position whose cells hold these items is their tree.
LEMMA CollectedTree ==
    ASSUME NEW store, NEW T, NEW node, Celled(node, T), NEW pos, Fits(pos), Shaped(node, pos),
           \A d \in Digits(pos) : Visited(store, T, node, pos, d),
           Collected(store, T, node, pos)
    PROVE  node = Tree(VisitItems(store, node, pos), node[0], pos, 1)
<1> DEFINE items == VisitItems(store, node, pos)
           b == Base(pos)
           here == TreeBelow(items, node[0], pos, 1)
<1>1. /\ pos \in Positions /\ Used(pos) \in Nat /\ b \in 0..1 /\ Digits(pos) = 0..(Used(pos) - 1)
      /\ Slots \in Nat
  BY DigitsAre, Spans DEF Fits, Digits
<1>2. ASSUME NEW d \in Digits(pos) PROVE node[b + d] = here[d]
  <2> DEFINE visit == VisitOf(store, node, pos, d)
             child == ChildPosition(pos, d)
             n == node[b + d].node
  <2>1. Visited(store, T, node, pos, d)
    OBVIOUS
  <2>2. d \in Nat
    BY <1>1
  <2>3. \A x \in 1..Len(visit.items) : items[Reach(pos, d) + x] = visit.items[x]
    BY DEF Collected
  <2>4. CASE pos.height = 0
    <3>1. node[b + d] = Item(visit.items[1]) /\ Len(visit.items) = 1
      BY <2>1, <2>4 DEF Visited
    <3>2. Reach(pos, d) = d
      BY <2>4, ReachIs
    <3>3. here[d] = Item(items[1 + d])
      BY <2>4 DEF TreeBelow
    <3> HIDE DEF items, visit, here
    <3>4. items[d + 1] = visit.items[1]
      BY <2>3, <3>1, <3>2
    <3>5. d + 1 = 1 + d
      BY <2>2
    <3> QED BY <3>1, <3>3, <3>4, <3>5
  <2>5. CASE pos.height # 0
    <3>1. /\ Len(visit.items) = child.count
          /\ node[b + d] = ChildCell(Tree(visit.items, n[0], child, 1))
      BY <2>1, <2>5 DEF Visited
    <3>2. Reach(pos, d) = Start(pos, d)
      BY <2>5, ReachIs
    <3>3. child \in Positions /\ child.root = FALSE /\ Start(pos, d) \in Nat /\ child.count \in Nat
      <4>1. child \in Positions /\ child.root = FALSE /\ Start(pos, d) \in 0..MaxUint
        BY <1>1, <2>2, <2>5, ChildIs
      <4> QED BY <4>1, Spans DEF Positions
    <3>4. here[d] = ChildCell(Tree(items, node[0], child, 1 + Start(pos, d)))
      BY <2>5 DEF TreeBelow
    <3> HIDE DEF items, visit, here, child, n
    <3>5. \A x \in 0..(child.count - 1) : visit.items[1 + x] = items[1 + Start(pos, d) + x]
      <4> TAKE x \in 0..(child.count - 1)
      <4>1. x + 1 \in 1..Len(visit.items) /\ x + 1 = 1 + x
        BY <3>1, <3>3
      <4>2. Start(pos, d) + (x + 1) = 1 + Start(pos, d) + x
        BY <3>3
      <4>3. items[Start(pos, d) + (x + 1)] = visit.items[x + 1]
        BY <2>3, <3>2, <4>1
      <4> QED BY <4>1, <4>2, <4>3
    <3>6. 1 \in Nat /\ 1 + Start(pos, d) \in Nat
      BY <3>3
    <3>7. Tree(visit.items, n[0], child, 1) = Tree(items, node[0], child, 1 + Start(pos, d))
      BY <3>3, <3>5, <3>6, TreeSame
    <3> QED BY <3>1, <3>4, <3>7
  <2> QED BY <2>4, <2>5
<1> HIDE DEF here
<1>3. \A slot \in Slot : node[slot] = IF slot < b THEN node[0]
                                      ELSE IF slot - b \in Digits(pos) THEN here[slot - b]
                                      ELSE Empty
  <2> TAKE slot \in Slot
  <2>1. slot \in Nat /\ slot <= Slots - 1
    BY <1>1 DEF Slot
  <2>2. CASE slot < b
    <3>1. slot = 0
      BY <1>1, <2>1, <2>2
    <3> QED BY <2>2, <3>1
  <2>3. CASE slot >= b /\ slot - b \in Digits(pos)
    <3>1. ~(slot < b) /\ b + (slot - b) = slot
      BY <1>1, <2>1, <2>3
    <3>2. node[b + (slot - b)] = here[slot - b]
      BY <1>2, <2>3
    <3> QED BY <2>3, <3>1, <3>2
  <2>4. CASE slot >= b /\ slot - b \notin Digits(pos)
    <3>1. ~(slot < b) /\ slot - b >= Used(pos) /\ slot \in b..(Slots - 1)
      BY <1>1, <2>1, <2>4
    <3>2. node[slot].kind = "empty"
      BY <3>1 DEF Shaped
    <3>3. CellLike(node[slot], T)
      BY DEF Celled
    <3>4. node[slot] = Empty
      BY <3>2, <3>3, KindTells
    <3> QED BY <2>4, <3>1, <3>4
  <2>5. slot < b \/ slot >= b
    BY <1>1, <2>1
  <2> QED BY <2>2, <2>3, <2>4, <2>5
<1>4. node = [slot \in Slot |-> node[slot]]
  BY DEF Celled
<1>5. [slot \in Slot |-> node[slot]] = Cells(node[0], pos, here)
  BY <1>3 DEF Cells
<1>6. 1 \in Nat
  OBVIOUS
<1>7. Tree(items, node[0], pos, 1) = Cells(node[0], pos, TreeBelow(items, node[0], pos, 1))
  BY <1>1, <1>6, TreeIs
<1> QED BY <1>4, <1>5, <1>7 DEF here

\* A walk accepts trees alone, and finds the items they are made of (checkPosition).
LEMMA WalksTell ==
    ASSUME NEW store, NEW T, AllCelled(store, T)
    PROVE  \A h \in 0..Width : AllTell(store, T, h)
<1> DEFINE K == {h \in 0..Width : AllTell(store, T, h)}
<1>1. Width \in Nat
  BY ListAssumption
<1>2. ASSUME NEW h \in 0..Width, h # 0 => AllTell(store, T, h - 1),
             NEW pos, NEW node, pos \in Positions, pos.height = h, node \in Referenced(store),
             Walks(store)[h][node][pos].ok
      PROVE  Told(Walks(store)[h][node][pos].items, T, store, node, pos)
  <2>1. /\ node \in store /\ Shaped(node, pos)
        /\ \A d \in Digits(pos) : VisitOf(store, node, pos, d).ok
        /\ Walks(store)[h][node][pos] = [ok |-> TRUE, items |-> VisitItems(store, node, pos)]
    BY <1>2, WalkIs
  <2>2. Fits(pos)
    BY <1>2, <2>1 DEF Fits, Shaped
  <2>3. Celled(node, T)
    BY <2>1 DEF AllCelled
  <2>4. \A d \in Digits(pos) : Visited(store, T, node, pos, d)
    BY <1>2, <2>1, <2>2, VisitIs
  <2>5. Collected(store, T, node, pos)
    BY <2>2, <2>4, VisitsJoin
  <2>6. node = Tree(VisitItems(store, node, pos), node[0], pos, 1)
    BY <2>1, <2>2, <2>3, <2>4, <2>5, CollectedTree
  <2>7. Walks(store)[h][node][pos].items = VisitItems(store, node, pos)
    BY <2>1
  <2> QED BY <2>1, <2>2, <2>5, <2>6, <2>7 DEF Told, Collected
<1>3. ASSUME NEW h \in 0..Width, h # 0 => AllTell(store, T, h - 1)
      PROVE  AllTell(store, T, h)
  BY <1>2, <1>3 DEF AllTell
<1>4. 0 \in K
  <2>1. 0 \in 0..Width
    BY <1>1
  <2> QED BY <1>3, <2>1
<1>5. \A h \in 0..(Width - 1) : h \in K => h + 1 \in K
  <2> SUFFICES ASSUME NEW h \in 0..(Width - 1), h \in K PROVE h + 1 \in K
    OBVIOUS
  <2>1. h + 1 \in 0..Width /\ (h + 1) - 1 = h
    BY <1>1
  <2> QED BY <1>3, <2>1
<1>6. 0..Width \subseteq K
  <2> HIDE DEF K
  <2> QED BY <1>1, <1>4, <1>5, Upwards
<1> QED BY <1>6

\* For all positions of a height: a walk accepts the trees.
AllWalk(store, s, meta, height) ==
    \A pos, f :
        (Fits(pos) /\ pos.height = height /\ f \in Nat
            /\ Whole(Tree(s, meta, pos, f), height, store))
                => Walks(store)[height][Tree(s, meta, pos, f)][pos].ok

\* A walk accepts every tree whose nodes load, the empty one and the largest included.
LEMMA TreeWalks ==
    ASSUME NEW store, NEW T, AllCelled(store, T), NEW s, NEW meta
    PROVE  \A h \in 0..Width : AllWalk(store, s, meta, h)
<1> DEFINE K == {h \in 0..Width : AllWalk(store, s, meta, h)}
<1>1. Width \in Nat
  BY ListAssumption
<1>2. ASSUME NEW h \in 0..Width, h # 0 => AllWalk(store, s, meta, h - 1),
             NEW pos, NEW f, Fits(pos), pos.height = h, f \in Nat,
             Whole(Tree(s, meta, pos, f), h, store)
      PROVE  Walks(store)[h][Tree(s, meta, pos, f)][pos].ok
  <2> DEFINE node == Tree(s, meta, pos, f)
  <2>1. pos \in Positions /\ node \in store /\ node \in Referenced(store)
    BY <1>2, WholeBelow DEF Fits
  <2>2. /\ Shaped(node, pos)
        /\ \A d \in Digits(pos) :
               /\ Base(pos) + d \in Slot
               /\ node[Base(pos) + d] =
                      IF pos.height = 0 THEN Item(s[f + d])
                      ELSE ChildCell(Tree(s, meta, ChildPosition(pos, d), f + Start(pos, d)))
    BY <1>2, TreeShaped
  <2>3. ASSUME NEW d \in Digits(pos) PROVE VisitOf(store, node, pos, d).ok
    <3>1. CASE pos.height = 0
      BY <3>1 DEF VisitOf
    <3>2. CASE pos.height # 0
      <4> DEFINE child == ChildPosition(pos, d)
                 g == f + Start(pos, d)
                 tree == Tree(s, meta, child, g)
      <4>1. d \in Nat
        BY <2>1, DigitsAre
      <4>2. Fits(child) /\ child.height = h - 1 /\ Start(pos, d) \in 0..MaxUint
        BY <1>2, <2>1, <3>2, <4>1, ChildFits, ChildIs
      <4>3. g \in Nat
        BY <1>2, <4>2, Spans
      <4> HIDE DEF node
      <4>4. node[Base(pos) + d] = ChildCell(tree) /\ Base(pos) + d \in Slot
        BY <2>2, <3>2
      <4> HIDE DEF tree
      <4>5. tree \in ChildNodes(node) /\ node[Base(pos) + d].node = tree
        BY <4>4 DEF ChildNodes, ChildCell
      <4>6. Whole(tree, h - 1, store)
        BY <1>2, <3>2, <4>5, WholeBelow DEF node
      <4>7. VisitOf(store, node, pos, d) = Walks(store)[h - 1][tree][child]
        BY <1>2, <3>2, <4>5 DEF VisitOf
      <4>8. AllWalk(store, s, meta, h - 1)
        BY <1>2, <3>2
      <4> HIDE DEF child, g
      <4>9. Walks(store)[h - 1][tree][child].ok
        BY <4>2, <4>3, <4>6, <4>8 DEF AllWalk, tree
      <4> QED BY <4>7, <4>9
    <3> QED BY <3>1, <3>2
  <2>4. \A d \in Digits(pos) : Visited(store, T, node, pos, d)
    <3> TAKE d \in Digits(pos)
    <3>1. pos.height # 0 => AllTell(store, T, pos.height - 1)
      <4>1. pos.height # 0 => pos.height - 1 \in 0..Width
        BY <1>1, <1>2
      <4> QED BY <4>1, WalksTell
    <3> HIDE DEF node
    <3> QED BY <1>2, <2>1, <2>2, <2>3, <3>1, VisitIs
  <2> HIDE DEF node
  <2>5. Collected(store, T, node, pos)
    BY <1>2, <2>4, VisitsJoin
  <2>6. Len(VisitItems(store, node, pos)) = pos.count
    BY <2>5 DEF Collected
  <2>7. Walks(store)[pos.height][node][pos].ok
    BY <2>1, <2>2, <2>3, <2>6, WalkIs
  <2> QED BY <1>2, <2>7 DEF node
<1>3. ASSUME NEW h \in 0..Width, h # 0 => AllWalk(store, s, meta, h - 1)
      PROVE  AllWalk(store, s, meta, h)
  BY <1>2, <1>3 DEF AllWalk
<1>4. 0 \in K
  <2>1. 0 \in 0..Width
    BY <1>1
  <2> QED BY <1>3, <2>1
<1>5. \A h \in 0..(Width - 1) : h \in K => h + 1 \in K
  <2> SUFFICES ASSUME NEW h \in 0..(Width - 1), h \in K PROVE h + 1 \in K
    OBVIOUS
  <2>1. h + 1 \in 0..Width /\ (h + 1) - 1 = h
    BY <1>1
  <2> QED BY <1>3, <2>1
<1>6. 0..Width \subseteq K
  <2> HIDE DEF K
  <2> QED BY <1>1, <1>4, <1>5, Upwards
<1> QED BY <1>6

\* The nodes that Commits of windows of these items make.
Trees(s, S, meta) ==
    {Tree(s, meta, x[1], x[2]) : x \in {y \in Positions \X Nat : Listed(s, S, meta, y[1], y[2])}}

\* Such nodes refer to such nodes alone.
LEMMA TreesClosed ==
    ASSUME NEW T, NEW s, NEW c \in 0..MaxUint, NEW p
    PROVE  Closed(Trees(s, T, Meta(c, p)), T)
<1> DEFINE meta == Meta(c, p)
           N == Trees(s, T, meta)
<1>1. ASSUME NEW m \in N PROVE Celled(m, T) /\ ChildNodes(m) \subseteq N
  <2>1. PICK x \in Positions \X Nat : Listed(s, T, meta, x[1], x[2]) /\ m = Tree(s, meta, x[1], x[2])
    BY DEF Trees
  <2> DEFINE pos == x[1]
             f == x[2]
             here == TreeBelow(s, meta, pos, f)
  <2>2. pos \in Positions /\ f \in Nat /\ Listed(s, T, meta, pos, f) /\ m = Tree(s, meta, pos, f)
    BY <2>1
  <2> HIDE DEF pos, f
  <2>3. /\ Fits(pos) /\ s \in Seq(T) /\ f # 0 /\ f - 1 + pos.count <= Len(s)
        /\ pos.root => meta.kind = "meta"
    BY <2>2 DEF Listed
  <2>4. m = Cells(meta, pos, here)
    BY <2>2, TreeIs
  <2>5. \A slot \in Slot : \/ slot < Base(pos) /\ m[slot] = meta
                           \/ slot - Base(pos) \in Digits(pos) /\ m[slot] = here[slot - Base(pos)]
                           \/ slot - Base(pos) >= Used(pos) /\ m[slot] = Empty
    <3> HIDE DEF here, meta
    <3> QED BY <2>3, <2>4, CellsAre
  <2>6. m = [slot \in Slot |-> m[slot]]
    <3>1. \A node, below : node = Cells(meta, pos, below) => node = [slot \in Slot |-> node[slot]]
      BY DEF Cells
    <3> HIDE DEF here, meta
    <3> QED BY <2>4, <3>1
  <2>7. ASSUME NEW d \in Digits(pos)
        PROVE  \/ \E t \in T : here[d] = Item(t)
               \/ \E n \in N : here[d] = ChildCell(n)
    <3>1. CASE pos.height = 0
      <4>1. here[d] = Item(s[f + d])
        BY <3>1 DEF here, TreeBelow
      <4>2. d \in Nat /\ d <= pos.count - 1 /\ pos.count \in Nat
        BY <2>2, <3>1, LeafDigits
      <4>3. f + d \in 1..Len(s)
        BY <2>2, <2>3, <4>2
      <4>4. s[f + d] \in T
        BY <2>3, <4>3
      <4> QED BY <4>1, <4>4
    <3>2. CASE pos.height # 0
      <4> DEFINE child == ChildPosition(pos, d)
                 g == f + Start(pos, d)
      <4>1. here[d] = ChildCell(Tree(s, meta, child, g))
        BY <3>2 DEF here, TreeBelow
      <4>2. Listed(s, T, meta, child, g)
        BY <2>2, <3>2, ListedBelow
      <4>3. child \in Positions /\ g \in Nat
        BY <4>2 DEF Listed, Fits
      <4> HIDE DEF child, g, meta
      <4>4. <<child, g>> \in {y \in Positions \X Nat : Listed(s, T, meta, y[1], y[2])}
        BY <4>2, <4>3
      <4>5. Tree(s, meta, child, g) \in N
        <5> DEFINE y == <<child, g>>
        <5>1. y[1] = child /\ y[2] = g
          OBVIOUS
        <5> HIDE DEF y
        <5> QED BY <4>4, <5>1 DEF Trees, y
      <4> QED BY <4>1, <4>5
    <3> QED BY <3>1, <3>2
  <2> HIDE DEF here, N
  <2>8. ASSUME NEW slot \in Slot PROVE CellLike(m[slot], T)
    BY <2>5, <2>7 DEF CellLike
  <2>9. ASSUME NEW slot \in Slot, m[slot].kind = "child" PROVE m[slot].node \in N
    <3>1. CASE m[slot] = meta
      BY <2>9, <3>1 DEF Meta
    <3>2. CASE m[slot] = Empty
      BY <2>9, <3>2 DEF Empty
    <3>3. CASE \E t \in T : m[slot] = Item(t)
      BY <2>9, <3>3 DEF Item
    <3>4. CASE \E n \in N : m[slot] = ChildCell(n)
      BY <3>4 DEF ChildCell
    <3> HIDE DEF meta
    <3> QED BY <2>5, <2>7, <3>1, <3>2, <3>3, <3>4
  <2> QED BY <2>6, <2>8, <2>9 DEF Celled, ChildNodes
<1> QED BY <1>1 DEF Closed

\* A Snapshot accepts the Roots of Commits alone, and finds what was committed (Snapshot).
LEMMA SnapshotTells ==
    ASSUME NEW nodes, NEW T, Closed(nodes, T), NEW tree \in nodes
    PROVE  LET walk == Snapshot(ListNodes(tree), tree, MaxUint) IN
           /\ walk.ok <=> /\ tree[0].kind = "meta"
                          /\ Len(ListItems(tree)) <= MaxUint
                          /\ tree = BuildList(ListItems(tree), tree[0].payload)
           /\ walk.ok => walk = [ok |-> TRUE, items |-> ListItems(tree)]
<1> DEFINE store == ListNodes(tree)
           count == tree[0].count
           p == tree[0].payload
           walk == Snapshot(store, tree, MaxUint)
           s == ListItems(tree)
<1>1. store \subseteq nodes /\ AllCelled(store, T)
  BY ClosedLayers DEF Closed, AllCelled
<1>2. Width \in Nat /\ Width \in 0..Width /\ MaxUint \in Nat /\ 0 \in Slot
  BY ListAssumption, Spans DEF Slot
<1>3. tree \in store
  <2>1. 0 \in 0..Width
    BY <1>2
  <2>2. Layers(tree)[0] = {tree}
    BY <2>1, LayersUnfold DEF LayerAt
  <2> QED BY <2>1, <2>2 DEF ListNodes
<1>4. s \in Seq(T)
  <2> HIDE DEF store
  <2>1. ItemsBelow(store)[Width][tree] \in Seq(T)
    BY <1>1, <1>2, <1>3, ItemsTyped DEF AllCelled
  <2> QED BY <2>1 DEF ListItems, store
<1> HIDE DEF s
<1>5. Len(s) \in Nat
  BY <1>4
<1>6. tree[0].kind = "meta" => count \in 0..MaxUint /\ tree[0] = Meta(count, p)
  <2>1. CellLike(tree[0], T)
    BY <1>1, <1>2, <1>3 DEF AllCelled, Celled
  <2> QED BY <2>1, KindTells
<1>7. tree \in Referenced(store)
  BY <1>3 DEF Referenced
<1> DEFINE found == Walks(store)[RootPosition(count).height][tree][RootPosition(count)]
<1>8. /\ tree[0].kind # "meta" => walk.ok = FALSE
      /\ tree[0].kind = "meta" => walk = found
  <2>1. Loaded(store, tree)
    BY <1>3 DEF Loaded
  <2>2. tree[0].kind # "meta" => walk = [ok |-> FALSE, items |-> <<>>]
    BY DEF Snapshot
  <2>3. tree[0].kind = "meta" => ~(count > MaxUint)
    BY <1>2, <1>6
  <2>4. tree[0].kind = "meta" => walk = found
    <3> HIDE DEF store
    <3> QED BY <2>1, <2>3 DEF Snapshot
  <2> QED BY <2>2, <2>4
<1> HIDE DEF walk, store, count, p
<1>9. ASSUME walk.ok
      PROVE  /\ tree[0].kind = "meta" /\ Len(s) <= MaxUint /\ tree = BuildList(s, p)
             /\ walk = [ok |-> TRUE, items |-> s]
  <2> DEFINE top == RootPosition(count)
             t == found.items
  <2>1. tree[0].kind = "meta" /\ found.ok /\ walk = found
    BY <1>8, <1>9
  <2>2. count \in 0..MaxUint /\ tree[0] = Meta(count, p)
    BY <1>6, <2>1
  <2>3. Fits(top) /\ top.count = count
    BY <2>2, RootIs
  <2>4. top \in Positions /\ top.height \in 0..Width
    BY <2>3 DEF Fits, Positions
  <2>5. found = [ok |-> TRUE, items |-> VisitItems(store, tree, top)]
    BY <1>7, <2>1, <2>4, WalkIs
  <2>6. AllTell(store, T, top.height)
    BY <1>1, <2>4, WalksTell
  <2> HIDE DEF top
  <2>7. Told(t, T, store, tree, top)
    BY <1>7, <2>1, <2>4, <2>6 DEF AllTell, top
  <2> HIDE DEF found, t
  <2>8. t \in Seq(T) /\ Len(t) = count /\ tree = Tree(t, Meta(count, p), top, 1)
    BY <2>2, <2>3, <2>7 DEF Told
  <2>9. tree = BuildList(t, p)
    BY <2>8 DEF BuildList, ListBuilt, Tree, top
  <2>10. Len(t) <= MaxUint
    BY <1>2, <2>2, <2>8
  <2>11. s = t
    BY <2>8, <2>9, <2>10, BuiltItems DEF s
  <2>12. walk = [ok |-> TRUE, items |-> t]
    BY <2>1, <2>5 DEF t
  <2> QED BY <2>1, <2>9, <2>10, <2>11, <2>12
<1>10. ASSUME tree[0].kind = "meta", Len(s) <= MaxUint, tree = BuildList(s, p)
       PROVE  walk.ok
  <2> DEFINE n == Len(s)
             top == RootPosition(n)
             meta == Meta(n, p)
  <2>1. n \in 0..MaxUint
    BY <1>5, <1>10
  <2>2. tree = Tree(s, meta, top, 1)
    BY <1>10 DEF BuildList, ListBuilt, Tree
  <2>3. Fits(top) /\ top.root = TRUE
    BY <2>1, RootIs
  <2>4. top.height \in 0..Width
    BY <2>3 DEF Fits, Positions
  <2>5. tree[0] = meta
    <3> HIDE DEF top, meta
    <3> QED BY <2>2, <2>3, TreeShaped
  <2>6. count = n
    BY <2>5 DEF Meta, count
  <2>7. Whole(tree, top.height, store)
    <3> HIDE DEF top
    <3> QED BY <1>2, <2>4 DEF Whole, ListNodes, store
  <2>8. AllWalk(store, s, meta, top.height)
    <3> HIDE DEF top, meta
    <3> QED BY <1>1, <2>4, TreeWalks
  <2>9. Walks(store)[top.height][tree][top].ok
    <3> HIDE DEF top, meta
    <3>1. 1 \in Nat
      OBVIOUS
    <3> QED BY <2>2, <2>3, <2>7, <2>8, <3>1 DEF AllWalk
  <2>10. found.ok
    BY <2>6, <2>9
  <2> QED BY <1>8, <1>10, <2>10
<1> HIDE DEF found
<1>11. walk.ok <=> tree[0].kind = "meta" /\ Len(s) <= MaxUint /\ tree = BuildList(s, p)
  BY <1>9, <1>10
<1>12. walk.ok => walk = [ok |-> TRUE, items |-> s]
  BY <1>9
<1> QED BY <1>11, <1>12 DEF walk, s, p, store

-----------------------------------------------------------------------------
(* Trees that differ from a committed List in one cell.                     *)

\* The trees that differ in one cell, by the height of their root.
OffsAt(below, height) ==
    [node \in ListNodes(root) |->
        WithCell(node) \cup IF height = 0 THEN {} ELSE WithChild(below, node)]

OffsUpTo(f, k) == f = [height \in 0..k |-> OffsAt(f[height - 1], height)]

Offs == CHOOSE f : OffsUpTo(f, Width)

\* They differ in a cell of the root, or below a child.
LEMMA OffsUnfold ==
           \A h \in 0..Width :
               Offs[h] = OffsAt(Offs[h - 1], h)
<1> DEFINE At(x, h) == OffsAt(x, h)
           UpTo(f, k) == OffsUpTo(f, k)
           K == {k \in 0..Width : \E f : UpTo(f, k)}
<1>1. Width \in Nat
  BY ListAssumption
<1>2. \A x, y : At(x, 0) = At(y, 0)
  BY DEF OffsAt
<1>3. \A f, k : UpTo(f, k) <=> f = [h \in 0..k |-> At(f[h - 1], h)]
  BY DEF OffsUpTo
<1>4. Offs = CHOOSE f : UpTo(f, Width)
  BY DEF Offs
<1> HIDE DEF At, UpTo
<1>5. 0 \in K
  <2> DEFINE f == [h \in 0..0 |-> At(h, 0)]
  <2>1. f = [h \in 0..0 |-> At(f[h - 1], h)]
    <3>1. \A h \in 0..0 : h = 0
      OBVIOUS
    <3>2. \A h \in 0..0 : At(h, 0) = At(f[h - 1], h)
      BY <1>2, <3>1
    <3> QED BY <3>2
  <2>2. UpTo(f, 0)
    <3> HIDE DEF f
    <3> QED BY <1>3, <2>1
  <2>3. 0 \in 0..Width
    BY <1>1
  <2> QED BY <2>2, <2>3
<1>6. \A k \in 0..(Width - 1) : k \in K => k + 1 \in K
  <2> SUFFICES ASSUME NEW k \in 0..(Width - 1), k \in K PROVE k + 1 \in K
    OBVIOUS
  <2>1. PICK f : UpTo(f, k)
    OBVIOUS
  <2>2. f = [h \in 0..k |-> At(f[h - 1], h)]
    BY <1>3, <2>1
  <2> DEFINE g == [h \in 0..(k + 1) |-> IF h <= k THEN f[h] ELSE At(f[k], h)]
  <2>3. \A h \in 0..(k + 1) : g[h] = At(g[h - 1], h)
    <3> TAKE h \in 0..(k + 1)
    <3>1. CASE h = 0
      <4>1. g[h] = f[h] /\ f[h] = At(f[h - 1], h)
        BY <1>1, <2>2, <3>1
      <4> QED BY <1>2, <3>1, <4>1
    <3>2. CASE h \in 1..k
      <4>1. h \in 0..k /\ h - 1 \in 0..k /\ h - 1 \in 0..(k + 1) /\ h - 1 <= k /\ h <= k
        BY <3>2
      <4>2. g[h] = f[h] /\ g[h - 1] = f[h - 1] /\ f[h] = At(f[h - 1], h)
        BY <2>2, <4>1
      <4> QED BY <4>2
    <3>3. CASE h = k + 1
      <4>1. ~(h <= k) /\ h - 1 = k /\ k <= k /\ k \in 0..(k + 1)
        BY <1>1, <3>3
      <4>2. g[h] = At(f[k], h) /\ g[k] = f[k]
        BY <4>1
      <4> QED BY <4>1, <4>2
    <3> QED BY <1>1, <3>1, <3>2, <3>3
  <2>4. g = [h \in 0..(k + 1) |-> At(g[h - 1], h)]
    <3> HIDE DEF g
    <3>1. g = [h \in 0..(k + 1) |-> g[h]]
      BY DEF g
    <3> QED BY <2>3, <3>1
  <2>5. UpTo(g, k + 1)
    BY <1>3, <2>4
  <2> QED BY <1>1, <2>5
<1>7. Width \in K
  <2>1. Width \in 0..Width
    BY <1>1
  <2> HIDE DEF K
  <2> QED BY <1>1, <1>5, <1>6, <2>1, Upwards
<1>8. UpTo(Offs, Width)
  BY <1>4, <1>7
<1>9. Offs = [h \in 0..Width |-> At(Offs[h - 1], h)]
  BY <1>3, <1>8
<1> DEFINE F == Offs
<1> HIDE DEF F
<1>10. \A h \in 0..Width : F[h] = At(F[h - 1], h)
  BY <1>9 DEF F
<1> QED BY <1>10 DEF At, F

\* The targets a cell of one of these trees may hold.
Held == Targets \cup {CHOOSE t \in Targets : TRUE}

\* A tree whose nodes can all be decoded.
Decodable(tree) == \E nodes : tree \in nodes /\ Closed(nodes, Held)

\* A node with another cell, whose child, if it has one, is decodable, is decodable.
LEMMA CellChanged ==
    ASSUME NEW nodes, Closed(nodes, Held), NEW node \in nodes, NEW slot \in Slot,
           NEW cell, CellLike(cell, Held), cell.kind = "child" => Decodable(cell.node)
    PROVE  Decodable([node EXCEPT ![slot] = cell])
<1> DEFINE new == [node EXCEPT ![slot] = cell]
<1>1. \E more : Closed(more, Held) /\ (cell.kind = "child" => cell.node \in more)
  <2>1. CASE cell.kind = "child"
    BY <2>1 DEF Decodable
  <2>2. CASE cell.kind # "child"
    BY <2>2
  <2> QED BY <2>1, <2>2
<1>2. PICK more : Closed(more, Held) /\ (cell.kind = "child" => cell.node \in more)
  BY <1>1
<1> DEFINE all == nodes \cup more \cup {new}
<1>3. node = [x \in Slot |-> node[x]] /\ \A x \in Slot : CellLike(node[x], Held)
  BY DEF Closed, Celled
<1>4. new = [x \in Slot |-> IF x = slot THEN cell ELSE node[x]]
  BY <1>3
<1> HIDE DEF new
<1>5. \A x \in Slot : new[x] = IF x = slot THEN cell ELSE node[x]
  BY <1>4
<1>6. Celled(new, Held)
  <2>1. new = [x \in Slot |-> new[x]]
    BY <1>4
  <2>2. \A x \in Slot : CellLike(new[x], Held)
    BY <1>3, <1>5
  <2> QED BY <2>1, <2>2 DEF Celled
<1>7. ChildNodes(new) \subseteq all
  <2>1. ASSUME NEW x \in Slot, new[x].kind = "child" PROVE new[x].node \in all
    <3>1. CASE x = slot
      BY <1>2, <1>5, <2>1, <3>1
    <3>2. CASE x # slot
      <4>1. node[x].kind = "child" /\ new[x].node = node[x].node
        BY <1>5, <2>1, <3>2
      <4>2. node[x].node \in ChildNodes(node)
        BY <4>1 DEF ChildNodes
      <4> QED BY <4>1, <4>2 DEF Closed
    <3> QED BY <3>1, <3>2
  <2> QED BY <2>1 DEF ChildNodes
<1>8. Closed(all, Held)
  <2> SUFFICES ASSUME NEW m \in all PROVE Celled(m, Held) /\ ChildNodes(m) \subseteq all
    BY DEF Closed
  <2>1. CASE m = new
    BY <1>6, <1>7, <2>1
  <2>2. CASE m \in nodes \cup more
    BY <1>2, <2>2 DEF Closed
  <2> QED BY <2>1, <2>2
<1>9. new \in all
  OBVIOUS
<1> QED BY <1>8, <1>9 DEF Decodable, new

\* The nodes of a committed List refer to each other alone.
LEMMA ListClosed ==
    ASSUME NEW tree, NEW items, NEW p, IsList(tree, items, p)
    PROVE  \E nodes : Closed(nodes, Held) /\ ListNodes(tree) \subseteq nodes
<1> DEFINE n == Len(items)
           top == RootPosition(n)
           meta == Meta(n, p)
           nodes == Trees(items, Held, meta)
<1>1. /\ n \in 0..MaxUint /\ Fits(top) /\ top.count = n /\ tree = Tree(items, meta, top, 1)
  <2>1. ListFacts(tree, items, p)
    BY ListIs
  <2> QED BY <2>1 DEF ListFacts
<1>2. items \in Seq(Held)
  <2>1. items \in Seq(Targets \ {Undef})
    BY DEF IsList
  <2>2. Targets \ {Undef} \subseteq Held
    BY DEF Held
  <2> HIDE DEF n, top, meta, nodes
  <2> QED BY <2>1, <2>2
<1>3. Closed(nodes, Held)
  <2> HIDE DEF n
  <2> QED BY <1>1, TreesClosed
<1>4. tree \in nodes
  <2>1. meta.kind = "meta"
    BY DEF Meta
  <2> HIDE DEF top, meta
  <2>2. 1 \in Nat \ {0} /\ 1 - 1 + top.count <= n
    BY <1>1
  <2>3. Listed(items, Held, meta, top, 1)
    BY <1>1, <1>2, <2>1, <2>2 DEF Listed
  <2>4. top \in Positions /\ 1 \in Nat
    BY <1>1 DEF Fits
  <2> DEFINE x == <<top, 1>>
  <2>5. x[1] = top /\ x[2] = 1 /\ x \in Positions \X Nat
    BY <2>4
  <2> HIDE DEF x
  <2> QED BY <1>1, <2>3, <2>5 DEF Trees
<1> HIDE DEF nodes
<1>5. ListNodes(tree) \subseteq nodes
  BY <1>3, <1>4, ClosedLayers
<1> QED BY <1>3, <1>5

\* What is put in place of a cell can be decoded too.
LEMMA SubstitutesAre ==
    ASSUME NEW items, NEW p, IsList(root, items, p), NEW cell \in Substitutes
    PROVE  CellLike(cell, Held) /\ (cell.kind = "child" => cell.node \in ListNodes(root))
<1>1. CASE cell = Empty
  BY <1>1 DEF CellLike, Empty
<1>2. CASE cell = Item(CHOOSE t \in Targets : TRUE)
  BY <1>2 DEF CellLike, Held, Item
<1>3. CASE cell = root[0]
  <2>1. ListFacts(root, items, p)
    BY ListIs
  <2>2. Len(items) \in 0..MaxUint /\ root[0] = Meta(Len(items), p)
    BY <2>1 DEF ListFacts
  <2> DEFINE n == Len(items)
  <2>3. n \in 0..MaxUint /\ cell = Meta(n, p)
    BY <1>3, <2>2
  <2> HIDE DEF n
  <2>4. cell.kind # "child"
    BY <2>3 DEF Meta
  <2> QED BY <2>3, <2>4 DEF CellLike
<1>4. CASE cell \in {ChildCell(node) : node \in ListNodes(root)}
  BY <1>4 DEF CellLike, ChildCell
<1> QED BY <1>1, <1>2, <1>3, <1>4 DEF Substitutes

\* Nodes of the present tree that have levels enough below them.
Above(node, height) == \E k \in 0..Width : k + height <= Width /\ node \in Layers(root)[k]

AllDecodable(height) ==
    \A node : Above(node, height) => \A tree \in Offs[height][node] : Decodable(tree)

\* Trees that differ in one cell from a committed List can be decoded.
LEMMA OffsDecodable ==
    ASSUME NEW items, NEW p, IsList(root, items, p)
    PROVE  \A h \in 0..Width : AllDecodable(h)
<1> DEFINE K == {h \in 0..Width : AllDecodable(h)}
<1>1. Width \in Nat
  BY ListAssumption
<1>2. PICK nodes : Closed(nodes, Held) /\ ListNodes(root) \subseteq nodes
  BY ListClosed
<1>3. ASSUME NEW h \in 0..Width, h # 0 => AllDecodable(h - 1), NEW node, Above(node, h),
             NEW tree \in Offs[h][node]
      PROVE  Decodable(tree)
  <2>1. PICK k \in 0..Width : k + h <= Width /\ node \in Layers(root)[k]
    BY <1>3 DEF Above
  <2>2. node \in ListNodes(root) /\ node \in nodes
    BY <1>2, <2>1 DEF ListNodes
  <2>3. Offs[h] = OffsAt(Offs[h - 1], h)
    BY OffsUnfold
  <2>4. tree \in WithCell(node) \/ (h # 0 /\ tree \in WithChild(Offs[h - 1], node))
    <3> DEFINE below == Offs[h - 1]
    <3> HIDE DEF below
    <3>1. OffsAt(below, h)[node] = WithCell(node) \cup IF h = 0 THEN {} ELSE WithChild(below, node)
      BY <2>2 DEF OffsAt
    <3> QED BY <1>3, <2>3, <3>1 DEF below
  <2>5. CASE tree \in WithCell(node)
    <3>1. PICK slot \in Slot : \E cell \in Substitutes : tree = [node EXCEPT ![slot] = cell]
      BY <2>5 DEF WithCell
    <3>2. PICK cell \in Substitutes : tree = [node EXCEPT ![slot] = cell]
      BY <3>1
    <3>3. CellLike(cell, Held) /\ (cell.kind = "child" => cell.node \in nodes)
      BY <1>2, SubstitutesAre
    <3>4. cell.kind = "child" => Decodable(cell.node)
      BY <1>2, <3>3 DEF Decodable
    <3> QED BY <1>2, <2>2, <3>2, <3>3, <3>4, CellChanged
  <2>6. CASE h # 0 /\ tree \in WithChild(Offs[h - 1], node)
    <3>1. PICK slot \in {s \in Slot : node[s].kind = "child"} :
              \E child \in Offs[h - 1][node[slot].node] : tree = [node EXCEPT ![slot] = ChildCell(child)]
      BY <2>6 DEF WithChild
    <3>2. PICK child \in Offs[h - 1][node[slot].node] : tree = [node EXCEPT ![slot] = ChildCell(child)]
      BY <3>1
    <3>3. slot \in Slot /\ node[slot].kind = "child"
      BY <3>1
    <3>4. node[slot].node \in Layers(root)[k + 1]
      <4>1. k + 1 \in 0..Width /\ k + 1 # 0 /\ (k + 1) - 1 = k
        BY <1>1, <2>1, <2>6
      <4>2. Layers(root)[k + 1] = UNION {ChildNodes(n) : n \in Layers(root)[k]}
        BY <4>1, LayersUnfold DEF LayerAt
      <4>3. node[slot].node \in ChildNodes(node)
        BY <3>3 DEF ChildNodes
      <4> QED BY <2>1, <4>2, <4>3
    <3>5. Above(node[slot].node, h - 1)
      <4>1. k + 1 \in 0..Width /\ (k + 1) + (h - 1) <= Width
        BY <1>1, <2>1, <2>6
      <4> QED BY <3>4, <4>1 DEF Above
    <3>6. Decodable(child)
      BY <1>3, <2>6, <3>2, <3>5 DEF AllDecodable
    <3>7. CellLike(ChildCell(child), Held) /\ ChildCell(child).node = child
      BY DEF CellLike, ChildCell
    <3> QED BY <1>2, <2>2, <3>2, <3>3, <3>6, <3>7, CellChanged
  <2> QED BY <2>4, <2>5, <2>6
<1>4. ASSUME NEW h \in 0..Width, h # 0 => AllDecodable(h - 1)
      PROVE  AllDecodable(h)
  BY <1>3, <1>4 DEF AllDecodable
<1>5. 0 \in K
  <2>1. 0 \in 0..Width
    BY <1>1
  <2> QED BY <1>4, <2>1
<1>6. \A h \in 0..(Width - 1) : h \in K => h + 1 \in K
  <2> SUFFICES ASSUME NEW h \in 0..(Width - 1), h \in K PROVE h + 1 \in K
    OBVIOUS
  <2>1. h + 1 \in 0..Width /\ (h + 1) - 1 = h
    BY <1>1
  <2> QED BY <1>4, <2>1
<1>7. 0..Width \subseteq K
  <2> HIDE DEF K
  <2> QED BY <1>1, <1>5, <1>6, Upwards
<1> QED BY <1>7

\* The trees that a Snapshot is asked for can be decoded.
LEMMA AskedDecodable ==
    ASSUME NEW items, NEW p, IsList(root, items, p),
           NEW tree \in OneCellOff \cup {[root EXCEPT ![0].count = n] : n \in 0..MaxUint}
    PROVE  Decodable(tree)
<1>1. /\ RootPosition(root[0].count).height \in 0..Width /\ Len(items) \in 0..MaxUint
      /\ root[0] = Meta(Len(items), p) /\ root \in ListNodes(root)
  <2>1. ListFacts(root, items, p)
    BY ListIs
  <2> QED BY <2>1 DEF ListFacts
<1>2. Width \in Nat /\ 0 \in 0..Width /\ 0 \in Slot
  BY ListAssumption, Spans DEF Slot
<1>3. CASE tree \in OneCellOff
  <2> DEFINE h == RootPosition(root[0].count).height
  <2>1. OneCellOff = Offs[h][root]
    BY DEF OneCellOff, Offs, OffsUpTo, OffsAt
  <2> HIDE DEF h
  <2>2. Above(root, h)
    <3>1. root \in Layers(root)[0]
      BY <1>2, LayersUnfold DEF LayerAt
    <3>2. 0 + h <= Width
      BY <1>1, <1>2 DEF h
    <3> QED BY <1>2, <3>1, <3>2 DEF Above
  <2>3. AllDecodable(h)
    BY <1>1, OffsDecodable DEF h
  <2> QED BY <1>3, <2>1, <2>2, <2>3 DEF AllDecodable
<1>4. CASE tree \in {[root EXCEPT ![0].count = n] : n \in 0..MaxUint}
  <2>1. PICK n \in 0..MaxUint : tree = [root EXCEPT ![0].count = n]
    BY <1>4
  <2>2. tree = [root EXCEPT ![0] = [root[0] EXCEPT !.count = n]]
    BY <2>1
  <2>3. [root[0] EXCEPT !.count = n] = Meta(n, p)
    BY <1>1 DEF Meta
  <2>4. PICK nodes : Closed(nodes, Held) /\ ListNodes(root) \subseteq nodes
    BY ListClosed
  <2>5. CellLike(Meta(n, p), Held) /\ Meta(n, p).kind # "child"
    BY DEF CellLike, Meta
  <2> QED BY <1>1, <1>2, <2>2, <2>3, <2>4, <2>5, CellChanged
<1> QED BY <1>3, <1>4

-----------------------------------------------------------------------------
(* The theorems.                                                            *)

\* The Root is always that of a Commit of the items and the payload it has.
Committed == IsList(root, ListItems(root), root[0].payload)

\* What one operation makes of the items and of the payload.
Stepped(items, p, after, q) ==
    \/ \E targets \in Appends(Len(items)) :
           /\ targets # <<>> /\ Len(items) + Len(targets) <= MaxUint
           /\ \A i \in DOMAIN targets : targets[i] # Undef
           /\ after = items \o targets /\ q = p
    \/ \E count \in 0..MaxUint :
           count <= Len(items) /\ after = SubSeq(items, 1, count) /\ q = p
    \/ \E changes \in Replacements :
           Exchangeable(items, changes) /\ after = ItemsExchanged(items, changes) /\ q = p
    \/ q \in Payloads /\ after = items

\* Every operation that is accepted leaves a committed Root (AppendBatch, Truncate,
\* Apply, SetPayload).
LEMMA NextCommits ==
    ASSUME NEW items, NEW p, IsList(root, items, p), Next
    PROVE  \E after, q : IsList(root', after, q) /\ Stepped(items, p, after, q)
<1>1. Len(items) \in 0..MaxUint /\ root[0].count = Len(items)
  BY ListIs DEF ListFacts
<1>2. CASE AppendStep
  <2>1. PICK targets \in Appends(Len(items)) : Becomes(Appended(targets))
    BY <1>1, <1>2 DEF AppendStep
  <2>2. targets \in Seq(Targets \cup {Undef})
    BY <1>1, <2>1, ListUpdatesAssumption
  <2> DEFINE r == AppendBatch(ListNodes(root), root, targets)
  <2>3. r.ok /\ root' = r.node
    BY <2>1 DEF Becomes, Appended
  <2>4. /\ r.ok <=> /\ targets # <<>> /\ Len(items) + Len(targets) <= MaxUint
                    /\ \A i \in DOMAIN targets : targets[i] # Undef
        /\ r.ok => IsList(r.node, items \o targets, p)
    BY <2>2, AppendIs
  <2> HIDE DEF r
  <2>5. IsList(root', items \o targets, p) /\ Stepped(items, p, items \o targets, p)
    BY <2>1, <2>3, <2>4 DEF Stepped
  <2> QED BY <2>5
<1>3. CASE TruncateStep
  <2>1. PICK count \in 0..MaxUint : Becomes(Truncated(count))
    BY <1>3 DEF TruncateStep
  <2> DEFINE r == Truncate(ListNodes(root), root, count)
  <2>2. r.ok /\ root' = r.node
    BY <2>1 DEF Becomes, Truncated
  <2>3. /\ r.ok <=> count <= Len(items)
        /\ r.ok => IsList(r.node, SubSeq(items, 1, count), p)
    BY TruncateIs
  <2> HIDE DEF r
  <2>4. IsList(root', SubSeq(items, 1, count), p) /\ Stepped(items, p, SubSeq(items, 1, count), p)
    BY <2>2, <2>3 DEF Stepped
  <2> QED BY <2>4
<1>4. CASE ReplaceStep
  <2>1. PICK changes \in Replacements : Becomes(Replaced(changes))
    BY <1>4 DEF ReplaceStep
  <2>2. \A c \in changes : c.index \in Nat /\ c.after \in Targets \cup {Undef}
    BY ListUpdatesAssumption
  <2> DEFINE r == ApplyList(ListNodes(root), root, changes)
  <2>3. r.ok /\ root' = r.node
    BY <2>1 DEF Becomes, Replaced
  <2>4. /\ r.ok <=> Exchangeable(items, changes)
        /\ r.ok => IsList(r.node, ItemsExchanged(items, changes), p)
    BY <2>2, ReplaceIs
  <2> HIDE DEF r
  <2>5. /\ IsList(root', ItemsExchanged(items, changes), p)
        /\ Stepped(items, p, ItemsExchanged(items, changes), p)
    BY <2>3, <2>4 DEF Stepped
  <2> QED BY <2>5
<1>5. CASE PayloadStep
  <2>1. PICK q \in Payloads : Becomes(PayloadSet(q))
    BY <1>5 DEF PayloadStep
  <2> DEFINE r == SetPayload(ListNodes(root), root, q)
  <2>2. root' = r.node
    BY <2>1 DEF Becomes, PayloadSet
  <2>3. IsList(r.node, items, q)
    BY PayloadIs
  <2> HIDE DEF r
  <2>4. IsList(root', items, q) /\ Stepped(items, p, items, q)
    BY <2>2, <2>3 DEF Stepped
  <2> QED BY <2>4
<1> QED BY <1>2, <1>3, <1>4, <1>5 DEF Next

\* A List is committed only if no target is absent (CommitList).
LEMMA InitCommits ==
    ASSUME Init PROVE \E items, p : IsList(root, items, p)
<1>1. PICK items \in Lists, p \in Payloads :
          CommitList(items, p).ok /\ root = CommitList(items, p).node
  BY DEF Init
<1>2. \A i \in DOMAIN items : items[i] # Undef
  BY <1>1 DEF CommitList, Refused
<1>3. items \in Seq(Targets \cup {Undef}) /\ Len(items) <= MaxUint
  BY ListUpdatesAssumption
<1>4. items \in Seq(Targets \ {Undef})
  BY <1>2, <1>3
<1>5. root = BuildList(items, p)
  BY <1>1, <1>2 DEF CommitList, BuildList
<1> QED BY <1>3, <1>4, <1>5 DEF IsList

\* What is committed is known by what the Root holds.
LEMMA CommittedIs ==
    ASSUME NEW items, NEW p, IsList(root, items, p)
    PROVE  ListItems(root) = items /\ root[0].payload = p /\ Committed
<1>1. ListItems(root) = items /\ root[0].payload = p
  BY ListIs DEF ListFacts
<1> QED BY <1>1 DEF Committed

\* The Root of a List is, after any operations, the one a Commit of its items has.
THEOREM Invariance == Spec => []Committed
<1>1. Init => Committed
  BY InitCommits, CommittedIs
<1>2. Committed /\ [Next]_root => Committed'
  <2> SUFFICES ASSUME Committed, [Next]_root PROVE Committed'
    OBVIOUS
  <2>1. IsList(root, ListItems(root), root[0].payload)
    BY DEF Committed
  <2>2. CASE Next
    <3>1. PICK after, q : IsList(root', after, q)
      BY <2>1, <2>2, NextCommits
    <3>2. ListItems(root') = after /\ root'[0].payload = q
      BY <3>1, ListIs DEF ListFacts
    <3> QED BY <3>1, <3>2 DEF Committed
  <2>3. CASE UNCHANGED root
    BY <2>1, <2>3 DEF Committed
  <2> QED BY <2>2, <2>3
<1> QED BY <1>1, <1>2, PTL DEF Spec

\* A List grown in batches, cut and edited has the Root that a Commit of the result has:
\* demoted roots, higher roots and the descent of Truncate leave no trace.
THEOREM RootsAreCanonical == Spec => []HistoryIndependent
<1>1. Committed => HistoryIndependent
  BY DEF Committed, IsList, HistoryIndependent
<1> QED BY Invariance, <1>1, PTL

\* Whether an operation is accepted depends on the items, what it names and the length
\* it asks for, at every length up to the largest count, and never on the tree.
THEOREM OperationsDecide == Spec => []AcceptsExactly
<1>1. Committed => AcceptsExactly
  <2> SUFFICES ASSUME Committed PROVE AcceptsExactly
    OBVIOUS
  <2> DEFINE items == ListItems(root)
             p == root[0].payload
  <2>1. IsList(root, items, p)
    BY DEF Committed
  <2> HIDE DEF items, p
  <2>2. Len(items) \in 0..MaxUint /\ root[0].count = Len(items) /\ items = ListItems(root)
    BY <2>1, ListIs DEF ListFacts
  <2>3. ASSUME NEW targets \in Appends(root[0].count)
        PROVE  Appended(targets).ok <=> Abstract!Appendable(targets)
    <3>1. targets \in Seq(Targets \cup {Undef})
      BY <2>2, ListUpdatesAssumption
    <3>2. Appended(targets).ok <=> /\ targets # <<>> /\ Len(items) + Len(targets) <= MaxUint
                                   /\ \A i \in DOMAIN targets : targets[i] # Undef
      BY <2>1, <3>1, AppendIs DEF Appended
    <3> QED BY <3>2 DEF Abstract!Appendable, items
  <2>4. \A count \in 0..MaxUint : Truncated(count).ok <=> count <= root[0].count
    BY <2>1, <2>2, TruncateIs DEF Truncated
  <2>5. ASSUME NEW changes \in Replacements
        PROVE  Replaced(changes).ok <=> Abstract!Replaceable(changes)
    <3>1. \A c \in changes : c.index \in Nat /\ c.after \in Targets \cup {Undef}
      BY ListUpdatesAssumption
    <3>2. Replaced(changes).ok <=> Exchangeable(items, changes)
      BY <2>1, <3>1, ReplaceIs DEF Replaced
    <3> QED BY <3>2 DEF Abstract!Replaceable, Exchangeable, items
  <2>6. \A q \in Payloads : PayloadSet(q).ok
    BY <2>1, PayloadIs DEF PayloadSet
  <2> QED BY <2>3, <2>4, <2>5, <2>6 DEF AcceptsExactly
<1> QED BY Invariance, <1>1, PTL

\* Each node is written once what is below it is, and nothing is written that the new Root
\* does not reach: what a node refers to was written before it, or is the old Root or a
\* child of a node that the operation read, and so is what it reads (AppendBatch, Truncate,
\* Apply, SetPayload).
THEOREM WritesFollow == Spec => []WritesInOrder
<1>1. Committed => WritesInOrder
  <2> SUFFICES ASSUME Committed, NEW r \in Results, r.ok
               PROVE  LET known == {root} \cup UNION {ChildNodes(n) : n \in r.reads}
                      IN  /\ r.reads \subseteq known
                          /\ \A i \in DOMAIN r.puts :
                                 /\ r.puts[i] \in ListNodes(r.node)
                                 /\ ChildNodes(r.puts[i]) \subseteq
                                        known \cup {r.puts[j] : j \in 1..(i - 1)}
    BY DEF WritesInOrder
  <2> DEFINE items == ListItems(root)
             p == root[0].payload
  <2>1. IsList(root, items, p)
    BY DEF Committed
  <2> HIDE DEF items, p
  <2>2. Len(items) \in 0..MaxUint /\ root[0].count = Len(items)
    BY <2>1, ListIs DEF ListFacts
  <2>3. ASSUME NEW targets \in Appends(root[0].count), Appended(targets).ok
        PROVE  Orderly(Appended(targets), {root}, Width)
    <3>1. targets \in Seq(Targets \cup {Undef})
      BY <2>2, ListUpdatesAssumption
    <3> QED BY <2>1, <2>3, <3>1, AppendIs DEF Appended
  <2>4. ASSUME NEW count \in 0..MaxUint, Truncated(count).ok
        PROVE  Orderly(Truncated(count), {root}, Width)
    BY <2>1, <2>4, TruncateIs DEF Truncated
  <2>5. ASSUME NEW changes \in Replacements, Replaced(changes).ok
        PROVE  Orderly(Replaced(changes), {root}, Width)
    <3>1. \A c \in changes : c.index \in Nat /\ c.after \in Targets \cup {Undef}
      BY ListUpdatesAssumption
    <3> QED BY <2>1, <2>5, <3>1, ReplaceIs DEF Replaced
  <2>10. ASSUME NEW q \in Payloads PROVE Orderly(PayloadSet(q), {root}, Width)
    BY <2>1, PayloadIs DEF PayloadSet
  <2>6. Orderly(r, {root}, Width)
    BY <2>3, <2>4, <2>5, <2>10 DEF Results
  <2>7. ListNodes(r.node) = DownTo(r.node, Width)
    BY DEF ListNodes, DownTo
  <2>8. /\ r.puts \in Seq(ListNodes(r.node))
        /\ r.reads \subseteq {root} \cup UNION {ChildNodes(n) : n \in r.reads}
        /\ \A i \in DOMAIN r.puts :
               ChildNodes(r.puts[i]) \subseteq
                   ({root} \cup UNION {ChildNodes(n) : n \in r.reads}) \cup {r.puts[j] : j \in 1..(i - 1)}
    BY <2>6, <2>7 DEF Orderly, InOrder, KnownFrom
  <2>9. \A i \in DOMAIN r.puts : r.puts[i] \in ListNodes(r.node)
    BY <2>8
  <2> QED BY <2>8, <2>9
<1> QED BY Invariance, <1>1, PTL

\* A range proof verifies for the window and the Root it was made for, and for others only
\* where they have the same bindings in the same places; no window beyond the count has one
\* (ProveRange, VerifyRange).
THEOREM RangesVerify == Spec => []RangesDecide
<1>1. Committed => RangesDecide
  <2> SUFFICES ASSUME Committed PROVE RangesDecide
    OBVIOUS
  <2> DEFINE items == ListItems(root)
             p == root[0].payload
             Answers(window) == {Ranged(window).evidence}
                                    \cup {Ranged(window).segments[i] : i \in DOMAIN Ranged(window).segments}
  <2>1. IsList(root, items, p)
    BY DEF Committed
  <2>2. \A window \in Windows : window[1] \in Nat /\ IsEnd(End(window))
    BY ListUpdatesAssumption DEF End, IsEnd
  <2> HIDE DEF items, p
  <2>3. ASSUME NEW window \in Windows
        PROVE  /\ Ranged(window).ok <=> Bounded(root[0], window[1], End(window))
               /\ Ranged(window).ok =>
                      Ranged(window) = RangeOf(root, window[1], Stop(root[0], End(window)))
    BY <2>1, <2>2, RangeIs DEF Ranged
  <2>4. ASSUME NEW window \in Windows, Bounded(root[0], window[1], End(window))
        PROVE  VerifyRange(root, window[1], End(window), Ranged(window))
    BY <2>1, <2>2, <2>3, <2>4, RangeVerifies
  <2>5. ASSUME NEW other \in Windows, Ranged(other).ok
        PROVE  /\ DOMAIN Ranged(other) = {"ok", "meta", "evidence", "segments"}
               /\ Ranged(other).evidence \in Answers(other)
               /\ Ranged(other).segments \in Seq(Answers(other))
               /\ Ranged(other).evidence.meta = root[0]
    <3> DEFINE stop == Stop(root[0], End(other))
               range == RangeOf(root, other[1], stop)
               segments == range.segments
    <3>1. Ranged(other) = range /\ Bounded(root[0], other[1], End(other))
      BY <2>3, <2>5
    <3>2. /\ DOMAIN range = {"ok", "meta", "evidence", "segments"}
          /\ range.evidence = Prove(ListNodes(root), root, MaxUint)
          /\ segments = [i \in 1..(stop - other[1]) |-> Prove(ListNodes(root), root, other[1] + (i - 1))]
      BY DEF RangeOf
    <3>3. root[0].count \in Nat
      <4>1. Len(items) \in 0..MaxUint /\ root[0].count = Len(items)
        BY <2>1, ListIs DEF ListFacts
      <4> QED BY <4>1
    <3>4. stop - other[1] \in Nat
      <4>1. stop \in Nat /\ other[1] <= stop /\ other[1] \in Nat
        BY <2>2, <3>1, <3>3, BoundsAre
      <4> HIDE DEF stop
      <4> QED BY <4>1
    <3> HIDE DEF range, stop
    <3>5. DOMAIN segments = 1..(stop - other[1])
      BY <3>2
    <3>6. segments \in Seq(Answers(other))
      <4>1. \A i \in DOMAIN segments : segments[i] \in Answers(other)
        BY <3>1
      <4>2. segments = [i \in 1..(stop - other[1]) |-> segments[i]]
        BY <3>2
      <4> DEFINE k == stop - other[1]
      <4>3. k \in Nat /\ DOMAIN segments = 1..k
        BY <3>4, <3>5
      <4> HIDE DEF segments, Answers, k
      <4>4. segments \in [1..k -> Answers(other)]
        BY <4>1, <4>2, <4>3
      <4> QED BY <4>3, <4>4
    <3>7. Prove(ListNodes(root), root, MaxUint).meta = root[0]
      BY <2>1, MetadataIs
    <3> QED BY <3>1, <3>2, <3>6, <3>7
  <2> HIDE DEF Answers
  <2>6. ASSUME NEW window \in Windows, NEW other \in Windows, NEW offer \in Offered(other),
               VerifyRange(root, window[1], End(window), offer)
        PROVE  /\ Bounded(root[0], window[1], End(window)) /\ offer.meta = root[0]
               /\ [i \in DOMAIN offer.segments |-> offer.segments[i].target] = Asked(window)
    <3>1. offer.segments \in Seq(Answers(other))
      BY <2>5, OfferedAre
    <3> DEFINE start == window[1]
               end == End(window)
    <3>2. start \in Nat /\ IsEnd(end) /\ VerifyRange(root, start, end, offer)
      BY <2>2, <2>6
    <3>3. Asked(window) = SubSeq(items, start + 1, Stop(root[0], end))
      BY DEF Asked, items
    <3> HIDE DEF start, end
    <3>4. /\ Bounded(root[0], start, end) /\ offer.meta = root[0]
          /\ [i \in DOMAIN offer.segments |-> offer.segments[i].target]
                 = SubSeq(items, start + 1, Stop(root[0], end))
      BY <2>1, <3>1, <3>2, RangeHolds
    <3> QED BY <3>3, <3>4 DEF start, end
  <2>7. ASSUME NEW window \in Windows, Bounded(root[0], window[1], End(window)),
               NEW tree \in OtherRoots \ {root}
        PROVE  ~VerifyRange(tree, window[1], End(window), Ranged(window))
    <3>1. Ranged(window).evidence.meta = root[0]
      BY <2>3, <2>5, <2>7
    <3>2. tree[0] # root[0]
      BY <2>1, OthersAre
    <3>3. VerifyRange(tree, window[1], End(window), Ranged(window)) => tree[0] = root[0]
      BY <3>1 DEF VerifyRange, Verify, Opens, Opened
    <3> QED BY <3>2, <3>3
  <2> QED BY <2>3, <2>4, <2>6, <2>7 DEF RangesDecide
<1> QED BY Invariance, <1>1, PTL

\* In every reachable state: a Snapshot refuses each tree that differs in one cell or in
\* its count, unless it is the Root a Commit of other items has, and it is faithful to
\* the present one within the bound that is asked for (snapshotItems, SnapshotBounded).
THEOREM SnapshotsTell == Spec => []SnapshotsFaithful
<1>1. Committed => SnapshotsFaithful
  <2> SUFFICES ASSUME Committed PROVE SnapshotsFaithful
    OBVIOUS
  <2> DEFINE items == ListItems(root)
             p == root[0].payload
  <2>1. IsList(root, items, p)
    BY DEF Committed
  <2> HIDE DEF items, p
  <2>2. ASSUME NEW tree \in OneCellOff \cup {[root EXCEPT ![0].count = n] : n \in 0..MaxUint}
        PROVE  LET walk == Snapshot(ListNodes(tree), tree, MaxUint) IN
               walk.ok <=> /\ tree[0].kind = "meta"
                           /\ Len(ListItems(tree)) <= MaxUint
                           /\ tree = BuildList(ListItems(tree), tree[0].payload)
    <3>1. PICK nodes : tree \in nodes /\ Closed(nodes, Held)
      BY <2>1, AskedDecodable DEF Decodable
    <3> QED BY <3>1, SnapshotTells
  <2>3. /\ Len(items) \in 0..MaxUint /\ root[0] = Meta(Len(items), p) /\ root \in ListNodes(root)
        /\ ListItems(root) = items /\ MaxUint \in Nat
    <3>1. ListFacts(root, items, p)
      BY <2>1, ListIs
    <3> QED BY <3>1, Spans DEF ListFacts
  <2>4. root[0].kind = "meta" /\ root[0].count = Len(items) /\ root[0].payload = p
    BY <2>3 DEF Meta
  <2>5. Loaded(ListNodes(root), root)
    BY <2>3 DEF Loaded
  <2>6. Snapshot(ListNodes(root), root, MaxUint) = [ok |-> TRUE, items |-> items]
    <3>1. PICK nodes : root \in nodes /\ Closed(nodes, Held)
      BY <2>1, <2>3, ListClosed
    <3>2. Len(items) <= MaxUint /\ root = BuildList(items, p)
      BY <2>1 DEF IsList
    <3> QED BY <2>3, <2>4, <3>1, <3>2, SnapshotTells
  <2>7. ASSUME NEW bound \in {root[0].count, root[0].count - 1}
        PROVE  Snapshot(ListNodes(root), root, bound)
                   = IF bound < root[0].count THEN [ok |-> FALSE, items |-> <<>>]
                     ELSE [ok |-> TRUE, items |-> ListItems(root)]
    <3> DEFINE n == root[0].count
               top == RootPosition(n)
               found == Walks(ListNodes(root))[top.height][root][top]
    <3>1. n \in Nat /\ n <= MaxUint /\ (bound = n \/ bound = n - 1)
      BY <2>3, <2>4
    <3> HIDE DEF n, found
    <3>2. \A b : Snapshot(ListNodes(root), root, b) =
                     IF n > b THEN [ok |-> FALSE, items |-> <<>>] ELSE found
      BY <2>4, <2>5 DEF Snapshot, n, found, top
    <3>3. CASE bound = n - 1
      <4>1. n > bound /\ bound < n
        BY <3>1, <3>3
      <4> QED BY <3>2, <4>1 DEF n
    <3>4. CASE bound = n
      <4>1. ~(n > bound) /\ ~(bound < n) /\ ~(n > MaxUint)
        BY <2>3, <3>1, <3>4
      <4>2. Snapshot(ListNodes(root), root, bound) = Snapshot(ListNodes(root), root, MaxUint)
        BY <3>2, <4>1
      <4> QED BY <2>3, <2>6, <4>1, <4>2 DEF n
    <3> QED BY <3>1, <3>3, <3>4
  <2> QED BY <2>2, <2>7 DEF SnapshotsFaithful
<1> QED BY Invariance, <1>1, PTL

\* A List is the sequence of its items beside a payload: each operation does to them
\* what the operation on sequences does, and the payload survives Append and Truncate.
THEOREM ImplementsList == Spec => ImplementsArcs
<1>1. Committed => Abstract!Init
  BY DEF Committed, IsList, Abstract!Init
<1>2. Committed /\ [Next]_root => [Abstract!Next]_<<ListItems(root), root[0].payload>>
  <2> SUFFICES ASSUME Committed, [Next]_root
               PROVE  [Abstract!Next]_<<ListItems(root), root[0].payload>>
    OBVIOUS
  <2> DEFINE items == ListItems(root)
             p == root[0].payload
  <2>1. IsList(root, items, p)
    BY DEF Committed
  <2>2. CASE UNCHANGED root
    BY <2>2 DEF ListItems, ListNodes
  <2>3. CASE Next
    <3>1. PICK after, q : IsList(root', after, q) /\ Stepped(items, p, after, q)
      BY <2>1, <2>3, NextCommits
    <3>2. ListItems(root)' = after /\ root'[0].payload = q
      BY <3>1, ListIs DEF ListFacts
    <3>3. CASE \E targets \in Appends(Len(items)) :
                   /\ targets # <<>> /\ Len(items) + Len(targets) <= MaxUint
                   /\ \A i \in DOMAIN targets : targets[i] # Undef
                   /\ after = items \o targets /\ q = p
      <4>1. PICK targets \in Appends(Len(items)) :
                /\ targets # <<>> /\ Len(items) + Len(targets) <= MaxUint
                /\ \A i \in DOMAIN targets : targets[i] # Undef
                /\ after = items \o targets /\ q = p
        BY <3>3
      <4>2. Abstract!AppendBatch(targets)
        BY <3>2, <4>1 DEF Abstract!AppendBatch, Abstract!Appendable
      <4> QED BY <4>1, <4>2 DEF Abstract!Next
    <3>4. CASE \E count \in 0..MaxUint :
                   count <= Len(items) /\ after = SubSeq(items, 1, count) /\ q = p
      BY <3>2, <3>4 DEF Abstract!Next, Abstract!Truncate
    <3>5. CASE \E changes \in Replacements :
                   Exchangeable(items, changes) /\ after = ItemsExchanged(items, changes) /\ q = p
      <4>1. PICK changes \in Replacements :
                Exchangeable(items, changes) /\ after = ItemsExchanged(items, changes) /\ q = p
        BY <3>5
      <4>2. Abstract!Replace(changes)
        BY <3>2, <4>1 DEF Abstract!Replace, Abstract!Replaceable, Exchangeable, ItemsExchanged
      <4> QED BY <4>1, <4>2 DEF Abstract!Next
    <3>6. CASE q \in Payloads /\ after = items
      BY <3>2, <3>6 DEF Abstract!Next, Abstract!SetPayload
    <3> QED BY <3>1, <3>3, <3>4, <3>5, <3>6 DEF Stepped
  <2> QED BY <2>2, <2>3
<1>3. Init => Committed
  BY InitCommits, CommittedIs
<1> QED BY Invariance, <1>1, <1>2, <1>3, PTL DEF Spec, ImplementsArcs, Abstract!Spec
=============================================================================
