------------------------- MODULE MapUpdates_proofs -------------------------
(***************************************************************************)
(* For every number of slots, every coordinate and every history of        *)
(* batches: the Root is the one a Commit of its bindings has, whole        *)
(* batches are accepted for what the bindings are and nothing else, and    *)
(* the tree implements a function from labels to targets.                  *)
(*                                                                         *)
(* The trees are recursive, so each recursion over depths is shown to have *)
(* a solution (NodesExist, EditsExist, LayersExist) and to unfold once     *)
(* (MapNodeIs, EditIs); the rest goes from the last depth to the first.    *)
(*                                                                         *)
(* Then what evidence about such a Map proves: whoever made it up, Verify  *)
(* accepts only what the Map holds, and an honest lookup has evidence of   *)
(* every label that no collision hides.  And what a Snapshot accepts: of   *)
(* nodes from anywhere, the Roots that a Commit of their bindings has, and *)
(* no others.                                                              *)
(***************************************************************************)
EXTENDS MapUpdates, SequenceLemmas, FiniteSetTheorems

-----------------------------------------------------------------------------
(* The nodes of a Map.                                                      *)

CellFrom(f, group, depth, slot) ==
    LET routed == Routed(group, depth, slot) IN
    IF routed = {} THEN Empty
    ELSE IF Several(routed) THEN ChildCell(f[depth + 1][routed])
    ELSE Leaf(CHOOSE b \in routed : TRUE)

NodesAt(f, S, depth) ==
    [group \in SUBSET S |->
        IF depth = Levels THEN Bare ELSE [slot \in Slot |-> CellFrom(f, group, depth, slot)]]

\* f has the nodes of groups of S from a depth on.
NodesFrom(f, S, k) == f = [depth \in k..Levels |-> NodesAt(f, S, depth)]

\* The recursion of mapNode has a solution.
LEMMA NodesExist ==
    ASSUME NEW S
    PROVE  NodesFrom(MapNodes(S), S, 0)
<1> USE MapAssumption
<1> DEFINE K == {k \in 0..Levels : \E f : NodesFrom(f, S, k)}
<1>1. Levels \in K
  <2> DEFINE f == [depth \in Levels..Levels |-> [group \in SUBSET S |-> Bare]]
  <2>1. NodesFrom(f, S, Levels)
    BY DEF NodesFrom, NodesAt
  <2> QED BY <2>1
<1>2. \A k \in 0..(Levels - 1) : k + 1 \in K => k \in K
  <2> SUFFICES ASSUME NEW k \in 0..(Levels - 1), k + 1 \in K PROVE k \in K
    OBVIOUS
  <2>1. PICK f : NodesFrom(f, S, k + 1)
    OBVIOUS
  <2> DEFINE g == [depth \in k..Levels |-> IF depth = k THEN NodesAt(f, S, k) ELSE f[depth]]
  <2>2. \A depth \in (k + 1)..Levels : g[depth] = f[depth] /\ depth # k /\ depth \in k..Levels
    OBVIOUS
  <2>3. \A depth \in k..Levels : depth # Levels => depth + 1 \in (k + 1)..Levels
    OBVIOUS
  <2>4. \A depth \in k..Levels : NodesAt(g, S, depth) = NodesAt(f, S, depth)
    <3> HIDE DEF g
    <3> SUFFICES ASSUME NEW depth \in k..Levels PROVE NodesAt(g, S, depth) = NodesAt(f, S, depth)
      OBVIOUS
    <3>1. CASE depth = Levels
      BY <3>1 DEF NodesAt
    <3>2. CASE depth # Levels
      <4>1. g[depth + 1] = f[depth + 1]
        BY <2>2, <2>3, <3>2
      <4>2. \A group, slot : CellFrom(g, group, depth, slot) = CellFrom(f, group, depth, slot)
        BY <4>1 DEF CellFrom
      <4> QED BY <3>2, <4>2 DEF NodesAt
    <3> QED BY <3>1, <3>2
  <2>5. \A depth \in (k + 1)..Levels : f[depth] = NodesAt(f, S, depth)
    BY <2>1 DEF NodesFrom
  <2>6. \A depth \in k..Levels : g[depth] = NodesAt(f, S, depth)
    BY <2>5
  <2>7. g = [depth \in k..Levels |-> NodesAt(g, S, depth)]
    <3>1. g = [depth \in k..Levels |-> g[depth]]
      OBVIOUS
    <3> HIDE DEF g
    <3> QED BY <2>4, <2>6, <3>1
  <2>8. NodesFrom(g, S, k)
    <3> HIDE DEF g
    <3> QED BY <2>7 DEF NodesFrom
  <2> HIDE DEF g
  <2> QED BY <2>8
<1>3. 0 \in K
  <2> HIDE DEF K
  <2> QED BY <1>1, <1>2, Downwards
<1>4. \E f : NodesFrom(f, S, 0)
  BY <1>3
<1>5. MapNodes(S) = CHOOSE f : NodesFrom(f, S, 0)
  BY DEF MapNodes, NodesFrom, NodesAt, CellFrom
<1> QED BY <1>4, <1>5

\* A node does not depend on the other bindings of the Map.
LEMMA NodesAgree ==
    ASSUME NEW S, NEW T, S \subseteq T
    PROVE  \A depth \in 0..Levels : \A group \in SUBSET S :
               MapNodes(S)[depth][group] = MapNodes(T)[depth][group]
<1> USE MapAssumption
<1> DEFINE f == MapNodes(S)  g == MapNodes(T)
           K == {k \in 0..Levels : \A group \in SUBSET S : f[k][group] = g[k][group]}
<1>1. \A depth \in 0..Levels : f[depth] = NodesAt(f, S, depth) /\ g[depth] = NodesAt(g, T, depth)
  <2>1. NodesFrom(f, S, 0) /\ NodesFrom(g, T, 0)
    BY NodesExist
  <2> HIDE DEF f, g
  <2> QED BY <2>1 DEF NodesFrom
<1> HIDE DEF f, g
<1>2. Levels \in K
  <2>1. Levels \in 0..Levels
    OBVIOUS
  <2>2. f[Levels] = NodesAt(f, S, Levels) /\ g[Levels] = NodesAt(g, T, Levels)
    BY <1>1, <2>1
  <2>3. /\ NodesAt(f, S, Levels) = [group \in SUBSET S |-> Bare]
        /\ NodesAt(g, T, Levels) = [group \in SUBSET T |-> Bare]
    BY DEF NodesAt
  <2>4. \A group \in SUBSET S : f[Levels][group] = Bare /\ g[Levels][group] = Bare
    BY <2>2, <2>3
  <2> QED BY <2>1, <2>4
<1>3. \A k \in 0..(Levels - 1) : k + 1 \in K => k \in K
  <2> SUFFICES ASSUME NEW k \in 0..(Levels - 1), k + 1 \in K,
                      NEW group \in SUBSET S
               PROVE  f[k][group] = g[k][group]
    OBVIOUS
  <2>1. k # Levels /\ k \in 0..Levels
    OBVIOUS
  <2>2. \A slot \in Slot : CellFrom(f, group, k, slot) = CellFrom(g, group, k, slot)
    <3> TAKE slot \in Slot
    <3>1. Routed(group, k, slot) \in SUBSET S
      BY DEF Routed
    <3>2. f[k + 1][Routed(group, k, slot)] = g[k + 1][Routed(group, k, slot)]
      BY <3>1
    <3> QED BY <3>2 DEF CellFrom
  <2>3. f[k] = NodesAt(f, S, k) /\ g[k] = NodesAt(g, T, k)
    BY <1>1, <2>1
  <2>4. NodesAt(f, S, k)[group] = [slot \in Slot |-> CellFrom(f, group, k, slot)]
    BY <2>1 DEF NodesAt
  <2>5. NodesAt(g, T, k)[group] = [slot \in Slot |-> CellFrom(g, group, k, slot)]
    BY <2>1 DEF NodesAt
  <2> QED BY <2>2, <2>3, <2>4, <2>5
<1>4. 0..Levels \subseteq K
  <2> HIDE DEF K
  <2> QED BY <1>2, <1>3, Downwards
<1> QED BY <1>4 DEF f, g

\* builder.mapNode, without recursion: a cell holds what is routed to it.
LEMMA MapNodeIs ==
    ASSUME NEW items, NEW depth \in 0..(Levels - 1)
    PROVE  MapNode(items, depth) =
               [slot \in Slot |-> Fresh(Routed(items, depth, slot), depth + 1)]
<1> USE MapAssumption
<1> DEFINE f == MapNodes(items)
<1>1. depth \in 0..Levels /\ depth + 1 \in 0..Levels /\ depth # Levels
  OBVIOUS
<1>2. f[depth] = NodesAt(f, items, depth)
  <2>1. NodesFrom(f, items, 0)
    BY NodesExist
  <2> HIDE DEF f
  <2> QED BY <1>1, <2>1 DEF NodesFrom
<1>3. f[depth][items] = [slot \in Slot |-> CellFrom(f, items, depth, slot)]
  <2> HIDE DEF f
  <2> QED BY <1>1, <1>2 DEF NodesAt
<1>4. \A slot \in Slot :
         CellFrom(f, items, depth, slot) = Fresh(Routed(items, depth, slot), depth + 1)
  <2> TAKE slot \in Slot
  <2> DEFINE routed == Routed(items, depth, slot)
  <2>1. routed \subseteq items
    BY DEF Routed
  <2>2. MapNodes(routed)[depth + 1][routed] = f[depth + 1][routed]
    <3> HIDE DEF routed
    <3> QED BY <1>1, <2>1, NodesAgree
  <2> QED BY <2>2 DEF CellFrom, Fresh, MapNode
<1> QED BY <1>3, <1>4 DEF MapNode

-----------------------------------------------------------------------------
(* Groups of bindings.                                                      *)

Arcs == [label : Labels, target : Targets]
Changes == [label : Labels, before : Targets \cup {Undef}, after : Targets \cup {Undef}]

\* The bindings or changes of a set have the same first digits.
Sharing(S, depth) ==
    \A x, y \in S : \A d \in 0..(depth - 1) : Digit(x.label, d) = Digit(y.label, d)

Labelled(S) == \A x \in S : x.label \in Labels

\* A label is routed to a slot of every node on its way (digit).
LEMMA DigitType ==
    \A label \in Labels : \A depth \in 0..(Levels - 1) : Digit(label, depth) \in Slot
<1> SUFFICES ASSUME NEW label \in Labels, NEW depth \in 0..(Levels - 1)
             PROVE  Digit(label, depth) \in Slot
  OBVIOUS
<1>1. CoordinateOf[label] \in [1..Levels -> Slot] /\ depth + 1 \in 1..Levels
  BY MapAssumption
<1> QED BY <1>1 DEF Digit

\* Labels with the same digits have the same coordinate.
LEMMA SameDigits ==
    ASSUME NEW x, NEW y, x.label \in Labels, y.label \in Labels,
           \A d \in 0..(Levels - 1) : Digit(x.label, d) = Digit(y.label, d)
    PROVE  SameCoordinate(x, y)
<1>1. CoordinateOf[x.label] \in [1..Levels -> Slot] /\ CoordinateOf[y.label] \in [1..Levels -> Slot]
  BY MapAssumption
<1>2. \A i \in 1..Levels : CoordinateOf[x.label][i] = CoordinateOf[y.label][i]
  <2> TAKE i \in 1..Levels
  <2>1. i - 1 \in 0..(Levels - 1) /\ (i - 1) + 1 = i
    BY MapAssumption
  <2>2. Digit(x.label, i - 1) = Digit(y.label, i - 1)
    BY <2>1
  <2> QED BY <2>1, <2>2 DEF Digit
<1>3. CoordinateOf[x.label] = CoordinateOf[y.label]
  <2>1. /\ CoordinateOf[x.label] = [i \in 1..Levels |-> CoordinateOf[x.label][i]]
        /\ CoordinateOf[y.label] = [i \in 1..Levels |-> CoordinateOf[y.label][i]]
    BY <1>1
  <2> QED BY <1>2, <2>1
<1> QED BY <1>3 DEF SameCoordinate

\* Several bindings part before the last digit: mapNode never runs out of digits.
LEMMA SeveralPart ==
    ASSUME NEW S, Labelled(S), Unambiguous(S), NEW depth \in 0..Levels,
           Sharing(S, depth), Several(S)
    PROVE  depth \in 0..(Levels - 1)
<1> USE MapAssumption
<1> SUFFICES ASSUME depth = Levels PROVE FALSE
  OBVIOUS
<1>1. PICK x \in S, y \in S : x # y
  BY DEF Several
<1>2. SameCoordinate(x, y)
  BY SameDigits DEF Labelled, Sharing
<1> QED BY <1>1, <1>2 DEF Unambiguous

\* What is routed to a slot shares one digit more.
LEMMA RoutedShares ==
    ASSUME NEW S, NEW depth \in 0..(Levels - 1), Sharing(S, depth), NEW slot
    PROVE  /\ Sharing(Routed(S, depth, slot), depth + 1)
           /\ Routed(S, depth, slot) \subseteq S
BY MapAssumption DEF Sharing, Routed

\* A cell tells how many bindings are below it (mapCell, childCell).
LEMMA FreshKind ==
    ASSUME NEW items, NEW depth
    PROVE  /\ items = {} => Fresh(items, depth) = Empty
           /\ items # {} /\ ~Several(items) =>
                \E b \in items : items = {b} /\ Fresh(items, depth) = Leaf(b)
           /\ Several(items) => Fresh(items, depth) = ChildCell(MapNode(items, depth))
<1>1. items # {} /\ ~Several(items) => \E b \in items : items = {b}
  BY DEF Several
<1>2. ASSUME NEW b \in items, items = {b}
      PROVE  (CHOOSE x \in items : TRUE) = b
  BY <1>2
<1>3. Several(items) => items # {}
  BY DEF Several
<1> QED BY <1>1, <1>2, <1>3 DEF Fresh

\* What the three sorts of cells hold (emptyCell, leafCell, childCell).
LEMMA CellKinds ==
    /\ Empty.kind = "empty"
    /\ \A b : Leaf(b).kind = "leaf" /\ LeafBindings(Leaf(b)) = {Binding(b.label, b.target)}
    /\ \A n : ChildCell(n).kind = "child" /\ ChildCell(n).node = n
    /\ LeafBindings(Empty) = {}
BY DEF Empty, Leaf, ChildCell, LeafBindings

\* A node that is built from bindings collapses to the cell that is built from them.
LEMMA CollapseFresh ==
    ASSUME NEW items, Labelled(items), NEW depth \in 0..(Levels - 1)
    PROVE  Collapsed(MapNode(items, depth)) = Fresh(items, depth)
<1> DEFINE cells == MapNode(items, depth)
           routed(s) == Routed(items, depth, s)
           used == {s \in Slot : cells[s].kind # "empty"}
<1>1. \A s \in Slot : cells[s] = Fresh(routed(s), depth + 1)
  BY MapNodeIs
<1>2. \A b \in items : Digit(b.label, depth) \in Slot /\ b \in routed(Digit(b.label, depth))
  BY DigitType DEF Labelled, Routed
<1>3. \A s : routed(s) \subseteq items
  BY DEF Routed
<1>4. \A s \in Slot : cells[s].kind # "empty" <=> routed(s) # {}
  <2> TAKE s \in Slot
  <2> HIDE DEF routed, cells
  <2>1. CASE routed(s) = {}
    BY <1>1, <2>1, FreshKind, CellKinds
  <2>2. CASE routed(s) # {} /\ ~Several(routed(s))
    <3>1. \E b \in routed(s) : Fresh(routed(s), depth + 1) = Leaf(b)
      BY <2>2, FreshKind
    <3> QED BY <1>1, <2>2, <3>1, CellKinds
  <2>3. CASE Several(routed(s))
    <3>1. Fresh(routed(s), depth + 1) = ChildCell(MapNode(routed(s), depth + 1))
      BY <2>3, FreshKind
    <3>2. routed(s) # {}
      BY <2>3 DEF Several
    <3> QED BY <1>1, <3>1, <3>2, CellKinds
  <2> QED BY <2>1, <2>2, <2>3
<1>5. \A s \in Slot : s \in used <=> routed(s) # {}
  BY <1>4
<1> HIDE DEF cells, routed
<1>6. CASE items = {}
  <2>1. used = {}
    BY <1>3, <1>5, <1>6
  <2> QED BY <1>6, <2>1, FreshKind DEF Collapsed, cells
<1>7. CASE items # {} /\ ~Several(items)
  <2>1. PICK b \in items : items = {b} /\ Fresh(items, depth) = Leaf(b)
    BY <1>7, FreshKind
  <2> DEFINE s == Digit(b.label, depth)
  <2>2. s \in Slot /\ routed(s) = {b}
    BY <1>2, <1>3, <2>1
  <2>3. \A t \in Slot : t # s => routed(t) = {}
    <3> TAKE t \in Slot
    <3> QED BY <2>1 DEF routed, Routed
  <2>4. used = {s}
    <3> HIDE DEF s
    <3> QED BY <1>5, <2>2, <2>3
  <2>5. cells[s] = Leaf(b)
    <3>1. ~Several({b})
      BY DEF Several
    <3>2. \E x \in {b} : Fresh({b}, depth + 1) = Leaf(x)
      BY <3>1, FreshKind
    <3> QED BY <1>1, <2>2, <3>2
  <2>6. (CHOOSE x \in used : TRUE) = s
    <3> HIDE DEF used, s
    <3> QED BY <2>4
  <2>7. Collapsed(cells) = cells[s]
    <3> HIDE DEF s
    <3> QED BY <2>4, <2>5, <2>6, CellKinds DEF Collapsed
  <2> QED BY <2>1, <2>5, <2>7 DEF cells
<1>8. CASE Several(items)
  <2>1. PICK b \in items : TRUE
    BY <1>8 DEF Several
  <2>2. used # {}
    BY <1>2, <1>5, <2>1
  <2>3. ~\E s \in used : used = {s} /\ cells[s].kind = "leaf"
    <3> SUFFICES ASSUME NEW s \in used, used = {s}, cells[s].kind = "leaf" PROVE FALSE
      OBVIOUS
    <3>1. routed(s) = items
      BY <1>2, <1>3, <1>5
    <3>2. cells[s].kind = "child"
      BY <1>1, <1>8, <3>1, FreshKind, CellKinds
    <3> QED BY <3>2
  <2>4. Fresh(items, depth) = ChildCell(cells)
    BY <1>8, FreshKind DEF cells
  <2> QED BY <2>2, <2>3, <2>4 DEF Collapsed, cells
<1> QED BY <1>6, <1>7, <1>8

-----------------------------------------------------------------------------
(* The edit.                                                                *)

\* Labels of one coordinate are routed alike.
LEMMA SameRoute ==
    \A x, y, depth : SameCoordinate(x, y) => Digit(x.label, depth) = Digit(y.label, depth)
BY DEF SameCoordinate, Digit

\* What a batch makes of a Map is a Map (nodeEdit.mapNode).
LEMMA ChangedIsMap ==
    ASSUME NEW items \in SUBSET Arcs, NEW group \in SUBSET Changes,
           Unambiguous(items), Unambiguous(group)
    PROVE  /\ Changed(items, group) \in SUBSET Arcs
           /\ Unambiguous(Changed(items, group))
           /\ \A depth : Sharing(items \cup group, depth) => Sharing(Changed(items, group), depth)
<1> DEFINE set == {x \in group : x.after # Undef}
           new == {Binding(c.label, c.after) : c \in set}
           kept == {b \in items : \A c \in group : ~SameCoordinate(b, c)}
<1>1. \A c \in set : c.label \in Labels /\ c.after \in Targets
  BY DEF Changes
<1>2. new \in SUBSET Arcs
  BY <1>1 DEF Arcs, Binding
<1>3. \A b \in new : \E c \in group : b.label = c.label /\ b = Binding(c.label, c.after)
  BY DEF Binding
<1>4. Changed(items, group) = kept \cup new
  BY DEF Changed
<1>5. Unambiguous(kept \cup new)
  <2> SUFFICES ASSUME NEW x \in kept \cup new, NEW y \in kept \cup new, SameCoordinate(x, y)
               PROVE  x = y
    BY DEF Unambiguous
  <2>1. CASE x \in kept /\ y \in kept
    BY <2>1 DEF Unambiguous
  <2>2. CASE x \in new /\ y \in new
    <3> HIDE DEF new
    <3>1. PICK c \in group, d \in group : /\ x.label = c.label /\ x = Binding(c.label, c.after)
                                          /\ y.label = d.label /\ y = Binding(d.label, d.after)
      BY <1>3, <2>2
    <3>2. SameCoordinate(c, d)
      BY <3>1 DEF SameCoordinate
    <3> QED BY <3>1, <3>2 DEF Unambiguous
  <2>3. CASE x \in kept /\ y \in new
    BY <1>3, <2>3 DEF SameCoordinate
  <2>4. CASE x \in new /\ y \in kept
    BY <1>3, <2>4 DEF SameCoordinate
  <2> QED BY <2>1, <2>2, <2>3, <2>4
<1>6. ASSUME NEW depth, Sharing(items \cup group, depth)
      PROVE  Sharing(kept \cup new, depth)
  <2>1. \A b \in kept \cup new : \E x \in items \cup group : b.label = x.label
    BY <1>3
  <2> HIDE DEF kept, new
  <2> QED BY <1>6, <2>1 DEF Sharing
<1> QED BY <1>2, <1>4, <1>5, <1>6

\* The changes of a slot change what is routed to it.
LEMMA ChangedRouted ==
    ASSUME NEW items, NEW group, NEW depth, NEW slot
    PROVE  Routed(Changed(items, group), depth, slot) =
               Changed(Routed(items, depth, slot), Routed(group, depth, slot))
<1> DEFINE I == Routed(items, depth, slot)  G == Routed(group, depth, slot)
<1>1. \A b : b \in {x \in items : \A c \in group : ~SameCoordinate(x, c)} /\ Digit(b.label, depth) = slot
         <=> b \in {x \in I : \A c \in G : ~SameCoordinate(x, c)}
  BY SameRoute DEF Routed
<1>2. \A b : b \in {Binding(c.label, c.after) : c \in {x \in group : x.after # Undef}}
                 /\ Digit(b.label, depth) = slot
         <=> b \in {Binding(c.label, c.after) : c \in {x \in G : x.after # Undef}}
  BY DEF Routed, Binding
<1> QED BY <1>1, <1>2 DEF Changed, Routed

\* A change expects the same of the Map and of its own slot.
LEMMA ExpectRouted ==
    ASSUME NEW items, NEW depth, NEW c
    PROVE  Expect(items, c) <=> Expect(Routed(items, depth, Digit(c.label, depth)), c)
<1> DEFINE I == Routed(items, depth, Digit(c.label, depth))
<1>1. {b \in items : SameCoordinate(b, c)} = {b \in I : SameCoordinate(b, c)}
  BY SameRoute DEF Routed
<1> QED BY <1>1 DEF Expect

EditsAt(f, store, changes, depth) ==
    [node \in store |-> [group \in SUBSET changes |->
        IF depth = Levels THEN Refused ELSE EditNode(f[depth + 1], node, depth, group)]]

EditsFrom(f, store, changes, k) ==
    f = [depth \in k..Levels |-> EditsAt(f, store, changes, depth)]

\* The recursion of nodeEdit.mapNode has a solution.
LEMMA EditsExist ==
    ASSUME NEW store, NEW changes
    PROVE  EditsFrom(Edits(store, changes), store, changes, 0)
<1> USE MapAssumption
<1> DEFINE K == {k \in 0..Levels : \E f : EditsFrom(f, store, changes, k)}
<1>1. Levels \in K
  <2> DEFINE f == [depth \in Levels..Levels |->
                      [node \in store |-> [group \in SUBSET changes |-> Refused]]]
  <2>1. EditsFrom(f, store, changes, Levels)
    BY DEF EditsFrom, EditsAt
  <2> QED BY <2>1
<1>2. \A k \in 0..(Levels - 1) : k + 1 \in K => k \in K
  <2> SUFFICES ASSUME NEW k \in 0..(Levels - 1), k + 1 \in K PROVE k \in K
    OBVIOUS
  <2>1. PICK f : EditsFrom(f, store, changes, k + 1)
    OBVIOUS
  <2> DEFINE g == [depth \in k..Levels |->
                      IF depth = k THEN EditsAt(f, store, changes, k) ELSE f[depth]]
  <2>2. \A depth \in (k + 1)..Levels : g[depth] = f[depth] /\ depth # k /\ depth \in k..Levels
    OBVIOUS
  <2>3. \A depth \in k..Levels : depth # Levels => depth + 1 \in (k + 1)..Levels
    OBVIOUS
  <2>4. \A depth \in k..Levels : EditsAt(g, store, changes, depth) = EditsAt(f, store, changes, depth)
    <3> HIDE DEF g
    <3> SUFFICES ASSUME NEW depth \in k..Levels
                 PROVE  EditsAt(g, store, changes, depth) = EditsAt(f, store, changes, depth)
      OBVIOUS
    <3>1. CASE depth = Levels
      BY <3>1 DEF EditsAt
    <3>2. CASE depth # Levels
      BY <2>2, <2>3, <3>2 DEF EditsAt
    <3> QED BY <3>1, <3>2
  <2>5. \A depth \in (k + 1)..Levels : f[depth] = EditsAt(f, store, changes, depth)
    BY <2>1 DEF EditsFrom
  <2>6. \A depth \in k..Levels : g[depth] = EditsAt(f, store, changes, depth)
    BY <2>5
  <2>7. g = [depth \in k..Levels |-> EditsAt(g, store, changes, depth)]
    <3>1. g = [depth \in k..Levels |-> g[depth]]
      OBVIOUS
    <3> HIDE DEF g
    <3> QED BY <2>4, <2>6, <3>1
  <2>8. EditsFrom(g, store, changes, k)
    <3> HIDE DEF g
    <3> QED BY <2>7 DEF EditsFrom
  <2> HIDE DEF g
  <2> QED BY <2>8
<1>3. 0 \in K
  <2> HIDE DEF K
  <2> QED BY <1>1, <1>2, Downwards
<1>4. \E f : EditsFrom(f, store, changes, 0)
  BY <1>3
<1>5. Edits(store, changes) = CHOOSE f : EditsFrom(f, store, changes, 0)
  BY DEF Edits, EditsFrom, EditsAt
<1> QED BY <1>4, <1>5

\* nodeEdit.mapNode, without recursion.
LEMMA EditIs ==
    ASSUME NEW store, NEW changes, NEW depth \in 0..(Levels - 1),
           NEW node \in store, NEW group \in SUBSET changes
    PROVE  /\ Edits(store, changes)[depth][node][group] =
                  EditNode(Edits(store, changes)[depth + 1], node, depth, group)
           /\ DOMAIN Edits(store, changes)[depth + 1] = store
<1> USE MapAssumption
<1> DEFINE f == Edits(store, changes)
<1>1. depth \in 0..Levels /\ depth + 1 \in 0..Levels /\ depth # Levels
  OBVIOUS
<1>2. f[depth] = EditsAt(f, store, changes, depth) /\ f[depth + 1] = EditsAt(f, store, changes, depth + 1)
  <2>1. EditsFrom(f, store, changes, 0)
    BY EditsExist
  <2> HIDE DEF f
  <2> QED BY <1>1, <2>1 DEF EditsFrom
<1> HIDE DEF f
<1>3. f[depth][node][group] = EditNode(f[depth + 1], node, depth, group)
  BY <1>1, <1>2 DEF EditsAt
<1>4. DOMAIN f[depth + 1] = store
  BY <1>2 DEF EditsAt
<1> QED BY <1>3, <1>4 DEF f

\* The nodes of a store can be loaded down to the last one.
Complete(store) == \A n \in store : ChildNodes(n) \subseteq store

\* An edit of the node of some bindings accepts what they expect, and gives the node of
\* the changed ones.
EditsRight(store, changes, depth) ==
    \A items \in SUBSET Arcs, group \in SUBSET changes :
        Unambiguous(items) /\ Sharing(items \cup group, depth) /\ MapNode(items, depth) \in store =>
            LET edit == Edits(store, changes)[depth][MapNode(items, depth)][group] IN
            /\ edit.ok <=> \A c \in group : Expect(items, c)
            /\ edit.node = MapNode(Changed(items, group), depth)

\* An edit of one slot accepts what the bindings expect, and gives the cell of the changed ones.
SlotEdited(edit, items, group, depth) ==
    /\ edit.ok <=> \A c \in group : Expect(items, c)
    /\ edit.cell = Fresh(Changed(items, group), depth + 1)

\* One slot of an edit: it is right if the edits one level below are.
LEMMA SlotRight ==
    ASSUME NEW store, Complete(store), NEW changes \in SUBSET Changes, Unambiguous(changes),
           NEW depth \in 0..(Levels - 1),
           depth + 1 \in 0..(Levels - 1) => EditsRight(store, changes, depth + 1),
           NEW items \in SUBSET Arcs, NEW group \in SUBSET changes,
           Unambiguous(items), Sharing(items \cup group, depth + 1),
           Several(items) => MapNode(items, depth + 1) \in store,
           DOMAIN Edits(store, changes)[depth + 1] = store
    PROVE  SlotEdited(EditSlot(Edits(store, changes)[depth + 1], Fresh(items, depth + 1), depth, group),
                      items, group, depth)
<1> USE MapAssumption DEF SlotEdited
<1> DEFINE below == Edits(store, changes)[depth + 1]
           cell == Fresh(items, depth + 1)
           edited == EditSlot(below, cell, depth, group)
<1>0. group \in SUBSET Changes /\ Unambiguous(group)
  BY DEF Unambiguous
<1>1. CASE group = {}
  <2>1. edited = Untouched(cell)
    BY <1>1 DEF EditSlot
  <2>2. Changed(items, group) = items
    BY <1>1 DEF Changed
  <2> QED BY <1>1, <2>1, <2>2 DEF Untouched
<1>2. CASE group # {} /\ Several(items)
  <2>1. depth + 1 \in 0..(Levels - 1)
    <3>1. Labelled(items) /\ Sharing(items, depth + 1) /\ depth + 1 \in 0..Levels
      BY DEF Labelled, Arcs, Sharing
    <3> QED BY <1>2, <3>1, SeveralPart
  <2>2. cell = ChildCell(MapNode(items, depth + 1))
    BY <1>2, FreshKind
  <2>3. cell.kind = "child" /\ cell.node = MapNode(items, depth + 1)
    BY <2>2, CellKinds
  <2> DEFINE sub == below[MapNode(items, depth + 1)][group]
  <2>4. edited.ok = sub.ok /\ edited.cell = Collapsed(sub.node)
    <3>1. cell.node \in DOMAIN below
      BY <1>2, <2>3
    <3> HIDE DEF cell, below
    <3> QED BY <1>2, <2>3, <3>1 DEF EditSlot
  <2>5. (sub.ok <=> \A c \in group : Expect(items, c)) /\ sub.node = MapNode(Changed(items, group), depth + 1)
    BY <1>2, <2>1 DEF EditsRight
  <2>6. Collapsed(sub.node) = Fresh(Changed(items, group), depth + 1)
    <3>1. Labelled(Changed(items, group))
      BY <1>0, ChangedIsMap DEF Labelled, Arcs
    <3> QED BY <2>1, <2>5, <3>1, CollapseFresh
  <2> QED BY <2>4, <2>5, <2>6
<1>3. CASE group # {} /\ ~Several(items)
  <2>1. cell.kind # "child" /\ LeafBindings(cell) = items
    <3>1. CASE items = {}
      BY <3>1, FreshKind, CellKinds
    <3>2. CASE items # {}
      <4>1. PICK b \in items : items = {b} /\ cell = Leaf(b)
        BY <1>3, <3>2, FreshKind
      <4>2. Binding(b.label, b.target) = b
        BY DEF Arcs, Binding
      <4> QED BY <4>1, <4>2, CellKinds
    <3> QED BY <3>1, <3>2
  <2>2. \A c \in group, b \in items : OnRoute(b.label, c.label, depth)
    BY DEF OnRoute, Sharing
  <2>3. /\ edited.ok <=> \A c \in group : Expect(items, c) /\ \A b \in items : OnRoute(b.label, c.label, depth)
        /\ edited.cell = Fresh(Changed(items, group), depth + 1)
    <3> HIDE DEF cell, below
    <3> QED BY <1>3, <2>1 DEF EditSlot
  <2> QED BY <2>2, <2>3
<1> QED BY <1>1, <1>2, <1>3

\* Edits are right at every depth.
LEMMA EditsAlways ==
    ASSUME NEW store, Complete(store), NEW changes \in SUBSET Changes, Unambiguous(changes)
    PROVE  \A depth \in 0..(Levels - 1) : EditsRight(store, changes, depth)
<1> USE MapAssumption
<1> DEFINE K == {k \in 0..Levels : k \in 0..(Levels - 1) => EditsRight(store, changes, k)}
<1>1. Levels \in K
  OBVIOUS
<1>2. \A k \in 0..(Levels - 1) : k + 1 \in K => k \in K
  <2> SUFFICES ASSUME NEW k \in 0..(Levels - 1), k + 1 \in K PROVE EditsRight(store, changes, k)
    OBVIOUS
  <2> SUFFICES ASSUME NEW items \in SUBSET Arcs, NEW group \in SUBSET changes,
                      Unambiguous(items), Sharing(items \cup group, k), MapNode(items, k) \in store
               PROVE  LET edit == Edits(store, changes)[k][MapNode(items, k)][group] IN
                      /\ edit.ok <=> \A c \in group : Expect(items, c)
                      /\ edit.node = MapNode(Changed(items, group), k)
    BY DEF EditsRight
  <2> DEFINE node == MapNode(items, k)
             below == Edits(store, changes)[k + 1]
             I(slot) == Routed(items, k, slot)
             G(slot) == Routed(group, k, slot)
             edited(slot) == EditSlot(below, Fresh(I(slot), k + 1), k, G(slot))
  <2>1. Edits(store, changes)[k][node][group] = EditNode(below, node, k, group) /\ DOMAIN below = store
    BY EditIs
  <2>2. \A slot \in Slot : node[slot] = Fresh(I(slot), k + 1)
    BY MapNodeIs
  <2>3. ASSUME NEW slot \in Slot
        PROVE  SlotEdited(edited(slot), I(slot), G(slot), k)
    <3>1. I(slot) \in SUBSET Arcs /\ G(slot) \in SUBSET changes /\ Unambiguous(I(slot))
      BY DEF Routed, Unambiguous
    <3>2. Sharing(I(slot) \cup G(slot), k + 1)
      <4> DEFINE both == items \cup group
      <4>1. I(slot) \cup G(slot) = Routed(both, k, slot)
        BY DEF Routed
      <4> HIDE DEF both, I, G
      <4>2. Sharing(Routed(both, k, slot), k + 1)
        BY RoutedShares DEF both
      <4> QED BY <4>1, <4>2
    <3>3. Several(I(slot)) => MapNode(I(slot), k + 1) \in store
      <4> SUFFICES ASSUME Several(I(slot)) PROVE MapNode(I(slot), k + 1) \in store
        OBVIOUS
      <4>1. node[slot] = ChildCell(MapNode(I(slot), k + 1))
        BY <2>2, FreshKind
      <4>2. node[slot].kind = "child" /\ node[slot].node = MapNode(I(slot), k + 1)
        BY <4>1, CellKinds
      <4>3. MapNode(I(slot), k + 1) \in ChildNodes(node)
        <5> HIDE DEF node, I
        <5> QED BY <4>2 DEF ChildNodes
      <4>4. ChildNodes(node) \subseteq store
        BY DEF Complete
      <4> QED BY <4>3, <4>4
    <3>4. k + 1 \in 0..(Levels - 1) => EditsRight(store, changes, k + 1)
      OBVIOUS
    <3>5. Complete(store) /\ changes \in SUBSET Changes /\ Unambiguous(changes)
      OBVIOUS
    <3>6. DOMAIN Edits(store, changes)[k + 1] = store
      BY <2>1
    <3> HIDE DEF I, G, node, K
    <3> QED BY <3>1, <3>2, <3>3, <3>4, <3>5, <3>6, SlotRight, ZenonT(90)
  <2>4. /\ EditNode(below, node, k, group).ok <=> \A slot \in Slot : edited(slot).ok
        /\ EditNode(below, node, k, group).node = [slot \in Slot |-> edited(slot).cell]
    <3>1. \A slot \in Slot : EditSlot(below, node[slot], k, Routed(group, k, slot)) = edited(slot)
      BY <2>2
    <3> HIDE DEF edited, node, below
    <3> QED BY <3>1 DEF EditNode
  <2>5. (\A slot \in Slot : edited(slot).ok) <=> \A c \in group : Expect(items, c)
    <3>1. \A c \in group : Digit(c.label, k) \in Slot /\ c \in G(Digit(c.label, k))
      BY DigitType DEF Changes, Routed
    <3>2. \A slot \in Slot : \A c \in G(slot) : c \in group /\ Digit(c.label, k) = slot
      BY DEF Routed
    <3>3. \A c \in group : Expect(items, c) <=> Expect(I(Digit(c.label, k)), c)
      BY ExpectRouted
    <3> HIDE DEF edited, I, G
    <3> QED BY <2>3, <3>1, <3>2, <3>3 DEF SlotEdited
  <2>6. [slot \in Slot |-> edited(slot).cell] = MapNode(Changed(items, group), k)
    <3>1. MapNode(Changed(items, group), k) =
              [slot \in Slot |-> Fresh(Routed(Changed(items, group), k, slot), k + 1)]
      BY MapNodeIs
    <3>2. \A slot \in Slot : edited(slot).cell = Fresh(Routed(Changed(items, group), k, slot), k + 1)
      BY <2>3, ChangedRouted DEF SlotEdited
    <3> HIDE DEF edited
    <3> QED BY <3>1, <3>2
  <2> QED BY <2>1, <2>4, <2>5, <2>6
<1>3. 0..Levels \subseteq K
  <2> HIDE DEF K
  <2> QED BY <1>1, <1>2, Downwards
<1> QED BY <1>3

-----------------------------------------------------------------------------
(* The nodes and bindings of a tree.                                        *)

\* The nodes below a node are those of groups (builder.mapNode).
LEMMA ChildOf ==
    ASSUME NEW group, NEW depth \in 0..(Levels - 1), NEW n
    PROVE  n \in ChildNodes(MapNode(group, depth)) <=>
               \E slot \in Slot : /\ Several(Routed(group, depth, slot))
                                  /\ n = MapNode(Routed(group, depth, slot), depth + 1)
<1> DEFINE node == MapNode(group, depth)
           routed(slot) == Routed(group, depth, slot)
<1>1. \A slot \in Slot : node[slot] = Fresh(routed(slot), depth + 1)
  BY MapNodeIs
<1> HIDE DEF node, routed
<1>2. ASSUME NEW slot \in Slot
      PROVE  /\ node[slot].kind = "child" <=> Several(routed(slot))
             /\ Several(routed(slot)) => node[slot].node = MapNode(routed(slot), depth + 1)
  <2>1. CASE Several(routed(slot))
    BY <1>1, <2>1, FreshKind, CellKinds
  <2>2. CASE routed(slot) = {}
    BY <1>1, <2>2, FreshKind, CellKinds DEF Several
  <2>3. CASE routed(slot) # {} /\ ~Several(routed(slot))
    <3>1. PICK b \in routed(slot) : Fresh(routed(slot), depth + 1) = Leaf(b)
      BY <2>3, FreshKind
    <3> QED BY <1>1, <2>3, <3>1, CellKinds
  <2> QED BY <2>1, <2>2, <2>3
<1>3. n \in ChildNodes(node) <=> \E slot \in Slot : Several(routed(slot)) /\ n = MapNode(routed(slot), depth + 1)
  BY <1>2 DEF ChildNodes
<1> QED BY <1>3 DEF node, routed

\* A leaf holds what is alone under its prefix.
LEMMA LeafOf ==
    ASSUME NEW group \in SUBSET Arcs, NEW depth \in 0..(Levels - 1), NEW slot \in Slot
    PROVE  \A b : b \in LeafBindings(MapNode(group, depth)[slot])
                      <=> Routed(group, depth, slot) = {b}
<1> DEFINE routed == Routed(group, depth, slot)
<1>1. MapNode(group, depth)[slot] = Fresh(routed, depth + 1)
  BY MapNodeIs
<1>2. routed \subseteq Arcs
  BY DEF Routed
<1> HIDE DEF routed
<1>3. CASE routed = {}
  <2>1. \A b : routed # {b}
    BY <1>3
  <2>2. LeafBindings(Fresh(routed, depth + 1)) = {}
    BY <1>3, FreshKind, CellKinds DEF LeafBindings
  <2> QED BY <1>1, <2>1, <2>2 DEF routed
<1>4. CASE Several(routed)
  <2>1. \A b : routed # {b}
    BY <1>4 DEF Several
  <2>2. LeafBindings(Fresh(routed, depth + 1)) = {}
    BY <1>4, FreshKind, CellKinds DEF LeafBindings
  <2> QED BY <1>1, <2>1, <2>2 DEF routed
<1>5. CASE routed # {} /\ ~Several(routed)
  <2>1. PICK b \in routed : routed = {b} /\ Fresh(routed, depth + 1) = Leaf(b)
    BY <1>5, FreshKind
  <2>2. Binding(b.label, b.target) = b
    BY <1>2 DEF Arcs, Binding
  <2>3. LeafBindings(Leaf(b)) = {b}
    BY <2>2, CellKinds
  <2> QED BY <1>1, <2>1, <2>3 DEF routed
<1> QED BY <1>3, <1>4, <1>5 DEF routed

LayersUpTo(f, node, k) ==
    f = [depth \in 0..k |->
            IF depth = 0 THEN {node} ELSE UNION {ChildNodes(n) : n \in f[depth - 1]}]

\* The layers of a tree exist, and together they are its nodes.
LEMMA LayersExist ==
    ASSUME NEW node
    PROVE  \E f : LayersUpTo(f, node, Levels) /\ NodesOf(node) = UNION {f[depth] : depth \in 0..Levels}
<1> USE MapAssumption
<1> DEFINE K == {k \in 0..Levels : \E f : LayersUpTo(f, node, k)}
           Next1(S) == UNION {ChildNodes(n) : n \in S}
<1>1. 0 \in K
  <2> DEFINE f == [depth \in 0..0 |-> {node}]
  <2>1. LayersUpTo(f, node, 0)
    BY DEF LayersUpTo
  <2> QED BY <2>1
<1>2. \A k \in 0..(Levels - 1) : k \in K => k + 1 \in K
  <2> SUFFICES ASSUME NEW k \in 0..(Levels - 1), k \in K PROVE k + 1 \in K
    OBVIOUS
  <2>1. PICK f : LayersUpTo(f, node, k)
    OBVIOUS
  <2> DEFINE g == [depth \in 0..(k + 1) |-> IF depth = k + 1 THEN Next1(f[k]) ELSE f[depth]]
  <2>2. \A depth \in 0..k : g[depth] = f[depth] /\ depth # k + 1 /\ depth \in 0..(k + 1)
    OBVIOUS
  <2>3. g[k + 1] = Next1(f[k])
    OBVIOUS
  <2>4. \A depth \in 0..k : f[depth] = IF depth = 0 THEN {node} ELSE Next1(f[depth - 1])
    BY <2>1 DEF LayersUpTo
  <2>5. \A depth \in 0..(k + 1) : depth # 0 => depth - 1 \in 0..k
    OBVIOUS
  <2>6. \A depth \in 0..(k + 1) : depth = k + 1 \/ depth \in 0..k
    OBVIOUS
  <2>7. k + 1 # 0 /\ (k + 1) - 1 = k /\ k \in 0..k
    OBVIOUS
  <2>8. g = [depth \in 0..(k + 1) |-> g[depth]]
    OBVIOUS
  <2> HIDE DEF g
  <2>9. \A depth \in 0..(k + 1) : g[depth] = IF depth = 0 THEN {node} ELSE Next1(g[depth - 1])
    <3> TAKE depth \in 0..(k + 1)
    <3> HIDE DEF Next1
    <3>1. CASE depth = k + 1
      BY <2>2, <2>3, <2>7, <3>1
    <3>2. CASE depth \in 0..k
      BY <2>2, <2>4, <2>5, <3>2
    <3> QED BY <2>6, <3>1, <3>2
  <2>10. LayersUpTo(g, node, k + 1)
    BY <2>8, <2>9 DEF LayersUpTo
  <2> QED BY <2>10
<1>3. Levels \in K
  <2>1. Levels \in 0..Levels /\ Levels \in Nat
    OBVIOUS
  <2> HIDE DEF K
  <2>2. 0..Levels \subseteq K
    BY <1>1, <1>2, <2>1, Upwards
  <2> QED BY <2>1, <2>2
<1>4. \E f : LayersUpTo(f, node, Levels)
  BY <1>3
<1> DEFINE layer == CHOOSE f : LayersUpTo(f, node, Levels)
<1>5. LayersUpTo(layer, node, Levels)
  BY <1>4
<1>6. NodesOf(node) = UNION {layer[depth] : depth \in 0..Levels}
  BY DEF NodesOf, LayersUpTo
<1> QED BY <1>5, <1>6

\* The bindings that share the first digits with x.
GroupOf(items, x, depth) ==
    {y \in items : \A d \in 0..(depth - 1) : Digit(y.label, d) = Digit(x.label, d)}

\* One digit more (builder.mapNode).
LEMMA GroupStep ==
    ASSUME NEW items, NEW x, NEW depth \in Nat
    PROVE  GroupOf(items, x, depth + 1) = Routed(GroupOf(items, x, depth), depth, Digit(x.label, depth))
<1>1. 0..(depth + 1 - 1) = (0..(depth - 1)) \cup {depth}
  OBVIOUS
<1> QED BY <1>1 DEF GroupOf, Routed

\* The nodes of a built tree, and that all of them can be reached.
LEMMA NodesOfMap ==
    ASSUME NEW items \in SUBSET Arcs, Unambiguous(items)
    PROVE  /\ MapNode(items, 0) \in NodesOf(MapNode(items, 0))
           /\ \A n \in NodesOf(MapNode(items, 0)) :
                 \E depth \in 0..(Levels - 1), group \in SUBSET items :
                    n = MapNode(group, depth) /\ Sharing(group, depth)
           /\ Complete(NodesOf(MapNode(items, 0)))
           /\ \A x \in items : \A depth \in 0..(Levels - 1) :
                 depth = 0 \/ Several(GroupOf(items, x, depth)) =>
                    MapNode(GroupOf(items, x, depth), depth) \in NodesOf(MapNode(items, 0))
<1> USE MapAssumption
<1> DEFINE top == MapNode(items, 0)
<1>1. PICK layer : LayersUpTo(layer, top, Levels) /\ NodesOf(top) = UNION {layer[depth] : depth \in 0..Levels}
  BY LayersExist
<1> HIDE DEF top
<1>2. \A depth \in 0..Levels :
         layer[depth] = IF depth = 0 THEN {top} ELSE UNION {ChildNodes(n) : n \in layer[depth - 1]}
  BY <1>1 DEF LayersUpTo
<1>3. ASSUME NEW depth \in 0..(Levels - 1)
      PROVE  layer[depth + 1] = UNION {ChildNodes(n) : n \in layer[depth]}
  <2>1. depth + 1 \in 0..Levels /\ depth + 1 # 0 /\ (depth + 1) - 1 = depth
    OBVIOUS
  <2> QED BY <1>2, <2>1
<1>4. layer[0] = {top}
  <2>1. 0 \in 0..Levels
    OBVIOUS
  <2> QED BY <1>2, <2>1
<1> DEFINE Stems(d) == \A n \in layer[d] : \E group \in SUBSET items :
                           n = MapNode(group, d) /\ Sharing(group, d) /\ (d # 0 => Several(group))
           K == {d \in 0..Levels : Stems(d)}
<1>5. 0..Levels \subseteq K
  <2>1. 0 \in K
    <3>1. Sharing(items, 0)
      BY DEF Sharing
    <3> QED BY <1>4, <3>1 DEF top
  <2>2. \A d \in 0..(Levels - 1) : d \in K => d + 1 \in K
    <3> SUFFICES ASSUME NEW d \in 0..(Levels - 1), Stems(d), NEW n \in layer[d + 1]
                 PROVE  \E group \in SUBSET items :
                           n = MapNode(group, d + 1) /\ Sharing(group, d + 1) /\ Several(group)
      <4>1. \A d \in 0..(Levels - 1) : d + 1 \in 0..Levels
        OBVIOUS
      <4> QED BY <4>1
    <3>1. PICK m \in layer[d] : n \in ChildNodes(m)
      BY <1>3
    <3>2. PICK group \in SUBSET items : m = MapNode(group, d) /\ Sharing(group, d)
      BY <3>1
    <3>3. PICK slot \in Slot : Several(Routed(group, d, slot)) /\ n = MapNode(Routed(group, d, slot), d + 1)
      BY <3>1, <3>2, ChildOf
    <3>4. Sharing(Routed(group, d, slot), d + 1) /\ Routed(group, d, slot) \subseteq group
      BY <3>2, RoutedShares
    <3> QED BY <3>3, <3>4
  <2> HIDE DEF K
  <2> QED BY <2>1, <2>2, Upwards
<1>6. layer[Levels] = {}
  <2> SUFFICES ASSUME NEW n \in layer[Levels] PROVE FALSE
    OBVIOUS
  <2>1. Levels \in 0..Levels /\ Levels # 0
    OBVIOUS
  <2>2. PICK group \in SUBSET items : Sharing(group, Levels) /\ Several(group)
    BY <1>5, <2>1
  <2>3. Labelled(group) /\ Unambiguous(group)
    BY DEF Labelled, Unambiguous, Arcs
  <2>4. Levels \in 0..(Levels - 1)
    BY <2>1, <2>2, <2>3, SeveralPart
  <2> QED BY <2>4
<1>7. top \in NodesOf(top)
  BY <1>1, <1>4
<1>8. \A n \in NodesOf(top) : \E depth \in 0..(Levels - 1) : n \in layer[depth]
  <2> TAKE n \in NodesOf(top)
  <2>1. PICK depth \in 0..Levels : n \in layer[depth]
    BY <1>1
  <2>2. depth # Levels
    BY <1>6, <2>1
  <2> QED BY <2>1, <2>2
<1>9. \A n \in NodesOf(top) :
         \E depth \in 0..(Levels - 1), group \in SUBSET items : n = MapNode(group, depth) /\ Sharing(group, depth)
  <2> TAKE n \in NodesOf(top)
  <2>1. PICK depth \in 0..(Levels - 1) : n \in layer[depth]
    BY <1>8
  <2>2. Stems(depth)
    BY <1>5
  <2> QED BY <2>1, <2>2
<1>10. Complete(NodesOf(top))
  <2> SUFFICES ASSUME NEW n \in NodesOf(top), NEW m \in ChildNodes(n) PROVE m \in NodesOf(top)
    BY DEF Complete
  <2>1. PICK depth \in 0..(Levels - 1) : n \in layer[depth]
    BY <1>8
  <2>2. m \in layer[depth + 1] /\ depth + 1 \in 0..Levels
    BY <1>3, <2>1
  <2> QED BY <1>1, <2>2
<1>11. ASSUME NEW x \in items, NEW depth \in 0..(Levels - 1),
              depth = 0 \/ Several(GroupOf(items, x, depth))
       PROVE  MapNode(GroupOf(items, x, depth), depth) \in NodesOf(top)
  <2> DEFINE G(d) == GroupOf(items, x, d)
             L == {d \in 0..Levels : d = 0 \/ Several(G(d)) => MapNode(G(d), d) \in layer[d]}
  <2>1. 0 \in L
    <3>1. G(0) = items
      BY DEF GroupOf
    <3> QED BY <1>4, <3>1 DEF top
  <2>2. \A d \in 0..(Levels - 1) : d \in L => d + 1 \in L
    <3> SUFFICES ASSUME NEW d \in 0..(Levels - 1), d \in L, Several(G(d + 1))
                 PROVE  MapNode(G(d + 1), d + 1) \in layer[d + 1]
      OBVIOUS
    <3>1. G(d + 1) = Routed(G(d), d, Digit(x.label, d))
      BY GroupStep
    <3>2. Several(G(d))
      BY <3>1 DEF Several, Routed
    <3>3. Digit(x.label, d) \in Slot
      BY DigitType DEF Arcs
    <3>4. MapNode(G(d), d) \in layer[d]
      BY <3>2
    <3> HIDE DEF G
    <3>5. MapNode(G(d + 1), d + 1) \in ChildNodes(MapNode(G(d), d))
      BY <3>1, <3>3, ChildOf
    <3> QED BY <1>3, <3>4, <3>5
  <2>3. 0..Levels \subseteq L
    <3> HIDE DEF L
    <3> QED BY <2>1, <2>2, Upwards
  <2>4. depth \in L /\ depth \in 0..Levels
    BY <2>3
  <2>5. MapNode(G(depth), depth) \in layer[depth]
    BY <1>11, <2>4
  <2> QED BY <1>1, <2>4, <2>5
<1> QED BY <1>7, <1>9, <1>10, <1>11 DEF top

\* A tree that is built from bindings holds these bindings (SnapshotBounded).
LEMMA BindingsOfMap ==
    ASSUME NEW items \in SUBSET Arcs, Unambiguous(items)
    PROVE  MapBindings(MapNode(items, 0)) = items
<1> USE MapAssumption
<1> DEFINE nodes == NodesOf(MapNode(items, 0))
<1>1. ASSUME NEW n \in nodes, NEW slot \in Slot, NEW b \in LeafBindings(n[slot]) PROVE b \in items
  <2>1. PICK depth \in 0..(Levels - 1), group \in SUBSET items : n = MapNode(group, depth)
    BY NodesOfMap
  <2>2. Routed(group, depth, slot) = {b}
    <3>1. group \in SUBSET Arcs
      OBVIOUS
    <3>2. b \in LeafBindings(MapNode(group, depth)[slot])
      BY <2>1
    <3> HIDE DEF nodes
    <3> QED BY <3>1, <3>2, LeafOf, ZenonT(40)
  <2> QED BY <2>2 DEF Routed
<1>2. ASSUME NEW x \in items
      PROVE  \E n \in nodes, slot \in Slot : x \in LeafBindings(n[slot])
  <2> DEFINE G(d) == GroupOf(items, x, d)
             D == {d \in 1..Levels : ~Several(G(d))}
  <2>1. Levels \in D
    <3>0. Levels \in 1..Levels
      OBVIOUS
    <3> SUFFICES ASSUME Several(G(Levels)) PROVE FALSE
      BY <3>0
    <3>1. Sharing(G(Levels), Levels) /\ Labelled(G(Levels)) /\ Unambiguous(G(Levels))
      BY DEF Sharing, GroupOf, Labelled, Unambiguous, Arcs
    <3>2. Levels \in 0..Levels
      OBVIOUS
    <3> HIDE DEF G
    <3>3. Levels \in 0..(Levels - 1)
      BY <3>1, <3>2, SeveralPart
    <3> QED BY <3>3
  <2>2. PICK m \in D : \A k \in D : m <= k
    <3>1. D \subseteq Nat
      OBVIOUS
    <3> HIDE DEF D
    <3> QED BY <2>1, <3>1, LeastDepth
  <2> DEFINE d == m - 1
  <2>3. d \in 0..(Levels - 1) /\ d + 1 = m /\ d \in Nat
    OBVIOUS
  <2>4. d = 0 \/ Several(G(d))
    <3> SUFFICES ASSUME d # 0, ~Several(G(d)) PROVE FALSE
      OBVIOUS
    <3>1. d \in D
      BY <2>3
    <3> QED BY <2>2, <2>3, <3>1
  <2> DEFINE slot == Digit(x.label, d)
             n == MapNode(G(d), d)
  <2>5. n \in nodes /\ slot \in Slot
    <3>1. slot \in Slot
      BY <2>3, DigitType DEF Arcs
    <3>2. n \in nodes
      BY <2>3, <2>4, NodesOfMap
    <3> QED BY <3>1, <3>2
  <2>6. G(m) = Routed(G(d), d, slot)
    <3> HIDE DEF d
    <3> QED BY <2>3, GroupStep
  <2>7. G(m) = {x}
    <3>1. x \in G(m) /\ ~Several(G(m))
      BY DEF GroupOf
    <3> HIDE DEF G
    <3> QED BY <3>1 DEF Several
  <2>8. G(d) \in SUBSET Arcs
    BY DEF GroupOf
  <2>9. x \in LeafBindings(n[slot])
    <3> HIDE DEF G, d, slot
    <3> QED BY <2>3, <2>5, <2>6, <2>7, <2>8, LeafOf
  <2> QED BY <2>5, <2>9
<1>3. MapBindings(MapNode(items, 0)) = UNION {LeafBindings(n[slot]) : n \in nodes, slot \in Slot}
  BY DEF MapBindings
<1> HIDE DEF nodes
<1>4. \A b : b \in MapBindings(MapNode(items, 0)) <=> \E n \in nodes, slot \in Slot : b \in LeafBindings(n[slot])
  BY <1>3
<1> QED BY <1>1, <1>2, <1>4

-----------------------------------------------------------------------------
(* A batch.                                                                 *)

\* What Engine.Apply demands of a batch for a Map of these bindings.
Accepted(items, batch) ==
    /\ Unambiguous(batch)
    /\ \A c \in batch : (c.before # Undef \/ c.after # Undef) /\ Expect(items, c)

\* Apply accepts by the bindings alone, and gives what a Commit of the changed ones gives.
LEMMA ApplyRight ==
    ASSUME NEW items \in SUBSET Arcs, Unambiguous(items), NEW batch \in SUBSET Changes,
           NEW result, result = ApplyMap(NodesOf(MapNode(items, 0)), MapNode(items, 0), batch)
    PROVE  /\ result.ok <=> Accepted(items, batch)
           /\ result.ok => result.node = MapNode(Changed(items, batch), 0)
<1> DEFINE node == MapNode(items, 0)
           store == NodesOf(node)
<1>1. CASE batch = {}
  <2>1. result = Unchanged(node)
    BY <1>1 DEF ApplyMap
  <2>2. Changed(items, batch) = items
    BY <1>1 DEF Changed
  <2>3. Accepted(items, batch)
    BY <1>1 DEF Accepted, Unambiguous
  <2> QED BY <2>1, <2>2, <2>3 DEF Unchanged
<1>2. CASE batch # {} /\ (~Unambiguous(batch) \/ \E c \in batch : c.before = Undef /\ c.after = Undef)
  <2>1. result = Refused
    BY <1>2 DEF ApplyMap
  <2> QED BY <1>2, <2>1 DEF Refused, Accepted
<1>3. CASE batch # {} /\ Unambiguous(batch) /\ ~\E c \in batch : c.before = Undef /\ c.after = Undef
  <2> DEFINE edit == Edits(store, batch)[0][node][batch]
  <2>1. node \in store /\ Complete(store)
    BY NodesOfMap
  <2>2. result.ok = edit.ok /\ result.node = edit.node
    <3>1. result = [edit EXCEPT !.puts = Append(@, edit.node)]
      BY <1>3, <2>1 DEF ApplyMap
    <3>2. \E f : edit = EditNode(f, node, 0, batch)
      <4>1. 0 \in 0..(Levels - 1)
        BY MapAssumption
      <4>2. batch \in SUBSET batch
        OBVIOUS
      <4> HIDE DEF node, store
      <4>3. edit = EditNode(Edits(store, batch)[0 + 1], node, 0, batch)
        BY <2>1, <4>1, <4>2, EditIs
      <4> QED BY <4>3
    <3> HIDE DEF edit
    <3> QED BY <3>1, <3>2 DEF EditNode
  <2>3. EditsRight(store, batch, 0)
    <3>1. 0 \in 0..(Levels - 1)
      BY MapAssumption
    <3> HIDE DEF store
    <3> QED BY <1>3, <2>1, <3>1, EditsAlways
  <2>4. Sharing(items \cup batch, 0)
    BY DEF Sharing
  <2>5. (edit.ok <=> \A c \in batch : Expect(items, c)) /\ edit.node = MapNode(Changed(items, batch), 0)
    <3> HIDE DEF store
    <3> QED BY <2>1, <2>3, <2>4 DEF EditsRight
  <2> HIDE DEF edit
  <2> QED BY <1>3, <2>2, <2>5 DEF Accepted
<1> QED BY <1>1, <1>2, <1>3

\* The arcs of a Map, as the function that MapArcs has.
LEMMA ArcsOfMap ==
    ASSUME NEW items \in SUBSET Arcs, Unambiguous(items)
    PROVE  /\ ArcsOf(MapNode(items, 0)) =
                  [l \in {b.label : b \in items} |-> (CHOOSE b \in items : b.label = l).target]
           /\ DOMAIN ArcsOf(MapNode(items, 0)) = {b.label : b \in items}
           /\ \A b \in items : ArcsOf(MapNode(items, 0))[b.label] = b.target
<1>1. MapBindings(MapNode(items, 0)) = items
  BY BindingsOfMap
<1>2. ArcsOf(MapNode(items, 0)) =
          [l \in {b.label : b \in items} |-> (CHOOSE b \in items : b.label = l).target]
  <2> DEFINE bound == MapBindings(MapNode(items, 0))
  <2>1. ArcsOf(MapNode(items, 0)) =
            [l \in {b.label : b \in bound} |-> (CHOOSE b \in bound : b.label = l).target]
    BY DEF ArcsOf
  <2>2. bound = items
    BY <1>1
  <2> HIDE DEF bound
  <2> QED BY <2>1, <2>2
<1>3. \A b \in items : (CHOOSE x \in items : x.label = b.label) = b
  <2> TAKE b \in items
  <2>1. \A x \in items : x.label = b.label => x = b
    BY DEF Unambiguous, SameCoordinate
  <2> QED BY <2>1
<1> QED BY <1>2, <1>3

\* The present targets that changes name are those of the arcs (expect).
LEMMA AcceptableIs ==
    ASSUME NEW items \in SUBSET Arcs, Unambiguous(items), root = MapNode(items, 0),
           NEW batch \in SUBSET Changes
    PROVE  Abstract!Acceptable(batch) <=> Accepted(items, batch)
<1> USE MapAssumption
<1> DEFINE arcs == ArcsOf(root)
<1>1. DOMAIN arcs = {b.label : b \in items} /\ \A b \in items : arcs[b.label] = b.target
  BY ArcsOfMap
<1> HIDE DEF arcs
<1>2. ASSUME NEW c \in batch
      PROVE  Expect(items, c) <=>
                 /\ c.before = IF c.label \in DOMAIN arcs THEN arcs[c.label] ELSE Undef
                 /\ \A l \in DOMAIN arcs : CoordinateOf[l] = CoordinateOf[c.label] => l = c.label
  <2> DEFINE found == {b \in items : SameCoordinate(b, c)}
  <2>1. \A b \in items : b.target \in Targets
    BY DEF Arcs
  <2>2. \A b \in items : b \in found <=> CoordinateOf[b.label] = CoordinateOf[c.label]
    BY DEF SameCoordinate
  <2>3. CASE found = {}
    <3>1. c.label \notin DOMAIN arcs
      BY <1>1, <2>2, <2>3
    <3>2. \A l \in DOMAIN arcs : CoordinateOf[l] # CoordinateOf[c.label]
      BY <1>1, <2>2, <2>3
    <3>3. Expect(items, c) <=> c.before = Undef
      BY <2>3 DEF Expect
    <3> QED BY <3>1, <3>2, <3>3
  <2>4. CASE found # {}
    <3>1. Expect(items, c) <=> \A b \in found : b.label = c.label /\ b.target = c.before
      BY <2>4 DEF Expect
    <3>2. PICK b \in items : b \in found
      BY <2>4
    <3>3. found = {b}
      BY <3>2 DEF Unambiguous, SameCoordinate
    <3>4. (\A l \in DOMAIN arcs : CoordinateOf[l] = CoordinateOf[c.label] => l = c.label)
              <=> b.label = c.label
      BY <1>1, <2>2, <3>2, <3>3
    <3>5. b.label = c.label => c.label \in DOMAIN arcs /\ arcs[c.label] = b.target
      BY <1>1, <3>2
    <3> HIDE DEF found
    <3> QED BY <3>1, <3>3, <3>4, <3>5
  <2> QED BY <2>3, <2>4
<1>3. Unambiguous(batch) <=> \A c, d \in batch : CoordinateOf[c.label] = CoordinateOf[d.label] => c = d
  BY DEF Unambiguous, SameCoordinate
<1>4. Abstract!Acceptable(batch) <=>
         /\ \A c, d \in batch : CoordinateOf[c.label] = CoordinateOf[d.label] => c = d
         /\ \A c \in batch :
               /\ c.before # Undef \/ c.after # Undef
               /\ c.before = IF c.label \in DOMAIN arcs THEN arcs[c.label] ELSE Undef
               /\ \A l \in DOMAIN arcs : CoordinateOf[l] = CoordinateOf[c.label] => l = c.label
  BY DEF Abstract!Acceptable, Abstract!TargetOf, arcs
<1> QED BY <1>2, <1>3, <1>4 DEF Accepted

\* The arcs of the changed bindings are the changed arcs.
LEMMA ResultIs ==
    ASSUME NEW items \in SUBSET Arcs, Unambiguous(items), root = MapNode(items, 0),
           NEW batch \in SUBSET Changes, Accepted(items, batch)
    PROVE  Abstract!Result(batch) = ArcsOf(MapNode(Changed(items, batch), 0))
<1> USE MapAssumption
<1> DEFINE arcs == ArcsOf(root)
           new == Changed(items, batch)
           after == ArcsOf(MapNode(new, 0))
           removed == {c.label : c \in {x \in batch : x.after = Undef}}
           set == {c.label : c \in batch} \ removed
           result == [l \in (DOMAIN arcs \cup set) \ removed |->
                         IF l \in set THEN (CHOOSE c \in batch : c.label = l).after ELSE arcs[l]]
<1>1. new \in SUBSET Arcs /\ Unambiguous(new)
  BY ChangedIsMap DEF Accepted
<1>2. DOMAIN arcs = {b.label : b \in items} /\ \A b \in items : arcs[b.label] = b.target
  BY ArcsOfMap
<1>3. /\ DOMAIN after = {b.label : b \in new} /\ \A b \in new : after[b.label] = b.target
      /\ after = [l \in {b.label : b \in new} |-> (CHOOSE b \in new : b.label = l).target]
  <2> HIDE DEF new
  <2> QED BY <1>1, ArcsOfMap
<1>4. \A c, d \in batch : c.label = d.label => c = d
  BY DEF Accepted, Unambiguous, SameCoordinate
<1>5. \A l \in set : \E c \in batch : /\ c.label = l /\ c.after # Undef
                                      /\ (CHOOSE x \in batch : x.label = l) = c
  <2> TAKE l \in set
  <2>1. PICK c \in batch : c.label = l /\ c.after # Undef
    OBVIOUS
  <2>2. \A x \in batch : x.label = l => x = c
    BY <1>4, <2>1
  <2> QED BY <2>1, <2>2
<1>6. \A b : b \in new <=> \/ b \in items /\ \A c \in batch : ~SameCoordinate(b, c)
                           \/ \E c \in batch : c.after # Undef /\ b = Binding(c.label, c.after)
  BY DEF Changed
<1>7. \A b \in items, c \in batch : SameCoordinate(b, c) <=> b.label = c.label
  BY DEF Accepted, Expect, SameCoordinate
<1>8. \A c \in batch : c.label \in set <=> c.after # Undef
  BY <1>4
<1>9. \A c \in batch : c.label \in set \/ c.label \in removed
  OBVIOUS
<1>10. \A l : l \in set \/ l \in removed => \E c \in batch : c.label = l
  OBVIOUS
<1> HIDE DEF arcs, new, after, set, removed
<1>11. \A c : Binding(c.label, c.after).label = c.label /\ Binding(c.label, c.after).target = c.after
  BY DEF Binding
<1>12. \A l : l \in set => l \notin removed
  BY DEF set
<1>13. \A l : l \in DOMAIN after <=> l \in (DOMAIN arcs \cup set) \ removed
  <2>1. ASSUME NEW b \in new PROVE b.label \in (DOMAIN arcs \cup set) \ removed
    <3>1. CASE b \in items /\ \A c \in batch : ~SameCoordinate(b, c)
      BY <1>2, <1>7, <1>10, <3>1
    <3>2. CASE \E c \in batch : c.after # Undef /\ b = Binding(c.label, c.after)
      BY <1>8, <1>11, <1>12, <3>2
    <3> QED BY <1>6, <3>1, <3>2
  <2>2. ASSUME NEW l \in set PROVE l \in DOMAIN after
    <3>1. PICK c \in batch : c.label = l /\ c.after # Undef
      BY <1>5
    <3>2. Binding(c.label, c.after) \in new
      BY <1>6, <3>1
    <3> DEFINE b == Binding(c.label, c.after)
    <3>3. b.label = l /\ b \in new
      BY <1>11, <3>1, <3>2
    <3> HIDE DEF b
    <3> QED BY <1>3, <3>3
  <2>3. ASSUME NEW l \in DOMAIN arcs, l \notin set, l \notin removed PROVE l \in DOMAIN after
    <3>1. PICK b \in items : b.label = l
      BY <1>2
    <3>2. \A c \in batch : ~SameCoordinate(b, c)
      BY <1>7, <1>9, <2>3, <3>1
    <3>3. b \in new
      BY <1>6, <3>2
    <3> QED BY <1>3, <3>1, <3>3
  <2> QED BY <1>3, <1>12, <2>1, <2>2, <2>3
<1>14. ASSUME NEW l \in DOMAIN after
       PROVE  after[l] = IF l \in set THEN (CHOOSE c \in batch : c.label = l).after ELSE arcs[l]
  <2>1. CASE l \in set
    <3>1. PICK c \in batch : c.label = l /\ c.after # Undef /\ (CHOOSE x \in batch : x.label = l) = c
      BY <1>5, <2>1
    <3>2. Binding(c.label, c.after) \in new
      BY <1>6, <3>1
    <3>3. after[l] = c.after
      <4> DEFINE b == Binding(c.label, c.after)
      <4>1. b \in new /\ b.label = l /\ b.target = c.after
        BY <1>11, <3>1, <3>2
      <4> HIDE DEF b
      <4> QED BY <1>3, <4>1
    <3> QED BY <2>1, <3>1, <3>3
  <2>2. CASE l \notin set
    <3>1. PICK b \in new : b.label = l
      BY <1>3
    <3>2. b \in items
      BY <1>6, <1>8, <1>11, <2>2, <3>1
    <3>3. after[l] = b.target /\ arcs[l] = b.target
      BY <1>2, <1>3, <3>1, <3>2
    <3> QED BY <2>2, <3>3
  <2> QED BY <2>1, <2>2
<1>15. after = [l \in DOMAIN after |-> after[l]]
  BY <1>3
<1>16. after = result
  BY <1>13, <1>14, <1>15
<1>17. Abstract!Result(batch) = result
  BY DEF Abstract!Result, arcs, set, removed
<1> QED BY <1>16, <1>17 DEF after, new

-----------------------------------------------------------------------------
(* The theorems.                                                            *)

\* The Root is always that of a Commit of some bindings (Commit, Apply).
Committed == \E items \in SUBSET Arcs : Unambiguous(items) /\ root = MapNode(items, 0)

\* Every batch that is accepted leaves such a Root again.
LEMMA ApplyCommitted ==
    ASSUME NEW items \in SUBSET Arcs, Unambiguous(items), root = MapNode(items, 0),
           NEW batch \in Batches, Apply(batch)
    PROVE  /\ batch \in SUBSET Changes /\ Accepted(items, batch)
           /\ Changed(items, batch) \in SUBSET Arcs /\ Unambiguous(Changed(items, batch))
           /\ root' = MapNode(Changed(items, batch), 0)
<1>1. batch \in SUBSET Changes
  BY MapAssumption DEF Changes
<1> DEFINE result == ApplyMap(NodesOf(MapNode(items, 0)), MapNode(items, 0), batch)
<1>2. result.ok /\ root' = result.node
  BY DEF Apply
<1>3. /\ result.ok <=> Accepted(items, batch)
      /\ result.ok => result.node = MapNode(Changed(items, batch), 0)
  <2> HIDE DEF result
  <2> QED BY <1>1, ApplyRight DEF result
<1>4. Accepted(items, batch)
  BY <1>2, <1>3
<1> QED BY <1>1, <1>2, <1>3, <1>4, ChangedIsMap DEF Accepted

\* A Map is committed only if it has no collision and no absent target (CommitMap).
LEMMA InitCommitted == Init => Committed
<1> SUFFICES ASSUME NEW items \in Maps, CommitMap(items).ok, root = CommitMap(items).node
             PROVE  Committed
  BY DEF Init
<1>1. Unambiguous(items) /\ \A b \in items : b.target # Undef
  BY DEF CommitMap, Refused
<1>2. items \in SUBSET Arcs
  BY <1>1, MapAssumption DEF Arcs
<1>3. root = MapNode(items, 0)
  BY <1>1 DEF CommitMap
<1> QED BY <1>1, <1>2, <1>3 DEF Committed

\* Commit and Apply keep it: whatever batches came before, the Root is a committed one.
THEOREM Invariance == Spec => []Committed
<1>1. Committed /\ [Next]_root => Committed'
  <2> SUFFICES ASSUME Committed, [Next]_root PROVE Committed'
    OBVIOUS
  <2>1. PICK items \in SUBSET Arcs : Unambiguous(items) /\ root = MapNode(items, 0)
    BY DEF Committed
  <2>2. CASE UNCHANGED root
    BY <2>1, <2>2 DEF Committed
  <2>3. CASE Next
    <3>1. PICK batch \in Batches : Apply(batch)
      BY <2>3 DEF Next
    <3>2. /\ Changed(items, batch) \in SUBSET Arcs /\ Unambiguous(Changed(items, batch))
          /\ root' = MapNode(Changed(items, batch), 0)
      BY <2>1, <3>1, ApplyCommitted
    <3> QED BY <3>2 DEF Committed
  <2> QED BY <2>2, <2>3
<1> QED BY InitCommitted, <1>1, PTL DEF Spec

\* Two histories that lead to the same bindings lead to the same Root (collapse in
\* mapNode): it is a function of what the Map holds.
THEOREM RootsAreCanonical == Spec => []HistoryIndependent
<1>1. Committed => HistoryIndependent
  <2> SUFFICES ASSUME Committed PROVE HistoryIndependent
    OBVIOUS
  <2>1. PICK items \in SUBSET Arcs : Unambiguous(items) /\ root = MapNode(items, 0)
    BY DEF Committed
  <2>2. MapBindings(MapNode(items, 0)) = items
    BY <2>1, BindingsOfMap
  <2> QED BY <2>1, <2>2 DEF HistoryIndependent
<1> QED BY Invariance, <1>1, PTL

\* Apply accepts the batches that name the present targets, and no others, whatever the
\* shape of the tree; and it makes all of their changes and nothing else (expect).
THEOREM BatchesDecide == Spec => []AcceptsExactly
<1>1. Committed => AcceptsExactly
  <2> SUFFICES ASSUME Committed, NEW batch \in Batches,
                      NEW result, result = ApplyMap(NodesOf(root), root, batch)
               PROVE  /\ result.ok <=> Abstract!Acceptable(batch)
                      /\ result.ok => ArcsOf(result.node) = Abstract!Result(batch)
    BY DEF AcceptsExactly
  <2>1. PICK items \in SUBSET Arcs : Unambiguous(items) /\ root = MapNode(items, 0)
    BY DEF Committed
  <2>2. batch \in SUBSET Changes
    BY MapAssumption DEF Changes
  <2>3. /\ result.ok <=> Accepted(items, batch)
        /\ result.ok => result.node = MapNode(Changed(items, batch), 0)
    <3>1. result = ApplyMap(NodesOf(MapNode(items, 0)), MapNode(items, 0), batch)
      BY <2>1
    <3> QED BY <2>1, <2>2, <3>1, ApplyRight
  <2>4. Abstract!Acceptable(batch) <=> Accepted(items, batch)
    BY <2>1, <2>2, AcceptableIs
  <2>5. Accepted(items, batch) => Abstract!Result(batch) = ArcsOf(MapNode(Changed(items, batch), 0))
    BY <2>1, <2>2, ResultIs
  <2>6. ASSUME result.ok PROVE ArcsOf(result.node) = Abstract!Result(batch)
    BY <2>3, <2>5, <2>6
  <2> QED BY <2>3, <2>4, <2>6
<1> QED BY Invariance, <1>1, PTL

\* A Map is a set of arcs that batches replace as a whole, whatever the tree does with
\* its nodes.
THEOREM ImplementsMap == Spec => ImplementsArcs
<1>1. Committed => (\A l, m \in DOMAIN ArcsOf(root) : CoordinateOf[l] = CoordinateOf[m] => l = m)
  <2> SUFFICES ASSUME Committed
               PROVE  \A l, m \in DOMAIN ArcsOf(root) : CoordinateOf[l] = CoordinateOf[m] => l = m
    OBVIOUS
  <2>1. PICK items \in SUBSET Arcs : Unambiguous(items) /\ root = MapNode(items, 0)
    BY DEF Committed
  <2>2. DOMAIN ArcsOf(root) = {b.label : b \in items}
    BY <2>1, ArcsOfMap
  <2> HIDE DEF ArcsOf
  <2> QED BY <2>1, <2>2 DEF Unambiguous, SameCoordinate
<1>2. Committed => Abstract!Init
  BY <1>1 DEF Abstract!Init
<1>3. Committed /\ [Next]_root => [Abstract!Next]_(ArcsOf(root))
  <2> SUFFICES ASSUME Committed, [Next]_root PROVE [Abstract!Next]_(ArcsOf(root))
    OBVIOUS
  <2>1. PICK items \in SUBSET Arcs : Unambiguous(items) /\ root = MapNode(items, 0)
    BY DEF Committed
  <2>2. CASE UNCHANGED root
    BY <2>2 DEF ArcsOf, MapBindings, NodesOf
  <2>3. CASE Next
    <3>1. PICK batch \in Batches : Apply(batch)
      BY <2>3 DEF Next
    <3>2. /\ batch \in SUBSET Changes /\ Accepted(items, batch)
          /\ root' = MapNode(Changed(items, batch), 0)
      BY <2>1, <3>1, ApplyCommitted
    <3>3. Abstract!Acceptable(batch)
      BY <2>1, <3>2, AcceptableIs
    <3>4. Abstract!Result(batch) = ArcsOf(MapNode(Changed(items, batch), 0))
      BY <2>1, <3>2, ResultIs
    <3>5. ArcsOf(root)' = Abstract!Result(batch)
      BY <3>2, <3>4
    <3> QED BY <3>3, <3>5 DEF Abstract!Next, Abstract!Apply
  <2> QED BY <2>2, <2>3
<1> QED BY InitCommitted, Invariance, <1>2, <1>3, PTL DEF Spec, ImplementsArcs, Abstract!Spec

-----------------------------------------------------------------------------
(* Evidence about a committed Map.                                          *)

\* The bindings that share the first digits with a query.
Prefixed(items, query, depth) ==
    {b \in items : \A d \in 0..(depth - 1) : Digit(b.label, d) = Digit(query, d)}

Hidden(items, query) == \E b \in items : Collides(b.label, query)

\* What a Map of these bindings holds for a label.
Holds(items, query, target) ==
    \/ \E b \in items : b.label = query /\ b.target = target
    \/ target = Undef /\ \A b \in items : b.label # query

-----------------------------------------------------------------------------
(* On the way of a query.                                                   *)

\* A cell tells all of what is below it (mapCell, leafCell, childCell).
LEMMA CellTells ==
    ASSUME NEW group \in SUBSET Arcs, NEW depth, NEW cell, cell = Fresh(group, depth)
    PROVE  \/ group = {} /\ cell.kind = "empty"
           \/ \E b \in group : /\ group = {b} /\ cell.kind = "leaf"
                               /\ cell.label = b.label /\ cell.target = b.target
           \/ Several(group) /\ cell.kind = "child" /\ cell.node = MapNode(group, depth)
<1>1. CASE group = {}
  BY <1>1, FreshKind, CellKinds
<1>2. CASE group # {} /\ ~Several(group)
  BY <1>2, FreshKind DEF Leaf
<1>3. CASE Several(group)
  BY <1>3, FreshKind, CellKinds
<1> QED BY <1>1, <1>2, <1>3

\* The slot of the query's digit holds what shares one digit more (digit).
LEMMA OnTheWay ==
    ASSUME NEW items \in SUBSET Arcs, NEW query \in Labels, NEW depth \in 0..(Levels - 1)
    PROVE  /\ MapNode(Prefixed(items, query, depth), depth)[Digit(query, depth)]
                  = Fresh(Prefixed(items, query, depth + 1), depth + 1)
           /\ Prefixed(items, query, depth) \in SUBSET Arcs
           /\ Prefixed(items, query, depth + 1) \in SUBSET Arcs
<1> DEFINE P == Prefixed(items, query, depth)
<1>1. Prefixed(items, query, depth + 1) = Routed(P, depth, Digit(query, depth))
  <2>1. 0..(depth + 1 - 1) = (0..(depth - 1)) \cup {depth}
    BY MapAssumption
  <2> QED BY <2>1 DEF Prefixed, Routed
<1>2. MapNode(P, depth) = [slot \in Slot |-> Fresh(Routed(P, depth, slot), depth + 1)]
  BY MapNodeIs
<1>3. Digit(query, depth) \in Slot
  BY DigitType
<1>4. P \in SUBSET Arcs /\ Prefixed(items, query, depth + 1) \in SUBSET Arcs
  BY DEF Prefixed
<1> HIDE DEF P
<1>5. MapNode(P, depth)[Digit(query, depth)] = Fresh(Prefixed(items, query, depth + 1), depth + 1)
  BY <1>1, <1>2, <1>3
<1> QED BY <1>4, <1>5 DEF P

\* Whatever has the coordinate of the query is on its way.
LEMMA SameIsPrefixed ==
    ASSUME NEW items, NEW query, NEW b \in items, CoordinateOf[b.label] = CoordinateOf[query]
    PROVE  \A depth : b \in Prefixed(items, query, depth)
BY DEF Prefixed, Digit

-----------------------------------------------------------------------------
(* Evidence from anywhere.                                                  *)

\* Verify accepts for a query only what the Map holds, and nothing for a label that may
\* be hidden by another one of its coordinate (Verify, checkLeafRoute).
LEMMA VerifySound ==
    ASSUME NEW items \in SUBSET Arcs, Unambiguous(items), NEW query \in Labels,
           NEW answer, Verify(MapNode(items, 0), query, answer)
    PROVE  ~Hidden(items, query) /\ Holds(items, query, answer.target)
<1> USE MapAssumption
<1> DEFINE cells == answer.cells
           node == MapNode(items, 0)
           P(depth) == Prefixed(items, query, depth)
           Spent(depth) == NodeAt(node, cells, depth) = MapNode(P(depth), depth)
<1>1. PICK n \in 1..Levels : n = Len(cells)
  BY DEF Verify
<1>2. answer.present = (answer.target # Undef)
  BY DEF Verify
<1>3. ASSUME NEW depth \in 0..(n - 1)
      PROVE  /\ cells[depth + 1] = NodeAt(node, cells, depth)[Digit(query, depth)]
             /\ cells[depth + 1].kind = "empty" => depth + 1 = n /\ ~answer.present
             /\ cells[depth + 1].kind = "leaf" =>
                    depth + 1 = n /\ LeafDecides(cells[depth + 1], query, depth, answer)
             /\ cells[depth + 1].kind = "child" => depth + 1 # n
  BY <1>1 DEF Verify, Opens, Opened
<1> DEFINE K == {k \in 0..(n - 1) : Spent(k)}
<1>4. 0 \in K
  <2>1. P(0) = items
    BY DEF Prefixed
  <2> QED BY <2>1 DEF NodeAt
<1>5. \A k \in 0..((n - 1) - 1) : k \in K => k + 1 \in K
  <2> SUFFICES ASSUME NEW k \in 0..((n - 1) - 1), Spent(k) PROVE Spent(k + 1)
    OBVIOUS
  <2>1. k \in 0..(n - 1) /\ k \in 0..(Levels - 1) /\ k + 1 # n /\ k + 1 # 0
    OBVIOUS
  <2>2. cells[k + 1] = Fresh(P(k + 1), k + 1)
    <3> HIDE DEF cells, node
    <3> QED BY <1>3, <2>1, OnTheWay
  <2>3. cells[k + 1].kind \notin {"empty", "leaf"}
    BY <1>3, <2>1
  <2>4. P(k + 1) \in SUBSET Arcs
    BY <2>1, OnTheWay
  <2>5. cells[k + 1].node = MapNode(P(k + 1), k + 1)
    <3> HIDE DEF cells, P
    <3> QED BY <2>2, <2>3, <2>4, CellTells
  <2> QED BY <2>1, <2>5 DEF NodeAt
<1> DEFINE d == n - 1
<1>6. d \in 0..(n - 1) /\ d \in 0..(Levels - 1) /\ d + 1 = n /\ Spent(d)
  <2>1. n - 1 \in Nat /\ n - 1 \in 0..(n - 1) /\ n - 1 \in 0..(Levels - 1)
    OBVIOUS
  <2> HIDE DEF K
  <2>2. 0..(n - 1) \subseteq K
    BY <1>4, <1>5, <2>1, Upwards
  <2>3. n - 1 \in K
    BY <2>1, <2>2
  <2> QED BY <2>1, <2>3 DEF K
<1> DEFINE cell == cells[d + 1]
           group == P(d + 1)
<1>7. cell = Fresh(group, d + 1) /\ group \in SUBSET Arcs
  <2> HIDE DEF cells, node, d
  <2> QED BY <1>3, <1>6, OnTheWay
<1>8. \A b \in items : CoordinateOf[b.label] = CoordinateOf[query] => b \in group
  BY SameIsPrefixed
<1>9. group \subseteq items
  BY DEF Prefixed
<1>10. /\ cell.kind = "empty" => ~answer.present
       /\ cell.kind = "leaf" => LeafDecides(cell, query, d, answer)
       /\ cell.kind # "child"
  <2> HIDE DEF cells, node, d
  <2> QED BY <1>3, <1>6
<1> HIDE DEF cell, group, d, cells, node
<1>11. CASE group = {}
  <2>1. cell.kind = "empty"
    BY <1>7, <1>11, FreshKind, CellKinds
  <2>2. answer.target = Undef
    BY <1>2, <1>10, <2>1
  <2> QED BY <1>8, <1>11, <2>2 DEF Hidden, Collides, Holds
<1>12. CASE \E b \in group : /\ group = {b} /\ cell.kind = "leaf"
                             /\ cell.label = b.label /\ cell.target = b.target
  <2>1. PICK b \in items : /\ group = {b} /\ cell.kind = "leaf"
                           /\ cell.label = b.label /\ cell.target = b.target
    BY <1>9, <1>12
  <2>2. IF answer.present THEN b.label = query /\ b.target = answer.target
        ELSE CoordinateOf[b.label] # CoordinateOf[query]
    BY <1>10, <2>1 DEF LeafDecides
  <2>3. CASE answer.present
    BY <1>8, <2>1, <2>2, <2>3 DEF Hidden, Collides, Holds
  <2>4. CASE ~answer.present
    BY <1>2, <1>8, <2>1, <2>2, <2>4 DEF Hidden, Collides, Holds
  <2> QED BY <2>3, <2>4
<1> QED BY <1>7, <1>10, <1>11, <1>12, CellTells

-----------------------------------------------------------------------------
(* Honest lookups.                                                          *)

ProvesAt(f, store, query, depth) ==
    [node \in store |->
        IF depth = Levels THEN NoAnswer
        ELSE ProveCell(f[depth + 1], store, query, depth, Opened(node, Digit(query, depth)))]

ProvesFrom(f, store, query, k) == f = [depth \in k..Levels |-> ProvesAt(f, store, query, depth)]

\* The recursion of prove has a solution.
LEMMA ProvesExist ==
    ASSUME NEW store, NEW query
    PROVE  ProvesFrom(Proves(store, query), store, query, 0)
<1> USE MapAssumption
<1> DEFINE K == {k \in 0..Levels : \E f : ProvesFrom(f, store, query, k)}
<1>1. Levels \in K
  <2> DEFINE f == [depth \in Levels..Levels |-> [node \in store |-> NoAnswer]]
  <2>1. ProvesFrom(f, store, query, Levels)
    BY DEF ProvesFrom, ProvesAt
  <2> QED BY <2>1
<1>2. \A k \in 0..(Levels - 1) : k + 1 \in K => k \in K
  <2> SUFFICES ASSUME NEW k \in 0..(Levels - 1), k + 1 \in K PROVE k \in K
    OBVIOUS
  <2>1. PICK f : ProvesFrom(f, store, query, k + 1)
    OBVIOUS
  <2> DEFINE g == [depth \in k..Levels |->
                      IF depth = k THEN ProvesAt(f, store, query, k) ELSE f[depth]]
  <2>2. \A depth \in (k + 1)..Levels : g[depth] = f[depth] /\ depth # k /\ depth \in k..Levels
    OBVIOUS
  <2>3. \A depth \in k..Levels : depth # Levels => depth + 1 \in (k + 1)..Levels
    OBVIOUS
  <2>4. \A depth \in k..Levels : ProvesAt(g, store, query, depth) = ProvesAt(f, store, query, depth)
    <3> HIDE DEF g
    <3> SUFFICES ASSUME NEW depth \in k..Levels
                 PROVE  ProvesAt(g, store, query, depth) = ProvesAt(f, store, query, depth)
      OBVIOUS
    <3>1. CASE depth = Levels
      BY <3>1 DEF ProvesAt
    <3>2. CASE depth # Levels
      BY <2>2, <2>3, <3>2 DEF ProvesAt
    <3> QED BY <3>1, <3>2
  <2>5. \A depth \in (k + 1)..Levels : f[depth] = ProvesAt(f, store, query, depth)
    BY <2>1 DEF ProvesFrom
  <2>6. \A depth \in k..Levels : g[depth] = ProvesAt(f, store, query, depth)
    BY <2>5
  <2>7. g = [depth \in k..Levels |-> ProvesAt(g, store, query, depth)]
    <3>1. g = [depth \in k..Levels |-> g[depth]]
      OBVIOUS
    <3> HIDE DEF g
    <3> QED BY <2>4, <2>6, <3>1
  <2>8. ProvesFrom(g, store, query, k)
    <3> HIDE DEF g
    <3> QED BY <2>7 DEF ProvesFrom
  <2> HIDE DEF g
  <2> QED BY <2>8
<1>3. 0 \in K
  <2>1. 0 \in 0..Levels
    OBVIOUS
  <2> HIDE DEF K
  <2> QED BY <1>1, <1>2, <2>1, Downwards
<1>4. \E f : ProvesFrom(f, store, query, 0)
  BY <1>3
<1>5. Proves(store, query) = CHOOSE f : ProvesFrom(f, store, query, 0)
  BY DEF Proves, ProvesFrom, ProvesAt
<1> QED BY <1>4, <1>5

\* The lookups of a depth, by those one deeper (prove).
LEMMA ProvesAre ==
    ASSUME NEW store, NEW query, NEW depth \in 0..Levels
    PROVE  Proves(store, query)[depth] = ProvesAt(Proves(store, query), store, query, depth)
<1> DEFINE f == Proves(store, query)
<1>1. ProvesFrom(f, store, query, 0)
  BY ProvesExist
<1> HIDE DEF f
<1>2. f[depth] = ProvesAt(f, store, query, depth)
  BY <1>1 DEF ProvesFrom
<1> QED BY <1>2 DEF f

\* prove, without recursion.
LEMMA ProvesIs ==
    ASSUME NEW store, NEW query, NEW node \in store, NEW depth \in 0..(Levels - 1)
    PROVE  Proves(store, query)[depth][node] =
               ProveCell(Proves(store, query)[depth + 1], store, query, depth,
                         Opened(node, Digit(query, depth)))
<1> USE MapAssumption
<1>1. depth \in 0..Levels /\ depth # Levels
  OBVIOUS
<1>2. Proves(store, query)[depth] = ProvesAt(Proves(store, query), store, query, depth)
  BY <1>1, ProvesAre
<1> QED BY <1>1, <1>2 DEF ProvesAt

\* The last nodes have no digit left.
LEMMA ProvesLast ==
    ASSUME NEW store, NEW query, NEW node \in store
    PROVE  Proves(store, query)[Levels][node] = NoAnswer
<1>1. Levels \in 0..Levels
  BY MapAssumption
<1>2. Proves(store, query)[Levels] = ProvesAt(Proves(store, query), store, query, Levels)
  BY <1>1, ProvesAre
<1> QED BY <1>2 DEF ProvesAt

\* A lookup that lacks nodes never yields an answer of its own (ErrIncompleteProof).
LEMMA LackingNodes ==
    ASSUME NEW store, NEW lacking, lacking \subseteq store, NEW query, NEW node \in lacking
    PROVE  Proves(lacking, query)[0][node] \in {Proves(store, query)[0][node], NoAnswer}
<1> USE MapAssumption
<1> DEFINE f == Proves(lacking, query)
           g == Proves(store, query)
           K == {k \in 0..Levels : \A n \in lacking : f[k][n] \in {g[k][n], NoAnswer}}
<1>0. ASSUME NEW k \in 0..(Levels - 1), NEW n \in lacking
      PROVE  /\ f[k][n] = ProveCell(f[k + 1], lacking, query, k, Opened(n, Digit(query, k)))
             /\ g[k][n] = ProveCell(g[k + 1], store, query, k, Opened(n, Digit(query, k)))
  <2>1. n \in store
    OBVIOUS
  <2>2. f[k][n] = ProveCell(f[k + 1], lacking, query, k, Opened(n, Digit(query, k)))
    <3> HIDE DEF K, g
    <3> QED BY ProvesIs
  <2>3. g[k][n] = ProveCell(g[k + 1], store, query, k, Opened(n, Digit(query, k)))
    <3> HIDE DEF K, f
    <3> QED BY <2>1, ProvesIs
  <2> QED BY <2>2, <2>3
<1>1. Levels \in K
  BY ProvesLast
<1>2. \A k \in 0..(Levels - 1) : k + 1 \in K => k \in K
  <2> SUFFICES ASSUME NEW k \in 0..(Levels - 1), k + 1 \in K, NEW n \in lacking
               PROVE  f[k][n] \in {g[k][n], NoAnswer}
    OBVIOUS
  <2> DEFINE cell == Opened(n, Digit(query, k))
             x == ProveCell(f[k + 1], lacking, query, k, cell)
             y == ProveCell(g[k + 1], store, query, k, cell)
  <2>1. f[k][n] = x /\ g[k][n] = y
    BY <1>0
  <2>2. \A m \in lacking : f[k + 1][m] \in {g[k + 1][m], NoAnswer}
    OBVIOUS
  <2> HIDE DEF f, g, cell
  <2>3. CASE cell.kind = "child" /\ cell.node \in lacking /\ f[k + 1][cell.node].ok
    <3>1. f[k + 1][cell.node] = g[k + 1][cell.node]
      BY <2>2, <2>3 DEF NoAnswer
    <3> QED BY <2>1, <2>3, <3>1 DEF ProveCell, Loaded
  <2>4. CASE cell.kind = "child" /\ ~(cell.node \in lacking /\ f[k + 1][cell.node].ok)
    <3>1. x = NoAnswer
      BY <2>4 DEF ProveCell, Loaded
    <3> QED BY <2>1, <3>1
  <2>5. CASE cell.kind # "child"
    <3>1. x = y
      BY <2>5 DEF ProveCell
    <3> QED BY <2>1, <3>1
  <2> QED BY <2>3, <2>4, <2>5
<1>3. 0 \in K
  <2>1. 0 \in 0..Levels
    OBVIOUS
  <2> HIDE DEF K
  <2> QED BY <1>1, <1>2, <2>1, Downwards
<1> QED BY <1>3

\* A cell that Verify lets pass at a depth (Verify).
Passes(cell, query, depth, answer, last) ==
    \/ cell.kind = "empty" /\ last /\ ~answer.present
    \/ cell.kind = "leaf" /\ last /\ LeafDecides(cell, query, depth, answer)
    \/ cell.kind = "child" /\ ~last

\* The cells a query can meet.
Met(items, query) == {Fresh(Prefixed(items, query, depth), depth) : depth \in 1..Levels}

\* Evidence from a depth on.
Evidence(answer, items, query, depth) ==
    \E target : \E cells \in Seq(Met(items, query)) :
        /\ answer = Answer(target # Undef, target, cells)
        /\ Len(cells) \in 1..(Levels - depth)
        /\ \A i \in 1..Len(cells) :
              /\ cells[i] = Fresh(Prefixed(items, query, depth + i), depth + i)
              /\ Passes(cells[i], query, depth + i - 1, answer, i = Len(cells))

\* A lookup from a depth on has evidence, if there can be any.
Honest(store, items, query, depth) ==
    MapNode(Prefixed(items, query, depth), depth) \in store =>
        LET answer == Proves(store, query)[depth][MapNode(Prefixed(items, query, depth), depth)]
        IN  /\ answer.ok <=> ~Hidden(items, query)
            /\ answer.ok => Evidence(answer, items, query, depth)

\* An answer with one cell.
LEMMA LastCell ==
    ASSUME NEW items, NEW query, NEW depth \in 0..(Levels - 1), NEW cell, NEW target,
           cell = Fresh(Prefixed(items, query, depth + 1), depth + 1),
           Passes(cell, query, depth, Answer(target # Undef, target, <<cell>>), TRUE)
    PROVE  Evidence(Answer(target # Undef, target, <<cell>>), items, query, depth)
<1> USE MapAssumption
<1> DEFINE cells == <<cell>>
           answer == Answer(target # Undef, target, cells)
<1>1. cell \in Met(items, query)
  <2>1. depth + 1 \in 1..Levels
    OBVIOUS
  <2> QED BY <2>1 DEF Met
<1>2. cells \in Seq(Met(items, query)) /\ Len(cells) = 1 /\ cells[1] = cell
  BY <1>1
<1> HIDE DEF cells
<1>3. Len(cells) \in 1..(Levels - depth)
  BY <1>2
<1>4. \A i \in 1..Len(cells) :
          /\ i = 1 /\ cells[i] = cell /\ depth + i = depth + 1 /\ depth + i - 1 = depth
          /\ (i = Len(cells)) = TRUE
  BY <1>2
<1>5. Passes(cell, query, depth, answer, TRUE)
  BY DEF cells
<1> HIDE DEF answer
<1>6. \A i \in 1..Len(cells) :
          /\ cells[i] = Fresh(Prefixed(items, query, depth + i), depth + i)
          /\ Passes(cells[i], query, depth + i - 1, answer, i = Len(cells))
  BY <1>4, <1>5
<1>7. Evidence(answer, items, query, depth)
  BY <1>2, <1>3, <1>6 DEF Evidence, answer
<1> QED BY <1>7 DEF answer, cells

\* An answer with one cell more.
LEMMA OneCellMore ==
    ASSUME NEW items, NEW query, NEW depth \in 0..(Levels - 1), NEW cell, NEW rest,
           cell = Fresh(Prefixed(items, query, depth + 1), depth + 1), cell.kind = "child",
           Evidence(rest, items, query, depth + 1)
    PROVE  Evidence(Answer(rest.present, rest.target, <<cell>> \o rest.cells), items, query, depth)
<1> USE MapAssumption
<1>0. PICK target : \E below \in Seq(Met(items, query)) :
        /\ rest = Answer(target # Undef, target, below)
        /\ Len(below) \in 1..(Levels - (depth + 1))
        /\ \A i \in 1..Len(below) :
              /\ below[i] = Fresh(Prefixed(items, query, depth + 1 + i), depth + 1 + i)
              /\ Passes(below[i], query, depth + 1 + i - 1, rest, i = Len(below))
  BY DEF Evidence
<1>1. PICK below \in Seq(Met(items, query)) :
        /\ rest = Answer(target # Undef, target, below)
        /\ Len(below) \in 1..(Levels - (depth + 1))
        /\ \A i \in 1..Len(below) :
              /\ below[i] = Fresh(Prefixed(items, query, depth + 1 + i), depth + 1 + i)
              /\ Passes(below[i], query, depth + 1 + i - 1, rest, i = Len(below))
  BY <1>0
<1> DEFINE cells == <<cell>> \o below
           answer == Answer(target # Undef, target, cells)
<1>2. Answer(rest.present, rest.target, <<cell>> \o rest.cells) = answer
  <2>1. rest.present = (target # Undef) /\ rest.target = target /\ rest.cells = below
    BY <1>1 DEF Answer
  <2> QED BY <2>1
<1>3. cell \in Met(items, query)
  <2>1. depth + 1 \in 1..Levels
    OBVIOUS
  <2> QED BY <2>1 DEF Met
<1>4. /\ cells \in Seq(Met(items, query)) /\ Len(cells) = Len(below) + 1 /\ cells[1] = cell
      /\ \A i \in 1..Len(below) : cells[i + 1] = below[i]
  BY <1>3
<1>5. answer.present = rest.present /\ answer.target = rest.target /\ answer.ok
  BY <1>1 DEF Answer
<1> HIDE DEF cells
<1>6. Len(cells) \in 1..(Levels - depth)
  BY <1>1, <1>4
<1>7. ASSUME NEW i \in 1..Len(cells)
      PROVE  /\ cells[i] = Fresh(Prefixed(items, query, depth + i), depth + i)
             /\ Passes(cells[i], query, depth + i - 1, answer, i = Len(cells))
  <2>1. CASE i = 1
    <3>1. i # Len(cells) /\ cells[i] = cell
      BY <1>1, <1>4, <2>1
    <3> QED BY <2>1, <3>1 DEF Passes
  <2>2. CASE i # 1
    <3> DEFINE j == i - 1
    <3>1. j \in 1..Len(below) /\ j + 1 = i /\ (i = Len(cells)) = (j = Len(below))
      BY <1>1, <1>4, <2>2
    <3>2. depth + 1 + j = depth + i /\ depth + 1 + j - 1 = depth + i - 1
      OBVIOUS
    <3> HIDE DEF j
    <3>3. cells[i] = below[j]
      BY <1>4, <3>1
    <3>4. /\ below[j] = Fresh(Prefixed(items, query, depth + i), depth + i)
          /\ Passes(below[j], query, depth + i - 1, rest, j = Len(below))
      BY <1>1, <3>1, <3>2
    <3>5. Passes(below[j], query, depth + i - 1, answer, j = Len(below))
      BY <1>5, <3>4 DEF Passes, LeafDecides
    <3> QED BY <3>1, <3>3, <3>4, <3>5
  <2> QED BY <2>1, <2>2
<1>8. Evidence(answer, items, query, depth)
  <2> HIDE DEF answer
  <2> QED BY <1>4, <1>6, <1>7 DEF Evidence, answer
<1> QED BY <1>2, <1>8

\* Bindings alone, and on the way of the query, are what hides it or answers it.
LEMMA LeafAnswers ==
    ASSUME NEW items \in SUBSET Arcs, Unambiguous(items), NEW query \in Labels,
           NEW depth \in 0..(Levels - 1), NEW b, Prefixed(items, query, depth + 1) = {b}
    PROVE  /\ b \in items /\ b.target \in Targets
           /\ OnRoute(b.label, query, depth)
           /\ Hidden(items, query) <=> Collides(b.label, query)
<1>1. b \in items /\ \A d \in 0..(depth + 1 - 1) : Digit(b.label, d) = Digit(query, d)
  BY DEF Prefixed
<1>2. depth + 1 - 1 = depth
  BY MapAssumption
<1>3. OnRoute(b.label, query, depth)
  BY <1>1, <1>2 DEF OnRoute
<1>4. \A x \in items : CoordinateOf[x.label] = CoordinateOf[query] => x = b
  BY SameIsPrefixed
<1> QED BY <1>1, <1>3, <1>4 DEF Hidden, Collides, Arcs

\* One cell of an honest lookup (prove).
LEMMA HonestCell ==
    ASSUME NEW items \in SUBSET Arcs, Unambiguous(items), NEW query \in Labels,
           NEW store, Complete(store), NEW depth \in 0..(Levels - 1),
           depth + 1 \in 0..(Levels - 1) => Honest(store, items, query, depth + 1)
    PROVE  Honest(store, items, query, depth)
<1> USE MapAssumption
<1> DEFINE group == Prefixed(items, query, depth + 1)
           node == MapNode(Prefixed(items, query, depth), depth)
           cell == node[Digit(query, depth)]
           below == Proves(store, query)[depth + 1]
           answer == Proves(store, query)[depth][node]
<1> SUFFICES ASSUME node \in store
             PROVE  /\ answer.ok <=> ~Hidden(items, query)
                    /\ answer.ok => Evidence(answer, items, query, depth)
  BY DEF Honest
<1>1. cell = Fresh(group, depth + 1) /\ group \in SUBSET Arcs
  BY OnTheWay
<1>2. answer = ProveCell(below, store, query, depth, cell)
  <2>1. answer = ProveCell(below, store, query, depth, Opened(node, Digit(query, depth)))
    <3> HIDE DEF node
    <3> QED BY ProvesIs
  <2> QED BY <2>1 DEF Opened
<1>3. \A x \in items : CoordinateOf[x.label] = CoordinateOf[query] => x \in group
  BY SameIsPrefixed
<1>4. CASE group = {} /\ cell.kind = "empty"
  <2>1. answer = Answer(FALSE, Undef, <<cell>>)
    <3> HIDE DEF cell
    <3> QED BY <1>2, <1>4 DEF ProveCell
  <2>2. ~Hidden(items, query)
    BY <1>3, <1>4 DEF Hidden, Collides
  <2> HIDE DEF cell, answer, node
  <2>3. answer = Answer(Undef # Undef, Undef, <<cell>>)
    BY <2>1
  <2>4. Passes(cell, query, depth, Answer(Undef # Undef, Undef, <<cell>>), TRUE)
    BY <1>4 DEF Passes, Answer
  <2>5. Evidence(answer, items, query, depth)
    BY <1>1, <2>3, <2>4, LastCell
  <2>6. answer.ok
    BY <2>1 DEF Answer
  <2> QED BY <2>2, <2>5, <2>6
<1>5. CASE \E b \in group : /\ group = {b} /\ cell.kind = "leaf"
                            /\ cell.label = b.label /\ cell.target = b.target
  <2>1. PICK b : group = {b} /\ cell.kind = "leaf" /\ cell.label = b.label /\ cell.target = b.target
    BY <1>5
  <2>2. /\ OnRoute(b.label, query, depth) /\ b.target \in Targets
        /\ Hidden(items, query) <=> Collides(b.label, query)
    BY <2>1, LeafAnswers
  <2> DEFINE target == IF b.label = query THEN b.target ELSE Undef
  <2>3. answer = IF Collides(b.label, query) THEN NoAnswer
                 ELSE Answer(b.label = query, target, <<cell>>)
    <3> HIDE DEF cell, below
    <3> QED BY <1>2, <2>1, <2>2 DEF ProveCell
  <2>4. (b.label = query) = (target # Undef)
    BY <2>2
  <2> HIDE DEF cell, answer, node
  <2>5. CASE Collides(b.label, query)
    BY <2>2, <2>3, <2>5 DEF NoAnswer
  <2>6. CASE ~Collides(b.label, query)
    <3>1. answer = Answer(target # Undef, target, <<cell>>)
      BY <2>3, <2>4, <2>6
    <3>2. LeafDecides(cell, query, depth, Answer(target # Undef, target, <<cell>>))
      <4>1. CASE b.label = query
        BY <2>1, <2>2, <4>1 DEF LeafDecides, Answer
      <4>2. CASE b.label # query
        BY <2>1, <2>2, <2>6, <4>2 DEF LeafDecides, Answer, Collides
      <4> QED BY <4>1, <4>2
    <3> HIDE DEF target
    <3>3. Passes(cell, query, depth, Answer(target # Undef, target, <<cell>>), TRUE)
      BY <2>1, <3>2 DEF Passes
    <3>4. Evidence(answer, items, query, depth)
      BY <1>1, <3>1, <3>3, LastCell, ZenonT(40)
    <3>5. answer.ok
      BY <3>1 DEF Answer
    <3> QED BY <2>2, <2>6, <3>4, <3>5
  <2> QED BY <2>5, <2>6
<1>6. CASE Several(group) /\ cell.kind = "child" /\ cell.node = MapNode(group, depth + 1)
  <2>1. depth + 1 \in 0..(Levels - 1)
    <3>1. Labelled(group) /\ Unambiguous(group) /\ Sharing(group, depth + 1) /\ depth + 1 \in 0..Levels
      BY DEF Labelled, Unambiguous, Sharing, Prefixed, Arcs
    <3> QED BY <1>6, <3>1, SeveralPart
  <2>2. cell.node \in store
    <3>1. Digit(query, depth) \in Slot
      BY DigitType
    <3>2. cell.node \in ChildNodes(node)
      BY <1>6, <3>1 DEF ChildNodes
    <3> QED BY <3>2 DEF Complete
  <2> DEFINE rest == below[cell.node]
  <2>3. /\ rest.ok <=> ~Hidden(items, query)
        /\ rest.ok => Evidence(rest, items, query, depth + 1)
    BY <1>6, <2>1, <2>2 DEF Honest
  <2>4. answer = IF rest.ok THEN Answer(rest.present, rest.target, <<cell>> \o rest.cells) ELSE NoAnswer
    <3> HIDE DEF cell, below
    <3> QED BY <1>2, <1>6, <2>2 DEF ProveCell, Loaded
  <2> HIDE DEF cell, answer, node, rest
  <2>5. CASE rest.ok
    <3>1. Evidence(answer, items, query, depth)
      BY <1>1, <1>6, <2>3, <2>4, <2>5, OneCellMore
    <3>2. answer.ok
      BY <2>4, <2>5 DEF Answer
    <3> QED BY <2>3, <2>5, <3>1, <3>2
  <2>6. CASE ~rest.ok
    BY <2>3, <2>4, <2>6 DEF NoAnswer
  <2> QED BY <2>5, <2>6
<1> HIDE DEF cell, group, answer
<1>7. \/ group = {} /\ cell.kind = "empty"
      \/ \E b \in group : /\ group = {b} /\ cell.kind = "leaf"
                          /\ cell.label = b.label /\ cell.target = b.target
      \/ Several(group) /\ cell.kind = "child" /\ cell.node = MapNode(group, depth + 1)
  <2> DEFINE deeper == depth + 1
  <2> HIDE DEF deeper
  <2>1. cell = Fresh(group, deeper) /\ group \in SUBSET Arcs
    BY <1>1 DEF deeper
  <2>2. \/ group = {} /\ cell.kind = "empty"
        \/ \E b \in group : /\ group = {b} /\ cell.kind = "leaf"
                            /\ cell.label = b.label /\ cell.target = b.target
        \/ Several(group) /\ cell.kind = "child" /\ cell.node = MapNode(group, deeper)
    BY <2>1, CellTells
  <2> QED BY <2>2 DEF deeper
<1> QED BY <1>4, <1>5, <1>6, <1>7

\* An honest lookup in a whole Map has evidence of every label that is not hidden.
LEMMA HonestAlways ==
    ASSUME NEW items \in SUBSET Arcs, Unambiguous(items), NEW query \in Labels,
           NEW store, Complete(store)
    PROVE  Honest(store, items, query, 0)
<1> USE MapAssumption
<1> DEFINE K == {k \in 0..Levels : k \in 0..(Levels - 1) => Honest(store, items, query, k)}
<1>1. Levels \in K
  OBVIOUS
<1>2. \A k \in 0..(Levels - 1) : k + 1 \in K => k \in K
  <2> TAKE k \in 0..(Levels - 1)
  <2> QED BY HonestCell
<1>3. 0 \in K /\ 0 \in 0..(Levels - 1)
  <2>1. 0 \in 0..Levels /\ 0 \in 0..(Levels - 1)
    OBVIOUS
  <2> HIDE DEF K
  <2> QED BY <1>1, <1>2, <2>1, Downwards
<1> QED BY <1>3

\* Evidence from the Root on is what Verify accepts.
LEMMA EvidenceVerifies ==
    ASSUME NEW items \in SUBSET Arcs, NEW query \in Labels,
           NEW answer, Evidence(answer, items, query, 0)
    PROVE  Verify(MapNode(items, 0), query, answer)
<1> USE MapAssumption
<1> DEFINE cells == answer.cells
           node == MapNode(items, 0)
           P(depth) == Prefixed(items, query, depth)
<1>0. PICK target : \E below \in Seq(Met(items, query)) :
        /\ answer = Answer(target # Undef, target, below)
        /\ Len(below) \in 1..(Levels - 0)
        /\ \A i \in 1..Len(below) :
              /\ below[i] = Fresh(P(0 + i), 0 + i)
              /\ Passes(below[i], query, 0 + i - 1, answer, i = Len(below))
  BY DEF Evidence
<1>1. /\ answer.present = (answer.target # Undef)
      /\ Len(cells) \in 1..Levels
      /\ \A i \in 1..Len(cells) : /\ cells[i] = Fresh(P(0 + i), 0 + i)
                                  /\ Passes(cells[i], query, 0 + i - 1, answer, i = Len(cells))
  <2>1. PICK below \in Seq(Met(items, query)) :
          /\ answer = Answer(target # Undef, target, below)
          /\ Len(below) \in 1..(Levels - 0)
          /\ \A i \in 1..Len(below) :
                /\ below[i] = Fresh(P(0 + i), 0 + i)
                /\ Passes(below[i], query, 0 + i - 1, answer, i = Len(below))
    BY <1>0
  <2>2. answer.present = (target # Undef) /\ answer.target = target /\ cells = below
    BY <2>1 DEF Answer
  <2>3. Levels - 0 = Levels
    OBVIOUS
  <2> HIDE DEF cells, P
  <2> QED BY <2>1, <2>2, <2>3
<1>2. P(0) = items
  BY DEF Prefixed
<1> HIDE DEF cells
<1>3. ASSUME NEW depth \in 0..(Len(cells) - 1)
      PROVE  /\ cells[depth + 1] = Fresh(P(depth + 1), depth + 1)
             /\ Passes(cells[depth + 1], query, depth, answer, depth + 1 = Len(cells))
             /\ depth \in 0..(Levels - 1)
             /\ depth # 0 => cells[depth] = Fresh(P(depth), depth) /\ cells[depth].kind = "child"
  <2>1. depth + 1 \in 1..Len(cells) /\ 0 + (depth + 1) = depth + 1 /\ 0 + (depth + 1) - 1 = depth
    BY <1>1
  <2>2. depth # 0 => depth \in 1..Len(cells) /\ depth # Len(cells) /\ 0 + depth = depth
    BY <1>1
  <2>3. cells[depth + 1] = Fresh(P(depth + 1), depth + 1)
        /\ Passes(cells[depth + 1], query, depth, answer, depth + 1 = Len(cells))
    <3> HIDE DEF P
    <3> QED BY <1>1, <2>1
  <2>4. ASSUME depth # 0 PROVE cells[depth] = Fresh(P(depth), depth) /\ cells[depth].kind = "child"
    <3>1. cells[depth] = Fresh(P(depth), depth)
          /\ Passes(cells[depth], query, 0 + depth - 1, answer, depth = Len(cells))
      <4> HIDE DEF P
      <4> QED BY <1>1, <2>2, <2>4
    <3> QED BY <2>2, <2>4, <3>1 DEF Passes
  <2> QED BY <1>1, <2>3, <2>4
<1>4. ASSUME NEW depth \in 0..(Len(cells) - 1)
      PROVE  /\ Opens(NodeAt(node, cells, depth), Digit(query, depth), cells[depth + 1])
             /\ Passes(cells[depth + 1], query, depth, answer, depth + 1 = Len(cells))
  <2>1. NodeAt(node, cells, depth) = MapNode(P(depth), depth)
    <3>1. CASE depth = 0
      BY <1>2, <3>1 DEF NodeAt
    <3>2. CASE depth # 0
      <4>1. P(depth) \in SUBSET Arcs
        BY DEF Prefixed
      <4>2. cells[depth].node = MapNode(P(depth), depth)
        <5> HIDE DEF P
        <5> QED BY <1>3, <3>2, <4>1, CellTells
      <4> QED BY <3>2, <4>2 DEF NodeAt
    <3> QED BY <3>1, <3>2
  <2>2. MapNode(P(depth), depth)[Digit(query, depth)] = Fresh(P(depth + 1), depth + 1)
    BY <1>3, OnTheWay
  <2>3. Digit(query, depth) \in Slot
    BY <1>3, DigitType
  <2> HIDE DEF P, node
  <2> QED BY <1>3, <2>1, <2>2, <2>3 DEF Opens, Opened
<1> HIDE DEF node, P
<1>5. \A depth \in 0..(Len(cells) - 1) :
        LET cell == cells[depth + 1]
            last == depth + 1 = Len(cells)
        IN  /\ Opens(NodeAt(node, cells, depth), Digit(query, depth), cell)
            /\ CASE cell.kind = "empty" -> last /\ ~answer.present
                 [] cell.kind = "leaf"  -> last /\ LeafDecides(cell, query, depth, answer)
                 [] cell.kind = "child" -> ~last
                 [] OTHER -> FALSE
  BY <1>4 DEF Passes
<1> QED BY <1>1, <1>5 DEF Verify, cells, node

-----------------------------------------------------------------------------
(* The theorem.                                                             *)

\* Everything about the queries of one Map.
LEMMA QueryDecides ==
    ASSUME NEW items \in SUBSET Arcs, Unambiguous(items), root = MapNode(items, 0),
           NEW query \in Labels, NEW honest, honest = Prove(NodesOf(root), root, query)
    PROVE  /\ honest.ok <=> ~Hidden(items, query)
           /\ honest.ok => Verify(root, query, honest)
           /\ \A node \in NodesOf(root) :
                  Prove(NodesOf(root) \ {node}, root, query) \in {honest, NoAnswer}
<1> DEFINE store == NodesOf(root)
<1>1. root \in store /\ Complete(store)
  BY NodesOfMap
<1> HIDE DEF store
<1>2. honest = Proves(store, query)[0][root]
  BY <1>1 DEF Prove, Loaded, store
<1>3. Prefixed(items, query, 0) = items
  BY DEF Prefixed
<1>4. (honest.ok <=> ~Hidden(items, query)) /\ (honest.ok => Evidence(honest, items, query, 0))
  <2>1. Honest(store, items, query, 0)
    BY <1>1, HonestAlways
  <2> QED BY <1>1, <1>2, <1>3, <2>1 DEF Honest
<1>5. honest.ok => Verify(root, query, honest)
  BY <1>4, EvidenceVerifies
<1>6. ASSUME NEW node \in store
      PROVE  Prove(store \ {node}, root, query) \in {honest, NoAnswer}
  <2> DEFINE lacking == store \ {node}
  <2>0. lacking \subseteq store
    OBVIOUS
  <2> HIDE DEF lacking
  <2>1. root \notin lacking => Prove(lacking, root, query) = NoAnswer
    BY DEF Prove, Loaded
  <2>2. ASSUME root \in lacking
        PROVE  Prove(lacking, root, query) \in {Proves(store, query)[0][root], NoAnswer}
    <3>1. Prove(lacking, root, query) = Proves(lacking, query)[0][root]
      BY <2>2 DEF Prove, Loaded
    <3>2. Proves(lacking, query)[0][root] \in {Proves(store, query)[0][root], NoAnswer}
      BY <2>0, <2>2, LackingNodes
    <3> QED BY <3>1, <3>2
  <2>3. Prove(lacking, root, query) \in {honest, NoAnswer}
    BY <1>2, <2>1, <2>2
  <2> QED BY <2>3 DEF lacking
<1> QED BY <1>4, <1>5, <1>6 DEF store

\* Evidence about a Root decides: whatever proof nodes a peer sends, what Verify accepts
\* is what the Map holds; and every label that no collision hides has evidence (prove,
\* Verify, checkLeafRoute).
THEOREM EvidenceDecides == Spec => []ProofsDecide
<1>1. Committed => ProofsDecide
  <2> SUFFICES ASSUME Committed PROVE ProofsDecide
    OBVIOUS
  <2>1. PICK items \in SUBSET Arcs : Unambiguous(items) /\ root = MapNode(items, 0)
    BY DEF Committed
  <2> DEFINE arcs == ArcsOf(root)
             hidden(query) == \E l \in DOMAIN arcs : Collides(l, query)
             honest(query) == Prove(NodesOf(root), root, query)
             offered == Offered
  <2>2. DOMAIN arcs = {b.label : b \in items} /\ \A b \in items : arcs[b.label] = b.target
    BY <2>1, ArcsOfMap
  <2>3. \A query : hidden(query) <=> Hidden(items, query)
    <3> HIDE DEF arcs
    <3> QED BY <2>2 DEF Hidden
  <2>4. ASSUME NEW query \in Labels
        PROVE  /\ honest(query).ok <=> ~hidden(query)
               /\ honest(query).ok => Verify(root, query, honest(query))
               /\ \A node \in NodesOf(root) :
                      Prove(NodesOf(root) \ {node}, root, query) \in {honest(query), NoAnswer}
    <3> HIDE DEF hidden
    <3> QED BY <2>1, <2>3, QueryDecides
  <2>5. ASSUME NEW query \in Labels, NEW answer, Verify(root, query, answer)
        PROVE  /\ ~hidden(query)
               /\ answer.target = IF query \in DOMAIN arcs THEN arcs[query] ELSE Undef
    <3>1. ~Hidden(items, query) /\ Holds(items, query, answer.target)
      BY <2>1, <2>5, VerifySound
    <3> HIDE DEF arcs
    <3>2. CASE \E b \in items : b.label = query /\ b.target = answer.target
      BY <2>2, <2>3, <3>1, <3>2
    <3>3. CASE answer.target = Undef /\ \A b \in items : b.label # query
      BY <2>2, <2>3, <3>1, <3>3
    <3> QED BY <3>1, <3>2, <3>3 DEF Holds
  <2> HIDE DEF offered, arcs
  <2>6. \A query \in Labels :
           /\ honest(query).ok <=> ~hidden(query)
           /\ honest(query).ok => Verify(root, query, honest(query))
           /\ \A node \in NodesOf(root) :
                  Prove(NodesOf(root) \ {node}, root, query) \in {honest(query), NoAnswer}
           /\ \A answer \in {a \in offered : Verify(root, query, a)} :
                  /\ ~hidden(query)
                  /\ answer.target = IF query \in DOMAIN arcs THEN arcs[query] ELSE Undef
    <3> HIDE DEF hidden, honest
    <3> QED BY <2>4, <2>5 DEF honest
  <2> QED BY <2>6 DEF ProofsDecide, offered, arcs
<1> QED BY Invariance, <1>1, PTL

-----------------------------------------------------------------------------
(* Distinct items.                                                         *)

\* What is in the sequences is in the whole, as often and no oftener.
LEMMA FlatItems ==
    ASSUME NEW n \in Nat \ {0}, NEW S, NEW seqs \in [1..n -> Seq(S)],
           NEW flat, flat = FlattenSeq(seqs)
    PROVE  /\ flat \in Seq(S)
           /\ \A x : x \in ToSet(flat) <=> \E m \in 1..n : x \in ToSet(seqs[m])
           /\ Distinct(flat) => \A m \in 1..n : Distinct(seqs[m])
           /\ (/\ \A m \in 1..n : Distinct(seqs[m])
               /\ \A m, k \in 1..n : \A x \in ToSet(seqs[m]), y \in ToSet(seqs[k]) :
                      SameCoordinate(x, y) => m = k)
              => Distinct(flat)
<1>1. PICK offset : Spread(flat, seqs, n, offset)
  BY FlatPlaces
<1>2. flat \in Seq(S) /\ \A m \in 1..n : DOMAIN seqs[m] \subseteq Nat
  BY FlatPlaces
<1>4. \A m \in 1..n : \A j \in DOMAIN seqs[m] :
          offset[m] + j \in DOMAIN flat /\ flat[offset[m] + j] = seqs[m][j]
  BY <1>1 DEF Spread
<1>5. \A k \in DOMAIN flat : \E m \in 1..n : \E j \in DOMAIN seqs[m] :
          k = offset[m] + j /\ flat[k] = seqs[m][j]
  BY <1>1 DEF Spread
<1>6. \A x : x \in ToSet(flat) <=> \E m \in 1..n : x \in ToSet(seqs[m])
  BY FlatPlaces
<1>7. ASSUME Distinct(flat), NEW m \in 1..n PROVE Distinct(seqs[m])
  <2> SUFFICES ASSUME NEW i \in DOMAIN seqs[m], NEW j \in DOMAIN seqs[m],
                      SameCoordinate(seqs[m][i], seqs[m][j])
               PROVE  i = j
    BY DEF Distinct
  <2>1. offset[m] + i = offset[m] + j
    BY <1>4, <1>7 DEF Distinct
  <2>2. i \in Nat /\ j \in Nat /\ offset[m] \in Nat
    BY <1>1, <1>2 DEF Spread
  <2> QED BY <2>1, <2>2
<1>8. ASSUME \A m \in 1..n : Distinct(seqs[m]),
             \A m, k \in 1..n : \A x \in ToSet(seqs[m]), y \in ToSet(seqs[k]) :
                 SameCoordinate(x, y) => m = k
      PROVE  Distinct(flat)
  <2> SUFFICES ASSUME NEW i \in DOMAIN flat, NEW j \in DOMAIN flat,
                      SameCoordinate(flat[i], flat[j])
               PROVE  i = j
    BY DEF Distinct
  <2>1. PICK m \in 1..n : \E x \in DOMAIN seqs[m] : i = offset[m] + x /\ flat[i] = seqs[m][x]
    BY <1>5
  <2>2. PICK x \in DOMAIN seqs[m] : i = offset[m] + x /\ flat[i] = seqs[m][x]
    BY <2>1
  <2>3. PICK k \in 1..n : \E y \in DOMAIN seqs[k] : j = offset[k] + y /\ flat[j] = seqs[k][y]
    BY <1>5
  <2>4. PICK y \in DOMAIN seqs[k] : j = offset[k] + y /\ flat[j] = seqs[k][y]
    BY <2>3
  <2>5. m = k
    BY <1>8, <2>2, <2>4 DEF ToSet
  <2>6. x = y
    BY <1>8, <2>2, <2>4, <2>5 DEF Distinct
  <2> QED BY <2>2, <2>4, <2>5, <2>6
<1> QED BY <1>2, <1>6, <1>7, <1>8

-----------------------------------------------------------------------------
(* The walk.                                                                *)

\* A cell as its parser leaves it (parseCell).
IsCell(cell) ==
    \/ cell = Empty
    \/ \E b \in Arcs : cell = Leaf(b)
    \/ \E n : cell = ChildCell(n)

\* A node as its vector of cells leaves it.
WellFormed(node) == node = [slot \in Slot |-> node[slot]] /\ \A slot \in Slot : IsCell(node[slot])

WalksAt(f, store, depth) ==
    [node \in store |-> [path \in [1..depth -> Slot] |->
        IF depth = Levels THEN Walked(FALSE, <<>>)
        ELSE WalkNode(f[depth + 1], store, node, path)]]

WalksFrom(f, store, k) == f = [depth \in k..Levels |-> WalksAt(f, store, depth)]

\* The recursion of walk has a solution.
LEMMA WalksExist ==
    ASSUME NEW store
    PROVE  WalksFrom(MapWalks(store), store, 0)
<1> USE MapAssumption
<1> DEFINE K == {k \in 0..Levels : \E f : WalksFrom(f, store, k)}
<1>1. Levels \in K
  <2> DEFINE f == [depth \in Levels..Levels |->
                      [node \in store |-> [path \in [1..depth -> Slot] |-> Walked(FALSE, <<>>)]]]
  <2>1. WalksFrom(f, store, Levels)
    BY DEF WalksFrom, WalksAt
  <2> QED BY <2>1
<1>2. \A k \in 0..(Levels - 1) : k + 1 \in K => k \in K
  <2> SUFFICES ASSUME NEW k \in 0..(Levels - 1), k + 1 \in K PROVE k \in K
    OBVIOUS
  <2>1. PICK f : WalksFrom(f, store, k + 1)
    OBVIOUS
  <2> DEFINE g == [depth \in k..Levels |-> IF depth = k THEN WalksAt(f, store, k) ELSE f[depth]]
  <2>2. \A depth \in (k + 1)..Levels : g[depth] = f[depth] /\ depth # k /\ depth \in k..Levels
    OBVIOUS
  <2>3. \A depth \in k..Levels : depth # Levels => depth + 1 \in (k + 1)..Levels
    OBVIOUS
  <2>4. \A depth \in k..Levels : WalksAt(g, store, depth) = WalksAt(f, store, depth)
    <3> HIDE DEF g
    <3> SUFFICES ASSUME NEW depth \in k..Levels PROVE WalksAt(g, store, depth) = WalksAt(f, store, depth)
      OBVIOUS
    <3>1. CASE depth = Levels
      BY <3>1 DEF WalksAt
    <3>2. CASE depth # Levels
      BY <2>2, <2>3, <3>2 DEF WalksAt
    <3> QED BY <3>1, <3>2
  <2>5. \A depth \in (k + 1)..Levels : f[depth] = WalksAt(f, store, depth)
    BY <2>1 DEF WalksFrom
  <2>6. \A depth \in k..Levels : g[depth] = WalksAt(f, store, depth)
    BY <2>5
  <2>7. g = [depth \in k..Levels |-> WalksAt(g, store, depth)]
    <3>1. g = [depth \in k..Levels |-> g[depth]]
      OBVIOUS
    <3> HIDE DEF g
    <3> QED BY <2>4, <2>6, <3>1
  <2>8. WalksFrom(g, store, k)
    <3> HIDE DEF g
    <3> QED BY <2>7 DEF WalksFrom
  <2> HIDE DEF g
  <2> QED BY <2>8
<1>3. 0 \in K
  <2>1. 0 \in 0..Levels
    OBVIOUS
  <2> HIDE DEF K
  <2> QED BY <1>1, <1>2, <2>1, Downwards
<1>4. \E f : WalksFrom(f, store, 0)
  BY <1>3
<1>5. MapWalks(store) = CHOOSE f : WalksFrom(f, store, 0)
  BY DEF MapWalks, WalksFrom, WalksAt
<1> QED BY <1>4, <1>5

\* The walks of a depth, by those one deeper (walk).
LEMMA WalksAre ==
    ASSUME NEW store, NEW depth \in 0..Levels
    PROVE  MapWalks(store)[depth] = WalksAt(MapWalks(store), store, depth)
<1> DEFINE f == MapWalks(store)
<1>1. WalksFrom(f, store, 0)
  BY WalksExist
<1> HIDE DEF f
<1>2. f[depth] = WalksAt(f, store, depth)
  BY <1>1 DEF WalksFrom
<1> QED BY <1>2 DEF f

\* walk, without recursion.
LEMMA WalksIs ==
    ASSUME NEW store, NEW node \in store, NEW depth \in 0..(Levels - 1), NEW path \in [1..depth -> Slot]
    PROVE  MapWalks(store)[depth][node][path] = WalkNode(MapWalks(store)[depth + 1], store, node, path)
<1> USE MapAssumption
<1>1. depth \in 0..Levels /\ depth # Levels
  OBVIOUS
<1>2. MapWalks(store)[depth] = WalksAt(MapWalks(store), store, depth)
  BY <1>1, WalksAre
<1> QED BY <1>1, <1>2 DEF WalksAt

\* No node is read below the last digit.
LEMMA WalksLast ==
    ASSUME NEW store, NEW node \in store, NEW path \in [1..Levels -> Slot]
    PROVE  MapWalks(store)[Levels][node][path] = Walked(FALSE, <<>>)
<1>1. Levels \in 0..Levels
  BY MapAssumption
<1>2. MapWalks(store)[Levels] = WalksAt(MapWalks(store), store, Levels)
  BY <1>1, WalksAre
<1> QED BY <1>2 DEF WalksAt

\* A binding's digits are those of the path to its node.
OnPath(b, path, depth) == \A d \in 0..(depth - 1) : Digit(b.label, d) = path[d + 1]

\* A route has one slot more than the path to its node.
LEMMA RouteIs ==
    ASSUME NEW depth \in 0..(Levels - 1), NEW path \in [1..depth -> Slot], NEW slot \in Slot
    PROVE  /\ Append(path, slot) \in [1..(depth + 1) -> Slot]
           /\ \A b : OnPath(b, Append(path, slot), depth + 1) <=>
                         OnPath(b, path, depth) /\ Digit(b.label, depth) = slot
<1> USE MapAssumption
<1> DEFINE route == Append(path, slot)
<1>1. path \in Seq(Slot) /\ Len(path) = depth
  OBVIOUS
<1>2. route \in Seq(Slot) /\ Len(route) = depth + 1
  BY <1>1
<1>3. route[depth + 1] = slot /\ \A i \in 1..depth : route[i] = path[i]
  BY <1>1
<1>4. route \in [1..(depth + 1) -> Slot]
  <2> DEFINE n == depth + 1
  <2>1. n \in Nat
    OBVIOUS
  <2> HIDE DEF route, n
  <2>2. route \in Seq(Slot) /\ Len(route) = n
    BY <1>2 DEF n
  <2>3. route \in [1..n -> Slot]
    BY <2>1, <2>2
  <2> QED BY <2>3 DEF n
<1> HIDE DEF route
<1>5. /\ \A d \in 0..depth : d = depth \/ (d \in 0..(depth - 1) /\ d + 1 \in 1..depth)
      /\ \A d \in 0..(depth - 1) : d \in 0..depth /\ d + 1 \in 1..depth
      /\ depth \in 0..depth /\ (depth + 1) - 1 = depth
  OBVIOUS
<1>6. ASSUME NEW b
      PROVE  OnPath(b, route, depth + 1) <=> OnPath(b, path, depth) /\ Digit(b.label, depth) = slot
  BY <1>3, <1>5 DEF OnPath
<1> QED BY <1>4, <1>6 DEF route

-----------------------------------------------------------------------------
(* What a walk accepts.                                                     *)

\* An accepted walk without duplicates tells the node that its bindings make.
Tells(walk, node, path, depth) ==
    /\ walk.items \in Seq(Arcs)
    /\ walk.ok => \A b \in ToSet(walk.items) : OnPath(b, path, depth)
    /\ walk.ok /\ Distinct(walk.items) => node = MapNode(ToSet(walk.items), depth)

WalksTell(store, depth) ==
    \A node \in store : \A path \in [1..depth -> Slot] :
        Tells(MapWalks(store)[depth][node][path], node, path, depth)

\* And so does that of one cell.
TellsCell(walk, cell, path, slot, depth) ==
    /\ walk.items \in Seq(Arcs)
    /\ walk.ok => \A b \in ToSet(walk.items) : OnPath(b, path, depth) /\ Digit(b.label, depth) = slot
    /\ walk.ok /\ Distinct(walk.items) => cell = Fresh(ToSet(walk.items), depth + 1)

\* Two bindings of a walk without duplicates are different.
LEMMA TwoItems ==
    ASSUME NEW S, NEW items \in Seq(S), Len(items) >= 2, Distinct(items)
    PROVE  Several(ToSet(items))
<1>1. 1 \in DOMAIN items /\ 2 \in DOMAIN items /\ DOMAIN items = 1..Len(items)
  OBVIOUS
<1>2. items[1] # items[2]
  <2> SUFFICES ASSUME items[1] = items[2] PROVE FALSE
    OBVIOUS
  <2>1. SameCoordinate(items[1], items[2])
    BY DEF SameCoordinate
  <2>2. 1 = 2
    BY <1>1, <2>1 DEF Distinct
  <2> QED BY <2>2
<1>3. items[1] \in ToSet(items) /\ items[2] \in ToSet(items)
  BY <1>1 DEF ToSet
<1> QED BY <1>2, <1>3 DEF Several

\* A walk of one cell that is accepted tells the cell that its bindings make.
LEMMA CellTold ==
    ASSUME NEW store, NEW depth \in 0..(Levels - 1), WalksTell(store, depth + 1),
           NEW cell, IsCell(cell), NEW path \in [1..depth -> Slot], NEW slot \in Slot,
           NEW walk, walk = WalkCell(MapWalks(store)[depth + 1], store, cell, Append(path, slot))
    PROVE  TellsCell(walk, cell, path, slot, depth)
<1> USE MapAssumption DEF TellsCell
<1> DEFINE route == Append(path, slot)
           below == MapWalks(store)[depth + 1]
<1>1. /\ route \in [1..(depth + 1) -> Slot]
      /\ \A b : OnPath(b, route, depth + 1) <=> OnPath(b, path, depth) /\ Digit(b.label, depth) = slot
  BY RouteIs
<1>2. walk = WalkCell(below, store, cell, route)
  OBVIOUS
<1>3. (depth + 1) - 1 = depth /\ depth + 1 \in 0..Levels
  OBVIOUS
<1> HIDE DEF route
<1>4. CASE cell = Empty
  <2>1. walk = Walked(TRUE, <<>>)
    <3> HIDE DEF below
    <3> QED BY <1>2, <1>4 DEF WalkCell, Empty
  <2>2. walk.ok = TRUE /\ walk.items = <<>>
    BY <2>1 DEF Walked
  <2>3. ToSet(walk.items) = {} /\ walk.items \in Seq(Arcs)
    BY <2>2 DEF ToSet
  <2> QED BY <1>4, <2>3, FreshKind
<1>5. CASE \E b \in Arcs : cell = Leaf(b)
  <2>1. PICK b \in Arcs : cell = Leaf(b)
    BY <1>5
  <2>2. cell.kind = "leaf" /\ cell.label = b.label /\ cell.target = b.target
    BY <2>1 DEF Leaf
  <2>3. walk = Walked(\A i \in DOMAIN route : CoordinateOf[b.label][i] = route[i],
                      <<Binding(b.label, b.target)>>)
    <3> HIDE DEF below
    <3> QED BY <1>2, <2>2 DEF WalkCell
  <2>4. Binding(b.label, b.target) = b
    BY DEF Binding, Arcs
  <2>5. walk.items = <<b>> /\ (walk.ok <=> \A i \in DOMAIN route : CoordinateOf[b.label][i] = route[i])
    BY <2>3, <2>4 DEF Walked
  <2>6. ToSet(walk.items) = {b} /\ walk.items \in Seq(Arcs)
    <3>1. DOMAIN <<b>> = {1}
      OBVIOUS
    <3> QED BY <2>5, <3>1 DEF ToSet
  <2>7. Fresh({b}, depth + 1) = Leaf(b)
    <3> DEFINE alone == {b}
    <3>1. alone # {} /\ ~Several(alone) /\ \A x \in alone : x = b
      BY DEF Several
    <3>2. \E x \in alone : Fresh(alone, depth + 1) = Leaf(x)
      <4> HIDE DEF alone
      <4> QED BY <3>1, FreshKind
    <3> QED BY <3>1, <3>2
  <2>8. walk.ok => OnPath(b, route, depth + 1)
    <3>1. \A d \in 0..((depth + 1) - 1) : d + 1 \in DOMAIN route
      BY <1>1
    <3> QED BY <2>5, <3>1 DEF Digit, OnPath
  <2> QED BY <1>1, <2>1, <2>6, <2>7, <2>8
<1>6. CASE \E n : cell = ChildCell(n)
  <2>1. PICK n : cell = ChildCell(n)
    BY <1>6
  <2>2. cell.kind = "child" /\ cell.node = n
    BY <2>1 DEF ChildCell
  <2>3. CASE n \notin store
    <3>1. walk = Walked(FALSE, <<>>)
      <4> HIDE DEF below
      <4> QED BY <1>2, <2>2, <2>3 DEF WalkCell, Loaded
    <3> QED BY <3>1 DEF Walked
  <2>4. CASE n \in store
    <3> DEFINE sub == below[n][route]
    <3>1. Tells(sub, n, route, depth + 1)
      BY <1>1, <2>4 DEF WalksTell
    <3> HIDE DEF sub
    <3>2. walk = Walked(sub.ok /\ Enough(sub.items), sub.items)
      <4>1. walk = Walked(below[n][route].ok /\ Enough(below[n][route].items), below[n][route].items)
        <5> HIDE DEF below
        <5> QED BY <1>2, <2>2, <2>4 DEF WalkCell, Loaded
      <4> QED BY <4>1 DEF sub
    <3>3. walk.items = sub.items /\ (walk.ok <=> sub.ok /\ Len(sub.items) >= 2)
      <4> DEFINE both == sub.ok /\ Enough(sub.items)
      <4>1. walk = Walked(both, sub.items)
        BY <3>2
      <4>2. walk.items = sub.items /\ walk.ok = both
        <5> HIDE DEF both
        <5> QED BY <4>1 DEF Walked
      <4>3. both = (sub.ok /\ Len(sub.items) >= 2)
        BY DEF Enough
      <4> HIDE DEF both
      <4> QED BY <4>2, <4>3, Zenon
    <3>4. walk.ok => \A b \in ToSet(walk.items) : OnPath(b, path, depth) /\ Digit(b.label, depth) = slot
      <4>1. sub.ok => \A b \in ToSet(sub.items) : OnPath(b, route, depth + 1)
        BY <3>1 DEF Tells
      <4> QED BY <1>1, <3>3, <4>1
    <3>5. ASSUME walk.ok, Distinct(walk.items) PROVE cell = Fresh(ToSet(walk.items), depth + 1)
      <4>1. n = MapNode(ToSet(sub.items), depth + 1)
        BY <3>1, <3>3, <3>5 DEF Tells
      <4>2. Several(ToSet(sub.items))
        BY <3>1, <3>3, <3>5, TwoItems DEF Tells
      <4> QED BY <2>1, <3>3, <4>1, <4>2, FreshKind
    <3> QED BY <3>1, <3>3, <3>4, <3>5 DEF Tells
  <2> QED BY <2>3, <2>4
<1> QED BY <1>4, <1>5, <1>6 DEF IsCell

\* The parts of a walk of a node.
LEMMA NodeWalked ==
    ASSUME NEW store, NEW below, NEW node, NEW path,
           NEW walk, walk = WalkNode(below, store, node, path),
           NEW seqs, seqs = [i \in 1..Slots |->
                                WalkCell(below, store, node[i - 1], Append(path, i - 1)).items]
    PROVE  /\ walk.items = FlattenSeq(seqs)
           /\ walk.ok <=> \A i \in 1..Slots :
                              WalkCell(below, store, node[i - 1], Append(path, i - 1)).ok
<1> DEFINE visits == [i \in 1..Slots |->
                         WalkCell(below, store, Opened(node, i - 1), Append(path, i - 1))]
           all == \A i \in 1..Slots : visits[i].ok
           flat == FlattenSeq([i \in 1..Slots |-> visits[i].items])
<1>1. walk = Walked(all, flat)
  BY DEF WalkNode
<1>2. \A i \in 1..Slots : visits[i] = WalkCell(below, store, node[i - 1], Append(path, i - 1))
  BY DEF Opened
<1>3. walk.ok = all /\ walk.items = flat
  <2> HIDE DEF all, flat
  <2> QED BY <1>1 DEF Walked
<1>4. [i \in 1..Slots |-> visits[i].items] = seqs
  <2> HIDE DEF visits
  <2> QED BY <1>2
<1>5. all <=> \A i \in 1..Slots : WalkCell(below, store, node[i - 1], Append(path, i - 1)).ok
  <2> HIDE DEF visits
  <2> QED BY <1>2, Zenon
<1>6. walk.ok <=> all
  <2>1. all \in BOOLEAN
    BY Zenon
  <2> HIDE DEF all
  <2> QED BY <1>3, <2>1
<1> HIDE DEF all
<1>7. walk.items = FlattenSeq(seqs)
  BY <1>3, <1>4
<1> QED BY <1>5, <1>6, <1>7, Zenon

\* A walk of a node is right if the walks one level below are.
LEMMA NodeTold ==
    ASSUME NEW store, \A n \in store : WellFormed(n),
           NEW depth \in 0..(Levels - 1), WalksTell(store, depth + 1)
    PROVE  WalksTell(store, depth)
<1> USE MapAssumption
<1> SUFFICES ASSUME NEW node \in store, NEW path \in [1..depth -> Slot]
             PROVE  Tells(MapWalks(store)[depth][node][path], node, path, depth)
  BY DEF WalksTell
<1> DEFINE walk == MapWalks(store)[depth][node][path]
           below == MapWalks(store)[depth + 1]
           Visit(i) == WalkCell(below, store, node[i - 1], Append(path, i - 1))
           seqs == [i \in 1..Slots |-> Visit(i).items]
<1>1. walk = WalkNode(below, store, node, path)
  BY WalksIs
<1>2. /\ walk.items = FlattenSeq(seqs)
      /\ walk.ok <=> \A i \in 1..Slots : Visit(i).ok
  <2> HIDE DEF walk, below
  <2> QED BY <1>1, NodeWalked, SMTT(40)
<1>3. \A i \in 1..Slots : i - 1 \in Slot /\ (i - 1) + 1 = i
  BY DEF Slot
<1>4. \A slot \in Slot : slot + 1 \in 1..Slots /\ (slot + 1) - 1 = slot
  BY DEF Slot
<1>5. ASSUME NEW i \in 1..Slots
      PROVE  TellsCell(Visit(i), node[i - 1], path, i - 1, depth)
  <2>1. i - 1 \in Slot /\ IsCell(node[i - 1])
    BY <1>3 DEF WellFormed
  <2>2. Visit(i) = WalkCell(MapWalks(store)[depth + 1], store, node[i - 1], Append(path, i - 1))
    OBVIOUS
  <2> HIDE DEF Visit
  <2> QED BY <2>1, <2>2, CellTold, ZenonT(60)
<1>6. seqs \in [1..Slots -> Seq(Arcs)] /\ \A i \in 1..Slots : seqs[i] = Visit(i).items
  <2> HIDE DEF Visit
  <2> QED BY <1>5 DEF TellsCell
<1>11. ASSUME walk.ok, NEW i \in 1..Slots
       PROVE  /\ \A b \in ToSet(seqs[i]) : OnPath(b, path, depth) /\ Digit(b.label, depth) = i - 1
              /\ Distinct(seqs[i]) => node[i - 1] = Fresh(ToSet(seqs[i]), depth + 1)
  <2> HIDE DEF Visit, seqs, walk
  <2> QED BY <1>2, <1>5, <1>6, <1>11 DEF TellsCell
<1> HIDE DEF Visit, seqs, walk
<1>7. /\ walk.items \in Seq(Arcs)
      /\ \A x : x \in ToSet(walk.items) <=> \E i \in 1..Slots : x \in ToSet(seqs[i])
      /\ Distinct(walk.items) => \A i \in 1..Slots : Distinct(seqs[i])
  BY <1>2, <1>6, FlatItems, ZenonT(60)
<1>8. walk.ok => \A b \in ToSet(walk.items) : OnPath(b, path, depth)
  BY <1>7, <1>11
<1>9. ASSUME walk.ok, Distinct(walk.items) PROVE node = MapNode(ToSet(walk.items), depth)
  <2> DEFINE items == ToSet(walk.items)
  <2>1. ASSUME NEW slot \in Slot PROVE Routed(items, depth, slot) = ToSet(seqs[slot + 1])
    <3>1. \A b \in items : Digit(b.label, depth) = slot <=> b \in ToSet(seqs[slot + 1])
      <4> SUFFICES ASSUME NEW b \in items
                   PROVE  Digit(b.label, depth) = slot <=> b \in ToSet(seqs[slot + 1])
        OBVIOUS
      <4>1. PICK i \in 1..Slots : b \in ToSet(seqs[i])
        BY <1>7
      <4>2. Digit(b.label, depth) = i - 1
        BY <1>9, <1>11, <4>1
      <4>3. i - 1 = slot => i = slot + 1
        OBVIOUS
      <4>4. b \in ToSet(seqs[slot + 1]) => Digit(b.label, depth) = slot
        BY <1>4, <1>9, <1>11
      <4> QED BY <4>1, <4>2, <4>3, <4>4
    <3>2. ToSet(seqs[slot + 1]) \subseteq items
      BY <1>4, <1>7
    <3> HIDE DEF items
    <3> QED BY <3>1, <3>2 DEF Routed
  <2>2. \A slot \in Slot : node[slot] = Fresh(ToSet(seqs[slot + 1]), depth + 1)
    BY <1>4, <1>7, <1>9, <1>11
  <2>3. node = [slot \in Slot |-> node[slot]]
    BY DEF WellFormed
  <2> HIDE DEF items
  <2>4. MapNode(items, depth) = [slot \in Slot |-> Fresh(Routed(items, depth, slot), depth + 1)]
    BY MapNodeIs
  <2>5. [slot \in Slot |-> Fresh(Routed(items, depth, slot), depth + 1)] = [slot \in Slot |-> node[slot]]
    BY <2>1, <2>2
  <2>6. node = MapNode(items, depth)
    BY <2>3, <2>4, <2>5
  <2> QED BY <2>6 DEF items
<1>10. Tells(walk, node, path, depth)
  BY <1>7, <1>8, <1>9 DEF Tells
<1> QED BY <1>10 DEF walk

\* A Snapshot of nodes from anywhere accepts only what the bindings it found make.
LEMMA WalksTellAll ==
    ASSUME NEW store, \A n \in store : WellFormed(n)
    PROVE  WalksTell(store, 0)
<1> USE MapAssumption
<1> DEFINE K == {depth \in 0..Levels : WalksTell(store, depth)}
<1>1. Levels \in K
  <2> SUFFICES ASSUME NEW node \in store, NEW path \in [1..Levels -> Slot]
               PROVE  Tells(MapWalks(store)[Levels][node][path], node, path, Levels)
    BY DEF WalksTell
  <2>1. MapWalks(store)[Levels][node][path] = Walked(FALSE, <<>>)
    BY WalksLast
  <2> QED BY <2>1 DEF Tells, Walked
<1>2. \A k \in 0..(Levels - 1) : k + 1 \in K => k \in K
  BY NodeTold
<1>3. 0 \in K
  <2>1. 0 \in 0..Levels
    OBVIOUS
  <2> HIDE DEF K
  <2> QED BY <1>1, <1>2, <2>1, Downwards
<1> QED BY <1>3

-----------------------------------------------------------------------------
(* The walk of the node of some bindings finds them all.                    *)

Whole(walk, group) ==
    /\ walk.items \in Seq(Arcs) /\ ToSet(walk.items) = group
    /\ walk.ok /\ Distinct(walk.items)

WalksWhole(store, depth) ==
    \A group \in SUBSET Arcs : \A path \in [1..depth -> Slot] :
        /\ Unambiguous(group) /\ \A b \in group : OnPath(b, path, depth)
        /\ MapNode(group, depth) \in store
        => Whole(MapWalks(store)[depth][MapNode(group, depth)][path], group)

\* A sequence of two different bindings at least is long enough for a child node.
LEMMA SeveralItems ==
    ASSUME NEW S, NEW items \in Seq(S), Several(ToSet(items))
    PROVE  Len(items) >= 2
<1>1. PICK i \in DOMAIN items : \E j \in DOMAIN items : items[i] # items[j]
  BY DEF Several, ToSet
<1>2. PICK j \in DOMAIN items : items[i] # items[j]
  BY <1>1
<1>3. i # j /\ i \in 1..Len(items) /\ j \in 1..Len(items) /\ Len(items) \in Nat
  BY <1>2
<1> QED BY <1>3

\* Bindings on one path have the same first digits.
LEMMA OnPathShares ==
    ASSUME NEW group, NEW path, NEW depth, \A b \in group : OnPath(b, path, depth)
    PROVE  Sharing(group, depth)
BY DEF Sharing, OnPath

\* A walk of the cell of some bindings finds them all.
LEMMA CellWhole ==
    ASSUME NEW store, NEW depth \in 0..(Levels - 1),
           depth + 1 \in 0..(Levels - 1) => WalksWhole(store, depth + 1),
           NEW group \in SUBSET Arcs, Unambiguous(group),
           NEW route \in [1..(depth + 1) -> Slot], \A b \in group : OnPath(b, route, depth + 1),
           Several(group) => MapNode(group, depth + 1) \in store,
           NEW walk, walk = WalkCell(MapWalks(store)[depth + 1], store, Fresh(group, depth + 1), route)
    PROVE  Whole(walk, group)
<1> USE MapAssumption
<1> DEFINE below == MapWalks(store)[depth + 1]
           cell == Fresh(group, depth + 1)
<1>1. walk = WalkCell(below, store, cell, route)
  OBVIOUS
<1>2. CASE group = {}
  <2>1. cell.kind = "empty"
    BY <1>2, FreshKind, CellKinds
  <2>2. walk = Walked(TRUE, <<>>)
    <3> HIDE DEF below, cell
    <3> QED BY <1>1, <2>1 DEF WalkCell
  <2>3. walk.ok /\ walk.items = <<>>
    BY <2>2 DEF Walked
  <2>4. ToSet(<<>>) = {} /\ Distinct(<<>>) /\ <<>> \in Seq(Arcs)
    BY DEF ToSet, Distinct
  <2> QED BY <1>2, <2>3, <2>4 DEF Whole
<1>3. CASE group # {} /\ ~Several(group)
  <2>1. PICK b \in group : group = {b} /\ cell = Leaf(b)
    BY <1>3, FreshKind
  <2>2. cell.kind = "leaf" /\ cell.label = b.label /\ cell.target = b.target
    BY <2>1 DEF Leaf
  <2>3. \A i \in DOMAIN route : CoordinateOf[b.label][i] = route[i]
    <3> TAKE i \in DOMAIN route
    <3>1. i - 1 \in 0..((depth + 1) - 1) /\ (i - 1) + 1 = i
      OBVIOUS
    <3>2. OnPath(b, route, depth + 1)
      OBVIOUS
    <3> QED BY <3>1, <3>2 DEF OnPath, Digit
  <2>4. Binding(b.label, b.target) = b
    BY DEF Binding, Arcs
  <2>5. walk = Walked(TRUE, <<b>>)
    <3> HIDE DEF below, cell
    <3> QED BY <1>1, <2>2, <2>3, <2>4 DEF WalkCell
  <2>6. walk.ok /\ walk.items = <<b>>
    BY <2>5 DEF Walked
  <2>7. DOMAIN <<b>> = {1} /\ <<b>>[1] = b /\ <<b>> \in Seq(Arcs)
    OBVIOUS
  <2>8. ToSet(<<b>>) = {b} /\ Distinct(<<b>>)
    BY <2>7 DEF ToSet, Distinct
  <2> QED BY <2>1, <2>6, <2>7, <2>8 DEF Whole
<1>4. CASE Several(group)
  <2> DEFINE node == MapNode(group, depth + 1)
  <2>1. depth + 1 \in 0..(Levels - 1)
    <3>1. Labelled(group) /\ Sharing(group, depth + 1) /\ depth + 1 \in 0..Levels
      <4>1. Sharing(group, depth + 1)
        BY OnPathShares
      <4>2. depth + 1 \in 0..Levels
        OBVIOUS
      <4> QED BY <4>1, <4>2 DEF Labelled, Arcs
    <3> QED BY <1>4, <3>1, SeveralPart
  <2>2. cell.kind = "child" /\ cell.node = node
    BY <1>4, FreshKind, CellKinds
  <2>3. node \in store
    BY <1>4
  <2> DEFINE sub == below[node][route]
  <2>4. Whole(sub, group)
    BY <2>1, <2>3 DEF WalksWhole
  <2>5. walk = Walked(sub.ok /\ Enough(sub.items), sub.items)
    <3> HIDE DEF below, cell, node
    <3> QED BY <1>1, <2>2, <2>3 DEF WalkCell, Loaded
  <2> HIDE DEF sub
  <2>6. sub.ok /\ Enough(sub.items)
    BY <1>4, <2>4, SeveralItems DEF Whole, Enough
  <2>7. walk.ok /\ walk.items = sub.items
    <3> DEFINE both == sub.ok /\ Enough(sub.items)
    <3>1. both
      BY <2>6
    <3>2. walk = Walked(both, sub.items)
      BY <2>5
    <3> HIDE DEF both
    <3> QED BY <3>1, <3>2 DEF Walked
  <2> QED BY <2>4, <2>7 DEF Whole
<1> QED BY <1>2, <1>3, <1>4

\* And so does a walk of their node.
LEMMA NodeWhole ==
    ASSUME NEW store, Complete(store), NEW depth \in 0..(Levels - 1),
           depth + 1 \in 0..(Levels - 1) => WalksWhole(store, depth + 1)
    PROVE  WalksWhole(store, depth)
<1> USE MapAssumption
<1> SUFFICES ASSUME NEW group \in SUBSET Arcs, NEW path \in [1..depth -> Slot], Unambiguous(group),
                    \A b \in group : OnPath(b, path, depth),
                    NEW node \in store, node = MapNode(group, depth)
             PROVE  Whole(MapWalks(store)[depth][node][path], group)
  BY DEF WalksWhole
<1> DEFINE walk == MapWalks(store)[depth][node][path]
           below == MapWalks(store)[depth + 1]
           Visit(i) == WalkCell(below, store, node[i - 1], Append(path, i - 1))
           Part(i) == Routed(group, depth, i - 1)
           seqs == [i \in 1..Slots |-> Visit(i).items]
<1>1. walk = WalkNode(below, store, node, path)
  BY WalksIs
<1>2. /\ walk.items = FlattenSeq(seqs)
      /\ walk.ok <=> \A i \in 1..Slots : Visit(i).ok
  <2> HIDE DEF walk, below
  <2> QED BY <1>1, NodeWalked, SMTT(40)
<1>3. ASSUME NEW i \in 1..Slots PROVE Whole(Visit(i), Part(i))
  <2> DEFINE slot == i - 1
             part == Part(i)
             route == Append(path, slot)
  <2>1. slot \in Slot
    BY DEF Slot
  <2>2. node[slot] = Fresh(part, depth + 1)
    BY <2>1, MapNodeIs
  <2>3. part \in SUBSET Arcs /\ Unambiguous(part) /\ \A b \in part : b \in group /\ Digit(b.label, depth) = slot
    BY DEF Routed, Unambiguous
  <2> HIDE DEF part, slot
  <2>4. route \in [1..(depth + 1) -> Slot] /\ \A b \in part : OnPath(b, route, depth + 1)
    BY <2>1, <2>3, RouteIs
  <2>5. ASSUME Several(part) PROVE MapNode(part, depth + 1) \in store
    <3>1. part = Routed(group, depth, slot)
      BY DEF part, slot
    <3>2. MapNode(part, depth + 1) \in ChildNodes(node)
      BY <2>1, <2>5, <3>1, ChildOf
    <3> QED BY <3>2 DEF Complete
  <2>6. Visit(i) = WalkCell(MapWalks(store)[depth + 1], store, Fresh(part, depth + 1), route)
    BY <2>2 DEF slot
  <2> HIDE DEF route, Visit
  <2>7. Whole(Visit(i), part)
    BY <2>3, <2>4, <2>5, <2>6, CellWhole, ZenonT(60)
  <2> QED BY <2>7 DEF part
<1>4. /\ seqs \in [1..Slots -> Seq(Arcs)] /\ \A i \in 1..Slots : ToSet(seqs[i]) = Part(i) /\ Distinct(seqs[i])
      /\ walk.ok
  <2> HIDE DEF Visit, Part, walk
  <2> QED BY <1>2, <1>3 DEF Whole
<1>5. \A m, k \in 1..Slots : \A x \in ToSet(seqs[m]), y \in ToSet(seqs[k]) : SameCoordinate(x, y) => m = k
  <2> SUFFICES ASSUME NEW m \in 1..Slots, NEW k \in 1..Slots, NEW x \in Part(m), NEW y \in Part(k),
                      SameCoordinate(x, y)
               PROVE  m = k
    <3>1. \A i \in 1..Slots : ToSet(seqs[i]) = Part(i)
      BY <1>4
    <3> HIDE DEF Part, seqs
    <3> QED BY <3>1, SMTT(30)
  <2>1. Digit(x.label, depth) = m - 1 /\ Digit(y.label, depth) = k - 1
    BY DEF Routed
  <2>2. Digit(x.label, depth) = Digit(y.label, depth)
    BY SameRoute
  <2>3. m - 1 = k - 1
    BY <2>1, <2>2
  <2> QED BY <2>3
<1>6. \A b : b \in group <=> \E i \in 1..Slots : b \in Part(i)
  <2>1. ASSUME NEW b \in group PROVE \E i \in 1..Slots : b \in Part(i)
    <3> DEFINE i == Digit(b.label, depth) + 1
    <3>1. Digit(b.label, depth) \in Slot
      BY DigitType DEF Arcs
    <3>2. i \in 1..Slots /\ i - 1 = Digit(b.label, depth)
      BY <3>1 DEF Slot
    <3>3. b \in Part(i)
      BY <3>2 DEF Routed
    <3> QED BY <3>2, <3>3
  <2>2. \A i \in 1..Slots : Part(i) \subseteq group
    BY DEF Routed
  <2> HIDE DEF Part
  <2> QED BY <2>1, <2>2
<1> HIDE DEF Visit, Part, seqs, walk
<1>7. /\ walk.items \in Seq(Arcs)
      /\ \A x : x \in ToSet(walk.items) <=> \E i \in 1..Slots : x \in ToSet(seqs[i])
      /\ Distinct(walk.items)
  BY <1>2, <1>4, <1>5, FlatItems, ZenonT(60)
<1>8. ToSet(walk.items) = group
  <2>1. \A b : b \in ToSet(walk.items) <=> b \in group
    BY <1>4, <1>6, <1>7
  <2> DEFINE found == ToSet(walk.items)
  <2> HIDE DEF found
  <2>2. found = group
    BY <2>1 DEF found
  <2> QED BY <2>2 DEF found
<1>9. Whole(walk, group)
  BY <1>4, <1>7, <1>8 DEF Whole
<1> QED BY <1>9 DEF walk

\* A Snapshot of the Root of some bindings finds them all.
LEMMA WalksWholeAll ==
    ASSUME NEW store, Complete(store)
    PROVE  WalksWhole(store, 0)
<1> USE MapAssumption
<1> DEFINE K == {k \in 0..Levels : k \in 0..(Levels - 1) => WalksWhole(store, k)}
<1>1. Levels \in K
  OBVIOUS
<1>2. \A k \in 0..(Levels - 1) : k + 1 \in K => k \in K
  BY NodeWhole
<1>3. 0 \in K /\ 0 \in 0..(Levels - 1)
  <2>1. 0 \in 0..Levels /\ 0 \in 0..(Levels - 1)
    OBVIOUS
  <2> HIDE DEF K
  <2> QED BY <1>1, <1>2, <2>1, Downwards
<1> QED BY <1>3

-----------------------------------------------------------------------------
(* Trees that differ from a committed one in a cell.                        *)

\* What is reached from a node of a complete store is in the store.
LEMMA Reached ==
    ASSUME NEW store, Complete(store), NEW tree \in store
    PROVE  NodesOf(tree) \subseteq store /\ tree \in NodesOf(tree)
<1> USE MapAssumption
<1>1. PICK layer : LayersUpTo(layer, tree, Levels) /\ NodesOf(tree) = UNION {layer[depth] : depth \in 0..Levels}
  BY LayersExist
<1>2. \A depth \in 0..Levels :
         layer[depth] = IF depth = 0 THEN {tree} ELSE UNION {ChildNodes(n) : n \in layer[depth - 1]}
  BY <1>1 DEF LayersUpTo
<1> DEFINE K == {depth \in 0..Levels : layer[depth] \subseteq store}
<1>3. layer[0] = {tree} /\ 0 \in 0..Levels
  <2>1. 0 \in 0..Levels
    OBVIOUS
  <2> QED BY <1>2, <2>1
<1>4. 0 \in K
  BY <1>3
<1>5. \A k \in 0..(Levels - 1) : k \in K => k + 1 \in K
  <2> SUFFICES ASSUME NEW k \in 0..(Levels - 1), k \in K PROVE k + 1 \in K
    OBVIOUS
  <2>1. k + 1 \in 0..Levels /\ k + 1 # 0 /\ (k + 1) - 1 = k
    OBVIOUS
  <2>2. layer[k + 1] = UNION {ChildNodes(n) : n \in layer[k]}
    BY <1>2, <2>1
  <2>3. \A n \in layer[k] : ChildNodes(n) \subseteq store
    BY DEF Complete
  <2> QED BY <2>1, <2>2, <2>3
<1>6. 0..Levels \subseteq K
  <2> HIDE DEF K
  <2> QED BY <1>4, <1>5, Upwards
<1>7. NodesOf(tree) \subseteq store
  BY <1>1, <1>6
<1>8. tree \in NodesOf(tree)
  BY <1>1, <1>3
<1> QED BY <1>7, <1>8

\* The nodes of a committed Map are well formed (cellsFor).
LEMMA MapWellFormed ==
    ASSUME NEW group \in SUBSET Arcs, NEW depth \in 0..(Levels - 1)
    PROVE  WellFormed(MapNode(group, depth))
<1> DEFINE node == MapNode(group, depth)
<1>1. node = [slot \in Slot |-> Fresh(Routed(group, depth, slot), depth + 1)]
  BY MapNodeIs
<1>2. ASSUME NEW items \in SUBSET Arcs PROVE IsCell(Fresh(items, depth + 1))
  <2>1. CASE items = {}
    BY <2>1, FreshKind DEF IsCell
  <2>2. CASE Several(items)
    BY <2>2, FreshKind DEF IsCell
  <2>3. CASE items # {} /\ ~Several(items)
    BY <2>3, FreshKind DEF IsCell
  <2> QED BY <2>1, <2>2, <2>3
<1>3. \A slot \in Slot : Routed(group, depth, slot) \in SUBSET Arcs
  BY DEF Routed
<1> HIDE DEF node
<1>4. \A slot \in Slot : IsCell(node[slot])
  BY <1>1, <1>2, <1>3
<1>5. node = [slot \in Slot |-> node[slot]]
  BY <1>1
<1>6. WellFormed(node)
  BY <1>4, <1>5 DEF WellFormed
<1> QED BY <1>6 DEF node

OffAt(f, nodes, depth) ==
    [node \in nodes |->
        IF depth = Levels THEN {} ELSE Replaced(node) \cup ReplacedBelow(f[depth + 1], node)]

OffFrom(f, nodes, k) == f = [depth \in k..Levels |-> OffAt(f, nodes, depth)]

\* The recursion of OneCellOff has a solution.
LEMMA OffExists ==
    ASSUME NEW nodes
    PROVE  \E f : OffFrom(f, nodes, 0)
<1> USE MapAssumption
<1> DEFINE K == {k \in 0..Levels : \E f : OffFrom(f, nodes, k)}
<1>1. Levels \in K
  <2> DEFINE f == [depth \in Levels..Levels |-> [node \in nodes |-> {}]]
  <2>1. OffFrom(f, nodes, Levels)
    BY DEF OffFrom, OffAt
  <2> QED BY <2>1
<1>2. \A k \in 0..(Levels - 1) : k + 1 \in K => k \in K
  <2> SUFFICES ASSUME NEW k \in 0..(Levels - 1), k + 1 \in K PROVE k \in K
    OBVIOUS
  <2>1. PICK f : OffFrom(f, nodes, k + 1)
    OBVIOUS
  <2> DEFINE g == [depth \in k..Levels |-> IF depth = k THEN OffAt(f, nodes, k) ELSE f[depth]]
  <2>2. \A depth \in (k + 1)..Levels : g[depth] = f[depth] /\ depth # k /\ depth \in k..Levels
    OBVIOUS
  <2>3. \A depth \in k..Levels : depth # Levels => depth + 1 \in (k + 1)..Levels
    OBVIOUS
  <2>4. \A depth \in k..Levels : OffAt(g, nodes, depth) = OffAt(f, nodes, depth)
    <3> HIDE DEF g
    <3> SUFFICES ASSUME NEW depth \in k..Levels PROVE OffAt(g, nodes, depth) = OffAt(f, nodes, depth)
      OBVIOUS
    <3>1. CASE depth = Levels
      BY <3>1 DEF OffAt
    <3>2. CASE depth # Levels
      BY <2>2, <2>3, <3>2 DEF OffAt
    <3> QED BY <3>1, <3>2
  <2>5. \A depth \in (k + 1)..Levels : f[depth] = OffAt(f, nodes, depth)
    BY <2>1 DEF OffFrom
  <2>6. \A depth \in k..Levels : g[depth] = OffAt(f, nodes, depth)
    BY <2>5
  <2>7. g = [depth \in k..Levels |-> OffAt(g, nodes, depth)]
    <3>1. g = [depth \in k..Levels |-> g[depth]]
      OBVIOUS
    <3> HIDE DEF g
    <3> QED BY <2>4, <2>6, <3>1
  <2>8. OffFrom(g, nodes, k)
    <3> HIDE DEF g
    <3> QED BY <2>7 DEF OffFrom
  <2> HIDE DEF g
  <2> QED BY <2>8
<1>3. 0 \in K
  <2>1. 0 \in 0..Levels
    OBVIOUS
  <2> HIDE DEF K
  <2> QED BY <1>1, <1>2, <2>1, Downwards
<1> QED BY <1>3

\* A node with a cell replaced is well formed, and has the old children and a new one.
LEMMA ReplacedCell ==
    ASSUME NEW node, WellFormed(node), NEW slot \in Slot, NEW cell, IsCell(cell),
           NEW store, ChildNodes(node) \subseteq store, cell.kind = "child" => cell.node \in store,
           NEW new, new = [node EXCEPT ![slot] = cell]
    PROVE  WellFormed(new) /\ ChildNodes(new) \subseteq store
<1>1. node = [s \in Slot |-> node[s]] /\ \A s \in Slot : IsCell(node[s])
  BY DEF WellFormed
<1>2. new = [s \in Slot |-> IF s = slot THEN cell ELSE node[s]]
  BY <1>1
<1>3. \A s \in Slot : new[s] = IF s = slot THEN cell ELSE node[s]
  BY <1>2
<1>4. new = [s \in Slot |-> new[s]]
  BY <1>2
<1>5. WellFormed(new)
  <2>1. \A s \in Slot : IsCell(new[s])
    BY <1>1, <1>3
  <2> QED BY <1>4, <2>1 DEF WellFormed
<1>6. ASSUME NEW s \in Slot, new[s].kind = "child" PROVE new[s].node \in store
  <2>1. CASE s = slot
    BY <1>3, <1>6, <2>1
  <2>2. CASE s # slot
    <3>1. node[s].kind = "child" /\ new[s].node = node[s].node
      BY <1>3, <1>6, <2>2
    <3> QED BY <3>1 DEF ChildNodes
  <2> QED BY <2>1, <2>2
<1>7. ChildNodes(new) \subseteq store
  BY <1>6 DEF ChildNodes
<1> QED BY <1>5, <1>7

\* What replaces a cell is a cell, with a node of the tree or the empty one below it.
LEMMA SubstituteCells ==
    ASSUME NEW cell \in Substitutes
    PROVE  IsCell(cell) /\ (cell.kind = "child" => cell.node \in NodesOf(root) \cup {Bare})
<1> USE MapAssumption
<1>1. CASE cell = Empty
  BY <1>1, CellKinds DEF IsCell
<1>2. CASE cell = ChildCell(Bare)
  BY <1>2, CellKinds DEF IsCell
<1>3. CASE \E l \in Labels : cell = Leaf(Binding(l, CHOOSE t \in Targets : TRUE))
  <2>1. PICK l \in Labels : cell = Leaf(Binding(l, CHOOSE t \in Targets : TRUE))
    BY <1>3
  <2> DEFINE b == Binding(l, CHOOSE t \in Targets : TRUE)
  <2>2. (CHOOSE t \in Targets : TRUE) \in Targets
    OBVIOUS
  <2>3. b \in Arcs
    BY <2>2 DEF Binding, Arcs
  <2> HIDE DEF b
  <2>4. IsCell(Leaf(b)) /\ Leaf(b).kind = "leaf"
    BY <2>3, CellKinds DEF IsCell
  <2> QED BY <2>1, <2>4 DEF b
<1>4. CASE \E node \in NodesOf(root) : cell = ChildCell(node)
  BY <1>4, CellKinds DEF IsCell
<1>5. \/ cell = Empty \/ cell = ChildCell(Bare)
      \/ \E l \in Labels : cell = Leaf(Binding(l, CHOOSE t \in Targets : TRUE))
      \/ \E node \in NodesOf(root) : cell = ChildCell(node)
  BY DEF Substitutes, Bare
<1> QED BY <1>1, <1>2, <1>3, <1>4, <1>5

\* The nodes of the trees that differ from the present one in a cell are well formed.
LEMMA OffWellFormed ==
    ASSUME NEW items \in SUBSET Arcs, Unambiguous(items), root = MapNode(items, 0),
           NEW tree \in OneCellOff
    PROVE  tree \in NodesOf(tree) /\ \A n \in NodesOf(tree) : WellFormed(n)
<1> USE MapAssumption
<1> DEFINE nodes == NodesOf(root)
           off == CHOOSE f : OffFrom(f, nodes, 0)
<1>1. OffFrom(off, nodes, 0)
  BY OffExists
<1>2. OneCellOff = off[0][root]
  BY DEF OneCellOff, OffFrom, OffAt
<1>3. root \in nodes /\ Complete(nodes) /\ \A n \in nodes : WellFormed(n)
  <2>1. root \in nodes /\ Complete(nodes)
    BY NodesOfMap
  <2>2. ASSUME NEW n \in nodes PROVE WellFormed(n)
    <3>1. PICK depth \in 0..(Levels - 1), group \in SUBSET items : n = MapNode(group, depth)
      BY NodesOfMap
    <3>2. group \in SUBSET Arcs
      OBVIOUS
    <3> QED BY <3>1, <3>2, MapWellFormed
  <2> QED BY <2>1, <2>2
<1>4. \A cell \in Substitutes :
         IsCell(cell) /\ (cell.kind = "child" => cell.node \in nodes \cup {Bare})
  BY SubstituteCells
<1> HIDE DEF nodes, off
<1> DEFINE store == nodes \cup {Bare} \cup UNION {off[depth][n] : depth \in 0..Levels, n \in nodes}
<1>5. Bare \in store /\ nodes \subseteq store /\ \A depth \in 0..Levels, n \in nodes : off[depth][n] \subseteq store
  OBVIOUS
<1> HIDE DEF store
<1>6. WellFormed(Bare) /\ ChildNodes(Bare) = {}
  <2>1. Bare = [slot \in Slot |-> Bare[slot]] /\ \A slot \in Slot : Bare[slot] = Empty
    BY DEF Bare
  <2>2. \A slot \in Slot : Bare[slot].kind # "child"
    BY <2>1, CellKinds
  <2> QED BY <2>1, <2>2 DEF WellFormed, IsCell, ChildNodes
<1>7. ASSUME NEW depth \in 0..Levels, NEW node \in nodes, NEW new \in off[depth][node]
      PROVE  WellFormed(new) /\ ChildNodes(new) \subseteq store
  <2>1. off[depth][node] = IF depth = Levels THEN {}
                           ELSE Replaced(node) \cup ReplacedBelow(off[depth + 1], node)
    <3>1. off[depth] = OffAt(off, nodes, depth)
      BY <1>1 DEF OffFrom
    <3> QED BY <3>1 DEF OffAt
  <2>2. depth # Levels /\ depth + 1 \in 0..Levels
    BY <1>7, <2>1
  <2>3. WellFormed(node) /\ ChildNodes(node) \subseteq nodes
    BY <1>3 DEF Complete
  <2>4. CASE new \in Replaced(node)
    <3>1. PICK slot \in Slot : \E cell \in Substitutes : new = [node EXCEPT ![slot] = cell]
      BY <2>4 DEF Replaced
    <3>2. PICK cell \in Substitutes : new = [node EXCEPT ![slot] = cell]
      BY <3>1
    <3>3. IsCell(cell) /\ (cell.kind = "child" => cell.node \in store) /\ ChildNodes(node) \subseteq store
      BY <1>4, <1>5, <2>3
    <3> QED BY <2>3, <3>2, <3>3, ReplacedCell
  <2>5. CASE new \in ReplacedBelow(off[depth + 1], node)
    <3>1. PICK slot \in Slot : /\ node[slot].kind = "child"
                               /\ \E child \in off[depth + 1][node[slot].node] :
                                     new = [node EXCEPT ![slot] = ChildCell(child)]
      <4> DEFINE Below(slot) == {[node EXCEPT ![slot] = ChildCell(child)] :
                                    child \in off[depth + 1][node[slot].node]}
      <4>1. new \in UNION {Below(slot) : slot \in {s \in Slot : node[s].kind = "child"}}
        BY <2>5 DEF ReplacedBelow
      <4>2. PICK slot \in Slot : node[slot].kind = "child" /\ new \in Below(slot)
        <5> HIDE DEF Below
        <5> QED BY <4>1
      <4> QED BY <4>2
    <3>2. PICK child \in off[depth + 1][node[slot].node] : new = [node EXCEPT ![slot] = ChildCell(child)]
      BY <3>1
    <3>3. node[slot].node \in nodes
      BY <2>3, <3>1 DEF ChildNodes
    <3>4. child \in store
      BY <1>5, <2>2, <3>3
    <3> DEFINE cell == ChildCell(child)
    <3>5. IsCell(cell) /\ cell.kind = "child" /\ cell.node = child /\ ChildNodes(node) \subseteq store
      BY <1>5, <2>3, CellKinds DEF IsCell
    <3>6. new = [node EXCEPT ![slot] = cell]
      BY <3>2
    <3> HIDE DEF cell
    <3> QED BY <2>3, <3>4, <3>5, <3>6, ReplacedCell
  <2> QED BY <1>7, <2>1, <2>2, <2>4, <2>5
<1>8. \A n \in store : WellFormed(n) /\ ChildNodes(n) \subseteq store
  <2> TAKE n \in store
  <2>1. CASE n \in nodes
    BY <1>3, <1>5, <2>1 DEF Complete
  <2>2. CASE n = Bare
    BY <1>6, <2>2
  <2>3. CASE \E depth \in 0..Levels : \E node \in nodes : n \in off[depth][node]
    BY <1>7, <2>3
  <2> QED BY <2>1, <2>2, <2>3 DEF store
<1>9. tree \in store
  <2>1. 0 \in 0..Levels
    OBVIOUS
  <2> QED BY <1>2, <1>3, <1>5, <2>1
<1>10. Complete(store)
  BY <1>8 DEF Complete
<1>11. NodesOf(tree) \subseteq store /\ tree \in NodesOf(tree)
  BY <1>9, <1>10, Reached
<1> QED BY <1>8, <1>11

-----------------------------------------------------------------------------
(* Snapshots.                                                               *)

\* A walk without duplicates has no more bindings than there are labels, and as many
\* as it has different ones.
LEMMA LengthOfWalk ==
    ASSUME NEW items \in Seq(Arcs), Distinct(items)
    PROVE  /\ Len(items) = Cardinality(ToSet(items))
           /\ IsFiniteSet(Labels) => Len(items) <= Cardinality(Labels)
<1> DEFINE n == Len(items)
<1>1. n \in Nat /\ items \in [1..n -> Arcs] /\ DOMAIN items = 1..n
  OBVIOUS
<1>2. \A i, j \in 1..n : items[i].label = items[j].label => i = j
  BY <1>1 DEF Distinct, SameCoordinate
<1> HIDE DEF n
<1>3. n = Cardinality(ToSet(items))
  <2>1. items \in [1..n -> ToSet(items)]
    BY <1>1 DEF ToSet
  <2>2. items \in Bijection(1..n, ToSet(items))
    BY <1>1, <1>2, <2>1 DEF Bijection, Injection, Surjection, IsInjective, ToSet
  <2>3. ExistsBijection(1..n, ToSet(items))
    BY <2>2 DEF ExistsBijection
  <2> QED BY <1>1, <2>3, FS_CountingElements
<1>4. ASSUME IsFiniteSet(Labels) PROVE n <= Cardinality(Labels)
  <2> DEFINE f == [i \in 1..n |-> items[i].label]
  <2>1. f \in [1..n -> Labels]
    BY <1>1 DEF Arcs
  <2>2. f \in Injection(1..n, Labels)
    BY <1>2, <2>1 DEF Injection, IsInjective
  <2>3. Cardinality(1..n) <= Cardinality(Labels)
    <3> HIDE DEF f
    <3> QED BY <1>4, <2>2, FS_Injection
  <2>4. Cardinality(1..n) = n
    BY <1>1, FS_Interval
  <2> QED BY <2>3, <2>4
<1> QED BY <1>3, <1>4 DEF n

\* The walk that a Snapshot makes of a committed Map finds all of its bindings.
LEMMA CommittedWhole ==
    ASSUME NEW items \in SUBSET Arcs, Unambiguous(items), NEW tree, tree = MapNode(items, 0)
    PROVE  Whole(MapWalk(NodesOf(tree), tree), items)
<1> DEFINE store == NodesOf(tree)
<1>1. tree \in store /\ Complete(store)
  BY NodesOfMap
<1> HIDE DEF store
<1>2. MapWalk(store, tree) = MapWalks(store)[0][tree][<<>>]
  BY <1>1 DEF MapWalk, Loaded
<1>3. <<>> \in [1..0 -> Slot] /\ \A b \in items : OnPath(b, <<>>, 0)
  BY DEF OnPath
<1>4. WalksWhole(store, 0)
  BY <1>1, WalksWholeAll
<1>5. Whole(MapWalks(store)[0][tree][<<>>], items)
  BY <1>1, <1>3, <1>4 DEF WalksWhole
<1> QED BY <1>2, <1>5 DEF store

\* What a Snapshot tells.
LEMMA SnapshotIs ==
    ASSUME NEW store, NEW tree, NEW bound, NEW walk, walk = MapWalk(store, tree)
    PROVE  /\ Snapshot(store, tree, bound).ok <=>
                  walk.ok /\ Len(walk.items) <= bound /\ Distinct(walk.items)
           /\ Snapshot(store, tree, bound).items = walk.items
<1> DEFINE ok == walk.ok /\ Len(walk.items) <= bound /\ Distinct(walk.items)
<1>1. Snapshot(store, tree, bound) = Walked(ok, walk.items)
  BY DEF Snapshot
<1>2. ok \in BOOLEAN
  BY Zenon
<1> HIDE DEF ok
<1>3. Snapshot(store, tree, bound).ok = ok /\ Snapshot(store, tree, bound).items = walk.items
  BY <1>1 DEF Walked
<1>4. Snapshot(store, tree, bound).ok <=> ok
  BY <1>2, <1>3
<1> QED BY <1>3, <1>4 DEF ok

\* Nodes from anywhere: accepted as the Root that the bindings have, or not at all.
LEMMA SnapshotTells ==
    ASSUME NEW tree, tree \in NodesOf(tree), \A n \in NodesOf(tree) : WellFormed(n),
           IsFiniteSet(Labels)
    PROVE  Snapshot(NodesOf(tree), tree, Cardinality(Labels)).ok <=> Canonical(tree)
<1> DEFINE walk == MapWalk(NodesOf(tree), tree)
           found == ToSet(walk.items)
           answer == Snapshot(NodesOf(tree), tree, Cardinality(Labels))
<1>1. answer.ok <=> walk.ok /\ Len(walk.items) <= Cardinality(Labels) /\ Distinct(walk.items)
  BY SnapshotIs
<1>2. Tells(walk, tree, <<>>, 0)
  <2> DEFINE store == NodesOf(tree)
  <2>1. WalksTell(store, 0)
    BY WalksTellAll
  <2>2. walk = MapWalks(store)[0][tree][<<>>]
    BY DEF MapWalk, Loaded
  <2>3. tree \in store /\ <<>> \in [1..0 -> Slot]
    OBVIOUS
  <2> HIDE DEF store, walk
  <2> QED BY <2>1, <2>2, <2>3 DEF WalksTell
<1>3. ASSUME answer.ok PROVE Canonical(tree)
  <2>1. walk.items \in Seq(Arcs) /\ Distinct(walk.items) /\ tree = MapNode(found, 0)
    BY <1>1, <1>2, <1>3 DEF Tells
  <2> HIDE DEF walk
  <2>2. found \in SUBSET Arcs /\ Unambiguous(found)
    BY <2>1 DEF ToSet, Unambiguous, Distinct
  <2> HIDE DEF found
  <2>3. MapBindings(MapNode(found, 0)) = found
    BY <2>2, BindingsOfMap
  <2>4. MapBindings(tree) = found
    BY <2>1, <2>3
  <2> QED BY <2>1, <2>2, <2>4 DEF Canonical
<1>4. ASSUME Canonical(tree) PROVE answer.ok
  <2> DEFINE items == MapBindings(tree)
  <2>1. Unambiguous(items) /\ tree = MapNode(items, 0)
    BY <1>4 DEF Canonical
  <2>2. items \in SUBSET Arcs
    <3> SUFFICES ASSUME NEW b \in items PROVE b \in Arcs
      OBVIOUS
    <3>1. PICK n \in NodesOf(tree) : \E slot \in Slot : b \in LeafBindings(n[slot])
      BY DEF MapBindings
    <3>2. PICK slot \in Slot : b \in LeafBindings(n[slot])
      BY <3>1
    <3>3. IsCell(n[slot])
      BY DEF WellFormed
    <3> DEFINE cell == n[slot]
    <3>4. IsCell(cell) /\ b \in LeafBindings(cell)
      BY <3>2, <3>3
    <3> HIDE DEF cell
    <3>5. PICK c \in Arcs : cell = Leaf(c)
      BY <3>4, CellKinds DEF IsCell, LeafBindings
    <3>6. b = Binding(c.label, c.target)
      BY <3>4, <3>5, CellKinds
    <3> QED BY <3>6 DEF Binding, Arcs
  <2> HIDE DEF items
  <2>3. Whole(walk, items)
    BY <2>1, <2>2, CommittedWhole
  <2> HIDE DEF walk
  <2>4. Len(walk.items) <= Cardinality(Labels)
    BY <2>3, LengthOfWalk DEF Whole
  <2> HIDE DEF answer
  <2> QED BY <1>1, <2>3, <2>4 DEF Whole
<1> QED BY <1>3, <1>4

\* A Snapshot of nodes from anywhere accepts the Roots that a Commit of their bindings
\* has and no other, and no Map beyond the bound; finitely many labels are there to
\* be bounded (SnapshotBounded).
THEOREM SnapshotsDecide == IsFiniteSet(Labels) => (Spec => []SnapshotsFaithful)
<1> SUFFICES ASSUME IsFiniteSet(Labels) PROVE Spec => []SnapshotsFaithful
  OBVIOUS
<1>1. Committed => SnapshotsFaithful
  <2> SUFFICES ASSUME Committed PROVE SnapshotsFaithful
    OBVIOUS
  <2>1. PICK items \in SUBSET Arcs : Unambiguous(items) /\ root = MapNode(items, 0)
    BY DEF Committed
  <2> DEFINE size == Cardinality(MapBindings(root))
             walk == MapWalk(NodesOf(root), root)
  <2>2. ASSUME NEW tree \in OneCellOff
        PROVE  Snapshot(NodesOf(tree), tree, Cardinality(Labels)).ok <=> Canonical(tree)
    <3>1. tree \in NodesOf(tree) /\ \A n \in NodesOf(tree) : WellFormed(n)
      BY <2>1, OffWellFormed
    <3> QED BY <3>1, SnapshotTells
  <2>3. ASSUME NEW bound \in 0..size
        PROVE  /\ Snapshot(NodesOf(root), root, bound).ok <=> bound = size
               /\ Snapshot(NodesOf(root), root, bound).ok =>
                      ToSet(Snapshot(NodesOf(root), root, bound).items) = MapBindings(root)
    <3>1. MapBindings(root) = items
      BY <2>1, BindingsOfMap
    <3>2. Whole(walk, items)
      BY <2>1, CommittedWhole
    <3>3. /\ Snapshot(NodesOf(root), root, bound).ok <=>
                 walk.ok /\ Len(walk.items) <= bound /\ Distinct(walk.items)
          /\ Snapshot(NodesOf(root), root, bound).items = walk.items
      BY SnapshotIs
    <3> HIDE DEF walk
    <3>4. Len(walk.items) = size /\ size \in Nat
      <4>1. walk.items \in Seq(Arcs) /\ Distinct(walk.items) /\ ToSet(walk.items) = items
        BY <3>2 DEF Whole
      <4>2. Len(walk.items) = Cardinality(ToSet(walk.items)) /\ Len(walk.items) \in Nat
        BY <4>1, LengthOfWalk
      <4> QED BY <3>1, <4>1, <4>2
    <3> HIDE DEF size
    <3>5. Len(walk.items) <= bound <=> bound = size
      BY <3>4
    <3> QED BY <3>1, <3>2, <3>3, <3>5 DEF Whole
  <2> QED BY <2>2, <2>3 DEF SnapshotsFaithful
<1> QED BY Invariance, <1>1, PTL
=============================================================================
