------------------------------ MODULE MapTree ------------------------------
(***************************************************************************)
(* The Map layout of auth/tree as operators: a trie over the digits of the *)
(* coordinates that labels derive to.  A commitment is collision-free      *)
(* here, so a node is its own reference: a function from slots to cells, a *)
(* child cell holding the child node.  Distinct labels may derive to one   *)
(* coordinate; such a collision is an error, never a binding.              *)
(*                                                                         *)
(* An operation yields whether it is accepted, the new root node, the      *)
(* nodes it writes, in the order in which it writes them, and the nodes it *)
(* read.                                                                   *)
(***************************************************************************)
EXTENDS Naturals, Sequences, FiniteSets, SequencesExt

CONSTANTS
    Slots,         \* slots of a node: a power of two
    Labels,        \* original label bytes
    CoordinateOf,  \* the digits of the coordinate each label derives to
    Undef          \* cid.Undef: an absent target

Slot == 0..(Slots - 1)

\* digit: the digits a coordinate has, so the depth a Map may have.
Levels == Len(CoordinateOf[CHOOSE label \in Labels : TRUE])
Digit(label, depth) == CoordinateOf[label][depth + 1]

Empty == [kind |-> "empty"]
Leaf(b) == [kind |-> "leaf", label |-> b.label, target |-> b.target]
ChildCell(node) == [kind |-> "child", node |-> node]
Binding(label, target) == [label |-> label, target |-> target]

Unchanged(root) == [ok |-> TRUE, node |-> root, puts |-> <<>>, reads |-> {}]
Bare == [slot \in Slot |-> Empty]
Refused == [ok |-> FALSE, node |-> Bare, puts |-> <<>>, reads |-> {}]

ChildNodes(node) == {node[s].node : s \in {x \in Slot : node[x].kind = "child"}}

\* A proof or a Snapshot loads each vector once and opens it at slots; an opening
\* that does not verify under the reference is an incomplete node, never evidence.
Loaded(store, node) == node \in store
Opened(node, slot) == node[slot]

\* verifyOpening: a commitment binds one cell at each slot.
Opens(node, slot, cell) == slot \in Slot /\ Opened(node, slot) = cell

SameCoordinate(x, y) == CoordinateOf[x.label] = CoordinateOf[y.label]
Routed(items, depth, slot) == {x \in items : Digit(x.label, depth) = slot}

-----------------------------------------------------------------------------
(* Commit of a whole Map.                                                   *)

Several(group) == \E x, y \in group : x # y

\* The nodes of groups of the bindings by their depth.  A binding alone under its
\* prefix is a leaf, several share a child node; no digit is left at the last depth.
MapNodes(items) ==
    LET node[depth \in 0..Levels] ==
            [group \in SUBSET items |->
                IF depth = Levels THEN Bare
                ELSE [slot \in Slot |->
                         LET routed == Routed(group, depth, slot) IN
                         IF routed = {} THEN Empty
                         ELSE IF Several(routed) THEN ChildCell(node[depth + 1][routed])
                         ELSE Leaf(CHOOSE b \in routed : TRUE)]]
    IN  node

MapNode(items, depth) == MapNodes(items)[depth][items]

\* What its commit writes: the child nodes in slot order, each after those below it,
\* and then the node.
MapWrites(items, depth) ==
    LET writes[d \in depth..Levels] ==
            [group \in SUBSET items |->
                IF d = Levels THEN <<>>
                ELSE Append(FlattenSeq([i \in 1..Slots |->
                         LET routed == Routed(group, d, i - 1) IN
                         IF Several(routed) THEN writes[d + 1][routed] ELSE <<>>]),
                            MapNode(group, d))]
    IN  writes[depth][items]

\* Neither a label twice nor two labels of one coordinate.
Unambiguous(items) ==
    \A x, y \in items : SameCoordinate(x, y) => x = y

CommitMap(items) ==
    IF Unambiguous(items) /\ \A b \in items : b.target # Undef
    THEN [ok |-> TRUE, node |-> MapNode(items, 0), reads |-> {},
          puts |-> MapWrites(items, 0)]
    ELSE Refused

-----------------------------------------------------------------------------
(* Apply: path copying under expected old targets.                          *)

\* Faulty: a child left with one binding is kept as a node.
CollapsedNever(cells) == ChildCell(cells)

\* What a parent stores for an edited child: nothing, its only leaf, or itself.
Collapsed(cells) ==
    LET used == {s \in Slot : cells[s].kind # "empty"} IN
    IF used = {} THEN Empty
    ELSE IF \E s \in used : used = {s} /\ cells[s].kind = "leaf"
    THEN cells[CHOOSE s \in used : TRUE]
    ELSE ChildCell(cells)

LeafBindings(cell) ==
    IF cell.kind = "leaf" THEN {Binding(cell.label, cell.target)} ELSE {}

\* Faulty: the change need not know the target it replaces.
ExpectAbsent(old, change) ==
    \A b \in old : SameCoordinate(b, change) => b.label = change.label

\* expect, and the test for a label that derives to the same coordinate.
Expect(old, change) ==
    LET found == {b \in old : SameCoordinate(b, change)} IN
    IF found = {} THEN change.before = Undef
    ELSE \A b \in found : b.label = change.label /\ b.target = change.before

\* Faulty: the leaf that a new subtree takes the place of is forgotten.
ChangedAlone(old, group) ==
    {Binding(c.label, c.after) : c \in {x \in group : x.after # Undef}}

Changed(old, group) ==
    {b \in old : \A c \in group : ~SameCoordinate(b, c)}
        \cup {Binding(c.label, c.after) : c \in {x \in group : x.after # Undef}}

Fresh(items, depth) ==
    IF items = {} THEN Empty
    ELSE IF Several(items) THEN ChildCell(MapNode(items, depth))
    ELSE Leaf(CHOOSE b \in items : TRUE)

Untouched(cell) == [ok |-> TRUE, cell |-> cell, puts |-> <<>>, reads |-> {}]

\* checkLeafRoute: a leaf met at depth has the digits that led to it.
OnRoute(leaf, query, depth) ==
    \A d \in 0..depth : Digit(leaf, d) = Digit(query, d)

\* The cell for a group of changes; below is what they make of nodes one deeper.
EditSlot(below, cell, depth, group) ==
    IF group = {} THEN Untouched(cell)
    ELSE IF cell.kind = "child"
    THEN IF cell.node \notin DOMAIN below THEN [Untouched(cell) EXCEPT !.ok = FALSE]
         ELSE LET sub == below[cell.node][group]
                  new == Collapsed(sub.node)
              IN  [ok |-> sub.ok, cell |-> new, reads |-> sub.reads,
                   puts |-> IF new.kind = "child" THEN Append(sub.puts, new.node) ELSE sub.puts]
    ELSE LET old == LeafBindings(cell)
             new == Changed(old, group)
         IN  [ok    |-> \A c \in group :
                            Expect(old, c) /\ \A b \in old : OnRoute(b.label, c.label, depth),
              cell  |-> Fresh(new, depth + 1),
              puts  |-> IF Several(new) THEN MapWrites(new, depth + 1) ELSE <<>>,
              reads |-> {}]

EditNode(below, node, depth, group) ==
    LET edited == [slot \in Slot |->
                      EditSlot(below, node[slot], depth, Routed(group, depth, slot))]
    IN  [ok    |-> \A slot \in Slot : edited[slot].ok,
         node  |-> [slot \in Slot |-> edited[slot].cell],
         reads |-> {node} \cup UNION {edited[slot].reads : slot \in Slot},
         puts  |-> FlattenSeq([i \in 1..Slots |-> edited[i - 1].puts])]

\* What groups of the changes make of the nodes of a store, by their depth.
Edits(store, changes) ==
    LET edit[depth \in 0..Levels] ==
            [node \in store |-> [group \in SUBSET changes |->
                IF depth = Levels THEN Refused
                ELSE EditNode(edit[depth + 1], node, depth, group)]]
    IN  edit

ApplyMap(store, root, changes) ==
    IF changes = {} THEN Unchanged(root)
    ELSE IF ~Unambiguous(changes) \/ \E c \in changes : c.before = Undef /\ c.after = Undef
    THEN Refused
    ELSE IF root \notin store THEN Refused
    ELSE LET edit == Edits(store, changes)[0][root][changes]
         IN  [edit EXCEPT !.puts = Append(@, edit.node)]
=============================================================================
