------------------------------ MODULE ListTree ------------------------------
(***************************************************************************)
(* The List layout of auth/tree as operators: a radix tree whose root      *)
(* gives up slot zero to the metadata (count and payload).  The shape      *)
(* follows from the count alone: a position (count, height, root) says     *)
(* which cells a node must have.  Counts are unsigned integers of Width    *)
(* bits, shifts past the width included.  Nodes, cells and the result of   *)
(* an operation are those of MapTree.                                      *)
(*                                                                         *)
(* What the code does by recursion is here a function of the height, which *)
(* for every height says what is done to any node at any position.         *)
(***************************************************************************)
EXTENDS MapTree, Integers, FiniteSetsExt

CONSTANTS
    Bits,   \* radixBits: Slots = 2^Bits
    Width   \* bits of a count and of an index (64)

\* 1 << n, for the shifts there can be.
TwoTo[n \in 0..(Width * Bits)] == IF n = 0 THEN 1 ELSE 2 * TwoTo[n - 1]

ASSUME ListAssumption ==
    /\ Bits \in Nat \ {0} /\ Width \in Nat \ {0}
    /\ Slots = TwoTo[Bits]

MaxUint == TwoTo[Width] - 1
Shr(x, n) == x \div TwoTo[n]
Shl(x, n) == (x * TwoTo[n]) % TwoTo[Width]
Minus(x, y) == (x - y) % TwoTo[Width]
Plus(x, y) == (x + y) % TwoTo[Width]

Item(target) == [kind |-> "item", target |-> target]
Meta(count, payload) == [kind |-> "meta", count |-> count, payload |-> payload]

Position(count, height, root) == [count |-> count, height |-> height, root |-> root]
Positions == [count : 0..MaxUint, height : 0..Width, root : BOOLEAN]

\* Faulty: the root is filled to all its slots.
RootPositionWide(count) ==
    Position(count, Min({h \in 0..Width : count = 0 \/ Shr(count - 1, h * Bits) < Slots}), TRUE)

\* The least height whose root, with one slot less, addresses the last index.
RootPosition(count) ==
    Position(count,
             Min({h \in 0..Width : count = 0 \/ Shr(count - 1, h * Bits) < Slots - 1}),
             TRUE)

Base(pos) == IF pos.root THEN 1 ELSE 0
Shift(pos) == pos.height * Bits
SlotOf(pos, index) == Base(pos) + Shr(index, Shift(pos))
Used(pos) == IF pos.count = 0 THEN 0 ELSE Shr(pos.count - 1, Shift(pos)) + 1
Digits(pos) == 0..(Used(pos) - 1)

Start(pos, digit) == Shl(digit, Shift(pos))

ChildPosition(pos, digit) ==
    LET rest == Minus(pos.count, Start(pos, digit))
    IN  Position(IF Shift(pos) < Width THEN Min({rest, TwoTo[Shift(pos)]}) ELSE rest,
                 pos.height - 1, FALSE)

\* checkPosition: the cells are of the kind and number the position demands.
Shaped(cells, pos) ==
    /\ Used(pos) <= Slots - Base(pos)
    /\ \A slot \in Base(pos)..(Slots - 1) :
           cells[slot].kind = IF slot - Base(pos) >= Used(pos) THEN "empty"
                              ELSE IF pos.height = 0 THEN "item" ELSE "child"

\* The nodes a reference to which is known.
Referenced(store) == store \cup UNION {ChildNodes(node) : node \in store}

\* A node is written after what is written below it.
Written(node, puts, read) ==
    [ok |-> TRUE, node |-> node, puts |-> Append(puts, node), reads |-> read]

\* Other nodes have been read before.
Reading(result, nodes) ==
    [ok |-> result.ok, node |-> result.node, puts |-> result.puts, reads |-> result.reads \cup nodes]

\* Of the results for the digits of a node: the node and what it took.
Combined(pos, meta, results, read) ==
    LET cells == [slot \in Slot |->
                     IF slot < Base(pos) THEN meta
                     ELSE IF slot - Base(pos) \in Digits(pos)
                     THEN ChildCell(results[slot - Base(pos)].node)
                     ELSE Empty]
        Writes(i) == results[i - 1].puts
    IN  [ok    |-> \A d \in Digits(pos) : results[d].ok,
         node  |-> cells,
         reads |-> read \cup UNION {results[d].reads : d \in Digits(pos)},
         puts  |-> Append(FlattenSeq([i \in 1..Used(pos) |-> Writes(i)]), cells)]

-----------------------------------------------------------------------------
(* Commit of a whole List; meta is the metadata cell, used at the root.     *)
(* Slices of the items are known by their first index.                      *)

BuiltLeaves(items, meta, pos, first) ==
    [slot \in Slot |->
        LET d == slot - Base(pos) IN
        IF d < 0 THEN meta
        ELSE IF d < Used(pos) THEN Item(items[first + d])
        ELSE Empty]

BuildsAt(below, items, meta, height) ==
    [pos \in Positions |-> [first \in Nat |->
        IF height = 0 THEN Written(BuiltLeaves(items, meta, pos, first), <<>>, {})
        ELSE Combined(pos, meta,
                 [d \in Digits(pos) |-> below[ChildPosition(pos, d)][first + Start(pos, d)]],
                 {})]]

Builds(items, meta) ==
    LET build[height \in 0..Width] == BuildsAt(build[height - 1], items, meta, height)
    IN  build

Built(items, meta, pos, first) == Builds(items, meta)[pos.height][pos][first]

ListBuilt(items, payload) ==
    Built(items, Meta(Len(items), payload), RootPosition(Len(items)), 1)

BuildList(items, payload) == ListBuilt(items, payload).node

CommitList(items, payload) ==
    IF \E i \in DOMAIN items : items[i] = Undef THEN Refused
    ELSE ListBuilt(items, payload)

-----------------------------------------------------------------------------
(* AppendBatch: children that stay, children that grow, and new ones.  The  *)
(* item at first is the first one for the node.                             *)

\* Faulty: the new items start at the first content slot.
GrownLeavesOver(items, meta, node, old, next, first) ==
    [slot \in Slot |->
        LET d == slot - Base(next) IN
        IF d < 0 THEN meta
        ELSE IF d < next.count - old.count THEN Item(items[first + d])
        ELSE IF d < next.count THEN Item(items[first])
        ELSE Empty]

\* The cells of a node of items; a demoted root gets its slot zero back.
GrownLeaves(items, meta, node, old, next, first) ==
    [slot \in Slot |->
        LET d == slot - Base(next) IN
        IF d < 0 THEN meta
        ELSE IF d < old.count THEN node[Base(old) + d]
        ELSE IF d < next.count THEN Item(items[first + d - old.count])
        ELSE Empty]

\* A child of the next position: built of items behind those that were there, the
\* whole old tree below a higher root, or a child of the node, which has been read.
GrowChild(below, items, node, old, next, first, digit) ==
    LET start == Start(next, digit)
        to == ChildPosition(next, digit)
        cell == node[Base(old) + digit]
    IN  IF start >= old.count THEN Built(items, Empty, to, first + start - old.count)
        ELSE IF old.height # next.height THEN below[node][old][to][first]
        ELSE IF cell.kind # "child" THEN Refused
        ELSE below[cell.node][ChildPosition(old, digit)][to][first]

GrowsAt(below, store, items, meta, height) ==
    [node \in Referenced(store) |-> [old \in Positions |->
    [next \in Positions |-> [first \in Nat |->
        LET read == IF old.height = height THEN {node} ELSE {} IN
        IF old = next THEN Unchanged(node)
        ELSE IF old.count = 0 THEN Built(items, meta, next, first)
        ELSE IF old.height = height /\ ~(node \in store /\ Shaped(node, old)) THEN Refused
        ELSE IF height = 0
        THEN Written(GrownLeaves(items, meta, node, old, next, first), <<>>, read)
        ELSE Combined(next, meta,
                 [d \in Digits(next) |-> GrowChild(below, items, node, old, next, first, d)],
                 read)]]]]

Grows(store, items, meta) ==
    LET grow[height \in 0..Width] == GrowsAt(grow[height - 1], store, items, meta, height)
    IN  grow

\* sequence: the root of a List is loaded and its shape is checked.
Sequence(store, root) ==
    root \in store /\ Shaped(root, RootPosition(root[0].count))

Overflow(count, targets) == Len(targets) > MaxUint - count

AppendAll(store, root, targets) ==
    LET count == root[0].count
        next == RootPosition(count + Len(targets))
        meta == Meta(next.count, root[0].payload)
        grown == Grows(store, targets, meta)[next.height][root][RootPosition(count)][next][1]
    IN  IF \/ ~Sequence(store, root)
           \/ targets = <<>> \/ Overflow(count, targets)
           \/ \E i \in DOMAIN targets : targets[i] = Undef
        THEN Refused
        ELSE Reading(grown, {root})

\* Faulty: the batch is appended in two calls.
AppendInTwo(store, root, targets) ==
    LET n == Len(targets)
        first == AppendAll(store, root, SubSeq(targets, 1, n - 1))
        second == AppendAll(store \cup {first.puts[i] : i \in DOMAIN first.puts},
                            first.node, SubSeq(targets, n, n))
    IN  IF n < 2 \/ ~first.ok THEN AppendAll(store, root, targets)
        ELSE [second EXCEPT !.puts = first.puts \o @, !.reads = first.reads]

AppendBatch(store, root, targets) == AppendAll(store, root, targets)

-----------------------------------------------------------------------------
(* Truncate, SetPayload and Apply.                                          *)

\* Faulty: the cells behind the new count are not cleared.
KeptLeavesStale(meta, node, old, next) ==
    [slot \in Slot |->
        LET d == slot - Base(next) IN
        IF d < 0 THEN meta ELSE IF d < Used(old) THEN node[Base(old) + d] ELSE Empty]

KeptLeaves(meta, node, old, next) ==
    [slot \in Slot |->
        LET d == slot - Base(next) IN
        IF d < 0 THEN meta ELSE IF d < Used(next) THEN node[Base(old) + d] ELSE Empty]

CutChild(below, node, old, next, digit) ==
    LET cell == node[Base(old) + digit] IN
    IF cell.kind # "child" THEN Refused
    ELSE below[cell.node][ChildPosition(old, digit)][ChildPosition(next, digit)]

CutsAt(below, store, meta, height) ==
    [node \in Referenced(store) |-> [old \in Positions |-> [next \in Positions |->
        IF old = next THEN Unchanged(node)
        ELSE IF node \notin store \/ ~Shaped(node, old) THEN Refused
        ELSE IF height = 0 THEN Written(KeptLeaves(meta, node, old, next), <<>>, {node})
        ELSE Combined(next, meta,
                 [d \in Digits(next) |-> CutChild(below, node, old, next, d)], {node})]]]

Cuts(store, meta) ==
    LET cut[height \in 0..Width] == CutsAt(cut[height - 1], store, meta, height)
    IN  cut

\* A lower tree starts from the leftmost descendant of its height.
Down(above, store) ==
    LET cell == above.node[Base(above.pos)] IN
    IF ~above.ok THEN above
    ELSE IF above.node \notin store \/ ~Shaped(above.node, above.pos) \/ cell.kind # "child"
    THEN [above EXCEPT !.ok = FALSE]
    ELSE [ok |-> TRUE, node |-> cell.node, pos |-> ChildPosition(above.pos, 0),
          reads |-> above.reads \cup {above.node}]

Descend(store, root, height) ==
    LET top == RootPosition(root[0].count)
        low[h \in 0..Width] ==
            IF h >= top.height THEN [ok |-> TRUE, node |-> root, pos |-> top, reads |-> {}]
            ELSE Down(low[h + 1], store)
    IN  low[height]

Truncate(store, root, count) ==
    LET next == RootPosition(count)
        meta == Meta(count, root[0].payload)
        low == Descend(store, root, next.height)
        cut == Cuts(store, meta)[next.height][low.node][low.pos][next]
    IN  IF ~Sequence(store, root) \/ count > root[0].count THEN Refused
        ELSE IF count = root[0].count THEN Reading(Unchanged(root), {root})
        ELSE IF count = 0 THEN Reading(ListBuilt(<<>>, root[0].payload), {root})
        ELSE IF ~low.ok THEN Refused
        ELSE Reading(cut, low.reads \cup {root})

SetPayload(store, root, payload) ==
    LET new == [root EXCEPT ![0] = Meta(@.count, payload)]
    IN  IF ~Sequence(store, root) THEN Refused
        ELSE IF root[0].payload = payload THEN Reading(Unchanged(root), {root})
        ELSE Written(new, <<>>, {root})

\* Changes below a node whose first index is offset, by the slot they belong to.
GroupAt(pos, offset, changes, slot) ==
    {c \in changes : SlotOf(pos, Minus(c.index, offset)) = slot}

ReplacedLeaves(node, pos, offset, changes) ==
    [slot \in Slot |->
        LET group == GroupAt(pos, offset, changes, slot) IN
        IF group = {} THEN node[slot] ELSE Item((CHOOSE c \in group : TRUE).after)]

ReplaceNode(below, node, pos, offset, changes) ==
    LET Group(slot) == GroupAt(pos, offset, changes, slot)
        touched == {slot \in Slot : Group(slot) # {}}
        Child(slot) ==
            LET digit == slot - Base(pos) IN
            IF node[slot].kind # "child" THEN Refused
            ELSE below[node[slot].node][ChildPosition(pos, digit)]
                      [Plus(offset, Start(pos, digit))][Group(slot)]
        new == [slot \in Slot |->
                   IF slot \in touched THEN ChildCell(Child(slot).node) ELSE node[slot]]
    IN  [ok    |-> \A slot \in touched : Child(slot).ok,
         node  |-> new,
         reads |-> {node} \cup UNION {Child(slot).reads : slot \in touched},
         puts  |-> Append(FlattenSeq([i \in 1..Slots |->
                       IF i - 1 \in touched THEN Child(i - 1).puts ELSE <<>>]), new)]

ReplacesAt(below, store, changes, height) ==
    [node \in Referenced(store) |-> [pos \in Positions |->
    [offset \in 0..MaxUint |-> [group \in SUBSET changes |->
        IF node \notin store \/ ~Shaped(node, pos) THEN Refused
        ELSE IF height > 0 THEN ReplaceNode(below, node, pos, offset, group)
        ELSE IF \E c \in group : node[SlotOf(pos, Minus(c.index, offset))].target # c.before
        THEN Refused
        ELSE Written(ReplacedLeaves(node, pos, offset, group), <<>>, {node})]]]]

Replaces(store, changes) ==
    LET replace[height \in 0..Width] == ReplacesAt(replace[height - 1], store, changes, height)
    IN  replace

ApplyList(store, root, changes) ==
    LET top == RootPosition(root[0].count) IN
    IF \E c, d \in changes : c # d /\ c.index = d.index THEN Refused
    ELSE IF \E c \in changes : c.before = Undef \/ c.after = Undef THEN Refused
    ELSE IF changes = {} THEN Unchanged(root)
    ELSE IF root \notin store \/ \E c \in changes : c.index >= root[0].count THEN Refused
    ELSE Replaces(store, changes)[top.height][root][top][0][changes]

-----------------------------------------------------------------------------
(* Snapshot: the nodes and the targets of a tree.                           *)

\* The nodes of a tree, as deep as a List may be.
Layers(root) ==
    LET layer[depth \in 0..Width] ==
            IF depth = 0 THEN {root} ELSE UNION {ChildNodes(n) : n \in layer[depth - 1]}
    IN  layer

ListNodes(root) == UNION {Layers(root)[depth] : depth \in 0..Width}

ItemsAt(below, nodes, height) ==
    [node \in nodes |->
        FlattenSeq([i \in 1..Slots |->
            LET cell == node[i - 1] IN
            IF cell.kind = "item" THEN <<cell.target>>
            ELSE IF cell.kind = "child" /\ height > 0 /\ cell.node \in nodes
            THEN below[cell.node]
            ELSE <<>>])]

ItemsBelow(nodes) ==
    LET items[height \in 0..Width] == ItemsAt(items[height - 1], nodes, height)
    IN  items

ListItems(root) == ItemsBelow(ListNodes(root))[Width][root]
=============================================================================
