----------------------------- MODULE ListProof -----------------------------
(***************************************************************************)
(* Proofs, range proofs and Snapshots of a List in auth/tree.  A proof is  *)
(* the cell opened at every node on the way to an index, and the metadata  *)
(* cell opened at the root.                                                *)
(***************************************************************************)
EXTENDS ListTree

\* An opening that a proof node does not carry.
Nothing == [kind |-> "nothing"]

Answer(present, target, meta, cells) ==
    [ok |-> TRUE, present |-> present, target |-> target, meta |-> meta, cells |-> cells]
NoAnswer ==
    [ok |-> FALSE, present |-> FALSE, target |-> Undef, meta |-> Nothing, cells |-> <<>>]

\* An index below a node, relative to the first one of the child that has it.
Below(pos, index) == Minus(index, Start(pos, SlotOf(pos, index) - Base(pos)))
ChildOf(pos, index) == ChildPosition(pos, SlotOf(pos, index) - Base(pos))

-----------------------------------------------------------------------------
(* One index.                                                               *)

\* The positions on the way to an index, and the index below each of them.
Deeper(step) == [pos |-> ChildOf(step.pos, step.index), index |-> Below(step.pos, step.index)]

Way(count, index) ==
    LET top == RootPosition(count)
        way[depth \in 0..top.height] ==
            IF depth = 0 THEN [pos |-> top, index |-> index] ELSE Deeper(way[depth - 1])
    IN  way

CellAt(node, step) == Opened(node, SlotOf(step.pos, step.index))

\* What is opened one step further: nothing unless the cell is a child that loads.
OpenChild(store, cell, step) ==
    IF cell.kind = "child" /\ Loaded(store, cell.node) THEN CellAt(cell.node, step) ELSE Nothing

\* prove: absence is the metadata alone.
Prove(store, root, index) ==
    LET meta == Opened(root, 0)
        way == Way(meta.count, index)
        last == RootPosition(meta.count).height
        cell[depth \in 0..last] ==
            OpenChild(store, IF depth = 0 THEN ChildCell(root) ELSE cell[depth - 1], way[depth])
    IN  IF ~Loaded(store, root) \/ meta.kind # "meta" THEN NoAnswer
        ELSE IF index >= meta.count THEN Answer(FALSE, Undef, meta, <<>>)
        ELSE IF cell[last].kind # "item" THEN NoAnswer
        ELSE Answer(TRUE, cell[last].target, meta, [i \in 1..(last + 1) |-> cell[i - 1]])

\* Each cell is at its place of the node that the one before refers to.
Followed(root, count, index, cells) ==
    LET last == RootPosition(count).height
        way == Way(count, index)
        Node(depth) == IF depth = 0 THEN root ELSE cells[depth].node
    IN  /\ Len(cells) = last + 1
        /\ \A depth \in 0..last :
               cells[depth + 1].kind = IF depth = last THEN "item" ELSE "child"
        /\ \A depth \in 0..last :
               Opens(Node(depth), SlotOf(way[depth].pos, way[depth].index), cells[depth + 1])

Verify(root, index, answer) ==
    /\ answer.present = (answer.target # Undef)
    /\ Opens(root, 0, answer.meta) /\ answer.meta.kind = "meta"
    /\ IF index >= answer.meta.count THEN ~answer.present /\ answer.cells = <<>>
       ELSE /\ answer.present
            /\ Followed(root, answer.meta.count, index, answer.cells)
            /\ answer.cells[Len(answer.cells)].target = answer.target

-----------------------------------------------------------------------------
(* A window of indices.  Its end is {} where the caller leaves it to Count. *)

Stop(meta, end) == IF end = {} THEN meta.count ELSE CHOOSE e \in end : TRUE

Bounded(meta, start, end) == start <= Stop(meta, end) /\ Stop(meta, end) <= meta.count

\* The first index and the number of indices; all empty windows are one.
RangeBounds(meta, start, end) ==
    IF start = Stop(meta, end) THEN [first |-> 0, count |-> 0]
    ELSE [first |-> start, count |-> Stop(meta, end) - start]

\* ReadMetadata: the largest index is never one of a List.
ReadMetadata(store, root) == Prove(store, root, MaxUint)

NoRange == [ok |-> FALSE, meta |-> Nothing, evidence |-> NoAnswer, segments |-> <<>>]

ProveRange(store, root, start, end) ==
    LET evidence == ReadMetadata(store, root)
        bounds == RangeBounds(evidence.meta, start, end)
        segments == [i \in 1..bounds.count |-> Prove(store, root, bounds.first + i - 1)]
    IN  IF ~evidence.ok \/ ~Bounded(evidence.meta, start, end) THEN NoRange
        ELSE IF \E i \in DOMAIN segments : ~segments[i].ok \/ ~segments[i].present THEN NoRange
        ELSE [ok |-> TRUE, meta |-> evidence.meta, evidence |-> evidence, segments |-> segments]

\* Faulty: whatever segments there are need only be right.
VerifyRangePartly(root, start, end, result) ==
    /\ Verify(root, MaxUint, result.evidence)
    /\ result.meta = result.evidence.meta
    /\ Bounded(result.meta, start, end)
    /\ LET bounds == RangeBounds(result.meta, start, end) IN
       /\ Len(result.segments) <= bounds.count
       /\ \A i \in DOMAIN result.segments :
              /\ result.segments[i].present
              /\ Verify(root, bounds.first + i - 1, result.segments[i])

VerifyRange(root, start, end, result) ==
    /\ Verify(root, MaxUint, result.evidence)
    /\ result.meta = result.evidence.meta
    /\ Bounded(result.meta, start, end)
    /\ LET bounds == RangeBounds(result.meta, start, end) IN
       /\ Len(result.segments) = bounds.count
       /\ \A i \in DOMAIN result.segments :
              /\ result.segments[i].present
              /\ Verify(root, bounds.first + i - 1, result.segments[i])

-----------------------------------------------------------------------------
(* Snapshot.                                                                *)

\* Faulty: the padding behind the last cell may hold anything.
FittingFront(node, pos) ==
    \A slot \in Base(pos)..(Base(pos) + Used(pos) - 1) :
        slot \in Slot /\ node[slot].kind = IF pos.height = 0 THEN "item" ELSE "child"

Fitting(node, pos) == Shaped(node, pos)

\* The targets below the nodes of a position.
WalksAt(below, store, height) ==
    [node \in Referenced(store) |-> [pos \in Positions |->
        LET Visit(slot) ==
                IF height = 0 THEN [ok |-> TRUE, items |-> <<node[slot].target>>]
                ELSE below[node[slot].node][ChildPosition(pos, slot - Base(pos))]
            visits == [d \in 1..Used(pos) |-> Visit(Base(pos) + d - 1)]
            items == FlattenSeq([d \in 1..Used(pos) |-> visits[d].items])
        IN  IF ~Loaded(store, node) \/ ~Fitting(node, pos) THEN [ok |-> FALSE, items |-> <<>>]
            ELSE [ok    |-> (\A d \in DOMAIN visits : visits[d].ok) /\ Len(items) = pos.count,
                  items |-> items]]]

Walks(store) ==
    LET walk[height \in 0..Width] == WalksAt(walk[height - 1], store, height)
    IN  walk

\* SnapshotBounded: the bound is checked before anything is expanded.
Snapshot(store, root, bound) ==
    IF ~Loaded(store, root) \/ root[0].kind # "meta" \/ root[0].count > bound
    THEN [ok |-> FALSE, items |-> <<>>]
    ELSE LET top == RootPosition(root[0].count) IN Walks(store)[top.height][root][top]
=============================================================================
