------------------------------ MODULE MapProof ------------------------------
(***************************************************************************)
(* Proofs and Snapshots of a Map in auth/tree.  A lookup may lack nodes,   *)
(* and a Root may be of any shape: what its nodes hold is the word of      *)
(* whoever wrote them.                                                     *)
(***************************************************************************)
EXTENDS MapTree

Answer(present, target, cells) ==
    [ok |-> TRUE, present |-> present, target |-> target, cells |-> cells]
NoAnswer == [ok |-> FALSE, present |-> FALSE, target |-> Undef, cells |-> <<>>]

Collides(leaf, query) == CoordinateOf[leaf] = CoordinateOf[query] /\ leaf # query

-----------------------------------------------------------------------------
\* What the cell met at a depth proves; below is what the nodes one deeper do.
ProveCell(below, store, query, depth, cell) ==
    LET found == cell.label = query
        rest == below[cell.node]
    IN  CASE cell.kind = "empty" -> Answer(FALSE, Undef, <<cell>>)
          [] cell.kind = "leaf" ->
                 IF ~OnRoute(cell.label, query, depth) \/ Collides(cell.label, query) THEN NoAnswer
                 ELSE Answer(found, IF found THEN cell.target ELSE Undef, <<cell>>)
          [] cell.kind = "child" ->
                 IF Loaded(store, cell.node) /\ rest.ok
                 THEN Answer(rest.present, rest.target, <<cell>> \o rest.cells) ELSE NoAnswer
          [] OTHER -> NoAnswer

\* prove: down the digits of the query to an empty slot or to a leaf.
Proves(store, query) ==
    LET prove[depth \in 0..Levels] ==
            [node \in store |->
                IF depth = Levels THEN NoAnswer
                ELSE ProveCell(prove[depth + 1], store, query, depth,
                               Opened(node, Digit(query, depth)))]
    IN  prove

Prove(store, root, query) ==
    IF Loaded(store, root) THEN Proves(store, query)[0][root] ELSE NoAnswer

\* Faulty: a leaf on the way to the query proves absence whatever it is.
LeafDecidesLoosely(leaf, query, depth, answer) ==
    /\ OnRoute(leaf.label, query, depth)
    /\ answer.present => leaf.label = query /\ leaf.target = answer.target
    /\ ~answer.present => leaf.label # query

\* A leaf proves its own label present, and labels of other coordinates absent.
LeafDecides(leaf, query, depth, answer) ==
    /\ OnRoute(leaf.label, query, depth)
    /\ IF answer.present THEN leaf.label = query /\ leaf.target = answer.target
       ELSE CoordinateOf[leaf.label] # CoordinateOf[query]

\* The node that the opening of a depth is of: the child in the one before.
NodeAt(root, cells, depth) == IF depth = 0 THEN root ELSE cells[depth].node

\* Verify; an error refuses the answer as FALSE does.
Verify(root, query, answer) ==
    LET cells == answer.cells IN
    /\ answer.present = (answer.target # Undef)
    /\ Len(cells) \in 1..Levels
    /\ \A depth \in 0..(Len(cells) - 1) :
          LET cell == cells[depth + 1]
              last == depth + 1 = Len(cells)
          IN  /\ Opens(NodeAt(root, cells, depth), Digit(query, depth), cell)
              /\ CASE cell.kind = "empty" -> last /\ ~answer.present
                   [] cell.kind = "leaf"  -> last /\ LeafDecides(cell, query, depth, answer)
                   [] cell.kind = "child" -> ~last
                   [] OTHER -> FALSE

-----------------------------------------------------------------------------
Walked(ok, items) == [ok |-> ok, items |-> items]

\* Faulty: a child node is taken whatever it holds.
EnoughAny(items) == TRUE

\* A child node holds several bindings, or it would have been collapsed.
Enough(items) == Len(items) >= 2

\* One cell: a leaf has the digits of its route; below are the nodes one deeper.
WalkCell(below, store, cell, route) ==
    CASE cell.kind = "empty" -> Walked(TRUE, <<>>)
      [] cell.kind = "leaf" ->
             Walked(\A i \in DOMAIN route : CoordinateOf[cell.label][i] = route[i],
                    <<Binding(cell.label, cell.target)>>)
      [] cell.kind = "child" /\ Loaded(store, cell.node) ->
             LET sub == below[cell.node][route]
             IN  Walked(sub.ok /\ Enough(sub.items), sub.items)
      [] OTHER -> Walked(FALSE, <<>>)

WalkNode(below, store, node, path) ==
    LET visits == [i \in 1..Slots |->
                      WalkCell(below, store, Opened(node, i - 1), Append(path, i - 1))]
    IN  Walked(\A i \in 1..Slots : visits[i].ok,
               FlattenSeq([i \in 1..Slots |-> visits[i].items]))

\* The bindings below the nodes in slot order; path holds the slots that led to one.
MapWalks(store) ==
    LET walk[depth \in 0..Levels] ==
            [node \in store |-> [path \in [1..depth -> Slot] |->
                IF depth = Levels THEN Walked(FALSE, <<>>)
                ELSE WalkNode(walk[depth + 1], store, node, path)]]
    IN  walk

MapWalk(store, root) ==
    IF Loaded(store, root) THEN MapWalks(store)[0][root][<<>>] ELSE Walked(FALSE, <<>>)

Distinct(items) == \A i, j \in DOMAIN items : SameCoordinate(items[i], items[j]) => i = j

\* SnapshotBounded: neither a duplicate, nor a collision, nor more than bound.
Snapshot(store, root, bound) ==
    LET walk == MapWalk(store, root)
    IN  Walked(walk.ok /\ Len(walk.items) <= bound /\ Distinct(walk.items), walk.items)
=============================================================================
