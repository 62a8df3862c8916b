----------------------------- MODULE MapUpdates -----------------------------
(***************************************************************************)
(* A Map committed once and then updated by batch after batch of changes   *)
(* (Engine.Commit and Engine.Apply of auth/tree), from any Map to any      *)
(* other.  The nodes that a Root reaches can always be loaded here;        *)
(* TreeEdits is about how they come to the store.                          *)
(***************************************************************************)
EXTENDS MapProof

CONSTANTS
    Targets,  \* target CIDs
    Batches,  \* the batches of changes an application may send
    Maps      \* the sets of bindings an application may commit at first

ASSUME MapAssumption ==
    /\ Slots \in Nat \ {0} /\ Levels \in Nat \ {0}
    /\ CoordinateOf \in [Labels -> [1..Levels -> Slot]]
    /\ Targets # {} /\ Undef \notin Targets
    /\ \A batch \in Batches :
          batch \subseteq [label : Labels, before : Targets \cup {Undef}, after : Targets \cup {Undef}]
    /\ \A items \in Maps : items \subseteq [label : Labels, target : Targets \cup {Undef}]

VARIABLE root

\* The nodes of a tree, as deep as coordinates have digits.
NodesOf(node) ==
    LET layer[depth \in 0..Levels] ==
            IF depth = 0 THEN {node} ELSE UNION {ChildNodes(n) : n \in layer[depth - 1]}
    IN  UNION {layer[depth] : depth \in 0..Levels}

\* Snapshot: the bindings of a tree.
MapBindings(node) == UNION {LeafBindings(n[slot]) : n \in NodesOf(node), slot \in Slot}

Init == \E items \in Maps : CommitMap(items).ok /\ root = CommitMap(items).node

Apply(batch) ==
    LET result == ApplyMap(NodesOf(root), root, batch)
    IN  result.ok /\ root' = result.node

Next == \E batch \in Batches : Apply(batch)

Spec == Init /\ [][Next]_root

-----------------------------------------------------------------------------
\* The Root is a function of the bindings alone: however they were reached, it
\* is the Root a Commit of the same bindings has (collapse in mapNode).
HistoryIndependent == root = MapNode(MapBindings(root), 0)

ArcsOf(node) ==
    LET items == MapBindings(node)
    IN  [l \in {b.label : b \in items} |-> (CHOOSE b \in items : b.label = l).target]

Abstract == INSTANCE MapArcs WITH arcs <- ArcsOf(root)

\* The arcs only ever change by whole batches, whatever the tree does with its
\* nodes (mapNode: split leaves, shared prefixes, collapsed children).
ImplementsArcs == Abstract!Spec

\* Apply accepts a batch if and only if every change names the present target
\* and no coordinate gets two labels; nothing in the shape of the tree, a leaf of
\* another coordinate on the way say, matters (expect).  The new Root has exactly
\* the changes.
AcceptsExactly ==
    \A batch \in Batches :
        LET result == ApplyMap(NodesOf(root), root, batch)
        IN  /\ result.ok <=> Abstract!Acceptable(batch)
            /\ result.ok => ArcsOf(result.node) = Abstract!Result(batch)

-----------------------------------------------------------------------------
\* Proof nodes of other queries, with other claims, cut short and drawn out.
Offered ==
    LET proofs == {Prove(NodesOf(root), root, l).cells : l \in Labels}
    IN  {Answer(t # Undef, t, cells) :
            t \in Targets \cup {Undef},
            cells \in proofs \cup {Front(p) : p \in {x \in proofs : x # <<>>}}
                             \cup {p \o p : p \in proofs}}

\* Whatever evidence a peer offers for a query, Verify accepts it only if it states
\* what the Map holds for that label: a leaf of another label on the way never
\* proves a label absent that may be hidden by its collision, and a lookup that
\* lacks a node never yields an answer of its own.  Honest answers verify, and only
\* a label hidden by a collision has none (prove, Verify, checkLeafRoute).
ProofsDecide ==
    LET arcs == ArcsOf(root)
        offered == Offered
    IN  \A query \in Labels :
            LET honest == Prove(NodesOf(root), root, query)
                hidden == \E l \in DOMAIN arcs : Collides(l, query)
            IN  /\ honest.ok <=> ~hidden
                /\ honest.ok => Verify(root, query, honest)
                /\ \A node \in NodesOf(root) :
                       Prove(NodesOf(root) \ {node}, root, query) \in {honest, NoAnswer}
                /\ \A answer \in {a \in offered : Verify(root, query, a)} :
                       /\ ~hidden
                       /\ answer.target = IF query \in DOMAIN arcs THEN arcs[query] ELSE Undef

Substitutes ==
    {Empty, ChildCell([slot \in Slot |-> Empty])}
        \cup {Leaf(Binding(l, CHOOSE t \in Targets : TRUE)) : l \in Labels}
        \cup {ChildCell(node) : node \in NodesOf(root)}

\* A node with one of its cells replaced, and a node with such a node below it.
Replaced(node) ==
    UNION {{[node EXCEPT ![slot] = cell] : cell \in Substitutes} : slot \in Slot}

ReplacedBelow(below, node) ==
    UNION {{[node EXCEPT ![slot] = ChildCell(child)] : child \in below[node[slot].node]} :
              slot \in {s \in Slot : node[s].kind = "child"}}

\* The trees that differ from the present one in a single cell.
OneCellOff ==
    LET off[depth \in 0..Levels] ==
            [node \in NodesOf(root) |->
                IF depth = Levels THEN {} ELSE Replaced(node) \cup ReplacedBelow(off[depth + 1], node)]
    IN  off[0][root]

Canonical(tree) ==
    LET items == MapBindings(tree) IN Unambiguous(items) /\ tree = MapNode(items, 0)

\* A Snapshot of nodes from anywhere accepts the Roots that a Commit of their
\* bindings has and no other: a leaf outside its prefix, a label met twice, a node
\* that should have been collapsed or a collision refuses the whole Root, and so
\* does a Map beyond the bound (SnapshotBounded).
SnapshotsFaithful ==
    LET size == Cardinality(MapBindings(root)) IN
    /\ \A tree \in OneCellOff :
           LET walk == Snapshot(NodesOf(tree), tree, Cardinality(Labels))
           IN  walk.ok <=> Canonical(tree)
    /\ \A bound \in 0..size :
           LET walk == Snapshot(NodesOf(root), root, bound)
           IN  /\ walk.ok <=> bound = size
               /\ walk.ok => ToSet(walk.items) = MapBindings(root)
=============================================================================
