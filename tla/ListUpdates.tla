---------------------------- MODULE ListUpdates ----------------------------
(***************************************************************************)
(* A List committed once and then appended to, truncated, changed in place *)
(* and given payloads (AppendBatch, Truncate, Apply and SetPayload of      *)
(* auth/tree), from any length to any other up to the largest count.  The  *)
(* nodes that a Root reaches can always be loaded here.                    *)
(***************************************************************************)
EXTENDS ListProof

CONSTANTS
    Targets,       \* target CIDs
    Appends(_),    \* the batches of targets an application may append at a count
    Replacements,  \* the sets of replacements it may send
    Payloads,      \* the payloads it may set, Undef included
    Lists,         \* the sequences of targets it may commit at first
    Windows        \* windows <<start, end>> of indices it may ask for, end <<>> or <<e>>

\* A length and an index are unsigned integers of the width of a count.
ASSUME ListUpdatesAssumption ==
    /\ \A items \in Lists : items \in Seq(Targets \cup {Undef}) /\ Len(items) <= MaxUint
    /\ \A n \in 0..MaxUint : Appends(n) \subseteq Seq(Targets \cup {Undef})
    /\ \A changes \in Replacements : \A c \in changes :
           c.index \in Nat /\ c.after \in Targets \cup {Undef}
    /\ \A window \in Windows :
           window[1] \in Nat /\ (window[2] = <<>> \/ window[2][1] \in Nat)

VARIABLE root

Init == \E items \in Lists, p \in Payloads :
            CommitList(items, p).ok /\ root = CommitList(items, p).node

Becomes(result) == result.ok /\ root' = result.node

Appended(targets) == AppendBatch(ListNodes(root), root, targets)
Truncated(count) == Truncate(ListNodes(root), root, count)
Replaced(changes) == ApplyList(ListNodes(root), root, changes)
PayloadSet(p) == SetPayload(ListNodes(root), root, p)

AppendStep == \E targets \in Appends(root[0].count) : Becomes(Appended(targets))
TruncateStep == \E count \in 0..MaxUint : Becomes(Truncated(count))
ReplaceStep == \E changes \in Replacements : Becomes(Replaced(changes))
PayloadStep == \E p \in Payloads : Becomes(PayloadSet(p))

Next == AppendStep \/ TruncateStep \/ ReplaceStep \/ PayloadStep

Spec == Init /\ [][Next]_root

-----------------------------------------------------------------------------
\* The Root is a function of the items and the payload alone: a List grown in
\* batches, shrunk and edited has the Root a Commit of the result has, through
\* every change of height (demoted roots of appendNode, descent of Truncate).
HistoryIndependent == root = BuildList(ListItems(root), root[0].payload)

Abstract == INSTANCE ListArcs WITH items <- ListItems(root), payload <- root[0].payload

\* Every accepted operation does to the items what the sequence operation does,
\* and the payload survives it (Append and Truncate preserve PayloadCID).
ImplementsArcs == Abstract!Spec

\* An operation is refused for the items, the targets it names and the length it
\* asks for, and never for the shape of the tree, the largest count included
\* (spans as wide as the integers in child).
AcceptsExactly ==
    /\ \A targets \in Appends(root[0].count) : Appended(targets).ok <=> Abstract!Appendable(targets)
    /\ \A count \in 0..MaxUint : Truncated(count).ok <=> count <= root[0].count
    /\ \A changes \in Replacements : Replaced(changes).ok <=> Abstract!Replaceable(changes)
    /\ \A p \in Payloads : PayloadSet(p).ok

Results ==
    {Appended(targets) : targets \in Appends(root[0].count)} \cup {Truncated(count) : count \in 0..MaxUint}
        \cup {Replaced(changes) : changes \in Replacements} \cup {PayloadSet(p) : p \in Payloads}

\* Each affected node is built once: an operation leaves no intermediate root
\* behind and writes nothing the new Root does not reach (AppendBatch).  It reads
\* the base and what it has seen below a node that it read, and each written node
\* follows its children, which were written before it, or are the base or seen
\* likewise, so that a Workspace has them.
WritesInOrder ==
    \A result \in {r \in Results : r.ok} :
        LET known == {root} \cup UNION {ChildNodes(n) : n \in result.reads}
        IN  /\ result.reads \subseteq known
            /\ \A i \in DOMAIN result.puts :
                   /\ result.puts[i] \in ListNodes(result.node)
                   /\ ChildNodes(result.puts[i]) \subseteq
                          known \cup {result.puts[j] : j \in 1..(i - 1)}

-----------------------------------------------------------------------------
End(window) == IF window[2] = <<>> THEN {} ELSE {window[2][1]}
Ranged(window) == ProveRange(ListNodes(root), root, window[1], End(window))
Asked(window) == SubSeq(ListItems(root), window[1] + 1, Stop(root[0], End(window)))

\* Range proofs of other windows, with segments left out, added, exchanged or
\* repeated, and those of a List that is one item shorter or has another payload.
Offered(window) ==
    LET honest == Ranged(window)
        segments == honest.segments
        others == {honest.meta} \cup {Meta(n, root[0].payload) : n \in {root[0].count - 1, 0} \ {-1}}
    IN  IF ~honest.ok THEN {}
        ELSE {honest} \cup {[honest EXCEPT !.meta = m] : m \in others}
            \cup {[honest EXCEPT !.segments = s] :
                     s \in {Reverse(segments), segments \o segments, segments \o <<honest.evidence>>}
                           \cup IF segments = <<>> THEN {} ELSE {Tail(segments), Front(segments)}}

OtherRoots == {Truncated(root[0].count - 1).node : x \in {y \in {1} : root[0].count > 0}}
                  \cup {PayloadSet(p).node : p \in Payloads}

\* A range proof verifies for the one window, of the one Root, whose bindings it
\* holds, each in its place: nodes that neighbouring windows share, the heights of
\* the tree, an end left to Count and the largest count make no difference, and a
\* window that reaches beyond the count has no proof (ProveRange, VerifyRange).
RangesDecide ==
    \A window \in Windows :
        LET within == Bounded(root[0], window[1], End(window)) IN
        /\ Ranged(window).ok <=> within
        /\ within => VerifyRange(root, window[1], End(window), Ranged(window))
        /\ \A other \in Windows : \A offer \in Offered(other) :
               VerifyRange(root, window[1], End(window), offer) =>
                   /\ within /\ offer.meta = root[0]
                   /\ [i \in DOMAIN offer.segments |-> offer.segments[i].target] = Asked(window)
        /\ \A tree \in OtherRoots \ {root} :
               within => ~VerifyRange(tree, window[1], End(window), Ranged(window))

Substitutes ==
    {Empty, Item(CHOOSE t \in Targets : TRUE), root[0]} \cup {ChildCell(node) : node \in ListNodes(root)}

\* A node with one of its cells replaced, and a node with such a node below it.
WithCell(node) == UNION {{[node EXCEPT ![slot] = cell] : cell \in Substitutes} : slot \in Slot}

WithChild(below, node) ==
    UNION {{[node EXCEPT ![slot] = ChildCell(child)] : child \in below[node[slot].node]} :
              slot \in {s \in Slot : node[s].kind = "child"}}

\* The trees that differ from the present one in a single cell.
OneCellOff ==
    LET off[height \in 0..Width] ==
            [node \in ListNodes(root) |->
                WithCell(node) \cup IF height = 0 THEN {} ELSE WithChild(off[height - 1], node)]
    IN  off[RootPosition(root[0].count).height][root]

\* A Snapshot accepts the Roots that a Commit of the targets it finds has and no
\* other: a hole, a cell of another kind, padding that is not empty, a subtree of
\* another length and a count that the nodes do not have refuse the whole Root, and
\* so does a count beyond the bound, before any node is expanded (checkPosition).
SnapshotsFaithful ==
    /\ \A tree \in OneCellOff \cup {[root EXCEPT ![0].count = n] : n \in 0..MaxUint} :
           LET walk == Snapshot(ListNodes(tree), tree, MaxUint) IN
           walk.ok <=> /\ tree[0].kind = "meta"
                       /\ Len(ListItems(tree)) <= MaxUint
                       /\ tree = BuildList(ListItems(tree), tree[0].payload)
    /\ \A bound \in {root[0].count, root[0].count - 1} :
           Snapshot(ListNodes(root), root, bound)
               = IF bound < root[0].count THEN [ok |-> FALSE, items |-> <<>>]
                 ELSE [ok |-> TRUE, items |-> ListItems(root)]
=============================================================================
