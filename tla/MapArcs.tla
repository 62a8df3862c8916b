------------------------------ MODULE MapArcs ------------------------------
(***************************************************************************)
(* What a Map promises, whatever tree stores it: a set of arcs from labels *)
(* to targets that a batch of changes replaces as a whole, and only if it  *)
(* names the present target of every label it changes.                     *)
(***************************************************************************)
EXTENDS Naturals

CONSTANTS
    CoordinateOf,  \* the coordinate of each label
    Undef,         \* an absent target
    Batches        \* the batches of changes an application may send

VARIABLE arcs      \* a function from bound labels to targets

TargetOf(label) == IF label \in DOMAIN arcs THEN arcs[label] ELSE Undef

\* No two changes of a batch concern one coordinate, every change changes or
\* confirms a target it knows, and none binds a coordinate a second time.
Acceptable(batch) ==
    /\ \A c, d \in batch : CoordinateOf[c.label] = CoordinateOf[d.label] => c = d
    /\ \A c \in batch :
           /\ c.before # Undef \/ c.after # Undef
           /\ c.before = TargetOf(c.label)
           /\ \A l \in DOMAIN arcs : CoordinateOf[l] = CoordinateOf[c.label] => l = c.label

Result(batch) ==
    LET removed == {c.label : c \in {x \in batch : x.after = Undef}}
        set == {c.label : c \in batch} \ removed
    IN  [l \in (DOMAIN arcs \cup set) \ removed |->
            IF l \in set THEN (CHOOSE c \in batch : c.label = l).after ELSE arcs[l]]

Init == \A l, m \in DOMAIN arcs : CoordinateOf[l] = CoordinateOf[m] => l = m

Apply(batch) == Acceptable(batch) /\ arcs' = Result(batch)

Next == \E batch \in Batches : Apply(batch)

Spec == Init /\ [][Next]_arcs
=============================================================================
