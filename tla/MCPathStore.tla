----------------------------- MODULE MCPathStore -----------------------------
(* Three Roots of two paths that keep, change, add and delete an arc, and    *)
(* two nodes of two slots, one of them with an empty cell, for TLC.          *)
EXTENDS PathStore, TLC

CONSTANTS r1, r2, r3, n1, n2, p, q, t, u, z

SomeContents == [r \in {r1, r2, r3} |->
    CASE r = r1 -> [x \in {p} |-> t]
      [] r = r2 -> [x \in {p, q} |-> IF x = p THEN u ELSE t]
      [] OTHER -> [x \in {q} |-> t]]
SomeVectors == [r \in {n1, n2} |-> IF r = n1 THEN <<t, u>> ELSE <<Undef, t>>]
LooseEntry == {[x \in {z} |-> t]}
OneOrder == {<<p, q>>}
\* Nothing distinguishes the owners.
Alike == Permutations(Owners)
=============================================================================
