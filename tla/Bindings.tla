------------------------------ MODULE Bindings ------------------------------
(***************************************************************************)
(* The retained bindings of a Writer in sdk/authentication: an immutable   *)
(* compressed binary trie over the keys of coordinates.  A branch caches   *)
(* the number of its bindings, their charge and the range of their keys.   *)
(* Nodes are values: that an update shares what it does not change cannot  *)
(* be seen.                                                                *)
(***************************************************************************)
EXTENDS Integers, Sequences

CONSTANTS
    KeyBits,     \* the bits of a key (264)
    Weight(_)    \* what a leaf is charged for its label and target

BindingKeys == 0..(2^KeyBits - 1)

\* Bits count from the highest, so that bit order is the order of the keys.
KeyBit(key, i) == (key \div 2^(KeyBits - 1 - i)) % 2

NoBindings == [kind |-> "none"]

BindingLeaf(key, entry) ==
    [kind |-> "leaf", key |-> key, maximum |-> key, entry |-> entry,
     size |-> 1, charge |-> 256 + Weight(entry)]

BindingBranch(bit, left, right) ==
    [kind |-> "branch", bit |-> bit, left |-> left, right |-> right,
     key |-> left.key, maximum |-> right.maximum,
     size |-> left.size + right.size, charge |-> 256 + left.charge + right.charge]

\* The leaf a key is led to by the bits that branches test.
RECURSIVE Nearest(_, _)
Nearest(n, key) ==
    IF n.kind = "leaf" THEN n
    ELSE Nearest(IF KeyBit(key, n.bit) = 0 THEN n.left ELSE n.right, key)

BindingGet(n, key) ==
    IF n = NoBindings \/ Nearest(n, key).key # key THEN NoBindings ELSE Nearest(n, key)

\* The first bit in which two keys differ, KeyBits if none does.
CriticalBit(x, y) ==
    CHOOSE i \in 0..KeyBits :
        /\ i = KeyBits \/ KeyBit(x, i) # KeyBit(y, i)
        /\ \A j \in 0..(i - 1) : KeyBit(x, j) = KeyBit(y, j)

\* Faulty: a leaf is put in at the first branch that tests a later bit but one.
PlacedLate(n, critical) == n.kind = "leaf" \/ n.bit > critical + 1

\* Where the branch for the critical bit belongs: above later bits.
Placed(n, critical) == n.kind = "leaf" \/ n.bit >= critical

RECURSIVE Insert(_, _, _)
Insert(n, leaf, critical) ==
    CASE Placed(n, critical) /\ critical = KeyBits -> leaf
      [] Placed(n, critical) /\ critical < KeyBits ->
             IF KeyBit(leaf.key, critical) = 0 THEN BindingBranch(critical, leaf, n)
                                               ELSE BindingBranch(critical, n, leaf)
      [] ~Placed(n, critical) ->
             IF KeyBit(leaf.key, n.bit) = 0 THEN BindingBranch(n.bit, Insert(n.left, leaf, critical), n.right)
                                            ELSE BindingBranch(n.bit, n.left, Insert(n.right, leaf, critical))

BindingSet(n, key, entry) ==
    IF n = NoBindings THEN BindingLeaf(key, entry)
    ELSE Insert(n, BindingLeaf(key, entry), CriticalBit(key, Nearest(n, key).key))

RECURSIVE BindingDelete(_, _)
BindingDelete(n, key) ==
    LET left == BindingDelete(n.left, key)
        right == BindingDelete(n.right, key)
    IN  CASE n.kind = "none" -> NoBindings
          [] n.kind = "leaf" -> IF n.key = key THEN NoBindings ELSE n
          [] n.kind = "branch" /\ KeyBit(key, n.bit) = 0 ->
                 IF left = NoBindings THEN n.right ELSE BindingBranch(n.bit, left, n.right)
          [] n.kind = "branch" /\ KeyBit(key, n.bit) = 1 ->
                 IF right = NoBindings THEN n.left ELSE BindingBranch(n.bit, n.left, right)

\* The bindings below a limit: whole branches by their range of keys.
RECURSIVE BindingBefore(_, _)
BindingBefore(n, limit) ==
    IF n = NoBindings \/ n.key >= limit THEN NoBindings
    ELSE IF n.maximum < limit THEN n
    ELSE LET left == BindingBefore(n.left, limit)
             right == BindingBefore(n.right, limit)
         IN  IF left = NoBindings THEN right
             ELSE IF right = NoBindings THEN left
             ELSE BindingBranch(n.bit, left, right)

RECURSIVE BindingWalk(_)
BindingWalk(n) ==
    CASE n.kind = "none"   -> <<>>
      [] n.kind = "leaf"   -> <<n>>
      [] n.kind = "branch" -> BindingWalk(n.left) \o BindingWalk(n.right)
=============================================================================
