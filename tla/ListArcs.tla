------------------------------ MODULE ListArcs ------------------------------
(***************************************************************************)
(* What a List promises, whatever tree stores it: a sequence of targets    *)
(* beside one payload.  A batch appends at the end, a truncation keeps a   *)
(* prefix, and targets are replaced in place if the application names the  *)
(* present ones.  The payload survives every change of the items.          *)
(***************************************************************************)
EXTENDS Naturals, Sequences

CONSTANTS
    MaxUint,       \* the largest count
    Undef,         \* an absent target or payload
    Appends(_),    \* the batches of targets an application may append at a count
    Replacements,  \* the sets of replacements it may send
    Payloads       \* the payloads it may set, Undef included

VARIABLES items, payload

Appendable(targets) ==
    /\ targets # <<>> /\ Len(items) + Len(targets) <= MaxUint
    /\ \A i \in DOMAIN targets : targets[i] # Undef

Replaceable(changes) ==
    /\ \A c, d \in changes : c.index = d.index => c = d
    /\ \A c \in changes :
           /\ c.after # Undef /\ c.index < Len(items)
           /\ items[c.index + 1] = c.before

AppendBatch(targets) ==
    /\ Appendable(targets)
    /\ items' = items \o targets
    /\ UNCHANGED payload

Truncate(count) ==
    /\ count <= Len(items)
    /\ items' = SubSeq(items, 1, count)
    /\ UNCHANGED payload

Replace(changes) ==
    /\ Replaceable(changes)
    /\ items' = [i \in DOMAIN items |->
                    IF \E c \in changes : c.index + 1 = i
                    THEN (CHOOSE c \in changes : c.index + 1 = i).after ELSE items[i]]
    /\ UNCHANGED payload

SetPayload(p) == payload' = p /\ UNCHANGED items

Init == Len(items) <= MaxUint

Next ==
    \/ \E targets \in Appends(Len(items)) : AppendBatch(targets)
    \/ \E count \in 0..MaxUint : Truncate(count)
    \/ \E changes \in Replacements : Replace(changes)
    \/ \E p \in Payloads : SetPayload(p)

Spec == Init /\ [][Next]_<<items, payload>>
=============================================================================
