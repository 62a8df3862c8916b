--------------------------- MODULE MCWriterDelta ---------------------------
(* Maps of four labels, two of which collide, and Lists of at most four      *)
(* items over binary nodes, for TLC.                                         *)
EXTENDS Candidates

CONSTANTS Cids, MaxLength

Coordinates == [l \in Labels |-> CASE l = "b" -> <<0, 0, 1>>
                                   [] l = "c" -> <<0, 1, 1>>
                                   [] OTHER -> <<0, 0, 0>>]

State(layout, f, p) ==
    [layout |-> layout, bindings |-> {Binding(l, f[l]) : l \in DOMAIN f}, payload |-> p]

\* Lists with a hole and Maps with a collision or a payload are among them.
SomeStates ==
    UNION {{State("map", f, "undef") : f \in [S -> Cids]} : S \in SUBSET Labels}
        \cup UNION {{State("list", f, p) : f \in [0..(n - 1) -> Cids], p \in {"undef", "p"}} :
                       n \in 0..MaxLength}
        \cup {State("list", [i \in {1} |-> "t"], "undef"), State("map", <<>>, "p")}

TargetWeight(entry) == IF entry.target = "t" THEN 2 ELSE 7

Change(l, x, y) == [label |-> l, before |-> x, after |-> y]
Changes(labels) ==
    {Change(l, x, y) : l \in labels, x \in Cids \cup {"undef"}, y \in Cids \cup {"undef"}}
Pairs(S) == {{x, y} : x, y \in S} \cup {{}}

\* At most two changes, of the indices around the end of a List, with a count
\* at most two away from the present one.
SomeDeltas(w) ==
    LET n == Count(w.bindings)
        near == {k \in 0..MaxLength : k + 2 >= n /\ k <= n + 2}
        changes == IF IsList(w) THEN Changes({0} \cup {k \in near : k < MaxLength})
                   ELSE Changes(Labels)
        plausible == {c \in changes : Known(w, c)}
    IN  {[changes |-> s, count |-> k, payload |-> p] :
            s \in Pairs(plausible) \cup {{c} : c \in changes},
            k \in {Keep} \cup (IF IsList(w) THEN near \cup {0} ELSE {0}),
            p \in {Keep, "undef", "p"}}
=============================================================================
