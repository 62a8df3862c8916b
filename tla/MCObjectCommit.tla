--------------------------- MODULE MCObjectCommit ---------------------------
(* Small graphs of objects for TLC.                                         *)
EXTENDS ObjectQueries

CONSTANTS m1, m2, l1, l2, b1, b2, x1, c1

\* Functions from at most n elements of D to R.
UpTo(n, D, R) == UNION {[S -> R] : S \in {T \in SUBSET D : Cardinality(T) <= n}}
Items(n, R) == UNION {[0..(k - 1) -> R] : k \in 0..n}

Own(S) == [o \in S |-> <<"history", o>>]
Marks(H) == [h \in {H[o] : o \in DOMAIN H} |-> <<"id", h[2]>>]

LeafBlock == [o \in Leaves |-> c1]
TwoReserved == [c \in {"A", "B"} |-> IF c = "A" THEN 3 ELSE 2]

AllA == {[o \in {m1, m2} |-> "A"]}

\* Contents, and the Root that an empty Map has.
EmptyRoot == [layout |-> "map", config |-> "A", arcs |-> {}, payload |-> Undef]
BlockAndRoot == {c1, EmptyRoot}

\* Two maps, a list and a leaf referring to each other, cycles included; an edit
\* adds the references left out here.  The second list shares the Base of the
\* first, and the second leaf is a copy of the first.
PlainHistory == [Own({m1, m2, l1, l2, b1, b2}) EXCEPT ![l2] = <<"history", l1>>]
PlainId == [Marks(PlainHistory) EXCEPT ![<<"history", b2>>] = <<"id", b1>>]
PlainGraphs ==
    {[o \in {m1, m2, l1, l2} |-> IF o = m1 THEN f ELSE IF o = m2 THEN g
                                 ELSE IF o = l1 THEN s ELSE <<>>] :
        f \in UpTo(2, {1, 2}, {m2, l1}), g \in UpTo(1, {2}, {m1, l1}),
        s \in Items(1, {m1, b1})}
NoDelegate == <<>>

\* Two maps, a list, a leaf and a custom object that delegates to the second map.
CustomHistory == Own({m1, m2, l1, b1})
CustomId == Marks(CustomHistory)
CustomGraphs ==
    {[o \in {m1, m2, l1} |-> IF o = m1 THEN f ELSE IF o = m2 THEN g
                             ELSE [i \in 0..1 |-> IF i = 0 THEN b1 ELSE m2]] :
        f \in UpTo(2, {1, 2}, {m2, l1, b1, x1}), g \in UpTo(1, {1}, {m1, b1, x1})}
CustomDelegate == [o \in {x1} |-> m2]

Request(steps, operation, label, start, end) ==
    [steps |-> steps, operation |-> operation, label |-> label, start |-> start, end |-> end]

\* Paths through present and absent labels, maps, the list and contents.
Paths == {<<>>, <<1>>, <<2>>, <<1, 1>>, <<2, 1>>, <<2, 1, 1>>}
SomeRequests ==
    UNION {{Request(s, "resolve", <<>>, <<>>, <<>>), Request(s, "binding", <<1>>, <<>>, <<>>),
            Request(s, "range", <<>>, <<1>>, <<>>), Request(s, "range", <<>>, <<0>>, <<1>>)} :
              s \in Paths}
        \cup {Request(<<1>>, "resolve", <<1>>, <<>>, <<>>), Request(<<1>>, "range", <<>>, <<1>>, <<0>>)}
=============================================================================
