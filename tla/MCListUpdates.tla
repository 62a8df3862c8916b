--------------------------- MODULE MCListUpdates ---------------------------
(* Lists for TLC that keep to one sequence of targets, each unlike its       *)
(* neighbours so that a misplaced one shows, but for the indices that        *)
(* replacements exchange.                                                    *)
EXTENDS ListUpdates

CONSTANTS BatchSizes, Exchanged

Usual(index) == CASE index % 3 = 0 -> "t" [] index % 3 = 1 -> "u" [] OTHER -> "v"
NoCoordinates == <<>>

\* The next targets of the sequence, and batches that must be refused.
Continue(count) ==
    {<<>>, <<"undef">>} \cup {[i \in 1..n |-> Usual(count + i - 1)] : n \in BatchSizes}

Exchange(i, x, y) == [index |-> i, before |-> x, after |-> y]
Exchanges == {Exchange(i, Usual(i), "other") : i \in Exchanged}
                \cup {Exchange(i, "other", Usual(i)) : i \in Exchanged}
PairsOfExchanges == {{x, y} : x, y \in Exchanges}

NoItems == {<<>>}

SomeWindows ==
    {<<0, <<>>>>, <<2, <<>>>>, <<0, <<0>>>>, <<3, <<3>>>>, <<0, <<3>>>>, <<2, <<5>>>>, <<3, <<6>>>>, <<7, <<15>>>>, <<4, <<2>>>>}
=============================================================================
