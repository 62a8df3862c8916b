---------------------------- MODULE MCTreeEdits ----------------------------
(* Two editors, Maps of three labels over binary nodes and Lists of three   *)
(* targets for TLC.                                                         *)
EXTENDS TreeEdits, TLC

Coordinates == [l \in Labels |-> CASE l = "a" -> <<0, 0, 0>>
                                   [] l = "b" -> <<0, 0, 1>>
                                   [] OTHER -> <<0, 1, 1>>]

Change(l, x, y) == [label |-> l, before |-> x, after |-> y]
SomeMaps == {{Binding("a", "t"), Binding("b", "t")}}
SomeBatches ==
    {{Change("c", "undef", "t")}, {Change("a", "t", "undef")}, {Change("b", "t", "u")}}
SomeLists == {<<"t", "u">>}
SomeAppends == {<<"t">>}
SomeExchanges == {{[index |-> 1, before |-> "u", after |-> "t"]}}
EditorSymmetry == Permutations(Editors)
=============================================================================
