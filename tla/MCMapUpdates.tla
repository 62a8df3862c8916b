---------------------------- MODULE MCMapUpdates ----------------------------
(* Binary tries of depth three over five labels, two of which derive to one *)
(* coordinate, for TLC.                                                     *)
EXTENDS MapUpdates

Coordinates ==
    [l \in Labels |-> CASE l = "a" -> <<0, 0, 0>>
                        [] l = "b" -> <<0, 0, 1>>
                        [] l = "c" -> <<0, 1, 1>>
                        [] l = "d" -> <<1, 0, 0>>
                        [] OTHER -> <<0, 0, 0>>]

Change(l, x, y) == [label |-> l, before |-> x, after |-> y]
Changes == {Change(l, x, y) : l \in Labels, x \in Targets \cup {Undef}, y \in Targets \cup {Undef}}

\* All batches of at most two changes.
SmallBatches == {{x, y} : x \in Changes, y \in Changes} \cup {{}}

\* The Map of all targets t and the empty one.
FirstMaps == {{}, {Binding(l, "t") : l \in {"a", "b", "c", "d"}}}
=============================================================================
