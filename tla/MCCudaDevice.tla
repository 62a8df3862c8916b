---------------------------- MODULE MCCudaDevice ----------------------------
(***************************************************************************)
(* Eight values, the field of 17 elements and three cells.  The batches    *)
(* have one, two and five jobs, for two shards of three: a shard without a *)
(* job, shards with one, a shard with two and a shard with three.  Scalars *)
(* have three digits of two bits, the last chunk of points is shorter than *)
(* the others, and the 27 buckets are summed up in three reductions.       *)
(***************************************************************************)
EXTENDS Openings

Digests == [a |-> 5, b |-> 14, c |-> 9]

Job(values, index) == [values |-> values, index |-> index]

Given ==
    LET full == Job(<<"b", "a", "c", "none", "a", "a", "c", "b">>, 2)
        short == Job(<<"c", "b">>, 0)
        last == Job(<<"none", "a", "b", "c", "none", "b", "b", "c">>, 7)
        empty == Job(<<"none", "none", "none">>, 1)
        middle == Job(<<"a", "a", "a", "b", "b">>, 4)
    IN  {<<full>>, <<short, last>>, <<last, full, short, middle, empty>>}
=============================================================================
