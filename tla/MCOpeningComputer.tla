------------------------- MODULE MCOpeningComputer -------------------------
(* Small instances of OpeningComputer for TLC: the goroutines are model     *)
(* values; the callers, which nothing tells apart, are symmetric.           *)
EXTENDS OpeningComputer, TLC

CallerSymmetry == Permutations(Callers) \cup Permutations(Closers)
=============================================================================
