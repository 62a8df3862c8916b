------------------------------ MODULE MCSession ------------------------------
(* Writers of three charges, the last one saturated, for TLC.               *)
EXTENDS Session, TLC

CONSTANTS small, large, saturated

Charges == [w \in Writers |-> CASE w = small -> 1 [] w = large -> 3 [] OTHER -> MaxUint]
ClientSymmetry == Permutations(Clients)
=============================================================================
