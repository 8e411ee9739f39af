--------------------------- MODULE MCHeldTrade ---------------------------
(* Small instances of HeldTrade for TLC. *)
EXTENDS HeldTrade, TLC

CONSTANTS o1, o2, o3

OrderSymmetry == Permutations(Orders)
=============================================================================
