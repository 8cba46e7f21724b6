--------------------------- MODULE MCDeduplication ----------------------------
(* Three calls at a time: two that overlap, and one that comes after.       *)
EXTENDS Deduplication, TLC

MCSymmetry == Permutations(Callers)
=============================================================================
