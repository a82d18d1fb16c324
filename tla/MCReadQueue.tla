---------------------------- MODULE MCReadQueue -----------------------------
(* Instances of ReadQueue for TLC. *)
EXTENDS ReadQueue, TLC

CONSTANTS r1, r2, r3

TwoReads == {r1, r2}
ThreeReads == {r1, r2, r3}
Symmetry == Permutations(ThreeReads)
=============================================================================
