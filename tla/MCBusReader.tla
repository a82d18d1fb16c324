---------------------------- MODULE MCBusReader -----------------------------
(* Instances of BusReader for TLC. *)
EXTENDS BusReader, TLC

CONSTANTS f1, f2, r1, r2

TwoFiles == {f1, f2}
TwoReaders == {r1, r2}

\* Files and processors are interchangeable.
Symmetry == Permutations({f1, f2}) \cup Permutations({r1, r2})
=============================================================================
