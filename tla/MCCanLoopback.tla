--------------------------- MODULE MCCanLoopback ----------------------------
(* An instance of CanLoopback for TLC: each bit of an address on its own, and  *)
(* what is next to the borders between its fields.                             *)
EXTENDS CanLoopback, TLC

MCAddresses == {2^k : k \in 0..28} \cup {2^k - 1 : k \in {0, 2, 8, 11, 16, 18, 29}} \cup {2^29 - 2^16}

\* Legal lengths, too long ones, and every combination of the upper four bits.
MCDlcs == {0, 1, 7, 8, 9, 15} \cup {16 * k + 5 : k \in 1..15}

MCSids == {<<h, l>> : h \in {0, 1, 128, 255}, l \in {0, 3, 4, 8, 16, 27, 32, 128, 251, 255}}
MCEids == {<<0, 0>>, <<0, 1>>, <<128, 0>>, <<255, 255>>}
MCWireDlcs == MCDlcs

CONSTANTS r1, r2
MCReaders == {r1, r2}
MCRequested == {33333, 500000}

\* One frame lost, or 256.
MCLost == {<<1, 0>>, <<0, 1>>}

\* Processors are interchangeable.
Symmetry == Permutations(MCReaders)
=============================================================================
