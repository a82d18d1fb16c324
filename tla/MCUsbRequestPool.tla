-------------------------- MODULE MCUsbRequestPool --------------------------
(* Instance of UsbRequestPool for TLC. *)
EXTENDS UsbRequestPool, TLC

CONSTANTS c1, c2, d1

MCCallers == {c1, c2}
MCThreads == {c1, c2, d1}
Symmetry == Permutations(MCCallers)
=============================================================================
