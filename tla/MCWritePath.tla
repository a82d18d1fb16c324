---------------------------- MODULE MCWritePath -----------------------------
(* Instances of WritePath for TLC. *)
EXTENDS WritePath, TLC

CONSTANTS c1, c2, d1, d2, h1, h2

TwoCallers == {c1, c2}
OneDpc == {c1, c2, d1}
TwoDpcs == {c1, c2, d1, d2}
OneHeader == {h1}
TwoHeaders == {h1, h2}

\* A new header holds any statuses.
AnyStatuses == [Positions -> BOOLEAN]

\* Callers, processors and headers are interchangeable.
Symmetry == Permutations({c1, c2}) \cup Permutations({d1, d2}) \cup Permutations({h1, h2})
=============================================================================
