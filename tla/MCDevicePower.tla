--------------------------- MODULE MCDevicePower ----------------------------
(* Instances of DevicePower for TLC. *)
EXTENDS DevicePower, TLC

CONSTANTS c1, c2, d1, h1, h2

OneUser == {Power, c1}
OneDpc == {Power, c1, d1}
OneHeader == {h1}

TwoUsers == {Power, c1, c2}
TwoUsersDpc == {Power, c1, c2, d1}
TwoHeaders == {h1, h2}

\* A new header holds any statuses, or good ones.
AnyStatuses == [Positions -> BOOLEAN]
NoGarbage == [Positions -> {TRUE}]
=============================================================================
