------------------------------ MODULE MCEngine ------------------------------
(***************************************************************************)
(* Engine on a small instance.                                             *)
(***************************************************************************)
EXTENDS Engine

CONSTANTS r1, r2, c1, c2, l1, u1, b1, b2

TwoSlots == {r1, r2}
OneCode == {c1}
TwoCodes == {c1, c2}
OneURL == {l1}
OneUser == {u1}
TwoBits == {b1, b2}

\* The second code is a false positive once the first one has been added.
Overlapping == [c \in TwoCodes |-> IF c = c1 THEN {b1, b2} ELSE {b1}]

\* A link that runs out before its cache entry may, and one that does not.
ShortOrNever == {1, Never}
=============================================================================
