---------------------------- MODULE MCRateLimiter ----------------------------
(***************************************************************************)
(* RateLimiter on small instances.                                         *)
(***************************************************************************)
EXTENDS RateLimiter, TLC

CONSTANTS n1, r1, r2

OneNode == {n1}
TwoSlots == {r1, r2}

\* Clocks that agree.
Agreed == [n \in Nodes |-> 0]

Slots == Permutations(Requests)
=============================================================================
