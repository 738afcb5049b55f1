--------------------------- MODULE MCEngineClicks ---------------------------
(***************************************************************************)
(* EngineClicks with three clicks and batches of two.                      *)
(***************************************************************************)
EXTENDS EngineClicks

CONSTANTS k1, k2, k3

ThreeClicks == {k1, k2, k3}
=============================================================================
