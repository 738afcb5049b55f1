------------------------------- MODULE MCBloom -------------------------------
(***************************************************************************)
(* Bloom with words of two bits.                                           *)
(***************************************************************************)
EXTENDS Bloom, TLC

CONSTANTS t1, t2, t3, c1, c2

ThreeThreads == {t1, t2, t3}
TwoCodes == {c1, c2}

\* The codes share a word and two bits; the second one is found when only the
\* first one has been added.
Overlap == (c1 :> (0 :> 0 @@ 1 :> 1 @@ 2 :> 2)) @@ (c2 :> (0 :> 1 @@ 1 :> 2 @@ 2 :> 2))
=============================================================================
