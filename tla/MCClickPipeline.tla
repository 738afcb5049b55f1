--------------------------- MODULE MCClickPipeline ---------------------------
(***************************************************************************)
(* ClickPipeline on small instances.                                       *)
(***************************************************************************)
EXTENDS ClickPipeline

CONSTANTS n1, n2, k1, k2

OneNode == {n1}
TwoNodes == {n1, n2}
TwoClicks == {k1, k2}

\* Clicks are interchangeable, and so are nodes: the first redirect is k1's, on
\* n1, with no loss of behaviours but for the names.  (A symmetry set would do
\* the same, but not under liveness properties.)
Named ==
    /\ home[k1] \in {n1, NoNode}
    /\ home[k2] # NoNode => home[k1] # NoNode

NamedSpec == Init /\ [][Next /\ Named']_vars /\ Fairness
=============================================================================
