---------------------------- MODULE MCSnowflake -----------------------------
(***************************************************************************)
(* Snowflake and ShortCodes with two processes and two sequence numbers a  *)
(* millisecond.                                                            *)
(***************************************************************************)
EXTENDS ShortCodes

CONSTANTS p1, p2

TwoProcs == {p1, p2}

\* Every process calls NewNode(1) (url_service.go:37).
SameNode == [p \in TwoProcs |-> 1]

\* The first process is on a host whose clock is corrected; the second one is
\* restarted.
FirstSetBack == [p \in TwoProcs |-> IF p = p1 THEN 1 ELSE 0]
SecondRestarted == {p2}
=============================================================================
