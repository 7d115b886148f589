----------------------------- MODULE TheFieldMC -----------------------------
(* Instances of TheField for TLC.                                          *)
EXTENDS TheField

CONSTANTS n1, n2, p, q

\* p needs two nodes; q is proposed with a quorum of 0.
TwoAndNone == [i \in Pipeline |-> IF i = p THEN 2 ELSE 0]
=============================================================================
