--------------------------- MODULE IonReplicasMC ---------------------------
(* Instances of IonReplicas for TLC.                                       *)
EXTENDS IonEconomy

CONSTANT MaxNet   \* bound on the envelopes in flight

NetBound == Cardinality(net) <= MaxNet

N2 == 1 .. 2
OnlyOne == {1}
OnlyTwo == {2}
None == {}
\* Who holds the public plot of an ion.
PlotAtTwo == [i \in Ion |-> {2}]
=============================================================================
