------------------------------ MODULE IsotopeMC ------------------------------
(* Instances of Isotope for TLC.                                           *)
EXTENDS Isotope

CONSTANTS n1, n2, n3

\* Of three nodes, one is of the key's shard.
OneOwner == [k \in Key |-> {n1}]
=============================================================================
