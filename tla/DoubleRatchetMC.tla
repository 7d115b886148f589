-------------------------- MODULE DoubleRatchetMC --------------------------
(* Instances of DoubleRatchet for TLC.                                     *)
EXTENDS DoubleRatchet, TLC

\* The peers do the same.
Alike == Permutations(Peer)
=============================================================================
