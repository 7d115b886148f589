---------------------------- MODULE WatchtowerMC ----------------------------
(* Instances of Watchtower for TLC.                                        *)
EXTENDS Watchtower
=============================================================================
