--------------------------- MODULE SovDepositsMC ---------------------------
(* Instances of SovDeposits for TLC.                                       *)
EXTENDS SovDeposits, TLC

\* Invoices are interchangeable, and so are deposits.
Alike == Permutations(Invoice) \cup Permutations(Deposit)
=============================================================================
