----------------------------- MODULE IonEconomy -----------------------------
(* The hosting economy that IonReplicas carries: the reward of a migration *)
(* (IonAccept) and the tips of a window with traffic (plasma_scale_tick),  *)
(* paid in vouchers (issue_hosting_voucher, Ledger::redeem_voucher).       *)
EXTENDS IonReplicas

\* Vouchers on their way that the payee has not registered yet.
Owed == {m \in net : m.type = "VoucherRedeem" /\ m \notin redeemed[m.to]}

Promise == INSTANCE Payments WITH funds <- atp, owed <- Owed, Initial <- InitialATP

\* Every payment and every redemption is a step of the abstract payments:
\* a voucher is credited once, out of what its payer gave up, and lost,
\* delayed or reordered vouchers create no ATP ("ledger final fecha sem
\* dupla-contagem", docs/status.md).
NothingMinted == Promise!PaySpec

\* Redeeming registers the voucher on disk together with its credit, and no
\* payment leaves the payer's balance on disk below its balance in memory:
\* what a crash can give back is only what was paid since the last persist.
DiskNeverBehind == \A n \in Node : up[n] => saved[n] >= atp[n]
=============================================================================
