----------------------------- MODULE Payments ------------------------------
(***************************************************************************)
(* What the hosting economy promises, whatever protocol carries it: ATP    *)
(* moves from a payer to a payee through vouchers, each credited at most   *)
(* once, and no step creates any.  A voucher may be lost and a payer may   *)
(* burn ATP (a deploy fee, a payment that is the copy of an earlier one).  *)
(***************************************************************************)
EXTENDS Integers, Functions

CONSTANTS Node, Initial

VARIABLES
  funds,   \* funds[n]: what node n can spend
  owed     \* vouchers issued and not yet credited: records from, to, amount

Amount(V) == SumFunctionOnSet([v \in V |-> v.amount], V)

PayInit == funds = [n \in Node |-> Initial] /\ owed = {}

\* Node n gives up `cost`, which covers the vouchers it issues.
Issue(n) ==
  LET issued == owed' \ owed IN
  /\ owed \subseteq owed'
  /\ \A v \in issued : v.from = n
  /\ \E cost \in Amount(issued) .. funds[n] :
       funds' = [funds EXCEPT ![n] = @ - cost]

\* A payee credits one voucher.
Credit(v) ==
  /\ funds' = [funds EXCEPT ![v.to] = @ + v.amount]
  /\ owed' = owed \ {v}

Vanish(v) == owed' = owed \ {v} /\ UNCHANGED funds

PayNext == \/ \E n \in Node : Issue(n)
           \/ \E v \in owed : Credit(v) \/ Vanish(v)

PaySpec == PayInit /\ [][PayNext]_<<funds, owed>>
=============================================================================
