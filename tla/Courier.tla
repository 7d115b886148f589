------------------------------ MODULE Courier ------------------------------
(***************************************************************************)
(* What the DTN promises to those who send on it, whatever way the copies  *)
(* of a parcel take.  A parcel is delivered only while the couriers carry  *)
(* it and a second time only if its receiver forgot what it got, which it  *)
(* does as it restarts or once there were too many parcels to remember.    *)
(* They give up a parcel that was neither delivered nor lost only by       *)
(* losing it.                                                              *)
(***************************************************************************)
EXTENDS Integers

CONSTANTS
  Node, Mortal, Parcel, Dst,
  Crowded(_)  \* Crowded(S): are the parcels of S too many to remember?

VARIABLES
  posted,   \* parcels ever posted
  carried,  \* parcels the couriers carry
  given,    \* given[b]: deliveries of b since its receiver last forgot
  done,     \* parcels ever delivered
  lost      \* parcels a copy of which was lost

CourierInit ==
  /\ posted = {} /\ carried = {} /\ done = {} /\ lost = {}
  /\ given = [b \in Parcel |-> 0]

\* The deliveries that count if n forgets.
Forgotten(n) == [b \in Parcel |-> IF Dst[b] = n THEN 0 ELSE given[b]]

\* What counts after a step in which some receiver may find its memory full.
Recalled ==
  {given} \cup {Forgotten(n) : n \in {p \in Node : Crowded(posted')}}

\* Posting, first or again; the couriers may refuse it.
Post(b) ==
  /\ posted' = posted \cup {b}
  /\ \/ carried' = carried \cup {b} /\ UNCHANGED lost
     \/ lost' = lost \cup {b} /\ UNCHANGED carried
  /\ given' \in Recalled
  /\ UNCHANGED done

\* There may be further copies of the parcel on their way.
Deliver(b) ==
  /\ b \in carried /\ given[b] = 0
  /\ UNCHANGED <<posted, lost>>
  /\ \E count \in Recalled : given' = [count EXCEPT ![b] = 1]
  /\ done' = done \cup {b}
  /\ carried' \in {carried, carried \ {b}}

\* The last copy of a parcel is a duplicate.
Discard(b) ==
  /\ b \in carried \cap (done \cup lost)
  /\ carried' = carried \ {b}
  /\ UNCHANGED <<posted, given, done, lost>>

\* Copies of some parcels are lost, of others not all.
Losing ==
  /\ lost \subseteq lost' /\ lost' \ lost \subseteq carried
  /\ carried' \subseteq carried /\ carried \ carried' \subseteq lost'
  /\ UNCHANGED <<posted, done>>

\* The couriers move parcels among themselves, of which some may be lost.
Lose == Losing /\ given' \in Recalled

\* Receiver n stops, which cuts its links, and starts again.
Restart(n) == n \in Mortal /\ Losing /\ given' = Forgotten(n)

CourierNext ==
  \/ \E b \in Parcel : Post(b) \/ Deliver(b) \/ Discard(b)
  \/ Lose
  \/ \E n \in Node : Restart(n)

CourierSpec == CourierInit /\ [][CourierNext]_<<posted, carried, given, done, lost>>
=============================================================================
