------------------------- MODULE IonReplicas_proofs -------------------------
(* Theorems about IonReplicas, and about the ledger as IonEconomy states   *)
(* it, for every set of nodes and ions, every role assignment and every    *)
(* time-out, with their proofs.                                            *)
EXTENDS IonEconomy, SetSums_proofs, FiniteSetTheorems, TLAPS

-----------------------------------------------------------------------------
(* Type correctness, one lemma per action.                                 *)

LEMMA MinimumNat == \A a, b \in Nat : Minimum(a, b) \in Nat /\ Minimum(a, b) <= a
                                                      /\ Minimum(a, b) <= b
  BY DEF Minimum

\* A birth never costs more ATP than there is.
LEMMA BirthFeeBound ==
  ASSUME NEW recorded, NEW born \in SUBSET Ion, NEW balance \in Nat
  PROVE  balance - BirthFee(recorded, born, balance) \in Nat
<1>1. IsFiniteSet(born \ recorded)
  BY IonAssumption, FS_Subset DEF IonAssumption
<1>2. Cardinality(born \ recorded) \in Nat
  BY <1>1, FS_CardinalityType
<1> DEFINE fee == Minimum(Cardinality(born \ recorded), balance)
<1>3. fee \in Nat /\ fee <= balance
  BY <1>2, MinimumNat
<1> HIDE DEF fee
<1>4. balance - fee \in Nat
  BY <1>3
<1> QED BY <1>4 DEF BirthFee, fee

LEMMA TypeDeploy ==
  ASSUME TypeOK, NEW n \in Node, NEW i \in Ion, Deploy(n, i) PROVE TypeOK'
<1>1. atp[n] - BirthFee(records[n], {i}, atp[n]) \in Nat
  BY BirthFeeBound DEF TypeOK
<1> QED BY <1>1 DEF TypeOK, Deploy, service, peering, listing, scaling, book

LEMMA TypeAtrophy ==
  ASSUME TypeOK, NEW n \in Node, Atrophy(n) PROVE TypeOK'
<1>1. PICK born \in Started(Orphans(n, chambers[n], replicas[n])) : Atrophy(n)!2!(born)
  BY DEF Atrophy
<1>2. born \subseteq Ion
  BY RoleAssumption DEF RoleAssumption, Started, Orphans
<1>3. atp[n] - BirthFee(records[n], born, atp[n]) \in Nat
  BY <1>2, BirthFeeBound DEF TypeOK
<1>4. UNCHANGED <<up, peering, listing, scaling, pending, redeemed, stamp, seen, net>>
  BY DEF Atrophy
<1>5. chambers' \in [Node -> SUBSET Ion] /\ records' \in [Node -> SUBSET Ion]
  BY <1>1, <1>2 DEF TypeOK
<1>6. routes' \in [Node -> [Ion -> SUBSET Node]]
  <2>1. [i \in Ion |-> routes[n][i] \cup (IF i \in born THEN {n} ELSE {})]
          \in [Ion -> SUBSET Node]
    BY DEF TypeOK
  <2> QED BY <1>1, <2>1 DEF TypeOK
<1>7. atp' \in [Node -> Nat] /\ saved' \in [Node -> Nat]
  BY <1>1, <1>3 DEF TypeOK
<1> QED BY <1>4, <1>5, <1>6, <1>7 DEF TypeOK, peering, listing, scaling

LEMMA EnvelopeType ==
  ASSUME NEW t \in Unicast \cup Gossip, NEW i \in Ion, NEW n \in Node
  PROVE  /\ \A p \in Node : Envelope(t, i, n, p) \in Message
         /\ Broadcast(t, i, n) \subseteq Message
  BY DEF Envelope, Broadcast, Message

LEMMA PayToType ==
  ASSUME NEW i \in Ion, NEW n \in Node, NEW p \in Node, NEW a \in Nat, NEW c \in Nat
  PROVE  PayTo(i, n, p, a, c) \in Message
  BY DEF PayTo, Message, Voucher

LEMMA ReceivedType ==
  ASSUME TypeOK, NEW m \in net
  PROVE  /\ m.ion \in Ion /\ m.from \in Node /\ m.to \in Node
         /\ m.type \in Unicast \cup Gossip \cup {"VoucherRedeem"}
         /\ m.type = "VoucherRedeem" => m \in Voucher
  BY DEF TypeOK, Message, Voucher, Unicast, Gossip

LEMMA MarkSeenType ==
  ASSUME TypeOK, NEW m \in net, MarkSeen(m)
  PROVE  seen' \in [Node -> SUBSET (Unicast \X Ion \X Node)]
  BY ReceivedType DEF TypeOK, MarkSeen, BundleId

LEMMA TypeOfferTo ==
  ASSUME TypeOK, NEW n \in Node, NEW i \in Ion, NEW p \in Node, OfferTo(n, i, p)
  PROVE  TypeOK'
<1>1. Envelope("DirectOffer", i, n, p) \in Message
  BY EnvelopeType DEF Unicast
<1> QED BY <1>1 DEF TypeOK, OfferTo, service, peering, listing, scaling, book

LEMMA TypeRecvOffer ==
  ASSUME TypeOK, NEW m \in net, RecvOffer(m) PROVE TypeOK'
<1>1. m.ion \in Ion /\ m.to \in Node
  BY ReceivedType
<1>2. Broadcast("IonAccept", m.ion, m.to) \subseteq Message
  BY <1>1, EnvelopeType DEF Gossip
<1>3. seen' \in [Node -> SUBSET (Unicast \X Ion \X Node)]
  BY MarkSeenType DEF RecvOffer
<1>4. CASE m.to \in Host /\ m.ion \notin chambers[m.to]
  <2>1. /\ pending' = [pending EXCEPT ![m.to] = @ \cup {m.ion}]
        /\ net' = (net \ {m}) \cup Broadcast("IonAccept", m.ion, m.to)
        /\ saved' = [saved EXCEPT ![m.to] = atp[m.to]]
    BY <1>4 DEF RecvOffer
  <2>2. /\ pending' \in [Node -> SUBSET Ion]
        /\ net' \subseteq Message
        /\ saved' \in [Node -> Nat]
    BY <1>1, <1>2, <2>1 DEF TypeOK
  <2> QED BY <1>3, <2>2 DEF TypeOK, RecvOffer, service, peering, listing, scaling
<1>5. CASE ~(m.to \in Host /\ m.ion \notin chambers[m.to])
  BY <1>3, <1>5 DEF TypeOK, RecvOffer, service, peering, listing, scaling
<1> QED BY <1>4, <1>5

LEMMA TypeRecvAccept ==
  ASSUME TypeOK, NEW m \in net, RecvAccept(m) PROVE TypeOK'
<1> DEFINE n    == m.to
           pays == m.ion \in chambers[n] /\ atp[n] >= HostingReward
<1>1. m.ion \in Ion /\ n \in Node /\ m.from \in Node
  BY ReceivedType
<1>2. PICK c \in IF pays THEN Seconds(n) ELSE {stamp[n]} :
        /\ net' = (net \ {m})
                 \cup (IF m.ion \in chambers[n]
                       THEN {Envelope("IonMigrate", m.ion, n, m.from)} ELSE {})
                 \cup (IF pays
                       THEN {PayTo(m.ion, n, m.from, HostingReward, c)} ELSE {})
        /\ stamp' = [stamp EXCEPT ![n] = c]
  BY DEF RecvAccept
<1>3. c \in Nat
  BY <1>1 DEF TypeOK, Seconds
<1>4. net' \subseteq Message
  <2>1. Envelope("IonMigrate", m.ion, n, m.from) \in Message
    BY <1>1, EnvelopeType DEF Unicast
  <2>2. PayTo(m.ion, n, m.from, HostingReward, c) \in Message
    BY <1>1, <1>3, PayToType, BoundAssumption DEF BoundAssumption
  <2> QED BY <1>2, <2>1, <2>2 DEF TypeOK
<1>5. stamp' \in [Node -> Nat]
  BY <1>1, <1>2, <1>3 DEF TypeOK
<1>6. atp' \in [Node -> Nat]
  <2>1. atp' = [atp EXCEPT ![n] = IF pays THEN @ - HostingReward ELSE @]
    BY DEF RecvAccept
  <2> QED BY <1>1, <2>1, BoundAssumption DEF TypeOK, BoundAssumption
<1>7. saved' \in [Node -> Nat]
  BY <1>1, <1>6 DEF TypeOK, RecvAccept, Persist
<1>8. windows' \in [Node -> [Ion -> 0 .. RecombineAfter]]
  <2>1. windows' = IF m.ion \in chambers[n]
                   THEN [windows EXCEPT ![n][m.ion] = 0] ELSE windows
    BY DEF RecvAccept
  <2> QED BY <1>1, <2>1, BoundAssumption DEF TypeOK, BoundAssumption
<1>9. UNCHANGED <<up, service, peering, listing, offered, pending, redeemed, seen>>
  BY DEF RecvAccept
<1> QED BY <1>4, <1>5, <1>6, <1>7, <1>8, <1>9 DEF TypeOK, service, peering, listing

LEMMA TypeDropSeen ==
  ASSUME TypeOK, NEW m \in net, DropSeen(m) PROVE TypeOK'
  BY DEF TypeOK, DropSeen, service, peering, listing, scaling, book

LEMMA TypeRejectMigrate ==
  ASSUME TypeOK, NEW m \in net, RejectMigrate(m) PROVE TypeOK'
<1>1. seen' \in [Node -> SUBSET (Unicast \X Ion \X Node)]
  BY MarkSeenType DEF RejectMigrate
<1> QED BY <1>1 DEF TypeOK, RejectMigrate, service, peering, listing, scaling, book

LEMMA TypeRecvMigrate ==
  ASSUME TypeOK, NEW m \in net, RecvMigrate(m) PROVE TypeOK'
<1> DEFINE n == m.to
<1>1. m.ion \in Ion /\ n \in Node
  BY ReceivedType
<1>2. Broadcast("IonReady", m.ion, n) \subseteq Message
  BY <1>1, EnvelopeType DEF Gossip
<1>3. seen' \in [Node -> SUBSET (Unicast \X Ion \X Node)]
  BY MarkSeenType DEF RecvMigrate
<1>4. PICK born \in Started({m.ion}) :
        /\ chambers' = [chambers EXCEPT ![n] = @ \cup born]
        /\ routes' = [routes EXCEPT ![n][m.ion] =
                        @ \cup (IF born = {} THEN {} ELSE {n})]
        /\ net' = (net \ {m})
                  \cup (IF born = {} THEN {} ELSE Broadcast("IonReady", m.ion, n))
        /\ saved' \in {saved, [saved EXCEPT ![n] = atp[n]]}
  BY DEF RecvMigrate
<1>5. born \subseteq Ion
  BY <1>1, RoleAssumption DEF RoleAssumption, Started
<1>6. /\ chambers' \in [Node -> SUBSET Ion]
      /\ routes' \in [Node -> [Ion -> SUBSET Node]]
      /\ net' \subseteq Message
      /\ saved' \in [Node -> Nat]
  <2>1. chambers' \in [Node -> SUBSET Ion]
    BY <1>1, <1>4, <1>5 DEF TypeOK
  <2>2. routes' \in [Node -> [Ion -> SUBSET Node]]
    BY <1>1, <1>4 DEF TypeOK
  <2>3. net' \subseteq Message
    BY <1>2, <1>4 DEF TypeOK
  <2>4. saved' \in [Node -> Nat]
    BY <1>1, <1>4 DEF TypeOK
  <2> QED BY <2>1, <2>2, <2>3, <2>4
<1>7. pending' \in [Node -> SUBSET Ion]
  BY <1>1 DEF TypeOK, RecvMigrate
<1>8. UNCHANGED <<up, records, peering, listing, scaling, atp, redeemed, stamp>>
  BY DEF RecvMigrate
<1> QED BY <1>3, <1>6, <1>7, <1>8 DEF TypeOK, peering, listing, scaling

LEMMA AgeZero == 0 \in Age /\ \A a \in Age : Minimum(a + 1, CatalogTTL) \in Age
  BY BoundAssumption DEF Age, Minimum, BoundAssumption

LEMMA TypeRecvReady ==
  ASSUME TypeOK, NEW m \in net, RecvReady(m) PROVE TypeOK'
<1> DEFINE n == m.to
<1>1. m.ion \in Ion /\ n \in Node /\ m.from \in Node
  BY ReceivedType
<1>2. /\ net' = net \ {m}
      /\ saved' = [saved EXCEPT ![n] = atp[n]]
      /\ UNCHANGED <<up, chambers, records, listing, scaling, pending,
                     atp, redeemed, stamp, seen>>
  BY DEF RecvReady
<1>3. /\ replicas' \in [Node -> [Ion -> SUBSET Node]]
      /\ beat' \in [Node -> [Ion -> [Node -> Age]]]
      /\ routes' \in [Node -> [Ion -> SUBSET Node]]
  <2>1. CASE m.from \in Public
    <3>1. /\ replicas' = [replicas EXCEPT ![n][m.ion] = @ \cup {m.from}]
          /\ beat' = [beat EXCEPT ![n][m.ion][m.from] = 0]
          /\ routes' = [routes EXCEPT ![n][m.ion] = @ \cup {m.from}]
      BY <2>1 DEF RecvReady
    <3>2. replicas' \in [Node -> [Ion -> SUBSET Node]]
      BY <1>1, <3>1 DEF TypeOK
    <3>3. beat' \in [Node -> [Ion -> [Node -> Age]]]
      BY <1>1, <3>1, AgeZero DEF TypeOK
    <3>4. routes' \in [Node -> [Ion -> SUBSET Node]]
      BY <1>1, <3>1 DEF TypeOK
    <3> QED BY <3>2, <3>3, <3>4
  <2>2. CASE m.from \notin Public
    BY <2>2 DEF RecvReady, TypeOK
  <2> QED BY <2>1, <2>2
<1> QED BY <1>1, <1>2, <1>3 DEF TypeOK, listing, scaling

LEMMA TypeRecvHeartbeat ==
  ASSUME TypeOK, NEW m \in net, RecvHeartbeat(m) PROVE TypeOK'
<1>1. m.ion \in Ion /\ m.to \in Node /\ m.from \in Node
  BY ReceivedType
<1>2. beat' \in [Node -> [Ion -> [Node -> Age]]]
  BY <1>1, AgeZero DEF TypeOK, RecvHeartbeat
<1>3. saved' \in [Node -> Nat]
  BY <1>1 DEF TypeOK, RecvHeartbeat
<1> QED BY <1>2, <1>3 DEF TypeOK, RecvHeartbeat, service, listing, scaling

LEMMA TypeRecvAnnounce ==
  ASSUME TypeOK, NEW m \in net, RecvAnnounce(m) PROVE TypeOK'
<1>1. m.ion \in Ion /\ m.to \in Node /\ m.from \in Node
  BY ReceivedType
<1>2. heard' \in [Node -> [Node -> Age]]
  BY <1>1, AgeZero DEF TypeOK, RecvAnnounce
<1>3. catalog' \in [Node -> [Node -> SUBSET Ion]]
  BY <1>1 DEF TypeOK, RecvAnnounce
<1>4. saved' \in [Node -> Nat]
  BY <1>1 DEF TypeOK, RecvAnnounce
<1> QED BY <1>2, <1>3, <1>4 DEF TypeOK, RecvAnnounce, service, peering, scaling

LEMMA TypeZoneTick ==
  ASSUME TypeOK, NEW n \in Node, ZoneTick(n) PROVE TypeOK'
<1>1. net' \subseteq Message
  <2>1. \A i \in chambers[n] : Broadcast("IonAnnounce", i, n) \subseteq Message
    BY EnvelopeType DEF TypeOK, Gossip
  <2> QED BY <2>1 DEF TypeOK, ZoneTick
<1>2. catalog' \in [Node -> [Node -> SUBSET Ion]]
  BY DEF TypeOK, ZoneTick
<1>3. heard' \in [Node -> [Node -> Age]]
  BY AgeZero DEF TypeOK, ZoneTick
<1> QED BY <1>1, <1>2, <1>3 DEF TypeOK, ZoneTick, service, peering, scaling, book

LEMMA TypeRecvVoucher ==
  ASSUME TypeOK, NEW m \in net, RecvVoucher(m) PROVE TypeOK'
<1>1. m \in Voucher /\ m.to \in Node /\ m.amount \in Nat
  BY ReceivedType DEF RecvVoucher, Receive, Voucher
<1>2. atp' \in [Node -> Nat]
  BY <1>1 DEF TypeOK, RecvVoucher, Credited
<1>3. saved' \in [Node -> Nat]
  BY <1>1, <1>2 DEF TypeOK, RecvVoucher, Persist
<1>4. redeemed' \in [Node -> SUBSET Voucher]
  BY <1>1 DEF TypeOK, RecvVoucher
<1> QED BY <1>2, <1>3, <1>4 DEF TypeOK, RecvVoucher, service, peering, listing, scaling

LEMMA TypePersistTick ==
  ASSUME TypeOK, NEW n \in Node, PersistTick(n) PROVE TypeOK'
  BY DEF TypeOK, PersistTick, service, peering, listing, scaling

LEMMA TypeTick == ASSUME TypeOK, Tick PROVE TypeOK'
<1>1. beat' \in [Node -> [Ion -> [Node -> Age]]]
  BY AgeZero DEF TypeOK, Tick
<1>2. heard' \in [Node -> [Node -> Age]]
  BY AgeZero DEF TypeOK, Tick
<1>3. offered' \in [Node -> [Ion -> 0 .. OfferCooldown]]
  BY BoundAssumption DEF TypeOK, Tick, Minimum, BoundAssumption
<1> QED BY <1>1, <1>2, <1>3 DEF TypeOK, Tick, service, book

LEMMA TypeLose == ASSUME TypeOK, NEW m \in net, Lose(m) PROVE TypeOK'
  BY DEF TypeOK, Lose, service, peering, listing, scaling, book

LEMMA TypeCrash == ASSUME TypeOK, NEW n \in Node, Crash(n) PROVE TypeOK'
<1>1. /\ up' \in [Node -> BOOLEAN]
      /\ chambers' \in [Node -> SUBSET Ion]
      /\ pending' \in [Node -> SUBSET Ion]
      /\ seen' \in [Node -> SUBSET (Unicast \X Ion \X Node)]
      /\ net' \subseteq Message
  BY DEF TypeOK, Crash
<1>2. /\ replicas' \in [Node -> [Ion -> SUBSET Node]]
      /\ routes' \in [Node -> [Ion -> SUBSET Node]]
      /\ atp' \in [Node -> Nat]
  BY DEF TypeOK, Crash
<1>3. /\ beat' \in [Node -> [Ion -> [Node -> Age]]]
      /\ windows' \in [Node -> [Ion -> 0 .. RecombineAfter]]
      /\ offered' \in [Node -> [Ion -> 0 .. OfferCooldown]]
  BY AgeZero, BoundAssumption DEF TypeOK, Crash, BoundAssumption
<1> QED BY <1>1, <1>2, <1>3 DEF TypeOK, Crash, listing

LEMMA TypeRestart == ASSUME TypeOK, NEW n \in Node, Restart(n) PROVE TypeOK'
<1>1. PICK born \in Started(records[n]) :
        /\ chambers' = [chambers EXCEPT ![n] = born]
        /\ routes' = [routes EXCEPT ![n] =
                        [i \in Ion |-> IF i \in born THEN {n} ELSE {}]]
  BY DEF Restart
<1>2. born \subseteq Ion
  BY RoleAssumption DEF TypeOK, RoleAssumption, Started
<1>3. chambers' \in [Node -> SUBSET Ion] /\ routes' \in [Node -> [Ion -> SUBSET Node]]
  BY <1>1, <1>2 DEF TypeOK
<1> QED BY <1>3 DEF TypeOK, Restart, peering, listing, scaling, book

LEMMA LostChambers ==
  ASSUME TypeOK, NEW n \in Node, NEW load
  PROVE  /\ Recombined(n, load) \subseteq chambers[n]
         /\ Kept(n, load) \subseteq chambers[n] /\ Kept(n, load) \subseteq Ion
         /\ Offering(n, load) \subseteq chambers[n]
  BY DEF TypeOK, Recombined, Kept, Offering

\* What the tick pays is a whole number of tips the node can afford.
LEMMA TipsAffordable ==
  ASSUME TypeOK, NEW n \in Node, NEW load,
         NEW paid \in Tipped(n, Tips(n, load, Kept(n, load)))
  PROVE  /\ paid \subseteq Ion \X Node
         /\ HostingTip * Cardinality(paid) \in Nat
         /\ atp[n] - HostingTip * Cardinality(paid) \in Nat
<1>1. paid \subseteq Ion \X Node
  BY LostChambers DEF Tipped, Tips
<1>2. IsFiniteSet(Ion \X Node)
  BY IonAssumption, NodeAssumption, FS_Product DEF IonAssumption, NodeAssumption
<1>3. Cardinality(paid) \in Nat
  BY <1>1, <1>2, FS_Subset, FS_CardinalityType
<1> DEFINE k == Cardinality(paid)
<1>4. HostingTip * k <= atp[n]
  BY DEF Tipped
<1>5. k \in Nat /\ HostingTip \in Nat /\ atp[n] \in Nat
  BY <1>3, BoundAssumption DEF TypeOK, BoundAssumption
<1> HIDE DEF k
<1>6. HostingTip * k \in Nat
  BY <1>5
<1> DEFINE cost == HostingTip * k
<1>7. cost \in Nat /\ cost <= atp[n]
  BY <1>4, <1>6
<1> HIDE DEF cost
<1>8. atp[n] - cost \in Nat
  BY <1>5, <1>7
<1> QED BY <1>1, <1>6, <1>8 DEF k, cost

LEMMA TypeScaleTick ==
  ASSUME TypeOK, NEW n \in Node, ScaleTick(n) PROVE TypeOK'
<1>1. PICK load \in [chambers[n] -> 0 .. MaxDesired] :
      \E paid \in Tipped(n, Tips(n, load, Kept(n, load))),
         born \in Started(Orphans(n, Kept(n, load), Peers(n))),
         c \in Seconds(n) : Rescale(n, load, paid, born, c)
  BY DEF ScaleTick
<1>2. PICK paid \in Tipped(n, Tips(n, load, Kept(n, load))),
           born \in Started(Orphans(n, Kept(n, load), Peers(n))),
           c \in Seconds(n) : Rescale(n, load, paid, born, c)
  BY <1>1
<1> DEFINE offers   == Offering(n, load)
           gone     == Recombined(n, load)
           recorded == records[n] \ gone
           left     == atp[n] - HostingTip * Cardinality(paid)
<1>3. born \subseteq Ion
  BY RoleAssumption DEF RoleAssumption, Started, Orphans
<1>4. c \in Nat
  BY DEF TypeOK, Seconds
<1>5. /\ gone \subseteq Ion /\ offers \subseteq Ion /\ Kept(n, load) \subseteq Ion
  BY LostChambers DEF TypeOK
<1>6. /\ left \in Nat
      /\ left - BirthFee(recorded, born, left) \in Nat
  BY <1>3, TipsAffordable, BirthFeeBound
<1>7. stamp' \in [Node -> Nat]
  BY <1>2, <1>4 DEF TypeOK, Rescale
<1>8. windows' \in [Node -> [Ion -> 0 .. RecombineAfter]]
  <2>1. \A i \in Ion : Idle(n, load)[i] \in 0 .. RecombineAfter
    BY BoundAssumption DEF TypeOK, Idle, Minimum, BoundAssumption
  <2>2. windows' = [windows EXCEPT ![n] =
          [i \in Ion |-> IF i \in gone THEN 0 ELSE Idle(n, load)[i]]]
    BY <1>2 DEF Rescale
  <2> QED BY <2>1, <2>2, BoundAssumption DEF TypeOK, BoundAssumption
<1>9. offered' \in [Node -> [Ion -> 0 .. OfferCooldown]]
  <2>1. offered' = [offered EXCEPT ![n] =
          [i \in Ion |-> IF i \in gone THEN OfferCooldown
                         ELSE IF i \in offers THEN 0 ELSE @[i]]]
    BY <1>2 DEF Rescale
  <2> QED BY <2>1, BoundAssumption DEF TypeOK, BoundAssumption
<1>10. chambers' \in [Node -> SUBSET Ion] /\ records' \in [Node -> SUBSET Ion]
  BY <1>2, <1>3, <1>5 DEF TypeOK, Rescale
<1>11. replicas' \in [Node -> [Ion -> SUBSET Node]]
  <2>1. Peers(n) \in [Ion -> SUBSET Node]
    BY DEF TypeOK, Peers
  <2> QED BY <1>2, <2>1 DEF TypeOK, Rescale
<1>12. beat' \in [Node -> [Ion -> [Node -> Age]]]
  <2>1. beat' = [beat EXCEPT ![n] = [i \in Ion |-> [p \in Node |->
                   IF p \in Peers(n)[i] THEN @[i][p] ELSE 0]]]
    BY <1>2 DEF Rescale
  <2> QED BY <2>1, AgeZero DEF TypeOK
<1>13. routes' \in [Node -> [Ion -> SUBSET Node]]
  <2>1. routes' = [routes EXCEPT ![n] = [i \in Ion |-> OrbitsAfter(n, i, gone, born)]]
    BY <1>2 DEF Rescale
  <2> QED BY <2>1 DEF TypeOK, OrbitsAfter
<1>14. atp' \in [Node -> Nat]
  <2>1. atp' = [atp EXCEPT ![n] = left - BirthFee(recorded, born, left)]
    BY <1>2 DEF Rescale, TypeOK
  <2> QED BY <1>6, <2>1 DEF TypeOK
<1>15. saved' \in [Node -> Nat]
  <2>1. saved' = [saved EXCEPT ![n] =
                    IF ~(born \subseteq recorded) THEN atp'[n]
                    ELSE IF gone # {} THEN atp[n] ELSE @]
    BY <1>2 DEF Rescale
  <2> QED BY <1>14, <2>1 DEF TypeOK
<1>16. net' \subseteq Message
  <2>1. \A i \in offers : Broadcast("IonOffer", i, n) \subseteq Message
    BY <1>5, EnvelopeType DEF Gossip
  <2>2. \A i \in Kept(n, load) : Broadcast("IonHeartbeat", i, n) \subseteq Message
    BY <1>5, EnvelopeType DEF Gossip
  <2>3. \A t \in paid : PayTo(t[1], n, t[2], HostingTip, c) \in Message
    BY <1>4, TipsAffordable, PayToType, BoundAssumption DEF BoundAssumption
  <2> DEFINE asked == UNION {Broadcast("IonOffer", i, n) : i \in offers}
             tips  == {PayTo(t[1], n, t[2], HostingTip, c) : t \in paid}
             beats == UNION {Broadcast("IonHeartbeat", i, n) : i \in Kept(n, load)}
  <2>4. net' = net \cup asked \cup tips \cup beats
    BY <1>2 DEF Rescale
  <2>5. asked \subseteq Message /\ tips \subseteq Message /\ beats \subseteq Message
    BY <2>1, <2>2, <2>3
  <2> HIDE DEF asked, tips, beats
  <2> QED BY <2>4, <2>5 DEF TypeOK
<1>17. UNCHANGED <<up, listing, pending, redeemed, seen>>
  BY DEF ScaleTick
<1> QED
  BY <1>7, <1>8, <1>9, <1>10, <1>11, <1>12, <1>13, <1>14, <1>15, <1>16, <1>17
  DEF TypeOK, listing

LEMMA TypeInit == Init => TypeOK
  BY AgeZero, BoundAssumption DEF Init, TypeOK, BoundAssumption

LEMMA TypeDeliver == ASSUME TypeOK, NEW m \in net, Deliver(m) PROVE TypeOK'
  BY TypeRecvOffer, TypeRecvAccept, TypeDropSeen, TypeRejectMigrate, TypeRecvMigrate,
     TypeRecvReady, TypeRecvHeartbeat, TypeRecvAnnounce, TypeRecvVoucher DEF Deliver

LEMMA TypeNext == TypeOK /\ [Next]_vars => TypeOK'
<1> SUFFICES ASSUME TypeOK, [Next]_vars PROVE TypeOK'
  OBVIOUS
<1>1. CASE Step
  <2>1. CASE \E n \in Node, i \in Ion : Deploy(n, i)
    BY <2>1, TypeDeploy
  <2>2. CASE \E n, p \in Node, i \in Ion : OfferTo(n, i, p)
    BY <2>2, TypeOfferTo
  <2>3. CASE \E n \in Node : Atrophy(n) \/ ZoneTick(n) \/ ScaleTick(n) \/ PersistTick(n)
    BY <2>3, TypeAtrophy, TypeZoneTick, TypeScaleTick, TypePersistTick
  <2>4. CASE \E m \in net : Deliver(m) \/ Lose(m)
    BY <2>4, TypeDeliver, TypeLose
  <2>5. CASE Tick
    BY <2>5, TypeTick
  <2> QED BY <1>1, <2>1, <2>2, <2>3, <2>4, <2>5 DEF Step
<1>2. CASE Fault
  <2>1. PICK n \in Mortal : Crash(n) \/ Restart(n)
    BY <1>2 DEF Fault
  <2>2. n \in Node
    BY RoleAssumption DEF RoleAssumption
  <2> QED BY <2>1, <2>2, TypeCrash, TypeRestart
<1>3. CASE UNCHANGED vars
  BY <1>3 DEF TypeOK, vars, service, peering, listing, scaling, book
<1> QED BY <1>1, <1>2, <1>3 DEF Next

\* Whatever crashes, every variable keeps its type.
THEOREM TypeCorrect == Spec => []TypeOK
<1>1. Init => TypeOK
  BY TypeInit
<1>2. TypeOK /\ [Next]_vars => TypeOK'
  BY TypeNext
<1> QED BY <1>1, <1>2, PTL DEF Spec

-----------------------------------------------------------------------------
(* The anchor.  Covered is inductive while no daemon crashes: a claim is   *)
(* only made by a node that has just fruited the ion, and a holder leaves  *)
(* only for a claimed replica with a smaller NodeId, which is covered.     *)

\* A step that removes no chamber and whose claims are old, or made by a
\* node that holds the ion, keeps every claim covered.
LEMMA CoveredKept ==
  ASSUME TypeOK, TypeOK', Covered,
         \A n \in Node : chambers[n] \subseteq chambers'[n],
         \A n, p \in Node, i \in Ion : p \in replicas'[n][i] => p \in Claimed(i),
         \A m \in net' : m.type = "IonReady" => m \in net \/ m.ion \in chambers'[m.from]
  PROVE  Covered'
<1> SUFFICES ASSUME NEW i \in Ion, NEW p \in Claimed(i)'
             PROVE  (\E h \in Holders(i) : h <= p)'
  BY DEF Covered
<1>1. CASE p \in Claimed(i)
  <2>1. PICK h \in Holders(i) : h <= p
    BY <1>1 DEF Covered
  <2> QED BY <2>1 DEF Holders
<1>2. CASE p \notin Claimed(i)
  <2>1. PICK m \in net' : m.type = "IonReady" /\ m.ion = i /\ m.from = p
    BY <1>2 DEF Claimed
  <2>2. p \in Node /\ m \notin net
    BY <1>2, <2>1 DEF Claimed
  <2>3. i \in chambers'[p]
    BY <2>1, <2>2
  <2>4. p <= p
    BY <2>2, NodeAssumption DEF NodeAssumption
  <2> QED BY <2>2, <2>3, <2>4 DEF Holders
<1> QED BY <1>1, <1>2

\* What plasma_scale_tick can do to chambers, claims and announcements.
LEMMA ScaleEffect ==
  ASSUME TypeOK, Covered, NEW n \in Node, ScaleTick(n)
  PROVE  /\ \A k \in Node \ {n} : chambers'[k] = chambers[k]
         /\ \A i \in Ion : i \in chambers[n] /\ i \notin chambers'[n]
                             => \E h \in Holders(i) : h < n
         /\ \A k \in Node, i \in Ion : replicas'[k][i] \subseteq replicas[k][i]
         /\ \A m \in net' : m.type = "IonReady" => m \in net
<1>1. PICK load \in [chambers[n] -> 0 .. MaxDesired] :
      \E paid \in Tipped(n, Tips(n, load, Kept(n, load))),
         born \in Started(Orphans(n, Kept(n, load), Peers(n))),
         c \in Seconds(n) : Rescale(n, load, paid, born, c)
  BY DEF ScaleTick
<1>2. PICK paid \in Tipped(n, Tips(n, load, Kept(n, load))),
           born \in Started(Orphans(n, Kept(n, load), Peers(n))),
           c \in Seconds(n) : Rescale(n, load, paid, born, c)
  BY <1>1
<1>3. chambers' = [chambers EXCEPT ![n] = Kept(n, load) \cup born]
  BY <1>2 DEF Rescale
<1>4. \A k \in Node \ {n} : chambers'[k] = chambers[k]
  BY <1>3 DEF TypeOK
<1>5. ASSUME NEW i \in Ion, i \in chambers[n], i \notin chambers'[n]
      PROVE  \E h \in Holders(i) : h < n
  <2>1. i \in Recombined(n, load)
    BY <1>3, <1>5 DEF TypeOK, Kept
  <2>2. PICK p \in replicas[n][i] : p < n
    BY <2>1 DEF Recombined, CoveredBySmaller
  <2>3. p \in Node
    BY <2>2 DEF TypeOK
  <2>4. PICK h \in Holders(i) : h <= p
    BY <2>2, <2>3 DEF Covered, Claimed
  <2>5. h \in Nat /\ p \in Nat /\ n \in Nat
    BY <2>3, <2>4, NodeAssumption DEF NodeAssumption, Holders
  <2> QED BY <2>2, <2>4, <2>5
<1>6. \A k \in Node, i \in Ion : replicas'[k][i] \subseteq replicas[k][i]
  <2>1. replicas' = [replicas EXCEPT ![n] = Peers(n)]
    BY <1>2 DEF Rescale
  <2> QED BY <2>1 DEF TypeOK, Peers
<1>7. \A m \in net' : m.type = "IonReady" => m \in net
  <2> DEFINE asked == UNION {Broadcast("IonOffer", i, n) : i \in Offering(n, load)}
             tips  == {PayTo(t[1], n, t[2], HostingTip, c) : t \in paid}
             beats == UNION {Broadcast("IonHeartbeat", i, n) : i \in Kept(n, load)}
  <2>1. net' = net \cup asked \cup tips \cup beats
    BY <1>2 DEF Rescale
  <2>2. \A m \in asked \cup tips \cup beats : m.type # "IonReady"
    BY DEF Broadcast, Envelope, PayTo
  <2> HIDE DEF asked, tips, beats
  <2> QED BY <2>1, <2>2
<1> QED BY <1>4, <1>5, <1>6, <1>7

LEMMA CoveredScaleTick ==
  ASSUME TypeOK, TypeOK', Covered, NEW n \in Node, ScaleTick(n)
  PROVE  Covered'
<1> SUFFICES ASSUME NEW i \in Ion, NEW p \in Claimed(i)'
             PROVE  (\E h \in Holders(i) : h <= p)'
  BY DEF Covered
<1>1. p \in Claimed(i) /\ p \in Node
  BY ScaleEffect DEF Claimed
<1>2. PICK h \in Holders(i) : h <= p
  BY <1>1 DEF Covered
<1>3. h \in Node /\ i \in chambers[h]
  BY <1>2 DEF Holders
<1>4. CASE i \in chambers'[h]
  BY <1>2, <1>3, <1>4 DEF Holders
<1>5. CASE i \notin chambers'[h]
  <2>1. h = n
    BY <1>3, <1>5, ScaleEffect
  <2>2. PICK g \in Holders(i) : g < n
    BY <1>3, <1>5, <2>1, ScaleEffect
  <2>3. g \in Node /\ g \in Nat /\ n \in Nat /\ p \in Nat
    BY <1>1, <2>2, NodeAssumption DEF NodeAssumption, Holders
  <2>4. g # n /\ g <= p
    BY <1>2, <2>1, <2>2, <2>3
  <2>5. i \in chambers'[g]
    BY <2>2, <2>3, <2>4, ScaleEffect DEF Holders
  <2> QED BY <2>3, <2>4, <2>5 DEF Holders
<1> QED BY <1>4, <1>5

\* The conditions of CoveredKept, and what every action but ScaleTick does.
Growing == \A n \in Node : chambers[n] \subseteq chambers'[n]
OldClaims ==
  /\ \A n, p \in Node, i \in Ion : p \in replicas'[n][i] => p \in Claimed(i)
  /\ \A m \in net' : m.type = "IonReady" => m \in net \/ m.ion \in chambers'[m.from]

LEMMA QuietClaims ==
  ASSUME UNCHANGED <<replicas, chambers>>,
         \A m \in net' : m.type = "IonReady" => m \in net
  PROVE  Growing /\ OldClaims
  BY DEF Growing, OldClaims, Claimed

LEMMA GrowingDeploy ==
  ASSUME TypeOK, NEW n \in Node, NEW i \in Ion, Deploy(n, i)
  PROVE  Growing /\ OldClaims
  BY DEF TypeOK, Deploy, Growing, OldClaims, Claimed, peering

LEMMA GrowingAtrophy ==
  ASSUME TypeOK, NEW n \in Node, Atrophy(n) PROVE Growing /\ OldClaims
<1>1. PICK born : chambers' = [chambers EXCEPT ![n] = @ \cup born]
  BY DEF Atrophy
<1>2. UNCHANGED <<replicas, net>>
  BY DEF Atrophy, peering
<1> QED BY <1>1, <1>2 DEF TypeOK, Growing, OldClaims, Claimed

LEMMA GrowingDeliver ==
  ASSUME TypeOK, NEW m \in net, Deliver(m) PROVE Growing /\ OldClaims
<1>0. m.ion \in Ion /\ m.to \in Node /\ m.from \in Node
  BY ReceivedType
<1>1. CASE RecvOffer(m)
  <2>1. \A w \in net' : w \in net \/ w \in Broadcast("IonAccept", m.ion, m.to)
    BY <1>1 DEF RecvOffer
  <2>2. \A w \in Broadcast("IonAccept", m.ion, m.to) : w.type # "IonReady"
    BY DEF Broadcast, Envelope
  <2> QED BY <1>1, <2>1, <2>2, QuietClaims DEF RecvOffer, service, peering
<1>2. CASE RecvAccept(m)
  <2>1. \A w \in net' : \/ w \in net
                        \/ w = Envelope("IonMigrate", m.ion, m.to, m.from)
                        \/ \E c : w = PayTo(m.ion, m.to, m.from, HostingReward, c)
    BY <1>2 DEF RecvAccept
  <2>2. \A w \in net' : w.type = "IonReady" => w \in net
    BY <2>1 DEF Envelope, PayTo
  <2> QED BY <1>2, <2>2, QuietClaims DEF RecvAccept, service, peering
<1>3. CASE DropSeen(m)
  BY <1>3, QuietClaims DEF DropSeen, service, peering
<1>4. CASE RejectMigrate(m)
  BY <1>4, QuietClaims DEF RejectMigrate, service, peering
<1>5. CASE RecvMigrate(m)
  <2>1. PICK born \in Started({m.ion}) :
          /\ chambers' = [chambers EXCEPT ![m.to] = @ \cup born]
          /\ net' = (net \ {m})
               \cup (IF born = {} THEN {} ELSE Broadcast("IonReady", m.ion, m.to))
    BY <1>5 DEF RecvMigrate
  <2>2. Growing
    BY <1>0, <2>1 DEF TypeOK, Growing
  <2>3. born # {} => m.ion \in chambers'[m.to]
    BY <1>0, <2>1, RoleAssumption DEF TypeOK, RoleAssumption, Started
  <2>4. \A w \in Broadcast("IonReady", m.ion, m.to) : w.ion = m.ion /\ w.from = m.to
    BY DEF Broadcast, Envelope
  <2>5. \A w \in net' : w.type = "IonReady" => w \in net \/ w.ion \in chambers'[w.from]
    BY <2>1, <2>3, <2>4
  <2>6. UNCHANGED replicas
    BY <1>5 DEF RecvMigrate, peering
  <2> QED BY <2>2, <2>5, <2>6 DEF OldClaims, Claimed
<1>6. CASE RecvReady(m)
  <2>1. \A n, p \in Node, i \in Ion :
          p \in replicas'[n][i] => p \in replicas[n][i] \/ (p = m.from /\ i = m.ion)
    <3>1. \/ replicas' = [replicas EXCEPT ![m.to][m.ion] = @ \cup {m.from}]
          \/ replicas' = replicas
      BY <1>6 DEF RecvReady
    <3>2. replicas \in [Node -> [Ion -> SUBSET Node]]
      BY DEF TypeOK
    <3>3. SUFFICES ASSUME NEW n \in Node, NEW p \in Node, NEW i \in Ion,
                          p \in replicas'[n][i]
                   PROVE  p \in replicas[n][i] \/ (p = m.from /\ i = m.ion)
      OBVIOUS
    <3>4. CASE replicas' = replicas
      BY <3>3, <3>4
    <3>5. CASE replicas' = [replicas EXCEPT ![m.to][m.ion] = @ \cup {m.from}]
      <4>1. CASE n = m.to /\ i = m.ion
        BY <1>0, <3>2, <3>3, <3>5, <4>1
      <4>2. CASE ~(n = m.to /\ i = m.ion)
        BY <1>0, <3>2, <3>3, <3>5, <4>2
      <4> QED BY <4>1, <4>2
    <3> QED BY <3>1, <3>4, <3>5
  <2>2. m.type = "IonReady"
    BY <1>6 DEF RecvReady, Receive
  <2>3. chambers' = chambers /\ net' \subseteq net
    BY <1>6 DEF RecvReady
  <2> QED BY <2>1, <2>2, <2>3 DEF Growing, OldClaims, Claimed
<1>7. CASE RecvHeartbeat(m)
  BY <1>7, QuietClaims DEF RecvHeartbeat, service
<1>8. CASE RecvAnnounce(m)
  BY <1>8, QuietClaims DEF RecvAnnounce, service, peering
<1>9. CASE RecvVoucher(m)
  BY <1>9, QuietClaims DEF RecvVoucher, service, peering
<1> QED BY <1>1, <1>2, <1>3, <1>4, <1>5, <1>6, <1>7, <1>8, <1>9 DEF Deliver

LEMMA GrowingOthers ==
  ASSUME TypeOK, Step \/ UNCHANGED vars, ~ \E n \in Node : ScaleTick(n)
  PROVE  Growing /\ OldClaims
<1>1. CASE \E n \in Node, i \in Ion : Deploy(n, i)
  BY <1>1, GrowingDeploy
<1>2. CASE \E n, p \in Node, i \in Ion : OfferTo(n, i, p)
  BY <1>2, QuietClaims DEF OfferTo, Envelope, service, peering
<1>3. CASE \E n \in Node : Atrophy(n)
  BY <1>3, GrowingAtrophy
<1>4. CASE \E n \in Node : ZoneTick(n)
  <2>1. PICK n \in Node : ZoneTick(n)
    BY <1>4
  <2>2. \A m \in net' : m.type = "IonReady" => m \in net
    BY <2>1 DEF ZoneTick, Broadcast, Envelope
  <2> QED BY <2>1, <2>2, QuietClaims DEF ZoneTick, service, peering
<1>5. CASE \E n \in Node : PersistTick(n)
  BY <1>5, QuietClaims DEF PersistTick, service, peering
<1>6. CASE \E m \in net : Deliver(m)
  BY <1>6, GrowingDeliver
<1>7. CASE \E m \in net : Lose(m)
  BY <1>7, QuietClaims DEF Lose, service, peering
<1>8. CASE Tick
  BY <1>8, QuietClaims DEF Tick, service
<1>9. CASE UNCHANGED vars
  BY <1>9, QuietClaims DEF vars, service, peering
<1> QED BY <1>1, <1>2, <1>3, <1>4, <1>5, <1>6, <1>7, <1>8, <1>9 DEF Step

LEMMA CoveredInit == Init => Covered
  BY DEF Init, Covered, Claimed

LEMMA CoveredStep ==
  ASSUME TypeOK, Covered, [Step]_vars PROVE TypeOK' /\ Covered'
<1>1. TypeOK'
  BY TypeNext DEF Next
<1>2. CASE \E n \in Node : ScaleTick(n)
  BY <1>1, <1>2, CoveredScaleTick
<1>3. CASE ~ \E n \in Node : ScaleTick(n)
  BY <1>1, <1>3, GrowingOthers, CoveredKept DEF Growing, OldClaims
<1> QED BY <1>1, <1>2, <1>3

\* Without crashes every replica somebody believes in is covered by a live
\* one with no greater NodeId, however late, lossy or reordered the gossip.
THEOREM ClaimsCovered == SteadySpec => []Covered
<1> DEFINE Inv == TypeOK /\ Covered
<1>1. Init => Inv
  BY TypeInit, CoveredInit
<1>2. Inv /\ [Step]_vars => Inv'
  BY CoveredStep
<1>3. Inv => Covered
  OBVIOUS
<1> QED BY <1>1, <1>2, <1>3, PTL DEF SteadySpec

LEMMA StepGivesWay ==
  ASSUME TypeOK, Covered, [Step]_vars
  PROVE  \A n \in Node, i \in Ion : GivesWay(n, i)
<1> SUFFICES ASSUME NEW n \in Node, NEW i \in Ion,
                    i \in chambers[n], i \notin chambers'[n]
             PROVE  \E h \in Holders(i) : h < n
  BY DEF GivesWay
<1>1. PICK k \in Node : ScaleTick(k)
  BY GrowingOthers DEF Growing
<1>2. k = n
  BY <1>1, ScaleEffect
<1> QED BY <1>1, <1>2, ScaleEffect

\* The anchor of recombination: for any number of nodes, a chamber is given
\* up only where a live replica with a smaller NodeId exists.
THEOREM AnchorHolds == SteadySpec => AnchorNeverRecombines
<1> DEFINE Inv == TypeOK /\ Covered
<1>1. Init => Inv
  BY TypeInit, CoveredInit
<1>2. Inv /\ [Step]_vars => Inv'
  BY CoveredStep
<1>3. Inv /\ [Step]_vars => [\A n \in Node, i \in Ion : GivesWay(n, i)]_vars
  BY StepGivesWay
<1> QED BY <1>1, <1>2, <1>3, PTL DEF SteadySpec, AnchorNeverRecombines

\* An ion that has a replica always has one ("a última réplica nunca morre").
THEOREM IonsSurvive == SteadySpec => IonSurvives
<1> DEFINE Inv == TypeOK /\ Covered
<1>1. Init => Inv
  BY TypeInit, CoveredInit
<1>2. Inv /\ [Step]_vars => Inv'
  BY CoveredStep
<1>3. ASSUME Inv, [Step]_vars PROVE \A i \in Ion : Survives(i)
  <2> SUFFICES ASSUME NEW i \in Ion, NEW h \in Holders(i)
               PROVE  \E n \in Node : i \in chambers'[n]
    BY DEF Survives
  <2>1. h \in Node /\ i \in chambers[h]
    BY DEF Holders
  <2>2. CASE i \in chambers'[h]
    BY <2>1, <2>2
  <2>3. CASE i \notin chambers'[h]
    <3>1. PICK k \in Node : ScaleTick(k)
      BY <1>3, <2>1, <2>3, GrowingOthers DEF Growing
    <3>2. k = h
      BY <1>3, <2>1, <2>3, <3>1, ScaleEffect
    <3>3. PICK g \in Holders(i) : g < h
      BY <1>3, <2>1, <2>3, <3>1, <3>2, ScaleEffect
    <3>4. g \in Node /\ g # h /\ i \in chambers[g]
      BY <2>1, <3>3, NodeAssumption DEF NodeAssumption, Holders
    <3> QED BY <1>3, <3>1, <3>2, <3>4, ScaleEffect
  <2> QED BY <2>2, <2>3
<1>4. Inv /\ [Step]_vars => [\A i \in Ion : Survives(i)]_vars
  BY <1>3
<1> QED BY <1>1, <1>2, <1>4, PTL DEF SteadySpec, IonSurvives

-----------------------------------------------------------------------------
(* The Event Horizon agrees with the replica tables, crashes included.     *)

\* Nobody hears itself, so nobody registers itself as a remote replica; an
\* expiry then never takes the node's own orbit.
NoSelf ==
  /\ \A n \in Node, i \in Ion : n \notin replicas[n][i]
  /\ \A m \in net : m.from # m.to

LEMMA RoutesFrame ==
  ASSUME RoutesBacked, NoSelf, UNCHANGED <<chambers, routes, replicas>>,
         \A m \in net' : m \in net \/ m.from # m.to
  PROVE  RoutesBacked' /\ NoSelf'
  BY DEF RoutesBacked, NoSelf

LEMMA BroadcastOthers ==
  ASSUME NEW t, NEW i, NEW n
  PROVE  \A m \in Broadcast(t, i, n) : m.from # m.to
  BY DEF Broadcast, Envelope

\* Births at one node: the new ions get the node's own orbit.
BornAt(n, born) ==
  /\ \A k \in Node : chambers'[k] = chambers[k] \cup (IF k = n THEN born ELSE {})
  /\ \A k \in Node, i \in Ion :
       routes'[k][i] = routes[k][i] \cup (IF k = n /\ i \in born THEN {n} ELSE {})

LEMMA RoutesBorn ==
  ASSUME RoutesBacked, NoSelf, NEW n \in Node, NEW born, BornAt(n, born),
         UNCHANGED replicas
  PROVE  RoutesBacked'
<1> SUFFICES ASSUME NEW k \in Node, NEW i \in Ion
             PROVE  /\ k \in routes'[k][i] <=> i \in chambers'[k]
                    /\ routes'[k][i] \ {k} \subseteq replicas[k][i]
  BY DEF RoutesBacked
<1>1. CASE k = n
  BY <1>1 DEF RoutesBacked, BornAt
<1>2. CASE k # n
  BY <1>2 DEF RoutesBacked, BornAt
<1> QED BY <1>1, <1>2

LEMMA RoutesDeploy ==
  ASSUME TypeOK, RoutesBacked, NoSelf, NEW n \in Node, NEW i \in Ion, Deploy(n, i)
  PROVE  RoutesBacked' /\ NoSelf'
<1>1. /\ chambers' = [chambers EXCEPT ![n] = @ \cup {i}]
      /\ routes' = [routes EXCEPT ![n][i] = @ \cup {n}]
      /\ UNCHANGED <<replicas, net>>
  BY DEF Deploy, peering
<1>2. BornAt(n, {i})
  BY <1>1 DEF TypeOK, BornAt
<1>3. RoutesBacked'
  BY <1>1, <1>2, RoutesBorn
<1> QED BY <1>1, <1>3 DEF NoSelf

LEMMA RoutesAtrophy ==
  ASSUME TypeOK, RoutesBacked, NoSelf, NEW n \in Node, Atrophy(n)
  PROVE  RoutesBacked' /\ NoSelf'
<1>1. PICK born \in Started(Orphans(n, chambers[n], replicas[n])) :
        /\ chambers' = [chambers EXCEPT ![n] = @ \cup born]
        /\ routes' = [routes EXCEPT ![n] =
                       [i \in Ion |-> @[i] \cup (IF i \in born THEN {n} ELSE {})]]
  BY DEF Atrophy
<1>2. BornAt(n, born)
  BY <1>1 DEF TypeOK, BornAt
<1>3. UNCHANGED <<replicas, net>>
  BY DEF Atrophy, peering
<1>4. RoutesBacked'
  BY <1>2, <1>3, RoutesBorn
<1> QED BY <1>3, <1>4 DEF NoSelf

LEMMA RoutesRecvMigrate ==
  ASSUME TypeOK, RoutesBacked, NoSelf, NEW m \in net, RecvMigrate(m)
  PROVE  RoutesBacked' /\ NoSelf'
<1> DEFINE n == m.to
<1>1. m.ion \in Ion /\ n \in Node
  BY ReceivedType
<1>2. PICK born \in Started({m.ion}) :
        /\ chambers' = [chambers EXCEPT ![n] = @ \cup born]
        /\ routes' = [routes EXCEPT ![n][m.ion] =
                        @ \cup (IF born = {} THEN {} ELSE {n})]
        /\ net' = (net \ {m})
                  \cup (IF born = {} THEN {} ELSE Broadcast("IonReady", m.ion, n))
  BY DEF RecvMigrate
<1>3. UNCHANGED replicas
  BY DEF RecvMigrate, peering
<1>4. born = {} \/ born = {m.ion}
  BY RoleAssumption DEF RoleAssumption, Started
<1>5. BornAt(n, born)
  <2>1. CASE born = {}
    BY <1>1, <1>2, <2>1 DEF TypeOK, BornAt
  <2>2. CASE born = {m.ion}
    <3>1. /\ chambers' = [chambers EXCEPT ![n] = @ \cup {m.ion}]
          /\ routes' = [routes EXCEPT ![n][m.ion] = @ \cup {n}]
      BY <1>2, <2>2
    <3>2. BornAt(n, {m.ion})
      BY <1>1, <3>1 DEF TypeOK, BornAt
    <3> QED BY <2>2, <3>2
  <2> QED BY <1>4, <2>1, <2>2
<1>6. RoutesBacked'
  BY <1>1, <1>3, <1>5, RoutesBorn
<1>7. \A w \in net' : w.from # w.to
  BY <1>2, BroadcastOthers DEF NoSelf
<1> QED BY <1>3, <1>6, <1>7 DEF NoSelf

LEMMA RoutesRecvReady ==
  ASSUME TypeOK, RoutesBacked, NoSelf, NEW m \in net, RecvReady(m)
  PROVE  RoutesBacked' /\ NoSelf'
<1> DEFINE n == m.to
<1>1. m.ion \in Ion /\ n \in Node /\ m.from \in Node /\ m.from # n
  BY ReceivedType DEF NoSelf
<1>2. net' \subseteq net /\ UNCHANGED chambers
  BY DEF RecvReady
<1>3. CASE m.from \notin Public
  BY <1>2, <1>3, RoutesFrame DEF RecvReady
<1>4. CASE m.from \in Public
  <2>1. /\ replicas' = [replicas EXCEPT ![n][m.ion] = @ \cup {m.from}]
        /\ routes' = [routes EXCEPT ![n][m.ion] = @ \cup {m.from}]
    BY <1>4 DEF RecvReady
  <2>2. ASSUME NEW k \in Node, NEW i \in Ion
        PROVE  /\ k \in routes'[k][i] <=> i \in chambers[k]
               /\ routes'[k][i] \ {k} \subseteq replicas'[k][i]
               /\ k \notin replicas'[k][i]
    <3>1. CASE k = n /\ i = m.ion
      <4>1. /\ replicas'[n][i] = replicas[n][i] \cup {m.from}
            /\ routes'[n][i] = routes[n][i] \cup {m.from}
        BY <1>1, <2>1, <3>1 DEF TypeOK
      <4> QED BY <1>1, <3>1, <4>1 DEF RoutesBacked, NoSelf
    <3>2. CASE ~(k = n /\ i = m.ion)
      <4>1. replicas'[k][i] = replicas[k][i] /\ routes'[k][i] = routes[k][i]
        BY <1>1, <2>1, <3>2 DEF TypeOK
      <4> QED BY <4>1 DEF RoutesBacked, NoSelf
    <3> QED BY <3>1, <3>2
  <2> QED BY <1>2, <2>2 DEF RoutesBacked, NoSelf
<1> QED BY <1>3, <1>4

LEMMA RoutesDeliver ==
  ASSUME TypeOK, RoutesBacked, NoSelf, NEW m \in net, Deliver(m)
  PROVE  RoutesBacked' /\ NoSelf'
<1>0. m.ion \in Ion /\ m.to \in Node /\ m.from \in Node /\ m.from # m.to
  BY ReceivedType DEF NoSelf
<1>1. CASE RecvOffer(m)
  <2>1. \A w \in net' : w \in net \/ w \in Broadcast("IonAccept", m.ion, m.to)
    BY <1>1 DEF RecvOffer
  <2> QED BY <1>1, <2>1, BroadcastOthers, RoutesFrame DEF RecvOffer, service, peering
<1>2. CASE RecvAccept(m)
  <2>1. \A w \in net' : \/ w \in net
                        \/ w = Envelope("IonMigrate", m.ion, m.to, m.from)
                        \/ \E c : w = PayTo(m.ion, m.to, m.from, HostingReward, c)
    BY <1>2 DEF RecvAccept
  <2>2. \A w \in net' : w \in net \/ w.from # w.to
    BY <1>0, <2>1 DEF Envelope, PayTo
  <2> QED BY <1>2, <2>2, RoutesFrame DEF RecvAccept, service, peering
<1>3. CASE DropSeen(m)
  BY <1>3, RoutesFrame DEF DropSeen, service, peering
<1>4. CASE RejectMigrate(m)
  BY <1>4, RoutesFrame DEF RejectMigrate, service, peering
<1>5. CASE RecvMigrate(m)
  BY <1>5, RoutesRecvMigrate
<1>6. CASE RecvReady(m)
  BY <1>6, RoutesRecvReady
<1>7. CASE RecvHeartbeat(m)
  BY <1>7, RoutesFrame DEF RecvHeartbeat, service
<1>8. CASE RecvAnnounce(m)
  BY <1>8, RoutesFrame DEF RecvAnnounce, service, peering
<1>9. CASE RecvVoucher(m)
  BY <1>9, RoutesFrame DEF RecvVoucher, service, peering
<1> QED BY <1>1, <1>2, <1>3, <1>4, <1>5, <1>6, <1>7, <1>8, <1>9 DEF Deliver

LEMMA RoutesScaleTick ==
  ASSUME TypeOK, RoutesBacked, NoSelf, NEW n \in Node, ScaleTick(n)
  PROVE  RoutesBacked' /\ NoSelf'
<1>1. PICK load \in [chambers[n] -> 0 .. MaxDesired] :
      \E paid \in Tipped(n, Tips(n, load, Kept(n, load))),
         born \in Started(Orphans(n, Kept(n, load), Peers(n))),
         c \in Seconds(n) : Rescale(n, load, paid, born, c)
  BY DEF ScaleTick
<1>2. PICK paid \in Tipped(n, Tips(n, load, Kept(n, load))),
           born \in Started(Orphans(n, Kept(n, load), Peers(n))),
           c \in Seconds(n) : Rescale(n, load, paid, born, c)
  BY <1>1
<1> DEFINE gone == Recombined(n, load)
<1>3. /\ chambers' = [chambers EXCEPT ![n] = Kept(n, load) \cup born]
      /\ replicas' = [replicas EXCEPT ![n] = Peers(n)]
      /\ routes' = [routes EXCEPT ![n] = [i \in Ion |-> OrbitsAfter(n, i, gone, born)]]
  BY <1>2 DEF Rescale
<1>4. ASSUME NEW i \in Ion
      PROVE  /\ n \in routes'[n][i] <=> i \in chambers'[n]
             /\ routes'[n][i] \ {n} \subseteq replicas'[n][i]
             /\ n \notin replicas'[n][i]
  <2>1. /\ chambers'[n] = (chambers[n] \ gone) \cup born
        /\ replicas'[n][i] = replicas[n][i] \ Expired(n, i)
        /\ routes'[n][i] = (IF i \in gone THEN {} ELSE routes[n][i] \ Expired(n, i))
                             \cup (IF i \in born THEN {n} ELSE {})
    BY <1>3 DEF TypeOK, Kept, Peers, OrbitsAfter
  <2>2. Expired(n, i) \subseteq replicas[n][i]
    BY DEF Expired
  <2>3. n \notin replicas[n][i] /\ routes[n][i] \ {n} \subseteq replicas[n][i]
    BY DEF NoSelf, RoutesBacked
  <2>4. n \in routes[n][i] <=> i \in chambers[n]
    BY DEF RoutesBacked
  <2> HIDE DEF gone
  <2> QED BY <2>1, <2>2, <2>3, <2>4
<1>5. ASSUME NEW k \in Node \ {n}
      PROVE  UNCHANGED <<chambers[k], replicas[k], routes[k]>>
  BY <1>3 DEF TypeOK
<1>6. \A m \in net' : m \in net \/ m.from # m.to
  <2> DEFINE asked == UNION {Broadcast("IonOffer", i, n) : i \in Offering(n, load)}
             tips  == {PayTo(t[1], n, t[2], HostingTip, c) : t \in paid}
             beats == UNION {Broadcast("IonHeartbeat", i, n) : i \in Kept(n, load)}
  <2>1. net' = net \cup asked \cup tips \cup beats
    BY <1>2 DEF Rescale
  <2>2. \A m \in asked \cup beats : m.from # m.to
    BY BroadcastOthers
  <2>3. \A t \in paid : t[1] \in Ion /\ t[2] \in replicas[n][t[1]]
    BY LostChambers DEF Tipped, Tips
  <2>4. \A m \in tips : m.from # m.to
    BY <2>3 DEF NoSelf, PayTo
  <2> HIDE DEF asked, tips, beats
  <2> QED BY <2>1, <2>2, <2>4
<1>7. RoutesBacked'
  BY <1>4, <1>5 DEF RoutesBacked
<1>8. NoSelf'
  BY <1>4, <1>5, <1>6 DEF NoSelf
<1> QED BY <1>7, <1>8

LEMMA RoutesCrash ==
  ASSUME TypeOK, RoutesBacked, NoSelf, NEW n \in Node, Crash(n)
  PROVE  RoutesBacked' /\ NoSelf'
<1>1. /\ chambers' = [chambers EXCEPT ![n] = {}]
      /\ replicas' = [replicas EXCEPT ![n] = [i \in Ion |-> {}]]
      /\ routes' = [routes EXCEPT ![n] = [i \in Ion |-> {}]]
      /\ net' \subseteq net
  BY DEF Crash
<1>2. \A i \in Ion : chambers'[n] = {} /\ replicas'[n][i] = {} /\ routes'[n][i] = {}
  BY <1>1 DEF TypeOK
<1>3. \A k \in Node \ {n} : UNCHANGED <<chambers[k], replicas[k], routes[k]>>
  BY <1>1 DEF TypeOK
<1> QED BY <1>1, <1>2, <1>3 DEF RoutesBacked, NoSelf

LEMMA RoutesRestart ==
  ASSUME TypeOK, RoutesBacked, NoSelf, NEW n \in Node, Restart(n)
  PROVE  RoutesBacked' /\ NoSelf'
<1>1. PICK born \in Started(records[n]) :
        /\ chambers' = [chambers EXCEPT ![n] = born]
        /\ routes' = [routes EXCEPT ![n] =
                        [i \in Ion |-> IF i \in born THEN {n} ELSE {}]]
  BY DEF Restart
<1>2. UNCHANGED <<replicas, net>>
  BY DEF Restart, peering
<1>3. /\ chambers'[n] = born
      /\ \A i \in Ion : routes'[n][i] = IF i \in born THEN {n} ELSE {}
  BY <1>1 DEF TypeOK
<1>4. \A k \in Node \ {n} : UNCHANGED <<chambers[k], routes[k]>>
  BY <1>1 DEF TypeOK
<1>5. RoutesBacked'
  BY <1>2, <1>3, <1>4 DEF RoutesBacked
<1> QED BY <1>2, <1>5 DEF NoSelf

LEMMA RoutesNext ==
  ASSUME TypeOK, RoutesBacked, NoSelf, [Next]_vars
  PROVE  RoutesBacked' /\ NoSelf'
<1>1. CASE Step
  <2>1. CASE \E n \in Node, i \in Ion : Deploy(n, i)
    BY <2>1, RoutesDeploy
  <2>2. CASE \E n, p \in Node, i \in Ion : OfferTo(n, i, p)
    BY <2>2, RoutesFrame DEF OfferTo, Envelope, service, peering
  <2>3. CASE \E n \in Node : Atrophy(n)
    BY <2>3, RoutesAtrophy
  <2>4. CASE \E n \in Node : ZoneTick(n)
    <3>1. PICK n \in Node : ZoneTick(n)
      BY <2>4
    <3>2. \A m \in net' : m \in net \/ m.from # m.to
      BY <3>1, BroadcastOthers DEF ZoneTick
    <3> QED BY <3>1, <3>2, RoutesFrame DEF ZoneTick, service, peering
  <2>5. CASE \E n \in Node : ScaleTick(n)
    BY <2>5, RoutesScaleTick
  <2>6. CASE \E n \in Node : PersistTick(n)
    BY <2>6, RoutesFrame DEF PersistTick, service, peering
  <2>7. CASE \E m \in net : Deliver(m)
    BY <2>7, RoutesDeliver
  <2>8. CASE \E m \in net : Lose(m)
    BY <2>8, RoutesFrame DEF Lose, service, peering
  <2>9. CASE Tick
    BY <2>9, RoutesFrame DEF Tick, service
  <2> QED BY <1>1, <2>1, <2>2, <2>3, <2>4, <2>5, <2>6, <2>7, <2>8, <2>9 DEF Step
<1>2. CASE Fault
  <2>1. PICK n \in Mortal : Crash(n) \/ Restart(n)
    BY <1>2 DEF Fault
  <2>2. n \in Node
    BY RoleAssumption DEF RoleAssumption
  <2> QED BY <2>1, <2>2, RoutesCrash, RoutesRestart
<1>3. CASE UNCHANGED vars
  BY <1>3, RoutesFrame DEF vars, service, peering
<1> QED BY <1>1, <1>2, <1>3 DEF Next

\* Crashes included, the node orbits exactly its own chambers and every
\* remote orbit belongs to a registered replica.
THEOREM RoutesAlwaysBacked == Spec => []RoutesBacked
<1> DEFINE Inv == TypeOK /\ RoutesBacked /\ NoSelf
<1>1. Init => Inv
  <2> SUFFICES ASSUME Init PROVE RoutesBacked /\ NoSelf
    BY TypeInit
  <2> QED BY DEF Init, RoutesBacked, NoSelf
<1>2. Inv /\ [Next]_vars => Inv'
  BY TypeNext, RoutesNext
<1>3. Inv => RoutesBacked
  OBVIOUS
<1> QED BY <1>1, <1>2, <1>3, PTL DEF Spec

-----------------------------------------------------------------------------
(* The ledger on disk never falls behind the ledger in memory, for every   *)
(* instance and whatever crashes.                                          *)

\* The inductive form of DiskNeverBehind: it also speaks of stopped daemons,
\* which Restart needs.
Afloat == \A n \in Node : atp[n] <= saved[n]

\* A step of node n that lowers its balance, or writes it to disk.
LEMMA AfloatFrame ==
  ASSUME TypeOK, TypeOK', Afloat, NEW n \in Node,
         \A k \in Node \ {n} : atp'[k] = atp[k] /\ saved'[k] = saved[k],
         \/ saved'[n] = atp'[n]
         \/ saved'[n] = saved[n] /\ atp'[n] <= atp[n]
  PROVE  Afloat'
<1>1. atp'[n] <= saved'[n]
  <2>1. /\ atp[n] \in Nat /\ saved[n] \in Nat /\ atp'[n] \in Nat /\ saved'[n] \in Nat
        /\ atp[n] <= saved[n]
    BY DEF TypeOK, Afloat
  <2> QED BY <2>1
<1> QED BY <1>1 DEF Afloat

\* A step that writes what the receiver holds, or does not touch the ledger.
LEMMA AfloatWrite ==
  ASSUME TypeOK, TypeOK', Afloat, NEW n \in Node, atp' = atp,
         saved' = saved \/ saved' = [saved EXCEPT ![n] = atp[n]]
  PROVE  Afloat'
<1>1. /\ saved'[n] = atp'[n] \/ saved'[n] = saved[n]
      /\ \A k \in Node \ {n} : atp'[k] = atp[k] /\ saved'[k] = saved[k]
  BY DEF TypeOK
<1>2. atp'[n] <= atp[n]
  BY DEF TypeOK
<1> QED BY <1>1, <1>2, AfloatFrame

\* What a birth leaves is no more than there was.
LEMMA FeeLowers ==
  ASSUME NEW recorded, NEW born \in SUBSET Ion, NEW balance \in Nat
  PROVE  balance - BirthFee(recorded, born, balance) <= balance
<1>1. IsFiniteSet(born \ recorded)
  BY IonAssumption, FS_Subset DEF IonAssumption
<1>2. Cardinality(born \ recorded) \in Nat
  BY <1>1, FS_CardinalityType
<1> DEFINE fee == Minimum(Cardinality(born \ recorded), balance)
<1>3. fee \in Nat
  BY <1>2, MinimumNat
<1> HIDE DEF fee
<1>4. balance - fee <= balance
  BY <1>3
<1> QED BY <1>4 DEF BirthFee, fee

LEMMA AfloatDeploy ==
  ASSUME TypeOK, TypeOK', Afloat, NEW n \in Node, NEW i \in Ion, Deploy(n, i)
  PROVE  Afloat'
<1>1. atp'[n] = atp[n] - BirthFee(records[n], {i}, atp[n])
  BY DEF Deploy, TypeOK
<1>2. atp'[n] <= atp[n]
  BY <1>1, FeeLowers DEF TypeOK
<1>3. saved'[n] = saved[n] \/ saved'[n] = atp'[n]
  BY DEF Deploy, TypeOK
<1>4. \A k \in Node \ {n} : atp'[k] = atp[k] /\ saved'[k] = saved[k]
  BY DEF Deploy, TypeOK
<1> QED BY <1>2, <1>3, <1>4, AfloatFrame

LEMMA AfloatAtrophy ==
  ASSUME TypeOK, TypeOK', Afloat, NEW n \in Node, Atrophy(n)
  PROVE  Afloat'
<1>1. PICK born \in Started(Orphans(n, chambers[n], replicas[n])) : Atrophy(n)!2!(born)
  BY DEF Atrophy
<1>2. born \subseteq Ion
  BY RoleAssumption DEF RoleAssumption, Started, Orphans
<1>3. atp'[n] <= atp[n]
  <2>1. atp'[n] = atp[n] - BirthFee(records[n], born, atp[n])
    BY <1>1 DEF TypeOK
  <2> QED BY <1>2, <2>1, FeeLowers DEF TypeOK
<1>4. saved'[n] = saved[n] \/ saved'[n] = atp'[n]
  BY <1>1 DEF TypeOK
<1>5. \A k \in Node \ {n} : atp'[k] = atp[k] /\ saved'[k] = saved[k]
  BY <1>1 DEF TypeOK
<1> QED BY <1>3, <1>4, <1>5, AfloatFrame

\* Tips and fees lower the balance.  Recombining writes the ledger before
\* the tips are paid; a birth writes it after them.
LEMMA AfloatScaleTick ==
  ASSUME TypeOK, TypeOK', Afloat, NEW n \in Node, ScaleTick(n)
  PROVE  Afloat'
<1>1. PICK load \in [chambers[n] -> 0 .. MaxDesired] :
      \E paid \in Tipped(n, Tips(n, load, Kept(n, load))),
         born \in Started(Orphans(n, Kept(n, load), Peers(n))),
         c \in Seconds(n) : Rescale(n, load, paid, born, c)
  BY DEF ScaleTick
<1>2. PICK paid \in Tipped(n, Tips(n, load, Kept(n, load))),
           born \in Started(Orphans(n, Kept(n, load), Peers(n))),
           c \in Seconds(n) : Rescale(n, load, paid, born, c)
  BY <1>1
<1> DEFINE gone     == Recombined(n, load)
           recorded == records[n] \ gone
           left     == atp[n] - HostingTip * Cardinality(paid)
<1>3. born \subseteq Ion
  BY RoleAssumption DEF RoleAssumption, Started, Orphans
<1>4. left \in Nat /\ left <= atp[n]
  <2> DEFINE tip == HostingTip * Cardinality(paid)
  <2>1. tip \in Nat /\ atp[n] - tip \in Nat
    BY TipsAffordable
  <2>2. atp[n] \in Nat
    BY DEF TypeOK
  <2> HIDE DEF tip
  <2>3. atp[n] - tip <= atp[n]
    BY <2>1, <2>2
  <2> QED BY <2>1, <2>3 DEF tip
<1>5. atp'[n] <= atp[n]
  <2>1. atp'[n] = left - BirthFee(recorded, born, left)
    BY <1>2 DEF Rescale, TypeOK
  <2>2. left - BirthFee(recorded, born, left) <= left
    BY <1>3, <1>4, FeeLowers
  <2>3. left - BirthFee(recorded, born, left) \in Nat
    BY <1>3, <1>4, BirthFeeBound
  <2> HIDE DEF left, recorded
  <2>4. atp[n] \in Nat
    BY DEF TypeOK
  <2> QED BY <1>4, <2>1, <2>2, <2>3, <2>4
<1>6. saved'[n] \in {atp'[n], atp[n], saved[n]}
  <2>1. saved' = [saved EXCEPT ![n] =
                    IF ~(born \subseteq recorded) THEN atp'[n]
                    ELSE IF gone # {} THEN atp[n] ELSE @]
    BY <1>2 DEF Rescale
  <2> QED BY <2>1 DEF TypeOK
<1>7. \A k \in Node \ {n} : atp'[k] = atp[k] /\ saved'[k] = saved[k]
  BY <1>2 DEF Rescale, TypeOK
<1>8. atp'[n] <= saved'[n]
  <2>1. atp[n] \in Nat /\ saved[n] \in Nat /\ atp'[n] \in Nat /\ atp[n] <= saved[n]
    BY DEF TypeOK, Afloat
  <2> QED BY <1>5, <1>6, <2>1
<1> QED BY <1>7, <1>8 DEF Afloat

\* Every envelope is handled with the ledger written, or left alone.
LEMMA AfloatDeliver ==
  ASSUME TypeOK, TypeOK', Afloat, NEW m \in net, Deliver(m)
  PROVE  Afloat'
<1>0. m.to \in Node
  BY ReceivedType
<1>1. CASE RecvOffer(m)
  <2>1. atp' = atp /\ (saved' = saved \/ saved' = [saved EXCEPT ![m.to] = atp[m.to]])
    BY <1>1 DEF RecvOffer
  <2> QED BY <1>0, <2>1, AfloatWrite
<1>2. CASE RecvAccept(m)
  <2>1. saved'[m.to] = atp'[m.to]
    BY <1>0, <1>2 DEF RecvAccept, Persist, TypeOK
  <2>2. \A k \in Node \ {m.to} : atp'[k] = atp[k] /\ saved'[k] = saved[k]
    BY <1>0, <1>2 DEF RecvAccept, Persist, TypeOK
  <2> QED BY <1>0, <2>1, <2>2, AfloatFrame
<1>3. CASE DropSeen(m)
  BY <1>3 DEF DropSeen, book, Afloat
<1>4. CASE RejectMigrate(m)
  BY <1>4 DEF RejectMigrate, book, Afloat
<1>5. CASE RecvMigrate(m)
  <2>1. atp' = atp /\ (saved' = saved \/ saved' = [saved EXCEPT ![m.to] = atp[m.to]])
    BY <1>5 DEF RecvMigrate
  <2> QED BY <1>0, <2>1, AfloatWrite
<1>6. CASE RecvReady(m)
  <2>1. atp' = atp /\ saved' = [saved EXCEPT ![m.to] = atp[m.to]]
    BY <1>6 DEF RecvReady
  <2> QED BY <1>0, <2>1, AfloatWrite
<1>7. CASE RecvHeartbeat(m)
  <2>1. atp' = atp /\ (saved' = saved \/ saved' = [saved EXCEPT ![m.to] = atp[m.to]])
    BY <1>7 DEF RecvHeartbeat
  <2> QED BY <1>0, <2>1, AfloatWrite
<1>8. CASE RecvAnnounce(m)
  <2>1. atp' = atp /\ saved' = [saved EXCEPT ![m.to] = atp[m.to]]
    BY <1>8 DEF RecvAnnounce
  <2> QED BY <1>0, <2>1, AfloatWrite
<1>9. CASE RecvVoucher(m)
  <2>1. saved'[m.to] = atp'[m.to]
    BY <1>0, <1>9 DEF RecvVoucher, Persist, TypeOK
  <2>2. \A k \in Node \ {m.to} : atp'[k] = atp[k] /\ saved'[k] = saved[k]
    BY <1>0, <1>9 DEF RecvVoucher, Persist, TypeOK
  <2> QED BY <1>0, <2>1, <2>2, AfloatFrame
<1> QED BY <1>1, <1>2, <1>3, <1>4, <1>5, <1>6, <1>7, <1>8, <1>9 DEF Deliver

LEMMA AfloatNext ==
  ASSUME TypeOK, Afloat, [Next]_vars PROVE Afloat'
<1>0. TypeOK'
  BY TypeNext
<1>1. CASE Step
  <2>1. CASE \E n \in Node, i \in Ion : Deploy(n, i)
    BY <1>0, <2>1, AfloatDeploy
  <2>2. CASE \E n, p \in Node, i \in Ion : OfferTo(n, i, p)
    BY <2>2 DEF OfferTo, book, Afloat
  <2>3. CASE \E n \in Node : Atrophy(n)
    BY <1>0, <2>3, AfloatAtrophy
  <2>4. CASE \E n \in Node : ZoneTick(n)
    BY <2>4 DEF ZoneTick, book, Afloat
  <2>5. CASE \E n \in Node : ScaleTick(n)
    BY <1>0, <2>5, AfloatScaleTick
  <2>6. CASE \E n \in Node : PersistTick(n)
    BY <2>6 DEF PersistTick, Afloat, TypeOK
  <2>7. CASE \E m \in net : Deliver(m)
    BY <1>0, <2>7, AfloatDeliver
  <2>8. CASE \E m \in net : Lose(m)
    BY <2>8 DEF Lose, book, Afloat
  <2>9. CASE Tick
    BY <2>9 DEF Tick, book, Afloat
  <2> QED BY <1>1, <2>1, <2>2, <2>3, <2>4, <2>5, <2>6, <2>7, <2>8, <2>9 DEF Step
<1>2. CASE Fault
  <2>1. PICK n \in Mortal : Crash(n) \/ Restart(n)
    BY <1>2 DEF Fault
  <2>2. n \in Node
    BY RoleAssumption DEF RoleAssumption
  <2>3. CASE Crash(n)
    BY <2>2, <2>3 DEF Crash, Afloat, TypeOK
  <2>4. CASE Restart(n)
    BY <2>4 DEF Restart, book, Afloat
  <2> QED BY <2>1, <2>3, <2>4
<1>3. CASE UNCHANGED vars
  BY <1>3 DEF vars, book, Afloat
<1> QED BY <1>1, <1>2, <1>3 DEF Next

\* Whatever crashes, a node's balance on disk is never below the one in
\* memory: a crash can give ATP back, but never takes a credit away.
THEOREM CreditsSurviveCrashes == Spec => []DiskNeverBehind
<1> DEFINE Inv == TypeOK /\ Afloat
<1>1. Init => Inv
  <2> SUFFICES ASSUME Init PROVE Afloat
    BY TypeInit
  <2> QED BY BoundAssumption DEF Init, Afloat, BoundAssumption
<1>2. Inv /\ [Next]_vars => Inv'
  BY TypeNext, AfloatNext
<1>3. Inv => DiskNeverBehind
  BY DEF TypeOK, Afloat, DiskNeverBehind
<1> QED BY <1>1, <1>2, <1>3, PTL DEF Spec

-----------------------------------------------------------------------------
(* The economy implements the abstract payments.                           *)

\* The sum of the instance is the sum of module Functions.
LEMMA AmountIsSum ==
  ASSUME NEW V
  PROVE  Promise!Amount(V) = SumFunctionOnSet([v \in V |-> v.amount], V)
BY DEF Promise!Amount, Promise!SumFunctionOnSet, Promise!FoldFunctionOnSet,
       Promise!MapThenFoldSet, SumFunctionOnSet, FoldFunctionOnSet, MapThenFoldSet

\* Vouchers of one amount are worth their number times it.
LEMMA AmountOfEqual ==
  ASSUME NEW V, IsFiniteSet(V), NEW a \in Nat, \A v \in V : v.amount = a
  PROVE  Promise!Amount(V) = a * Cardinality(V)
<1> DEFINE f == [v \in V |-> v.amount]
<1>1. \A v \in V : f[v] = a
  OBVIOUS
<1> HIDE DEF f
<1>2. SumFunctionOnSet(f, V) = a * Cardinality(V)
  BY <1>1, SumConstant
<1> QED BY <1>2, AmountIsSum DEF f

\* Giving up at least what new vouchers of one amount are worth is a payment.
LEMMA PayingIssues ==
  ASSUME TypeOK, NEW n \in Node, NEW cost \in Nat, NEW a \in Nat, cost <= atp[n],
         atp' = [atp EXCEPT ![n] = @ - cost], Owed \subseteq Owed',
         IsFiniteSet(Owed' \ Owed), a * Cardinality(Owed' \ Owed) <= cost,
         \A v \in Owed' \ Owed : v.from = n /\ v.amount = a
  PROVE  Promise!Issue(n)
<1> DEFINE issued == Owed' \ Owed
<1>1. Promise!Amount(issued) = a * Cardinality(issued) /\ Cardinality(issued) \in Nat
  <2> HIDE DEF issued
  <2>1. IsFiniteSet(issued) /\ \A v \in issued : v.amount = a
    BY DEF issued
  <2> QED BY <2>1, AmountOfEqual, FS_CardinalityType
<1>2. cost \in Promise!Amount(issued) .. atp[n]
  <2>1. a * Cardinality(issued) <= cost /\ atp[n] \in Nat
    BY DEF TypeOK
  <2> HIDE DEF issued
  <2>2. a * Cardinality(issued) \in Nat
    BY <1>1
  <2> QED BY <1>1, <2>1, <2>2
<1> QED BY <1>2 DEF Promise!Issue

\* Nothing is registered and the envelopes added are no vouchers.
LEMMA OwedSame ==
  ASSUME UNCHANGED redeemed, \A m \in net \cup net' : m.type = "VoucherRedeem" => (m \in net <=> m \in net')
  PROVE  Owed' = Owed
  BY DEF Owed

\* Nothing is registered and no voucher is lost.
LEMMA OwedGrows ==
  ASSUME UNCHANGED redeemed, \A m \in net : m.type = "VoucherRedeem" => m \in net'
  PROVE  Owed \subseteq Owed' /\ Owed' \ Owed \subseteq {m \in net' \ net : m.type = "VoucherRedeem"}
  BY DEF Owed

\* A step of the abstract payments or a stutter, which owes finitely more.
Mapped == (Promise!PayNext \/ UNCHANGED <<atp, Owed>>) /\ IsFiniteSet(Owed' \ Owed)

LEMMA Stutters ==
  ASSUME UNCHANGED <<atp, redeemed>>,
         \A m \in net \cup net' : m.type = "VoucherRedeem" => (m \in net <=> m \in net')
  PROVE  Mapped
<1>1. Owed' = Owed
  BY OwedSame
<1>2. Owed' \ Owed = {}
  BY <1>1
<1> QED BY <1>1, <1>2, FS_EmptySet DEF Mapped

\* A deploy fee is a payment that issues no voucher.
LEMMA BirthMapped ==
  ASSUME TypeOK, NEW n \in Node, NEW recorded, NEW born \in SUBSET Ion,
         atp' = [atp EXCEPT ![n] = @ - BirthFee(recorded, born, @)],
         UNCHANGED <<redeemed, net>>
  PROVE  Mapped
<1> DEFINE fee == BirthFee(recorded, born, atp[n])
<1>1. fee \in Nat /\ fee <= atp[n]
  <2>1. IsFiniteSet(born \ recorded)
    BY IonAssumption, FS_Subset DEF IonAssumption
  <2>2. Cardinality(born \ recorded) \in Nat /\ atp[n] \in Nat
    BY <2>1, FS_CardinalityType DEF TypeOK
  <2> QED BY <2>2, MinimumNat DEF BirthFee
<1>2. Owed' = Owed /\ Owed' \ Owed = {} /\ Owed \subseteq Owed'
  BY OwedSame
<1>3. atp' = [atp EXCEPT ![n] = @ - fee]
  BY DEF TypeOK
<1> HIDE DEF fee
<1>4. IsFiniteSet(Owed' \ Owed) /\ 0 * Cardinality(Owed' \ Owed) <= fee
  BY <1>1, <1>2, FS_EmptySet
<1>5. Promise!Issue(n)
  BY <1>1, <1>2, <1>3, <1>4, PayingIssues
<1> QED BY <1>4, <1>5 DEF Mapped, Promise!PayNext

LEMMA DeployMapped ==
  ASSUME TypeOK, NEW n \in Node, NEW i \in Ion, Deploy(n, i) PROVE Mapped
<1>1. /\ atp' = [atp EXCEPT ![n] = @ - BirthFee(records[n], {i}, @)]
      /\ UNCHANGED <<redeemed, net>> /\ {i} \in SUBSET Ion
  BY DEF Deploy
<1> QED BY <1>1, BirthMapped

LEMMA AtrophyMapped ==
  ASSUME TypeOK, NEW n \in Node, Atrophy(n) PROVE Mapped
<1>1. PICK born \in Started(Orphans(n, chambers[n], replicas[n])) : Atrophy(n)!2!(born)
  BY DEF Atrophy
<1>2. born \in SUBSET Ion
  BY RoleAssumption DEF RoleAssumption, Started, Orphans
<1>3. /\ atp' = [atp EXCEPT ![n] = @ - BirthFee(records[n], born, @)]
      /\ UNCHANGED <<redeemed, net>>
  BY <1>1 DEF Atrophy
<1> QED BY <1>2, <1>3, BirthMapped

\* The reward: one voucher of HostingReward, or none when the same voucher
\* is already on its way or registered (a second payment in one second).
LEMMA RecvAcceptMapped ==
  ASSUME TypeOK, NEW m \in net, RecvAccept(m) PROVE Mapped
<1> DEFINE n    == m.to
           pays == m.ion \in chambers[n] /\ atp[n] >= HostingReward
<1>1. n \in Node /\ m.type = "IonAccept" /\ HostingReward \in Nat /\ atp[n] \in Nat
  BY ReceivedType, BoundAssumption DEF RecvAccept, Receive, TypeOK, BoundAssumption
<1>2. PICK c :
        net' = (net \ {m})
                 \cup (IF m.ion \in chambers[n]
                       THEN {Envelope("IonMigrate", m.ion, n, m.from)} ELSE {})
                 \cup (IF pays
                       THEN {PayTo(m.ion, n, m.from, HostingReward, c)} ELSE {})
  BY DEF RecvAccept
<1>3. /\ atp' = [atp EXCEPT ![n] = IF pays THEN @ - HostingReward ELSE @]
      /\ UNCHANGED redeemed
  BY DEF RecvAccept
<1> DEFINE voucher == PayTo(m.ion, n, m.from, HostingReward, c)
<1>4. voucher.from = n /\ voucher.amount = HostingReward
  BY DEF PayTo
<1>5. Envelope("IonMigrate", m.ion, n, m.from).type = "IonMigrate"
  BY DEF Envelope
<1>6. CASE pays
  <2>1. \A w \in net : w.type = "VoucherRedeem" => w \in net'
    BY <1>1, <1>2
  <2>2. \A w \in net' \ net : w.type = "VoucherRedeem" => w = voucher
    BY <1>2, <1>5
  <2>3. Owed \subseteq Owed' /\ Owed' \ Owed \subseteq {voucher}
    BY <1>3, <2>1, <2>2, OwedGrows
  <2>4. atp' = [atp EXCEPT ![n] = @ - HostingReward] /\ HostingReward <= atp[n]
    BY <1>1, <1>3, <1>6
  <2> HIDE DEF voucher, pays, n
  <2>5. IsFiniteSet(Owed' \ Owed) /\ Cardinality(Owed' \ Owed) \in 0 .. 1
    <3>1. IsFiniteSet({voucher}) /\ Cardinality({voucher}) = 1
      BY FS_Singleton
    <3>2. IsFiniteSet(Owed' \ Owed) /\ Cardinality(Owed' \ Owed) <= 1
      BY <2>3, <3>1, FS_Subset
    <3> QED BY <3>2, FS_CardinalityType
  <2>6. HostingReward * Cardinality(Owed' \ Owed) <= HostingReward
    BY <1>1, <2>5
  <2>7. \A v \in Owed' \ Owed : v.from = n /\ v.amount = HostingReward
    BY <1>4, <2>3
  <2>8. Promise!Issue(n)
    BY <1>1, <2>3, <2>4, <2>5, <2>6, <2>7, PayingIssues
  <2> QED BY <1>1, <2>5, <2>8 DEF Mapped, Promise!PayNext
<1>7. CASE ~pays
  <2>1. \A w \in net \cup net' : w.type = "VoucherRedeem" => (w \in net <=> w \in net')
    BY <1>1, <1>2, <1>5, <1>7
  <2>2. atp' = atp
    BY <1>3, <1>7 DEF TypeOK
  <2> QED BY <1>3, <2>1, <2>2, Stutters
<1> QED BY <1>6, <1>7

\* A window with traffic: at most one voucher for each tip the node paid.
LEMMA ScaleTickMapped ==
  ASSUME TypeOK, NEW n \in Node, ScaleTick(n) PROVE Mapped
<1>1. PICK load \in [chambers[n] -> 0 .. MaxDesired] :
      \E paid \in Tipped(n, Tips(n, load, Kept(n, load))),
         born \in Started(Orphans(n, Kept(n, load), Peers(n))),
         c \in Seconds(n) : Rescale(n, load, paid, born, c)
  BY DEF ScaleTick
<1>2. PICK paid \in Tipped(n, Tips(n, load, Kept(n, load))),
           born \in Started(Orphans(n, Kept(n, load), Peers(n))),
           c \in Seconds(n) : Rescale(n, load, paid, born, c)
  BY <1>1
<1> DEFINE recorded == records[n] \ Recombined(n, load)
           tip  == HostingTip * Cardinality(paid)
           left == atp[n] - tip
           fee  == BirthFee(recorded, born, left)
           f    == [t \in paid |-> PayTo(t[1], n, t[2], HostingTip, c)]
<1>3. born \in SUBSET Ion
  BY RoleAssumption DEF RoleAssumption, Started, Orphans
<1>4. tip \in Nat /\ left \in Nat /\ paid \subseteq Ion \X Node
  BY TipsAffordable
<1>5. fee \in Nat /\ fee <= left
  <2>1. IsFiniteSet(born \ recorded)
    BY <1>3, IonAssumption, FS_Subset DEF IonAssumption
  <2>2. Cardinality(born \ recorded) \in Nat
    BY <2>1, FS_CardinalityType
  <2> HIDE DEF left
  <2> QED BY <1>4, <2>2, MinimumNat DEF BirthFee
<1>6. atp' = [atp EXCEPT ![n] = left - fee] /\ atp[n] \in Nat
  BY <1>2 DEF Rescale, TypeOK
<1>7. UNCHANGED redeemed
  BY DEF ScaleTick
<1>8. /\ \A w \in net : w \in net'
      /\ \A w \in net' \ net : w.type = "VoucherRedeem" => \E t \in paid : w = f[t]
  <2> DEFINE asked == UNION {Broadcast("IonOffer", i, n) : i \in Offering(n, load)}
             tips  == {PayTo(t[1], n, t[2], HostingTip, c) : t \in paid}
             beats == UNION {Broadcast("IonHeartbeat", i, n) : i \in Kept(n, load)}
  <2>1. net' = net \cup asked \cup tips \cup beats
    BY <1>2 DEF Rescale
  <2>2. \A w \in asked \cup beats : w.type # "VoucherRedeem"
    BY DEF Broadcast, Envelope
  <2>3. \A w \in tips : \E t \in paid : w = f[t]
    OBVIOUS
  <2> HIDE DEF asked, tips, beats, f
  <2> QED BY <2>1, <2>2, <2>3
<1>9. \A t \in paid : f[t].from = n /\ f[t].amount = HostingTip
  BY DEF PayTo
<1>10. /\ IsFiniteSet(Owed' \ Owed) /\ Cardinality(Owed' \ Owed) \in Nat
       /\ Cardinality(Owed' \ Owed) <= Cardinality(paid) /\ Cardinality(paid) \in Nat
       /\ Owed \subseteq Owed'
       /\ \A v \in Owed' \ Owed : v.from = n /\ v.amount = HostingTip
  <2>1. IsFiniteSet(paid) /\ Cardinality(paid) \in Nat
    <3>1. IsFiniteSet(Ion \X Node)
      BY IonAssumption, NodeAssumption, FS_Product DEF IonAssumption, NodeAssumption
    <3> QED BY <1>4, <3>1, FS_Subset, FS_CardinalityType
  <2>2. Owed \subseteq Owed' /\ \A v \in Owed' \ Owed : \E t \in paid : v = f[t]
    <3> HIDE DEF f
    <3> QED BY <1>7, <1>8, OwedGrows
  <2>3. DOMAIN f = paid /\ f = [t \in paid |-> f[t]]
    OBVIOUS
  <2>4. \A v \in Owed' \ Owed : v.from = n /\ v.amount = HostingTip
    BY <1>9, <2>2
  <2> HIDE DEF f
  <2>5. IsFiniteSet(Owed' \ Owed) /\ Cardinality(Owed' \ Owed) <= Cardinality(paid)
        /\ Cardinality(Owed' \ Owed) \in Nat
    BY <2>1, <2>2, <2>3, ImageBound
  <2> QED BY <2>1, <2>2, <2>4, <2>5
<1> DEFINE cost == tip + fee
<1>11. cost \in Nat /\ cost <= atp[n] /\ tip <= cost /\ left - fee = atp[n] - cost
  <2>1. left = atp[n] - tip
    OBVIOUS
  <2> HIDE DEF left, tip, fee
  <2> QED BY <1>4, <1>5, <1>6, <2>1
<1>12. atp' = [atp EXCEPT ![n] = @ - cost]
  <2> HIDE DEF left, tip, fee, cost
  <2> QED BY <1>6, <1>11
<1>13. HostingTip \in Nat /\ HostingTip * Cardinality(Owed' \ Owed) <= cost
  <2>1. HostingTip \in Nat
    BY BoundAssumption DEF BoundAssumption
  <2>2. HostingTip * Cardinality(Owed' \ Owed) <= HostingTip * Cardinality(paid)
    BY <1>10, <2>1
  <2>3. HostingTip * Cardinality(Owed' \ Owed) <= tip
    BY <2>2
  <2>4. HostingTip * Cardinality(Owed' \ Owed) \in Nat
    BY <1>10, <2>1
  <2> HIDE DEF cost, tip
  <2> QED BY <1>4, <1>11, <2>1, <2>3, <2>4
<1> HIDE DEF cost
<1>14. Promise!Issue(n)
  BY <1>10, <1>11, <1>12, <1>13, PayingIssues
<1> QED BY <1>10, <1>14 DEF Mapped, Promise!PayNext

\* A voucher is credited unless the payee has registered it.
LEMMA RecvVoucherMapped ==
  ASSUME TypeOK, NEW m \in net, RecvVoucher(m) PROVE Mapped
<1>1. /\ m.to \in Node /\ m.type = "VoucherRedeem" /\ m \in Voucher
  BY ReceivedType DEF RecvVoucher, Receive
<1>2. /\ net' = net \ {m}
      /\ atp' = [atp EXCEPT ![m.to] = Credited(m.to, m)]
      /\ redeemed' = [redeemed EXCEPT ![m.to] = @ \cup {m}]
      /\ redeemed \in [Node -> SUBSET Voucher] /\ atp \in [Node -> Nat]
  BY DEF RecvVoucher, TypeOK
<1>3. \A w \in net : w.to \in Node
  BY ReceivedType
<1>4. Owed' = Owed \ {m}
  <2>1. ASSUME NEW w \in net, w # m PROVE w \in redeemed'[w.to] <=> w \in redeemed[w.to]
    BY <1>1, <1>2, <1>3, <2>1
  <2> QED BY <1>2, <2>1 DEF Owed
<1>5. IsFiniteSet(Owed' \ Owed)
  <2>1. Owed' \ Owed = {}
    BY <1>4
  <2> QED BY <2>1, FS_EmptySet
<1>6. CASE m \in redeemed[m.to]
  <2>1. atp' = atp
    BY <1>1, <1>2, <1>6 DEF Credited
  <2>2. Owed' = Owed
    BY <1>4, <1>6 DEF Owed
  <2> QED BY <1>5, <2>1, <2>2 DEF Mapped
<1>7. CASE m \notin redeemed[m.to]
  <2>1. m \in Owed
    BY <1>1, <1>7 DEF Owed
  <2>2. Promise!Credit(m)
    BY <1>2, <1>4, <1>7 DEF Credited, Promise!Credit
  <2> QED BY <1>5, <2>1, <2>2 DEF Mapped, Promise!PayNext
<1> QED BY <1>6, <1>7

LEMMA LoseMapped ==
  ASSUME TypeOK, NEW m \in net, Lose(m) PROVE Mapped
<1>1. Owed' = Owed \ {m} /\ UNCHANGED atp
  BY DEF Lose, Owed, book
<1>2. IsFiniteSet(Owed' \ Owed)
  <2>1. Owed' \ Owed = {}
    BY <1>1
  <2> QED BY <2>1, FS_EmptySet
<1>3. CASE m \in Owed
  BY <1>1, <1>2, <1>3 DEF Mapped, Promise!PayNext, Promise!Vanish
<1>4. CASE m \notin Owed
  <2>1. Owed' = Owed
    BY <1>1, <1>4
  <2> QED BY <1>1, <1>2, <2>1 DEF Mapped
<1> QED BY <1>3, <1>4

LEMMA DeliverMapped ==
  ASSUME TypeOK, NEW m \in net, Deliver(m) PROVE Mapped
<1>0. \A t, i, n : \A w \in Broadcast(t, i, n) : w.type = t
  BY DEF Broadcast, Envelope
<1>1. CASE RecvOffer(m)
  <2>1. m.type # "VoucherRedeem" /\ UNCHANGED <<atp, redeemed>>
    BY <1>1 DEF RecvOffer, Receive
  <2>2. \A w \in Broadcast("IonAccept", m.ion, m.to) : w.type # "VoucherRedeem"
    BY <1>0
  <2>3. net' = net \ {m} \/ net' = (net \ {m}) \cup Broadcast("IonAccept", m.ion, m.to)
    BY <1>1 DEF RecvOffer
  <2>4. \A w \in net \cup net' : w.type = "VoucherRedeem" => (w \in net <=> w \in net')
    BY <2>1, <2>2, <2>3
  <2> QED BY <2>1, <2>4, Stutters
<1>2. CASE RecvAccept(m)
  BY <1>2, RecvAcceptMapped
<1>3. CASE RecvMigrate(m)
  <2>1. m.type # "VoucherRedeem" /\ UNCHANGED <<atp, redeemed>>
    BY <1>3 DEF RecvMigrate, Receive
  <2>2. \A w \in Broadcast("IonReady", m.ion, m.to) : w.type # "VoucherRedeem"
    BY <1>0
  <2>3. net' = net \ {m} \/ net' = (net \ {m}) \cup Broadcast("IonReady", m.ion, m.to)
    BY <1>3 DEF RecvMigrate
  <2>4. \A w \in net \cup net' : w.type = "VoucherRedeem" => (w \in net <=> w \in net')
    BY <2>1, <2>2, <2>3
  <2> QED BY <2>1, <2>4, Stutters
<1>4. CASE RecvVoucher(m)
  BY <1>4, RecvVoucherMapped
<1>5. CASE DropSeen(m) \/ RejectMigrate(m) \/ RecvReady(m) \/ RecvHeartbeat(m) \/ RecvAnnounce(m)
  <2>1. m.type # "VoucherRedeem" /\ UNCHANGED <<atp, redeemed>> /\ net' = net \ {m}
    BY <1>5 DEF DropSeen, RejectMigrate, RecvReady, RecvHeartbeat, RecvAnnounce, Receive,
                Unicast, book
  <2>2. \A w \in net \cup net' : w.type = "VoucherRedeem" => (w \in net <=> w \in net')
    BY <2>1
  <2> QED BY <2>1, <2>2, Stutters
<1> QED BY <1>1, <1>2, <1>3, <1>4, <1>5 DEF Deliver

LEMMA StepMapped == ASSUME TypeOK, [Step]_vars PROVE Mapped
<1>1. CASE \E n \in Node, i \in Ion : Deploy(n, i)
  BY <1>1, DeployMapped
<1>2. CASE \E n, p \in Node, i \in Ion : OfferTo(n, i, p)
  BY <1>2, Stutters DEF OfferTo, Envelope, book
<1>3. CASE \E n \in Node : Atrophy(n)
  BY <1>3, AtrophyMapped
<1>4. CASE \E n \in Node : ZoneTick(n)
  <2>1. PICK n \in Node : ZoneTick(n)
    BY <1>4
  <2>2. \A w \in net \cup net' : w.type = "VoucherRedeem" => (w \in net <=> w \in net')
    BY <2>1 DEF ZoneTick, Broadcast, Envelope
  <2> QED BY <2>1, <2>2, Stutters DEF ZoneTick, book
<1>5. CASE \E n \in Node : ScaleTick(n)
  BY <1>5, ScaleTickMapped
<1>6. CASE \E n \in Node : PersistTick(n)
  BY <1>6, Stutters DEF PersistTick
<1>7. CASE \E m \in net : Deliver(m)
  BY <1>7, DeliverMapped
<1>8. CASE \E m \in net : Lose(m)
  BY <1>8, LoseMapped
<1>9. CASE Tick
  BY <1>9, Stutters DEF Tick, book
<1>10. CASE UNCHANGED vars
  BY <1>10, Stutters DEF vars, book
<1> QED BY <1>1, <1>2, <1>3, <1>4, <1>5, <1>6, <1>7, <1>8, <1>9, <1>10 DEF Step

\* Without crashes the vouchers implement the abstract payments: what a node
\* gains somebody gave up before, once, whatever is lost, late or reordered.
THEOREM PaymentsImplemented == SteadySpec => NothingMinted
<1>1. Init => TypeOK /\ Promise!PayInit
  BY TypeInit DEF Init, Owed, Promise!PayInit
<1>2. TypeOK /\ [Step]_vars => TypeOK'
  BY TypeNext DEF Next
<1>3. TypeOK /\ [Step]_vars => [Promise!PayNext]_<<atp, Owed>>
  BY StepMapped DEF Mapped
<1> QED BY <1>1, <1>2, <1>3, PTL DEF SteadySpec, NothingMinted, Promise!PaySpec

-----------------------------------------------------------------------------
(* Nothing is minted, in one number.                                       *)

\* What the nodes own and are owed.
Wealth == SumFunctionOnSet(atp, Node) + Promise!Amount(Owed)

\* Amounts are taken over any larger set of vouchers.
LEMMA AmountIn ==
  ASSUME NEW W \in SUBSET Voucher, IsFiniteSet(W), NEW V \in SUBSET W
  PROVE  Promise!Amount(V) = SumFunctionOnSet([v \in W |-> v.amount], V)
<1> DEFINE f == [v \in V |-> v.amount]
           g == [v \in W |-> v.amount]
<1>1. IsFiniteSet(V)
  BY FS_Subset
<1>2. \A v \in V : g[v] \in Int /\ f[v] = g[v]
  BY DEF Voucher
<1> HIDE DEF f, g
<1>3. SumFunctionOnSet(f, V) = SumFunctionOnSet(g, V)
  BY <1>1, <1>2, SumAgree
<1> QED BY <1>3, AmountIsSum DEF f, g

LEMMA AmountRules ==
  ASSUME NEW W \in SUBSET Voucher, IsFiniteSet(W)
  PROVE  /\ \A V \in SUBSET W : Promise!Amount(V) \in Nat
         /\ \A V \in SUBSET W : Promise!Amount(W) = Promise!Amount(V) + Promise!Amount(W \ V)
         /\ \A v \in W : Promise!Amount(W) = v.amount + Promise!Amount(W \ {v})
<1> DEFINE g == [v \in W |-> v.amount]
<1>1. \A v \in W : g[v] \in Nat /\ g[v] = v.amount
  BY DEF Voucher
<1> HIDE DEF g
<1>2. \A V \in SUBSET W : Promise!Amount(V) = SumFunctionOnSet(g, V)
  BY AmountIn DEF g
<1>3. \A V \in SUBSET W : Promise!Amount(V) \in Nat
  BY <1>1, <1>2, SumType
<1>4. \A v \in W : g[v] \in Int
  BY <1>1
<1>5. ASSUME NEW V \in SUBSET W
      PROVE  Promise!Amount(W) = Promise!Amount(V) + Promise!Amount(W \ V)
  <2> DEFINE R == W \ V
  <2>1. R \in SUBSET W /\ V \cap R = {} /\ V \cup R = W
    OBVIOUS
  <2> HIDE DEF R
  <2>2. SumFunctionOnSet(g, V \cup R) = SumFunctionOnSet(g, V) + SumFunctionOnSet(g, R)
    BY <1>4, <2>1, SumUnion
  <2>3. Promise!Amount(W) = Promise!Amount(V) + Promise!Amount(R)
    BY <1>2, <2>1, <2>2
  <2> QED BY <2>3 DEF R
<1>6. ASSUME NEW v \in W PROVE Promise!Amount(W) = v.amount + Promise!Amount(W \ {v})
  <2>1. W \in SUBSET W /\ W \ {v} \in SUBSET W
    OBVIOUS
  <2>2. SumFunctionOnSet(g, W) = g[v] + SumFunctionOnSet(g, W \ {v})
    BY <1>4, <2>1, SumSplit
  <2> QED BY <1>1, <1>2, <2>1, <2>2
<1> QED BY <1>3, <1>5, <1>6

LEMMA WealthStep ==
  ASSUME TypeOK, TypeOK', Mapped, IsFiniteSet(Owed)
  PROVE  IsFiniteSet(Owed') /\ Wealth \in Nat /\ Wealth' \in Nat /\ Wealth' <= Wealth
<1> DEFINE Sum(f) == SumFunctionOnSet(f, Node)
           A(V) == Promise!Amount(V)
<1>1. Owed \in SUBSET Voucher /\ Owed' \in SUBSET Voucher
  BY DEF Owed, TypeOK, Message, Voucher, Unicast, Gossip
<1>2. IsFiniteSet(Owed')
  <2>1. IsFiniteSet(Owed \cup (Owed' \ Owed)) /\ Owed' \in SUBSET (Owed \cup (Owed' \ Owed))
    BY FS_Union DEF Mapped
  <2> QED BY <2>1, FS_Subset
<1>3. IsFiniteSet(Node) /\ atp \in [Node -> Nat] /\ atp' \in [Node -> Nat]
  BY NodeAssumption DEF TypeOK, NodeAssumption
<1>4. Sum(atp) \in Nat /\ Sum(atp') \in Nat
  BY <1>3, SumType
<1>5. A(Owed) \in Nat /\ A(Owed') \in Nat
  BY <1>1, <1>2, AmountRules
<1>6. Wealth = Sum(atp) + A(Owed) /\ Wealth' = Sum(atp') + A(Owed')
  BY DEF Wealth
<1>7. ASSUME NEW n \in Node, NEW v \in Int, atp' = [atp EXCEPT ![n] = v]
      PROVE  Sum(atp') = Sum(atp) - atp[n] + v
  <2>1. /\ \A q \in Node : atp[q] \in Int /\ atp'[q] \in Int
        /\ \A q \in Node \ {n} : atp'[q] = atp[q]
        /\ atp'[n] = v /\ IsFiniteSet(Node)
    BY <1>3, <1>7
  <2> QED BY <2>1, SumChange
<1>8. ASSUME NEW n \in Node, Promise!Issue(n) PROVE Wealth' <= Wealth
  <2>1. Owed \subseteq Owed'
    BY <1>8 DEF Promise!Issue
  <2>2. PICK cost \in A(Owed' \ Owed) .. atp[n] : atp' = [atp EXCEPT ![n] = @ - cost]
    BY <1>8 DEF Promise!Issue
  <2>3. A(Owed') = A(Owed) + A(Owed' \ Owed) /\ A(Owed' \ Owed) \in Nat
    <3>1. Owed \in SUBSET Owed' /\ Owed' \ Owed \in SUBSET Owed'
      BY <2>1
    <3> QED BY <1>1, <1>2, <3>1, AmountRules
  <2>4. atp[n] \in Nat
    BY <1>3
  <2>5. Sum(atp') = Sum(atp) - atp[n] + (atp[n] - cost)
    <3>1. atp[n] - cost \in Int
      BY <2>2, <2>3, <2>4
    <3> QED BY <1>7, <2>2, <3>1
  <2> HIDE DEF Sum, A
  <2> QED BY <1>4, <1>5, <1>6, <2>2, <2>3, <2>4, <2>5
<1>9. ASSUME NEW v \in Owed, Promise!Credit(v) PROVE Wealth' <= Wealth
  <2>1. v.to \in Node /\ v.amount \in Nat
    BY <1>1 DEF Voucher
  <2>2. atp' = [atp EXCEPT ![v.to] = atp[v.to] + v.amount] /\ Owed' = Owed \ {v}
    BY <1>9 DEF Promise!Credit
  <2>3. atp[v.to] \in Nat
    BY <1>3, <2>1
  <2>4. Sum(atp') = Sum(atp) - atp[v.to] + (atp[v.to] + v.amount)
    <3>1. atp[v.to] + v.amount \in Int
      BY <2>1, <2>3
    <3> QED BY <1>7, <2>1, <2>2, <3>1
  <2>5. A(Owed) = v.amount + A(Owed')
    BY <1>1, <2>2, AmountRules
  <2> HIDE DEF Sum, A
  <2> QED BY <1>4, <1>5, <1>6, <2>1, <2>3, <2>4, <2>5
<1>10. ASSUME NEW v \in Owed, Promise!Vanish(v) PROVE Wealth' <= Wealth
  <2>1. atp' = atp /\ Owed' = Owed \ {v}
    BY <1>10 DEF Promise!Vanish
  <2>2. v.amount \in Nat
    BY <1>1 DEF Voucher
  <2>3. A(Owed) = v.amount + A(Owed')
    BY <1>1, <2>1, AmountRules
  <2>4. Sum(atp') = Sum(atp)
    BY <2>1
  <2> HIDE DEF Sum, A
  <2> QED BY <1>4, <1>5, <1>6, <2>2, <2>3, <2>4
<1>11. ASSUME UNCHANGED <<atp, Owed>> PROVE Wealth' <= Wealth
  <2>1. Sum(atp') = Sum(atp) /\ A(Owed') = A(Owed)
    BY <1>11
  <2> HIDE DEF Sum, A
  <2> QED BY <1>4, <1>5, <1>6, <2>1
<1>12. Wealth' <= Wealth
  BY <1>8, <1>9, <1>10, <1>11 DEF Mapped, Promise!PayNext
<1>13. Wealth \in Nat /\ Wealth' \in Nat
  <2> HIDE DEF Sum, A
  <2> QED BY <1>4, <1>5, <1>6
<1> QED BY <1>2, <1>12, <1>13

\* Without crashes the economy is closed: balances and vouchers together
\* never exceed what the ledgers started with.
THEOREM SupplyBounded == SteadySpec => [](Wealth <= InitialATP * Cardinality(Node))
<1> DEFINE Supply == InitialATP * Cardinality(Node)
           Inv == TypeOK /\ IsFiniteSet(Owed) /\ Wealth <= Supply
<1>1. Supply \in Nat
  BY BoundAssumption, NodeAssumption, FS_CardinalityType DEF BoundAssumption, NodeAssumption
<1>2. ASSUME Init PROVE Inv
  <2>1. TypeOK /\ Owed = {}
    BY <1>2, TypeInit DEF Init, Owed
  <2>2. \A n \in Node : atp[n] = InitialATP
    BY <1>2 DEF Init
  <2>3. IsFiniteSet(Node) /\ InitialATP \in Int
    BY NodeAssumption, BoundAssumption DEF NodeAssumption, BoundAssumption
  <2>4. SumFunctionOnSet(atp, Node) = Supply
    BY <2>2, <2>3, SumConstant
  <2>5. IsFiniteSet(Owed)
    BY <2>1, FS_EmptySet
  <2>6. Promise!Amount(Owed) = 0
    BY <2>1, AmountIsSum, SumEmpty
  <2> HIDE DEF Supply
  <2> QED BY <1>1, <2>1, <2>4, <2>5, <2>6 DEF Wealth
<1>3. ASSUME Inv, [Step]_vars PROVE Inv'
  <2>1. TypeOK' /\ Mapped
    BY <1>3, TypeNext, StepMapped DEF Next
  <2>2. IsFiniteSet(Owed') /\ Wealth \in Nat /\ Wealth' \in Nat /\ Wealth' <= Wealth
    BY <1>3, <2>1, WealthStep
  <2>3. Supply' = Supply
    OBVIOUS
  <2> HIDE DEF Supply
  <2> QED BY <1>1, <1>3, <2>1, <2>2, <2>3
<1>4. Inv => Wealth <= Supply
  OBVIOUS
<1> QED BY <1>2, <1>3, <1>4, PTL DEF SteadySpec
=============================================================================
