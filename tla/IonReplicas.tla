---------------------------- MODULE IonReplicas ----------------------------
(***************************************************************************)
(* Replication of Plasma Ions by mycelium-node (organism.rs).  Every node  *)
(* runs one daemon task, so a handler or a tick is one atomic step; nodes  *)
(* interact only by gossip ("lattice") envelopes and DTN unicasts.         *)
(*                                                                         *)
(* An ion under load is offered (IonOffer), accepted (IonAccept), copied   *)
(* (IonMigrate) and announced (IonReady); live replicas keep each other's  *)
(* routes alive (IonHeartbeat) and are listed in a catalogue (IonAnnounce);*)
(* an ion idle for several windows is recombined where a replica with a    *)
(* smaller NodeId covers it; a community service nobody serves is          *)
(* materialised again from its plot.  Hosting is paid in ATP vouchers.     *)
(*                                                                         *)
(* Clock readings are kept as ages (now minus the stored timestamp) in     *)
(* units of one minute, saturated at the largest TTL the code compares.    *)
(***************************************************************************)
EXTENDS Integers, FiniteSets

CONSTANTS
  Node,            \* NodeIds; the code orders them, so they are numbers
  Ion,             \* ion names
  Host,            \* nodes that contribute CPU (resources.cpu_cores > 0)
  Operator,        \* nodes whose operator asks for migrations by hand
  Public,          \* nodes that advertise a non-loopback upstream
  PlotHolder,      \* PlotHolder[i]: nodes whose bank holds ion i's public plot
  ServiceIon,      \* ions whose plot is a community service
  Mortal,          \* nodes whose daemon may crash
  MayFail,         \* may starting a chamber process fail?
  MaxDesired,      \* largest replica count a load can ask for
  RecombineAfter,  \* idle windows before recombining (3)
  HeartbeatTTL,    \* REPLICA_HEARTBEAT_TTL (120 s)
  AnchorTTL,       \* ANCHOR_TTL_SECS (180 s)
  CatalogTTL,      \* TTL of peer_ions (300 s)
  OfferCooldown,   \* OFFER_COOLDOWN (120 s)
  InitialATP, HostingReward, HostingTip,
  MaxClock         \* bound on the distinct seconds in which a node pays

ASSUME NodeAssumption == Node \subseteq Nat /\ IsFiniteSet(Node)
ASSUME IonAssumption  == IsFiniteSet(Ion)
ASSUME RoleAssumption ==
  /\ Host \subseteq Node /\ Operator \subseteq Node /\ Public \subseteq Node /\ Mortal \subseteq Node
  /\ PlotHolder \in [Ion -> SUBSET Node] /\ ServiceIon \subseteq Ion
  /\ MayFail \in BOOLEAN
ASSUME BoundAssumption ==
  /\ MaxDesired \in Nat /\ RecombineAfter \in Nat /\ OfferCooldown \in Nat
  /\ HeartbeatTTL \in Nat /\ AnchorTTL \in Nat /\ CatalogTTL \in Nat
  /\ HeartbeatTTL <= CatalogTTL /\ AnchorTTL <= CatalogTTL
  /\ InitialATP \in Nat /\ HostingReward \in Nat \ {0} /\ HostingTip \in Nat \ {0}
  /\ MaxClock \in Nat

VARIABLES
  up,        \* is the daemon of the node running?
  chambers,  \* chambers[n]: ions with a local chamber process
  records,   \* records[n]: state.ions on disk, re-fruited by awaken
  replicas,  \* replicas[n][i]: ion_replica_peers
  beat,      \* beat[n][i][p]: age of ion_replica_heartbeat[(i, p)]
  catalog,   \* catalog[n][p]: ions in peer_ions[p] (persisted)
  heard,     \* heard[n][p]: age of the timestamp of peer_ions[p]
  windows,   \* windows[n][i]: zero_load_windows, saturated
  offered,   \* offered[n][i]: age of last_scaling_offer, saturated
  pending,   \* pending[n]: pending_accepted_migrations
  routes,    \* routes[n][i]: nodes orbiting i in the node's Event Horizon
  atp,       \* ledger balance in memory
  saved,     \* ledger balance on disk
  redeemed,  \* vouchers whose id the payee has registered
  stamp,     \* the second of the node's last voucher
  seen,      \* ids of the DTN bundles the node has received (in memory)
  net        \* envelopes in flight, one per receiver

service == <<chambers, records, routes>>
peering == <<replicas, beat>>
listing == <<catalog, heard>>
scaling == <<windows, offered>>
book    == <<atp, saved, redeemed, stamp>>
vars    == <<up, service, peering, listing, scaling, pending, book, seen, net>>

Age     == 0 .. CatalogTTL
Minimum(a, b) == IF a <= b THEN a ELSE b

\* Envelope::Direct over the DTN, and gossip on the lattice topic.
Unicast == {"DirectOffer", "IonMigrate"}
Gossip  == {"IonOffer", "IonAccept", "IonReady", "IonHeartbeat", "IonAnnounce"}
Voucher == [type : {"VoucherRedeem"}, ion : Ion, from : Node, to : Node,
            amount : Nat, clock : Nat]
Message == [type : Unicast \cup Gossip, ion : Ion, from : Node, to : Node]
             \cup Voucher

TypeOK ==
  /\ up \in [Node -> BOOLEAN]
  /\ chambers \in [Node -> SUBSET Ion]
  /\ records \in [Node -> SUBSET Ion]
  /\ replicas \in [Node -> [Ion -> SUBSET Node]]
  /\ beat \in [Node -> [Ion -> [Node -> Age]]]
  /\ catalog \in [Node -> [Node -> SUBSET Ion]]
  /\ heard \in [Node -> [Node -> Age]]
  /\ windows \in [Node -> [Ion -> 0 .. RecombineAfter]]
  /\ offered \in [Node -> [Ion -> 0 .. OfferCooldown]]
  /\ pending \in [Node -> SUBSET Ion]
  /\ routes \in [Node -> [Ion -> SUBSET Node]]
  /\ atp \in [Node -> Nat]
  /\ saved \in [Node -> Nat]
  /\ redeemed \in [Node -> SUBSET Voucher]
  /\ stamp \in [Node -> Nat]
  /\ seen \in [Node -> SUBSET (Unicast \X Ion \X Node)]
  /\ net \subseteq Message

Init ==
  /\ up = [n \in Node |-> TRUE]
  /\ chambers = [n \in Node |-> {}]
  /\ records = [n \in Node |-> {}]
  /\ replicas = [n \in Node |-> [i \in Ion |-> {}]]
  /\ beat = [n \in Node |-> [i \in Ion |-> [p \in Node |-> 0]]]
  /\ catalog = [n \in Node |-> [p \in Node |-> {}]]
  /\ heard = [n \in Node |-> [p \in Node |-> 0]]
  /\ windows = [n \in Node |-> [i \in Ion |-> 0]]
  /\ offered = [n \in Node |-> [i \in Ion |-> OfferCooldown]]
  /\ pending = [n \in Node |-> {}]
  /\ routes = [n \in Node |-> [i \in Ion |-> {}]]
  /\ atp = [n \in Node |-> InitialATP]
  /\ saved = [n \in Node |-> InitialATP]
  /\ redeemed = [n \in Node |-> {}]
  /\ stamp = [n \in Node |-> 0]
  /\ seen = [n \in Node |-> {}]
  /\ net = {}

-----------------------------------------------------------------------------
(* Envelopes.  A broadcast reaches each other node at most once; any copy  *)
(* may be lost, and copies are delivered in any order.  A unicast travels  *)
(* as a DTN bundle whose id is the hash of its content, which names the    *)
(* receiver but, for a migration, not the sender; a bundle whose id was    *)
(* seen before is dropped.                                                 *)

Envelope(t, i, n, p) == [type |-> t, ion |-> i, from |-> n, to |-> p]
Broadcast(t, i, n)  == {Envelope(t, i, n, p) : p \in Node \ {n}}
PayTo(i, n, p, a, c) == [type |-> "VoucherRedeem", ion |-> i, from |-> n,
                         to |-> p, amount |-> a, clock |-> c]

BundleId(m) == <<m.type, m.ion, IF m.type = "IonMigrate" THEN m.to ELSE m.from>>

Receive(m, types) ==
  /\ m \in net /\ m.type \in types /\ up[m.to]
  /\ m.type \in Unicast => BundleId(m) \notin seen[m.to]

\* A received unicast is marked as seen before it is handled.
MarkSeen(m) ==
  seen' = IF m.type \in Unicast
          THEN [seen EXCEPT ![m.to] = @ \cup {BundleId(m)}] ELSE seen

\* A handler that forgets persist().
PersistSkipped(n) == UNCHANGED saved

\* handle_envelope ends with persist(), which writes the ledger.
Persist(n) == saved' = [saved EXCEPT ![n] = atp'[n]]

\* Starting chamber processes: those of the set that come up.
Started(S) == IF MayFail THEN SUBSET S ELSE {S}

\* The second a payment is stamped with: that of the last one or a later one.
Seconds(n) == {stamp[n], stamp[n] + 1} \cap 0 .. MaxClock

-----------------------------------------------------------------------------
(* Births: birth_ion and fruit_ion.                                        *)

\* birth_ion fruits an ion that has no record, or a record and no chamber.
NeedsBirth(n, i) == i \notin records[n] \/ i \notin chambers[n]

\* A fee charged whatever the balance is.
BirthFeeUnchecked(recorded, born, balance) == Cardinality(born \ recorded)

\* A birth that writes a record costs one ATP while there is any.
BirthFee(recorded, born, balance) ==
  Minimum(Cardinality(born \ recorded), balance)

\* The deployment pipeline (or the operator) fruits ion i at node n.
Deploy(n, i) ==
  /\ up[n] /\ n \in PlotHolder[i] /\ NeedsBirth(n, i)
  /\ chambers' = [chambers EXCEPT ![n] = @ \cup {i}]
  /\ records' = [records EXCEPT ![n] = @ \cup {i}]
  /\ routes' = [routes EXCEPT ![n][i] = @ \cup {n}]
  /\ atp' = [atp EXCEPT ![n] = @ - BirthFee(records[n], {i}, @)]
  /\ saved' = IF i \in records[n] THEN saved ELSE [saved EXCEPT ![n] = atp'[n]]
  /\ UNCHANGED <<up, peering, listing, scaling, pending,
                 redeemed, stamp, seen, net>>

\* Orphans looked up in the catalogue, which also lists the dead.
OrphansUnlisted(n, here, peers) ==
  {i \in ServiceIon : /\ n \in PlotHolder[i] /\ i \notin here
                      /\ \A p \in Node : i \notin catalog[n][p]}

\* check_auto_materialize_orphaned_services: services with a local plot, no
\* local chamber and no known remote replica.
Orphans(n, here, peers) ==
  {i \in ServiceIon : n \in PlotHolder[i] /\ i \notin here /\ peers[i] = {}}

\* A neighbour disconnects (HyphaEvent::Atrophy).
Atrophy(n) ==
  /\ up[n]
  /\ \E born \in Started(Orphans(n, chambers[n], replicas[n])) :
       /\ born # {}
       /\ chambers' = [chambers EXCEPT ![n] = @ \cup born]
       /\ records' = [records EXCEPT ![n] = @ \cup born]
       /\ routes' = [routes EXCEPT ![n] =
                       [i \in Ion |-> @[i] \cup (IF i \in born THEN {n} ELSE {})]]
       /\ atp' = [atp EXCEPT ![n] = @ - BirthFee(records[n], born, @)]
       /\ saved' = IF born \subseteq records[n] THEN saved
                   ELSE [saved EXCEPT ![n] = atp'[n]]
  /\ UNCHANGED <<up, peering, listing, scaling, pending,
                 redeemed, stamp, seen, net>>

-----------------------------------------------------------------------------
(* The migration handshake.                                                *)

\* `mycelium ion-migrate`: a unicast offer to a chosen acceptor.
OfferTo(n, i, p) ==
  /\ up[n] /\ n \in Operator /\ i \in chambers[n] /\ p # n
  /\ net' = net \cup {Envelope("DirectOffer", i, n, p)}
  /\ UNCHANGED <<up, service, peering, listing, scaling,
                 pending, book, seen>>

\* An offer is accepted by any node with CPU that does not hold the ion.
RecvOffer(m) ==
  LET n == m.to IN
  /\ Receive(m, {"IonOffer", "DirectOffer"}) /\ MarkSeen(m)
  /\ IF n \in Host /\ m.ion \notin chambers[n]
     THEN /\ pending' = [pending EXCEPT ![n] = @ \cup {m.ion}]
          /\ net' = (net \ {m}) \cup Broadcast("IonAccept", m.ion, n)
          /\ saved' = [saved EXCEPT ![n] = atp[n]]
     ELSE /\ net' = net \ {m}
          /\ UNCHANGED <<pending, saved>>
  /\ UNCHANGED <<up, service, peering, listing, scaling,
                 atp, redeemed, stamp>>

\* Every holder that hears the acceptance, not only the one that offered,
\* sends the layers and pays the acceptor if it can.
RecvAccept(m) ==
  LET n    == m.to
      pays == m.ion \in chambers[n] /\ atp[n] >= HostingReward
  IN
  /\ Receive(m, {"IonAccept"})
  /\ \E c \in IF pays THEN Seconds(n) ELSE {stamp[n]} :
       /\ net' = (net \ {m})
                 \cup (IF m.ion \in chambers[n]
                       THEN {Envelope("IonMigrate", m.ion, n, m.from)} ELSE {})
                 \cup (IF pays
                       THEN {PayTo(m.ion, n, m.from, HostingReward, c)} ELSE {})
       /\ stamp' = [stamp EXCEPT ![n] = c]
  /\ atp' = [atp EXCEPT ![n] = IF pays THEN @ - HostingReward ELSE @]
  /\ windows' = IF m.ion \in chambers[n]
                THEN [windows EXCEPT ![n][m.ion] = 0] ELSE windows
  /\ Persist(n)
  /\ UNCHANGED <<up, service, peering, listing, offered,
                 pending, redeemed, seen>>

\* A bundle with a known id is dropped, whoever sent it.
DropSeen(m) ==
  /\ m \in net /\ m.type \in Unicast /\ up[m.to] /\ BundleId(m) \in seen[m.to]
  /\ net' = net \ {m}
  /\ UNCHANGED <<up, service, peering, listing, scaling,
                 pending, book, seen>>

\* A migration nobody asked for is rejected.
RejectMigrate(m) ==
  /\ Receive(m, {"IonMigrate"}) /\ MarkSeen(m) /\ m.ion \notin pending[m.to]
  /\ net' = net \ {m}
  /\ UNCHANGED <<up, service, peering, listing, scaling, pending, book>>

\* A migration consumes the acceptance.  It fruits the chamber and announces
\* the replica, without a record on disk; or layers are missing or the
\* process does not start, and nothing is left of the handshake.
RecvMigrate(m) ==
  LET n == m.to IN
  /\ Receive(m, {"IonMigrate"}) /\ MarkSeen(m) /\ m.ion \in pending[n]
  /\ pending' = [pending EXCEPT ![n] = @ \ {m.ion}]
  /\ \E born \in Started({m.ion}) :
       /\ chambers' = [chambers EXCEPT ![n] = @ \cup born]
       /\ routes' = [routes EXCEPT ![n][m.ion] =
                       @ \cup (IF born = {} THEN {} ELSE {n})]
       /\ net' = (net \ {m})
                 \cup (IF born = {} THEN {} ELSE Broadcast("IonReady", m.ion, n))
       /\ saved' \in {saved, [saved EXCEPT ![n] = atp[n]]}
       /\ born # {} => saved'[n] = atp[n]
  /\ UNCHANGED <<up, records, peering, listing, scaling,
                 atp, redeemed, stamp>>

\* A replica is registered and routed unless it advertises a loopback address.
RecvReady(m) ==
  LET n == m.to IN
  /\ Receive(m, {"IonReady"})
  /\ net' = net \ {m}
  /\ IF m.from \in Public
     THEN /\ replicas' = [replicas EXCEPT ![n][m.ion] = @ \cup {m.from}]
          /\ beat' = [beat EXCEPT ![n][m.ion][m.from] = 0]
          /\ routes' = [routes EXCEPT ![n][m.ion] = @ \cup {m.from}]
     ELSE UNCHANGED <<replicas, beat, routes>>
  /\ saved' = [saved EXCEPT ![n] = atp[n]]
  /\ UNCHANGED <<up, chambers, records, listing, scaling, pending,
                 atp, redeemed, stamp, seen>>

-----------------------------------------------------------------------------
(* Liveness of replicas: heartbeats and the catalogue.                     *)

\* A heartbeat renews only a replica already registered for that ion.
RecvHeartbeat(m) ==
  LET n == m.to
      known == m.from \in replicas[n][m.ion] IN
  /\ Receive(m, {"IonHeartbeat"})
  /\ net' = net \ {m}
  /\ beat' = IF known THEN [beat EXCEPT ![n][m.ion][m.from] = 0] ELSE beat
  /\ saved' = IF known THEN [saved EXCEPT ![n] = atp[n]] ELSE saved
  /\ UNCHANGED <<up, service, replicas, listing, scaling, pending,
                 atp, redeemed, stamp, seen>>

\* An announcement adds the ion to the peer's list and renews the whole list.
RecvAnnounce(m) ==
  LET n == m.to IN
  /\ Receive(m, {"IonAnnounce"})
  /\ net' = net \ {m}
  /\ catalog' = [catalog EXCEPT ![n][m.from] = @ \cup {m.ion}]
  /\ heard' = [heard EXCEPT ![n][m.from] = 0]
  /\ saved' = [saved EXCEPT ![n] = atp[n]]
  /\ UNCHANGED <<up, service, peering, scaling, pending,
                 atp, redeemed, stamp, seen>>

\* The zone tick announces every local ion and prunes silent peers.
ZoneTick(n) ==
  LET stale == {p \in Node : heard[n][p] >= CatalogTTL} IN
  /\ up[n]
  /\ net' = net \cup UNION {Broadcast("IonAnnounce", i, n) : i \in chambers[n]}
  /\ catalog' = [catalog EXCEPT ![n] =
                   [p \in Node |-> IF p \in stale THEN {} ELSE @[p]]]
  /\ heard' = [heard EXCEPT ![n] =
                   [p \in Node |-> IF p \in stale THEN 0 ELSE @[p]]]
  /\ UNCHANGED <<up, service, peering, scaling, pending, book, seen>>

-----------------------------------------------------------------------------
(* The scaling tick: plasma_scale_tick.                                    *)

\* Any registered replica covers (the rule before the anchor was introduced).
CoveredByAny(n, i) == replicas[n][i] # {}

\* Any replica with a fresh announcement covers, whatever its NodeId.
CoveredByFresh(n, i) ==
  \E p \in replicas[n][i] : i \in catalog[n][p] /\ heard[n][p] < AnchorTTL

\* A registered replica with a smaller NodeId whose announcement is fresh.
CoveredBySmaller(n, i) ==
  \E p \in replicas[n][i] :
    /\ p < n
    /\ i \in catalog[n][p]
    /\ heard[n][p] < AnchorTTL

\* Load 0 is an idle window, 1 some traffic, k >= 2 a positive charge that
\* asks for k replicas (Ion::sense).
Idle(n, load) ==
  [i \in Ion |-> IF i \notin chambers[n] THEN windows[n][i]
                 ELSE IF load[i] = 0 THEN Minimum(windows[n][i] + 1, RecombineAfter)
                 ELSE 0]

Offering(n, load) ==
  {i \in chambers[n] : /\ load[i] >= 2
                       /\ 1 + Cardinality(replicas[n][i]) < load[i]
                       /\ offered[n][i] >= OfferCooldown}

Recombined(n, load) ==
  {i \in chambers[n] : /\ Idle(n, load)[i] >= RecombineAfter
                       /\ CoveredBySmaller(n, i)}

\* Every remote replica of an ion with traffic is tipped while ATP lasts.
Tips(n, load, here) ==
  {t \in here \X Node : load[t[1]] > 0 /\ t[2] \in replicas[n][t[1]]}

Tipped(n, tips) ==
  {paid \in SUBSET tips :
     /\ HostingTip * Cardinality(paid) <= atp[n]
     /\ paid = tips \/ HostingTip * (Cardinality(paid) + 1) > atp[n]}

Expired(n, i) == {p \in replicas[n][i] : beat[n][i][p] >= HeartbeatTTL}

\* What remains after recombining and after dropping silent replicas.
Kept(n, load) == chambers[n] \ Recombined(n, load)
Peers(n)      == [i \in Ion |-> replicas[n][i] \ Expired(n, i)]

\* Silent replicas forgotten without collapsing their orbits.
OrbitsLeft(n, i, gone, born) ==
  (IF i \in gone THEN {} ELSE routes[n][i]) \cup (IF i \in born THEN {n} ELSE {})

\* Recombining removes the ion from the Event Horizon, remote orbits included;
\* dropping a silent replica collapses its orbit.
OrbitsAfter(n, i, gone, born) ==
  (IF i \in gone THEN {} ELSE routes[n][i] \ Expired(n, i))
    \cup (IF i \in born THEN {n} ELSE {})

\* Under `load`, with the tips `paid` in second c and the orphans `born`.
Rescale(n, load, paid, born, c) ==
  LET offers   == Offering(n, load)
      gone     == Recombined(n, load)
      recorded == records[n] \ gone
  IN
  /\ stamp' = [stamp EXCEPT ![n] = c]
  /\ windows' = [windows EXCEPT ![n] =
       [i \in Ion |-> IF i \in gone THEN 0 ELSE Idle(n, load)[i]]]
  /\ offered' = [offered EXCEPT ![n] =
       [i \in Ion |-> IF i \in gone THEN OfferCooldown
                      ELSE IF i \in offers THEN 0 ELSE @[i]]]
  /\ chambers' = [chambers EXCEPT ![n] = Kept(n, load) \cup born]
  /\ records' = [records EXCEPT ![n] = recorded \cup born]
  /\ replicas' = [replicas EXCEPT ![n] = Peers(n)]
  /\ beat' = [beat EXCEPT ![n] = [i \in Ion |-> [p \in Node |->
       IF p \in Peers(n)[i] THEN @[i][p] ELSE 0]]]
  /\ routes' = [routes EXCEPT ![n] = [i \in Ion |-> OrbitsAfter(n, i, gone, born)]]
  /\ atp' = [atp EXCEPT ![n] =
       LET left == @ - HostingTip * Cardinality(paid)
       IN  left - BirthFee(recorded, born, left)]
  /\ saved' = [saved EXCEPT ![n] =
       IF ~(born \subseteq recorded) THEN atp'[n]
       ELSE IF gone # {} THEN atp[n] ELSE @]
  /\ net' = net
       \cup (UNION {Broadcast("IonOffer", i, n) : i \in offers})
       \cup {PayTo(t[1], n, t[2], HostingTip, c) : t \in paid}
       \cup (UNION {Broadcast("IonHeartbeat", i, n) : i \in Kept(n, load)})

ScaleTick(n) ==
  /\ up[n]
  /\ \E load \in [chambers[n] -> 0 .. MaxDesired] :
     \E paid \in Tipped(n, Tips(n, load, Kept(n, load))),
        born \in Started(Orphans(n, Kept(n, load), Peers(n))),
        c \in Seconds(n) :
       /\ paid = {} => c = stamp[n]
       /\ Rescale(n, load, paid, born, c)
  /\ UNCHANGED <<up, listing, pending, redeemed, seen>>

-----------------------------------------------------------------------------
(* Vouchers, time, the network and crashes.                                *)

\* A payee that does not look a voucher up before crediting it.
CreditedAgain(n, m) == atp[n] + m.amount

\* The payee credits a voucher unless its id is already registered.  The id
\* hashes the signed fields, so equal fields are the same voucher.
Credited(n, m) == IF m \in redeemed[n] THEN atp[n] ELSE atp[n] + m.amount

RecvVoucher(m) ==
  LET n == m.to IN
  /\ Receive(m, {"VoucherRedeem"})
  /\ net' = net \ {m}
  /\ atp' = [atp EXCEPT ![n] = Credited(n, m)]
  /\ redeemed' = [redeemed EXCEPT ![n] = @ \cup {m}]
  /\ Persist(n)
  /\ UNCHANGED <<up, service, peering, listing, scaling,
                 pending, stamp, seen>>

\* The persist tick, or any other envelope, writes the ledger.
PersistTick(n) ==
  /\ up[n]
  /\ saved' = [saved EXCEPT ![n] = atp[n]]
  /\ UNCHANGED <<up, service, peering, listing, scaling, pending,
                 atp, redeemed, stamp, seen, net>>

\* One unit of time.
Tick ==
  /\ beat' = [n \in Node |-> [i \in Ion |-> [p \in Node |->
                IF p \in replicas[n][i]
                THEN Minimum(beat[n][i][p] + 1, CatalogTTL) ELSE 0]]]
  /\ heard' = [n \in Node |-> [p \in Node |->
                 IF catalog[n][p] = {} THEN 0
                 ELSE Minimum(heard[n][p] + 1, CatalogTTL)]]
  /\ offered' = [n \in Node |-> [i \in Ion |->
                   Minimum(offered[n][i] + 1, OfferCooldown)]]
  /\ UNCHANGED <<up, service, replicas, catalog, windows,
                 pending, book, seen, net>>

\* An envelope is lost.
Lose(m) ==
  /\ m \in net
  /\ net' = net \ {m}
  /\ UNCHANGED <<up, service, peering, listing, scaling,
                 pending, book, seen>>

\* The daemon stops without writing anything: chambers die with it, and
\* gossip on its way to the node is lost (unicasts wait in a DTN store).
Crash(n) ==
  /\ up[n]
  /\ up' = [up EXCEPT ![n] = FALSE]
  /\ chambers' = [chambers EXCEPT ![n] = {}]
  /\ replicas' = [replicas EXCEPT ![n] = [i \in Ion |-> {}]]
  /\ beat' = [beat EXCEPT ![n] = [i \in Ion |-> [p \in Node |-> 0]]]
  /\ windows' = [windows EXCEPT ![n] = [i \in Ion |-> 0]]
  /\ offered' = [offered EXCEPT ![n] = [i \in Ion |-> OfferCooldown]]
  /\ pending' = [pending EXCEPT ![n] = {}]
  /\ routes' = [routes EXCEPT ![n] = [i \in Ion |-> {}]]
  /\ atp' = [atp EXCEPT ![n] = saved[n]]
  /\ net' = {m \in net : m.to # n \/ m.type \in Unicast}
  /\ seen' = [seen EXCEPT ![n] = {}]
  /\ UNCHANGED <<records, listing, saved, redeemed, stamp>>

\* awaken: the recorded ions are fruited again; peer_ions is read from disk.
Restart(n) ==
  /\ ~up[n]
  /\ up' = [up EXCEPT ![n] = TRUE]
  /\ \E born \in Started(records[n]) :
       /\ chambers' = [chambers EXCEPT ![n] = born]
       /\ routes' = [routes EXCEPT ![n] =
                       [i \in Ion |-> IF i \in born THEN {n} ELSE {}]]
  /\ UNCHANGED <<records, peering, listing, scaling, pending,
                 book, seen, net>>

-----------------------------------------------------------------------------
Deliver(m) ==
  \/ RecvOffer(m)
  \/ RecvAccept(m)
  \/ DropSeen(m)
  \/ RejectMigrate(m)
  \/ RecvMigrate(m)
  \/ RecvReady(m)
  \/ RecvHeartbeat(m)
  \/ RecvAnnounce(m)
  \/ RecvVoucher(m)

Step ==
  \/ \E n \in Node, i \in Ion : Deploy(n, i)
  \/ \E n, p \in Node, i \in Ion : OfferTo(n, i, p)
  \/ \E n \in Node : Atrophy(n) \/ ZoneTick(n) \/ ScaleTick(n) \/ PersistTick(n)
  \/ \E m \in net : Deliver(m) \/ Lose(m)
  \/ Tick

Fault == \E n \in Mortal : Crash(n) \/ Restart(n)

Next == Step \/ Fault

\* Without and with crashes.
SteadySpec == Init /\ [][Step]_vars
Spec       == Init /\ [][Next]_vars

\* Timers of the daemon's select! loop fire again and again; nothing is
\* assumed of the network, of the operator or of crashed nodes.
TimerFairness == WF_vars(Tick) /\ \A n \in Node : WF_vars(ScaleTick(n))
LiveSpec == Spec /\ TimerFairness

-----------------------------------------------------------------------------
(* Properties.                                                             *)

Holders(i) == {n \in Node : i \in chambers[n]}

\* Replicas of i somebody believes in: registered, or announced and not yet
\* delivered.
Claimed(i) ==
  {p \in Node : \/ \E n \in Node : p \in replicas[n][i]
                \/ \E m \in net : m.type = "IonReady" /\ m.ion = i /\ m.from = p}

\* A believed replica may be gone, but then one with a smaller NodeId (to
\* which it gave way) is alive.  This is why trusting stale announcements is
\* harmless as long as no daemon crashes.
Covered == \A i \in Ion : \A p \in Claimed(i) : \E h \in Holders(i) : h <= p

\* A running daemon gives up a chamber (recombination in plasma_scale_tick)
\* only if a live replica has a smaller NodeId: "o menor NodeId vivo é o
\* âncora determinístico e nunca recombina".
GivesWay(n, i) ==
  (up[n] /\ up'[n] /\ i \in chambers[n] /\ i \notin chambers'[n])
    => \E h \in Holders(i) : h < n
AnchorNeverRecombines == [][\A n \in Node, i \in Ion : GivesWay(n, i)]_vars

\* No sequence of offers, migrations, lost or delayed announcements and
\* recombinations takes an ion's last replica from the network.
Survives(i) == Holders(i) # {} => \E n \in Node : i \in chambers'[n]
IonSurvives == [][\A i \in Ion : Survives(i)]_vars

\* The Event Horizon and the replica tables agree, through births,
\* recombinations, expiries, crashes and restarts: the node orbits exactly
\* the ions it has a chamber for, and every remote orbit is of a registered
\* replica, so that an expiring heartbeat always finds the orbit to collapse.
RoutesBacked ==
  \A n \in Node, i \in Ion :
    /\ n \in routes[n][i] <=> i \in chambers[n]
    /\ routes[n][i] \ {n} \subseteq replicas[n][i]

\* The orbit of a replica that stopped serving is collapsed in the end,
\* whatever announcements are still on their way.
DeadOrbitCollapses ==
  \A n, p \in Node, i \in Ion :
    n # p => (p \in routes[n][i] ~> p \notin routes[n][i] \/ i \in chambers[p])

\* A community service is served again and again by somebody as long as one
\* node that does not crash holds its plot.
ServiceSurvivesPublisher ==
  \A i \in ServiceIon :
    PlotHolder[i] \ Mortal # {} => []<>(Holders(i) # {})
=============================================================================
