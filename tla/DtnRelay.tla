------------------------------ MODULE DtnRelay ------------------------------
(***************************************************************************)
(* Store-and-forward unicast of mycelium-hyphae: forward_or_store_dtn, the *)
(* DtnBundleStore and the part of the daemon that feeds them.  This is the *)
(* channel IonReplicas sends its unicasts on.                              *)
(*                                                                         *)
(* A bundle whose receiver's transport address (PeerId) is known goes to   *)
(* the receiver or waits for it.  Otherwise it goes to the connected       *)
(* neighbour whose hashed PeerId is XOR-closest to the receiver's NodeId,  *)
(* if it is closer than the node itself, or waits.  Addresses are learnt   *)
(* from received bundles and from pheromones, which a daemon secretes once.*)
(***************************************************************************)
EXTENDS Integers, FiniteSets, Functions

CONSTANTS
  Node,      \* nodes
  Reach,     \* pairs of nodes that can connect
  Mortal,    \* nodes whose daemon may stop and start again
  Bundle,    \* bundle ids (the hash of the enveloped content)
  Src, Dst,  \* Src[b], Dst[b]: sender and receiver
  Rank,      \* Rank[d][n]: XOR distance of n's hashed PeerId to d's NodeId
  Size,      \* Size[b]: bytes of the payload
  JsonSize,  \* JsonSize[b]: bytes of the bundle's file
  MaxHops,   \* max_hops (16)
  MaxStored, \* bundles a store can hold (1000)
  MaxBytes,  \* max_bytes (50 MB)
  MaxSeen    \* MAX_SEEN_CACHE (5000)

ASSUME NodeAssumption ==
  IsFiniteSet(Node) /\ Mortal \subseteq Node /\ Reach \subseteq Node \X Node
ASSUME BundleAssumption ==
  /\ IsFiniteSet(Bundle)
  /\ Src \in [Bundle -> Node] /\ Dst \in [Bundle -> Node]
  /\ \A b \in Bundle : Src[b] # Dst[b]
ASSUME RankAssumption ==
  /\ Rank \in [Node -> [Node -> Nat]]
  /\ \A d, n, p \in Node : n # p => Rank[d][n] # Rank[d][p]
ASSUME SizeAssumption ==
  /\ Size \in [Bundle -> Nat] /\ JsonSize \in [Bundle -> Nat]
  /\ \A b \in Bundle : Size[b] <= JsonSize[b]
ASSUME LimitAssumption ==
  MaxHops \in Nat /\ MaxStored \in Nat /\ MaxBytes \in Nat /\ MaxSeen \in Nat

VARIABLES
  link,      \* link[n][p]: "down", "up" (connected) or "open" (and subscribed)
  known,     \* known[n]: receivers whose address n knows (peer_bindings)
  secreted,  \* has the daemon of the node secreted its pheromone?
  held,      \* held[n]: copies in the node's DtnBundleStore (on disk)
  counted,   \* counted[n]: current_bytes of that store
  seen,      \* seen[n]: seen_bundles (in memory)
  wire,      \* copies published and not yet received
  sent,      \* bundles send_direct was called for
  handled,   \* handled[b]: times Dst[b] handled b since it last forgot all ids (up to 2)
  arrived,   \* bundles ever handled by their receiver
  lost       \* bundles a copy of which was dropped or lost

vars == <<link, known, secreted, held, counted, seen, wire, sent, handled, arrived, lost>>
stores  == <<held, counted>>
history == <<sent, handled, arrived, lost>>

Copy   == [id : Bundle, hops : 0 .. MaxHops, aimed : BOOLEAN]
Packet == [copy : Copy, from : Node, to : Node]

Places ==
  /\ link \in [Node -> [Node -> {"down", "up", "open"}]]
  /\ known \in [Node -> SUBSET Node]
  /\ secreted \in [Node -> BOOLEAN]
  /\ held \in [Node -> SUBSET Copy]
  /\ \A n \in Node : \A c, d \in held[n] : c.id = d.id => c = d
  /\ seen \in [Node -> SUBSET Bundle]
  /\ wire \subseteq Packet
  /\ sent \subseteq Bundle /\ arrived \subseteq Bundle /\ lost \subseteq Bundle
  /\ handled \in [Bundle -> 0 .. 2]

\* A store holds one copy of a bundle at most, which has not used up its hops.
TypeOK == Places /\ counted \in [Node -> Nat]

Init ==
  /\ link = [n \in Node |-> [p \in Node |-> "down"]]
  /\ known = [n \in Node |-> {}]
  /\ secreted = [n \in Node |-> FALSE]
  /\ held = [n \in Node |-> {}]
  /\ counted = [n \in Node |-> 0]
  /\ seen = [n \in Node |-> {}]
  /\ wire = {}
  /\ sent = {} /\ arrived = {} /\ lost = {}
  /\ handled = [b \in Bundle |-> 0]

Ids(n)        == {c.id : c \in held[n]}
Neighbours(n) == {p \in Node \ {n} : link[n][p] # "down"}

\* Only receivers' addresses decide anything.
Learn(n, S) == known' = [known EXCEPT ![n] = @ \cup (S \cap {Dst[b] : b \in Bundle})]

-----------------------------------------------------------------------------
(* The routing decision: forward_or_store_dtn_internal.                    *)

\* Only the address a bundle already carries counts.
AimedByBundle(n, c) == c.aimed

\* Resolved when the bundle is sent, relayed or flushed.
Aimed(n, c) == c.aimed \/ Dst[c.id] \in known[n]

\* The closest connected neighbour, the sender excluded, if closer than n.
Closest(n, c) ==
  LET rank   == Rank[Dst[c.id]]
      others == Neighbours(n) \ {Src[c.id]}
  IN {p \in others : rank[p] < rank[n] /\ \A q \in others : rank[p] <= rank[q]}

\* Publishing fails on a neighbour that has not subscribed yet, and there is
\* no second choice.
NextHop(n, c) ==
  {p \in IF Aimed(n, c) THEN Neighbours(n) \cap {Dst[c.id]} ELSE Closest(n, c) :
     link[n][p] = "open"}

Published(n, c) ==
  {[copy |-> [c EXCEPT !.aimed = Aimed(n, c)], from |-> n, to |-> p] : p \in NextHop(n, c)}

\* Nothing is remembered of a bundle that is not kept.
Unmarked(S, b) == S

\* mark_seen empties the cache when it is full.
Full(S) == Cardinality(S) >= MaxSeen

Marked(S, b) == IF Full(S) THEN {b} ELSE S \cup {b}

\* `count` after a mark in the cache S of n: if that empties S, n starts anew.
Since(n, S, count) == [b \in Bundle |-> IF Full(S) /\ Dst[b] = n THEN 0 ELSE count[b]]

\* Bundles counted, bytes not.
FitsByCount(n, b) == Cardinality(held[n]) < MaxStored

Fits(n, b) == FitsByCount(n, b) /\ counted[n] + Size[b] <= MaxBytes

\* A second copy of a bundle is kept beside the first.
InsertBeside(n, c) ==
  /\ held' = [held EXCEPT ![n] = @ \cup {c}]
  /\ counted' = [counted EXCEPT ![n] = @ + Size[c.id]]

\* insert replaces the copy of the same id and counts its bytes again.
Insert(n, c) ==
  /\ held' = [held EXCEPT ![n] = {d \in @ : d.id # c.id} \cup {c}]
  /\ counted' = [counted EXCEPT ![n] = @ + Size[c.id]]

\* remove: a saturating subtraction.
Remove(n, c) ==
  /\ held' = [held EXCEPT ![n] = @ \ {c}]
  /\ counted' = [counted EXCEPT ![n] = IF @ < Size[c.id] THEN 0 ELSE @ - Size[c.id]]

Spent(c) == c.hops >= MaxHops

\* forward_or_store_dtn at n of a copy c; `others` are the packets left on the
\* wire, `marks` the ids n has seen and `count` how often each was handled.
ForwardOrStore(n, c, others, marks, count) ==
  LET next == [c EXCEPT !.hops = @ + 1, !.aimed = Aimed(n, c)]
      out  == Published(n, next)
  IN
  \/ /\ ~Spent(c) /\ out # {}
     /\ wire' = others \cup out
     /\ seen' = [seen EXCEPT ![n] = marks] /\ handled' = count
     /\ UNCHANGED <<stores, lost>>
  \/ /\ ~Spent(c) /\ out = {} /\ Fits(n, c.id)
     /\ Insert(n, next)
     /\ wire' = others
     /\ seen' = [seen EXCEPT ![n] = Marked(marks, c.id)]
     /\ handled' = Since(n, marks, count)
     /\ UNCHANGED lost
  \/ /\ Spent(c) \/ (out = {} /\ ~Fits(n, c.id))
     /\ wire' = others /\ lost' = lost \cup {c.id}
     /\ seen' = [seen EXCEPT ![n] = marks] /\ handled' = count
     /\ UNCHANGED stores

-----------------------------------------------------------------------------
(* The daemon.                                                             *)

\* send_direct, first or again: equal contents have equal ids.
Send(b) ==
  LET n == Src[b] IN
  /\ ForwardOrStore(n, [id |-> b, hops |-> 0, aimed |-> FALSE], wire, seen[n], handled)
  /\ sent' = sent \cup {b}
  /\ UNCHANGED <<link, known, secreted, arrived>>

\* A bundle whose id was seen is dropped as it arrives.
RecvSeen(m) ==
  /\ m \in wire /\ m.copy.id \in seen[m.to]
  /\ wire' = wire \ {m}
  /\ UNCHANGED <<link, known, secreted, stores, seen, history>>

\* The receiver handles the envelope.
RecvLocal(m) ==
  LET b == m.copy.id IN
  /\ m \in wire /\ b \notin seen[m.to] /\ Dst[b] = m.to
  /\ wire' = wire \ {m}
  /\ seen' = [seen EXCEPT ![m.to] = Marked(@, b)]
  /\ Learn(m.to, {Src[b]})
  /\ handled' = [Since(m.to, seen[m.to], handled) EXCEPT ![b] = IF @ = 2 THEN 2 ELSE @ + 1]
  /\ arrived' = arrived \cup {b}
  /\ UNCHANGED <<link, secreted, stores, sent, lost>>

\* Any other node passes it on, or keeps it.
RecvRelay(m) ==
  LET b == m.copy.id IN
  /\ m \in wire /\ b \notin seen[m.to] /\ Dst[b] # m.to
  /\ Learn(m.to, {Src[b]})
  /\ ForwardOrStore(m.to, m.copy, wire \ {m}, Marked(seen[m.to], b),
                    Since(m.to, seen[m.to], handled))
  /\ UNCHANGED <<link, secreted, sent, arrived>>

\* Whatever a flush tried to publish is removed.
FlushTried(n, c) ==
  /\ c \in held[n] /\ Remove(n, c)
  /\ wire' = wire \cup Published(n, c)
  /\ Learn(n, {Src[c.id]})
  /\ UNCHANGED <<link, secreted, seen, history>>

\* flush_dtn_bundles (every pulse, connection and subscription) tries the
\* stored bundles one after the other, in any order, reads the sender's
\* address from each and removes those it could publish.
Flush(n, c) ==
  /\ c \in held[n]
  /\ wire' = wire \cup Published(n, c)
  /\ Learn(n, {Src[c.id]})
  /\ IF Published(n, c) = {} THEN UNCHANGED stores ELSE Remove(n, c)
  /\ UNCHANGED <<link, secreted, seen, history>>

\* prune_expired: a stored bundle reaches its TTL.
Expire(n, c) ==
  /\ c \in held[n] /\ Remove(n, c)
  /\ lost' = lost \cup {c.id}
  /\ UNCHANGED <<link, known, secreted, seen, wire, sent, handled, arrived>>

\* A receiver's pheromone reaches the subscribed neighbours and whoever else
\* the gossip brings it to.
Secrete(n) ==
  LET near == {p \in Node : link[n][p] = "open"} IN
  /\ ~secreted[n] /\ near # {} /\ \E b \in Bundle : Dst[b] = n
  /\ secreted' = [secreted EXCEPT ![n] = TRUE]
  /\ \E far \in SUBSET (Node \ (near \cup {n})) :
       known' = [p \in Node |-> IF p \in near \cup far THEN known[p] \cup {n} ELSE known[p]]
  /\ UNCHANGED <<link, stores, seen, wire, history>>

-----------------------------------------------------------------------------
(* Connections and restarts.                                               *)

SetLink(n, p, state) == link' = [link EXCEPT ![n][p] = state, ![p][n] = state]

Connect(n, p) ==
  /\ <<n, p>> \in Reach /\ n # p /\ link[n][p] = "down"
  /\ SetLink(n, p, "up")
  /\ UNCHANGED <<known, secreted, stores, seen, wire, history>>

Subscribe(n, p) ==
  /\ link[n][p] = "up"
  /\ SetLink(n, p, "open")
  /\ UNCHANGED <<known, secreted, stores, seen, wire, history>>

\* What was on its way over the links of `cut` is gone.
Cut(cut) ==
  LET gone == {m \in wire : <<m.from, m.to>> \in cut} IN
  /\ wire' = wire \ gone
  /\ lost' = lost \cup {m.copy.id : m \in gone}

Disconnect(n, p) ==
  /\ link[n][p] # "down"
  /\ SetLink(n, p, "down")
  /\ Cut({<<n, p>>, <<p, n>>})
  /\ UNCHANGED <<known, secreted, stores, seen, sent, handled, arrived>>

\* The daemon stops and starts again: DtnBundleStore::with_dir reads the
\* stored bundles back and counts the bytes of their files.
Reboot(n) ==
  /\ n \in Mortal
  /\ link' = [p \in Node |-> [q \in Node |-> IF n \in {p, q} THEN "down" ELSE link[p][q]]]
  /\ Cut(({n} \X Node) \cup (Node \X {n}))
  /\ known' = [known EXCEPT ![n] = {}]
  /\ secreted' = [secreted EXCEPT ![n] = FALSE]
  /\ seen' = [seen EXCEPT ![n] = Ids(n)]
  /\ counted' = [counted EXCEPT ![n] = SumFunctionOnSet(JsonSize, Ids(n))]
  /\ handled' = [b \in Bundle |-> IF Dst[b] = n THEN 0 ELSE handled[b]]
  /\ UNCHANGED <<held, sent, arrived>>

Next ==
  \/ \E b \in Bundle : Send(b)
  \/ \E m \in wire : RecvSeen(m) \/ RecvLocal(m) \/ RecvRelay(m)
  \/ \E n \in Node : Secrete(n) \/ Reboot(n)
  \/ \E n \in Node : \E c \in held[n] : Flush(n, c) \/ Expire(n, c)
  \/ \E n, p \in Node : Connect(n, p) \/ Subscribe(n, p) \/ Disconnect(n, p)

Spec == Init /\ [][Next]_vars

\* The swarm loop keeps pulsing, and every pulse flushes.
LiveSpec ==
  Spec /\ \A n \in Node, b \in Bundle : WF_vars(\E c \in held[n] : c.id = b /\ Flush(n, c))

-----------------------------------------------------------------------------
(* Properties.                                                             *)

\* Nobody drops a bundle silently: one that was sent has been handled, is on
\* the wire or in somebody's store, or was dropped for its TTL, its hops, a
\* full store or a broken link.
Custody ==
  \A b \in sent :
    \/ b \in arrived \cup lost
    \/ \E m \in wire : m.copy.id = b
    \/ \E n \in Node : b \in Ids(n)

\* However often a bundle is sent and whatever way its copies take, its
\* receiver handles it twice only if it forgot all ids in between: it
\* restarted, or mark_seen found its cache full and emptied it.
HandledOnce == \A b \in Bundle : handled[b] <= 1

\* Neither the bundles of a store nor their payloads exceed its quota, although current_bytes
\* counts a replaced bundle twice and a restart counts files.
QuotaHolds ==
  \A n \in Node : Cardinality(Ids(n)) <= MaxStored /\ SumFunctionOnSet(Size, Ids(n)) <= MaxBytes

\* Bundles somebody keeps or that are on the wire.
Carried == {m.copy.id : m \in wire} \cup UNION {Ids(n) : n \in Node}

Promise == INSTANCE Courier
  WITH Crowded <- Full, Parcel <- Bundle, posted <- sent, carried <- Carried, given <- handled, done <- arrived

\* The channel the layers above send their unicasts on: duplicates, relays,
\* stores and restarts of third nodes are invisible to sender and receiver,
\* and every step of the relays is one of the couriers or no step.
ActsAsCourier == Promise!CourierSpec

\* A node that stays connected to the receiver and knows its address does
\* not keep the bundle.
HolderDelivers ==
  \A n \in Node, b \in Bundle :
    <>[](link[n][Dst[b]] = "open" /\ Dst[b] \in known[n]) => <>[](b \notin Ids(n))
=============================================================================
