-------------------------- MODULE DtnRelay_proofs --------------------------
(* Theorems about DtnRelay for every set of nodes and bundles, every       *)
(* topology and every distance, with their proofs.                         *)
EXTENDS DtnRelay, SetSums_proofs, FiniteSetTheorems, TLAPS

-----------------------------------------------------------------------------
(* What the operators keep.                                                *)

\* Marking a bundle marks no other.
LEMMA MarkedBound == ASSUME NEW S, NEW b PROVE Marked(S, b) \subseteq S \cup {b}
  BY DEF Marked

\* What counts after a mark is what counted before, or nothing at n.
LEMMA SinceType ==
  ASSUME NEW n, NEW S, NEW count \in [Bundle -> 0 .. 2]
  PROVE  Since(n, S, count) \in [Bundle -> 0 .. 2]
  BY DEF Since

\* A copy that has not used up its hops can take one more.
LEMMA NextType ==
  ASSUME NEW n \in Node, NEW c \in Copy, ~Spent(c)
  PROVE  [c EXCEPT !.hops = @ + 1, !.aimed = Aimed(n, c)] \in Copy
<1>1. Aimed(n, c) \in BOOLEAN
  BY DEF Aimed, Copy
<1>2. c.hops \in 0 .. MaxHops /\ ~(c.hops >= MaxHops)
  BY DEF Copy, Spent
<1>3. c.hops + 1 \in 0 .. MaxHops
  BY <1>2, LimitAssumption DEF LimitAssumption
<1> DEFINE h == c.hops + 1
           a == Aimed(n, c)
<1>4. h \in 0 .. MaxHops /\ a \in BOOLEAN
  BY <1>1, <1>3
<1> HIDE DEF h, a
<1>5. [c EXCEPT !.hops = h, !.aimed = a] \in Copy
  BY <1>4 DEF Copy
<1> QED BY <1>5 DEF h, a

LEMMA PublishedType ==
  ASSUME NEW n \in Node, NEW c \in Copy PROVE Published(n, c) \subseteq Packet
<1>1. Aimed(n, c) \in BOOLEAN
  BY DEF Aimed, Copy
<1>2. [c EXCEPT !.aimed = Aimed(n, c)] \in Copy
  BY <1>1 DEF Copy
<1>3. NextHop(n, c) \subseteq Node
  BY BundleAssumption DEF NextHop, Neighbours, Closest, BundleAssumption
<1> QED BY <1>2, <1>3 DEF Published, Packet

\* Removing a copy leaves a store.
LEMMA RemoveType ==
  ASSUME Places, NEW n \in Node, NEW c, Remove(n, c)
  PROVE  /\ held' \in [Node -> SUBSET Copy]
         /\ \A p \in Node : \A d, e \in held'[p] : d.id = e.id => d = e
  BY DEF Places, Remove

\* What n remembers of the bundles it counts as handled: ids it has seen.
Recalls(n, S, count) == \A b \in Bundle : Dst[b] = n /\ count[b] > 0 => b \in S

\* A mark that forgets an id also forgets that its bundle was handled.
LEMMA MarkRecalls ==
  ASSUME NEW n, NEW S, NEW count \in [Bundle -> 0 .. 2], NEW b, Recalls(n, S, count)
  PROVE  Recalls(n, Marked(S, b), Since(n, S, count))
  BY DEF Recalls, Marked, Since

\* A step at n counts nothing for n that n does not remember, and leaves what
\* the other nodes count.
Counted(n, S, count) ==
  /\ count \in [Bundle -> 0 .. 2]
  /\ \A b \in Bundle : count[b] <= handled[b] /\ (Dst[b] # n => count[b] = handled[b])
  /\ Recalls(n, S, count)

LEMMA MarkCounted ==
  ASSUME Places, NEW n, NEW S, NEW count, NEW b, Counted(n, S, count)
  PROVE  Counted(n, Marked(S, b), Since(n, S, count))
<1>1. Since(n, S, count) \in [Bundle -> 0 .. 2] /\ Recalls(n, Marked(S, b), Since(n, S, count))
  BY SinceType, MarkRecalls DEF Counted
<1>2. ASSUME NEW d \in Bundle
      PROVE  /\ Since(n, S, count)[d] <= handled[d]
             /\ Dst[d] # n => Since(n, S, count)[d] = handled[d]
  <2>1. Since(n, S, count)[d] = IF Full(S) /\ Dst[d] = n THEN 0 ELSE count[d]
    BY DEF Since
  <2>2. handled[d] >= 0
    BY DEF Places
  <2> QED BY <2>1, <2>2 DEF Counted
<1> QED BY <1>1, <1>2 DEF Counted

\* What ForwardOrStore leaves, of the ids `marks` in particular.
Forwarded(n, marks, count) ==
  /\ held' \in [Node -> SUBSET Copy]
  /\ \A p \in Node : \A d, e \in held'[p] : d.id = e.id => d = e
  /\ wire' \subseteq Packet
  /\ lost' \subseteq Bundle
  /\ handled' \in [Bundle -> 0 .. 2]
  /\ \E kept \in SUBSET Bundle :
       /\ seen' = [seen EXCEPT ![n] = kept]
       /\ Counted(n, marks, count) => Counted(n, kept, handled')

\* Forwarding or storing counts nothing as handled that it forgets.
LEMMA Forwarding ==
  ASSUME Places, NEW n \in Node, NEW c \in Copy,
         NEW others \in SUBSET Packet, NEW marks \in SUBSET Bundle,
         NEW count \in [Bundle -> 0 .. 2],
         ForwardOrStore(n, c, others, marks, count)
  PROVE  Forwarded(n, marks, count)
<1> DEFINE next == [c EXCEPT !.hops = @ + 1, !.aimed = Aimed(n, c)]
           out  == Published(n, next)
<1>1. c.id \in Bundle /\ next.id = c.id
  BY DEF Copy
<1>2. CASE ~Spent(c) /\ out # {} /\ wire' = others \cup out
           /\ seen' = [seen EXCEPT ![n] = marks] /\ handled' = count
           /\ UNCHANGED <<stores, lost>>
  <2>1. next \in Copy
    BY <1>2, NextType
  <2>2. out \subseteq Packet
    BY <2>1, PublishedType
  <2> QED BY <1>2, <2>2 DEF Places, stores, Forwarded
<1>3. CASE ~Spent(c) /\ out = {} /\ Fits(n, c.id) /\ Insert(n, next)
           /\ wire' = others /\ seen' = [seen EXCEPT ![n] = Marked(marks, c.id)]
           /\ handled' = Since(n, marks, count)
           /\ UNCHANGED lost
  <2>1. next \in Copy
    BY <1>3, NextType
  <2> HIDE DEF next
  <2>2. held' = [held EXCEPT ![n] = {d \in @ : d.id # next.id} \cup {next}]
    BY <1>3 DEF Insert
  <2>3. held' \in [Node -> SUBSET Copy]
        /\ \A p \in Node : \A d, e \in held'[p] : d.id = e.id => d = e
    BY <2>1, <2>2 DEF Places
  <2>4. Marked(marks, c.id) \in SUBSET Bundle
    BY <1>1, MarkedBound
  <2>5. Counted(n, marks, count) => Counted(n, Marked(marks, c.id), handled')
    BY <1>3, MarkCounted
  <2>6. handled' \in [Bundle -> 0 .. 2]
    BY <1>3, SinceType
  <2> QED BY <1>1, <1>3, <2>3, <2>4, <2>5, <2>6 DEF Places, Forwarded
<1>4. CASE /\ wire' = others /\ lost' = lost \cup {c.id}
           /\ seen' = [seen EXCEPT ![n] = marks] /\ handled' = count /\ UNCHANGED stores
  BY <1>1, <1>4 DEF Places, stores, Forwarded
<1> QED BY <1>2, <1>3, <1>4 DEF ForwardOrStore

LEMMA LearnType ==
  ASSUME Places, NEW n \in Node, NEW S, Learn(n, S)
  PROVE  known' \in [Node -> SUBSET Node]
<1>1. {Dst[b] : b \in Bundle} \subseteq Node
  BY BundleAssumption DEF BundleAssumption
<1> QED BY <1>1 DEF Places, Learn

LEMMA CutType ==
  ASSUME Places, NEW cut, Cut(cut)
  PROVE  wire' \subseteq Packet /\ lost' \subseteq Bundle
  BY DEF Places, Cut, Packet, Copy

LEMMA LinkType ==
  ASSUME Places, NEW n \in Node, NEW p \in Node, NEW state \in {"down", "up", "open"},
         SetLink(n, p, state)
  PROVE  link' \in [Node -> [Node -> {"down", "up", "open"}]]
  BY DEF Places, SetLink

-----------------------------------------------------------------------------
(* Every action keeps the places right.                                    *)

LEMMA SendPlaces ==
  ASSUME Places, NEW b \in Bundle, Send(b)
  PROVE  Places' /\ Forwarded(Src[b], seen[Src[b]], handled)
<1> DEFINE n == Src[b]
           c == [id |-> b, hops |-> 0, aimed |-> FALSE]
<1>1. n \in Node /\ c \in Copy
  BY BundleAssumption, LimitAssumption DEF BundleAssumption, LimitAssumption, Copy
<1>2. ForwardOrStore(n, c, wire, seen[n], handled) /\ sent' = sent \cup {b}
      /\ UNCHANGED <<link, known, secreted, arrived>>
  BY DEF Send
<1>3. wire \in SUBSET Packet /\ seen[n] \in SUBSET Bundle /\ handled \in [Bundle -> 0 .. 2]
  BY <1>1 DEF Places
<1> HIDE DEF n, c
<1>4. Forwarded(n, seen[n], handled)
  BY <1>1, <1>2, <1>3, Forwarding
<1>5. Places'
  BY <1>1, <1>2, <1>4 DEF Places, Forwarded
<1> QED BY <1>4, <1>5 DEF n

LEMMA RecvSeenPlaces ==
  ASSUME Places, NEW m \in wire, RecvSeen(m) PROVE Places'
  BY DEF Places, RecvSeen, stores, history

LEMMA RecvLocalPlaces ==
  ASSUME Places, NEW m \in wire, RecvLocal(m) PROVE Places'
<1> DEFINE b == m.copy.id
           n == m.to
<1>1. b \in Bundle /\ n \in Node
  BY DEF Places, Packet, Copy
<1>2. /\ wire' = wire \ {m} /\ seen' = [seen EXCEPT ![n] = Marked(@, b)]
      /\ Learn(n, {Src[b]})
      /\ handled' = [Since(n, seen[n], handled) EXCEPT ![b] = IF @ = 2 THEN 2 ELSE @ + 1]
      /\ arrived' = arrived \cup {b}
      /\ UNCHANGED <<link, secreted, stores, sent, lost>>
  BY DEF RecvLocal
<1> HIDE DEF b, n
<1>3. seen' \in [Node -> SUBSET Bundle]
  BY <1>1, <1>2, MarkedBound DEF Places
<1>4. known' \in [Node -> SUBSET Node]
  BY <1>1, <1>2, LearnType
<1>5. handled' \in [Bundle -> 0 .. 2]
  BY <1>1, <1>2, SinceType DEF Places
<1> QED BY <1>1, <1>2, <1>3, <1>4, <1>5 DEF Places, stores

LEMMA RecvRelayPlaces ==
  ASSUME Places, NEW m \in wire, RecvRelay(m)
  PROVE  /\ Places'
         /\ Forwarded(m.to, Marked(seen[m.to], m.copy.id), Since(m.to, seen[m.to], handled))
<1> DEFINE b == m.copy.id
           n == m.to
           c == m.copy
           others == wire \ {m}
           marks  == Marked(seen[n], b)
           count  == Since(n, seen[n], handled)
<1>1. b \in Bundle /\ n \in Node /\ c \in Copy
  BY DEF Places, Packet, Copy
<1>2. /\ ForwardOrStore(n, c, others, marks, count) /\ Learn(n, {Src[b]})
      /\ UNCHANGED <<link, secreted, sent, arrived>>
  BY DEF RecvRelay
<1>3. marks \in SUBSET Bundle /\ count \in [Bundle -> 0 .. 2]
  BY <1>1, MarkedBound, SinceType DEF Places
<1>4. others \in SUBSET Packet
  BY DEF Places
<1> HIDE DEF b, n, c, others, marks, count
<1>5. known' \in [Node -> SUBSET Node]
  BY <1>1, <1>2, LearnType
<1>6. Forwarded(n, marks, count)
  BY <1>1, <1>2, <1>3, <1>4, Forwarding
<1>7. Places'
  BY <1>1, <1>2, <1>5, <1>6 DEF Places, Forwarded
<1> QED BY <1>6, <1>7 DEF n, b, marks, count

LEMMA FlushPlaces ==
  ASSUME Places, NEW n \in Node, NEW c \in held[n], Flush(n, c) PROVE Places'
<1>1. c \in Copy
  BY DEF Places
<1>2. Published(n, c) \subseteq Packet
  BY <1>1, PublishedType
<1>3. known' \in [Node -> SUBSET Node]
  BY LearnType DEF Flush
<1>4. /\ held' \in [Node -> SUBSET Copy]
      /\ \A p \in Node : \A d, e \in held'[p] : d.id = e.id => d = e
  BY RemoveType DEF Flush, Places, stores
<1> QED BY <1>2, <1>3, <1>4 DEF Places, Flush, history

LEMMA ExpirePlaces ==
  ASSUME Places, NEW n \in Node, NEW c \in held[n], Expire(n, c) PROVE Places'
<1>1. c.id \in Bundle
  BY DEF Places, Copy
<1>2. /\ held' \in [Node -> SUBSET Copy]
      /\ \A p \in Node : \A d, e \in held'[p] : d.id = e.id => d = e
  BY RemoveType DEF Expire
<1> QED BY <1>1, <1>2 DEF Places, Expire

LEMMA SecretePlaces ==
  ASSUME Places, NEW n \in Node, Secrete(n) PROVE Places'
<1>1. known' \in [Node -> SUBSET Node] /\ secreted' \in [Node -> BOOLEAN]
  BY DEF Places, Secrete
<1> QED BY <1>1 DEF Places, Secrete, stores, history

LEMMA LinkPlaces ==
  ASSUME Places, NEW n \in Node, NEW p \in Node,
         Connect(n, p) \/ Subscribe(n, p) \/ Disconnect(n, p)
  PROVE  Places'
<1>1. link' \in [Node -> [Node -> {"down", "up", "open"}]]
  BY LinkType DEF Connect, Subscribe, Disconnect
<1>2. wire' \subseteq Packet /\ lost' \subseteq Bundle
  BY CutType DEF Places, Connect, Subscribe, Disconnect, history
<1> QED BY <1>1, <1>2 DEF Places, Connect, Subscribe, Disconnect, stores, history

LEMMA RebootPlaces ==
  ASSUME Places, NEW n \in Node, Reboot(n) PROVE Places'
<1>1. wire' \subseteq Packet /\ lost' \subseteq Bundle
  BY CutType DEF Reboot
<1>2. Ids(n) \subseteq Bundle
  BY DEF Places, Ids, Copy
<1>3. link' \in [Node -> [Node -> {"down", "up", "open"}]]
  BY DEF Places, Reboot
<1>4. handled' \in [Bundle -> 0 .. 2]
  BY DEF Places, Reboot
<1> QED BY <1>1, <1>2, <1>3, <1>4 DEF Places, Reboot

LEMMA PlacesKept == Places /\ [Next]_vars => Places'
<1> SUFFICES ASSUME Places, [Next]_vars PROVE Places'
  OBVIOUS
<1>1. CASE \E b \in Bundle : Send(b)
  BY <1>1, SendPlaces
<1>2. CASE \E m \in wire : RecvSeen(m) \/ RecvLocal(m) \/ RecvRelay(m)
  BY <1>2, RecvSeenPlaces, RecvLocalPlaces, RecvRelayPlaces
<1>3. CASE \E n \in Node : Secrete(n) \/ Reboot(n)
  BY <1>3, SecretePlaces, RebootPlaces
<1>4. CASE \E n \in Node : \E c \in held[n] : Flush(n, c) \/ Expire(n, c)
  BY <1>4, FlushPlaces, ExpirePlaces
<1>5. CASE \E n, p \in Node : Connect(n, p) \/ Subscribe(n, p) \/ Disconnect(n, p)
  BY <1>5, LinkPlaces
<1>6. CASE UNCHANGED vars
  BY <1>6 DEF vars, stores, history, Places
<1> QED BY <1>1, <1>2, <1>3, <1>4, <1>5, <1>6 DEF Next

LEMMA PlacesInit == Init => Places
  BY LimitAssumption DEF Init, Places, LimitAssumption

-----------------------------------------------------------------------------
(* A bundle is handled once.                                               *)

\* The strengthening: a bundle that counts as handled is one its receiver
\* has seen.
Remembered ==
  \A b \in Bundle : handled[b] <= 1 /\ (handled[b] > 0 => b \in seen[Dst[b]])

\* What a step counts and remembers at n is all that changes.
LEMMA CountedRemembered ==
  ASSUME Places, Remembered, NEW n \in Node, NEW kept,
         seen' = [seen EXCEPT ![n] = kept], Counted(n, kept, handled')
  PROVE  Remembered'
<1>1. ASSUME NEW b \in Bundle
      PROVE  handled'[b] <= 1 /\ (handled'[b] > 0 => b \in seen'[Dst[b]])
  <2>1. Dst[b] \in Node /\ handled[b] \in 0 .. 2 /\ handled'[b] \in 0 .. 2
    BY BundleAssumption DEF BundleAssumption, Counted, Places
  <2>2. handled'[b] <= handled[b] /\ handled[b] <= 1
    BY DEF Counted, Remembered
  <2>3. CASE Dst[b] = n
    BY <2>1, <2>2, <2>3 DEF Counted, Recalls, Places
  <2>4. CASE Dst[b] # n
    BY <2>1, <2>2, <2>4 DEF Counted, Remembered, Places
  <2> QED BY <2>3, <2>4
<1> QED BY <1>1 DEF Remembered

LEMMA RememberedCounted ==
  ASSUME Places, Remembered, NEW n \in Node PROVE Counted(n, seen[n], handled)
  BY DEF Counted, Recalls, Places, Remembered

LEMMA RememberedKept ==
  ASSUME Places, Remembered, [Next]_vars PROVE Remembered'
<1>1. ASSUME NEW b \in Bundle, Send(b) PROVE Remembered'
  <2>1. Src[b] \in Node
    BY BundleAssumption DEF BundleAssumption
  <2> QED BY <1>1, <2>1, SendPlaces, RememberedCounted, CountedRemembered DEF Forwarded
<1>2. ASSUME NEW m \in wire, RecvLocal(m) PROVE Remembered'
  <2> DEFINE b == m.copy.id
             n == m.to
             count == Since(n, seen[n], handled)
  <2>1. b \in Bundle /\ n \in Node
    BY DEF Places, Packet, Copy
  <2>2. /\ seen' = [seen EXCEPT ![n] = Marked(seen[n], b)] /\ b \notin seen[n] /\ Dst[b] = n
        /\ handled' = [count EXCEPT ![b] = IF @ = 2 THEN 2 ELSE @ + 1]
    BY <1>2 DEF RecvLocal
  <2>3. Counted(n, Marked(seen[n], b), count)
    BY <2>1, RememberedCounted, MarkCounted
  <2> HIDE DEF count
  <2>4. handled[b] = 0 /\ count[b] = 0
    BY <2>1, <2>2, <2>3 DEF Remembered, Places, Counted
  <2>5. handled' = [count EXCEPT ![b] = 1]
    BY <2>2, <2>4
  <2>6. b \in Marked(seen[n], b)
    BY DEF Marked
  <2>7. ASSUME NEW d \in Bundle
        PROVE  handled'[d] <= 1 /\ (handled'[d] > 0 => d \in seen'[Dst[d]])
    <3>1. CASE d = b
      BY <2>1, <2>2, <2>3, <2>5, <2>6, <3>1 DEF Counted, Places
    <3>2. CASE d # b
      <4>1. handled'[d] = count[d] /\ count[d] \in 0 .. 2 /\ handled[d] \in 0 .. 2
            /\ Dst[d] \in Node
        BY <2>3, <2>5, <3>2, BundleAssumption DEF Counted, Places, BundleAssumption
      <4>2. count[d] <= handled[d] /\ handled[d] <= 1
        BY <2>3 DEF Counted, Remembered
      <4>3. CASE Dst[d] = n
        BY <2>1, <2>2, <2>3, <4>1, <4>2, <4>3 DEF Counted, Recalls, Places
      <4>4. CASE Dst[d] # n
        BY <2>2, <2>3, <4>1, <4>2, <4>4 DEF Counted, Remembered, Places
      <4> QED BY <4>3, <4>4
    <3> QED BY <3>1, <3>2
  <2> QED BY <2>7 DEF Remembered
<1>3. ASSUME NEW m \in wire, RecvRelay(m) PROVE Remembered'
  <2>1. m.copy.id \in Bundle /\ m.to \in Node
    BY DEF Places, Packet, Copy
  <2>2. Counted(m.to, Marked(seen[m.to], m.copy.id), Since(m.to, seen[m.to], handled))
    BY <2>1, RememberedCounted, MarkCounted
  <2> QED BY <1>3, <2>1, <2>2, RecvRelayPlaces, CountedRemembered DEF Forwarded
<1>4. ASSUME NEW n \in Node, Reboot(n) PROVE Remembered'
  BY <1>4, BundleAssumption DEF Places, Remembered, Reboot, BundleAssumption
<1>5. CASE \/ \E m \in wire : RecvSeen(m)
           \/ \E n \in Node : Secrete(n)
           \/ \E n \in Node : \E c \in held[n] : Flush(n, c) \/ Expire(n, c)
           \/ \E n, p \in Node : Connect(n, p) \/ Subscribe(n, p) \/ Disconnect(n, p)
           \/ UNCHANGED vars
  <2>1. UNCHANGED <<handled, seen>>
    BY <1>5 DEF RecvSeen, Secrete, Flush, Expire, Connect, Subscribe, Disconnect, vars, history
  <2> QED BY <2>1 DEF Remembered
<1> QED BY <1>1, <1>2, <1>3, <1>4, <1>5 DEF Next

\* Whatever retries, relays, flushes and lost links there are, a receiver
\* handles a bundle twice (RecvLocal) only if it restarted in between or
\* mark_seen emptied its cache: in between it forgets none it has handled.
THEOREM HandledAtMostOnce == Spec => []HandledOnce
<1>1. Init => Places /\ Remembered
  BY PlacesInit, BundleAssumption DEF Init, Remembered, BundleAssumption
<1>2. Places /\ Remembered /\ [Next]_vars => Places' /\ Remembered'
  BY PlacesKept, RememberedKept
<1>3. Remembered => HandledOnce
  BY DEF Remembered, HandledOnce
<1> QED BY <1>1, <1>2, <1>3, PTL DEF Spec

-----------------------------------------------------------------------------
(* No bundle is dropped silently.                                          *)
(* A bundle that arrives where it was seen is dropped without a trace.     *)
(* That it is not the last copy follows from the XOR rule: whoever has     *)
(* passed a bundle on has passed it to the receiver or to a node closer to *)
(* it, so a copy is always ahead of each node that has seen the bundle.    *)

\* A copy of b is in a store at most as far as n, or on its way to the
\* receiver or to a node closer than n.
Ahead(b, n) ==
  \/ \E q \in Node : b \in Ids(q) /\ Rank[Dst[b]][q] <= Rank[Dst[b]][n]
  \/ \E x \in wire : x.copy.id = b
                   /\ (x.to = Dst[b] \/ Rank[Dst[b]][x.to] < Rank[Dst[b]][n])

Passing ==
  /\ \A n \in Node : \A b \in Ids(n) : Dst[b] # n
  /\ \A b \in Bundle \ (arrived \cup lost), n \in Node :
       b \in seen[n] => Dst[b] # n /\ Ahead(b, n)

\* A step that moves the bundle b at n keeps the packets `others` and what the
\* stores hold and, unless it drops b or b has arrived, leaves a copy ahead.
Moved(n, b, others) ==
  /\ others \subseteq wire'
  /\ \A q \in Node :
       /\ Ids(q) \subseteq Ids(q)'
       /\ Ids(q)' \subseteq Ids(q) \cup (IF q = n /\ Dst[b] # n THEN {b} ELSE {})
  /\ lost \subseteq lost' /\ arrived \subseteq arrived'
  /\ b \notin arrived' \cup lost' => Dst[b] # n /\ Ahead(b, n)'

LEMMA RankNat == ASSUME NEW b \in Bundle, NEW n \in Node PROVE Rank[Dst[b]][n] \in Nat
  BY BundleAssumption, RankAssumption DEF BundleAssumption, RankAssumption

\* A published copy is of the same bundle and goes to the receiver or closer.
LEMMA PublishedAhead ==
  ASSUME NEW n \in Node, NEW c \in Copy, NEW x \in Published(n, c)
  PROVE  /\ x.copy.id = c.id
         /\ x.to = Dst[c.id] \/ Rank[Dst[c.id]][x.to] < Rank[Dst[c.id]][n]
<1>1. PICK p \in NextHop(n, c) :
        x = [copy |-> [c EXCEPT !.aimed = Aimed(n, c)], from |-> n, to |-> p]
  BY DEF Published
<1>2. p = Dst[c.id] \/ Rank[Dst[c.id]][p] < Rank[Dst[c.id]][n]
  BY DEF NextHop, Closest
<1>3. [c EXCEPT !.aimed = Aimed(n, c)].id = c.id
  BY DEF Copy
<1> QED BY <1>1, <1>2, <1>3

LEMMA InsertIds ==
  ASSUME Places, NEW n \in Node, NEW c, Insert(n, c)
  PROVE  \A q \in Node : Ids(q)' = Ids(q) \cup (IF q = n THEN {c.id} ELSE {})
  BY DEF Places, Insert, Ids

LEMMA RemoveIds ==
  ASSUME Places, NEW n \in Node, NEW c \in held[n], Remove(n, c)
  PROVE  \A q \in Node : Ids(q)' = Ids(q) \ (IF q = n THEN {c.id} ELSE {})
  BY DEF Places, Remove, Ids

LEMMA SameIds == ASSUME UNCHANGED held PROVE \A q \in Node : Ids(q)' = Ids(q)
  BY DEF Ids

LEMMA Moving ==
  ASSUME Places, NEW n \in Node, NEW c \in Copy, NEW others, NEW marks,
         NEW count, ForwardOrStore(n, c, others, marks, count), Dst[c.id] # n,
         UNCHANGED arrived
  PROVE  /\ Moved(n, c.id, others)
         /\ \A p \in Node : seen'[p] \subseteq (IF p = n THEN marks \cup {c.id} ELSE seen[p])
<1> DEFINE next == [c EXCEPT !.hops = @ + 1, !.aimed = Aimed(n, c)]
           out  == Published(n, next)
<1>1. next.id = c.id /\ c.id \in Bundle
  BY DEF Copy
<1>2. ASSUME ~Spent(c), out # {}, wire' = others \cup out, UNCHANGED <<stores, lost>>
      PROVE  Moved(n, c.id, others)
  <2>1. next \in Copy
    BY <1>2, NextType
  <2>2. PICK x \in out : TRUE
    BY <1>2
  <2> HIDE DEF next
  <2>3. x.copy.id = c.id
        /\ (x.to = Dst[c.id] \/ Rank[Dst[c.id]][x.to] < Rank[Dst[c.id]][n])
    BY <1>1, <2>1, PublishedAhead
  <2>4. Ahead(c.id, n)'
    BY <1>2, <2>3 DEF Ahead
  <2> QED BY <1>2, <2>4, SameIds DEF Moved, stores
<1>3. ASSUME ~Spent(c), Insert(n, next), wire' = others, UNCHANGED lost
      PROVE  Moved(n, c.id, others)
  <2> HIDE DEF next
  <2>1. \A q \in Node : Ids(q)' = Ids(q) \cup (IF q = n THEN {c.id} ELSE {})
    BY <1>1, <1>3, InsertIds
  <2>2. Rank[Dst[c.id]][n] <= Rank[Dst[c.id]][n]
    BY <1>1, RankNat
  <2>3. Ahead(c.id, n)'
    BY <2>1, <2>2 DEF Ahead
  <2> QED BY <1>3, <2>1, <2>3 DEF Moved
<1>4. ASSUME wire' = others, lost' = lost \cup {c.id}, UNCHANGED stores
      PROVE  Moved(n, c.id, others)
  BY <1>4, SameIds DEF Moved, stores
<1>5. Moved(n, c.id, others)
  BY <1>2, <1>3, <1>4 DEF ForwardOrStore
<1>6. seen' = [seen EXCEPT ![n] = marks] \/ seen' = [seen EXCEPT ![n] = Marked(marks, c.id)]
  BY DEF ForwardOrStore
<1>7. Marked(marks, c.id) \subseteq marks \cup {c.id}
  BY MarkedBound
<1> QED BY <1>5, <1>6, <1>7 DEF Places

\* A bundle that moves at n, where it was or was headed, stays ahead of
\* whoever it was ahead of.
LEMMA MovedKeeps ==
  ASSUME Passing, Custody, Places, Places', NEW b \in Bundle, NEW n \in Node,
         NEW others, Moved(n, b, others),
         \A x \in wire : x \in others \/ (x.copy.id = b /\ x.to = n),
         \A p \in Node : seen'[p] \subseteq seen[p] \cup (IF p = n THEN {b} ELSE {}),
         sent' \subseteq sent \cup {b}
  PROVE  Passing' /\ Custody'
<1>1. ASSUME NEW q \in Node, NEW d \in Ids(q)' PROVE Dst[d] # q
  BY <1>1 DEF Passing, Moved
<1>2. ASSUME NEW d \in Bundle \ (arrived' \cup lost'), NEW p \in Node, d \in seen'[p]
      PROVE  Dst[d] # p /\ Ahead(d, p)'
  <2>1. d \in Bundle \ (arrived \cup lost)
    BY <1>2 DEF Moved
  <2>2. CASE d = b /\ p = n
    BY <1>2, <2>2 DEF Moved
  <2>3. CASE d # b \/ p # n
    <3>1. d \in seen[p]
      BY <1>2, <2>3
    <3>2. Dst[d] # p /\ Ahead(d, p)
      BY <2>1, <3>1 DEF Passing
    <3>3. CASE \E q \in Node : d \in Ids(q) /\ Rank[Dst[d]][q] <= Rank[Dst[d]][p]
      BY <3>2, <3>3 DEF Moved, Ahead
    <3>4. ASSUME NEW x \in wire, x.copy.id = d,
                 x.to = Dst[d] \/ Rank[Dst[d]][x.to] < Rank[Dst[d]][p]
          PROVE  Ahead(d, p)'
      <4>1. CASE x \in others
        BY <3>4, <4>1 DEF Moved, Ahead
      <4>2. CASE x \notin others
        <5>1. d = b /\ x.to = n
          BY <3>4, <4>2
        <5>2. Rank[Dst[b]][n] < Rank[Dst[b]][p] /\ Ahead(b, n)'
          BY <1>2, <3>4, <5>1 DEF Moved
        <5>3. \A q \in Node : Rank[Dst[b]][q] \in Nat
          BY RankNat
        <5>4. ASSUME NEW q \in Node, b \in Ids(q)', Rank[Dst[b]][q] <= Rank[Dst[b]][n]
              PROVE  Ahead(b, p)'
          <6>1. Rank[Dst[b]][q] <= Rank[Dst[b]][p]
            BY <5>2, <5>3, <5>4
          <6> QED BY <5>4, <6>1 DEF Ahead
        <5>5. ASSUME NEW y \in wire', y.copy.id = b,
                     y.to = Dst[b] \/ Rank[Dst[b]][y.to] < Rank[Dst[b]][n]
              PROVE  Ahead(b, p)'
          <6>1. y.to \in Node
            BY <5>5 DEF Places, Packet
          <6>2. y.to = Dst[b] \/ Rank[Dst[b]][y.to] < Rank[Dst[b]][p]
            BY <5>2, <5>3, <5>5, <6>1
          <6> QED BY <5>5, <6>2 DEF Ahead
        <5> QED BY <5>1, <5>2, <5>4, <5>5 DEF Ahead
      <4> QED BY <4>1, <4>2
    <3> QED BY <3>2, <3>3, <3>4 DEF Ahead
  <2> QED BY <2>2, <2>3
<1>3. ASSUME NEW d \in sent', d \notin arrived' \cup lost'
      PROVE  (\E x \in wire' : x.copy.id = d) \/ (\E q \in Node : d \in Ids(q)')
  <2>1. CASE d = b
    BY <1>3, <2>1 DEF Moved, Ahead
  <2>2. CASE d # b
    BY <1>3, <2>2 DEF Moved, Custody
  <2> QED BY <2>1, <2>2
<1> QED BY <1>1, <1>2, <1>3 DEF Passing, Custody

LEMMA SendKeeps ==
  ASSUME Places, Places', Passing, Custody, NEW b \in Bundle, Send(b)
  PROVE  Passing' /\ Custody'
<1> DEFINE n == Src[b]
           c == [id |-> b, hops |-> 0, aimed |-> FALSE]
<1>1. n \in Node /\ c \in Copy /\ c.id = b /\ Dst[b] # n
  BY BundleAssumption, LimitAssumption DEF BundleAssumption, LimitAssumption, Copy
<1>2. ForwardOrStore(n, c, wire, seen[n], handled) /\ sent' = sent \cup {b} /\ UNCHANGED arrived
  BY DEF Send
<1> HIDE DEF n, c
<1>3. /\ Moved(n, b, wire)
      /\ \A p \in Node : seen'[p] \subseteq (IF p = n THEN seen[n] \cup {b} ELSE seen[p])
  BY <1>1, <1>2, Moving
<1> QED BY <1>1, <1>2, <1>3, MovedKeeps

LEMMA RecvSeenKeeps ==
  ASSUME Places, Places', Passing, Custody, NEW m \in wire, RecvSeen(m)
  PROVE  Passing' /\ Custody'
<1> DEFINE n == m.to
           b == m.copy.id
<1>1. n \in Node /\ b \in Bundle /\ b \in seen[n]
  BY DEF Places, Packet, Copy, RecvSeen
<1>2. wire' = wire \ {m} /\ UNCHANGED <<held, seen, lost, arrived, sent>>
  BY DEF RecvSeen, stores, history
<1>3. ASSUME b \notin arrived' \cup lost' PROVE Dst[b] # n /\ Ahead(b, n)'
  <2>1. Dst[b] # n /\ Ahead(b, n)
    BY <1>1, <1>2, <1>3 DEF Passing
  <2>2. ~(Rank[Dst[b]][n] < Rank[Dst[b]][n])
    BY <1>1, RankNat
  <2> QED BY <1>2, <2>1, <2>2, SameIds DEF Ahead
<1> HIDE DEF n, b
<1>4. Moved(n, b, wire \ {m})
  BY <1>2, <1>3, SameIds DEF Moved
<1>5. \A x \in wire : x \in wire \ {m} \/ (x.copy.id = b /\ x.to = n)
  BY DEF b, n
<1> QED BY <1>1, <1>2, <1>4, <1>5, MovedKeeps

LEMMA RecvLocalKeeps ==
  ASSUME Places, Places', Passing, Custody, NEW m \in wire, RecvLocal(m)
  PROVE  Passing' /\ Custody'
<1> DEFINE n == m.to
           b == m.copy.id
<1>1. n \in Node /\ b \in Bundle
  BY DEF Places, Packet, Copy
<1>2. /\ wire' = wire \ {m} /\ arrived' = arrived \cup {b}
      /\ seen' = [seen EXCEPT ![n] = Marked(@, b)] /\ UNCHANGED <<held, lost, sent>>
  BY DEF RecvLocal, stores
<1>3. \A x \in wire : x \in wire \ {m} \/ (x.copy.id = b /\ x.to = n)
  OBVIOUS
<1> HIDE DEF n, b
<1>4. Moved(n, b, wire \ {m})
  BY <1>2, SameIds DEF Moved
<1>5. \A p \in Node : seen'[p] \subseteq seen[p] \cup (IF p = n THEN {b} ELSE {})
  BY <1>1, <1>2, MarkedBound DEF Places
<1> QED BY <1>1, <1>2, <1>3, <1>4, <1>5, MovedKeeps

LEMMA RecvRelayKeeps ==
  ASSUME Places, Places', Passing, Custody, NEW m \in wire, RecvRelay(m)
  PROVE  Passing' /\ Custody'
<1> DEFINE n == m.to
           c == m.copy
           b == c.id
           others == wire \ {m}
           marks  == Marked(seen[n], b)
           count  == Since(n, seen[n], handled)
<1>1. n \in Node /\ c \in Copy /\ b \in Bundle /\ Dst[b] # n
  BY DEF Places, Packet, Copy, RecvRelay
<1>2. ForwardOrStore(n, c, others, marks, count) /\ UNCHANGED <<arrived, sent>>
  BY DEF RecvRelay
<1>3. \A x \in wire : x \in others \/ (x.copy.id = b /\ x.to = n)
  OBVIOUS
<1>4. marks \subseteq seen[n] \cup {b}
  BY MarkedBound
<1> HIDE DEF n, c, others, marks, count
<1>5. /\ Moved(n, b, others)
      /\ \A p \in Node : seen'[p] \subseteq (IF p = n THEN marks \cup {b} ELSE seen[p])
  BY <1>1, <1>2, Moving
<1>6. \A p \in Node : seen'[p] \subseteq seen[p] \cup (IF p = n THEN {b} ELSE {})
  BY <1>4, <1>5
<1> HIDE DEF b
<1> QED BY <1>1, <1>2, <1>3, <1>5, <1>6, MovedKeeps

\* A flushed copy goes farther ahead of whoever it was ahead of.
LEMMA FlushKeeps ==
  ASSUME Places, Passing, Custody, NEW n \in Node, NEW c \in held[n], Flush(n, c)
  PROVE  Passing' /\ Custody'
<1> DEFINE b == c.id
<1>1. c \in Copy /\ b \in Bundle /\ b \in Ids(n)
  BY DEF Places, Copy, Ids
<1>2. wire' = wire \cup Published(n, c) /\ UNCHANGED <<seen, lost, arrived, sent>>
  BY DEF Flush, history
<1>3. CASE Published(n, c) = {} /\ UNCHANGED stores
  BY <1>2, <1>3, SameIds DEF stores, Passing, Ahead, Custody
<1>4. CASE Published(n, c) # {} /\ Remove(n, c)
  <2>1. PICK x \in Published(n, c) : TRUE
    BY <1>4
  <2>2. x \in wire' /\ x.copy.id = b /\ x.to \in Node
        /\ (x.to = Dst[b] \/ Rank[Dst[b]][x.to] < Rank[Dst[b]][n])
    BY <1>1, <1>2, PublishedAhead, PublishedType DEF Packet
  <2>3. \A q \in Node : Ids(q)' = Ids(q) \ (IF q = n THEN {b} ELSE {})
    BY <1>4, RemoveIds
  <2> HIDE DEF b
  <2>4. ASSUME NEW d \in Bundle, NEW p \in Node, Ahead(d, p) PROVE Ahead(d, p)'
    <3>1. CASE \E y \in wire : y.copy.id = d
                  /\ (y.to = Dst[d] \/ Rank[Dst[d]][y.to] < Rank[Dst[d]][p])
      BY <1>2, <3>1 DEF Ahead
    <3>2. ASSUME NEW q \in Node, d \in Ids(q), Rank[Dst[d]][q] <= Rank[Dst[d]][p]
          PROVE  Ahead(d, p)'
      <4>1. CASE d = b /\ q = n
        <5>1. \A r \in Node : Rank[Dst[b]][r] \in Nat
          BY <1>1, RankNat
        <5>2. x.to = Dst[b] \/ Rank[Dst[b]][x.to] < Rank[Dst[b]][p]
          BY <2>2, <3>2, <4>1, <5>1
        <5> QED BY <2>2, <4>1, <5>2 DEF Ahead
      <4>2. CASE ~(d = b /\ q = n)
        BY <2>3, <3>2, <4>2 DEF Ahead
      <4> QED BY <4>1, <4>2
    <3> QED BY <2>4, <3>1, <3>2 DEF Ahead
  <2>5. Passing'
    BY <1>2, <2>3, <2>4 DEF Passing
  <2>6. Custody'
    <3>1. ASSUME NEW d \in sent, d \notin arrived \cup lost
          PROVE  (\E y \in wire' : y.copy.id = d) \/ (\E q \in Node : d \in Ids(q)')
      BY <1>2, <2>2, <2>3, <3>1 DEF Custody
    <3> QED BY <1>2, <3>1 DEF Custody
  <2> QED BY <2>5, <2>6
<1> QED BY <1>3, <1>4 DEF Flush

LEMMA ExpireKeeps ==
  ASSUME Places, Passing, Custody, NEW n \in Node, NEW c \in held[n], Expire(n, c)
  PROVE  Passing' /\ Custody'
<1>1. \A q \in Node : Ids(q)' = Ids(q) \ (IF q = n THEN {c.id} ELSE {})
  BY RemoveIds DEF Expire
<1>2. lost' = lost \cup {c.id} /\ UNCHANGED <<seen, wire, sent, arrived>>
  BY DEF Expire
<1>3. Passing'
  <2>1. ASSUME NEW d \in Bundle, NEW p \in Node, d # c.id, Ahead(d, p) PROVE Ahead(d, p)'
    BY <1>1, <1>2, <2>1 DEF Ahead
  <2> QED BY <1>1, <1>2, <2>1 DEF Passing
<1>4. Custody'
  BY <1>1, <1>2 DEF Custody
<1> QED BY <1>3, <1>4

\* A cut link drops packets only of bundles it reports lost.
LEMMA CutKeeps ==
  ASSUME Passing, Custody, NEW cut, Cut(cut), UNCHANGED <<held, sent, arrived>>,
         \A p \in Node : seen'[p] \subseteq seen[p] \/ seen'[p] = Ids(p)
  PROVE  Passing' /\ Custody'
<1>1. lost \subseteq lost' /\ \A x \in wire : x \in wire' \/ x.copy.id \in lost'
  BY DEF Cut
<1>2. ASSUME NEW d \in Bundle \ (arrived' \cup lost'), NEW p \in Node, d \in seen'[p]
      PROVE  Dst[d] # p /\ Ahead(d, p)'
  <2>1. CASE d \in seen[p]
    BY <1>1, <1>2, <2>1, SameIds DEF Passing, Ahead
  <2>2. CASE d \in Ids(p)
    <3>1. Rank[Dst[d]][p] <= Rank[Dst[d]][p]
      BY RankNat
    <3> QED BY <2>2, <3>1, SameIds DEF Passing, Ahead
  <2> QED BY <1>2, <2>1, <2>2
<1>3. Passing'
  BY <1>2, SameIds DEF Passing
<1>4. Custody'
  BY <1>1, SameIds DEF Custody
<1> QED BY <1>3, <1>4

LEMMA CustodyKept ==
  ASSUME Places, Passing, Custody, [Next]_vars PROVE Passing' /\ Custody'
<1>1. Places'
  BY PlacesKept
<1>2. CASE \E b \in Bundle : Send(b)
  BY <1>1, <1>2, SendKeeps
<1>3. CASE \E m \in wire : RecvSeen(m) \/ RecvLocal(m) \/ RecvRelay(m)
  BY <1>1, <1>3, RecvSeenKeeps, RecvLocalKeeps, RecvRelayKeeps
<1>4. CASE \E n \in Node : \E c \in held[n] : Flush(n, c) \/ Expire(n, c)
  BY <1>4, FlushKeeps, ExpireKeeps
<1>5. ASSUME NEW n \in Node, NEW p \in Node, Disconnect(n, p) PROVE Passing' /\ Custody'
  BY <1>5, CutKeeps DEF Disconnect, stores
<1>6. ASSUME NEW n \in Node, Reboot(n) PROVE Passing' /\ Custody'
  <2>1. \A p \in Node : seen'[p] \subseteq seen[p] \/ seen'[p] = Ids(p)
    BY <1>6 DEF Reboot, Places
  <2> QED BY <1>6, <2>1, CutKeeps DEF Reboot
<1>7. CASE \/ \E n \in Node : Secrete(n)
           \/ \E n, p \in Node : Connect(n, p) \/ Subscribe(n, p)
           \/ UNCHANGED vars
  <2>1. UNCHANGED <<held, wire, seen, sent, arrived, lost>>
    BY <1>7 DEF Secrete, Connect, Subscribe, vars, stores, history
  <2> QED BY <2>1, SameIds DEF Passing, Ahead, Custody
<1> QED BY <1>2, <1>3, <1>4, <1>5, <1>6, <1>7 DEF Next

\* Whatever retries, relays, flushes, restarts and full caches there are, a
\* bundle that was sent has been handled, is on the wire or in a store, or a
\* copy of it was dropped for its TTL, its hops, a full store or a broken link:
\* the deduplication of the pulse never drops the last copy.
THEOREM NothingDroppedSilently == Spec => []Custody
<1>1. Init => Places /\ Passing /\ Custody
  <2>1. Init => Passing /\ Custody
    BY DEF Init, Passing, Custody, Ids
  <2> QED BY <2>1, PlacesInit
<1>2. Places /\ Passing /\ Custody /\ [Next]_vars => Places' /\ Passing' /\ Custody'
  BY PlacesKept, CustodyKept
<1> QED BY <1>1, <1>2, PTL DEF Spec

-----------------------------------------------------------------------------
(* Stores keep their quota.                                                *)

\* current_bytes never falls below the payloads of the store, though it may
\* be above; only a payload that fits is added.
Metered ==
  \A n \in Node :
    /\ counted[n] \in Nat
    /\ SumFunctionOnSet(Size, Ids(n)) <= counted[n]
    /\ SumFunctionOnSet(Size, Ids(n)) <= MaxBytes
    /\ Cardinality(Ids(n)) <= MaxStored

StoreInv == Places /\ counted \in [Node -> Nat] /\ Metered

\* A store has as many ids as copies.
LEMMA StoreIds ==
  ASSUME Places, NEW n \in Node
  PROVE  /\ Ids(n) \in SUBSET Bundle /\ IsFiniteSet(Ids(n))
         /\ Cardinality(Ids(n)) \in Nat /\ Cardinality(held[n]) = Cardinality(Ids(n))
<1> DEFINE f == [c \in held[n] |-> c.id]
<1>1. Ids(n) \in SUBSET Bundle
  BY DEF Places, Copy, Ids
<1>2. IsFiniteSet(Ids(n)) /\ Cardinality(Ids(n)) \in Nat
  BY <1>1, BundleAssumption, FS_Subset, FS_CardinalityType DEF BundleAssumption
<1>3. f \in Injection(held[n], Ids(n)) /\ f \in Surjection(held[n], Ids(n))
  BY DEF Injection, Surjection, IsInjective, Places, Ids
<1>4. Cardinality(held[n]) = Cardinality(Ids(n))
  <2> HIDE DEF f
  <2> QED BY <1>2, <1>3, FS_Injection
<1> QED BY <1>1, <1>2, <1>4

LEMMA SizesNat ==
  ASSUME NEW S \in SUBSET Bundle
  PROVE  /\ SumFunctionOnSet(Size, S) \in Nat /\ SumFunctionOnSet(JsonSize, S) \in Nat
         /\ SumFunctionOnSet(Size, S) <= SumFunctionOnSet(JsonSize, S)
<1>1. IsFiniteSet(Bundle) /\ IsFiniteSet(S)
  BY BundleAssumption, FS_Subset DEF BundleAssumption
<1>2. /\ \A b \in Bundle : Size[b] \in Nat /\ JsonSize[b] \in Nat
      /\ \A b \in S : Size[b] \in Int /\ JsonSize[b] \in Int /\ Size[b] <= JsonSize[b]
  BY SizeAssumption DEF SizeAssumption
<1>3. SumFunctionOnSet(Size, S) \in Nat /\ SumFunctionOnSet(JsonSize, S) \in Nat
  BY <1>1, <1>2, SumType
<1>4. SumFunctionOnSet(Size, S) <= SumFunctionOnSet(JsonSize, S)
  BY <1>1, <1>2, SumMono
<1> QED BY <1>3, <1>4

LEMMA InsertMetered ==
  ASSUME StoreInv, NEW n \in Node, NEW c \in Copy, Fits(n, c.id), Insert(n, c)
  PROVE  counted' \in [Node -> Nat] /\ Metered'
<1> DEFINE b == c.id
<1>0. b \in Bundle /\ Size[b] \in Nat
  BY SizeAssumption DEF Copy, SizeAssumption
<1>1. counted' = [counted EXCEPT ![n] = @ + Size[b]]
  BY DEF Insert
<1>2. \A q \in Node : Ids(q)' = Ids(q) \cup (IF q = n THEN {b} ELSE {})
  BY InsertIds DEF StoreInv
<1>3. counted' \in [Node -> Nat]
  BY <1>0, <1>1 DEF StoreInv
<1>4. \A q \in Node \ {n} : Ids(q)' = Ids(q) /\ counted'[q] = counted[q]
  BY <1>1, <1>2 DEF StoreInv
<1>5. Ids(n)' = Ids(n) \cup {b} /\ counted'[n] = counted[n] + Size[b]
  BY <1>1, <1>2 DEF StoreInv
<1>6. /\ Ids(n) \in SUBSET Bundle /\ IsFiniteSet(Ids(n)) /\ Cardinality(Ids(n)) \in Nat
      /\ Cardinality(Ids(n)) < MaxStored /\ counted[n] + Size[b] <= MaxBytes
  BY StoreIds DEF StoreInv, Fits, FitsByCount
<1>7. Cardinality(Ids(n) \cup {b}) <= MaxStored
  <2> HIDE DEF b
  <2>1. Cardinality(Ids(n) \cup {b}) = Cardinality(Ids(n))
        \/ Cardinality(Ids(n) \cup {b}) = Cardinality(Ids(n)) + 1
    BY <1>6, FS_AddElement
  <2> QED BY <1>6, <2>1, LimitAssumption DEF LimitAssumption
<1>8. /\ SumFunctionOnSet(Size, Ids(n) \cup {b}) <= SumFunctionOnSet(Size, Ids(n)) + Size[b]
      /\ SumFunctionOnSet(Size, Ids(n) \cup {b}) \in Nat
      /\ SumFunctionOnSet(Size, Ids(n)) \in Nat
  <2>1. \A i \in Bundle : Size[i] \in Nat
    BY SizeAssumption DEF SizeAssumption
  <2>2. IsFiniteSet(Bundle) /\ Ids(n) \cup {b} \in SUBSET Bundle
    BY <1>0, <1>6, BundleAssumption DEF BundleAssumption
  <2> HIDE DEF b
  <2> QED BY <1>0, <1>6, <2>1, <2>2, SumOneMore, SizesNat
<1>9. SumFunctionOnSet(Size, Ids(n)) <= counted[n] /\ counted[n] \in Nat
  BY DEF StoreInv, Metered
<1>10. /\ SumFunctionOnSet(Size, Ids(n) \cup {b}) <= counted[n] + Size[b]
       /\ SumFunctionOnSet(Size, Ids(n) \cup {b}) <= MaxBytes
  BY <1>0, <1>6, <1>8, <1>9, LimitAssumption DEF LimitAssumption
<1> HIDE DEF b
<1>11. ASSUME NEW q \in Node PROVE
         /\ counted'[q] \in Nat
         /\ SumFunctionOnSet(Size, Ids(q)') <= counted'[q]
         /\ SumFunctionOnSet(Size, Ids(q)') <= MaxBytes
         /\ Cardinality(Ids(q)') <= MaxStored
  <2>1. CASE q = n
    BY <1>3, <1>5, <1>7, <1>10, <2>1
  <2>2. CASE q # n
    BY <1>3, <1>4, <2>2 DEF StoreInv, Metered
  <2> QED BY <2>1, <2>2
<1> QED BY <1>3, <1>11 DEF Metered

LEMMA RemoveMetered ==
  ASSUME StoreInv, NEW n \in Node, NEW c \in held[n], Remove(n, c)
  PROVE  counted' \in [Node -> Nat] /\ Metered'
<1> DEFINE b == c.id
<1>0. b \in Bundle /\ Size[b] \in Nat /\ b \in Ids(n)
  BY SizeAssumption DEF StoreInv, Places, Copy, SizeAssumption, Ids
<1>1. counted' = [counted EXCEPT ![n] = IF @ < Size[b] THEN 0 ELSE @ - Size[b]]
  BY DEF Remove
<1>2. \A q \in Node : Ids(q)' = Ids(q) \ (IF q = n THEN {b} ELSE {})
  BY RemoveIds DEF StoreInv
<1>3. counted' \in [Node -> Nat]
  BY <1>0, <1>1 DEF StoreInv
<1>4. \A q \in Node \ {n} : Ids(q)' = Ids(q) /\ counted'[q] = counted[q]
  BY <1>1, <1>2 DEF StoreInv
<1>5. Ids(n)' = Ids(n) \ {b}
      /\ counted'[n] = IF counted[n] < Size[b] THEN 0 ELSE counted[n] - Size[b]
  BY <1>1, <1>2 DEF StoreInv
<1>6. /\ Ids(n) \in SUBSET Bundle /\ IsFiniteSet(Ids(n)) /\ Cardinality(Ids(n)) \in Nat
      /\ Cardinality(Ids(n)) <= MaxStored
  BY StoreIds DEF StoreInv, Metered
<1>7. Cardinality(Ids(n) \ {b}) <= MaxStored
  <2> HIDE DEF b
  <2>1. Cardinality(Ids(n) \ {b}) = Cardinality(Ids(n)) - 1
    BY <1>0, <1>6, FS_RemoveElement
  <2> QED BY <1>6, <2>1, LimitAssumption DEF LimitAssumption
<1>8. /\ SumFunctionOnSet(Size, Ids(n)) = Size[b] + SumFunctionOnSet(Size, Ids(n) \ {b})
      /\ SumFunctionOnSet(Size, Ids(n) \ {b}) \in Nat
  <2>1. \A i \in Bundle : Size[i] \in Int
    BY SizeAssumption DEF SizeAssumption
  <2>2. IsFiniteSet(Bundle) /\ Ids(n) \ {b} \in SUBSET Bundle
    BY <1>6, BundleAssumption DEF BundleAssumption
  <2> HIDE DEF b
  <2> QED BY <1>0, <1>6, <2>1, <2>2, SumSplit, SizesNat
<1>9. /\ SumFunctionOnSet(Size, Ids(n)) <= counted[n] /\ counted[n] \in Nat
      /\ SumFunctionOnSet(Size, Ids(n)) <= MaxBytes
  BY DEF StoreInv, Metered
<1>10. /\ SumFunctionOnSet(Size, Ids(n) \ {b}) <= counted[n] - Size[b]
       /\ SumFunctionOnSet(Size, Ids(n) \ {b}) <= MaxBytes
       /\ ~(counted[n] < Size[b])
  BY <1>0, <1>8, <1>9, LimitAssumption DEF LimitAssumption
<1> HIDE DEF b
<1>11. ASSUME NEW q \in Node PROVE
         /\ counted'[q] \in Nat
         /\ SumFunctionOnSet(Size, Ids(q)') <= counted'[q]
         /\ SumFunctionOnSet(Size, Ids(q)') <= MaxBytes
         /\ Cardinality(Ids(q)') <= MaxStored
  <2>1. CASE q = n
    BY <1>3, <1>5, <1>7, <1>10, <2>1
  <2>2. CASE q # n
    BY <1>3, <1>4, <2>2 DEF StoreInv, Metered
  <2> QED BY <2>1, <2>2
<1> QED BY <1>3, <1>11 DEF Metered

LEMMA SameMetered ==
  ASSUME StoreInv, UNCHANGED stores PROVE counted' \in [Node -> Nat] /\ Metered'
<1>1. counted' = counted /\ \A q \in Node : Ids(q)' = Ids(q)
  BY SameIds DEF stores
<1> QED BY <1>1 DEF StoreInv, Metered

\* A restart counts the files, which are no smaller than the payloads.
LEMMA RebootMetered ==
  ASSUME StoreInv, NEW n \in Node, Reboot(n)
  PROVE  counted' \in [Node -> Nat] /\ Metered'
<1>1. /\ \A q \in Node : Ids(q)' = Ids(q)
      /\ counted' = [counted EXCEPT ![n] = SumFunctionOnSet(JsonSize, Ids(n))]
  BY SameIds DEF Reboot
<1>2. Ids(n) \in SUBSET Bundle
  BY StoreIds DEF StoreInv
<1>3. /\ SumFunctionOnSet(JsonSize, Ids(n)) \in Nat
      /\ SumFunctionOnSet(Size, Ids(n)) <= SumFunctionOnSet(JsonSize, Ids(n))
  BY <1>2, SizesNat
<1> QED BY <1>1, <1>3 DEF StoreInv, Metered

LEMMA ForwardMetered ==
  ASSUME StoreInv, NEW n \in Node, NEW c \in Copy, NEW others, NEW marks,
         NEW count, ForwardOrStore(n, c, others, marks, count)
  PROVE  counted' \in [Node -> Nat] /\ Metered'
<1> DEFINE next == [c EXCEPT !.hops = @ + 1, !.aimed = Aimed(n, c)]
<1>1. ASSUME ~Spent(c), Fits(n, c.id), Insert(n, next)
      PROVE  counted' \in [Node -> Nat] /\ Metered'
  <2>1. next \in Copy /\ next.id = c.id
    BY <1>1, NextType DEF Copy
  <2> HIDE DEF next
  <2>2. Fits(n, next.id)
    BY <1>1, <2>1
  <2> QED BY <1>1, <2>1, <2>2, InsertMetered
<1>2. (~Spent(c) /\ Fits(n, c.id) /\ Insert(n, next)) \/ UNCHANGED stores
  BY DEF ForwardOrStore
<1> HIDE DEF next
<1> QED BY <1>1, <1>2, SameMetered

LEMMA StoreKept == StoreInv /\ [Next]_vars => StoreInv'
<1> SUFFICES ASSUME StoreInv, [Next]_vars PROVE counted' \in [Node -> Nat] /\ Metered'
  BY PlacesKept DEF StoreInv
<1>1. ASSUME NEW b \in Bundle, Send(b) PROVE counted' \in [Node -> Nat] /\ Metered'
  <2>1. Src[b] \in Node /\ [id |-> b, hops |-> 0, aimed |-> FALSE] \in Copy
    BY BundleAssumption, LimitAssumption DEF BundleAssumption, LimitAssumption, Copy
  <2> QED BY <1>1, <2>1, ForwardMetered DEF Send
<1>2. ASSUME NEW m \in wire, RecvRelay(m) PROVE counted' \in [Node -> Nat] /\ Metered'
  <2>1. m.to \in Node /\ m.copy \in Copy
    BY DEF StoreInv, Places, Packet
  <2> QED BY <1>2, <2>1, ForwardMetered DEF RecvRelay
<1>3. ASSUME NEW n \in Node, NEW c \in held[n], Flush(n, c) \/ Expire(n, c)
      PROVE  counted' \in [Node -> Nat] /\ Metered'
  <2>1. Remove(n, c) \/ UNCHANGED stores
    BY <1>3 DEF Flush, Expire
  <2> QED BY <2>1, RemoveMetered, SameMetered
<1>4. CASE \/ \E m \in wire : RecvSeen(m) \/ RecvLocal(m)
           \/ \E n \in Node : Secrete(n)
           \/ \E n, p \in Node : Connect(n, p) \/ Subscribe(n, p) \/ Disconnect(n, p)
           \/ UNCHANGED vars
  <2>1. UNCHANGED stores
    BY <1>4 DEF RecvSeen, RecvLocal, Secrete, Connect, Subscribe, Disconnect, vars, stores
  <2> QED BY <2>1, SameMetered
<1> QED BY <1>1, <1>2, <1>3, <1>4, RebootMetered DEF Next

LEMMA StoreInit == Init => StoreInv
<1> SUFFICES ASSUME Init PROVE counted \in [Node -> Nat] /\ Metered
  BY PlacesInit DEF StoreInv
<1>1. \A n \in Node : Ids(n) = {} /\ counted[n] = 0
  BY DEF Init, Ids
<1> QED BY <1>1, SumEmpty, FS_EmptySet, LimitAssumption DEF Init, Metered, LimitAssumption

\* A store holds well-formed copies, one of each bundle, and its count of
\* bytes is a natural number (the subtraction of remove saturates).
THEOREM TypeCorrect == Spec => []TypeOK
<1>1. StoreInv => TypeOK
  BY DEF StoreInv, TypeOK
<1> QED BY <1>1, StoreInit, StoreKept, PTL DEF Spec

\* No store exceeds its quota of bundles or of bytes, although current_bytes
\* drifts: a replaced bundle is counted twice, a restart counts files.
THEOREM QuotasHold == Spec => []QuotaHolds
<1>1. StoreInv => QuotaHolds
  BY DEF StoreInv, Metered, QuotaHolds
<1> QED BY <1>1, StoreInit, StoreKept, PTL DEF Spec

-----------------------------------------------------------------------------
(* The relays act as couriers.                                             *)

\* A step of the couriers or a stutter.
Couriered == Promise!CourierNext \/ UNCHANGED <<sent, Carried, handled, arrived, lost>>

LEMMA InCarried ==
  ASSUME NEW b
  PROVE  /\ b \in Carried <=> \/ \E x \in wire : x.copy.id = b
                              \/ \E q \in Node : b \in Ids(q)
         /\ b \in Carried' <=> \/ \E x \in wire' : x.copy.id = b
                               \/ \E q \in Node : b \in Ids(q)'
  BY DEF Carried

\* No node has seen an id that was not sent.
SeenSent == \A n \in Node : seen[n] \subseteq sent

LEMMA SeenSentKept ==
  ASSUME Places, Carried \subseteq sent, SeenSent, [Next]_vars PROVE SeenSent'
<1>1. ASSUME NEW n \in Node, NEW b, b \in sent', sent \subseteq sent',
             \A p \in Node : seen'[p] \subseteq (IF p = n THEN seen[n] \cup {b} ELSE seen[p])
      PROVE  SeenSent'
  BY <1>1 DEF SeenSent
<1>2. ASSUME NEW b \in Bundle, Send(b) PROVE SeenSent'
  <2> DEFINE c == [id |-> b, hops |-> 0, aimed |-> FALSE]
  <2>1. Src[b] \in Node /\ c \in Copy /\ c.id = b /\ Dst[b] # Src[b]
    BY BundleAssumption, LimitAssumption DEF BundleAssumption, LimitAssumption, Copy
  <2>2. ForwardOrStore(Src[b], c, wire, seen[Src[b]], handled) /\ sent' = sent \cup {b}
        /\ UNCHANGED arrived
    BY <1>2 DEF Send
  <2> HIDE DEF c
  <2> QED BY <1>1, <2>1, <2>2, Moving
<1>3. ASSUME NEW m \in wire, RecvLocal(m) PROVE SeenSent'
  <2>1. m.to \in Node /\ m.copy.id \in sent
    BY InCarried DEF Places, Packet
  <2>2. Marked(seen[m.to], m.copy.id) \subseteq seen[m.to] \cup {m.copy.id}
    BY MarkedBound
  <2> QED BY <1>3, <2>1, <2>2 DEF RecvLocal, SeenSent, Places
<1>4. ASSUME NEW m \in wire, RecvRelay(m) PROVE SeenSent'
  <2> DEFINE b == m.copy.id
             marks == Marked(seen[m.to], b)
             count == Since(m.to, seen[m.to], handled)
  <2>1. m.to \in Node /\ m.copy \in Copy /\ b \in sent /\ Dst[b] # m.to
    BY <1>4, InCarried DEF Places, Packet, RecvRelay
  <2>2. ForwardOrStore(m.to, m.copy, wire \ {m}, marks, count) /\ UNCHANGED <<arrived, sent>>
    BY <1>4 DEF RecvRelay
  <2>3. marks \subseteq seen[m.to] \cup {b}
    BY MarkedBound
  <2> HIDE DEF marks, count
  <2>4. \A p \in Node : seen'[p] \subseteq (IF p = m.to THEN marks \cup {b} ELSE seen[p])
    BY <2>1, <2>2, Moving
  <2> QED BY <1>1, <2>1, <2>2, <2>3, <2>4
<1>5. ASSUME NEW n \in Node, Reboot(n) PROVE SeenSent'
  <2>1. Ids(n) \subseteq sent
    BY InCarried
  <2> QED BY <1>5, <2>1 DEF Reboot, Places, SeenSent
<1>6. CASE \/ \E m \in wire : RecvSeen(m)
           \/ \E n \in Node : Secrete(n)
           \/ \E n \in Node : \E c \in held[n] : Flush(n, c) \/ Expire(n, c)
           \/ \E n, p \in Node : Connect(n, p) \/ Subscribe(n, p) \/ Disconnect(n, p)
           \/ UNCHANGED vars
  <2>1. UNCHANGED <<sent, seen>>
    BY <1>6 DEF RecvSeen, Secrete, Flush, Expire, Connect, Subscribe, Disconnect, vars, history
  <2> QED BY <2>1 DEF SeenSent
<1> QED BY <1>2, <1>3, <1>4, <1>5, <1>6 DEF Next

\* What a courier may recall after a step at n.
RecalledAt(n, count) ==
  count \in Promise!Recalled /\ count \in {handled, Promise!Forgotten(n)}

LEMMA HandledRecalled == ASSUME NEW n PROVE RecalledAt(n, handled)
  BY DEF RecalledAt, Promise!Recalled

\* A cache is full only if as many bundles were sent.
LEMMA SinceRecalled ==
  ASSUME Places, Places', NEW n \in Node, NEW S, S \subseteq sent', NEW count,
         RecalledAt(n, count)
  PROVE  RecalledAt(n, Since(n, S, count))
<1>1. handled = [b \in Bundle |-> handled[b]]
  BY DEF Places
<1>2. CASE ~Full(S)
  <2>1. Since(n, S, count) = [b \in Bundle |-> count[b]]
    BY <1>2 DEF Since
  <2>2. count = [b \in Bundle |-> count[b]]
    BY <1>1 DEF RecalledAt, Promise!Forgotten
  <2>3. Since(n, S, count) = count
    BY <2>1, <2>2
  <2> QED BY <2>3
<1>3. CASE Full(S)
  <2>1. Since(n, S, count) = Promise!Forgotten(n)
    BY <1>1, <1>3 DEF Since, Promise!Forgotten, RecalledAt
  <2>2. IsFiniteSet(sent')
    BY BundleAssumption, FS_Subset DEF BundleAssumption, Places
  <2>3. Cardinality(S) <= Cardinality(sent') /\ IsFiniteSet(S)
    BY <2>2, FS_Subset
  <2>4. Cardinality(S) \in Nat /\ Cardinality(sent') \in Nat
    BY <2>2, <2>3, FS_CardinalityType
  <2>5. Full(sent')
    BY <1>3, <2>3, <2>4, LimitAssumption DEF Full, LimitAssumption
  <2>6. Promise!Forgotten(n) \in Promise!Recalled
    BY <2>5 DEF Promise!Recalled
  <2>7. RecalledAt(n, Promise!Forgotten(n))
    BY <2>6 DEF RecalledAt
  <2> HIDE DEF RecalledAt
  <2> QED BY <2>1, <2>7
<1> QED BY <1>2, <1>3

\* Passing a copy on or keeping it carries it; only a drop that is admitted
\* does not.
LEMMA ForwardCarries ==
  ASSUME Places, NEW n \in Node, NEW c \in Copy, NEW others \in SUBSET wire, NEW marks, NEW count,
         ForwardOrStore(n, c, others, marks, count),
         \A x \in wire \ others : x.copy.id = c.id
  PROVE  \/ Carried' = Carried \cup {c.id} /\ lost' = lost
         \/ /\ lost' = lost \cup {c.id}
            /\ Carried' \subseteq Carried /\ Carried \ {c.id} \subseteq Carried'
            /\ others = wire => Carried' = Carried
<1> DEFINE next == [c EXCEPT !.hops = @ + 1, !.aimed = Aimed(n, c)]
           out  == Published(n, next)
<1>1. next.id = c.id
  BY DEF Copy
<1>2. ASSUME ~Spent(c), out # {}, wire' = others \cup out, UNCHANGED <<stores, lost>>
      PROVE  Carried' = Carried \cup {c.id}
  <2>1. next \in Copy
    BY <1>2, NextType
  <2> HIDE DEF next
  <2>2. \A x \in out : x.copy.id = c.id
    BY <1>1, <2>1, PublishedAhead
  <2>3. \A q \in Node : Ids(q)' = Ids(q)
    BY <1>2, SameIds DEF stores
  <2> HIDE DEF out
  <2>4. ASSUME NEW b PROVE b \in Carried' <=> b \in Carried \cup {c.id}
    <3>1. (\E x \in wire' : x.copy.id = b) <=> (\E x \in others : x.copy.id = b) \/ b = c.id
      BY <1>2, <2>2
    <3>2. b # c.id => ((\E x \in wire : x.copy.id = b) <=> (\E x \in others : x.copy.id = b))
      OBVIOUS
    <3> QED BY <2>3, <3>1, <3>2, InCarried
  <2> QED BY <2>4
<1>3. ASSUME ~Spent(c), Insert(n, next), wire' = others, UNCHANGED lost
      PROVE  Carried' = Carried \cup {c.id}
  <2> HIDE DEF next
  <2>1. \A q \in Node : Ids(q)' = Ids(q) \cup (IF q = n THEN {c.id} ELSE {})
    BY <1>1, <1>3, InsertIds
  <2>2. ASSUME NEW b PROVE b \in Carried' <=> b \in Carried \cup {c.id}
    <3>1. (\E q \in Node : b \in Ids(q)') <=> (\E q \in Node : b \in Ids(q)) \/ b = c.id
      BY <2>1
    <3>2. b # c.id => ((\E x \in wire : x.copy.id = b) <=> (\E x \in wire' : x.copy.id = b))
      BY <1>3
    <3>3. (\E x \in wire' : x.copy.id = b) => (\E x \in wire : x.copy.id = b)
      BY <1>3
    <3> QED BY <3>1, <3>2, <3>3, InCarried
  <2> QED BY <2>2
<1>4. ASSUME wire' = others, lost' = lost \cup {c.id}, UNCHANGED stores
      PROVE  /\ Carried' \subseteq Carried /\ Carried \ {c.id} \subseteq Carried'
             /\ others = wire => Carried' = Carried
  <2>1. \A q \in Node : Ids(q)' = Ids(q)
    BY <1>4, SameIds DEF stores
  <2>2. ASSUME NEW b
        PROVE  /\ b \in Carried' => b \in Carried
               /\ b \in Carried /\ b # c.id => b \in Carried'
               /\ others = wire => (b \in Carried' <=> b \in Carried)
    <3>1. b # c.id => ((\E x \in wire : x.copy.id = b) <=> (\E x \in wire' : x.copy.id = b))
      BY <1>4
    <3>2. (\E x \in wire' : x.copy.id = b) => (\E x \in wire : x.copy.id = b)
      BY <1>4
    <3> QED BY <1>4, <2>1, <3>1, <3>2, InCarried
  <2> QED BY <2>2
<1>5. \/ ~Spent(c) /\ out # {} /\ wire' = others \cup out /\ UNCHANGED <<stores, lost>>
      \/ ~Spent(c) /\ Insert(n, next) /\ wire' = others /\ UNCHANGED lost
      \/ wire' = others /\ lost' = lost \cup {c.id} /\ UNCHANGED stores
  BY DEF ForwardOrStore
<1> HIDE DEF next, out
<1> QED BY <1>2, <1>3, <1>4, <1>5

LEMMA SendCouriered ==
  ASSUME Places, Places', SeenSent, NEW b \in Bundle, Send(b) PROVE Couriered
<1> DEFINE c == [id |-> b, hops |-> 0, aimed |-> FALSE]
<1>1. Src[b] \in Node /\ c \in Copy /\ c.id = b
  BY BundleAssumption, LimitAssumption DEF BundleAssumption, LimitAssumption, Copy
<1>2. ForwardOrStore(Src[b], c, wire, seen[Src[b]], handled)
  BY DEF Send
<1>3. sent' = sent \cup {b} /\ UNCHANGED arrived
  BY DEF Send
<1>6. handled' \in Promise!Recalled
  <2>1. seen[Src[b]] \subseteq sent'
    BY <1>1, <1>3 DEF SeenSent
  <2>2. handled' \in {handled, Since(Src[b], seen[Src[b]], handled)}
    BY <1>2 DEF ForwardOrStore
  <2> QED BY <1>1, <2>1, <2>2, HandledRecalled, SinceRecalled DEF RecalledAt
<1> HIDE DEF c
<1>4. \/ Carried' = Carried \cup {b} /\ lost' = lost
      \/ lost' = lost \cup {b} /\ Carried' = Carried
  BY <1>1, <1>2, ForwardCarries
<1>5. Promise!Post(b)
  BY <1>3, <1>4, <1>6 DEF Promise!Post
<1> QED BY <1>5 DEF Couriered, Promise!CourierNext

\* A copy that arrives is gone from the wire; of the other bundles none is.
LEMMA Taken ==
  ASSUME NEW m \in wire, wire' = wire \ {m}, UNCHANGED stores
  PROVE  m.copy.id \in Carried /\ Carried' \in {Carried, Carried \ {m.copy.id}}
<1>1. \A q \in Node : Ids(q)' = Ids(q)
  BY SameIds DEF stores
<1>2. ASSUME NEW b PROVE /\ b \in Carried' => b \in Carried
                         /\ b \in Carried /\ b # m.copy.id => b \in Carried'
  BY <1>1, InCarried
<1>3. m.copy.id \in Carried
  BY InCarried
<1> QED BY <1>2, <1>3

\* A duplicate that is dropped is not the last copy, or the bundle has arrived
\* or was reported lost.
LEMMA RecvSeenCouriered ==
  ASSUME Places, Custody', Carried \subseteq sent, NEW m \in wire, RecvSeen(m) PROVE Couriered
<1> DEFINE b == m.copy.id
<1>1. b \in Bundle
  BY DEF Places, Packet, Copy
<1>2. wire' = wire \ {m} /\ UNCHANGED stores /\ UNCHANGED <<sent, handled, arrived, lost>>
  BY DEF RecvSeen, history
<1>3. b \in Carried /\ Carried' \in {Carried, Carried \ {b}}
  BY <1>2, Taken
<1>4. CASE Carried' = Carried
  BY <1>2, <1>4 DEF Couriered
<1>5. CASE Carried' = Carried \ {b}
  <2>1. b \in arrived \cup lost
    BY <1>2, <1>3, <1>5, InCarried DEF Custody
  <2>2. Promise!Discard(b)
    BY <1>2, <1>3, <1>5, <2>1 DEF Promise!Discard
  <2> QED BY <1>1, <2>2 DEF Couriered, Promise!CourierNext
<1> QED BY <1>3, <1>4, <1>5

LEMMA RecvLocalCouriered ==
  ASSUME Places, Places', Remembered, SeenSent, NEW m \in wire, RecvLocal(m)
  PROVE  Couriered
<1> DEFINE b == m.copy.id
           count == Since(m.to, seen[m.to], handled)
<1>1. b \in Bundle /\ m.to \in Node
  BY DEF Places, Packet, Copy
<1>2. /\ wire' = wire \ {m} /\ UNCHANGED stores
      /\ b \notin seen[m.to] /\ Dst[b] = m.to
      /\ handled' = [count EXCEPT ![b] = IF @ = 2 THEN 2 ELSE @ + 1]
      /\ arrived' = arrived \cup {b} /\ UNCHANGED <<sent, lost>>
  BY DEF RecvLocal
<1>3. b \in Carried /\ Carried' \in {Carried, Carried \ {b}}
  BY <1>2, Taken
<1>4. handled[b] = 0
  BY <1>1, <1>2 DEF Remembered, Places
<1>7. count \in Promise!Recalled
  BY <1>1, <1>2, HandledRecalled, SinceRecalled DEF RecalledAt, SeenSent
<1>8. count[b] = 0
  BY <1>1, <1>4 DEF Since
<1>5. handled' = [count EXCEPT ![b] = 1]
  BY <1>2, <1>8
<1> HIDE DEF b, count
<1>6. Promise!Deliver(b)
  BY <1>2, <1>3, <1>4, <1>5, <1>7 DEF Promise!Deliver
<1> QED BY <1>1, <1>6 DEF Couriered, Promise!CourierNext

LEMMA RecvRelayCouriered ==
  ASSUME Places, Places', SeenSent, Carried \subseteq sent, NEW m \in wire, RecvRelay(m)
  PROVE  Couriered
<1> DEFINE b == m.copy.id
           marks == Marked(seen[m.to], b)
           count == Since(m.to, seen[m.to], handled)
<1>1. b \in Bundle /\ m.to \in Node /\ m.copy \in Copy
  BY DEF Places, Packet, Copy
<1>2. ForwardOrStore(m.to, m.copy, wire \ {m}, marks, count)
  BY DEF RecvRelay
<1>3. UNCHANGED <<sent, arrived>>
  BY DEF RecvRelay
<1>4. b \in Carried
  BY InCarried
<1>8. handled' \in Promise!Recalled
  <2>1. seen[m.to] \subseteq sent' /\ marks \subseteq sent'
    BY <1>1, <1>3, <1>4, MarkedBound DEF SeenSent
  <2>2. RecalledAt(m.to, count)
    BY <1>1, <2>1, HandledRecalled, SinceRecalled
  <2>3. handled' \in {count, Since(m.to, marks, count)}
    BY <1>2 DEF ForwardOrStore
  <2> HIDE DEF count, marks
  <2> QED BY <1>1, <2>1, <2>2, <2>3, SinceRecalled DEF RecalledAt
<1>5. \/ Carried' = Carried \cup {b} /\ lost' = lost
      \/ /\ lost' = lost \cup {b}
         /\ Carried' \subseteq Carried /\ Carried \ {b} \subseteq Carried'
  <2>1. wire \ {m} \in SUBSET wire /\ \A x \in wire \ (wire \ {m}) : x.copy.id = m.copy.id
    OBVIOUS
  <2> QED BY <1>1, <1>2, <2>1, ForwardCarries
<1> HIDE DEF b, marks, count
<1>6. CASE Carried' = Carried \cup {b} /\ lost' = lost
  <2>1. Carried' = Carried
    BY <1>4, <1>6
  <2>2. Promise!Lose
    BY <1>3, <1>6, <1>8, <2>1 DEF Promise!Lose, Promise!Losing
  <2> QED BY <2>2 DEF Couriered, Promise!CourierNext
<1>7. CASE /\ lost' = lost \cup {b}
           /\ Carried' \subseteq Carried /\ Carried \ {b} \subseteq Carried'
  <2>1. Promise!Lose
    BY <1>3, <1>4, <1>7, <1>8 DEF Promise!Lose, Promise!Losing
  <2> QED BY <2>1 DEF Couriered, Promise!CourierNext
<1> QED BY <1>5, <1>6, <1>7

\* What a flush publishes is on the wire when it leaves the store.
LEMMA FlushCouriered ==
  ASSUME Places, NEW n \in Node, NEW c \in held[n], Flush(n, c) PROVE Couriered
<1> DEFINE b == c.id
<1>1. c \in Copy /\ b \in Ids(n)
  BY DEF Places, Ids
<1>2. wire' = wire \cup Published(n, c) /\ UNCHANGED <<sent, handled, arrived, lost>>
  BY DEF Flush, history
<1>3. \A x \in Published(n, c) : x.copy.id = b
  BY <1>1, PublishedAhead
<1> HIDE DEF b
<1>4. Carried' = Carried
  <2>1. CASE Published(n, c) = {} /\ UNCHANGED stores
    <3>1. wire' = wire /\ \A q \in Node : Ids(q)' = Ids(q)
      BY <1>2, <2>1, SameIds DEF stores
    <3>2. ASSUME NEW d PROVE d \in Carried' <=> d \in Carried
      BY <3>1, InCarried
    <3> QED BY <3>2
  <2>2. CASE Published(n, c) # {} /\ Remove(n, c)
    <3>1. \A q \in Node : Ids(q)' = Ids(q) \ (IF q = n THEN {b} ELSE {})
      BY <2>2, RemoveIds DEF b
    <3>2. ASSUME NEW d PROVE d \in Carried' <=> d \in Carried
      <4>1. (\E x \in wire' : x.copy.id = d) <=> (\E x \in wire : x.copy.id = d) \/ d = b
        BY <1>2, <1>3, <2>2
      <4>2. d # b => ((\E q \in Node : d \in Ids(q)') <=> (\E q \in Node : d \in Ids(q)))
        BY <3>1
      <4> QED BY <1>1, <4>1, <4>2, InCarried
    <3> QED BY <3>2
  <2> QED BY <2>1, <2>2 DEF Flush
<1> QED BY <1>2, <1>4 DEF Couriered

LEMMA ExpireCouriered ==
  ASSUME Places, NEW n \in Node, NEW c \in held[n], Expire(n, c) PROVE Couriered
<1> DEFINE b == c.id
<1>1. /\ \A q \in Node : Ids(q)' = Ids(q) \ (IF q = n THEN {b} ELSE {})
      /\ lost' = lost \cup {b} /\ UNCHANGED <<wire, sent, handled, arrived>>
  BY RemoveIds DEF Expire
<1>2. b \in Carried
  BY InCarried DEF Ids
<1> HIDE DEF b
<1>3. ASSUME NEW d PROVE (d \in Carried' => d \in Carried) /\ (d \in Carried /\ d # b => d \in Carried')
  BY <1>1, InCarried
<1>4. Promise!Lose
  BY <1>1, <1>2, <1>3 DEF Promise!Lose, Promise!Losing, Promise!Recalled
<1> QED BY <1>4 DEF Couriered, Promise!CourierNext

\* A cut link loses what was on it.
LEMMA CutLoses ==
  ASSUME NEW cut, Cut(cut), UNCHANGED <<held, sent, arrived>> PROVE Promise!Losing
<1> DEFINE gone == {x \in wire : <<x.from, x.to>> \in cut}
<1>1. wire' = wire \ gone /\ lost' = lost \cup {x.copy.id : x \in gone}
  BY DEF Cut
<1>2. \A q \in Node : Ids(q)' = Ids(q)
  BY SameIds
<1>3. \A x \in gone : x \in wire /\ x.copy.id \in Carried
  BY InCarried
<1> HIDE DEF gone
<1>4. ASSUME NEW d PROVE (d \in Carried' => d \in Carried) /\ (d \in Carried => d \in Carried' \cup lost')
  BY <1>1, <1>2, InCarried
<1>5. lost \subseteq lost' /\ lost' \ lost \subseteq Carried
  BY <1>1, <1>3
<1> QED BY <1>4, <1>5 DEF Promise!Losing

LEMMA StepCouriered ==
  ASSUME Places, Places', Remembered, SeenSent, Custody', Carried \subseteq sent, [Next]_vars
  PROVE  Couriered
<1>1. CASE \E b \in Bundle : Send(b)
  BY <1>1, SendCouriered
<1>2. CASE \E m \in wire : RecvSeen(m) \/ RecvLocal(m) \/ RecvRelay(m)
  BY <1>2, RecvSeenCouriered, RecvLocalCouriered, RecvRelayCouriered
<1>3. CASE \E n \in Node : \E c \in held[n] : Flush(n, c) \/ Expire(n, c)
  BY <1>3, FlushCouriered, ExpireCouriered
<1>4. ASSUME NEW n \in Node, NEW p \in Node, Disconnect(n, p) PROVE Couriered
  <2>1. Promise!Losing
    BY <1>4, CutLoses DEF Disconnect, stores
  <2> QED BY <1>4, <2>1 DEF Disconnect, Couriered, Promise!CourierNext, Promise!Lose, Promise!Recalled
<1>5. ASSUME NEW n \in Node, Reboot(n) PROVE Couriered
  <2>1. Promise!Losing
    BY <1>5, CutLoses DEF Reboot
  <2> QED BY <1>5, <2>1
          DEF Reboot, Couriered, Promise!CourierNext, Promise!Restart, Promise!Forgotten
<1>6. CASE \/ \E n \in Node : Secrete(n)
           \/ \E n, p \in Node : Connect(n, p) \/ Subscribe(n, p)
           \/ UNCHANGED vars
  <2>1. UNCHANGED <<held, wire, sent, handled, arrived, lost>>
    BY <1>6 DEF Secrete, Connect, Subscribe, vars, stores, history
  <2>2. ASSUME NEW d PROVE d \in Carried' <=> d \in Carried
    BY <2>1, SameIds, InCarried
  <2> QED BY <2>1, <2>2 DEF Couriered
<1> QED BY <1>1, <1>2, <1>3, <1>4, <1>5, <1>6 DEF Next

\* Only what was sent is carried: couriers take up parcels only by posting.
LEMMA CarriedSent ==
  ASSUME Couriered, Carried \subseteq sent PROVE Carried' \subseteq sent'
  BY DEF Couriered, Promise!CourierNext, Promise!Post, Promise!Deliver, Promise!Discard,
         Promise!Lose, Promise!Losing, Promise!Restart

\* The DTN implements the couriers: a unicast is given up only when delivered
\* or reported lost and is delivered again only if its receiver restarted or
\* as many bundles were sent as its cache holds, through any relaying,
\* replacing, retrying, flushing and restarting.
THEOREM RelaysActAsCourier == Spec => ActsAsCourier
<1> DEFINE Inv == Places /\ Remembered /\ Passing /\ Custody
                 /\ SeenSent /\ Carried \subseteq sent
<1>1. Init => Inv /\ Promise!CourierInit
  <2>1. Init => Passing /\ Custody /\ Carried = {}
    BY DEF Init, Passing, Custody, Carried, Ids
  <2>3. Init => SeenSent
    BY DEF Init, SeenSent
  <2>2. Init => Remembered
    BY BundleAssumption DEF Init, Remembered, BundleAssumption
  <2> QED BY <2>1, <2>2, <2>3, PlacesInit DEF Init, Promise!CourierInit
<1>2. Inv /\ [Next]_vars => Inv' /\ Couriered
  <2> SUFFICES ASSUME Inv, [Next]_vars PROVE Inv' /\ Couriered
    OBVIOUS
  <2>1. Places' /\ Remembered' /\ Passing' /\ Custody' /\ SeenSent'
    BY PlacesKept, RememberedKept, CustodyKept, SeenSentKept
  <2>2. Couriered
    BY <2>1, StepCouriered
  <2> QED BY <2>1, <2>2, CarriedSent
<1>3. Couriered => [Promise!CourierNext]_<<sent, Carried, handled, arrived, lost>>
  BY DEF Couriered
<1> QED BY <1>1, <1>2, <1>3, PTL DEF Spec, ActsAsCourier, Promise!CourierSpec
=============================================================================
