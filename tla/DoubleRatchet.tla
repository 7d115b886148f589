--------------------------- MODULE DoubleRatchet ---------------------------
(***************************************************************************)
(* Direct messages between two peers: the ratchet of                       *)
(* src/crypto/doubleRatchet.ts, and the way SocialFabric starts, keeps and *)
(* loses a session.  Either may write first, or both at once.              *)
(*                                                                         *)
(* Cryptography is symbolic.  A public key is <<owner, number>>, a Diffie- *)
(* Hellman output the set of two public keys, a root key the sequence of   *)
(* what was hashed into it.  A chain key is the root it came from and the  *)
(* steps made since; a message key is the chain key it was read from.  A   *)
(* ciphertext opens with the key that made it and with no other.           *)
(***************************************************************************)
EXTENDS Integers, Sequences, FiniteSets

CONSTANTS
  Alice, Bob,  \* the peers
  None,        \* no session, no chain
  SamePreKeys, \* does a responder use the pre-keys of its bundle?  Those who
               \* call doubleRatchet.ts as its tests do, do; SocialFabric does not
  MaxSent,     \* bound on the messages
  MaxReloads   \* bound on the reloads of their pages

Peer == {Alice, Bob}
Ids  == 1 .. MaxSent

Pub     == Peer \X Nat
Root    == Seq(SUBSET Pub) \ {<<>>}
Chain   == [seed : Root, step : Nat]
Skipped == [pub : Pub, n : Nat, key : Chain]

\* RatchetState.  Every number counts messages: sent and received with the
\* chains, sent with the chain before.
Session ==
  [dh : Pub, remote : Pub, root : Root, cks : Chain \cup {None}, ckr : Chain \cup {None},
   ns : Nat, nr : Nat, pn : Nat, skipped : SUBSET Skipped]

Message == [id : Ids, from : Peer, pub : Pub, pn : Nat, n : Nat, key : Chain]

ASSUME PeerAssumption == Alice # Bob
ASSUME NoneAssumption == None \notin Chain /\ None \notin Session
ASSUME SetupAssumption == SamePreKeys \in BOOLEAN
ASSUME BoundAssumption == MaxSent \in Nat /\ MaxReloads \in Nat

VARIABLES
  session,  \* session[p]: p's RatchetState for the other peer, in memory
  keys,     \* keys[p]: key pairs p has generated
  bundle,   \* peers that know the other's pre-key bundle (knownBundles, in memory)
  waiting,  \* waiting[p]: sends of p that await an import and found no session
  sent,     \* messages sent; they may arrive in any order, again, or never
  handled,  \* handled[m]: deliveries of the m-th message (up to 2) since its
            \* receiver's page was loaded
  opened,   \* opened[m]: times it was decrypted since then
  reloads   \* reloads of a page

vars == <<session, keys, bundle, waiting, sent, handled, opened, reloads>>

\* A header has one key put aside: skippedKeys is a Map.
OneKeyEach(s) == \A k, l \in s.skipped : k.pub = l.pub /\ k.n = l.n => k = l

TypeOK ==
  /\ session \in [Peer -> Session \cup {None}]
  /\ \A p \in Peer : session[p] # None => OneKeyEach(session[p])
  /\ keys \in [Peer -> Nat]
  /\ bundle \subseteq Peer
  /\ waiting \in [Peer -> 0 .. MaxSent]
  /\ sent \in SUBSET Message
  /\ handled \in [Ids -> 0 .. 2] /\ opened \in [Ids -> 0 .. 2]
  /\ reloads \in 0 .. MaxReloads

Init ==
  /\ session = [p \in Peer |-> None]
  /\ keys = [p \in Peer |-> 0]
  /\ bundle = {}
  /\ waiting = [p \in Peer |-> 0]
  /\ sent = {}
  /\ handled = [m \in Ids |-> 0] /\ opened = [m \in Ids |-> 0]
  /\ reloads = 0

Other(p) == IF p = Alice THEN Bob ELSE Alice
Sent(p)  == {m \in sent : m.from = p}
MaySend  == Cardinality(sent) + waiting[Alice] + waiting[Bob] < MaxSent

-----------------------------------------------------------------------------
(* doubleRatchet.ts                                                        *)

\* kdfRoot: a new root, and the chain derived with it.
KdfRoot(root, dh) == Append(root, dh)
NewChain(root)    == [seed |-> root, step |-> 0]

\* What p's secret, number 0, and the other's identity key give, each time.
StaticRoot(p) == <<{<<p, 0>>}>>
StaticRoots   == {StaticRoot(p) : p \in Peer}

\* kdfChain
NextKey(chain) == [chain EXCEPT !.step = @ + 1]

\* A session p starts: a sending chain from the root, no receiving chain.
Started(p, root, fresh) ==
  [dh |-> fresh, remote |-> <<Other(p), 0>>, root |-> root,
   cks |-> NewChain(root), ckr |-> None, ns |-> 0, nr |-> 0, pn |-> 0, skipped |-> {}]

\* initializeRatchetAsAlice hashes X3DH's outputs, which the ephemeral key of
\* the initiator p tells apart.
AsAlice(p, fresh) == Started(p, <<{fresh}>>, fresh)

\* initializeRatchetAsBob, for a message that p has no session for.  The hash
\* is the initiator's with the same pre-keys and the initiator's identity key,
\* which message 0 alone carries.  SocialFabric uses p's identity pair and no
\* one-time key, and takes another key for a missing identity key.
AsBob(p, m, fresh) ==
  LET root == <<IF SamePreKeys /\ m.n = 0 THEN {m.pub} ELSE {m.pub, <<p, 0>>}>> IN
  [dh |-> fresh, remote |-> m.pub, root |-> root,
   cks |-> None, ckr |-> NewChain(root), ns |-> 0, nr |-> 0, pn |-> 0, skipped |-> {}]

\* dhRatchetStep
DhStep(s, remote, fresh) ==
  LET root1 == KdfRoot(s.root, {remote, s.dh})
      root2 == KdfRoot(root1, {remote, fresh})
  IN [s EXCEPT !.pn = s.ns, !.ns = 0, !.nr = 0, !.remote = remote, !.dh = fresh,
               !.root = root2, !.ckr = NewChain(root1), !.cks = NewChain(root2)]

\* A header skipped again keeps its older key beside the new one.
SkipToBeside(s, until) ==
  IF s.ckr = None \/ s.nr >= until THEN s
  ELSE [s EXCEPT !.nr = until, !.ckr.step = @ + until - s.nr,
          !.skipped = @ \cup {[pub |-> s.remote, n |-> n, key |-> [s.ckr EXCEPT !.step = @ + n - s.nr]] :
                                n \in s.nr .. until - 1}]

\* skipMessageKeys: a header skipped again, in a chain derived anew for the
\* same remote key, loses its older key.
SkipTo(s, until) ==
  IF s.ckr = None \/ s.nr >= until THEN s
  ELSE LET missed == {[pub |-> s.remote, n |-> n, key |-> [s.ckr EXCEPT !.step = @ + n - s.nr]] :
                        n \in s.nr .. until - 1}
       IN [s EXCEPT !.nr = until, !.ckr.step = @ + until - s.nr,
             !.skipped = {k \in @ : \A l \in missed : <<k.pub, k.n>> # <<l.pub, l.n>>} \cup missed]

\* The session ratchetEncrypt reads the message key from: a DH step comes
\* first when there is no sending chain yet.
ReadyToSend(s, fresh) == IF s.cks = None THEN DhStep(s, s.remote, fresh) ELSE s

\* The chain key is used again.
AfterSendAgain(s) == [s EXCEPT !.ns = @ + 1]

AfterSend(s) == [s EXCEPT !.cks = NextKey(@), !.ns = @ + 1]

Encrypted(p, s) ==
  [id |-> Cardinality(sent) + 1, from |-> p, pub |-> s.dh, pn |-> s.pn, n |-> s.ns, key |-> s.cks]

StoredKeys(s, m) == {k \in s.skipped : k.pub = m.pub /\ k.n = m.n}

\* Does m come with a key pair that calls for a DH step?
NewPair(s, m) == s.ckr = None \/ s.remote # m.pub

\* Only the keys missed in the new chain are put aside.
CaughtUpHastily(s, m, fresh) ==
  LET t == IF NewPair(s, m) THEN DhStep(s, m.pub, fresh) ELSE s
  IN [t EXCEPT !.nr = IF m.n > @ THEN m.n ELSE @,
               !.ckr.step = IF m.n > t.nr THEN @ + m.n - t.nr ELSE @]

\* Steps 2 and 3 of ratchetDecrypt: keys that were missed are put aside.  The
\* first chain has nothing to be skipped before the step.
CaughtUp(s, m, fresh) ==
  SkipTo(IF NewPair(s, m) THEN DhStep(SkipTo(s, m.pn), m.pub, fresh) ELSE s, m.n)

\* A key put aside stays when it has been used.
AfterReceiveKept(s, m, fresh) ==
  IF StoredKeys(s, m) # {} THEN s
  ELSE LET t == CaughtUp(s, m, fresh) IN [t EXCEPT !.ckr = NextKey(@), !.nr = @ + 1]

\* ratchetDecrypt changes the session whether or not the ciphertext opens.
AfterReceive(s, m, fresh) ==
  IF StoredKeys(s, m) # {}
  THEN [s EXCEPT !.skipped = @ \ StoredKeys(s, m)]
  ELSE LET t == CaughtUp(s, m, fresh) IN [t EXCEPT !.ckr = NextKey(@), !.nr = @ + 1]

\* The key it is decrypted with.
ReadKey(s, m, fresh) ==
  IF StoredKeys(s, m) # {} THEN (CHOOSE k \in StoredKeys(s, m) : TRUE).key
  ELSE CaughtUp(s, m, fresh).ckr

Opens(s, m, fresh) == ReadKey(s, m, fresh) = m.key

-----------------------------------------------------------------------------
(* SocialFabric.ts                                                         *)

Fresh(p) == <<p, keys[p] + 1>>

Encrypt(p, s) ==
  LET t == ReadyToSend(s, Fresh(p)) IN
  /\ session' = [session EXCEPT ![p] = AfterSend(t)]
  /\ sent' = sent \cup {Encrypted(p, t)}
  /\ keys' = [keys EXCEPT ![p] = @ + 1]

\* registerBundle; known later, the bundle is not read.
RegisterBundle(p) ==
  /\ p \notin bundle /\ session[p] = None /\ bundle' = bundle \cup {p}
  /\ UNCHANGED <<session, keys, waiting, sent, handled, opened, reloads>>

\* sendDirectMessage with a session, or with a bundle to make one from.
Send(p) ==
  /\ MaySend
  /\ \/ session[p] # None /\ Encrypt(p, session[p])
     \/ session[p] = None /\ p \in bundle /\ Encrypt(p, AsAlice(p, Fresh(p)))
  /\ UNCHANGED <<bundle, waiting, handled, opened, reloads>>

\* Without a bundle the send looks for a session, finds none, and awaits the
\* import of the curve ...
SendBegin(p) ==
  /\ session[p] = None /\ p \notin bundle
  /\ MaySend
  /\ waiting' = [waiting EXCEPT ![p] = @ + 1]
  /\ UNCHANGED <<session, keys, bundle, sent, handled, opened, reloads>>

\* ... then makes a session from the two identity keys, in place of
\* whatever was put there meanwhile.
SendEnd(p) ==
  /\ waiting[p] > 0 /\ waiting' = [waiting EXCEPT ![p] = @ - 1]
  /\ Encrypt(p, Started(p, StaticRoot(p), Fresh(p)))
  /\ UNCHANGED <<bundle, handled, opened, reloads>>

\* processIncomingData, again for a shard that comes again.  Without a session
\* the receiver answers as the responder, whatever the message.
Receive(m) ==
  LET p == Other(m.from)
      s == IF session[p] = None THEN AsBob(p, m, Fresh(p)) ELSE session[p]
      next == <<p, keys[p] + 2>>
  IN
  /\ m \in sent /\ handled[m.id] < 2
  /\ session' = [session EXCEPT ![p] = AfterReceive(s, m, next)]
  /\ keys' = [keys EXCEPT ![p] = @ + 2]
  /\ handled' = [handled EXCEPT ![m.id] = @ + 1]
  /\ opened' = [opened EXCEPT ![m.id] = IF Opens(s, m, next) /\ @ < 2 THEN @ + 1 ELSE @]
  /\ UNCHANGED <<bundle, waiting, sent, reloads>>

\* Sessions are in memory only; a page without one has nothing to lose.
Reload(p) ==
  LET received == {m.id : m \in Sent(Other(p))} IN
  /\ session[p] # None /\ reloads < MaxReloads /\ reloads' = reloads + 1
  /\ session' = [session EXCEPT ![p] = None]
  /\ waiting' = [waiting EXCEPT ![p] = 0]
  /\ bundle' = bundle \ {p}
  /\ handled' = [m \in Ids |-> IF m \in received THEN 0 ELSE handled[m]]
  /\ opened' = [m \in Ids |-> IF m \in received THEN 0 ELSE opened[m]]
  /\ UNCHANGED <<keys, sent>>

Next ==
  \/ \E p \in Peer : Send(p) \/ Reload(p) \/ RegisterBundle(p) \/ SendBegin(p) \/ SendEnd(p)
  \/ \E m \in sent : Receive(m)

Spec == Init /\ [][Next]_vars

-----------------------------------------------------------------------------
(* Properties.                                                             *)

\* "Per-message keys (uma chave por mensagem, deletada após uso)"
\* (doubleRatchet.ts:8): no two messages are encrypted with one key.
KeyPerMessage == \A m, o \in sent : m.key = o.key => m = o

\* The same of every chain but the first of a session without a bundle.
FreshKeyPerMessage == \A m, o \in sent : m.key = o.key /\ m.key.seed \notin StaticRoots => m = o

\* A message delivered again is not decrypted again, whatever came between,
\* unless the receiver has reloaded.
OpenedOnce == \A m \in Ids : opened[m] <= 1

\* The keys a RatchetState holds or derives: those put aside, the rest of both
\* chains, and the chains a DH step with its own key pair may start.
Derivable(s, key) ==
  \/ \E k \in s.skipped : k.key = key
  \/ \E c \in {s.cks, s.ckr} \ {None} : key.seed = c.seed /\ key.step >= c.step
  \/ /\ Len(key.seed) = Len(s.root) + 1
     /\ SubSeq(key.seed, 1, Len(s.root)) = s.root
     /\ s.dh \in key.seed[Len(key.seed)]

\* Forward secrecy ("deletada após uso"): neither the sender's state nor that
\* of a receiver who has read it gives the key of a message again, the first
\* chain of a session without a bundle excepted.
KeysForgotten ==
  \A m \in {o \in sent : o.key.seed \notin StaticRoots} :
    /\ session[m.from] # None => ~Derivable(session[m.from], m.key)
    /\ opened[m.id] > 0 /\ session[Other(m.from)] # None =>
         ~Derivable(session[Other(m.from)], m.key)

\* skipMessageKeys, "for out-of-order delivery": in whatever order and with
\* whatever losses the messages of a chain come, a message not delivered yet is
\* read with the step of the receiver's chain that its sender took from its
\* own, and opens if that is the same chain; as long as none was delivered
\* twice since the receiver's page was loaded.
StreamOpens ==
  \A m \in sent :
    LET p == Other(m.from)
        s == session[p]
    IN s # None /\ handled[m.id] = 0 /\ (\A o \in Sent(m.from) : handled[o.id] < 2) =>
         /\ ReadKey(s, m, Fresh(p)).step = m.key.step
         /\ s.ckr # None /\ s.ckr.seed = m.key.seed => Opens(s, m, Fresh(p))
=============================================================================
