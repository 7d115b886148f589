------------------------ MODULE DoubleRatchet_proofs ------------------------
(* Theorems about DoubleRatchet, for every number of messages and reloads  *)
(* and both ways of starting a session.                                    *)
EXTENDS DoubleRatchet, FiniteSetTheorems, TLAPS

\* What TypeOK says of a session.
Sound(s) == s \in Session /\ OneKeyEach(s)

\* The key pairs that a chain was derived from last.
Newest(seed) == seed[Len(seed)]

\* With so many key pairs generated, the pair is one of them or in the bundle.
Known(generated, pair) == pair[2] <= generated[pair[1]]

KnownChain(generated, chain) == \A pair \in Newest(chain.seed) : Known(generated, pair)

\* A chain that starts with a DH of the pair other and the pair own.
Starts(chain, other, own) ==
  chain \in Chain /\ chain.step = 0 /\ Newest(chain.seed) = {other, own}

LEMMA FreshChain ==
  ASSUME NEW root \in Seq(SUBSET Pub), NEW dh \in SUBSET Pub
  PROVE  /\ KdfRoot(root, dh) \in Root
         /\ NewChain(KdfRoot(root, dh)) \in Chain
         /\ NewChain(KdfRoot(root, dh)).step = 0
         /\ Newest(NewChain(KdfRoot(root, dh)).seed) = dh
  BY DEF KdfRoot, NewChain, Chain, Newest, Root

LEMMA ChainIsNotNone ==
  ASSUME NEW c \in Chain
  PROVE  c # None
  BY NoneAssumption DEF NoneAssumption

-----------------------------------------------------------------------------
(* What the ratchet does to a session.                                     *)

LEMMA DhStepSound ==
  ASSUME NEW s, Sound(s), NEW remote \in Pub, NEW fresh \in Pub,
         NEW t, t = DhStep(s, remote, fresh)
  PROVE  /\ Sound(t)
         /\ Starts(t.cks, remote, fresh)
         /\ t.ckr \in Chain
         /\ t.remote = remote /\ t.dh = fresh
<1> DEFINE root1 == KdfRoot(s.root, {remote, s.dh})
           root2 == KdfRoot(root1, {remote, fresh})
           chain1 == NewChain(root1)
           chain2 == NewChain(root2)
           u == DhStep(s, remote, fresh)
<1>1. s \in Session /\ s.dh \in Pub /\ s.root \in Seq(SUBSET Pub) /\ s.ns \in Nat
  BY DEF Sound, Session, Root
<1>2. root1 \in Seq(SUBSET Pub) /\ chain1 \in Chain
  BY <1>1, FreshChain DEF Root
<1>3. /\ root2 \in Root /\ chain2 \in Chain
      /\ chain2.step = 0 /\ Newest(chain2.seed) = {remote, fresh}
  BY <1>2, FreshChain
<1>4. u = [s EXCEPT !.pn = s.ns, !.ns = 0, !.nr = 0, !.remote = remote, !.dh = fresh,
               !.root = root2, !.ckr = chain1, !.cks = chain2]
  BY DEF DhStep
<1>5. t = u
  OBVIOUS
<1> HIDE DEF root1, root2, chain1, chain2, u
<1>6. /\ u \in Session /\ u.skipped = s.skipped
      /\ u.cks = chain2 /\ u.ckr = chain1
      /\ u.remote = remote /\ u.dh = fresh
  BY <1>1, <1>2, <1>3, <1>4 DEF Session
<1>7. OneKeyEach(u)
  BY <1>6 DEF Sound, OneKeyEach
<1> QED BY <1>2, <1>3, <1>5, <1>6, <1>7 DEF Sound, Starts

LEMMA SkipToSound ==
  ASSUME NEW s, Sound(s), NEW until \in Nat
  PROVE  LET t == SkipTo(s, until) IN
         /\ Sound(t)
         /\ t.cks = s.cks /\ t.remote = s.remote /\ t.dh = s.dh
         /\ s.ckr # None => t.ckr \in Chain
<1>1. /\ s \in Session /\ OneKeyEach(s) /\ s.nr \in Nat /\ s.remote \in Pub
      /\ s.ckr \in Chain \cup {None} /\ s.skipped \in SUBSET Skipped
  BY DEF Sound, Session
<1>2. CASE s.ckr = None \/ s.nr >= until
  BY <1>1, <1>2 DEF SkipTo
<1>3. CASE ~(s.ckr = None \/ s.nr >= until)
  <2> DEFINE missed == {[pub |-> s.remote, n |-> n, key |-> [s.ckr EXCEPT !.step = @ + n - s.nr]] :
                          n \in s.nr .. until - 1}
             kept == {k \in s.skipped : \A l \in missed : <<k.pub, k.n>> # <<l.pub, l.n>>}
             t == SkipTo(s, until)
  <2>1. s.ckr \in Chain /\ s.ckr.step \in Nat /\ s.nr < until
    BY <1>1, <1>3 DEF Chain
  <2>2. t = [s EXCEPT !.nr = until, !.ckr.step = @ + until - s.nr, !.skipped = kept \cup missed]
    BY <1>3 DEF SkipTo
  <2>3. missed \in SUBSET Skipped
    <3> SUFFICES ASSUME NEW n \in s.nr .. until - 1
                 PROVE  [pub |-> s.remote, n |-> n, key |-> [s.ckr EXCEPT !.step = @ + n - s.nr]] \in Skipped
      OBVIOUS
    <3>1. n \in Nat /\ s.ckr.step + n - s.nr \in Nat
      BY <1>1, <2>1
    <3>2. [s.ckr EXCEPT !.step = @ + n - s.nr] \in Chain
      BY <2>1, <3>1 DEF Chain
    <3> QED BY <1>1, <3>1, <3>2 DEF Skipped
  <2>4. \A k, l \in missed : k.n = l.n => k = l
    OBVIOUS
  <2>5. \A k, l \in kept \cup missed : k.pub = l.pub /\ k.n = l.n => k = l
    <3> HIDE DEF missed
    <3> QED BY <1>1, <2>4 DEF OneKeyEach
  <2>6. [s.ckr EXCEPT !.step = @ + until - s.nr] \in Chain
    BY <1>1, <2>1 DEF Chain
  <2> HIDE DEF missed, t
  <2>7. kept \cup missed \in SUBSET Skipped
    BY <1>1, <2>3
  <2> HIDE DEF kept
  <2>8. /\ t \in Session /\ t.skipped = kept \cup missed /\ t.ckr \in Chain
        /\ t.cks = s.cks /\ t.remote = s.remote /\ t.dh = s.dh
    BY <1>1, <2>2, <2>6, <2>7 DEF Session
  <2>9. OneKeyEach(t)
    BY <2>5, <2>8 DEF OneKeyEach
  <2> QED BY <2>8, <2>9 DEF Sound, t
<1> QED BY <1>2, <1>3

LEMMA CaughtUpSound ==
  ASSUME NEW s, Sound(s), NEW m \in Message, NEW fresh \in Pub
  PROVE  LET t == CaughtUp(s, m, fresh) IN
         /\ Sound(t) /\ t.ckr \in Chain
         /\ t.remote \in {s.remote, m.pub} /\ t.dh \in {s.dh, fresh}
         /\ \/ t.cks = s.cks
            \/ Starts(t.cks, m.pub, fresh)
<1>1. m.pub \in Pub /\ m.n \in Nat /\ m.pn \in Nat
  BY DEF Message
<1> DEFINE remote == m.pub
<1>4. remote \in Pub
  BY <1>1
<1>2. CASE NewPair(s, m)
  <2> DEFINE before == SkipTo(s, m.pn)
             after  == DhStep(before, m.pub, fresh)
  <2>1. Sound(before)
    BY <1>1, SkipToSound
  <2> HIDE DEF before
  <2>2. /\ Sound(after)
        /\ Starts(after.cks, m.pub, fresh)
        /\ after.ckr \in Chain /\ after.remote = m.pub /\ after.dh = fresh
    <3>1. after = DhStep(before, remote, fresh)
      OBVIOUS
    <3> HIDE DEF after, remote
    <3>2. /\ Sound(after)
          /\ Starts(after.cks, remote, fresh)
          /\ after.ckr \in Chain /\ after.remote = remote /\ after.dh = fresh
      BY <1>4, <2>1, <3>1, DhStepSound
    <3> QED BY <3>2 DEF remote
  <2>3. CaughtUp(s, m, fresh) = SkipTo(after, m.n)
    BY <1>2 DEF CaughtUp, before
  <2> HIDE DEF after
  <2>4. m.n \in Nat
    BY <1>1
  <2> DEFINE t == SkipTo(after, m.n)
  <2>5. /\ Sound(t) /\ t.ckr \in Chain
        /\ t.remote = after.remote /\ t.dh = after.dh /\ t.cks = after.cks
    BY <2>2, <2>4, SkipToSound, ChainIsNotNone
  <2> HIDE DEF t
  <2> QED BY <2>2, <2>3, <2>5 DEF t
<1>3. CASE ~NewPair(s, m)
  <2>1. CaughtUp(s, m, fresh) = SkipTo(s, m.n) /\ s.ckr # None
    BY <1>3 DEF CaughtUp, NewPair
  <2> QED BY <1>1, <2>1, SkipToSound
<1> QED BY <1>2, <1>3

LEMMA AfterReceiveSound ==
  ASSUME NEW s, Sound(s), NEW m \in Message, NEW fresh \in Pub
  PROVE  LET t == AfterReceive(s, m, fresh) IN
         /\ Sound(t)
         /\ t.remote \in {s.remote, m.pub} /\ t.dh \in {s.dh, fresh}
         /\ \/ t.cks = s.cks
            \/ Starts(t.cks, m.pub, fresh)
<1> DEFINE t == AfterReceive(s, m, fresh)
<1>1. CASE StoredKeys(s, m) # {}
  <2>1. t = [s EXCEPT !.skipped = s.skipped \ StoredKeys(s, m)]
    BY <1>1 DEF AfterReceive
  <2> HIDE DEF t
  <2>2. /\ t \in Session /\ t.skipped \subseteq s.skipped
        /\ t.remote = s.remote /\ t.dh = s.dh /\ t.cks = s.cks
    BY <2>1 DEF Sound, Session
  <2> QED BY <2>2 DEF Sound, OneKeyEach, t
<1>2. CASE StoredKeys(s, m) = {}
  <2> DEFINE u == CaughtUp(s, m, fresh)
             chain == NextKey(u.ckr)
             n == u.nr + 1
  <2>1. /\ Sound(u) /\ u.ckr \in Chain
        /\ u.remote \in {s.remote, m.pub} /\ u.dh \in {s.dh, fresh}
        /\ \/ u.cks = s.cks
           \/ Starts(u.cks, m.pub, fresh)
    BY CaughtUpSound
  <2>2. t = [u EXCEPT !.ckr = chain, !.nr = n]
    BY <1>2 DEF AfterReceive
  <2> HIDE DEF t, u
  <2>3. u \in Session /\ OneKeyEach(u)
    BY <2>1 DEF Sound
  <2>4. chain \in Chain /\ n \in Nat
    <3>1. chain \in Chain
      BY <2>1 DEF NextKey, Chain
    <3>2. n \in Nat
      BY <2>3 DEF Session
    <3> QED BY <3>1, <3>2
  <2> HIDE DEF chain, n
  <2>5. /\ t \in Session /\ t.skipped = u.skipped
        /\ t.remote = u.remote /\ t.dh = u.dh /\ t.cks = u.cks
    BY <2>2, <2>3, <2>4 DEF Session
  <2> QED BY <2>1, <2>3, <2>5 DEF Sound, OneKeyEach, t
<1> QED BY <1>1, <1>2

LEMMA AfterSendSound ==
  ASSUME NEW s, Sound(s), s.cks \in Chain
  PROVE  LET t == AfterSend(s) IN
         /\ Sound(t)
         /\ t.remote = s.remote /\ t.dh = s.dh
         /\ t.cks \in Chain /\ t.cks.seed = s.cks.seed /\ t.cks.step = s.cks.step + 1
<1> DEFINE t == AfterSend(s)
           chain == NextKey(s.cks)
           n == s.ns + 1
<1>1. t = [s EXCEPT !.cks = chain, !.ns = n]
  BY DEF AfterSend
<1>2. s \in Session /\ OneKeyEach(s)
  BY DEF Sound
<1>3. chain \in Chain /\ n \in Nat /\ chain.seed = s.cks.seed /\ chain.step = s.cks.step + 1
  BY <1>2 DEF NextKey, Chain, Session
<1> HIDE DEF t, chain, n
<1>4. /\ t \in Session /\ t.skipped = s.skipped /\ t.cks = chain
      /\ t.remote = s.remote /\ t.dh = s.dh
  BY <1>1, <1>2, <1>3 DEF Session
<1> QED BY <1>2, <1>3, <1>4 DEF Sound, OneKeyEach, t

\* The sessions that are made anew.
LEMMA FirstSession ==
  ASSUME NEW dh \in Pub, NEW remote \in Pub, NEW root \in Root,
         NEW cks \in {NewChain(root), None}, NEW ckr \in {NewChain(root), None},
         NEW t, t = [dh |-> dh, remote |-> remote, root |-> root, cks |-> cks, ckr |-> ckr,
                     ns |-> 0, nr |-> 0, pn |-> 0, skipped |-> {}]
  PROVE  /\ Sound(t) /\ t.dh = dh /\ t.remote = remote /\ t.cks = cks
         /\ NewChain(root) \in Chain
<1>1. NewChain(root) \in Chain
  BY DEF NewChain, Chain
<1>2. cks \in Chain \cup {None} /\ ckr \in Chain \cup {None}
  BY <1>1
<1>3. t \in Session
  BY <1>2 DEF Session
<1> QED BY <1>1, <1>3 DEF Sound, OneKeyEach

-----------------------------------------------------------------------------
(* The invariant.                                                          *)

Typed ==
  /\ session \in [Peer -> Session \cup {None}]
  /\ \A p \in Peer : session[p] # None => Sound(session[p])
  /\ keys \in [Peer -> Nat]
  /\ bundle \subseteq Peer
  /\ waiting \in [Peer -> Nat]
  /\ sent \in SUBSET Message
  /\ handled \in [Ids -> 0 .. 2] /\ opened \in [Ids -> 0 .. 2]
  /\ reloads \in 0 .. MaxReloads

\* Messages sent, and those still to be sent, are within the bound.
Counted ==
  /\ IsFiniteSet(sent)
  /\ Cardinality(sent) + waiting[Alice] + waiting[Bob] <= MaxSent

\* No session or message has a key pair that is yet to be generated.
KnownPairs ==
  /\ \A p \in Peer : session[p] # None =>
       /\ Known(keys, session[p].remote) /\ Known(keys, session[p].dh)
       /\ session[p].cks # None => KnownChain(keys, session[p].cks)
  /\ \A m \in sent : Known(keys, m.pub) /\ KnownChain(keys, m.key)

\* A sending chain is past the keys of the messages sent with it ...
StepsAhead ==
  \A p \in Peer : session[p] # None /\ session[p].cks # None =>
    \A m \in sent : m.key.seed = session[p].cks.seed /\ m.key.seed \notin StaticRoots =>
      m.key.step < session[p].cks.step

\* ... and has one sender.
ChainsApart ==
  \A p, q \in Peer :
    /\ session[p] # None /\ session[p].cks # None
    /\ session[q] # None /\ session[q].cks # None
    /\ session[p].cks.seed = session[q].cks.seed /\ session[p].cks.seed \notin StaticRoots
    => p = q

IInv == Typed /\ Counted /\ KnownPairs /\ StepsAhead /\ ChainsApart /\ FreshKeyPerMessage

\* p may send with the chain: it is p's, that of two identity keys, or ends in
\* a key pair that is new.
MayUse(p, chain) ==
  \/ session[p] # None /\ session[p].cks = chain
  \/ chain.seed \in StaticRoots
  \/ \E pair \in Newest(chain.seed) : ~Known(keys, pair)

\* No message was sent with what is left of the chain, and no other peer has it.
LEMMA Unused ==
  ASSUME KnownPairs, StepsAhead, ChainsApart,
         NEW p \in Peer, NEW chain \in Chain, MayUse(p, chain)
  PROVE  chain.seed \notin StaticRoots =>
           /\ \A m \in sent : m.key.seed = chain.seed => m.key.step < chain.step
           /\ \A q \in Peer : session[q] # None /\ session[q].cks # None =>
                (session[q].cks.seed = chain.seed => q = p)
<1> SUFFICES ASSUME chain.seed \notin StaticRoots
             PROVE  /\ \A m \in sent : m.key.seed = chain.seed => m.key.step < chain.step
                    /\ \A q \in Peer : session[q] # None /\ session[q].cks # None =>
                         (session[q].cks.seed = chain.seed => q = p)
  OBVIOUS
<1>1. CASE session[p] # None /\ session[p].cks = chain
  <2>1. chain # None
    BY ChainIsNotNone
  <2>2. \A m \in sent : m.key.seed = chain.seed => m.key.step < chain.step
    BY <1>1, <2>1 DEF StepsAhead
  <2>3. \A q \in Peer : session[q] # None /\ session[q].cks # None =>
          (session[q].cks.seed = chain.seed => q = p)
    BY <1>1, <2>1, Zenon DEF ChainsApart
  <2> QED BY <2>2, <2>3
<1>2. CASE \E pair \in Newest(chain.seed) : ~Known(keys, pair)
  <2> PICK pair \in Newest(chain.seed) : ~Known(keys, pair)
    BY <1>2
  <2>1. \A m \in sent : m.key.seed # chain.seed
    BY Zenon DEF KnownPairs, KnownChain
  <2>2. \A q \in Peer : session[q] # None /\ session[q].cks # None => session[q].cks.seed # chain.seed
    BY Zenon DEF KnownPairs, KnownChain
  <2> QED BY <2>1, <2>2
<1> QED BY <1>1, <1>2 DEF MayUse

LEMMA KnownStays ==
  ASSUME keys \in [Peer -> Nat], keys' \in [Peer -> Nat],
         \A p \in Peer : keys[p] <= keys'[p]
  PROVE  /\ \A pair \in Pub : Known(keys, pair) => Known(keys', pair)
         /\ \A chain \in Chain : KnownChain(keys, chain) => KnownChain(keys', chain)
<1>1. \A pair \in Pub : Known(keys, pair) => Known(keys', pair)
  BY DEF Pub, Known
<1>2. \A chain \in Chain : Newest(chain.seed) \subseteq Pub
  BY DEF Chain, Newest, Root
<1> QED BY <1>1, <1>2 DEF KnownChain

\* A session of p replaced, and a message sent with its chain or none.
LEMMA Replaced ==
  ASSUME IInv, NEW p \in Peer, NEW t, Sound(t),
         session' = [session EXCEPT ![p] = t],
         keys' \in [Peer -> Nat], \A q \in Peer : keys[q] <= keys'[q],
         Known(keys', t.remote), Known(keys', t.dh),
         t.cks # None => KnownChain(keys', t.cks),
         \/ /\ sent' = sent
            /\ t.cks # None => MayUse(p, t.cks)
         \/ \E m \in Message :
              /\ sent' = sent \cup {m}
              /\ Known(keys', m.pub) /\ KnownChain(keys', m.key) /\ MayUse(p, m.key)
              /\ t.cks \in Chain /\ t.cks.seed = m.key.seed /\ t.cks.step = m.key.step + 1
  PROVE  /\ session' \in [Peer -> Session \cup {None}]
         /\ \A q \in Peer : session'[q] # None => Sound(session'[q])
         /\ sent' \in SUBSET Message
         /\ KnownPairs' /\ StepsAhead' /\ ChainsApart' /\ FreshKeyPerMessage'
<1>1. /\ session \in [Peer -> Session \cup {None}] /\ keys \in [Peer -> Nat]
      /\ \A q \in Peer : session[q] # None => Sound(session[q])
      /\ sent \in SUBSET Message
      /\ KnownPairs /\ StepsAhead /\ ChainsApart /\ FreshKeyPerMessage
  BY DEF IInv, Typed
<1>2. /\ session'[p] = t
      /\ \A q \in Peer : q # p => session'[q] = session[q]
      /\ session' \in [Peer -> Session \cup {None}]
  BY <1>1 DEF Sound
<1>3. \A q \in Peer : session'[q] # None => Sound(session'[q])
  BY <1>1, <1>2
<1>4. \A s : Sound(s) => s.remote \in Pub /\ s.dh \in Pub /\ s.cks \in Chain \cup {None}
  BY DEF Sound, Session
<1>5. \A m \in Message : m.pub \in Pub /\ m.key \in Chain /\ m.key.step \in Nat
  BY DEF Message, Chain
<1>6. sent' \in SUBSET Message
  BY <1>1
<1>7. /\ \A pair \in Pub : Known(keys, pair) => Known(keys', pair)
      /\ \A chain \in Chain : KnownChain(keys, chain) => KnownChain(keys', chain)
  BY <1>1, KnownStays
<1>8. KnownPairs'
  <2>1. ASSUME NEW q \in Peer, session'[q] # None
        PROVE  /\ Known(keys', session'[q].remote) /\ Known(keys', session'[q].dh)
               /\ session'[q].cks # None => KnownChain(keys', session'[q].cks)
    BY <1>1, <1>2, <1>4, <1>7, <2>1 DEF KnownPairs
  <2>2. ASSUME NEW m \in sent' PROVE Known(keys', m.pub) /\ KnownChain(keys', m.key)
    BY <1>1, <1>5, <1>7, <2>2 DEF KnownPairs
  <2> QED BY <2>1, <2>2 DEF KnownPairs
<1> DEFINE Used(chain) == 
             chain.seed \notin StaticRoots =>
               /\ \A m \in sent : m.key.seed = chain.seed => m.key.step < chain.step
               /\ \A q \in Peer : session[q] # None /\ session[q].cks # None =>
                    (session[q].cks.seed = chain.seed => q = p)
<1>9. \A chain \in Chain : MayUse(p, chain) => Used(chain)
  BY <1>1, Unused
<1>10. CASE sent' = sent /\ (t.cks # None => MayUse(p, t.cks))
  <2>1. t.cks # None => Used(t.cks)
    BY <1>4, <1>9, <1>10
  <2>2. StepsAhead'
    BY <1>1, <1>2, <1>10, <2>1 DEF StepsAhead
  <2>3. ChainsApart'
    BY <1>1, <1>2, <1>10, <2>1 DEF ChainsApart
  <2>4. FreshKeyPerMessage'
    BY <1>1, <1>10 DEF FreshKeyPerMessage
  <2> QED BY <1>2, <1>3, <1>6, <1>8, <2>2, <2>3, <2>4
<1>11. ASSUME NEW m \in Message, sent' = sent \cup {m}, MayUse(p, m.key),
              t.cks \in Chain, t.cks.seed = m.key.seed, t.cks.step = m.key.step + 1
       PROVE  StepsAhead' /\ ChainsApart' /\ FreshKeyPerMessage'
  <2>1. Used(m.key)
    BY <1>5, <1>9, <1>11
  <2>2. StepsAhead'
    <3> SUFFICES ASSUME NEW q \in Peer, session'[q] # None, session'[q].cks # None, NEW o \in sent',
                        o.key.seed = session'[q].cks.seed, o.key.seed \notin StaticRoots
                 PROVE  o.key.step < session'[q].cks.step
      BY DEF StepsAhead
    <3>1. o \in Message /\ o.key.step \in Nat /\ m.key.step \in Nat
      BY <1>5, <1>6
    <3>2. CASE q = p
      BY <1>2, <1>11, <2>1, <3>1, <3>2
    <3>3. CASE q # p
      <4>1. session'[q] = session[q]
        BY <1>2, <3>3
      <4>2. o # m
        BY <2>1, <3>3, <4>1
      <4> QED BY <1>1, <1>11, <4>1, <4>2 DEF StepsAhead
    <3> QED BY <3>2, <3>3
  <2>3. ChainsApart'
    BY <1>1, <1>2, <1>11, <2>1 DEF ChainsApart
  <2>4. FreshKeyPerMessage'
    <3>1. m.key.step \in Nat
      BY <1>5
    <3>2. \A o \in sent : o.key = m.key => m.key.seed \in StaticRoots
      BY <2>1, <3>1
    <3> QED BY <1>1, <1>11, <3>2 DEF FreshKeyPerMessage
  <2> QED BY <2>2, <2>3, <2>4
<1> QED BY <1>2, <1>3, <1>6, <1>8, <1>10, <1>11

\* The next key pairs have not been generated, and one or two of them are.
LEMMA FreshPair ==
  ASSUME keys \in [Peer -> Nat], NEW p \in Peer,
         \/ keys' = [keys EXCEPT ![p] = @ + 1]
         \/ keys' = [keys EXCEPT ![p] = @ + 2]
  PROVE  /\ keys' \in [Peer -> Nat] /\ \A q \in Peer : keys[q] <= keys'[q]
         /\ Fresh(p) \in Pub /\ ~Known(keys, Fresh(p)) /\ Known(keys', Fresh(p))
  BY DEF Fresh, Pub, Known

LEMMA Identity ==
  ASSUME NEW p \in Peer
  PROVE  /\ Other(p) \in Peer /\ Other(p) # p
         /\ StaticRoot(p) \in Root /\ StaticRoot(p) \in StaticRoots
         /\ Newest(StaticRoot(p)) = {<<p, 0>>}
         /\ <<p, 0>> \in Pub /\ <<Other(p), 0>> \in Pub
         /\ \A generated \in [Peer -> Nat] :
              /\ Known(generated, <<p, 0>>) /\ Known(generated, <<Other(p), 0>>)
              /\ KnownChain(generated, NewChain(StaticRoot(p)))
<1>1. Other(p) \in Peer /\ Other(p) # p
  BY PeerAssumption DEF PeerAssumption, Other, Peer
<1>2. \A q \in Peer : <<q, 0>> \in Pub /\ \A generated \in [Peer -> Nat] : Known(generated, <<q, 0>>)
  BY DEF Pub, Known
<1>3. StaticRoot(p) \in Root
  BY <1>2 DEF StaticRoot, Root
<1>4. Newest(NewChain(StaticRoot(p)).seed) = {<<p, 0>>} /\ Newest(StaticRoot(p)) = {<<p, 0>>}
  BY DEF StaticRoot, NewChain, Newest
<1> QED BY <1>1, <1>2, <1>3, <1>4 DEF KnownChain, StaticRoots

LEMMA OneMore ==
  ASSUME NEW S, NEW x, IsFiniteSet(S)
  PROVE  Cardinality(S \cup {x}) <= Cardinality(S) + 1
<1>1. Cardinality(S \cup {x}) = IF x \in S THEN Cardinality(S) ELSE Cardinality(S) + 1
  BY FS_AddElement
<1>2. Cardinality(S) \in Nat
  BY FS_CardinalityType
<1> QED BY <1>1, <1>2

\* What is still to be sent, in numbers.
LEMMA Counts ==
  ASSUME IInv
  PROVE  /\ Cardinality(sent) \in Nat /\ MaxSent \in Nat
         /\ waiting[Alice] \in Nat /\ waiting[Bob] \in Nat
  BY FS_CardinalityType, BoundAssumption DEF BoundAssumption, IInv, Typed, Counted, Peer

\* Encrypt, with a session that is p's or new.
LEMMA EncryptStep ==
  ASSUME IInv, NEW p \in Peer, NEW s, Sound(s), Encrypt(p, s),
         Known(keys', s.remote), Known(keys', s.dh),
         s.cks # None => MayUse(p, s.cks) /\ KnownChain(keys', s.cks),
         Cardinality(sent) < MaxSent
  PROVE  /\ session' \in [Peer -> Session \cup {None}]
         /\ \A q \in Peer : session'[q] # None => Sound(session'[q])
         /\ sent' \in SUBSET Message /\ keys' \in [Peer -> Nat]
         /\ KnownPairs' /\ StepsAhead' /\ ChainsApart' /\ FreshKeyPerMessage'
         /\ IsFiniteSet(sent')
         /\ Cardinality(sent') <= Cardinality(sent) + 1
<1> DEFINE fresh == Fresh(p)
           t == ReadyToSend(s, fresh)
           m == Encrypted(p, t)
           u == AfterSend(t)
           remote == s.remote
<1>1. keys \in [Peer -> Nat] /\ sent \in SUBSET Message /\ IsFiniteSet(sent)
  BY DEF IInv, Typed, Counted
<1>2. /\ session' = [session EXCEPT ![p] = u]
      /\ sent' = sent \cup {m}
      /\ keys' = [keys EXCEPT ![p] = @ + 1]
  BY DEF Encrypt
<1>3. /\ keys' \in [Peer -> Nat] /\ \A q \in Peer : keys[q] <= keys'[q]
      /\ fresh \in Pub /\ ~Known(keys, fresh) /\ Known(keys', fresh)
  BY <1>1, <1>2, FreshPair
<1>4. remote \in Pub /\ s.cks \in Chain \cup {None}
  BY DEF Sound, Session
<1>5. /\ Sound(t) /\ t.cks \in Chain
      /\ Known(keys', t.remote) /\ Known(keys', t.dh)
      /\ MayUse(p, t.cks) /\ KnownChain(keys', t.cks)
  <2>1. CASE s.cks = None
    <3>1. t = DhStep(s, remote, fresh)
      BY <2>1 DEF ReadyToSend
    <3> HIDE DEF t, fresh, remote
    <3>2. Sound(t) /\ Starts(t.cks, remote, fresh) /\ t.remote = remote /\ t.dh = fresh
      BY <1>3, <1>4, <3>1, DhStepSound
    <3>3. t.cks \in Chain /\ Newest(t.cks.seed) = {remote, fresh}
      BY <3>2 DEF Starts
    <3>4. Known(keys', remote)
      BY DEF remote
    <3>5. MayUse(p, t.cks)
      BY <1>3, <3>3 DEF MayUse
    <3>6. KnownChain(keys', t.cks)
      BY <1>3, <3>3, <3>4 DEF KnownChain
    <3> QED BY <1>3, <3>2, <3>3, <3>4, <3>5, <3>6
  <2>2. CASE s.cks # None
    <3>1. t = s
      BY <2>2 DEF ReadyToSend
    <3> QED BY <1>4, <2>2, <3>1
  <2> QED BY <2>1, <2>2
<1> HIDE DEF t, fresh, remote
<1>6. /\ Sound(u) /\ u.remote = t.remote /\ u.dh = t.dh
      /\ u.cks \in Chain /\ u.cks.seed = t.cks.seed /\ u.cks.step = t.cks.step + 1
  BY <1>5, AfterSendSound
<1>7. m \in Message /\ m.pub = t.dh /\ m.key = t.cks /\ m.from = p
  <2>1. Cardinality(sent) + 1 \in Ids
    BY Counts DEF Ids
  <2>2. t.dh \in Pub /\ t.pn \in Nat /\ t.ns \in Nat
    BY <1>5 DEF Sound, Session
  <2> QED BY <1>5, <2>1, <2>2 DEF Encrypted, Message
<1>8. IsFiniteSet(sent')
  BY <1>1, <1>2, FS_AddElement
<1>9. Cardinality(sent') <= Cardinality(sent) + 1
  <2> HIDE DEF m
  <2> QED BY <1>1, <1>2, OneMore
<1> HIDE DEF m, u
<1>11. \E o \in Message :
         /\ sent' = sent \cup {o}
         /\ Known(keys', o.pub) /\ KnownChain(keys', o.key) /\ MayUse(p, o.key)
         /\ u.cks \in Chain /\ u.cks.seed = o.key.seed /\ u.cks.step = o.key.step + 1
  BY <1>2, <1>5, <1>6, <1>7
<1>12. /\ Known(keys', u.remote) /\ Known(keys', u.dh)
       /\ u.cks # None => KnownChain(keys', u.cks)
  BY <1>5, <1>6 DEF KnownChain
<1>13. /\ session' \in [Peer -> Session \cup {None}]
       /\ \A q \in Peer : session'[q] # None => Sound(session'[q])
       /\ sent' \in SUBSET Message
       /\ KnownPairs' /\ StepsAhead' /\ ChainsApart' /\ FreshKeyPerMessage'
  BY <1>2, <1>3, <1>6, <1>11, <1>12, Replaced
<1> QED BY <1>3, <1>8, <1>9, <1>13

-----------------------------------------------------------------------------
(* Every step keeps the invariant.                                         *)

\* A session that p starts to encrypt with, with or without a bundle.
LEMMA StartedSession ==
  ASSUME keys \in [Peer -> Nat], NEW p \in Peer,
         NEW root, root \in {<<{Fresh(p)}>>, StaticRoot(p)},
         NEW s, s = Started(p, root, Fresh(p)), Encrypt(p, s)
  PROVE  /\ keys' \in [Peer -> Nat] /\ \A q \in Peer : keys[q] <= keys'[q]
         /\ Sound(s) /\ s.skipped = {} /\ s.ckr = None /\ s.cks # None
         /\ s.root = root /\ s.cks.seed = root /\ s.dh = Fresh(p)
         /\ s.ns = 0 /\ s.cks.step = 0
         /\ Known(keys', s.remote) /\ Known(keys', s.dh)
         /\ MayUse(p, s.cks) /\ KnownChain(keys', s.cks)
         /\ root \in StaticRoots \/ s.dh \in Newest(root)
<1> DEFINE fresh == Fresh(p)
           chain == NewChain(root)
           remote == <<Other(p), 0>>
<1>1. /\ keys' \in [Peer -> Nat] /\ \A q \in Peer : keys[q] <= keys'[q]
      /\ fresh \in Pub /\ ~Known(keys, fresh) /\ Known(keys', fresh)
  BY FreshPair DEF Encrypt
<1>2. s = [dh |-> fresh, remote |-> remote, root |-> root, cks |-> chain, ckr |-> None,
           ns |-> 0, nr |-> 0, pn |-> 0, skipped |-> {}]
  BY DEF Started
<1>3. /\ root \in Root
      /\ \/ root \in StaticRoots /\ Newest(root) = {<<p, 0>>}
         \/ fresh \in Newest(root) /\ Newest(root) = {fresh}
  <2>1. CASE root = StaticRoot(p)
    BY <2>1, Identity
  <2>2. CASE root = <<{fresh}>>
    <3> HIDE DEF fresh
    <3> QED BY <1>1, <2>2 DEF Newest, Root
  <2> QED BY <2>1, <2>2
<1>4. chain.seed = root /\ chain.step = 0
  BY DEF NewChain
<1>5. remote \in Pub /\ Known(keys', remote) /\ Known(keys', <<p, 0>>)
  BY <1>1, Identity
<1> HIDE DEF fresh, chain, remote
<1>6. Sound(s) /\ s.dh = fresh /\ s.remote = remote /\ s.cks = chain /\ chain \in Chain
  BY <1>1, <1>2, <1>3, <1>5, FirstSession DEF chain
<1>7. s.skipped = {} /\ s.ckr = None /\ s.root = root /\ s.ns = 0
  BY <1>2
<1>8. s.cks # None
  BY <1>6, ChainIsNotNone
<1>9. MayUse(p, chain)
  BY <1>1, <1>3, <1>4 DEF MayUse
<1>10. KnownChain(keys', chain)
  BY <1>1, <1>3, <1>4, <1>5 DEF KnownChain
<1> QED BY <1>1, <1>3, <1>4, <1>5, <1>6, <1>7, <1>8, <1>9, <1>10 DEF fresh

\* What Encrypt leaves of the invariant.
Encryption ==
  /\ session' \in [Peer -> Session \cup {None}]
  /\ \A q \in Peer : session'[q] # None => Sound(session'[q])
  /\ sent' \in SUBSET Message /\ keys' \in [Peer -> Nat]
  /\ KnownPairs' /\ StepsAhead' /\ ChainsApart' /\ FreshKeyPerMessage'
  /\ IsFiniteSet(sent')
  /\ Cardinality(sent') <= Cardinality(sent) + 1

LEMMA StartKeeps ==
  ASSUME IInv, NEW p \in Peer, NEW root, root \in {<<{Fresh(p)}>>, StaticRoot(p)},
         Encrypt(p, Started(p, root, Fresh(p))), Cardinality(sent) < MaxSent
  PROVE  Encryption
<1> DEFINE s == Started(p, root, Fresh(p))
<1>1. keys \in [Peer -> Nat] /\ Encrypt(p, s)
  BY DEF IInv, Typed
<1> HIDE DEF s
<1>2. /\ Sound(s) /\ Known(keys', s.remote) /\ Known(keys', s.dh)
      /\ MayUse(p, s.cks) /\ KnownChain(keys', s.cks)
  BY <1>1, StartedSession DEF s
<1> QED BY <1>1, <1>2, EncryptStep DEF Encryption

LEMMA SendKeeps ==
  ASSUME IInv, NEW p \in Peer, Send(p)
  PROVE  IInv'
<1>1. /\ keys \in [Peer -> Nat] /\ waiting \in [Peer -> Nat]
      /\ UNCHANGED <<bundle, waiting, handled, opened, reloads>>
  BY DEF Send, IInv, Typed
<1>2. /\ Cardinality(sent) \in Nat /\ MaxSent \in Nat
      /\ waiting[Alice] \in Nat /\ waiting[Bob] \in Nat
  BY Counts
<1>3. Cardinality(sent) + waiting[Alice] + waiting[Bob] < MaxSent
  BY DEF Send, MaySend
<1>4. Cardinality(sent) < MaxSent
  BY <1>2, <1>3
<1>5. ASSUME session[p] # None, Encrypt(p, session[p]) PROVE Encryption
  <2> DEFINE s == session[p]
  <2>1. Sound(s) /\ Known(keys, s.remote) /\ Known(keys, s.dh)
    BY <1>5 DEF IInv, Typed, KnownPairs
  <2>2. s.cks # None => MayUse(p, s.cks) /\ KnownChain(keys, s.cks)
    BY <1>5 DEF IInv, KnownPairs, MayUse
  <2>3. s.remote \in Pub /\ s.dh \in Pub /\ s.cks \in Chain \cup {None}
    BY <2>1 DEF Sound, Session
  <2>4. Encrypt(p, s)
    BY <1>5
  <2> HIDE DEF s
  <2>5. keys' \in [Peer -> Nat] /\ \A q \in Peer : keys[q] <= keys'[q]
    BY <1>1, <2>4, FreshPair DEF Encrypt
  <2>6. /\ Known(keys', s.remote) /\ Known(keys', s.dh)
        /\ s.cks # None => KnownChain(keys', s.cks)
    BY <1>1, <2>1, <2>2, <2>3, <2>5, KnownStays
  <2> QED BY <1>4, <2>1, <2>2, <2>4, <2>6, EncryptStep DEF Encryption
<1>6. ASSUME Encrypt(p, AsAlice(p, Fresh(p))) PROVE Encryption
  BY <1>4, <1>6, StartKeeps DEF AsAlice
<1>7. Encryption
  BY <1>5, <1>6 DEF Send
<1>8. Typed'
  BY <1>1, <1>7 DEF Encryption, IInv, Typed
<1>9. Counted'
  <2>1. Cardinality(sent') \in Nat
    BY <1>7, FS_CardinalityType DEF Encryption
  <2>2. Cardinality(sent') + waiting[Alice] + waiting[Bob] <= MaxSent
    BY <1>2, <1>3, <1>7, <2>1 DEF Encryption
  <2> QED BY <1>1, <1>7, <2>2 DEF Counted, Encryption
<1> QED BY <1>7, <1>8, <1>9 DEF IInv, Encryption

LEMMA SendEndKeeps ==
  ASSUME IInv, NEW p \in Peer, SendEnd(p)
  PROVE  IInv'
<1>1. /\ waiting \in [Peer -> Nat] /\ waiting[p] > 0 /\ waiting' = [waiting EXCEPT ![p] = @ - 1]
      /\ Encrypt(p, Started(p, StaticRoot(p), Fresh(p)))
      /\ UNCHANGED <<bundle, handled, opened, reloads>>
  BY DEF SendEnd, IInv, Typed
<1>2. /\ Cardinality(sent) \in Nat /\ MaxSent \in Nat
      /\ waiting[Alice] \in Nat /\ waiting[Bob] \in Nat
      /\ Cardinality(sent) + waiting[Alice] + waiting[Bob] <= MaxSent
  BY Counts DEF IInv, Counted
<1>3. /\ waiting' \in [Peer -> Nat]
      /\ waiting[Alice] + waiting[Bob] > 0
      /\ waiting'[Alice] + waiting'[Bob] = waiting[Alice] + waiting[Bob] - 1
      /\ waiting'[Alice] \in Nat /\ waiting'[Bob] \in Nat
  <2>1. waiting' \in [Peer -> Nat]
    BY <1>1
  <2>2. CASE p = Alice
    <3>1. waiting'[Alice] = waiting[Alice] - 1 /\ waiting'[Bob] = waiting[Bob]
      BY <1>1, <2>2, PeerAssumption DEF PeerAssumption, Peer
    <3> QED BY <1>1, <1>2, <2>1, <2>2, <3>1
  <2>3. CASE p = Bob
    <3>1. waiting'[Bob] = waiting[Bob] - 1 /\ waiting'[Alice] = waiting[Alice]
      BY <1>1, <2>3, PeerAssumption DEF PeerAssumption, Peer
    <3> QED BY <1>1, <1>2, <2>1, <2>3, <3>1
  <2> QED BY <2>2, <2>3 DEF Peer
<1>4. Cardinality(sent) < MaxSent
  BY <1>2, <1>3
<1>5. Encryption
  BY <1>1, <1>4, StartKeeps
<1>6. Typed'
  BY <1>1, <1>3, <1>5 DEF Encryption, IInv, Typed
<1>7. Counted'
  <2>1. Cardinality(sent') \in Nat
    BY <1>5, FS_CardinalityType DEF Encryption
  <2>2. Cardinality(sent') + waiting'[Alice] + waiting'[Bob] <= MaxSent
    BY <1>2, <1>3, <1>5, <2>1 DEF Encryption
  <2> QED BY <1>5, <2>2 DEF Counted, Encryption
<1> QED BY <1>5, <1>6, <1>7 DEF IInv, Encryption

LEMMA ReceiveKeeps ==
  ASSUME IInv, NEW m \in sent, Receive(m)
  PROVE  IInv'
<1> DEFINE p == Other(m.from)
           fresh == Fresh(p)
           next == <<p, keys[p] + 2>>
           s == IF session[p] = None THEN AsBob(p, m, fresh) ELSE session[p]
           t == AfterReceive(s, m, next)
<1>1. /\ keys \in [Peer -> Nat] /\ sent \in SUBSET Message /\ m \in Message
      /\ m.pub \in Pub /\ m.id \in Ids /\ p \in Peer
  BY DEF IInv, Typed, Message, Other, Peer
<1>2. /\ session' = [session EXCEPT ![p] = t]
      /\ keys' = [keys EXCEPT ![p] = @ + 2]
      /\ handled[m.id] < 2
      /\ handled' = [handled EXCEPT ![m.id] = @ + 1]
      /\ opened' = [opened EXCEPT ![m.id] = IF Opens(s, m, next) /\ @ < 2 THEN @ + 1 ELSE @]
      /\ UNCHANGED <<bundle, waiting, sent, reloads>>
  BY DEF Receive
<1> HIDE DEF p
<1>3. /\ keys' \in [Peer -> Nat] /\ \A q \in Peer : keys[q] <= keys'[q]
      /\ fresh \in Pub /\ Known(keys', fresh)
  BY <1>1, <1>2, FreshPair
<1>4. next \in Pub /\ ~Known(keys, next) /\ Known(keys', next)
  BY <1>1, <1>2 DEF Pub, Known
<1>5. /\ \A pair \in Pub : Known(keys, pair) => Known(keys', pair)
      /\ \A chain \in Chain : KnownChain(keys, chain) => KnownChain(keys', chain)
  BY <1>1, <1>3, KnownStays
<1>6. Known(keys', m.pub)
  BY <1>1, <1>5 DEF IInv, KnownPairs
<1>7. /\ Sound(s) /\ Known(keys', s.remote) /\ Known(keys', s.dh)
      /\ s.cks # None => MayUse(p, s.cks) /\ KnownChain(keys', s.cks)
  <2>1. CASE session[p] = None
    <3> DEFINE remote == m.pub
               set == IF SamePreKeys /\ m.n = 0 THEN {remote} ELSE {remote, <<p, 0>>}
               root == <<set>>
               chain == NewChain(root)
    <3>1. s = [dh |-> fresh, remote |-> remote, root |-> root, cks |-> None, ckr |-> chain,
               ns |-> 0, nr |-> 0, pn |-> 0, skipped |-> {}]
      BY <2>1 DEF AsBob
    <3>2. remote \in Pub /\ Known(keys', remote)
      BY <1>1, <1>6
    <3> HIDE DEF s, fresh, remote
    <3>3. root \in Root
      <4>1. set \in SUBSET Pub
        BY <1>1, <3>2, Identity
      <4> HIDE DEF set
      <4> QED BY <4>1 DEF Root
    <3> HIDE DEF root
    <3>4. Sound(s) /\ s.dh = fresh /\ s.remote = remote /\ s.cks = None
      BY <1>3, <3>1, <3>2, <3>3, FirstSession
    <3> QED BY <1>3, <3>2, <3>4
  <2>2. CASE session[p] # None
    <3> DEFINE u == session[p]
    <3>1. Sound(u) /\ Known(keys, u.remote) /\ Known(keys, u.dh)
      BY <1>1, <2>2 DEF IInv, Typed, KnownPairs
    <3>2. u.cks # None => MayUse(p, u.cks) /\ KnownChain(keys, u.cks)
      BY <1>1, <2>2 DEF IInv, KnownPairs, MayUse
    <3>3. u.remote \in Pub /\ u.dh \in Pub /\ u.cks \in Chain \cup {None}
      BY <3>1 DEF Sound, Session
    <3>4. s = u
      BY <2>2
    <3> HIDE DEF u, s
    <3> QED BY <1>5, <3>1, <3>2, <3>3, <3>4
  <2> QED BY <2>1, <2>2
<1> HIDE DEF s, fresh, next
<1>8. /\ Sound(t)
      /\ t.remote \in {s.remote, m.pub} /\ t.dh \in {s.dh, next}
      /\ t.cks = s.cks \/ Starts(t.cks, m.pub, next)
  BY <1>1, <1>4, <1>7, AfterReceiveSound
<1> HIDE DEF t
<1>9. Starts(t.cks, m.pub, next) => MayUse(p, t.cks) /\ KnownChain(keys', t.cks)
  BY <1>4, <1>6 DEF Starts, MayUse, KnownChain
<1>10. t.cks # None => MayUse(p, t.cks) /\ KnownChain(keys', t.cks)
  BY <1>7, <1>8, <1>9
<1>11. Known(keys', t.remote) /\ Known(keys', t.dh)
  BY <1>4, <1>6, <1>7, <1>8
<1>12. /\ session' \in [Peer -> Session \cup {None}]
       /\ \A q \in Peer : session'[q] # None => Sound(session'[q])
       /\ sent' \in SUBSET Message
       /\ KnownPairs' /\ StepsAhead' /\ ChainsApart' /\ FreshKeyPerMessage'
  BY <1>1, <1>2, <1>3, <1>8, <1>10, <1>11, Replaced
<1>13. handled' \in [Ids -> 0 .. 2] /\ opened' \in [Ids -> 0 .. 2]
  BY <1>1, <1>2 DEF IInv, Typed
<1>14. Typed'
  BY <1>2, <1>3, <1>12, <1>13 DEF IInv, Typed
<1>15. Counted'
  BY <1>2 DEF IInv, Counted
<1> QED BY <1>12, <1>14, <1>15 DEF IInv

LEMMA ReloadKeeps ==
  ASSUME IInv, NEW p \in Peer, Reload(p)
  PROVE  IInv'
<1>1. /\ session' = [session EXCEPT ![p] = None]
      /\ waiting' = [waiting EXCEPT ![p] = 0] /\ bundle' = bundle \ {p}
      /\ UNCHANGED <<keys, sent>>
  BY DEF Reload
<1>2. \A q \in Peer : session'[q] # None => session'[q] = session[q]
  BY <1>1 DEF IInv, Typed
<1>3. Typed'
  <2>1. session' \in [Peer -> Session \cup {None}] /\ waiting' \in [Peer -> Nat] /\ bundle' \subseteq Peer
    BY <1>1 DEF IInv, Typed
  <2>2. \A q \in Peer : session'[q] # None => Sound(session'[q])
    BY <1>2 DEF IInv, Typed
  <2>3. reloads' \in 0 .. MaxReloads
    BY BoundAssumption DEF BoundAssumption, Reload, IInv, Typed
  <2>4. handled' \in [Ids -> 0 .. 2] /\ opened' \in [Ids -> 0 .. 2]
    BY DEF Reload, IInv, Typed
  <2> QED BY <1>1, <2>1, <2>2, <2>3, <2>4 DEF IInv, Typed
<1>4. Counted'
  <2>1. waiting \in [Peer -> Nat]
    BY DEF IInv, Typed
  <2>2. \A q \in Peer : waiting'[q] \in Nat /\ waiting'[q] <= waiting[q]
    BY <1>1, <2>1
  <2>3. /\ waiting'[Alice] \in Nat /\ waiting'[Bob] \in Nat
        /\ waiting'[Alice] <= waiting[Alice] /\ waiting'[Bob] <= waiting[Bob]
    BY <2>2 DEF Peer
  <2>4. Cardinality(sent) + waiting[Alice] + waiting[Bob] <= MaxSent /\ IsFiniteSet(sent)
    BY DEF IInv, Counted
  <2>5. Cardinality(sent) + waiting'[Alice] + waiting'[Bob] <= MaxSent
    BY <2>3, <2>4, Counts
  <2> QED BY <1>1, <2>4, <2>5 DEF Counted
<1>5. KnownPairs' /\ StepsAhead' /\ ChainsApart' /\ FreshKeyPerMessage'
  <2>1. KnownPairs'
    BY <1>1, <1>2 DEF IInv, KnownPairs
  <2>2. StepsAhead'
    BY <1>1, <1>2 DEF IInv, StepsAhead
  <2>3. ChainsApart'
    BY <1>1, <1>2 DEF IInv, ChainsApart
  <2>4. FreshKeyPerMessage'
    BY <1>1 DEF IInv, FreshKeyPerMessage
  <2> QED BY <2>1, <2>2, <2>3, <2>4
<1> QED BY <1>3, <1>4, <1>5 DEF IInv

\* A bundle that becomes known, and a send that awaits the import.
LEMMA WaitKeeps ==
  ASSUME IInv, UNCHANGED <<session, keys, sent, handled, opened, reloads>>,
         bundle' \subseteq Peer,
         \/ waiting' = waiting
         \/ \E p \in Peer : MaySend /\ waiting' = [waiting EXCEPT ![p] = @ + 1]
  PROVE  IInv'
<1>1. waiting \in [Peer -> Nat] /\ Cardinality(sent) + waiting[Alice] + waiting[Bob] <= MaxSent
  BY DEF IInv, Typed, Counted
<1>2. ASSUME NEW p \in Peer, MaySend, waiting' = [waiting EXCEPT ![p] = @ + 1]
      PROVE  waiting' \in [Peer -> Nat] /\ Cardinality(sent) + waiting'[Alice] + waiting'[Bob] <= MaxSent
  <2>1. Cardinality(sent) + waiting[Alice] + waiting[Bob] < MaxSent
    BY <1>2 DEF MaySend
  <2>2. CASE p = Alice
    <3>1. waiting'[Alice] = waiting[Alice] + 1 /\ waiting'[Bob] = waiting[Bob]
      BY <1>1, <1>2, <2>2, PeerAssumption DEF PeerAssumption, Peer
    <3> QED BY <1>1, <1>2, <2>1, <3>1, Counts
  <2>3. CASE p = Bob
    <3>1. waiting'[Bob] = waiting[Bob] + 1 /\ waiting'[Alice] = waiting[Alice]
      BY <1>1, <1>2, <2>3, PeerAssumption DEF PeerAssumption, Peer
    <3> QED BY <1>1, <1>2, <2>1, <3>1, Counts
  <2> QED BY <2>2, <2>3 DEF Peer
<1>3. waiting' \in [Peer -> Nat] /\ Cardinality(sent) + waiting'[Alice] + waiting'[Bob] <= MaxSent
  BY <1>1, <1>2
<1>4. Typed'
  BY <1>3 DEF IInv, Typed
<1>5. KnownPairs' /\ StepsAhead' /\ ChainsApart' /\ FreshKeyPerMessage'
  BY DEF IInv, KnownPairs, StepsAhead, ChainsApart, FreshKeyPerMessage
<1>6. Counted'
  BY <1>3 DEF IInv, Counted
<1> QED BY <1>4, <1>5, <1>6 DEF IInv

LEMMA InitSound == Init => IInv
<1> SUFFICES ASSUME Init PROVE IInv
  OBVIOUS
<1>1. Typed
  <2>1. /\ session \in [Peer -> Session \cup {None}]
        /\ \A p \in Peer : session[p] # None => Sound(session[p])
    BY DEF Init
  <2>2. /\ keys \in [Peer -> Nat] /\ waiting \in [Peer -> Nat] /\ sent \in SUBSET Message
        /\ handled \in [Ids -> 0 .. 2] /\ opened \in [Ids -> 0 .. 2]
    BY DEF Init
  <2>3. reloads \in 0 .. MaxReloads
    BY BoundAssumption DEF BoundAssumption, Init
  <2>4. bundle \subseteq Peer
    BY DEF Init
  <2> QED BY <2>1, <2>2, <2>3, <2>4 DEF Typed
<1>2. KnownPairs /\ StepsAhead /\ ChainsApart /\ FreshKeyPerMessage
  BY DEF Init, KnownPairs, StepsAhead, ChainsApart, FreshKeyPerMessage
<1>3. Counted
  <2>1. sent = {} /\ waiting[Alice] = 0 /\ waiting[Bob] = 0 /\ MaxSent \in Nat
    BY BoundAssumption DEF BoundAssumption, Init, Peer
  <2>2. IsFiniteSet({}) /\ Cardinality({}) = 0
    BY FS_EmptySet
  <2> QED BY <2>1, <2>2 DEF Counted
<1> QED BY <1>1, <1>2, <1>3 DEF IInv

LEMMA NextKeeps == IInv /\ [Next]_vars => IInv'
<1> SUFFICES ASSUME IInv, [Next]_vars PROVE IInv'
  OBVIOUS
<1>1. bundle \subseteq Peer
  BY DEF IInv, Typed
<1>2. ASSUME NEW p \in Peer, Send(p) PROVE IInv'
  BY <1>2, SendKeeps
<1>3. ASSUME NEW p \in Peer, Reload(p) PROVE IInv'
  BY <1>3, ReloadKeeps
<1>4. ASSUME NEW p \in Peer, RegisterBundle(p) PROVE IInv'
  BY <1>1, <1>4, WaitKeeps DEF RegisterBundle
<1>5. ASSUME NEW p \in Peer, SendBegin(p) PROVE IInv'
  BY <1>1, <1>5, WaitKeeps DEF SendBegin
<1>6. ASSUME NEW p \in Peer, SendEnd(p) PROVE IInv'
  BY <1>6, SendEndKeeps
<1>7. ASSUME NEW m \in sent, Receive(m) PROVE IInv'
  BY <1>7, ReceiveKeeps
<1>8. CASE UNCHANGED vars
  BY <1>1, <1>8, WaitKeeps DEF vars
<1> QED BY <1>2, <1>3, <1>4, <1>5, <1>6, <1>7, <1>8 DEF Next

LEMMA Invariance == Spec => []IInv
BY InitSound, NextKeeps, PTL DEF Spec

-----------------------------------------------------------------------------
(* Theorems.                                                               *)

\* Sessions, messages and counters keep their types, however many messages and
\* reloads there are; a header has one key put aside.
THEOREM TypeCorrect == Spec => []TypeOK
<1>1. IInv => TypeOK
  <2> SUFFICES ASSUME IInv PROVE TypeOK
    OBVIOUS
  <2>1. \A p \in Peer : session[p] # None => OneKeyEach(session[p])
    BY DEF IInv, Typed, Sound
  <2>2. waiting \in [Peer -> 0 .. MaxSent]
    <3>1. /\ waiting \in [Peer -> Nat]
          /\ Cardinality(sent) + waiting[Alice] + waiting[Bob] <= MaxSent
      BY DEF IInv, Typed, Counted
    <3>2. waiting[Alice] \in 0 .. MaxSent /\ waiting[Bob] \in 0 .. MaxSent
      BY <3>1, Counts
    <3> QED BY <3>1, <3>2 DEF Peer
  <2> QED BY <2>1, <2>2 DEF IInv, Typed, TypeOK
<1> QED BY <1>1, Invariance, PTL

\* Whatever is lost, reordered or delivered again, and whoever reloads, no two
\* messages are encrypted with one key, those of a session without a bundle
\* excepted.
THEOREM KeysNeverShared == Spec => []FreshKeyPerMessage
<1>1. IInv => FreshKeyPerMessage
  BY DEF IInv
<1> QED BY <1>1, Invariance, PTL

-----------------------------------------------------------------------------
(* What a RatchetState can still decrypt: OpenedOnce, KeysForgotten and    *)
(* StreamOpens, for every number of messages and reloads.                  *)

\* The session has derived, for receiving, the chain of this root.
IsRead(s, seed) ==
  \/ \E k \in s.skipped : k.key.seed = seed
  \/ s.ckr # None /\ s.ckr.seed = seed

\* The key is put aside, or in what is left of the receiving chain.
CanRead(s, key) ==
  \/ \E k \in s.skipped : k.key = key
  \/ s.ckr # None /\ key.seed = s.ckr.seed /\ key.step >= s.ckr.step

\* Keys put aside are not in the rest of the chain, nor there twice; no chain
\* derived with the session's present key pair is for receiving.
ReadSound(s) ==
  /\ \A k \in s.skipped : s.ckr # None /\ k.key.seed = s.ckr.seed => k.key.step < s.ckr.step
  /\ \A k, l \in s.skipped : k.key = l.key => k = l
  /\ \A seed : IsRead(s, seed) => s.dh \notin Newest(seed)
  /\ s.cks # None => s.cks.seed = s.root /\ ~IsRead(s, s.root)

\* The root of the receiving chain that a DH step derives.
NextSeed(s, remote) == KdfRoot(s.root, {remote, s.dh})

\* A session that has gone on to t without a DH step ...
Kept(s, t) ==
  /\ t.dh = s.dh /\ t.root = s.root /\ t.cks = s.cks
  /\ \A seed : IsRead(t, seed) => IsRead(s, seed)
  /\ \A key \in Chain : CanRead(t, key) => CanRead(s, key)

\* ... and with one.
Stepped(s, t, remote, fresh) ==
  /\ t.dh = fresh /\ t.cks # None /\ fresh \in Newest(t.root)
  /\ \A seed : IsRead(t, seed) => IsRead(s, seed) \/ seed = NextSeed(s, remote)
  /\ \A key \in Chain : CanRead(t, key) => CanRead(s, key) \/ s.dh \in Newest(key.seed)

\* A key pair that the session has not seen.
Unseen(s, pair) ==
  /\ pair # s.dh
  /\ \A seed : IsRead(s, seed) => pair \notin Newest(seed)

LEMMA NextSeedFacts ==
  ASSUME NEW s, s \in Session, NEW remote \in Pub
  PROVE  /\ NextSeed(s, remote) \in Seq(SUBSET Pub)
         /\ Newest(NextSeed(s, remote)) = {remote, s.dh}
         /\ Len(NextSeed(s, remote)) = Len(s.root) + 1
         /\ NextSeed(s, remote) # s.root
<1> DEFINE dh == {remote, s.dh}
           root == s.root
<1>1. dh \in SUBSET Pub /\ root \in Seq(SUBSET Pub)
  BY DEF Session, Root
<1>2. NextSeed(s, remote) = Append(root, dh)
  BY DEF NextSeed, KdfRoot
<1> HIDE DEF dh, root
<1>3. /\ Append(root, dh) \in Seq(SUBSET Pub) /\ Len(Append(root, dh)) = Len(root) + 1
      /\ Append(root, dh)[Len(root) + 1] = dh /\ Len(root) \in Nat
  BY <1>1
<1>4. Append(root, dh) # root
  BY <1>3
<1> QED BY <1>2, <1>3, <1>4 DEF Newest, dh, root

LEMMA SkipToReads ==
  ASSUME NEW s, Sound(s), ReadSound(s), NEW until \in Nat, NEW t, t = SkipTo(s, until)
  PROVE  ReadSound(t) /\ Kept(s, t)
<1>1. /\ s \in Session /\ s.nr \in Nat
      /\ s.ckr \in Chain \cup {None} /\ s.skipped \in SUBSET Skipped
  BY DEF Sound, Session
<1>2. CASE s.ckr = None \/ s.nr >= until
  <2>1. t = s
    BY <1>2 DEF SkipTo
  <2> QED BY <2>1 DEF Kept
<1>3. CASE ~(s.ckr = None \/ s.nr >= until)
  <2> DEFINE Key(n) == [s.ckr EXCEPT !.step = @ + n - s.nr]
             missed == {[pub |-> s.remote, n |-> n, key |-> Key(n)] : n \in s.nr .. until - 1}
             kept == {k \in s.skipped : \A l \in missed : <<k.pub, k.n>> # <<l.pub, l.n>>}
             u == SkipTo(s, until)
  <2>1. s.ckr \in Chain /\ s.ckr.step \in Nat /\ s.nr < until /\ s.ckr # None
    BY <1>1, <1>3 DEF Chain
  <2>2. u = [s EXCEPT !.nr = until, !.ckr.step = @ + until - s.nr, !.skipped = kept \cup missed]
    BY <1>3 DEF SkipTo
  <2>17. \A n \in s.nr .. until - 1 :
           /\ Key(n) \in Chain /\ Key(n).seed = s.ckr.seed /\ Key(n).step = s.ckr.step + n - s.nr
    <3> SUFFICES ASSUME NEW n \in s.nr .. until - 1
                 PROVE  /\ Key(n) \in Chain /\ Key(n).seed = s.ckr.seed
                        /\ Key(n).step = s.ckr.step + n - s.nr
      OBVIOUS
    <3> DEFINE chain == s.ckr
    <3>1. chain.step + n - s.nr \in Nat
      BY <1>1, <2>1
    <3>2. chain \in Chain /\ Key(n) = [chain EXCEPT !.step = chain.step + n - s.nr]
      BY <2>1
    <3> HIDE DEF chain, Key
    <3>3. Key(n) \in Chain /\ Key(n).seed = chain.seed /\ Key(n).step = chain.step + n - s.nr
      BY <3>1, <3>2 DEF Chain
    <3> QED BY <3>3 DEF chain
  <2> HIDE DEF Key
  <2>3. \A k \in missed :
          /\ k.key \in Chain /\ k.key.seed = s.ckr.seed
          /\ s.ckr.step <= k.key.step /\ k.key.step < s.ckr.step + until - s.nr
    <3> SUFFICES ASSUME NEW n \in s.nr .. until - 1
                 PROVE  /\ Key(n) \in Chain /\ Key(n).seed = s.ckr.seed
                        /\ s.ckr.step <= Key(n).step /\ Key(n).step < s.ckr.step + until - s.nr
      OBVIOUS
    <3> QED BY <1>1, <2>1, <2>17
  <2>4. \A k, l \in missed : k.key = l.key => k = l
    <3> SUFFICES ASSUME NEW n \in s.nr .. until - 1, NEW o \in s.nr .. until - 1, Key(n) = Key(o)
                 PROVE  n = o
      OBVIOUS
    <3>1. s.ckr.step + n - s.nr = s.ckr.step + o - s.nr
      BY <2>17
    <3> QED BY <1>1, <2>1, <3>1
  <2> DEFINE chain == [s.ckr EXCEPT !.step = @ + until - s.nr]
             all == kept \cup missed
  <2>5. /\ chain \in Chain /\ chain.seed = s.ckr.seed /\ chain.step = s.ckr.step + until - s.nr
        /\ s.ckr.step < chain.step
    BY <1>1, <2>1 DEF Chain
  <2>6. u = [s EXCEPT !.nr = until, !.ckr = chain, !.skipped = all]
    BY <2>2
  <2> HIDE DEF missed, u, chain, all, kept
  <2>7. /\ u.skipped = all /\ u.ckr = chain /\ u.dh = s.dh /\ u.root = s.root /\ u.cks = s.cks
    BY <1>1, <2>6 DEF Session
  <2>8. \A k \in all : k \in s.skipped \/ k \in missed
    BY DEF all, kept
  <2>9. \A k \in s.skipped : k.key \in Chain /\ k.key.step \in Nat
    BY <1>1 DEF Skipped, Chain
  <2>10. \A k \in s.skipped : k.key.seed = s.ckr.seed => k.key.step < s.ckr.step
    BY <2>1 DEF ReadSound
  <2>11. \A k \in all : k.key.seed = chain.seed => k.key.step < chain.step
    BY <2>1, <2>3, <2>5, <2>8, <2>9, <2>10 DEF Chain
  <2>12. \A k, l \in all : k.key = l.key => k = l
    <3>1. ASSUME NEW k \in s.skipped, NEW l \in missed PROVE k.key # l.key
      BY <2>1, <2>3, <2>9, <2>10
    <3>2. \A k, l \in s.skipped : k.key = l.key => k = l
      BY DEF ReadSound
    <3> QED BY <2>4, <2>8, <3>1, <3>2
  <2>13. \A seed : IsRead(u, seed) => IsRead(s, seed)
    BY <2>1, <2>3, <2>5, <2>7, <2>8 DEF IsRead
  <2>14. \A key \in Chain : CanRead(u, key) => CanRead(s, key)
    <3> SUFFICES ASSUME NEW key \in Chain, CanRead(u, key) PROVE CanRead(s, key)
      OBVIOUS
    <3>1. CASE \E k \in all : k.key = key
      BY <2>1, <2>3, <2>8, <3>1 DEF CanRead
    <3>2. CASE key.seed = chain.seed /\ key.step >= chain.step
      <4>1. key.step \in Nat /\ chain.step \in Nat
        BY <2>5 DEF Chain
      <4> QED BY <2>1, <2>5, <3>2, <4>1 DEF CanRead
    <3> QED BY <2>7, <3>1, <3>2 DEF CanRead
  <2>15. ReadSound(u)
    BY <2>7, <2>11, <2>12, <2>13 DEF ReadSound
  <2>16. Kept(s, u)
    BY <2>7, <2>13, <2>14 DEF Kept
  <2> QED BY <2>15, <2>16 DEF u
<1> QED BY <1>2, <1>3

LEMMA DhStepReads ==
  ASSUME NEW s, Sound(s), ReadSound(s), NEW remote \in Pub, NEW fresh \in Pub,
         Unseen(s, fresh), fresh # remote,
         NEW t, t = DhStep(s, remote, fresh)
  PROVE  ReadSound(t) /\ Stepped(s, t, remote, fresh)
<1> DEFINE root1 == NextSeed(s, remote)
           dh2 == {remote, fresh}
           root2 == KdfRoot(root1, dh2)
           chain1 == NewChain(root1)
           chain2 == NewChain(root2)
           u == DhStep(s, remote, fresh)
<1>1. s \in Session /\ s.dh \in Pub
  BY DEF Sound, Session
<1>2. root1 \in Seq(SUBSET Pub) /\ Newest(root1) = {remote, s.dh}
  BY <1>1, NextSeedFacts
<1>3. u = [s EXCEPT !.pn = s.ns, !.ns = 0, !.nr = 0, !.remote = remote, !.dh = fresh,
               !.root = root2, !.ckr = chain1, !.cks = chain2]
  BY DEF DhStep, NextSeed
<1>4. chain1.seed = root1 /\ chain1.step = 0 /\ chain2.seed = root2
  BY DEF NewChain
<1>5. Newest(root2) = dh2 /\ chain2 \in Chain /\ fresh \in dh2
  <2> HIDE DEF root1
  <2>1. dh2 \in SUBSET Pub
    OBVIOUS
  <2> HIDE DEF dh2
  <2>2. chain2 \in Chain /\ Newest(chain2.seed) = dh2
    BY <1>2, <2>1, FreshChain
  <2> QED BY <1>4, <2>2 DEF dh2
<1>6. t = u
  OBVIOUS
<1> HIDE DEF root1, dh2, root2, chain1, chain2, u
<1>7. /\ u.skipped = s.skipped /\ u.ckr = chain1 /\ u.cks = chain2 /\ u.dh = fresh /\ u.root = root2
  BY <1>1, <1>3 DEF Session
<1>8. chain2 # None
  BY <1>5, ChainIsNotNone
<1>9. \A seed : IsRead(u, seed) => IsRead(s, seed) \/ seed = root1
  BY <1>4, <1>7 DEF IsRead
<1>10. \A key \in Chain : CanRead(u, key) => CanRead(s, key) \/ s.dh \in Newest(key.seed)
  BY <1>2, <1>4, <1>7 DEF CanRead
<1>11. \A k \in s.skipped : k.key.seed # root1
  BY <1>2 DEF ReadSound, IsRead
<1>12. \A seed : IsRead(u, seed) => fresh \notin Newest(seed)
  BY <1>1, <1>2, <1>9 DEF Unseen
<1>13. ~IsRead(u, root2)
  BY <1>5, <1>12
<1>14. ReadSound(u)
  BY <1>4, <1>7, <1>11, <1>12, <1>13 DEF ReadSound
<1>15. Stepped(s, u, remote, fresh)
  BY <1>5, <1>7, <1>8, <1>9, <1>10 DEF Stepped, root1
<1> QED BY <1>6, <1>14, <1>15

LEMMA ThenKept ==
  ASSUME NEW s, NEW t, NEW u, NEW remote, NEW fresh, Kept(t, u)
  PROVE  /\ Kept(s, t) => Kept(s, u)
         /\ Stepped(s, t, remote, fresh) => Stepped(s, u, remote, fresh)
  BY DEF Kept, Stepped

LEMMA CaughtUpReads ==
  ASSUME NEW s, Sound(s), ReadSound(s), NEW m \in Message, NEW fresh \in Pub,
         Unseen(s, fresh), fresh # m.pub,
         NEW t, t = CaughtUp(s, m, fresh)
  PROVE  ReadSound(t) /\ (Kept(s, t) \/ Stepped(s, t, m.pub, fresh))
<1> DEFINE remote == m.pub
           n == m.n
           pn == m.pn
<1>1. remote \in Pub /\ n \in Nat /\ pn \in Nat
  BY DEF Message
<1>2. CASE NewPair(s, m)
  <2> DEFINE before == SkipTo(s, pn)
             after  == DhStep(before, remote, fresh)
  <2>1. t = SkipTo(after, n)
    BY <1>2 DEF CaughtUp
  <2> HIDE DEF remote, n, pn, after
  <2>2. Sound(before)
    BY <1>1, SkipToSound
  <2>3. ReadSound(before) /\ Kept(s, before)
    BY <1>1, SkipToReads
  <2> HIDE DEF before
  <2>4. Unseen(before, fresh) /\ fresh # remote
    BY <2>3 DEF Unseen, Kept, remote
  <2>5. Sound(after) /\ ReadSound(after) /\ Stepped(before, after, remote, fresh)
    BY <1>1, <2>2, <2>3, <2>4, DhStepSound, DhStepReads DEF after
  <2>6. NextSeed(before, remote) = NextSeed(s, remote)
    BY <2>3 DEF NextSeed, Kept
  <2>7. Stepped(s, after, remote, fresh)
    BY <2>3, <2>5, <2>6 DEF Stepped, Kept
  <2>8. ReadSound(t) /\ Kept(after, t)
    BY <1>1, <2>1, <2>5, SkipToReads
  <2> QED BY <2>7, <2>8, ThenKept DEF remote
<1>3. CASE ~NewPair(s, m)
  <2>1. t = SkipTo(s, n)
    BY <1>3 DEF CaughtUp
  <2> HIDE DEF n
  <2> QED BY <1>1, <2>1, SkipToReads
<1> QED BY <1>2, <1>3

\* A message opens with a key the session could read, or could derive with its
\* key pair, and cannot read afterwards.
LEMMA AfterReceiveReads ==
  ASSUME NEW s, Sound(s), ReadSound(s), NEW m \in Message, NEW fresh \in Pub,
         Unseen(s, fresh), fresh # m.pub,
         NEW t, t = AfterReceive(s, m, fresh)
  PROVE  /\ ReadSound(t) /\ (Kept(s, t) \/ Stepped(s, t, m.pub, fresh))
         /\ Opens(s, m, fresh) =>
              /\ CanRead(s, m.key) \/ s.dh \in Newest(m.key.seed)
              /\ ~CanRead(t, m.key) /\ t.dh \notin Newest(m.key.seed)
<1>1. m.key \in Chain
  BY DEF Message
<1>2. s \in Session
  BY DEF Sound
<1>3. CASE StoredKeys(s, m) # {}
  <2> DEFINE stored == StoredKeys(s, m)
             u == AfterReceive(s, m, fresh)
  <2>1. u = [s EXCEPT !.skipped = s.skipped \ stored]
    BY <1>3 DEF AfterReceive
  <2>2. stored \subseteq s.skipped
    BY DEF StoredKeys
  <2>3. t = u
    OBVIOUS
  <2> HIDE DEF stored, u
  <2>4. /\ u.skipped = s.skipped \ stored /\ u.ckr = s.ckr /\ u.dh = s.dh
        /\ u.root = s.root /\ u.cks = s.cks
    BY <1>2, <2>1 DEF Session
  <2>5. \A seed : IsRead(u, seed) => IsRead(s, seed)
    BY <2>4 DEF IsRead
  <2>6. ReadSound(u)
    BY <2>4, <2>5 DEF ReadSound
  <2>7. Kept(s, u)
    BY <2>4, <2>5 DEF Kept, CanRead
  <2>8. ASSUME Opens(s, m, fresh)
        PROVE  CanRead(s, m.key) /\ ~CanRead(u, m.key) /\ u.dh \notin Newest(m.key.seed)
    <3>1. PICK k \in stored : k.key = m.key
      <4>1. (CHOOSE k \in stored : TRUE) \in stored
        BY <1>3 DEF stored
      <4>2. (CHOOSE k \in stored : TRUE).key = m.key
        BY <1>3, <2>8 DEF Opens, ReadKey, stored
      <4> QED BY <4>1, <4>2
    <3>2. CanRead(s, m.key)
      BY <2>2, <3>1 DEF CanRead
    <3>3. \A l \in u.skipped : l.key # m.key
      BY <2>2, <2>4, <3>1 DEF ReadSound
    <3>4. ~(u.ckr # None /\ m.key.seed = u.ckr.seed /\ m.key.step >= u.ckr.step)
      <4>1. u.ckr # None /\ m.key.seed = u.ckr.seed => m.key.step < u.ckr.step
        BY <2>2, <2>4, <3>1 DEF ReadSound
      <4>2. u.ckr # None => u.ckr.step \in Nat
        BY <1>2, <2>4 DEF Session, Chain
      <4>3. m.key.step \in Nat
        BY <1>1 DEF Chain
      <4> QED BY <4>1, <4>2, <4>3
    <3>5. u.dh \notin Newest(m.key.seed)
      BY <2>2, <2>4, <3>1 DEF ReadSound, IsRead
    <3> QED BY <3>2, <3>3, <3>4, <3>5 DEF CanRead
  <2> QED BY <2>3, <2>6, <2>7, <2>8
<1>4. CASE StoredKeys(s, m) = {}
  <2> DEFINE u == CaughtUp(s, m, fresh)
             chain == NextKey(u.ckr)
             n == u.nr + 1
             v == AfterReceive(s, m, fresh)
  <2>1. Sound(u) /\ u.ckr \in Chain
    BY CaughtUpSound
  <2>2. ReadSound(u) /\ (Kept(s, u) \/ Stepped(s, u, m.pub, fresh))
    <3> HIDE DEF u
    <3> QED BY CaughtUpReads DEF u
  <2>3. v = [u EXCEPT !.ckr = chain, !.nr = n]
    BY <1>4 DEF AfterReceive
  <2>4. t = v
    OBVIOUS
  <2>5. Opens(s, m, fresh) => u.ckr = m.key
    BY <1>4 DEF Opens, ReadKey
  <2> HIDE DEF u, v
  <2>6. u \in Session /\ u.ckr # None /\ u.ckr.step \in Nat
    BY <2>1, ChainIsNotNone DEF Sound, Chain
  <2>7. chain \in Chain /\ chain.seed = u.ckr.seed /\ chain.step = u.ckr.step + 1
    BY <2>1 DEF NextKey, Chain
  <2> HIDE DEF chain, n
  <2>8. /\ v.skipped = u.skipped /\ v.ckr = chain /\ v.dh = u.dh
        /\ v.root = u.root /\ v.cks = u.cks
    BY <2>3, <2>6 DEF Session
  <2>9. \A k \in u.skipped : k.key \in Chain /\ k.key.step \in Nat
    BY <2>6 DEF Session, Skipped, Chain
  <2>10. \A seed : IsRead(v, seed) => IsRead(u, seed)
    BY <2>6, <2>7, <2>8 DEF IsRead
  <2>11. ReadSound(v)
    <3>1. \A k \in v.skipped : k.key.seed = v.ckr.seed => k.key.step < v.ckr.step
      <4>1. \A k \in u.skipped : k.key.seed = u.ckr.seed => k.key.step < u.ckr.step
        BY <2>2, <2>6 DEF ReadSound
      <4> QED BY <2>6, <2>7, <2>8, <2>9, <4>1
    <3> QED BY <2>2, <2>8, <2>10, <3>1 DEF ReadSound
  <2>12. Kept(u, v)
    <3>1. ASSUME NEW key \in Chain, CanRead(v, key) PROVE CanRead(u, key)
      <4>1. key.step \in Nat
        BY DEF Chain
      <4> QED BY <2>6, <2>7, <2>8, <3>1, <4>1 DEF CanRead
    <3> QED BY <2>8, <2>10, <3>1 DEF Kept
  <2>13. ASSUME Opens(s, m, fresh)
         PROVE  /\ CanRead(s, m.key) \/ s.dh \in Newest(m.key.seed)
                /\ ~CanRead(v, m.key) /\ v.dh \notin Newest(m.key.seed)
    <3>1. CanRead(u, m.key)
      BY <2>5, <2>6, <2>13 DEF CanRead
    <3>2. CanRead(s, m.key) \/ s.dh \in Newest(m.key.seed)
      BY <1>1, <2>2, <3>1 DEF Kept, Stepped
    <3>3. \A k \in v.skipped : k.key # m.key
      BY <2>2, <2>5, <2>6, <2>8, <2>9, <2>13 DEF ReadSound
    <3>4. ~(m.key.step >= v.ckr.step)
      BY <2>5, <2>6, <2>7, <2>8, <2>13
    <3>5. v.dh \notin Newest(m.key.seed)
      BY <2>2, <2>5, <2>6, <2>8, <2>13 DEF ReadSound, IsRead
    <3> QED BY <3>2, <3>3, <3>4, <3>5 DEF CanRead
  <2> QED BY <2>2, <2>4, <2>11, <2>12, <2>13, ThenKept
<1> QED BY <1>3, <1>4

-----------------------------------------------------------------------------
(* The invariant.                                                          *)

\* What holds of a session s that p has or is about to have, with so many key
\* pairs generated, such messages sent, and each decrypted so many times.
Held(p, s, generated, messages, times) ==
  /\ ReadSound(s)
  /\ \A seed : IsRead(s, seed) => \A pair \in Newest(seed) : Known(generated, pair)
  /\ s.dh[1] = p /\ s.dh[2] > 0
  /\ s.cks # None => s.cks.seed \in StaticRoots \/ s.dh \in Newest(s.cks.seed)
  /\ \A m \in messages : m.from = p =>
       /\ ~IsRead(s, m.key.seed)
       /\ s.dh \in Newest(m.key.seed) => m.key.seed = s.root
  /\ \A m \in messages : m.from # p =>
       /\ s.cks # None /\ m.key.seed = s.cks.seed => m.key.seed \in StaticRoots
       /\ times[m.id] > 0 => ~CanRead(s, m.key) /\ s.dh \notin Newest(m.key.seed)

AllHeld == \A p \in Peer : session[p] # None => Held(p, session[p], keys, sent, opened)

\* A reload forgets what was decrypted.
Forgotten == \A p \in Peer : session[p] = None =>
               \A m \in sent : m.from # p => opened[m.id] = 0

\* Messages are numbered in the order they are sent.
Numbered ==
  /\ \A m \in sent : m.id <= Cardinality(sent)
  /\ \A m, o \in sent : m.id = o.id => m = o
  /\ \A i \in Ids : i > Cardinality(sent) => opened[i] = 0

\* A chain was derived with the key pair its messages come with.
PairsOwned ==
  \A m \in sent : /\ m.pub[1] = m.from /\ m.pub[2] > 0
                  /\ m.key.seed \in StaticRoots \/ m.pub \in Newest(m.key.seed)

SInv == IInv /\ AllHeld /\ Forgotten /\ Numbered /\ PairsOwned /\ OpenedOnce

LEMMA SeedsInPub ==
  ASSUME NEW s, Sound(s), NEW seed, IsRead(s, seed)
  PROVE  Newest(seed) \subseteq Pub
<1>1. \A chain \in Chain : Newest(chain.seed) \subseteq Pub
  BY DEF Chain, Newest, Root
<1>2. \A k \in s.skipped : k.key \in Chain
  BY DEF Sound, Session, Skipped
<1>3. s.ckr # None => s.ckr \in Chain
  BY DEF Sound, Session
<1> QED BY <1>1, <1>2, <1>3 DEF IsRead

\* Time passes.
LEMMA HeldStays ==
  ASSUME NEW p \in Peer, NEW s, Sound(s), NEW messages, NEW times, NEW later,
         Held(p, s, keys, messages, times),
         keys \in [Peer -> Nat], keys' \in [Peer -> Nat], \A q \in Peer : keys[q] <= keys'[q],
         \A m \in messages : m.from # p /\ later[m.id] > 0 => times[m.id] > 0
  PROVE  Held(p, s, keys', messages, later)
<1>1. \A pair \in Pub : Known(keys, pair) => Known(keys', pair)
  BY KnownStays
<1>2. \A seed : IsRead(s, seed) => \A pair \in Newest(seed) : Known(keys', pair)
  BY <1>1, SeedsInPub DEF Held
<1> QED BY <1>2 DEF Held

\* p's session goes on to t.
LEMMA HeldMoves ==
  ASSUME NEW p \in Peer, NEW s, Sound(s), sent \in SUBSET Message, KnownPairs,
         Held(p, s, keys, sent, opened),
         keys \in [Peer -> Nat], keys' \in [Peer -> Nat], \A q \in Peer : keys[q] <= keys'[q],
         NEW remote \in Pub, Known(keys', remote), Known(keys', s.dh),
         NEW fresh \in Pub, ~Known(keys, fresh), fresh[1] = p, fresh[2] > 0,
         NEW t, ReadSound(t), Kept(s, t) \/ Stepped(s, t, remote, fresh)
  PROVE  Held(p, t, keys', sent, opened)
<1>1. \A pair \in Pub : Known(keys, pair) => Known(keys', pair)
  BY KnownStays
<1>2. \A m \in sent : fresh \notin Newest(m.key.seed) /\ m.key \in Chain
  BY DEF KnownPairs, KnownChain, Message
<1>3. \A seed : IsRead(s, seed) => \A pair \in Newest(seed) : Known(keys', pair)
  BY <1>1, SeedsInPub DEF Held
<1>4. CASE Kept(s, t)
  <2>1. \A seed : IsRead(t, seed) => \A pair \in Newest(seed) : Known(keys', pair)
    BY <1>3, <1>4 DEF Kept
  <2>2. t.dh = s.dh /\ t.cks = s.cks /\ t.root = s.root
    BY <1>4 DEF Kept
  <2>3. \A m \in sent : /\ IsRead(t, m.key.seed) => IsRead(s, m.key.seed)
                        /\ CanRead(t, m.key) => CanRead(s, m.key)
    BY <1>2, <1>4 DEF Kept
  <2> QED BY <2>1, <2>2, <2>3 DEF Held
<1>5. CASE Stepped(s, t, remote, fresh)
  <2> DEFINE new == NextSeed(s, remote)
  <2>1. Newest(new) = {remote, s.dh} /\ new # s.root
    BY NextSeedFacts DEF Sound
  <2>2. /\ t.dh = fresh /\ fresh \in Newest(t.root) /\ t.cks # None
        /\ \A seed : IsRead(t, seed) => IsRead(s, seed) \/ seed = new
        /\ \A key \in Chain : CanRead(t, key) => CanRead(s, key) \/ s.dh \in Newest(key.seed)
    BY <1>5 DEF Stepped
  <2> HIDE DEF new
  <2>3. \A seed : IsRead(t, seed) => \A pair \in Newest(seed) : Known(keys', pair)
    BY <1>3, <2>1, <2>2
  <2>4. t.cks.seed = t.root
    BY <2>2 DEF ReadSound
  <2>5. ASSUME NEW m \in sent, m.from = p
        PROVE  ~IsRead(t, m.key.seed) /\ t.dh \notin Newest(m.key.seed)
    <3>1. m.key.seed # new
      BY <2>1, <2>5 DEF Held
    <3> QED BY <1>2, <2>2, <2>5, <3>1 DEF Held
  <2>6. ASSUME NEW m \in sent, m.from # p
        PROVE  /\ m.key.seed # t.cks.seed /\ t.dh \notin Newest(m.key.seed)
               /\ opened[m.id] > 0 => ~CanRead(t, m.key)
    BY <1>2, <2>2, <2>4, <2>6 DEF Held
  <2> QED BY <2>2, <2>3, <2>4, <2>5, <2>6 DEF Held
<1> QED BY <1>4, <1>5

-----------------------------------------------------------------------------
(* Every step keeps the invariant.                                         *)

LEMMA SoundIsNotNone ==
  ASSUME NEW s, Sound(s)
  PROVE  s # None
  BY NoneAssumption DEF NoneAssumption, Sound

\* A session that p makes, with a key pair of its own.
LEMMA HeldAtFirst ==
  ASSUME NEW p \in Peer, KnownPairs,
         NEW s, s.skipped = {}, s.ckr = None, s.dh[1] = p, s.dh[2] > 0, ~Known(keys, s.dh),
         s.cks # None, s.cks.seed = s.root,
         s.cks.seed \in StaticRoots \/ s.dh \in Newest(s.cks.seed)
  PROVE  Held(p, s, keys, sent, opened)
<1>1. \A seed : ~IsRead(s, seed)
  BY DEF IsRead
<1>2. \A key : ~CanRead(s, key)
  BY DEF CanRead
<1>3. ReadSound(s)
  BY <1>1 DEF ReadSound
<1>4. \A m \in sent : s.dh \notin Newest(m.key.seed)
  BY DEF KnownPairs, KnownChain
<1>5. \A m \in sent : m.key.seed = s.cks.seed => m.key.seed \in StaticRoots
  BY <1>4
<1> QED BY <1>1, <1>2, <1>3, <1>4, <1>5 DEF Held

LEMMA EncryptSecret ==
  ASSUME SInv, IInv', NEW p \in Peer, NEW s, Sound(s), Encrypt(p, s),
         Known(keys', s.remote), Known(keys', s.dh),
         s.cks # None => MayUse(p, s.cks),
         s.cks = None => s.dh # Fresh(p) /\ s.remote # Fresh(p),
         Held(p, s, keys, sent, opened),
         UNCHANGED opened
  PROVE  SInv'
<1> DEFINE fresh == Fresh(p)
           t == ReadyToSend(s, fresh)
           m == Encrypted(p, t)
           u == AfterSend(t)
           remote == s.remote
<1>1. /\ keys \in [Peer -> Nat] /\ sent \in SUBSET Message /\ IsFiniteSet(sent)
      /\ session \in [Peer -> Session \cup {None}] /\ KnownPairs
      /\ AllHeld /\ Forgotten /\ Numbered /\ PairsOwned /\ OpenedOnce
  BY DEF SInv, IInv, Typed, Counted
<1>2. /\ session' = [session EXCEPT ![p] = u]
      /\ sent' = sent \cup {m}
      /\ keys' = [keys EXCEPT ![p] = @ + 1]
      /\ sent' \in SUBSET Message
  BY DEF Encrypt, IInv, Typed
<1>3. /\ keys' \in [Peer -> Nat] /\ \A q \in Peer : keys[q] <= keys'[q]
      /\ fresh \in Pub /\ ~Known(keys, fresh) /\ Known(keys', fresh)
  BY <1>1, <1>2, FreshPair
<1>4. fresh[1] = p /\ fresh[2] > 0
  BY <1>1 DEF Fresh
<1>5. remote \in Pub /\ s.cks \in Chain \cup {None}
  BY DEF Sound, Session
<1>6. Sound(t) /\ t.cks \in Chain /\ MayUse(p, t.cks) /\ Held(p, t, keys', sent, opened)
  <2>1. CASE s.cks = None
    <3>1. t = DhStep(s, remote, fresh)
      BY <2>1 DEF ReadyToSend
    <3>2. fresh # s.dh /\ fresh # remote
      BY <2>1
    <3> HIDE DEF t, fresh, remote
    <3>3. Sound(t) /\ Starts(t.cks, remote, fresh)
      BY <1>3, <1>5, <3>1, DhStepSound
    <3>4. t.cks \in Chain /\ fresh \in Newest(t.cks.seed)
      BY <3>3 DEF Starts
    <3>5. MayUse(p, t.cks)
      BY <1>3, <3>4 DEF MayUse
    <3>6. ReadSound(s) /\ Unseen(s, fresh)
      BY <1>3, <3>2 DEF Held, Unseen
    <3>7. ReadSound(t) /\ Stepped(s, t, remote, fresh)
      BY <1>3, <1>5, <3>1, <3>2, <3>6, DhStepReads
    <3>8. Known(keys', remote)
      BY DEF remote
    <3>9. Held(p, t, keys', sent, opened)
      BY <1>1, <1>3, <1>4, <1>5, <3>7, <3>8, HeldMoves
    <3> QED BY <3>3, <3>4, <3>5, <3>9
  <2>2. CASE s.cks # None
    <3>1. t = s
      BY <2>2 DEF ReadyToSend
    <3> HIDE DEF t
    <3>2. Held(p, s, keys', sent, opened)
      BY <1>1, <1>3, HeldStays
    <3> QED BY <1>5, <2>2, <3>1, <3>2
  <2> QED BY <2>1, <2>2
<1> HIDE DEF t, fresh, remote
<1>7. t.cks # None /\ t.cks.seed = t.root /\ ~IsRead(t, t.root)
  BY <1>6, ChainIsNotNone DEF Held, ReadSound
<1>8. /\ u.dh = t.dh /\ u.root = t.root /\ u.skipped = t.skipped /\ u.ckr = t.ckr
      /\ u.cks # None /\ u.cks.seed = t.cks.seed /\ Sound(u)
  <2>1. Sound(u) /\ u.dh = t.dh /\ u.cks \in Chain /\ u.cks.seed = t.cks.seed
    BY <1>6, AfterSendSound
  <2> DEFINE chain == NextKey(t.cks)
             n == t.ns + 1
  <2>2. u = [t EXCEPT !.cks = chain, !.ns = n]
    BY DEF AfterSend
  <2> HIDE DEF chain, n, u
  <2>3. u.root = t.root /\ u.skipped = t.skipped /\ u.ckr = t.ckr
    BY <1>6, <2>2 DEF Sound, Session
  <2> QED BY <2>1, <2>3, ChainIsNotNone
<1>9. m.key = t.cks /\ m.from = p /\ m.pub = t.dh /\ m.id = Cardinality(sent) + 1
  BY DEF Encrypted
<1> HIDE DEF u, m
<1>10. m \in sent' /\ m \in Message /\ m.id \in Ids
  BY <1>2 DEF Message
<1>11. Cardinality(sent) \in Nat
  BY <1>1, FS_CardinalityType
<1>12. opened[m.id] = 0
  BY <1>1, <1>9, <1>10, <1>11 DEF Numbered
<1>13. m \notin sent
  BY <1>1, <1>9, <1>11 DEF Numbered
<1>14. AllHeld'
  <2> SUFFICES ASSUME NEW q \in Peer, session'[q] # None
               PROVE  Held(q, session'[q], keys', sent', opened')
    BY DEF AllHeld
  <2>1. CASE q = p
    <3>1. session'[q] = u
      BY <1>1, <1>2, <2>1
    <3>2. \A seed : IsRead(u, seed) <=> IsRead(t, seed)
      BY <1>8 DEF IsRead
    <3>3. \A key : CanRead(u, key) <=> CanRead(t, key)
      BY <1>8 DEF CanRead
    <3>4. ReadSound(u)
      BY <1>6, <1>7, <1>8, <3>2 DEF Held, ReadSound
    <3>5. Held(p, u, keys', sent, opened)
      BY <1>6, <1>7, <1>8, <3>2, <3>3, <3>4 DEF Held
    <3>6. m.key.seed = u.root /\ ~IsRead(u, m.key.seed)
      BY <1>7, <1>8, <1>9, <3>2
    <3>7. Held(p, u, keys', sent \cup {m}, opened)
      BY <1>9, <3>5, <3>6 DEF Held
    <3> QED BY <1>2, <2>1, <3>1, <3>7
  <2>2. CASE q # p
    <3> DEFINE v == session[q]
    <3>1. session'[q] = v
      BY <1>1, <1>2, <2>2
    <3>2. v # None /\ Held(q, v, keys, sent, opened) /\ Sound(v)
      BY <1>1, <3>1 DEF AllHeld, SInv, IInv, Typed
    <3>3. v.cks # None /\ m.key.seed = v.cks.seed => m.key.seed \in StaticRoots
      <4>1. StepsAhead /\ ChainsApart
        BY DEF SInv, IInv
      <4> QED BY <1>1, <1>6, <1>9, <2>2, <3>2, <4>1, Unused
    <3> HIDE DEF v
    <3>4. Held(q, v, keys', sent, opened)
      BY <1>1, <1>3, <3>2, HeldStays
    <3>5. Held(q, v, keys', sent \cup {m}, opened)
      BY <1>9, <1>12, <2>2, <3>3, <3>4 DEF Held
    <3> QED BY <1>2, <3>1, <3>5
  <2> QED BY <2>1, <2>2
<1>15. Forgotten'
  <2>1. u # None
    BY <1>8, SoundIsNotNone
  <2>2. \A q \in Peer : session'[q] = None => session[q] = None
    BY <1>1, <1>2, <2>1
  <2> QED BY <1>1, <1>2, <1>12, <2>2 DEF Forgotten
<1>16. Numbered'
  <2>1. Cardinality(sent') = Cardinality(sent) + 1
    BY <1>1, <1>2, <1>13, FS_AddElement
  <2>2. \A o \in sent : o.id \in Nat
    BY <1>1 DEF Message, Ids
  <2>3. \A o \in sent : o.id <= Cardinality(sent)
    BY <1>1 DEF Numbered
  <2>4. \A o \in sent' : o.id <= Cardinality(sent')
    BY <1>2, <1>9, <1>11, <2>1, <2>2, <2>3
  <2>5. \A o \in sent : o.id # m.id
    BY <1>9, <1>11, <2>2, <2>3
  <2>6. \A o, x \in sent' : o.id = x.id => o = x
    BY <1>1, <1>2, <2>5 DEF Numbered
  <2>7. \A i \in Ids : i > Cardinality(sent') => opened'[i] = 0
    <3>1. \A i \in Ids : i \in Int
      BY BoundAssumption DEF BoundAssumption, Ids
    <3> QED BY <1>1, <1>11, <2>1, <3>1 DEF Numbered
  <2> QED BY <2>4, <2>6, <2>7 DEF Numbered
<1>17. PairsOwned'
  <2>1. m.pub[1] = m.from /\ m.pub[2] > 0
    BY <1>6, <1>9 DEF Held
  <2>2. m.key.seed \in StaticRoots \/ m.pub \in Newest(m.key.seed)
    BY <1>6, <1>7, <1>9 DEF Held
  <2> QED BY <1>1, <1>2, <2>1, <2>2 DEF PairsOwned
<1>18. OpenedOnce'
  BY <1>1 DEF OpenedOnce
<1> QED BY <1>14, <1>15, <1>16, <1>17, <1>18 DEF SInv

LEMMA StartSecret ==
  ASSUME SInv, IInv', NEW p \in Peer, NEW root, root \in {<<{Fresh(p)}>>, StaticRoot(p)},
         Encrypt(p, Started(p, root, Fresh(p))), UNCHANGED opened
  PROVE  SInv'
<1> DEFINE s == Started(p, root, Fresh(p))
<1>1. keys \in [Peer -> Nat] /\ KnownPairs /\ Encrypt(p, s)
  BY DEF SInv, IInv, Typed
<1>2. ~Known(keys, Fresh(p)) /\ Fresh(p)[1] = p /\ Fresh(p)[2] > 0
  BY <1>1 DEF Fresh, Known
<1> HIDE DEF s
<1>3. /\ Sound(s) /\ Known(keys', s.remote) /\ Known(keys', s.dh)
      /\ MayUse(p, s.cks) /\ s.skipped = {} /\ s.ckr = None /\ s.cks # None
      /\ s.root = root /\ s.cks.seed = root /\ s.dh = Fresh(p)
      /\ root \in StaticRoots \/ s.dh \in Newest(root)
  BY <1>1, StartedSession DEF s
<1>4. Held(p, s, keys, sent, opened)
  BY <1>1, <1>2, <1>3, HeldAtFirst
<1> QED BY <1>1, <1>3, <1>4, EncryptSecret

LEMMA SendSecret ==
  ASSUME SInv, NEW p \in Peer, Send(p)
  PROVE  SInv'
<1> DEFINE fresh == Fresh(p)
<1>1. /\ keys \in [Peer -> Nat] /\ IInv /\ KnownPairs /\ AllHeld /\ UNCHANGED opened
      /\ \A q \in Peer : session[q] # None => Sound(session[q])
  BY DEF SInv, IInv, Typed, Send
<1>2. IInv'
  BY <1>1, SendKeeps
<1>3. ASSUME NEW s, Encrypt(p, s)
      PROVE  /\ keys' \in [Peer -> Nat] /\ \A q \in Peer : keys[q] <= keys'[q]
             /\ fresh \in Pub /\ ~Known(keys, fresh) /\ Known(keys', fresh)
             /\ fresh[1] = p /\ fresh[2] > 0
  <2>1. fresh[1] = p /\ fresh[2] > 0
    BY <1>1 DEF Fresh
  <2> QED BY <1>1, <1>3, <2>1, FreshPair DEF Encrypt
<1>4. ASSUME session[p] # None, Encrypt(p, session[p]) PROVE SInv'
  <2> DEFINE s == session[p]
  <2>1. Sound(s) /\ Known(keys, s.remote) /\ Known(keys, s.dh) /\ Held(p, s, keys, sent, opened)
    BY <1>1, <1>4 DEF KnownPairs, AllHeld
  <2>2. s.cks # None => MayUse(p, s.cks)
    BY <1>4 DEF MayUse
  <2>3. s.remote \in Pub /\ s.dh \in Pub
    BY <2>1 DEF Sound, Session
  <2>4. Encrypt(p, s)
    BY <1>4
  <2> HIDE DEF s, fresh
  <2>5. Known(keys', s.remote) /\ Known(keys', s.dh)
    BY <1>1, <1>3, <2>1, <2>3, <2>4, KnownStays
  <2>6. s.dh # fresh /\ s.remote # fresh
    BY <1>3, <2>1, <2>4
  <2> QED BY <1>1, <1>2, <2>1, <2>2, <2>4, <2>5, <2>6, EncryptSecret DEF fresh
<1>5. ASSUME Encrypt(p, AsAlice(p, fresh)) PROVE SInv'
  BY <1>1, <1>2, <1>5, StartSecret DEF AsAlice
<1> QED BY <1>4, <1>5 DEF Send

LEMMA SendEndSecret ==
  ASSUME SInv, NEW p \in Peer, SendEnd(p)
  PROVE  SInv'
<1>1. Encrypt(p, Started(p, StaticRoot(p), Fresh(p))) /\ UNCHANGED opened
  BY DEF SendEnd
<1>2. IInv'
  BY SendEndKeeps DEF SInv
<1> QED BY <1>1, <1>2, StartSecret

\* The session of a first message, before it is read.
LEMMA HeldAtReceipt ==
  ASSUME SInv, NEW p \in Peer, session[p] = None, NEW m \in sent, m.from # p,
         NEW s, s.skipped = {}, s.ckr = NewChain(s.root), s.cks = None,
         s.root \in {<<{m.pub}>>, <<{m.pub, <<p, 0>>}>>},
         s.dh = Fresh(p)
  PROVE  Held(p, s, keys, sent, opened)
<1> DEFINE root == s.root
<1>1. /\ keys \in [Peer -> Nat] /\ sent \in SUBSET Message /\ KnownPairs /\ PairsOwned /\ Forgotten
  BY DEF SInv, IInv, Typed
<1>2. s.dh[1] = p /\ s.dh[2] > 0 /\ ~Known(keys, s.dh)
  BY <1>1 DEF Fresh, Known
<1>3. m.pub \in Newest(root) /\ Newest(root) \subseteq {m.pub, <<p, 0>>}
  <2>1. PICK set \in {{m.pub}, {m.pub, <<p, 0>>}} : root = <<set>>
    OBVIOUS
  <2>2. Newest(root) = set
    BY <2>1 DEF Newest
  <2> QED BY <2>1, <2>2
<1>4. \A seed : IsRead(s, seed) => seed = root
  BY DEF IsRead, NewChain
<1>5. Known(keys, m.pub) /\ Known(keys, <<p, 0>>) /\ m.pub[1] # p /\ m.pub[2] > 0
  BY <1>1, Identity DEF KnownPairs, PairsOwned
<1>6. \A seed : IsRead(s, seed) => \A pair \in Newest(seed) : Known(keys, pair)
  BY <1>3, <1>4, <1>5
<1>7. ReadSound(s)
  <2>1. \A seed : IsRead(s, seed) => s.dh \notin Newest(seed)
    BY <1>2, <1>6
  <2> QED BY <2>1 DEF ReadSound
<1>8. ASSUME NEW o \in sent, o.from = p
      PROVE  ~IsRead(s, o.key.seed) /\ s.dh \notin Newest(o.key.seed)
  <2>1. s.dh \notin Newest(o.key.seed)
    BY <1>1, <1>2 DEF KnownPairs, KnownChain
  <2>2. root \notin StaticRoots
    <3>1. ASSUME NEW q \in Peer PROVE m.pub \notin Newest(StaticRoot(q))
      <4>1. Newest(StaticRoot(q)) = {<<q, 0>>}
        BY Identity
      <4> QED BY <1>5, <4>1
    <3> QED BY <1>3, <3>1 DEF StaticRoots
  <2>3. o.pub \notin Newest(root)
    <3>1. o.pub[1] = p /\ o.pub[2] > 0
      BY <1>1, <1>8 DEF PairsOwned
    <3>2. o.pub # m.pub
      BY <1>5, <3>1
    <3>3. o.pub # <<p, 0>>
      BY <3>1
    <3> QED BY <1>3, <3>2, <3>3
  <2>4. o.key.seed # root
    BY <1>1, <2>2, <2>3 DEF PairsOwned
  <2> QED BY <1>4, <2>1, <2>4
<1>9. \A o \in sent : o.from # p => opened[o.id] = 0
  BY <1>1 DEF Forgotten
<1> QED BY <1>2, <1>6, <1>7, <1>8, <1>9 DEF Held

LEMMA ReceiveSecret ==
  ASSUME SInv, NEW m \in sent, Receive(m)
  PROVE  SInv'
<1> DEFINE p == Other(m.from)
           fresh == Fresh(p)
           next == <<p, keys[p] + 2>>
           s == IF session[p] = None THEN AsBob(p, m, fresh) ELSE session[p]
           t == AfterReceive(s, m, next)
           remote == m.pub
<1>1. /\ keys \in [Peer -> Nat] /\ sent \in SUBSET Message /\ m \in Message
      /\ session \in [Peer -> Session \cup {None}] /\ opened \in [Ids -> 0 .. 2]
      /\ \A q \in Peer : session[q] # None => Sound(session[q])
      /\ remote \in Pub /\ m.id \in Ids /\ p \in Peer /\ m.from # p
      /\ \A o \in sent : o.id \in Ids /\ o.from \in Peer
  BY PeerAssumption DEF SInv, IInv, Typed, Message, Other, Peer
<1>2. /\ KnownPairs /\ AllHeld /\ Forgotten /\ Numbered /\ PairsOwned /\ OpenedOnce /\ IInv
  BY DEF SInv, IInv
<1>3. /\ session' = [session EXCEPT ![p] = t]
      /\ keys' = [keys EXCEPT ![p] = @ + 2]
      /\ opened' = [opened EXCEPT ![m.id] = IF Opens(s, m, next) /\ @ < 2 THEN @ + 1 ELSE @]
      /\ UNCHANGED sent
  BY DEF Receive
<1>4. IInv'
  BY <1>2, ReceiveKeeps
<1> HIDE DEF p
<1>6. /\ keys' \in [Peer -> Nat] /\ \A q \in Peer : keys[q] <= keys'[q]
      /\ fresh \in Pub /\ ~Known(keys, fresh) /\ Known(keys', fresh)
  BY <1>1, <1>3, FreshPair
<1>7. /\ next \in Pub /\ ~Known(keys, next) /\ Known(keys', next) /\ next[1] = p /\ next[2] > 0
  BY <1>1, <1>3 DEF Pub, Known
<1>8. fresh # next
  BY <1>1 DEF Fresh
<1>9. Known(keys, remote) /\ Known(keys', remote) /\ next # remote
  <2>1. Known(keys, remote)
    BY <1>2 DEF KnownPairs
  <2> HIDE DEF next
  <2> QED BY <1>1, <1>6, <1>7, <2>1, KnownStays
<1>10. Sound(s) /\ Held(p, s, keys, sent, opened) /\ Known(keys', s.dh) /\ s.dh # next
  <2>1. CASE session[p] = None
    <3> DEFINE set == IF SamePreKeys /\ m.n = 0 THEN {remote} ELSE {remote, <<p, 0>>}
               root == <<set>>
               chain == NewChain(root)
    <3>1. s = [dh |-> fresh, remote |-> remote, root |-> root, cks |-> None, ckr |-> chain,
               ns |-> 0, nr |-> 0, pn |-> 0, skipped |-> {}]
      BY <2>1 DEF AsBob
    <3>2. root \in Root
      <4>1. set \in SUBSET Pub
        BY <1>1, Identity
      <4> HIDE DEF set
      <4> QED BY <4>1 DEF Root
    <3>3. root \in {<<{remote}>>, <<{remote, <<p, 0>>}>>}
      OBVIOUS
    <3> HIDE DEF s, fresh, next, root
    <3>5. Sound(s) /\ s.dh = fresh /\ s.remote = remote /\ s.cks = None
      BY <1>1, <1>6, <3>1, <3>2, FirstSession
    <3>6. s.skipped = {} /\ s.ckr = NewChain(s.root) /\ s.root = root
      BY <3>1
    <3>7. s.dh = Fresh(p)
      BY <3>5 DEF fresh
    <3>8. Held(p, s, keys, sent, opened)
      BY <1>1, <2>1, <3>3, <3>5, <3>6, <3>7, HeldAtReceipt
    <3> QED BY <1>6, <1>8, <3>5, <3>8
  <2>2. CASE session[p] # None
    <3> DEFINE u == session[p]
    <3>1. Sound(u) /\ Known(keys, u.dh) /\ Held(p, u, keys, sent, opened)
      BY <1>1, <1>2, <2>2 DEF KnownPairs, AllHeld
    <3>2. u.dh \in Pub
      BY <3>1 DEF Sound, Session
    <3>3. s = u
      BY <2>2
    <3> HIDE DEF u, s, next
    <3>4. Known(keys', u.dh)
      BY <1>1, <1>6, <3>1, <3>2, KnownStays
    <3> QED BY <1>7, <3>1, <3>3, <3>4
  <2> QED BY <2>1, <2>2
<1> HIDE DEF s, fresh, next
<1>11. Sound(t)
  BY <1>1, <1>7, <1>10, AfterReceiveSound
<1>12. ReadSound(s) /\ Unseen(s, next)
  BY <1>7, <1>10 DEF Held, Unseen
<1>13. /\ ReadSound(t) /\ (Kept(s, t) \/ Stepped(s, t, remote, next))
       /\ Opens(s, m, next) =>
            /\ CanRead(s, m.key) \/ s.dh \in Newest(m.key.seed)
            /\ ~CanRead(t, m.key) /\ t.dh \notin Newest(m.key.seed)
  BY <1>1, <1>7, <1>9, <1>10, <1>12, AfterReceiveReads
<1> HIDE DEF t
<1>14. Held(p, t, keys', sent, opened)
  <2> HIDE DEF remote
  <2> QED BY <1>1, <1>2, <1>6, <1>7, <1>9, <1>10, <1>13, HeldMoves
<1>15. opened[m.id] \in 0 .. 1 /\ (Opens(s, m, next) => opened[m.id] = 0)
  <2>1. opened[m.id] \in 0 .. 1
    BY <1>1, <1>2 DEF OpenedOnce
  <2>2. opened[m.id] > 0 => ~CanRead(s, m.key) /\ s.dh \notin Newest(m.key.seed)
    BY <1>1, <1>10 DEF Held
  <2> QED BY <1>13, <2>1, <2>2
<1>16. /\ opened'[m.id] \in 0 .. 1
       /\ opened'[m.id] > 0 => Opens(s, m, next) \/ opened[m.id] > 0
       /\ \A i \in Ids : i # m.id => opened'[i] = opened[i]
  BY <1>1, <1>3, <1>15
<1>17. \A o \in sent : o # m => o.id # m.id /\ opened'[o.id] = opened[o.id]
  BY <1>1, <1>2, <1>16 DEF Numbered
<1>18. AllHeld'
  <2> SUFFICES ASSUME NEW q \in Peer, session'[q] # None
               PROVE  Held(q, session'[q], keys', sent, opened')
    BY <1>3 DEF AllHeld
  <2>1. CASE q = p
    <3>1. session'[q] = t
      BY <1>1, <1>3, <2>1
    <3>2. ASSUME NEW o \in sent, o.from # p, opened'[o.id] > 0
          PROVE  ~CanRead(t, o.key) /\ t.dh \notin Newest(o.key.seed)
      <4>1. opened[o.id] > 0 => ~CanRead(t, o.key) /\ t.dh \notin Newest(o.key.seed)
        BY <1>14, <3>2 DEF Held
      <4>2. CASE o = m
        BY <1>13, <1>16, <3>2, <4>1, <4>2
      <4>3. CASE o # m
        BY <1>17, <3>2, <4>1, <4>3
      <4> QED BY <4>2, <4>3
    <3>3. Held(p, t, keys', sent, opened')
      BY <1>14, <3>2 DEF Held
    <3> QED BY <2>1, <3>1, <3>3
  <2>2. CASE q # p
    <3> DEFINE v == session[q]
    <3>1. session'[q] = v
      BY <1>1, <1>3, <2>2
    <3>2. Sound(v) /\ Held(q, v, keys, sent, opened)
      BY <1>1, <1>2, <3>1 DEF AllHeld
    <3>3. m.from = q
      BY <1>1, <2>2 DEF Peer
    <3>4. \A o \in sent : o.from # q /\ opened'[o.id] > 0 => opened[o.id] > 0
      BY <1>17, <3>3
    <3> HIDE DEF v
    <3> QED BY <1>1, <1>6, <3>1, <3>2, <3>4, HeldStays
  <2> QED BY <2>1, <2>2
<1>19. Forgotten'
  <2>1. t # None
    BY <1>11, SoundIsNotNone
  <2>2. \A q \in Peer : session'[q] = None => q # p /\ session[q] = None
    BY <1>1, <1>3, <2>1
  <2>3. ASSUME NEW q \in Peer, session'[q] = None, NEW o \in sent, o.from # q
        PROVE  opened'[o.id] = 0
    <3>1. q # p /\ opened[o.id] = 0
      BY <1>2, <2>2, <2>3 DEF Forgotten
    <3>2. o # m
      BY <1>1, <2>3, <3>1 DEF Peer
    <3> QED BY <1>17, <3>1, <3>2
  <2> QED BY <1>3, <2>3 DEF Forgotten
<1>20. Numbered'
  <2>1. \A i \in Ids : i > Cardinality(sent) => i # m.id
    <3>1. m.id <= Cardinality(sent) /\ IsFiniteSet(sent)
      BY <1>2 DEF Numbered, IInv, Counted
    <3>2. Cardinality(sent) \in Nat
      BY <3>1, FS_CardinalityType
    <3>3. \A i \in Ids : i \in Int
      BY BoundAssumption DEF BoundAssumption, Ids
    <3> QED BY <1>1, <3>1, <3>2, <3>3
  <2> QED BY <1>2, <1>3, <1>16, <2>1 DEF Numbered
<1>21. PairsOwned'
  BY <1>2, <1>3 DEF PairsOwned
<1>22. OpenedOnce'
  BY <1>2, <1>16 DEF OpenedOnce
<1> QED BY <1>4, <1>18, <1>19, <1>20, <1>21, <1>22 DEF SInv

LEMMA ReloadSecret ==
  ASSUME SInv, NEW p \in Peer, Reload(p)
  PROVE  SInv'
<1> DEFINE received == {m.id : m \in Sent(Other(p))}
<1>1. /\ session' = [session EXCEPT ![p] = None]
      /\ opened' = [i \in Ids |-> IF i \in received THEN 0 ELSE opened[i]]
      /\ UNCHANGED <<keys, sent>>
  BY DEF Reload
<1>2. /\ AllHeld /\ Forgotten /\ Numbered /\ PairsOwned /\ OpenedOnce /\ IInv
      /\ session \in [Peer -> Session \cup {None}] /\ keys \in [Peer -> Nat]
      /\ opened \in [Ids -> 0 .. 2]
      /\ \A q \in Peer : session[q] # None => Sound(session[q])
      /\ \A o \in sent : o.id \in Ids /\ o.from \in Peer
  BY DEF SInv, IInv, Typed, Message
<1>3. IInv'
  BY <1>2, ReloadKeeps
<1>4. \A o \in sent : o.from # p => o.id \in received
  BY <1>2 DEF Sent, Other, Peer
<1> HIDE DEF received
<1>5. \A i \in Ids : opened'[i] = 0 \/ opened'[i] = opened[i]
  BY <1>1
<1>6. AllHeld'
  <2> SUFFICES ASSUME NEW q \in Peer, session'[q] # None
               PROVE  Held(q, session'[q], keys', sent, opened')
    BY <1>1 DEF AllHeld
  <2> DEFINE v == session[q]
  <2>1. session'[q] = v
    BY <1>1, <1>2
  <2>2. Sound(v) /\ Held(q, v, keys, sent, opened)
    BY <1>2, <2>1 DEF AllHeld
  <2>3. \A o \in sent : o.from # q /\ opened'[o.id] > 0 => opened[o.id] > 0
    BY <1>2, <1>5
  <2>4. keys' \in [Peer -> Nat] /\ \A r \in Peer : keys[r] <= keys'[r]
    BY <1>1, <1>2
  <2> HIDE DEF v
  <2> QED BY <1>2, <2>1, <2>2, <2>3, <2>4, HeldStays
<1>7. Forgotten'
  <2>1. ASSUME NEW q \in Peer, session'[q] = None, NEW o \in sent, o.from # q
        PROVE  opened'[o.id] = 0
    <3>1. CASE q = p
      BY <1>1, <1>2, <1>4, <2>1, <3>1
    <3>2. CASE q # p
      <4>1. opened[o.id] = 0
        BY <1>1, <1>2, <2>1, <3>2 DEF Forgotten
      <4> QED BY <1>2, <1>5, <4>1
    <3> QED BY <3>1, <3>2
  <2> QED BY <1>1, <2>1 DEF Forgotten
<1>8. Numbered' /\ PairsOwned' /\ OpenedOnce'
  <2>1. Numbered'
    BY <1>1, <1>2, <1>5 DEF Numbered
  <2>2. PairsOwned'
    BY <1>1, <1>2 DEF PairsOwned
  <2>3. OpenedOnce'
    BY <1>2, <1>5 DEF OpenedOnce
  <2> QED BY <2>1, <2>2, <2>3
<1> QED BY <1>3, <1>6, <1>7, <1>8 DEF SInv

LEMMA OthersSecret ==
  ASSUME SInv, IInv', UNCHANGED <<session, keys, sent, opened>>
  PROVE  SInv'
  BY DEF SInv, AllHeld, Forgotten, Numbered, PairsOwned, OpenedOnce

LEMMA SecretInvariance == Spec => []SInv
<1>1. Init => SInv
  <2> SUFFICES ASSUME Init PROVE SInv
    OBVIOUS
  <2>1. AllHeld /\ Forgotten /\ PairsOwned
    BY DEF Init, AllHeld, Forgotten, PairsOwned
  <2>2. Numbered /\ OpenedOnce
    BY DEF Init, Numbered, OpenedOnce
  <2> QED BY <2>1, <2>2, InitSound DEF SInv
<1>2. SInv /\ [Next]_vars => SInv'
  <2> SUFFICES ASSUME SInv, [Next]_vars PROVE SInv'
    OBVIOUS
  <2>1. IInv'
    BY NextKeeps DEF SInv
  <2>2. ASSUME NEW p \in Peer, Send(p) PROVE SInv'
    BY <2>2, SendSecret
  <2>3. ASSUME NEW p \in Peer, Reload(p) PROVE SInv'
    BY <2>3, ReloadSecret
  <2>4. ASSUME NEW p \in Peer, RegisterBundle(p) PROVE SInv'
    BY <2>1, <2>4, OthersSecret DEF RegisterBundle
  <2>5. ASSUME NEW p \in Peer, SendBegin(p) PROVE SInv'
    BY <2>1, <2>5, OthersSecret DEF SendBegin
  <2>6. ASSUME NEW p \in Peer, SendEnd(p) PROVE SInv'
    BY <2>6, SendEndSecret
  <2>7. ASSUME NEW m \in sent, Receive(m) PROVE SInv'
    BY <2>7, ReceiveSecret
  <2>8. CASE UNCHANGED vars
    BY <2>1, <2>8, OthersSecret DEF vars
  <2> QED BY <2>2, <2>3, <2>4, <2>5, <2>6, <2>7, <2>8 DEF Next
<1> QED BY <1>1, <1>2, PTL DEF Spec

-----------------------------------------------------------------------------
(* What is passed over, and in which order the keys of a chain are read.   *)

Odd(root) == \E i \in Nat : Len(root) = 2 * i + 1

\* A message is encrypted with the step that its number says; the first chain
\* of a session that began with a bundle is that of the pair it comes with.
Stepwise(m) ==
  /\ m.key.step = m.n /\ Odd(m.key.seed)
  /\ Len(m.key.seed) = 1 => m.key.seed \in StaticRoots \cup {<<{m.pub}>>}

OneHeader == \A m, o \in sent : m.pub = o.pub /\ m.n = o.n => m = o

\* The sending half of a session.
Sending(s, messages) ==
  /\ Odd(s.root)
  /\ s.cks # None => /\ s.cks.step = s.ns /\ s.cks.seed = s.root
                     /\ Len(s.root) = 1 => s.root \in StaticRoots \cup {<<{s.dh}>>}
  /\ \A m \in messages : m.pub = s.dh => m.n < s.ns

\* The receiving half: a DH step derives a chain that no peer sends with, so
\* that only the chain a responder starts with may be its sender's.
Receiving(p, s) ==
  /\ \A k \in s.skipped : k.key.step = k.n
  /\ s.ckr # None =>
       /\ s.ckr.step = s.nr
       /\ Odd(s.ckr.seed) =>
            /\ s.ckr.seed \in {<<{s.remote}>>, <<{s.remote, <<p, 0>>}>>} /\ s.remote[2] > 0
            /\ \A k \in s.skipped : k.pub = s.remote /\ k.key.seed = s.ckr.seed

\* What p has passed over of the chain it reads is put aside, as long as no
\* message has been delivered to it twice.
PutAside(p, s, messages, times) ==
  (\A m \in messages : m.from # p => times[m.id] < 2) /\ s.ckr # None =>
    /\ s.nr > 0 => \E o \in messages : o.pub = s.remote /\ o.n + 1 = s.nr
    /\ \A m \in messages : m.from # p /\ m.pub = s.remote /\ m.n < s.nr /\ times[m.id] = 0 =>
         StoredKeys(s, m) # {}

Streams ==
  /\ \A m \in sent : Stepwise(m)
  /\ OneHeader
  /\ \A p \in Peer : session[p] # None =>
       /\ Sending(session[p], sent)
       /\ Receiving(p, session[p])
       /\ PutAside(p, session[p], sent, handled)

StreamInv == SInv /\ Streams

LEMMA OneLonger ==
  ASSUME NEW root \in Seq(SUBSET Pub), NEW dh \in SUBSET Pub
  PROVE  Len(KdfRoot(root, dh)) = Len(root) + 1 /\ Len(root) \in Nat
  BY DEF KdfRoot

LEMMA DhStepStreams ==
  ASSUME NEW s, Sound(s), Odd(s.root), NEW remote \in Pub, NEW fresh \in Pub,
         NEW t, t = DhStep(s, remote, fresh)
  PROVE  /\ t.nr = 0 /\ t.ns = 0 /\ t.remote = remote /\ t.dh = fresh
         /\ t.skipped = s.skipped
         /\ Odd(t.root) /\ Len(t.root) # 1 /\ t.cks.step = 0 /\ t.cks.seed = t.root
         /\ t.ckr # None /\ t.ckr.step = 0 /\ ~Odd(t.ckr.seed)
<1> DEFINE dh1 == {remote, s.dh}
           dh2 == {remote, fresh}
           root1 == KdfRoot(s.root, dh1)
           root2 == KdfRoot(root1, dh2)
           chain1 == NewChain(root1)
           chain2 == NewChain(root2)
<1>1. s \in Session /\ s.root \in Seq(SUBSET Pub) /\ s.root # <<>> /\ dh1 \in SUBSET Pub /\ dh2 \in SUBSET Pub
  BY DEF Sound, Session, Root
<1>2. t = [s EXCEPT !.pn = s.ns, !.ns = 0, !.nr = 0, !.remote = remote, !.dh = fresh,
               !.root = root2, !.ckr = chain1, !.cks = chain2]
  BY DEF DhStep
<1> HIDE DEF dh1, dh2
<1>3. root1 \in Seq(SUBSET Pub) /\ chain1 \in Chain /\ Len(root1) = Len(s.root) + 1 /\ Len(s.root) \in Nat
  BY <1>1, FreshChain, OneLonger DEF Root
<1>4. chain1.seed = root1 /\ chain1.step = 0 /\ chain2.seed = root2 /\ chain2.step = 0
  BY DEF NewChain
<1> HIDE DEF root1
<1>5. Len(root2) = Len(root1) + 1
  BY <1>1, <1>3, OneLonger
<1> HIDE DEF root2, chain1, chain2
<1>6. /\ t.nr = 0 /\ t.ns = 0 /\ t.remote = remote /\ t.dh = fresh /\ t.skipped = s.skipped
      /\ t.root = root2 /\ t.cks = chain2 /\ t.ckr = chain1
  BY <1>1, <1>2 DEF Session
<1>7. ~Odd(root1) /\ Odd(root2) /\ Len(root2) # 1
  <2>1. PICK i \in Nat : Len(s.root) = 2 * i + 1
    BY DEF Odd
  <2>2. Len(root1) = 2 * i + 2 /\ Len(root2) = 2 * (i + 1) + 1
    BY <1>3, <1>5, <2>1
  <2>3. ~Odd(root1)
    BY <2>2 DEF Odd
  <2>4. Odd(root2)
    BY <2>2 DEF Odd
  <2> QED BY <2>2, <2>3, <2>4
<1>8. chain1 # None
  BY <1>3, ChainIsNotNone
<1> QED BY <1>4, <1>6, <1>7, <1>8

LEMMA SkipToStreams ==
  ASSUME NEW p, NEW s, Sound(s), Receiving(p, s), NEW until \in Nat,
         NEW t, t = SkipTo(s, until)
  PROVE  /\ Receiving(p, t)
         /\ t.remote = s.remote /\ t.dh = s.dh /\ t.root = s.root /\ t.cks = s.cks /\ t.ns = s.ns
         /\ (t.ckr = None) <=> (s.ckr = None)
         /\ s.ckr # None => t.ckr.seed = s.ckr.seed /\ t.nr = IF s.nr >= until THEN s.nr ELSE until
         /\ \A m : StoredKeys(s, m) # {} => StoredKeys(t, m) # {}
         /\ s.ckr # None => \A m : m.pub = s.remote /\ m.n \in s.nr .. until - 1 => StoredKeys(t, m) # {}
<1>1. /\ s \in Session /\ s.nr \in Nat /\ s.ckr \in Chain \cup {None} /\ s.skipped \in SUBSET Skipped
  BY DEF Sound, Session
<1>2. CASE s.ckr = None \/ s.nr >= until
  <2>1. t = s
    BY <1>2 DEF SkipTo
  <2> QED BY <1>1, <1>2, <2>1
<1>3. CASE ~(s.ckr = None \/ s.nr >= until)
  <2> DEFINE Key(i) == [s.ckr EXCEPT !.step = @ + i - s.nr]
             missed == {[pub |-> s.remote, n |-> i, key |-> Key(i)] : i \in s.nr .. until - 1}
             kept == {k \in s.skipped : \A l \in missed : <<k.pub, k.n>> # <<l.pub, l.n>>}
             rest == [s.ckr EXCEPT !.step = @ + until - s.nr]
             all == kept \cup missed
  <2>1. s.ckr \in Chain /\ s.ckr # None /\ s.nr < until /\ s.ckr.step = s.nr
    BY <1>1, <1>3 DEF Receiving
  <2>2. t = [s EXCEPT !.nr = until, !.ckr = rest, !.skipped = all]
    BY <1>3 DEF SkipTo
  <2>3. rest \in Chain /\ rest.seed = s.ckr.seed /\ rest.step = until
    BY <1>1, <2>1 DEF Chain
  <2>4. \A i \in s.nr .. until - 1 : Key(i).seed = s.ckr.seed /\ Key(i).step = i
    BY <1>1, <2>1 DEF Chain
  <2> HIDE DEF Key
  <2>5. /\ \A k \in missed : k.pub = s.remote /\ k.key.seed = s.ckr.seed /\ k.key.step = k.n
        /\ \A i \in s.nr .. until - 1 : \E k \in missed : k.pub = s.remote /\ k.n = i
    <3>1. ASSUME NEW k \in missed
          PROVE  k.pub = s.remote /\ k.key.seed = s.ckr.seed /\ k.key.step = k.n
      <4>1. PICK i \in s.nr .. until - 1 : k = [pub |-> s.remote, n |-> i, key |-> Key(i)]
        OBVIOUS
      <4>2. k.pub = s.remote /\ k.n = i /\ k.key = Key(i)
        BY <4>1
      <4> QED BY <2>4, <4>2
    <3>2. ASSUME NEW i \in s.nr .. until - 1
          PROVE  \E k \in missed : k.pub = s.remote /\ k.n = i
      <4> WITNESS [pub |-> s.remote, n |-> i, key |-> Key(i)] \in missed
      <4> QED OBVIOUS
    <3> QED BY <3>1, <3>2
  <2> HIDE DEF missed
  <2>6. \A k \in s.skipped : k \in all \/ \E l \in all : l.pub = k.pub /\ l.n = k.n
    OBVIOUS
  <2>7. \A k \in all : k \in s.skipped \/ k \in missed
    OBVIOUS
  <2>8. missed \subseteq all
    OBVIOUS
  <2> HIDE DEF kept, all, rest
  <2>9. /\ t.remote = s.remote /\ t.dh = s.dh /\ t.root = s.root /\ t.cks = s.cks /\ t.ns = s.ns
        /\ t.nr = until /\ t.ckr = rest /\ t.skipped = all
    BY <1>1, <2>2 DEF Session
  <2>10. t.ckr # None /\ s.ckr # None
    BY <2>1, <2>3, <2>9, ChainIsNotNone
  <2>11. Receiving(p, t)
    BY <2>1, <2>3, <2>5, <2>7, <2>9 DEF Receiving
  <2>12. \A m : StoredKeys(s, m) # {} => StoredKeys(t, m) # {}
    BY <2>6, <2>9 DEF StoredKeys
  <2>13. \A m : m.pub = s.remote /\ m.n \in s.nr .. until - 1 => StoredKeys(t, m) # {}
    BY <2>5, <2>8, <2>9 DEF StoredKeys
  <2>14. t.ckr.seed = s.ckr.seed /\ t.nr = IF s.nr >= until THEN s.nr ELSE until
    BY <1>3, <2>3, <2>9, <2>10
  <2> QED BY <2>9, <2>10, <2>11, <2>12, <2>13, <2>14
<1> QED BY <1>2, <1>3

\* The message is not behind what the session has read of its chain.
NotBehind(s, m) == NewPair(s, m) \/ m.n >= s.nr

LEMMA CaughtUpStreams ==
  ASSUME NEW p, NEW s, Sound(s), Receiving(p, s), Odd(s.root),
         NEW m \in Message, NEW fresh \in Pub,
         NEW t, t = CaughtUp(s, m, fresh)
  PROVE  /\ Receiving(p, t) /\ t.ckr # None
         /\ \/ t.dh = s.dh /\ t.root = s.root /\ t.cks = s.cks /\ t.ns = s.ns
            \/ /\ t.dh = fresh /\ Odd(t.root) /\ Len(t.root) # 1
               /\ t.cks.seed = t.root /\ t.cks.step = 0 /\ t.ns = 0
         /\ t.remote = m.pub
         /\ ~NewPair(s, m) => t.ckr.seed = s.ckr.seed
         /\ NotBehind(s, m) =>
              /\ t.nr = m.n
              /\ \A o \in Message : StoredKeys(s, o) # {} => StoredKeys(t, o) # {}
              /\ \A o \in Message : o.pub = m.pub /\ o.n < m.n =>
                   \/ StoredKeys(t, o) # {}
                   \/ ~NewPair(s, m) /\ o.n < s.nr
<1>1. m.pub \in Pub /\ m.n \in Nat /\ m.pn \in Nat /\ s.nr \in Nat /\ \A o \in Message : o.n \in Nat
  BY DEF Message, Sound, Session
<1> DEFINE remote == m.pub
           n == m.n
           pn == m.pn
<1>2. CASE NewPair(s, m)
  <2> DEFINE before == SkipTo(s, pn)
             after  == DhStep(before, remote, fresh)
  <2>1. t = SkipTo(after, n)
    BY <1>2 DEF CaughtUp
  <2> HIDE DEF remote, n, pn, after
  <2>2. Sound(before)
    BY <1>1, SkipToSound DEF pn
  <2>3. Receiving(p, before) /\ before.root = s.root /\ \A o : StoredKeys(s, o) # {} => StoredKeys(before, o) # {}
    BY <1>1, SkipToStreams DEF pn
  <2> HIDE DEF before
  <2>4. /\ after.nr = 0 /\ after.ns = 0 /\ after.remote = remote /\ after.dh = fresh
        /\ after.skipped = before.skipped /\ Sound(after)
        /\ Odd(after.root) /\ Len(after.root) # 1 /\ after.cks.step = 0 /\ after.cks.seed = after.root
        /\ after.ckr # None /\ after.ckr.step = 0 /\ ~Odd(after.ckr.seed)
    BY <1>1, <2>2, <2>3, DhStepStreams, DhStepSound DEF after, remote
  <2>5. Receiving(p, after)
    BY <2>3, <2>4 DEF Receiving
  <2>6. /\ Receiving(p, t)
        /\ t.remote = after.remote /\ t.dh = after.dh /\ t.root = after.root /\ t.cks = after.cks /\ t.ns = after.ns
        /\ t.ckr # None
        /\ t.nr = IF after.nr >= n THEN after.nr ELSE n
        /\ \A o : StoredKeys(after, o) # {} => StoredKeys(t, o) # {}
        /\ \A o : o.pub = after.remote /\ o.n \in after.nr .. n - 1 => StoredKeys(t, o) # {}
    BY <1>1, <2>1, <2>4, <2>5, SkipToStreams DEF n
  <2>7. \A o : StoredKeys(s, o) # {} => StoredKeys(t, o) # {}
    BY <2>3, <2>4, <2>6 DEF StoredKeys
  <2>8. t.nr = n
    BY <1>1, <2>4, <2>6 DEF n
  <2>9. \A o \in Message : o.pub = remote /\ o.n < n => StoredKeys(t, o) # {}
    BY <1>1, <2>4, <2>6 DEF n
  <2> QED BY <1>2, <2>4, <2>6, <2>7, <2>8, <2>9 DEF remote, n
<1>3. CASE ~NewPair(s, m)
  <2>1. t = SkipTo(s, n) /\ s.ckr # None /\ s.remote = remote
    BY <1>3 DEF CaughtUp, NewPair
  <2> HIDE DEF remote, n
  <2>2. /\ Receiving(p, t)
        /\ t.remote = s.remote /\ t.dh = s.dh /\ t.root = s.root /\ t.cks = s.cks /\ t.ns = s.ns
        /\ t.ckr # None /\ t.ckr.seed = s.ckr.seed
        /\ t.nr = IF s.nr >= n THEN s.nr ELSE n
        /\ \A o : StoredKeys(s, o) # {} => StoredKeys(t, o) # {}
        /\ \A o : o.pub = s.remote /\ o.n \in s.nr .. n - 1 => StoredKeys(t, o) # {}
    BY <1>1, <2>1, SkipToStreams DEF n
  <2>3. NotBehind(s, m) => n >= s.nr
    BY <1>3 DEF NotBehind, n
  <2>4. NotBehind(s, m) => t.nr = n
    BY <1>1, <2>2, <2>3 DEF n
  <2>5. \A o \in Message : o.pub = remote /\ o.n < n => StoredKeys(t, o) # {} \/ o.n < s.nr
    BY <1>1, <2>1, <2>2 DEF n
  <2> QED BY <1>3, <2>1, <2>2, <2>4, <2>5 DEF remote, n
<1> QED BY <1>2, <1>3

\* The session after a delivery.
LEMMA AfterReceiveStreams ==
  ASSUME NEW p \in Peer, NEW s, Sound(s), Receiving(p, s),
         OneHeader, sent \in SUBSET Message, NEW m \in sent, m.from # p,
         Sending(s, sent), PutAside(p, s, sent, handled),
         NEW fresh \in Pub, \A o \in sent : o.pub # fresh,
         NEW later, \A o \in sent : handled[o.id] \in Nat,
         later[m.id] = handled[m.id] + 1,
         \A o \in sent : o.id # m.id => later[o.id] = handled[o.id],
         NEW t, t = AfterReceive(s, m, fresh)
  PROVE  Sending(t, sent) /\ Receiving(p, t) /\ PutAside(p, t, sent, later)
<1>1. /\ s \in Session /\ m \in Message /\ s.nr \in Nat /\ m.n \in Nat
      /\ \A o \in sent : o \in Message /\ o.n \in Nat
  BY DEF Sound, Session, Message
<1>2. Odd(s.root)
  BY DEF Sending
<1>3. ASSUME \A o \in sent : o.from # p => later[o.id] < 2
      PROVE  handled[m.id] = 0 /\ \A o \in sent : o.from # p => handled[o.id] < 2
  BY <1>3
<1>4. \A o \in sent : later[o.id] = 0 => handled[o.id] = 0 /\ o # m
  OBVIOUS
<1>5. CASE StoredKeys(s, m) # {}
  <2> DEFINE stored == StoredKeys(s, m)
  <2>1. t = [s EXCEPT !.skipped = s.skipped \ stored]
    BY <1>5 DEF AfterReceive
  <2> HIDE DEF stored
  <2>2. /\ t.skipped = s.skipped \ stored /\ t.ckr = s.ckr /\ t.remote = s.remote /\ t.nr = s.nr
        /\ t.dh = s.dh /\ t.root = s.root /\ t.cks = s.cks /\ t.ns = s.ns
    BY <1>1, <2>1 DEF Session
  <2>3. Sending(t, sent)
    BY <2>2 DEF Sending
  <2>4. Receiving(p, t)
    BY <2>2 DEF Receiving
  <2>5. ASSUME NEW o \in sent, o # m PROVE StoredKeys(s, o) # {} => StoredKeys(t, o) # {}
    <3>1. ~(o.pub = m.pub /\ o.n = m.n)
      BY <2>5 DEF OneHeader
    <3>2. \A k \in StoredKeys(s, o) : k \in StoredKeys(t, o)
      BY <2>2, <3>1 DEF StoredKeys, stored
    <3> QED BY <3>2
  <2>6. PutAside(p, t, sent, later)
    <3> SUFFICES ASSUME \A o \in sent : o.from # p => later[o.id] < 2, t.ckr # None
                 PROVE  /\ t.nr > 0 => \E o \in sent : o.pub = t.remote /\ o.n + 1 = t.nr
                        /\ \A o \in sent : o.from # p /\ o.pub = t.remote /\ o.n < t.nr /\ later[o.id] = 0 =>
                             StoredKeys(t, o) # {}
      BY DEF PutAside
    <3>1. /\ s.nr > 0 => \E o \in sent : o.pub = s.remote /\ o.n + 1 = s.nr
          /\ \A o \in sent : o.from # p /\ o.pub = s.remote /\ o.n < s.nr /\ handled[o.id] = 0 =>
               StoredKeys(s, o) # {}
      BY <1>3, <2>2 DEF PutAside
    <3> QED BY <1>4, <2>2, <2>5, <3>1
  <2> QED BY <2>3, <2>4, <2>6
<1>6. CASE StoredKeys(s, m) = {}
  <2> DEFINE u == CaughtUp(s, m, fresh)
             chain == NextKey(u.ckr)
             nr == u.nr + 1
  <2>1. t = [u EXCEPT !.ckr = chain, !.nr = nr]
    BY <1>6 DEF AfterReceive
  <2>2. Sound(u) /\ u.ckr \in Chain
    BY <1>1, CaughtUpSound
  <2>3. /\ Receiving(p, u) /\ u.ckr # None
        /\ \/ u.dh = s.dh /\ u.root = s.root /\ u.cks = s.cks /\ u.ns = s.ns
           \/ /\ u.dh = fresh /\ Odd(u.root) /\ Len(u.root) # 1
              /\ u.cks.seed = u.root /\ u.cks.step = 0 /\ u.ns = 0
        /\ u.remote = m.pub
        /\ NotBehind(s, m) =>
              /\ u.nr = m.n
              /\ \A o \in Message : StoredKeys(s, o) # {} => StoredKeys(u, o) # {}
              /\ \A o \in Message : o.pub = m.pub /\ o.n < m.n =>
                   \/ StoredKeys(u, o) # {}
                   \/ ~NewPair(s, m) /\ o.n < s.nr
    <3> HIDE DEF u
    <3> QED BY <1>1, <1>2, CaughtUpStreams DEF u
  <2> HIDE DEF u
  <2>4. u \in Session /\ u.nr \in Nat
    BY <2>2 DEF Sound, Session
  <2>5. chain.seed = u.ckr.seed /\ chain.step = nr /\ chain \in Chain
    BY <2>2, <2>3 DEF NextKey, Chain, Receiving
  <2> HIDE DEF chain, nr
  <2>6. /\ t.skipped = u.skipped /\ t.ckr = chain /\ t.remote = u.remote /\ t.nr = nr
        /\ t.dh = u.dh /\ t.root = u.root /\ t.cks = u.cks /\ t.ns = u.ns
    BY <2>1, <2>4 DEF Session
  <2>7. Sending(t, sent)
    <3>1. CASE u.dh = s.dh /\ u.root = s.root /\ u.cks = s.cks /\ u.ns = s.ns
      BY <2>6, <3>1 DEF Sending
    <3>2. CASE /\ u.dh = fresh /\ Odd(u.root) /\ Len(u.root) # 1
               /\ u.cks.seed = u.root /\ u.cks.step = 0 /\ u.ns = 0
      <4> QED BY <2>6, <3>2 DEF Sending
    <3> QED BY <2>3, <3>1, <3>2
  <2>8. Receiving(p, t)
    BY <2>3, <2>5, <2>6 DEF Receiving
  <2>9. PutAside(p, t, sent, later)
    <3> SUFFICES ASSUME \A o \in sent : o.from # p => later[o.id] < 2
                 PROVE  /\ \E o \in sent : o.pub = t.remote /\ o.n + 1 = t.nr
                        /\ \A o \in sent : o.pub = t.remote /\ o.n < t.nr /\ later[o.id] = 0 /\ o.from # p =>
                             StoredKeys(t, o) # {}
      BY DEF PutAside
    <3>1. NotBehind(s, m)
      BY <1>1, <1>3, <1>6 DEF PutAside, NotBehind, NewPair
    <3>2. t.nr = m.n + 1 /\ t.remote = m.pub
      BY <2>3, <2>6, <3>1 DEF nr
    <3>3. ASSUME NEW o \in sent, o.pub = t.remote, o.n < t.nr, later[o.id] = 0, o.from # p
          PROVE  StoredKeys(t, o) # {}
      <4>1. handled[o.id] = 0 /\ o # m
        BY <1>4, <3>3
      <4>2. o.n # m.n
        BY <3>2, <3>3, <4>1 DEF OneHeader
      <4>3. o.n < m.n
        BY <1>1, <3>2, <3>3, <4>2
      <4>4. StoredKeys(u, o) # {}
        <5>1. ASSUME ~NewPair(s, m), o.n < s.nr PROVE StoredKeys(s, o) # {}
          <6>1. s.ckr # None /\ s.remote = m.pub
            BY <5>1 DEF NewPair
          <6>2. \A x \in sent : x.from # p => handled[x.id] < 2
            BY <1>3
          <6> QED BY <3>2, <3>3, <4>1, <5>1, <6>1, <6>2 DEF PutAside
        <5> QED BY <1>1, <2>3, <3>1, <3>2, <3>3, <4>3, <5>1
      <4> QED BY <2>6, <4>4 DEF StoredKeys
    <3> QED BY <3>2, <3>3
  <2> QED BY <2>7, <2>8, <2>9
<1> QED BY <1>5, <1>6

\* Deliveries are forgotten or counted for another peer's session.
LEMMA PutAsideStays ==
  ASSUME NEW p, NEW s, NEW later, PutAside(p, s, sent, handled),
         \A o \in sent : o.from # p => later[o.id] = handled[o.id]
  PROVE  PutAside(p, s, sent, later)
  BY DEF PutAside

LEMMA EncryptStreams ==
  ASSUME StreamInv, SInv', NEW p \in Peer, NEW s, Sound(s), Encrypt(p, s),
         Held(p, s, keys, sent, opened),
         Sending(s, sent), Receiving(p, s), PutAside(p, s, sent, handled),
         UNCHANGED handled
  PROVE  Streams'
<1> DEFINE fresh == Fresh(p)
           t == ReadyToSend(s, fresh)
           m == Encrypted(p, t)
           u == AfterSend(t)
           remote == s.remote
<1>1. /\ keys \in [Peer -> Nat] /\ sent \in SUBSET Message /\ KnownPairs
      /\ session \in [Peer -> Session \cup {None}] /\ AllHeld
      /\ \A q \in Peer : session[q] # None => Sound(session[q])
      /\ \A o \in sent : Stepwise(o) 
      /\ OneHeader
      /\ \A q \in Peer : session[q] # None =>
           /\ Sending(session[q], sent)
           /\ Receiving(q, session[q])
           /\ PutAside(q, session[q], sent, handled)
  BY DEF StreamInv, Streams, SInv, IInv, Typed
<1>2. /\ session' = [session EXCEPT ![p] = u]
      /\ sent' = sent \cup {m} /\ sent' \in SUBSET Message
  BY DEF Encrypt, SInv, IInv, Typed
<1>3. fresh \in Pub /\ fresh[1] = p /\ \A o \in sent : o.pub # fresh
  BY <1>1 DEF Fresh, Pub, KnownPairs, Known
<1>4. remote \in Pub /\ s \in Session /\ s.cks \in Chain \cup {None} /\ s.dh[1] = p
  BY DEF Sound, Session, Held
<1>5. /\ Sound(t) /\ t.cks \in Chain /\ t.cks.step = t.ns /\ t.cks.seed = t.root /\ t.dh[1] = p
      /\ Sending(t, sent) /\ Receiving(p, t) /\ PutAside(p, t, sent, handled)
  <2>1. CASE s.cks = None
    <3>1. t = DhStep(s, remote, fresh)
      BY <2>1 DEF ReadyToSend
    <3> HIDE DEF t, fresh, remote
    <3>2. Sound(t) /\ t.cks \in Chain
      BY <1>3, <1>4, <3>1, DhStepSound DEF Starts
    <3>3. /\ t.nr = 0 /\ t.ns = 0 /\ t.dh = fresh /\ t.skipped = s.skipped
          /\ Odd(t.root) /\ Len(t.root) # 1 /\ t.cks.step = 0 /\ t.cks.seed = t.root
          /\ t.ckr # None /\ t.ckr.step = 0 /\ ~Odd(t.ckr.seed)
      BY <1>3, <1>4, <3>1, DhStepStreams DEF Sending
    <3>5. Sending(t, sent)
      BY <1>3, <3>3 DEF Sending
    <3>6. Receiving(p, t)
      BY <3>3 DEF Receiving
    <3>7. \A o \in sent : ~(o.n < 0)
      BY <1>1 DEF Message
    <3>8. PutAside(p, t, sent, handled)
      BY <3>3, <3>7 DEF PutAside
    <3> QED BY <1>3, <3>2, <3>3, <3>5, <3>6, <3>8
  <2>2. CASE s.cks # None
    <3>1. t = s
      BY <2>2 DEF ReadyToSend
    <3> QED BY <1>4, <2>2, <3>1 DEF Sending
  <2> QED BY <2>1, <2>2
<1> HIDE DEF t, fresh, remote
<1>6. /\ m.key = t.cks /\ m.from = p /\ m.pub = t.dh /\ m.n = t.ns
  BY DEF Encrypted
<1>7. /\ u.dh = t.dh /\ u.root = t.root /\ u.skipped = t.skipped /\ u.ckr = t.ckr
      /\ u.remote = t.remote /\ u.nr = t.nr /\ u.ns = t.ns + 1 /\ t.ns \in Nat
      /\ u.cks.seed = t.cks.seed /\ u.cks.step = t.cks.step + 1
  <2> DEFINE chain == NextKey(t.cks)
             n == t.ns + 1
  <2>1. u = [t EXCEPT !.cks = chain, !.ns = n]
    BY DEF AfterSend
  <2>2. chain.seed = t.cks.seed /\ chain.step = t.cks.step + 1
    BY <1>5 DEF NextKey, Chain
  <2>3. t \in Session /\ t.ns \in Nat
    BY <1>5 DEF Sound, Session
  <2> HIDE DEF chain, n, u
  <2>4. /\ u.dh = t.dh /\ u.root = t.root /\ u.skipped = t.skipped /\ u.ckr = t.ckr
        /\ u.remote = t.remote /\ u.nr = t.nr /\ u.ns = n /\ u.cks = chain
    BY <2>1, <2>3 DEF Session
  <2> QED BY <2>2, <2>3, <2>4 DEF n
<1>8. Stepwise(m)
  <2>1. t.cks # None
    BY <1>5, ChainIsNotNone
  <2>2. /\ Odd(t.root)
        /\ Len(t.root) = 1 => t.root \in StaticRoots \cup {<<{t.dh}>>}
    BY <1>5, <2>1 DEF Sending
  <2> HIDE DEF m
  <2> QED BY <1>5, <1>6, <2>2 DEF Stepwise
<1> HIDE DEF u, m
<1>9. \A o \in sent : o.pub = t.dh => o.n < t.ns /\ o.n \in Nat
  BY <1>1, <1>5 DEF Sending, Message
<1>10. OneHeader'
  <2>1. \A o \in sent : ~(o.pub = m.pub /\ o.n = m.n)
    BY <1>6, <1>7, <1>9
  <2> QED BY <1>1, <1>2, <2>1 DEF OneHeader
<1>11. Sending(u, sent')
  <2>1. t.cks # None
    BY <1>5, ChainIsNotNone
  <2>2. \A o \in sent' : o.pub = u.dh => o.n < u.ns
    BY <1>2, <1>6, <1>7, <1>9
  <2> QED BY <1>5, <1>7, <2>1, <2>2 DEF Sending
<1>12. Receiving(p, u)
  BY <1>5, <1>7 DEF Receiving
<1>13. PutAside(p, u, sent', handled')
  <2>1. \A o \in sent' : o.from # p => o \in sent
    BY <1>2, <1>6
  <2>2. \A o : StoredKeys(u, o) = StoredKeys(t, o)
    BY <1>7 DEF StoredKeys
  <2> QED BY <1>2, <1>5, <1>7, <2>1, <2>2 DEF PutAside
<1>14. ASSUME NEW q \in Peer, q # p, session[q] # None
       PROVE  /\ Sending(session[q], sent')
              /\ Receiving(q, session[q])
              /\ PutAside(q, session[q], sent', handled')
  <2> DEFINE v == session[q]
  <2>1. /\ Sending(v, sent) /\ Receiving(q, v) /\ PutAside(q, v, sent, handled)
        /\ v.dh[1] = q /\ Sound(v)
    BY <1>1, <1>14 DEF AllHeld, Held
  <2> HIDE DEF v
  <2>2. v.nr \in Nat
    BY <2>1 DEF Sound, Session
  <2>3. Sending(v, sent')
    <3>1. m.pub # v.dh
      BY <1>5, <1>6, <1>14, <2>1
    <3> QED BY <1>2, <2>1, <3>1 DEF Sending
  <2>4. PutAside(q, v, sent', handled')
    <3> SUFFICES ASSUME \A o \in sent' : o.from # q => handled[o.id] < 2, v.ckr # None
                 PROVE  /\ v.nr > 0 => \E o \in sent' : o.pub = v.remote /\ o.n + 1 = v.nr
                        /\ \A o \in sent' : o.from # q /\ o.pub = v.remote /\ o.n < v.nr /\ handled[o.id] = 0 =>
                             StoredKeys(v, o) # {}
      BY DEF PutAside
    <3>1. /\ v.nr > 0 => \E o \in sent : o.pub = v.remote /\ o.n + 1 = v.nr
          /\ \A o \in sent : o.from # q /\ o.pub = v.remote /\ o.n < v.nr /\ handled[o.id] = 0 =>
               StoredKeys(v, o) # {}
      BY <1>2, <2>1 DEF PutAside
    <3>2. ~(m.pub = v.remote /\ m.n < v.nr)
      <4> SUFFICES ASSUME m.pub = v.remote, m.n < v.nr PROVE FALSE
        OBVIOUS
      <4>1. v.nr > 0
        BY <1>6, <1>7, <2>2
      <4>2. PICK o \in sent : o.pub = v.remote /\ o.n + 1 = v.nr
        BY <3>1, <4>1
      <4>3. o.n < t.ns /\ o.n \in Nat
        BY <1>6, <1>9, <4>2
      <4> QED BY <1>6, <1>7, <2>2, <4>2, <4>3
    <3> QED BY <1>2, <3>1, <3>2
  <2> QED BY <2>1, <2>3, <2>4 DEF v
<1>15. session'[p] = u /\ \A q \in Peer : q # p => session'[q] = session[q]
  BY <1>1, <1>2
<1>16. \A o \in sent' : Stepwise(o)
  BY <1>1, <1>2, <1>8
<1>17. \A q \in Peer : session'[q] # None =>
         /\ Sending(session'[q], sent')
         /\ Receiving(q, session'[q])
         /\ PutAside(q, session'[q], sent', handled')
  BY <1>11, <1>12, <1>13, <1>14, <1>15
<1> QED BY <1>10, <1>16, <1>17 DEF Streams

LEMMA StartStreams ==
  ASSUME StreamInv, SInv', NEW p \in Peer, NEW root, root \in {<<{Fresh(p)}>>, StaticRoot(p)},
         Encrypt(p, Started(p, root, Fresh(p))), UNCHANGED handled
  PROVE  Streams'
<1> DEFINE s == Started(p, root, Fresh(p))
<1>1. /\ keys \in [Peer -> Nat] /\ KnownPairs /\ Encrypt(p, s)
  BY DEF StreamInv, SInv, IInv, Typed
<1>2. ~Known(keys, Fresh(p)) /\ Fresh(p)[1] = p /\ Fresh(p)[2] > 0
  BY <1>1 DEF Fresh, Known
<1> HIDE DEF s
<1>3. /\ Sound(s) /\ s.skipped = {} /\ s.ckr = None /\ s.cks # None
      /\ s.root = root /\ s.cks.seed = root /\ s.dh = Fresh(p)
      /\ s.ns = 0 /\ s.cks.step = 0
      /\ root \in StaticRoots \/ s.dh \in Newest(root)
  BY <1>1, StartedSession DEF s
<1>4. Held(p, s, keys, sent, opened)
  BY <1>1, <1>2, <1>3, HeldAtFirst
<1>5. \A o \in sent : o.pub # s.dh
  BY <1>1, <1>2, <1>3 DEF KnownPairs
<1>6. root \in StaticRoots \cup {<<{s.dh}>>} /\ Odd(root)
  <2>1. root \in StaticRoots \cup {<<{s.dh}>>}
    BY <1>3, Identity
  <2>2. Len(root) = 2 * 0 + 1
    BY DEF StaticRoot
  <2> QED BY <2>1, <2>2 DEF Odd
<1>7. Sending(s, sent) /\ Receiving(p, s) /\ PutAside(p, s, sent, handled)
  BY <1>3, <1>5, <1>6 DEF Sending, Receiving, PutAside
<1> QED BY <1>1, <1>3, <1>4, <1>7, EncryptStreams

LEMMA SendStreams ==
  ASSUME StreamInv, SInv', NEW p \in Peer, Send(p)
  PROVE  Streams'
<1>1. UNCHANGED handled
  BY DEF Send
<1>2. ASSUME session[p] # None, Encrypt(p, session[p]) PROVE Streams'
  <2>1. /\ Sound(session[p]) /\ Held(p, session[p], keys, sent, opened)
        /\ Sending(session[p], sent) /\ Receiving(p, session[p])
        /\ PutAside(p, session[p], sent, handled)
    BY <1>2 DEF StreamInv, Streams, SInv, IInv, Typed, AllHeld
  <2> QED BY <1>1, <1>2, <2>1, EncryptStreams
<1>3. ASSUME Encrypt(p, AsAlice(p, Fresh(p))) PROVE Streams'
  BY <1>1, <1>3, StartStreams DEF AsAlice
<1> QED BY <1>2, <1>3 DEF Send

LEMMA SendEndStreams ==
  ASSUME StreamInv, SInv', NEW p \in Peer, SendEnd(p)
  PROVE  Streams'
<1>1. Encrypt(p, Started(p, StaticRoot(p), Fresh(p))) /\ UNCHANGED handled
  BY DEF SendEnd
<1> QED BY <1>1, StartStreams

LEMMA ReceiveStreams ==
  ASSUME StreamInv, NEW m \in sent, Receive(m)
  PROVE  Streams'
<1> DEFINE p == Other(m.from)
           fresh == Fresh(p)
           next == <<p, keys[p] + 2>>
           s == IF session[p] = None THEN AsBob(p, m, fresh) ELSE session[p]
           t == AfterReceive(s, m, next)
           remote == m.pub
<1>1. /\ keys \in [Peer -> Nat] /\ sent \in SUBSET Message /\ m \in Message
      /\ session \in [Peer -> Session \cup {None}] /\ handled \in [Ids -> 0 .. 2]
      /\ \A q \in Peer : session[q] # None => Sound(session[q])
      /\ remote \in Pub /\ m.id \in Ids /\ p \in Peer /\ m.from # p
      /\ \A o \in sent : o.id \in Ids /\ o.from \in Peer /\ o.n \in Nat
      /\ KnownPairs /\ Numbered /\ PairsOwned /\ OneHeader
      /\ \A o \in sent : Stepwise(o)
      /\ \A q \in Peer : session[q] # None =>
           /\ Sending(session[q], sent)
           /\ Receiving(q, session[q])
           /\ PutAside(q, session[q], sent, handled)
  BY PeerAssumption DEF StreamInv, Streams, SInv, IInv, Typed, Message, Other, Peer
<1>2. /\ session' = [session EXCEPT ![p] = t]
      /\ handled' = [handled EXCEPT ![m.id] = @ + 1]
      /\ UNCHANGED sent
  BY DEF Receive
<1> HIDE DEF p
<1>3. /\ next \in Pub /\ fresh \in Pub
      /\ \A o \in sent : o.pub # next /\ o.pub # fresh
  BY <1>1 DEF Pub, Fresh, KnownPairs, Known
<1>4. Sound(s) /\ Sending(s, sent) /\ Receiving(p, s) /\ PutAside(p, s, sent, handled)
  <2>1. CASE session[p] = None
    <3> DEFINE set == IF SamePreKeys /\ m.n = 0 THEN {remote} ELSE {remote, <<p, 0>>}
               root == <<set>>
               chain == NewChain(root)
    <3>1. s = [dh |-> fresh, remote |-> remote, root |-> root, cks |-> None, ckr |-> chain,
               ns |-> 0, nr |-> 0, pn |-> 0, skipped |-> {}]
      BY <2>1 DEF AsBob
    <3>2. root \in Root /\ Len(root) = 2 * 0 + 1
      <4>1. set \in SUBSET Pub
        BY <1>1, Identity
      <4> HIDE DEF set
      <4> QED BY <4>1 DEF Root
    <3>3. root \in {<<{remote}>>, <<{remote, <<p, 0>>}>>}
      OBVIOUS
    <3>4. chain.step = 0 /\ chain.seed = root
      BY DEF NewChain
    <3> HIDE DEF s, fresh, next, root, remote
    <3>5. Sound(s) /\ chain \in Chain
      BY <1>1, <1>3, <3>1, <3>2, FirstSession
    <3> HIDE DEF chain
    <3>6. /\ s.skipped = {} /\ s.ckr = chain /\ s.root = root /\ s.cks = None /\ s.nr = 0
          /\ s.dh = fresh /\ s.remote = remote
      BY <3>1
    <3>7. remote[2] > 0
      BY <1>1 DEF PairsOwned, remote
    <3>8. Odd(root)
      BY <3>2 DEF Odd
    <3>9. Sending(s, sent)
      BY <1>3, <3>6, <3>8 DEF Sending
    <3>10. Receiving(p, s)
      BY <3>3, <3>4, <3>6, <3>7 DEF Receiving
    <3>11. PutAside(p, s, sent, handled)
      BY <1>1, <3>6 DEF PutAside
    <3> QED BY <3>5, <3>9, <3>10, <3>11
  <2>2. CASE session[p] # None
    BY <1>1, <2>2
  <2> QED BY <2>1, <2>2
<1> HIDE DEF s, fresh, next
<1>5. \A o \in sent : /\ handled[o.id] \in Nat
                      /\ o.id # m.id => handled'[o.id] = handled[o.id]
  BY <1>1, <1>2
<1>6. handled'[m.id] = handled[m.id] + 1
  BY <1>1, <1>2
<1>7. Sending(t, sent) /\ Receiving(p, t) /\ PutAside(p, t, sent, handled')
  <2> HIDE DEF t
  <2> QED BY <1>1, <1>3, <1>4, <1>5, <1>6, AfterReceiveStreams DEF t
<1> HIDE DEF t
<1>8. session'[p] = t /\ \A q \in Peer : q # p => session'[q] = session[q]
  BY <1>1, <1>2
<1>9. ASSUME NEW q \in Peer, q # p, session[q] # None
      PROVE  PutAside(q, session[q], sent, handled')
  <2>1. m.from = q
    BY <1>1, <1>9 DEF Peer
  <2>2. \A o \in sent : o.from # q => o.id # m.id
    BY <1>1, <2>1 DEF Numbered
  <2>3. \A o \in sent : o.from # q => handled'[o.id] = handled[o.id]
    BY <1>5, <2>2
  <2>4. PutAside(q, session[q], sent, handled)
    BY <1>1, <1>9
  <2> QED BY <2>3, <2>4, PutAsideStays
<1>10. \A q \in Peer : session'[q] # None =>
         /\ Sending(session'[q], sent)
         /\ Receiving(q, session'[q])
         /\ PutAside(q, session'[q], sent, handled')
  BY <1>1, <1>7, <1>8, <1>9
<1>11. OneHeader'
  BY <1>1, <1>2 DEF OneHeader
<1> QED BY <1>1, <1>2, <1>10, <1>11 DEF Streams

LEMMA ReloadStreams ==
  ASSUME StreamInv, NEW p \in Peer, Reload(p)
  PROVE  Streams'
<1> DEFINE received == {m.id : m \in Sent(Other(p))}
<1>1. /\ session' = [session EXCEPT ![p] = None]
      /\ handled' = [i \in Ids |-> IF i \in received THEN 0 ELSE handled[i]]
      /\ UNCHANGED <<keys, sent>>
  BY DEF Reload
<1>2. /\ session \in [Peer -> Session \cup {None}] /\ Numbered
      /\ \A o \in sent : o.id \in Ids /\ o.from \in Peer
      /\ \A o \in sent : Stepwise(o)
      /\ OneHeader
      /\ \A q \in Peer : session[q] # None =>
           /\ Sending(session[q], sent)
           /\ Receiving(q, session[q])
           /\ PutAside(q, session[q], sent, handled)
  BY DEF StreamInv, Streams, SInv, IInv, Typed, Message
<1>3. ASSUME NEW q \in Peer, session'[q] # None
      PROVE  PutAside(q, session'[q], sent, handled')
  <2>1. q # p /\ session'[q] = session[q]
    BY <1>1, <1>2, <1>3
  <2>2. \A o \in sent : o.from # q => o.from = p
    BY <1>2, <2>1 DEF Peer
  <2>3. Other(p) # p
    BY Identity
  <2>4. \A o \in sent : o.from # q => o.id \notin received
    BY <1>2, <2>2, <2>3 DEF Sent, Numbered
  <2>5. \A o \in sent : o.from # q => handled'[o.id] = handled[o.id]
    BY <1>1, <1>2, <2>4
  <2>6. PutAside(q, session[q], sent, handled)
    BY <1>2, <1>3, <2>1
  <2> QED BY <2>1, <2>5, <2>6, PutAsideStays
<1>4. \A q \in Peer : session'[q] # None => session'[q] = session[q]
  BY <1>1, <1>2
<1>5. OneHeader'
  BY <1>1, <1>2 DEF OneHeader
<1> QED BY <1>1, <1>2, <1>3, <1>4, <1>5 DEF Streams

LEMMA StreamInvariance == Spec => []StreamInv
<1>1. Init => Streams
  BY DEF Init, Streams, OneHeader
<1>2. SInv /\ SInv' /\ Streams /\ [Next]_vars => Streams'
  <2> SUFFICES ASSUME SInv, SInv', Streams, [Next]_vars PROVE Streams'
    OBVIOUS
  <2>1. StreamInv
    BY DEF StreamInv
  <2>2. UNCHANGED <<session, sent, handled>> => Streams'
    BY DEF Streams, OneHeader
  <2>3. ASSUME NEW p \in Peer, Send(p) PROVE Streams'
    BY <2>1, <2>3, SendStreams
  <2>4. ASSUME NEW p \in Peer, Reload(p) PROVE Streams'
    BY <2>1, <2>4, ReloadStreams
  <2>5. ASSUME NEW p \in Peer, RegisterBundle(p) \/ SendBegin(p) PROVE Streams'
    BY <2>2, <2>5 DEF RegisterBundle, SendBegin
  <2>6. ASSUME NEW p \in Peer, SendEnd(p) PROVE Streams'
    BY <2>1, <2>6, SendEndStreams
  <2>7. ASSUME NEW m \in sent, Receive(m) PROVE Streams'
    BY <2>1, <2>7, ReceiveStreams
  <2>8. CASE UNCHANGED vars
    BY <2>2, <2>8 DEF vars
  <2> QED BY <2>3, <2>4, <2>5, <2>6, <2>7, <2>8 DEF Next
<1>3. SInv /\ Streams <=> StreamInv
  BY DEF StreamInv
<1> QED BY <1>1, <1>2, <1>3, SecretInvariance, PTL DEF Spec

-----------------------------------------------------------------------------
(* Theorems.                                                               *)

\* However often and in whatever order messages arrive, none is decrypted twice
\* by a page that has not been reloaded.
THEOREM DecryptedOnce == Spec => []OpenedOnce
<1>1. SInv => OpenedOnce
  BY DEF SInv
<1> QED BY <1>1, SecretInvariance, PTL

\* The key of a message that was sent, and read, cannot be had again from the
\* state of either peer.
THEOREM ForwardSecrecy == Spec => []KeysForgotten
<1>1. SInv => KeysForgotten
  <2> SUFFICES ASSUME SInv, NEW m \in sent, m.key.seed \notin StaticRoots
               PROVE  /\ session[m.from] # None => ~Derivable(session[m.from], m.key)
                      /\ opened[m.id] > 0 /\ session[Other(m.from)] # None =>
                           ~Derivable(session[Other(m.from)], m.key)
    BY DEF KeysForgotten
  <2> DEFINE key == m.key
  <2>1. /\ m \in Message /\ m.from \in Peer /\ Other(m.from) \in Peer /\ Other(m.from) # m.from
        /\ key \in Chain /\ key.seed \in Seq(SUBSET Pub) /\ key.step \in Nat
    BY PeerAssumption DEF SInv, IInv, Typed, Message, Other, Peer, Chain, Root
  <2>2. ASSUME NEW s, Sound(s), ~CanRead(s, key),
               s.dh \in Newest(key.seed) => key.seed = s.root,
               s.cks # None /\ key.seed = s.cks.seed => key.step < s.cks.step
        PROVE  ~Derivable(s, key)
    <3>1. \A k \in s.skipped : k.key # key
      BY <2>2 DEF CanRead
    <3>2. ~(s.ckr # None /\ key.seed = s.ckr.seed /\ key.step >= s.ckr.step)
      BY <2>2 DEF CanRead
    <3>3. ~(s.cks # None /\ key.seed = s.cks.seed /\ key.step >= s.cks.step)
      <4>1. s.cks # None => s.cks.step \in Nat
        BY <2>2 DEF Sound, Session, Chain
      <4> QED BY <2>1, <2>2, <4>1
    <3>4. ~(Len(key.seed) = Len(s.root) + 1 /\ s.dh \in key.seed[Len(key.seed)])
      <4>1. Len(s.root) \in Nat
        BY <2>2 DEF Sound, Session, Root
      <4> QED BY <2>2, <4>1 DEF Newest
    <3> QED BY <3>1, <3>2, <3>3, <3>4 DEF Derivable
  <2>3. \A q \in Peer : session[q] # None =>
          Sound(session[q]) /\ Held(q, session[q], keys, sent, opened)
    BY DEF SInv, IInv, Typed, AllHeld
  <2>4. ASSUME session[m.from] # None PROVE ~Derivable(session[m.from], key)
    <3> DEFINE s == session[m.from]
    <3>1. /\ Sound(s) /\ ~IsRead(s, key.seed)
          /\ s.dh \in Newest(key.seed) => key.seed = s.root
      BY <2>1, <2>3, <2>4 DEF Held
    <3>2. s.cks # None /\ key.seed = s.cks.seed => key.step < s.cks.step
      BY <2>1, <2>4 DEF SInv, IInv, StepsAhead
    <3> HIDE DEF s
    <3>3. ~CanRead(s, key)
      BY <3>1 DEF IsRead, CanRead
    <3>4. ~Derivable(s, key)
      BY <2>2, <3>1, <3>2, <3>3
    <3> QED BY <3>4 DEF s
  <2>5. ASSUME opened[m.id] > 0, session[Other(m.from)] # None
        PROVE  ~Derivable(session[Other(m.from)], key)
    <3> DEFINE p == Other(m.from)
               s == session[p]
    <3>1. Sound(s) /\ Held(p, s, keys, sent, opened) /\ m.from # p
      BY <2>1, <2>3, <2>5
    <3> HIDE DEF p, s
    <3>2. /\ ~CanRead(s, key) /\ s.dh \notin Newest(key.seed)
          /\ ~(s.cks # None /\ key.seed = s.cks.seed)
      BY <2>5, <3>1 DEF Held
    <3>3. ~Derivable(s, key)
      BY <2>2, <3>1, <3>2
    <3> QED BY <3>3 DEF p, s
  <2> QED BY <2>4, <2>5
<1> QED BY <1>1, SecretInvariance, PTL

\* In whatever order and with whatever losses the messages of a chain come, one
\* that has not been delivered yet is read with the step of the chain that its
\* sender took, and opens if it is the same chain, as long as none has been
\* delivered twice since the receiver's page was loaded.
THEOREM StreamReadable == Spec => []StreamOpens
<1>1. StreamInv => StreamOpens
  <2> SUFFICES ASSUME StreamInv, NEW m \in sent, session[Other(m.from)] # None, handled[m.id] = 0,
                      \A o \in Sent(m.from) : handled[o.id] < 2
               PROVE  /\ ReadKey(session[Other(m.from)], m, Fresh(Other(m.from))).step = m.key.step
                      /\ session[Other(m.from)].ckr # None /\ session[Other(m.from)].ckr.seed = m.key.seed =>
                           Opens(session[Other(m.from)], m, Fresh(Other(m.from)))
    BY DEF StreamOpens
  <2> DEFINE p == Other(m.from)
             s == session[p]
             fresh == Fresh(p)
  <2>1. /\ m \in Message /\ m.from \in Peer /\ p \in Peer /\ p # m.from
        /\ keys \in [Peer -> Nat] /\ sent \in SUBSET Message
    BY PeerAssumption DEF StreamInv, SInv, IInv, Typed, Message, Other, Peer
  <2>2. Sound(s) /\ Sending(s, sent) /\ Receiving(p, s) /\ PutAside(p, s, sent, handled) /\ Stepwise(m)
    BY <2>1 DEF StreamInv, Streams, SInv, IInv, Typed
  <2>3. \A o \in sent : o.from # p => handled[o.id] < 2
    BY <2>1 DEF Sent, Peer, Message
  <2>4. fresh \in Pub
    BY <2>1 DEF Fresh, Pub
  <2> HIDE DEF p, s, fresh
  <2>5. m.key \in Chain /\ m.key.step = m.n /\ m.n \in Nat
    BY <2>1, <2>2 DEF Message, Stepwise
  <2>6. \A c \in Chain : c.seed = m.key.seed /\ c.step = m.n => c = m.key
    BY <2>5 DEF Chain
  <2>7. ASSUME s.ckr # None, s.ckr.seed = m.key.seed
        PROVE  /\ s.remote = m.pub
               /\ \A k \in s.skipped : k.key.seed = m.key.seed
    <3>1. /\ s.ckr.seed \in {<<{s.remote}>>, <<{s.remote, <<p, 0>>}>>} /\ s.remote[2] > 0
          /\ \A k \in s.skipped : k.key.seed = s.ckr.seed
      BY <2>2, <2>7 DEF Receiving, Stepwise
    <3>2. PICK set \in {{s.remote}, {s.remote, <<p, 0>>}} : m.key.seed = <<set>>
      BY <2>7, <3>1
    <3>3. m.key.seed \in StaticRoots \cup {<<{m.pub}>>}
      BY <2>2, <3>2 DEF Stepwise
    <3>4. m.key.seed \notin StaticRoots
      <4>1. ASSUME NEW q \in Peer PROVE m.key.seed # <<{<<q, 0>>}>>
        <5>1. s.remote \in set /\ s.remote # <<q, 0>>
          BY <3>1
        <5> QED BY <3>2, <5>1
      <4> QED BY <4>1 DEF StaticRoots, StaticRoot
    <3>5. set = {m.pub}
      BY <3>2, <3>3, <3>4
    <3> QED BY <2>7, <3>1, <3>5
  <2>8. CASE StoredKeys(s, m) # {}
    <3> DEFINE k == CHOOSE l \in StoredKeys(s, m) : TRUE
    <3>1. k \in StoredKeys(s, m)
      BY <2>8
    <3>2. ReadKey(s, m, fresh) = k.key
      BY <2>8 DEF ReadKey
    <3> HIDE DEF k
    <3>3. k \in s.skipped /\ k.n = m.n /\ k.key \in Chain
      BY <2>2, <3>1 DEF StoredKeys, Sound, Session, Skipped
    <3>4. k.key.step = m.n
      BY <2>2, <3>3 DEF Receiving
    <3>5. s.ckr # None /\ s.ckr.seed = m.key.seed => k.key = m.key
      BY <2>6, <2>7, <3>3, <3>4
    <3>6. /\ ReadKey(s, m, fresh).step = m.key.step
          /\ s.ckr # None /\ s.ckr.seed = m.key.seed => Opens(s, m, fresh)
      BY <2>5, <3>2, <3>4, <3>5 DEF Opens
    <3> QED BY <3>6 DEF p, s, fresh
  <2>9. CASE StoredKeys(s, m) = {}
    <3> DEFINE u == CaughtUp(s, m, fresh)
    <3>1. ReadKey(s, m, fresh) = u.ckr
      BY <2>9 DEF ReadKey
    <3>2. NotBehind(s, m)
      <4>1. s.nr \in Nat
        BY <2>2 DEF Sound, Session
      <4> QED BY <2>1, <2>2, <2>3, <2>5, <2>9, <4>1 DEF PutAside, NotBehind, NewPair, p
    <3>3. u.ckr \in Chain
      BY <2>1, <2>2, <2>4, CaughtUpSound
    <3> HIDE DEF u
    <3>4. /\ Receiving(p, u) /\ u.ckr # None /\ u.nr = m.n
          /\ ~NewPair(s, m) => u.ckr.seed = s.ckr.seed
      BY <2>1, <2>2, <2>4, <3>2, CaughtUpStreams DEF u, Sending
    <3>5. u.ckr.step = m.n
      BY <3>4 DEF Receiving
    <3>6. s.ckr # None /\ s.ckr.seed = m.key.seed => u.ckr = m.key
      BY <2>6, <2>7, <3>3, <3>4, <3>5 DEF NewPair
    <3>7. /\ ReadKey(s, m, fresh).step = m.key.step
          /\ s.ckr # None /\ s.ckr.seed = m.key.seed => Opens(s, m, fresh)
      BY <2>5, <3>1, <3>5, <3>6 DEF Opens
    <3> QED BY <3>7 DEF p, s, fresh
  <2> QED BY <2>8, <2>9
<1> QED BY <1>1, StreamInvariance, PTL
=============================================================================
