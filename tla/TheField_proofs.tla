--------------------------- MODULE TheField_proofs ---------------------------
(* Theorems about TheField, for every set of nodes, every quorum and any   *)
(* number of signals, crashes and errors.                                  *)
EXTENDS TheField, FiniteSetTheorems, TLAPS

-----------------------------------------------------------------------------
(* The operators.                                                          *)

LEMMA NeededPositive == \A s \in Id : Needed(s) \in Nat /\ Needed(s) >= 1
  BY QuorumAssumption DEF Needed, Id

\* A quorum stays one as nodes are added to it, and nobody is none.
LEMMA QuorumGrows ==
  ASSUME NEW s \in Id, NEW A, NEW B \in SUBSET Node, A \subseteq B, HasQuorum(s, A)
  PROVE  HasQuorum(s, B)
<1>1. IsFiniteSet(B)
  BY NodeAssumption, FS_Subset
<1>2. IsFiniteSet(A) /\ Cardinality(A) <= Cardinality(B)
  BY <1>1, FS_Subset
<1>3. Cardinality(A) \in Nat /\ Cardinality(B) \in Nat
  BY <1>1, <1>2, FS_CardinalityType
<1> QED BY <1>2, <1>3, NeededPositive DEF HasQuorum

LEMMA NobodyIsNoQuorum == \A s \in Id : ~HasQuorum(s, {})
  BY FS_EmptySet, NeededPositive DEF HasQuorum

LEMMA JoinedType ==
  ASSUME NEW s \in Id, NEW signal \in Signal, NEW S \in SUBSET Node
  PROVE  /\ Joined(s, signal, S) \in Signal
         /\ Joined(s, signal, S).resonators = signal.resonators \cup S
         /\ Joined(s, signal, S).fired <=> signal.fired \/ HasQuorum(s, signal.resonators \cup S)
<1>1. HasQuorum(s, signal.resonators \cup S) \in BOOLEAN
  BY DEF HasQuorum
<1> QED BY <1>1 DEF Joined, Signal

LEMMA UnknownType ==
  /\ Unknown \in Signal /\ Unknown.resonators = {} /\ Unknown.fired = FALSE
  /\ \A x \in Signal : x.resonators = {} /\ ~x.fired => x = Unknown
<1>1. \A x \in Signal : x.resonators = {} /\ ~x.fired => x = Unknown
  BY DEF Signal, Unknown
<1> QED BY <1>1 DEF Signal, Unknown

LEMMA AbsorbedType ==
  ASSUME TypeOK, NEW n \in Node, NEW s \in Id, NEW signal \in Signal
  PROVE  /\ Absorbed(n, s, signal) \in Signal
         /\ Absorbed(n, s, signal).resonators = signals[n][s].resonators \cup signal.resonators
         /\ signals[n][s].fired => Absorbed(n, s, signal).fired
         /\ Absorbed(n, s, signal).fired =>
              \/ signals[n][s].fired \/ signal.fired
              \/ HasQuorum(s, signals[n][s].resonators \cup signal.resonators)
         /\ HasQuorum(s, signals[n][s].resonators \cup signal.resonators) =>
              Absorbed(n, s, signal).fired \/ (~Known(n, s) /\ Absorbed(n, s, signal) = signal)
<1> DEFINE own == Joined(s, signals[n][s], signal.resonators)
<1>1. /\ signals[n][s] \in Signal /\ signal.resonators \in SUBSET Node
      /\ signal.fired \in BOOLEAN
  BY DEF TypeOK, Signal
<1>2. /\ own \in Signal
      /\ own.resonators = signals[n][s].resonators \cup signal.resonators
      /\ own.fired <=> signals[n][s].fired \/ HasQuorum(s, signals[n][s].resonators \cup signal.resonators)
  BY <1>1, JoinedType
<1>3. CASE Known(n, s)
  <2>1. Absorbed(n, s, signal) = [own EXCEPT !.fired = @ \/ signal.fired]
    BY <1>3 DEF Absorbed
  <2>2. /\ Absorbed(n, s, signal) \in Signal
        /\ Absorbed(n, s, signal).resonators = own.resonators
        /\ Absorbed(n, s, signal).fired = (own.fired \/ signal.fired)
    <3> HIDE DEF own
    <3> QED BY <1>1, <1>2, <2>1 DEF Signal
  <2> QED BY <1>2, <2>2
<1>4. CASE ~Known(n, s)
  <2>1. Absorbed(n, s, signal) = signal /\ signals[n][s] = Unknown
    BY <1>4 DEF Absorbed, Known
  <2> QED BY <1>1, <1>4, <2>1, UnknownType
<1> QED BY <1>3, <1>4

\* The kinds of envelopes.
LEMMA Kinds ==
  ASSUME TypeOK, NEW m \in net
  PROVE  /\ m.type = "SignalBroadcast" => m \in SignalBroadcast
         /\ m.type = "Resonance" => m \in Resonance
         /\ m.type = "VectorOffer" => m \in VectorOffer
  BY DEF TypeOK, SignalBroadcast, Resonance, VectorOffer

-----------------------------------------------------------------------------
(* Type correctness.                                                       *)

LEMMA BlankType == NoField \in [Id -> Signal] /\ Blank.signals = NoField
  BY UnknownType DEF NoField, Blank

LEMMA TypeInit == Init => TypeOK
<1> SUFFICES ASSUME Init PROVE TypeOK
  OBVIOUS
<1>1. /\ 0 \in 0 .. MaxNonce /\ 0 \in 0 .. MaxEmits /\ 0 + 0 <= MaxFaults
  BY BoundAssumption
<1>2. /\ Blank \in [signals : [Id -> Signal], next_nonce : 0 .. MaxNonce,
                    processed : SUBSET Id, ions : SUBSET Pipeline]
  BY <1>1, BlankType DEF Blank
<1>3. Blank.signals = NoField /\ Blank.next_nonce = 0 /\ Blank.processed = {} /\ Blank.ions = {}
  BY DEF Blank
<1> QED BY <1>1, <1>2, <1>3, BlankType DEF Init, TypeOK

\* What the saving helper does to the disk.
LEMMA SaveType ==
  ASSUME TypeOK, NEW n \in Node, NEW I \in SUBSET Pipeline, Save(n, I)
  PROVE  /\ disk' \in [Node -> [signals : [Id -> Signal], next_nonce : 0 .. MaxNonce,
                               processed : SUBSET Id, ions : SUBSET Pipeline]]
         /\ \A k \in Node \ {n} : disk'[k] = disk[k]
         /\ disk'[n].signals = signals[n] /\ disk'[n].next_nonce = next_nonce[n]
         /\ disk'[n].processed = processed[n] /\ disk'[n].ions = I
  BY DEF TypeOK, Save

LEMMA TryFireType ==
  ASSUME TypeOK, NEW n \in Node, TryFire(n)
  PROVE  /\ call' \in [Node -> {"idle", "busy"}]
         /\ todo' \in [Node -> SUBSET Id]
         /\ spinning' \in [Node -> Id \cup {NoSignal}]
  BY DEF TypeOK, TryFire

LEMMA PutType ==
  ASSUME TypeOK, NEW n \in Node, NEW s \in Id, NEW x \in Signal, Put(n, s, x)
  PROVE  /\ signals' \in [Node -> [Id -> Signal]]
         /\ signals'[n][s] = x
         /\ \A k \in Node, t \in Id : k # n \/ t # s => signals'[k][t] = signals[k][t]
  BY DEF TypeOK, Put

LEMMA FailType ==
  ASSUME TypeOK, NEW n \in Node, Fail(n), crashes' = crashes
  PROVE  /\ call' \in [Node -> {"idle", "busy"}]
         /\ todo' \in [Node -> SUBSET Id]
         /\ spinning' \in [Node -> Id \cup {NoSignal}]
         /\ crashes' \in Nat /\ failures' \in Nat /\ crashes' + failures' <= MaxFaults
  BY BoundAssumption DEF TypeOK, Fail

\* The emitted signal's id.
NewId(n, p) == [origin |-> n, pipeline |-> p, nonce |-> next_nonce[n]]

LEMMA EmitFacts ==
  ASSUME TypeOK, NEW n \in Node, NEW p \in Pipeline, EmitSignal(n, p)
  PROVE  /\ NewId(n, p) \in Id
         /\ Joined(NewId(n, p), Unknown, {n}) \in Signal
         /\ Put(n, NewId(n, p), Joined(NewId(n, p), Unknown, {n}))
<1>1. next_nonce[n] \in 0 .. MaxNonce - 1
  BY BoundAssumption DEF TypeOK, EmitSignal
<1>2. NewId(n, p) \in Id
  BY <1>1 DEF NewId, Id
<1> QED BY <1>2, UnknownType, JoinedType DEF EmitSignal, NewId

LEMMA TypeEmit ==
  ASSUME TypeOK, NEW n \in Node, NEW p \in Pipeline, EmitSignal(n, p)
  PROVE  TypeOK'
<1> DEFINE s == NewId(n, p)
           x == Joined(s, Unknown, {n})
<1>1. s \in Id /\ x \in Signal /\ Put(n, s, x)
  BY EmitFacts
<1>2. signals' \in [Node -> [Id -> Signal]]
  BY <1>1, PutType
<1>3. TryFire(n)
  BY DEF EmitSignal
<1>4. /\ call' \in [Node -> {"idle", "busy"}]
      /\ todo' \in [Node -> SUBSET Id]
      /\ spinning' \in [Node -> Id \cup {NoSignal}]
  BY <1>3, TryFireType
<1>5. /\ net' = net \cup {[type |-> "SignalBroadcast", to |-> q, id |-> s, signal |-> x] : q \in Node \ {n}}
      /\ resonated' = [resonated EXCEPT ![s] = @ \cup {n}]
  BY DEF EmitSignal, NewId
<1> HIDE DEF s, x
<1>6. net' \subseteq SignalBroadcast \cup Resonance \cup VectorOffer
  BY <1>1, <1>5 DEF TypeOK, SignalBroadcast
<1>7. resonated' \in [Id -> SUBSET Node]
  BY <1>1, <1>5 DEF TypeOK
<1>8. next_nonce' \in [Node -> 0 .. MaxNonce] /\ emits' \in 0 .. MaxEmits
  BY BoundAssumption DEF TypeOK, EmitSignal
<1> QED BY <1>2, <1>4, <1>6, <1>7, <1>8 DEF TypeOK, EmitSignal, engine

LEMMA TypeResonate ==
  ASSUME TypeOK, NEW n \in Node, NEW s \in Id, Resonate(n, s)
  PROVE  TypeOK'
<1> DEFINE x == Joined(s, signals[n][s], {n})
<1>1. x \in Signal /\ Put(n, s, x)
  <2>1. signals[n][s] \in Signal /\ {n} \in SUBSET Node
    BY DEF TypeOK
  <2> QED BY <2>1, JoinedType DEF Resonate
<1>2. signals' \in [Node -> [Id -> Signal]]
  BY <1>1, PutType
<1>3. TryFire(n)
  BY DEF Resonate
<1>4. /\ call' \in [Node -> {"idle", "busy"}]
      /\ todo' \in [Node -> SUBSET Id]
      /\ spinning' \in [Node -> Id \cup {NoSignal}]
  BY <1>3, TryFireType
<1>5. net' \subseteq SignalBroadcast \cup Resonance \cup VectorOffer
  BY DEF TypeOK, Resonate, Resonance
<1>6. resonated' \in [Id -> SUBSET Node]
  BY DEF TypeOK, Resonate
<1> QED BY <1>2, <1>4, <1>5, <1>6 DEF TypeOK, Resonate, engine, counters

LEMMA TypeRecvSignal ==
  ASSUME TypeOK, NEW m \in net, m.type = "SignalBroadcast", RecvSignal(m)
  PROVE  TypeOK'
<1> DEFINE n == m.to
           x == Absorbed(n, m.id, m.signal)
<1>1. n \in Node /\ m.id \in Id /\ m.signal \in Signal /\ m.id.nonce \in 0 .. MaxNonce - 1
  BY Kinds DEF SignalBroadcast, Id
<1>2. x \in Signal /\ Put(n, m.id, x)
  BY <1>1, AbsorbedType DEF RecvSignal
<1>3. signals' \in [Node -> [Id -> Signal]]
  BY <1>1, <1>2, PutType
<1>4. TryFire(n)
  BY DEF RecvSignal
<1>5. /\ call' \in [Node -> {"idle", "busy"}]
      /\ todo' \in [Node -> SUBSET Id]
      /\ spinning' \in [Node -> Id \cup {NoSignal}]
  BY <1>1, <1>4, TryFireType
<1>6. next_nonce' \in [Node -> 0 .. MaxNonce]
  <2>1. \A k \in 0 .. MaxNonce : Above(k, m.id.nonce) \in 0 .. MaxNonce
    BY <1>1, BoundAssumption DEF Above
  <2> QED BY <2>1 DEF TypeOK, RecvSignal
<1>7. net' \subseteq SignalBroadcast \cup Resonance \cup VectorOffer
  BY DEF TypeOK, RecvSignal
<1> QED BY <1>3, <1>5, <1>6, <1>7 DEF TypeOK, RecvSignal, engine, history, counters

LEMMA TypeRecvResonance ==
  ASSUME TypeOK, NEW m \in net, m.type = "Resonance", RecvResonance(m)
  PROVE  TypeOK'
<1> DEFINE n == m.to
           x == Joined(m.id, signals[n][m.id], {m.resonator})
<1>1. n \in Node /\ m.id \in Id /\ m.resonator \in Node
  BY Kinds DEF Resonance
<1>2. x \in Signal
  <2>1. signals[n][m.id] \in Signal /\ {m.resonator} \in SUBSET Node
    BY <1>1 DEF TypeOK
  <2> QED BY <1>1, <2>1, JoinedType
<1>3. /\ signals' \in [Node -> [Id -> Signal]]
      /\ call' \in [Node -> {"idle", "busy"}]
      /\ todo' \in [Node -> SUBSET Id]
      /\ spinning' \in [Node -> Id \cup {NoSignal}]
  <2>1. CASE Known(n, m.id)
    <3>1. Put(n, m.id, x) /\ TryFire(n)
      BY <2>1 DEF RecvResonance
    <3> HIDE DEF x
    <3> QED BY <1>1, <1>2, <3>1, PutType, TryFireType
  <2>2. CASE ~Known(n, m.id)
    BY <1>1, <2>2 DEF RecvResonance, TypeOK, Ending
  <2> QED BY <2>1, <2>2
<1>4. net' \subseteq SignalBroadcast \cup Resonance \cup VectorOffer
  BY DEF TypeOK, RecvResonance
<1> QED BY <1>3, <1>4 DEF TypeOK, RecvResonance, engine, history, counters

\* What is left of a queue, and its front.
LEMMA QueueFacts ==
  ASSUME NEW q \in Seq(Vector), q # <<>>
  PROVE  /\ Head(q) \in Vector /\ Tail(q) \in Seq(Vector)
         /\ Head(q) = q[1] /\ Len(q) \in Nat /\ Len(q) >= 1 /\ Len(Tail(q)) = Len(q) - 1
         /\ \A i \in 1 .. Len(q) - 1 : Tail(q)[i] = q[i + 1]
  OBVIOUS

LEMMA TypeRunOffer ==
  ASSUME TypeOK, NEW m \in net, m.type = "VectorOffer", RunOffer(m)
  PROVE  TypeOK'
<1> DEFINE n == m.to
           q == Append(flywheel[n], m.vector)
<1>1. n \in Node /\ m.vector \in Vector
  BY Kinds DEF VectorOffer
<1>2. q \in Seq(Vector) /\ q # <<>>
  <2>1. flywheel[n] \in Seq(Vector)
    BY <1>1 DEF TypeOK
  <2>2. q \in Seq(Vector) /\ Len(q) = Len(flywheel[n]) + 1 /\ Len(flywheel[n]) \in Nat
    BY <1>1, <2>1
  <2>3. Len(<<>>) = 0
    OBVIOUS
  <2> HIDE DEF q
  <2> QED BY <2>2, <2>3
<1>3. Head(q) \in Vector /\ Tail(q) \in Seq(Vector)
  BY <1>2, QueueFacts
<1>4. /\ flywheel' = [flywheel EXCEPT ![n] = Tail(q)]
      /\ remote_done' = [remote_done EXCEPT ![n] = @ \cup {Head(q)}]
  BY DEF RunOffer
<1>5. flywheel' \in [Node -> Seq(Vector)] /\ remote_done' \in [Node -> SUBSET Vector]
  <2> HIDE DEF q
  <2> QED BY <1>1, <1>3, <1>4 DEF TypeOK
<1>6. net' \subseteq SignalBroadcast \cup Resonance \cup VectorOffer
  BY DEF TypeOK, RunOffer
<1>7. /\ call' \in [Node -> {"idle", "busy"}]
      /\ todo' = todo /\ spinning' = spinning
  BY <1>1 DEF TypeOK, RunOffer, Ending
<1> QED BY <1>5, <1>6, <1>7 DEF TypeOK, RunOffer, memory, history, counters

LEMMA TypePersist ==
  ASSUME TypeOK, NEW n \in Node, Persist(n)
  PROVE  TypeOK'
<1>1. ions[n] \in SUBSET Pipeline
  BY DEF TypeOK
<1>2. disk' \in [Node -> [signals : [Id -> Signal], next_nonce : 0 .. MaxNonce,
                          processed : SUBSET Id, ions : SUBSET Pipeline]]
  BY <1>1, SaveType DEF Persist
<1> QED BY <1>2 DEF TypeOK, Persist, memory, engine, handler, history, counters

LEMMA TypePassOver ==
  ASSUME TypeOK, NEW n \in Node, NEW s \in todo[n], PassOver(n, s)
  PROVE  TypeOK'
<1>1. s \in Id
  BY DEF TypeOK
<1> QED BY <1>1 DEF TypeOK, PassOver, engine, history, counters

LEMMA VectorsType ==
  ASSUME NEW s \in Id
  PROVE  /\ Vectors(s) \in Seq(Vector) /\ Len(Vectors(s)) = 3
         /\ Vectors(s)[1] = VectorOf(s, "Build") /\ Vectors(s)[2] = VectorOf(s, "Test")
         /\ Vectors(s)[3] = VectorOf(s, "Deploy")
         /\ \A x \in Thrust : VectorOf(s, x) \in Vector
<1>1. \A x \in Thrust : VectorOf(s, x) \in Vector
  BY DEF VectorOf, Vector, Id
<1> QED BY <1>1 DEF Vectors, Thrust

LEMMA TypeInject ==
  ASSUME TypeOK, NEW n \in Node, NEW s \in todo[n], Inject(n, s)
  PROVE  TypeOK'
<1>1. s \in Id
  BY DEF TypeOK
<1>2. flywheel[n] \in Seq(Vector) /\ Vectors(s) \in Seq(Vector)
  BY <1>1, VectorsType DEF TypeOK
<1>3. flywheel[n] \o Vectors(s) \in Seq(Vector)
  BY <1>2
<1>4. flywheel' \in [Node -> Seq(Vector)]
  BY <1>3 DEF TypeOK, Inject
<1> QED BY <1>1, <1>4 DEF TypeOK, Inject, memory, history, counters

LEMMA TypeWorkbenchFails ==
  ASSUME TypeOK, NEW n \in Node, NEW s \in todo[n], WorkbenchFails(n, s)
  PROVE  TypeOK'
<1>1. Fail(n) /\ crashes' = crashes
  BY DEF WorkbenchFails
<1> QED BY <1>1, FailType DEF TypeOK, WorkbenchFails, memory, engine, history

\* A step that takes the front of the queue.
LEMMA TakenFacts ==
  ASSUME TypeOK, NEW n \in Node, Taken(n)
  PROVE  /\ spinning[n] \in Id
         /\ flywheel[n] \in Seq(Vector) /\ flywheel[n] # <<>>
         /\ Head(flywheel[n]) \in Vector /\ Head(flywheel[n]) = flywheel[n][1]
         /\ flywheel' \in [Node -> Seq(Vector)]
         /\ flywheel'[n] = Tail(flywheel[n])
         /\ \A k \in Node \ {n} : flywheel'[k] = flywheel[k]
<1>1. flywheel[n] \in Seq(Vector) /\ flywheel[n] # <<>> /\ spinning[n] \in Id
  BY DEF TypeOK, Taken
<1>2. Head(flywheel[n]) \in Vector /\ Tail(flywheel[n]) \in Seq(Vector) /\ Head(flywheel[n]) = flywheel[n][1]
  BY <1>1, QueueFacts
<1>3. flywheel' = [flywheel EXCEPT ![n] = Tail(flywheel[n])]
  BY DEF Taken
<1> QED BY <1>1, <1>2, <1>3 DEF TypeOK

LEMMA BirthType ==
  ASSUME TypeOK, NEW n \in Node, NEW p \in Pipeline, Birth(n, p)
  PROVE  /\ ions' \in [Node -> SUBSET Pipeline]
         /\ ions'[n] = ions[n] \cup {p} /\ \A k \in Node \ {n} : ions'[k] = ions[k]
         /\ disk' \in [Node -> [signals : [Id -> Signal], next_nonce : 0 .. MaxNonce,
                                processed : SUBSET Id, ions : SUBSET Pipeline]]
         /\ disk' = disk \/ Save(n, ions'[n])
<1>1. /\ ions' \in [Node -> SUBSET Pipeline]
      /\ ions'[n] = ions[n] \cup {p} /\ \A k \in Node \ {n} : ions'[k] = ions[k]
  BY DEF Birth, TypeOK
<1>2. disk' = disk \/ Save(n, ions'[n])
  BY DEF Birth
<1>3. ions'[n] \in SUBSET Pipeline
  BY <1>1
<1>4. disk' \in [Node -> [signals : [Id -> Signal], next_nonce : 0 .. MaxNonce,
                          processed : SUBSET Id, ions : SUBSET Pipeline]]
  BY <1>2, <1>3, SaveType DEF TypeOK
<1> QED BY <1>1, <1>2, <1>4

LEMMA TypeSpin ==
  ASSUME TypeOK, NEW n \in Node, Spin(n)
  PROVE  TypeOK'
<1> DEFINE v == Head(flywheel[n])
<1>1. /\ v \in Vector /\ v.pipeline \in Pipeline
      /\ flywheel' \in [Node -> Seq(Vector)]
  BY TakenFacts DEF Spin, Vector
<1>2. /\ ions' \in [Node -> SUBSET Pipeline]
      /\ disk' \in [Node -> [signals : [Id -> Signal], next_nonce : 0 .. MaxNonce,
                             processed : SUBSET Id, ions : SUBSET Pipeline]]
      /\ net' \subseteq SignalBroadcast \cup Resonance \cup VectorOffer
  <2>1. CASE v.thrust = "Deploy"
    <3>1. Birth(n, v.pipeline) /\ net' = net
      BY <2>1 DEF Spin
    <3> QED BY <1>1, <3>1, BirthType DEF TypeOK
  <2>2. CASE v.thrust # "Deploy"
    <3>1. /\ net' = net \cup {[type |-> "VectorOffer", to |-> q, vector |-> v] : q \in Node \ {n}}
          /\ UNCHANGED <<ions, disk>>
      BY <2>2 DEF Spin
    <3> HIDE DEF v
    <3> QED BY <1>1, <3>1 DEF TypeOK, VectorOffer
  <2> QED BY <2>1, <2>2
<1> QED BY <1>1, <1>2 DEF TypeOK, Spin, handler, history, counters

LEMMA TypeRecipeFails ==
  ASSUME TypeOK, NEW n \in Node, RecipeFails(n)
  PROVE  TypeOK'
<1>1. spinning[n] \in Id /\ flywheel' \in [Node -> Seq(Vector)]
  BY TakenFacts DEF RecipeFails
<1>2. crashes' \in Nat /\ failures' \in Nat /\ crashes' + failures' <= MaxFaults
  BY BoundAssumption DEF TypeOK, RecipeFails
<1> QED BY <1>1, <1>2 DEF TypeOK, RecipeFails

LEMMA SpinFailsFacts ==
  ASSUME TypeOK, NEW n \in Node, SpinFails(n)
  PROVE  /\ ions' \in [Node -> SUBSET Pipeline]
         /\ disk' \in [Node -> [signals : [Id -> Signal], next_nonce : 0 .. MaxNonce,
                                processed : SUBSET Id, ions : SUBSET Pipeline]]
         /\ \A k \in Node \ {n} : ions'[k] = ions[k]
         /\ disk' = disk \/ Save(n, ions'[n])
         /\ \/ ions'[n] = ions[n]
            \/ /\ Head(flywheel[n]).thrust = "Deploy"
               /\ ions'[n] = ions[n] \cup {Head(flywheel[n]).pipeline}
<1> DEFINE v == Head(flywheel[n])
<1>1. v \in Vector /\ v.pipeline \in Pipeline
  BY TakenFacts DEF SpinFails, Vector
<1>2. CASE UNCHANGED <<ions, disk>>
  BY <1>2 DEF TypeOK
<1>3. CASE v.thrust = "Deploy" /\ ions' = [ions EXCEPT ![n] = @ \cup {v.pipeline}] /\ UNCHANGED disk
  BY <1>1, <1>3 DEF TypeOK
<1>4. CASE v.thrust = "Deploy" /\ Birth(n, v.pipeline)
  BY <1>1, <1>4, BirthType
<1> QED BY <1>2, <1>3, <1>4 DEF SpinFails

LEMMA TypeSpinFails ==
  ASSUME TypeOK, NEW n \in Node, SpinFails(n)
  PROVE  TypeOK'
<1>1. Fail(n) /\ crashes' = crashes /\ Taken(n)
  BY DEF SpinFails
<1>2. flywheel' \in [Node -> Seq(Vector)]
  BY <1>1, TakenFacts
<1> QED BY <1>1, <1>2, FailType, SpinFailsFacts DEF TypeOK, SpinFails, history

LEMMA TypeFinish ==
  ASSUME TypeOK, NEW n \in Node, Finish(n)
  PROVE  TypeOK'
<1>1. spinning[n] \in Id
  BY DEF TypeOK, Finish
<1> QED BY <1>1 DEF TypeOK, Finish, engine, history, counters

LEMMA TypeReturn ==
  ASSUME TypeOK, NEW n \in Node, Return(n)
  PROVE  TypeOK'
<1>1. ions[n] \in SUBSET Pipeline /\ (disk' = disk \/ Save(n, ions[n]))
  BY DEF TypeOK, Return
<1>2. disk' \in [Node -> [signals : [Id -> Signal], next_nonce : 0 .. MaxNonce,
                          processed : SUBSET Id, ions : SUBSET Pipeline]]
  BY <1>1, SaveType DEF TypeOK
<1> QED BY <1>2 DEF TypeOK, Return, memory, engine, history, counters

LEMMA TypeReturnFails ==
  ASSUME TypeOK, NEW n \in Node, ReturnFails(n)
  PROVE  TypeOK'
<1>1. Fail(n) /\ crashes' = crashes
  BY DEF ReturnFails
<1> QED BY <1>1, FailType DEF TypeOK, ReturnFails, memory, engine, history

LEMMA TypeCrash ==
  ASSUME TypeOK, NEW n \in Node, Crash(n)
  PROVE  TypeOK'
<1>1. /\ disk[n].signals \in [Id -> Signal] /\ disk[n].next_nonce \in 0 .. MaxNonce
      /\ disk[n].processed \in SUBSET Id /\ disk[n].ions \in SUBSET Pipeline
      /\ <<>> \in Seq(Vector)
  BY DEF TypeOK
<1>2. crashes' \in Nat /\ failures' \in Nat /\ crashes' + failures' <= MaxFaults
  BY BoundAssumption DEF TypeOK, Crash
<1> QED BY <1>1, <1>2 DEF TypeOK, Crash, history

LEMMA TypeStutter ==
  ASSUME TypeOK, UNCHANGED vars
  PROVE  TypeOK'
  BY DEF TypeOK, vars, memory, engine, handler, history, counters

LEMMA TypeNext ==
  ASSUME TypeOK, [Next]_vars
  PROVE  TypeOK'
<1>1. ASSUME NEW n \in Node, NEW p \in Pipeline, EmitSignal(n, p) PROVE TypeOK'
  BY <1>1, TypeEmit
<1>2. ASSUME NEW n \in Node, NEW s \in Id, Resonate(n, s) PROVE TypeOK'
  BY <1>2, TypeResonate
<1>3. ASSUME NEW m \in net, \/ m.type = "SignalBroadcast" /\ RecvSignal(m)
                            \/ m.type = "Resonance" /\ RecvResonance(m)
                            \/ m.type = "VectorOffer" /\ RunOffer(m)
      PROVE  TypeOK'
  BY <1>3, TypeRecvSignal, TypeRecvResonance, TypeRunOffer
<1>4. ASSUME NEW n \in Node, Persist(n) \/ Crash(n) PROVE TypeOK'
  BY <1>4, TypePersist, TypeCrash
<1>5. ASSUME NEW n \in Node, Fire(n) PROVE TypeOK'
  BY <1>5, TypePassOver, TypeInject, TypeWorkbenchFails, TypeSpin, TypeRecipeFails,
     TypeSpinFails, TypeFinish, TypeReturn, TypeReturnFails DEF Fire
<1>6. CASE UNCHANGED vars
  BY <1>6, TypeStutter
<1> QED BY <1>1, <1>2, <1>3, <1>4, <1>5, <1>6 DEF Next

\* Every variable has its type, through every interleaving, crash and error.
THEOREM TypeCorrect == Spec => []TypeOK
<1>1. Init => TypeOK
  BY TypeInit
<1>2. TypeOK /\ [Next]_vars => TypeOK'
  BY TypeNext
<1> QED BY <1>1, <1>2, PTL DEF Spec

-----------------------------------------------------------------------------
(* What the Field's copies of a signal say.                                *)

\* A copy counts nobody who did not resonate, and fired for a reason.
Real(R, s, x) ==
  x.resonators \subseteq R[s] /\ (x.fired => HasQuorum(s, R[s]))

\* A copy with a quorum has fired.
Ripe(s, x) == HasQuorum(s, x.resonators) => x.fired

Counts ==
  /\ \A n \in Node, s \in Id : Real(resonated, s, signals[n][s])
  /\ \A n \in Node, s \in Id : Real(resonated, s, disk[n].signals[s])
  /\ \A m \in net : m.type = "SignalBroadcast" => Real(resonated, m.id, m.signal)
  /\ \A m \in net : m.type = "Resonance" => m.resonator \in resonated[m.id]

LEMMA RealGrows ==
  ASSUME NEW R \in [Id -> SUBSET Node], NEW Q \in [Id -> SUBSET Node],
         NEW s \in Id, NEW x \in Signal, R[s] \subseteq Q[s], Real(R, s, x)
  PROVE  Real(Q, s, x)
<1>1. HasQuorum(s, R[s]) => HasQuorum(s, Q[s])
  BY QuorumGrows
<1> QED BY <1>1 DEF Real

LEMMA RealJoined ==
  ASSUME NEW R \in [Id -> SUBSET Node], NEW s \in Id, NEW x \in Signal,
         NEW S \in SUBSET Node, Real(R, s, x), S \subseteq R[s]
  PROVE  Real(R, s, Joined(s, x, S))
<1>1. x.resonators \cup S \subseteq R[s]
  BY DEF Real
<1>2. HasQuorum(s, x.resonators \cup S) => HasQuorum(s, R[s])
  BY <1>1, QuorumGrows
<1> QED BY <1>1, <1>2, JoinedType DEF Real

LEMMA RealAbsorbed ==
  ASSUME TypeOK, NEW n \in Node, NEW s \in Id, NEW x \in Signal,
         Real(resonated, s, signals[n][s]), Real(resonated, s, x)
  PROVE  Real(resonated, s, Absorbed(n, s, x))
<1>1. signals[n][s].resonators \cup x.resonators \subseteq resonated[s]
  BY DEF Real
<1>2. resonated[s] \in SUBSET Node
  BY DEF TypeOK
<1>3. HasQuorum(s, signals[n][s].resonators \cup x.resonators) => HasQuorum(s, resonated[s])
  BY <1>1, <1>2, QuorumGrows
<1> QED BY <1>1, <1>3, AbsorbedType DEF Real

\* Steps that leave the Field, its nonces and the resonances alone.
Quiet ==
  /\ signals' = signals /\ next_nonce' = next_nonce
  /\ resonated' = resonated /\ crashes' = crashes
  /\ \A m \in net' : m \in net \/ m.type = "VectorOffer"
  /\ \A m \in net : m \in net' \/ m.type = "VectorOffer"
  /\ \A k \in Node :
       \/ disk'[k] = disk[k]
       \/ disk'[k].signals = signals[k] /\ disk'[k].next_nonce = next_nonce[k]

LEMMA QuietDisk ==
  ASSUME TypeOK, NEW n \in Node, NEW I \in SUBSET Pipeline, disk' = disk \/ Save(n, I)
  PROVE  \A k \in Node :
           \/ disk'[k] = disk[k]
           \/ disk'[k].signals = signals[k] /\ disk'[k].next_nonce = next_nonce[k]
  BY SaveType

LEMMA QuietOffer ==
  ASSUME TypeOK, NEW m \in net, m.type = "VectorOffer", RunOffer(m)
  PROVE  Quiet
  BY DEF Quiet, RunOffer, memory, history, counters

LEMMA QuietPersist ==
  ASSUME TypeOK, NEW n \in Node, Persist(n)
  PROVE  Quiet
<1>1. ions[n] \in SUBSET Pipeline /\ Save(n, ions[n])
  BY DEF TypeOK, Persist
<1>2. \A k \in Node :
        \/ disk'[k] = disk[k]
        \/ disk'[k].signals = signals[k] /\ disk'[k].next_nonce = next_nonce[k]
  BY <1>1, QuietDisk
<1> QED BY <1>2 DEF Quiet, Persist, memory, history, counters

LEMMA QuietFire ==
  ASSUME TypeOK, NEW n \in Node, Fire(n)
  PROVE  Quiet
<1>1. ASSUME NEW s \in todo[n], PassOver(n, s) \/ Inject(n, s) \/ WorkbenchFails(n, s)
      PROVE  Quiet
  BY <1>1 DEF PassOver, Inject, WorkbenchFails, Quiet, memory, history, counters
<1>2. CASE Spin(n)
  <2> DEFINE v == Head(flywheel[n])
  <2>1. v.pipeline \in Pipeline
    BY <1>2, TakenFacts DEF Spin, Vector
  <2>2. \/ Birth(n, v.pipeline) /\ net' = net
        \/ /\ net' = net \cup {[type |-> "VectorOffer", to |-> q, vector |-> v] : q \in Node \ {n}}
           /\ UNCHANGED <<ions, disk>>
    BY <1>2 DEF Spin
  <2>3. ions'[n] \in SUBSET Pipeline /\ (disk' = disk \/ Save(n, ions'[n]))
    BY <2>1, <2>2, BirthType DEF TypeOK
  <2>4. /\ \A m \in net' : m \in net \/ m.type = "VectorOffer"
        /\ \A m \in net : m \in net'
    <3> HIDE DEF v
    <3> QED BY <2>2
  <2>5. \A k \in Node :
          \/ disk'[k] = disk[k]
          \/ disk'[k].signals = signals[k] /\ disk'[k].next_nonce = next_nonce[k]
    BY <2>3, QuietDisk
  <2> QED BY <1>2, <2>4, <2>5 DEF Spin, Quiet, history, counters
<1>3. CASE RecipeFails(n) \/ Finish(n)
  BY <1>3 DEF RecipeFails, Finish, Quiet, history, counters
<1>4. CASE SpinFails(n)
  <2>1. ions'[n] \in SUBSET Pipeline /\ (disk' = disk \/ Save(n, ions'[n]))
    BY <1>4, SpinFailsFacts
  <2>2. \A k \in Node :
          \/ disk'[k] = disk[k]
          \/ disk'[k].signals = signals[k] /\ disk'[k].next_nonce = next_nonce[k]
    BY <2>1, QuietDisk
  <2> QED BY <1>4, <2>2 DEF SpinFails, Quiet, history
<1>5. CASE Return(n)
  <2>1. ions[n] \in SUBSET Pipeline /\ (disk' = disk \/ Save(n, ions[n]))
    BY <1>5 DEF TypeOK, Return
  <2>2. \A k \in Node :
          \/ disk'[k] = disk[k]
          \/ disk'[k].signals = signals[k] /\ disk'[k].next_nonce = next_nonce[k]
    BY <2>1, QuietDisk
  <2> QED BY <1>5, <2>2 DEF Return, Quiet, memory, history, counters
<1>6. CASE ReturnFails(n)
  BY <1>6 DEF ReturnFails, Quiet, memory, history
<1> QED BY <1>1, <1>2, <1>3, <1>4, <1>5, <1>6 DEF Fire

\* The cases of a step, as far as the Field goes.
LEMMA Steps ==
  ASSUME TypeOK, [Next]_vars
  PROVE  \/ \E n \in Node, p \in Pipeline : EmitSignal(n, p)
         \/ \E n \in Node, s \in Id : Resonate(n, s)
         \/ \E m \in net : m.type = "SignalBroadcast" /\ RecvSignal(m)
         \/ \E m \in net : m.type = "Resonance" /\ RecvResonance(m)
         \/ \E n \in Node : Crash(n)
         \/ Quiet
<1>1. CASE UNCHANGED vars
  BY <1>1 DEF Quiet, vars, memory, history, counters
<1> QED BY <1>1, QuietOffer, QuietPersist, QuietFire DEF Next

\* The emitter's copy of a new signal.
Newborn(n, s) == Joined(s, Unknown, {n})

\* What each of these steps does to the Field, in one place.
LEMMA EmitStep ==
  ASSUME TypeOK, NEW n \in Node, NEW p \in Pipeline, EmitSignal(n, p)
  PROVE  LET s == NewId(n, p) IN
         /\ s \in Id /\ s.origin = n /\ s.nonce = next_nonce[n]
         /\ Newborn(n, s) \in Signal
         /\ signals'[n][s] = Newborn(n, s)
         /\ \A k \in Node, t \in Id : k # n \/ t # s => signals'[k][t] = signals[k][t]
         /\ resonated'[s] = resonated[s] \cup {n}
         /\ \A t \in Id \ {s} : resonated'[t] = resonated[t]
         /\ net \subseteq net'
         /\ \A m \in net' : m \in net \/ (m.type = "SignalBroadcast" /\ m.id = s /\ m.signal = Newborn(n, s))
         /\ next_nonce'[n] = next_nonce[n] + 1
         /\ \A k \in Node \ {n} : next_nonce'[k] = next_nonce[k]
         /\ disk' = disk /\ crashes' = crashes
<1> DEFINE s == NewId(n, p)
           x == Newborn(n, s)
<1>1. s \in Id /\ x \in Signal /\ Put(n, s, x)
  BY EmitFacts DEF Newborn
<1>2. /\ signals'[n][s] = x
      /\ \A k \in Node, t \in Id : k # n \/ t # s => signals'[k][t] = signals[k][t]
  BY <1>1, PutType
<1>3. s.origin = n /\ s.nonce = next_nonce[n]
  BY DEF NewId
<1>4. /\ net' = net \cup {[type |-> "SignalBroadcast", to |-> q, id |-> s, signal |-> x] : q \in Node \ {n}}
      /\ resonated' = [resonated EXCEPT ![s] = @ \cup {n}]
      /\ next_nonce' = [next_nonce EXCEPT ![n] = @ + 1]
      /\ disk' = disk /\ crashes' = crashes
  BY DEF EmitSignal, NewId, Newborn
<1> HIDE DEF s, x
<1>5. /\ net \subseteq net'
      /\ \A m \in net' : m \in net \/ (m.type = "SignalBroadcast" /\ m.id = s /\ m.signal = x)
  BY <1>4
<1>6. /\ resonated'[s] = resonated[s] \cup {n}
      /\ \A t \in Id \ {s} : resonated'[t] = resonated[t]
  BY <1>1, <1>4 DEF TypeOK
<1>7. /\ next_nonce'[n] = next_nonce[n] + 1
      /\ \A k \in Node \ {n} : next_nonce'[k] = next_nonce[k]
  BY <1>4 DEF TypeOK
<1> QED BY <1>1, <1>2, <1>3, <1>4, <1>5, <1>6, <1>7 DEF s, x

LEMMA ResonateStep ==
  ASSUME TypeOK, NEW n \in Node, NEW s \in Id, Resonate(n, s)
  PROVE  /\ Known(n, s)
         /\ Joined(s, signals[n][s], {n}) \in Signal
         /\ signals'[n][s] = Joined(s, signals[n][s], {n})
         /\ \A k \in Node, t \in Id : k # n \/ t # s => signals'[k][t] = signals[k][t]
         /\ resonated'[s] = resonated[s] \cup {n}
         /\ \A t \in Id \ {s} : resonated'[t] = resonated[t]
         /\ net' = net \cup {[type |-> "Resonance", to |-> q, id |-> s, resonator |-> n] : q \in Node \ {n}}
         /\ next_nonce' = next_nonce /\ disk' = disk /\ crashes' = crashes
<1> DEFINE x == Joined(s, signals[n][s], {n})
<1>1. signals[n][s] \in Signal /\ {n} \in SUBSET Node
  BY DEF TypeOK
<1>2. x \in Signal /\ Put(n, s, x)
  BY <1>1, JoinedType DEF Resonate
<1>3. /\ signals'[n][s] = x
      /\ \A k \in Node, t \in Id : k # n \/ t # s => signals'[k][t] = signals[k][t]
  BY <1>2, PutType
<1>4. /\ resonated'[s] = resonated[s] \cup {n}
      /\ \A t \in Id \ {s} : resonated'[t] = resonated[t]
  BY DEF TypeOK, Resonate
<1> QED BY <1>2, <1>3, <1>4 DEF Resonate, counters

LEMMA RecvSignalStep ==
  ASSUME TypeOK, NEW m \in net, m.type = "SignalBroadcast", RecvSignal(m)
  PROVE  /\ m.to \in Node /\ m.id \in Id /\ m.signal \in Signal
         /\ Absorbed(m.to, m.id, m.signal) \in Signal
         /\ signals'[m.to][m.id] = Absorbed(m.to, m.id, m.signal)
         /\ \A k \in Node, t \in Id : k # m.to \/ t # m.id => signals'[k][t] = signals[k][t]
         /\ next_nonce'[m.to] = Above(next_nonce[m.to], m.id.nonce)
         /\ \A k \in Node \ {m.to} : next_nonce'[k] = next_nonce[k]
         /\ resonated' = resonated /\ net' = net \ {m} /\ disk' = disk /\ crashes' = crashes
<1>1. m.to \in Node /\ m.id \in Id /\ m.signal \in Signal
  BY Kinds DEF SignalBroadcast
<1>2. Absorbed(m.to, m.id, m.signal) \in Signal /\ Put(m.to, m.id, Absorbed(m.to, m.id, m.signal))
  BY <1>1, AbsorbedType DEF RecvSignal
<1>3. /\ signals'[m.to][m.id] = Absorbed(m.to, m.id, m.signal)
      /\ \A k \in Node, t \in Id : k # m.to \/ t # m.id => signals'[k][t] = signals[k][t]
  BY <1>1, <1>2, PutType
<1>4. /\ next_nonce'[m.to] = Above(next_nonce[m.to], m.id.nonce)
      /\ \A k \in Node \ {m.to} : next_nonce'[k] = next_nonce[k]
  BY <1>1 DEF TypeOK, RecvSignal
<1> QED BY <1>1, <1>2, <1>3, <1>4 DEF RecvSignal, history, counters

LEMMA RecvResonanceStep ==
  ASSUME TypeOK, NEW m \in net, m.type = "Resonance", RecvResonance(m)
  PROVE  /\ m.to \in Node /\ m.id \in Id /\ m.resonator \in Node
         /\ \/ /\ Known(m.to, m.id)
               /\ Joined(m.id, signals[m.to][m.id], {m.resonator}) \in Signal
               /\ signals'[m.to][m.id] = Joined(m.id, signals[m.to][m.id], {m.resonator})
               /\ \A k \in Node, t \in Id : k # m.to \/ t # m.id => signals'[k][t] = signals[k][t]
            \/ ~Known(m.to, m.id) /\ signals' = signals
         /\ next_nonce' = next_nonce
         /\ resonated' = resonated /\ net' = net \ {m} /\ disk' = disk /\ crashes' = crashes
<1> DEFINE x == Joined(m.id, signals[m.to][m.id], {m.resonator})
<1>1. m.to \in Node /\ m.id \in Id /\ m.resonator \in Node
  BY Kinds DEF Resonance
<1>2. signals[m.to][m.id] \in Signal /\ {m.resonator} \in SUBSET Node
  BY <1>1 DEF TypeOK
<1>3. x \in Signal
  BY <1>1, <1>2, JoinedType
<1>4. CASE Known(m.to, m.id)
  <2>1. Put(m.to, m.id, x)
    BY <1>4 DEF RecvResonance
  <2>2. /\ signals'[m.to][m.id] = x
        /\ \A k \in Node, t \in Id : k # m.to \/ t # m.id => signals'[k][t] = signals[k][t]
    BY <1>1, <1>3, <2>1, PutType
  <2> QED BY <1>1, <1>3, <1>4, <2>2 DEF RecvResonance, history, counters
<1>5. CASE ~Known(m.to, m.id)
  BY <1>1, <1>5 DEF RecvResonance, history, counters
<1> QED BY <1>4, <1>5

LEMMA CrashStep ==
  ASSUME TypeOK, NEW n \in Node, Crash(n)
  PROVE  /\ signals'[n] = disk[n].signals /\ next_nonce'[n] = disk[n].next_nonce
         /\ \A k \in Node \ {n} : signals'[k] = signals[k] /\ next_nonce'[k] = next_nonce[k]
         /\ resonated' = resonated /\ net' = net /\ disk' = disk /\ crashes' = crashes + 1
  BY DEF TypeOK, Crash, history

-----------------------------------------------------------------------------
(* Quorums.                                                                *)

LEMMA CountsInit == Init => Counts
<1> SUFFICES ASSUME Init PROVE Counts
  OBVIOUS
<1>1. \A n \in Node, s \in Id : signals[n][s] = Unknown /\ disk[n].signals[s] = Unknown
  BY DEF Init, Blank, NoField
<1>2. \A s \in Id : resonated[s] = {}
  BY DEF Init
<1>3. net = {}
  BY DEF Init
<1> QED BY <1>1, <1>2, <1>3, UnknownType DEF Counts, Real

\* A copy of before is as good after, and so is each new copy.
LEMMA CountsStep ==
  ASSUME TypeOK, TypeOK', Counts,
         \A s \in Id : resonated[s] \subseteq resonated'[s],
         \A n \in Node, s \in Id :
            \/ signals'[n][s] = signals[n][s] \/ signals'[n][s] = disk[n].signals[s]
            \/ Real(resonated', s, signals'[n][s]),
         \A n \in Node : \/ disk'[n].signals = disk[n].signals
                         \/ disk'[n].signals = signals[n],
         \A m \in net' :
            \/ m \in net \/ m.type = "VectorOffer"
            \/ m.type = "SignalBroadcast" /\ Real(resonated', m.id, m.signal)
            \/ m.type = "Resonance" /\ m.resonator \in resonated'[m.id]
  PROVE  Counts'
<1>1. resonated \in [Id -> SUBSET Node] /\ resonated' \in [Id -> SUBSET Node]
  BY DEF TypeOK
<1>2. \A n \in Node, s \in Id : signals[n][s] \in Signal /\ disk[n].signals[s] \in Signal
  BY DEF TypeOK
<1>3. \A n \in Node, s \in Id :
        Real(resonated', s, signals[n][s]) /\ Real(resonated', s, disk[n].signals[s])
  BY <1>1, <1>2, RealGrows DEF Counts
<1>4. \A n \in Node, s \in Id : Real(resonated', s, signals'[n][s])
  BY <1>3
<1>5. \A n \in Node, s \in Id : Real(resonated', s, disk'[n].signals[s])
  BY <1>3
<1>6. ASSUME NEW m \in net', m.type = "SignalBroadcast" PROVE Real(resonated', m.id, m.signal)
  <2>1. CASE m \in net
    <3>1. m.id \in Id /\ m.signal \in Signal
      BY <1>6, <2>1, Kinds DEF SignalBroadcast
    <3>2. Real(resonated, m.id, m.signal)
      BY <1>6, <2>1 DEF Counts
    <3> QED BY <1>1, <3>1, <3>2, RealGrows
  <2> QED BY <1>6, <2>1
<1>7. ASSUME NEW m \in net', m.type = "Resonance" PROVE m.resonator \in resonated'[m.id]
  <2>1. CASE m \in net
    <3>1. m.id \in Id
      BY <1>7, <2>1, Kinds DEF Resonance
    <3> QED BY <1>7, <2>1, <3>1 DEF Counts
  <2> QED BY <1>7, <2>1
<1> QED BY <1>4, <1>5, <1>6, <1>7 DEF Counts

LEMMA CountsEmit ==
  ASSUME TypeOK, TypeOK', Counts, NEW n \in Node, NEW p \in Pipeline, EmitSignal(n, p)
  PROVE  Counts'
<1> DEFINE s == NewId(n, p)
           x == Newborn(n, s)
<1>1. /\ s \in Id /\ x \in Signal
      /\ signals'[n][s] = x
      /\ \A k \in Node, t \in Id : k # n \/ t # s => signals'[k][t] = signals[k][t]
      /\ resonated'[s] = resonated[s] \cup {n}
      /\ \A t \in Id \ {s} : resonated'[t] = resonated[t]
      /\ \A m \in net' : m \in net \/ (m.type = "SignalBroadcast" /\ m.id = s /\ m.signal = x)
      /\ disk' = disk
  BY EmitStep
<1>2. Real(resonated', s, x)
  <2>1. resonated' \in [Id -> SUBSET Node] /\ {n} \in SUBSET Node /\ {n} \subseteq resonated'[s]
    BY <1>1 DEF TypeOK
  <2>2. Real(resonated', s, Unknown)
    BY UnknownType DEF Real
  <2> QED BY <1>1, <2>1, <2>2, UnknownType, RealJoined DEF Newborn
<1> HIDE DEF s, x
<1>3. \A t \in Id : resonated[t] \subseteq resonated'[t]
  BY <1>1
<1>4. \A k \in Node, t \in Id :
        signals'[k][t] = signals[k][t] \/ Real(resonated', t, signals'[k][t])
  BY <1>1, <1>2
<1>5. \A m \in net' : m \in net \/ (m.type = "SignalBroadcast" /\ Real(resonated', m.id, m.signal))
  BY <1>1, <1>2
<1> QED BY <1>1, <1>3, <1>4, <1>5, CountsStep

LEMMA CountsResonate ==
  ASSUME TypeOK, TypeOK', Counts, NEW n \in Node, NEW s \in Id, Resonate(n, s)
  PROVE  Counts'
<1> DEFINE x == Joined(s, signals[n][s], {n})
<1>1. /\ signals'[n][s] = x
      /\ \A k \in Node, t \in Id : k # n \/ t # s => signals'[k][t] = signals[k][t]
      /\ resonated'[s] = resonated[s] \cup {n}
      /\ \A t \in Id \ {s} : resonated'[t] = resonated[t]
      /\ net' = net \cup {[type |-> "Resonance", to |-> q, id |-> s, resonator |-> n] : q \in Node \ {n}}
      /\ disk' = disk
  BY ResonateStep
<1>2. Real(resonated', s, x)
  <2>1. /\ resonated \in [Id -> SUBSET Node] /\ resonated' \in [Id -> SUBSET Node]
        /\ {n} \in SUBSET Node /\ {n} \subseteq resonated'[s] /\ signals[n][s] \in Signal
        /\ resonated[s] \subseteq resonated'[s]
    BY <1>1 DEF TypeOK
  <2>2. Real(resonated', s, signals[n][s])
    BY <2>1, RealGrows DEF Counts
  <2> QED BY <2>1, <2>2, RealJoined
<1> HIDE DEF x
<1>3. \A t \in Id : resonated[t] \subseteq resonated'[t]
  BY <1>1
<1>4. \A k \in Node, t \in Id :
        signals'[k][t] = signals[k][t] \/ Real(resonated', t, signals'[k][t])
  BY <1>1, <1>2
<1>5. \A m \in net' : m \in net \/ (m.type = "Resonance" /\ m.resonator \in resonated'[m.id])
  BY <1>1
<1> QED BY <1>1, <1>3, <1>4, <1>5, CountsStep

LEMMA CountsRecvSignal ==
  ASSUME TypeOK, TypeOK', Counts, NEW m \in net, m.type = "SignalBroadcast", RecvSignal(m)
  PROVE  Counts'
<1>1. /\ m.to \in Node /\ m.id \in Id /\ m.signal \in Signal
      /\ signals'[m.to][m.id] = Absorbed(m.to, m.id, m.signal)
      /\ \A k \in Node, t \in Id : k # m.to \/ t # m.id => signals'[k][t] = signals[k][t]
      /\ resonated' = resonated /\ net' = net \ {m} /\ disk' = disk
  BY RecvSignalStep
<1>2. Real(resonated', m.id, signals'[m.to][m.id])
  BY <1>1, RealAbsorbed DEF Counts
<1>3. \A k \in Node, t \in Id :
        signals'[k][t] = signals[k][t] \/ Real(resonated', t, signals'[k][t])
  BY <1>1, <1>2
<1> QED BY <1>1, <1>3, CountsStep

LEMMA CountsRecvResonance ==
  ASSUME TypeOK, TypeOK', Counts, NEW m \in net, m.type = "Resonance", RecvResonance(m)
  PROVE  Counts'
<1>1. /\ m.to \in Node /\ m.id \in Id /\ m.resonator \in Node
      /\ \/ /\ signals'[m.to][m.id] = Joined(m.id, signals[m.to][m.id], {m.resonator})
            /\ \A k \in Node, t \in Id : k # m.to \/ t # m.id => signals'[k][t] = signals[k][t]
         \/ signals' = signals
      /\ resonated' = resonated /\ net' = net \ {m} /\ disk' = disk
  BY RecvResonanceStep
<1>2. Real(resonated, m.id, Joined(m.id, signals[m.to][m.id], {m.resonator}))
  <2>1. /\ resonated \in [Id -> SUBSET Node] /\ signals[m.to][m.id] \in Signal
        /\ {m.resonator} \in SUBSET Node
    <3>1. resonated \in [Id -> SUBSET Node] /\ signals \in [Node -> [Id -> Signal]]
      BY DEF TypeOK
    <3> QED BY <1>1, <3>1
  <2>2. Real(resonated, m.id, signals[m.to][m.id]) /\ {m.resonator} \subseteq resonated[m.id]
    BY <1>1 DEF Counts
  <2> QED BY <1>1, <2>1, <2>2, RealJoined
<1>3. \A k \in Node, t \in Id :
        signals'[k][t] = signals[k][t] \/ Real(resonated', t, signals'[k][t])
  BY <1>1, <1>2
<1> QED BY <1>1, <1>3, CountsStep

LEMMA CountsNext ==
  ASSUME TypeOK, TypeOK', Counts, [Next]_vars
  PROVE  Counts'
<1>1. ASSUME NEW n \in Node, Crash(n) PROVE Counts'
  <2>1. /\ signals'[n] = disk[n].signals /\ \A k \in Node \ {n} : signals'[k] = signals[k]
        /\ resonated' = resonated /\ net' = net /\ disk' = disk
    BY <1>1, CrashStep
  <2>2. \A k \in Node, t \in Id :
          signals'[k][t] = signals[k][t] \/ signals'[k][t] = disk[k].signals[t]
    BY <2>1
  <2> QED BY <2>1, <2>2, CountsStep
<1>2. CASE Quiet
  <2>1. \A k \in Node : disk'[k].signals = disk[k].signals \/ disk'[k].signals = signals[k]
    BY <1>2 DEF Quiet
  <2> QED BY <1>2, <2>1, CountsStep DEF Quiet
<1> QED BY <1>1, <1>2, Steps, CountsEmit, CountsResonate, CountsRecvSignal, CountsRecvResonance

LEMMA CountsAlways == Spec => [](TypeOK /\ Counts)
<1>1. Init => TypeOK /\ Counts
  BY TypeInit, CountsInit
<1>2. (TypeOK /\ Counts) /\ [Next]_vars => (TypeOK /\ Counts)'
  BY TypeNext, CountsNext
<1> QED BY <1>1, <1>2, PTL DEF Spec

\* Wherever a signal has fired, its quorum of users did resonate with it:
\* no envelope, late, lost or overtaken, and no restart counts for a user.
THEOREM QuorumsAreReal == Spec => []QuorumReal
<1>1. TypeOK /\ Counts => QuorumReal
  BY DEF Counts, Real, QuorumReal, FiredAt
<1> QED BY <1>1, CountsAlways, PTL

-----------------------------------------------------------------------------
(* Deploys.                                                                *)

\* A signal of n for this ion had its quorum.
Backed(R, n, p) ==
  \E s \in Id : s.origin = n /\ s.pipeline = p /\ HasQuorum(s, R[s])

DeployOf(v, p) == v.thrust = "Deploy" /\ v.pipeline = p

Queued(q, p) == \E i \in 1 .. Len(q) : DeployOf(q[i], p)

\* The ions and the deploys that wait for their turn, and the signals about
\* to be looked at.
Deploys ==
  /\ \A n \in Node : \A p \in ions[n] \cup disk[n].ions : Backed(resonated, n, p)
  /\ \A n \in Node, p \in Pipeline : Queued(flywheel[n], p) => Backed(resonated, n, p)
  /\ \A n \in Node : \A s \in todo[n] : HasQuorum(s, resonated[s])

LEMMA DeploysInit == Init => Deploys
  BY DEF Init, Blank, Deploys, Queued

LEMMA BackedGrows ==
  ASSUME TypeOK, TypeOK', \A s \in Id : resonated[s] \subseteq resonated'[s],
         NEW n \in Node, NEW p, Backed(resonated, n, p)
  PROVE  Backed(resonated', n, p)
<1>1. PICK s \in Id : s.origin = n /\ s.pipeline = p /\ HasQuorum(s, resonated[s])
  BY DEF Backed
<1>2. resonated'[s] \in SUBSET Node /\ resonated[s] \subseteq resonated'[s]
  BY DEF TypeOK
<1>3. HasQuorum(s, resonated'[s])
  BY <1>1, <1>2, QuorumGrows
<1> QED BY <1>1, <1>3 DEF Backed

\* Every ion comes from the disk, the memory or the queue.
LEMMA DeploysStep ==
  ASSUME TypeOK, TypeOK', Deploys,
         \A s \in Id : resonated[s] \subseteq resonated'[s],
         \A n \in Node : \A p \in ions'[n] : p \in ions[n] \cup disk[n].ions \/ Queued(flywheel[n], p),
         \A n \in Node : disk'[n].ions = disk[n].ions \/ disk'[n].ions = ions'[n],
         \A n \in Node, p \in Pipeline :
            Queued(flywheel'[n], p) => Queued(flywheel[n], p) \/ Backed(resonated', n, p),
         \A n \in Node : \A s \in todo'[n] : s \in todo[n] \/ HasQuorum(s, resonated'[s])
  PROVE  Deploys'
<1>1. \A n \in Node : ions[n] \subseteq Pipeline /\ ions'[n] \subseteq Pipeline /\ todo[n] \subseteq Id
  BY DEF TypeOK
<1>2. \A n \in Node, p \in Pipeline : Backed(resonated, n, p) => Backed(resonated', n, p)
  BY BackedGrows
<1>3. ASSUME NEW n \in Node, NEW p \in ions'[n] PROVE Backed(resonated', n, p)
  BY <1>1, <1>2 DEF Deploys
<1>4. ASSUME NEW n \in Node, NEW p \in disk'[n].ions PROVE Backed(resonated', n, p)
  <2>1. disk[n].ions \subseteq Pipeline
    BY DEF TypeOK
  <2>2. CASE p \in ions'[n]
    BY <2>2, <1>3
  <2>3. CASE p \in disk[n].ions
    BY <2>1, <2>3, <1>2 DEF Deploys
  <2> QED BY <2>2, <2>3
<1>5. ASSUME NEW n \in Node, NEW p \in Pipeline, Queued(flywheel'[n], p)
      PROVE  Backed(resonated', n, p)
  BY <1>2, <1>5 DEF Deploys
<1>6. ASSUME NEW n \in Node, NEW s \in todo'[n] PROVE HasQuorum(s, resonated'[s])
  <2>1. CASE s \in todo[n]
    <3>1. s \in Id /\ HasQuorum(s, resonated[s]) /\ resonated[s] \subseteq resonated'[s]
          /\ resonated'[s] \in SUBSET Node
      BY <1>1, <2>1 DEF Deploys, TypeOK
    <3> QED BY <3>1, QuorumGrows
  <2> QED BY <2>1
<1> QED BY <1>3, <1>4, <1>5, <1>6 DEF Deploys

\* A handler of the Field touches only the signals to look at.
LEMMA DeploysField ==
  ASSUME TypeOK, TypeOK', Deploys, Counts', NEW n \in Node,
         \A s \in Id : resonated[s] \subseteq resonated'[s],
         TryFire(n) \/ todo' = todo,
         ions' = ions, disk' = disk, flywheel' = flywheel
  PROVE  Deploys'
<1>1. ASSUME NEW k \in Node, NEW s \in todo'[k] PROVE s \in todo[k] \/ HasQuorum(s, resonated'[s])
  <2>1. CASE TryFire(n)
    <3>1. CASE k = n
      <4>1. s \in Id /\ signals'[n][s].fired
        BY <2>1, <3>1 DEF TryFire, TypeOK
      <4> QED BY <4>1 DEF Counts, Real
    <3>2. CASE k # n
      BY <2>1, <3>2 DEF TryFire, TypeOK
    <3> QED BY <3>1, <3>2
  <2> QED BY <2>1
<1> QED BY <1>1, DeploysStep

LEMMA DeploysEmit ==
  ASSUME TypeOK, TypeOK', Deploys, Counts', NEW n \in Node, NEW p \in Pipeline, EmitSignal(n, p)
  PROVE  Deploys'
<1>1. \A s \in Id : resonated[s] \subseteq resonated'[s]
  BY EmitStep
<1>2. TryFire(n) /\ ions' = ions /\ disk' = disk /\ flywheel' = flywheel
  BY DEF EmitSignal, engine
<1> QED BY <1>1, <1>2, DeploysField

LEMMA DeploysResonate ==
  ASSUME TypeOK, TypeOK', Deploys, Counts', NEW n \in Node, NEW s \in Id, Resonate(n, s)
  PROVE  Deploys'
<1>1. \A t \in Id : resonated[t] \subseteq resonated'[t]
  BY ResonateStep
<1>2. TryFire(n) /\ ions' = ions /\ disk' = disk /\ flywheel' = flywheel
  BY DEF Resonate, engine
<1> QED BY <1>1, <1>2, DeploysField

LEMMA DeploysReceive ==
  ASSUME TypeOK, TypeOK', Deploys, Counts', NEW m \in net,
         \/ m.type = "SignalBroadcast" /\ RecvSignal(m)
         \/ m.type = "Resonance" /\ RecvResonance(m)
  PROVE  Deploys'
<1>1. m.to \in Node
  BY Kinds DEF SignalBroadcast, Resonance
<1>2. /\ TryFire(m.to) \/ todo' = todo
      /\ resonated' = resonated /\ ions' = ions /\ disk' = disk /\ flywheel' = flywheel
  BY DEF RecvSignal, RecvResonance, Ending, engine, history
<1> QED BY <1>1, <1>2, DeploysField

\* The tail of a queue holds nothing new.
LEMMA TailQueued ==
  ASSUME NEW q \in Seq(Vector), q # <<>>, NEW p
  PROVE  /\ Queued(Tail(q), p) => Queued(q, p)
         /\ DeployOf(Head(q), p) => Queued(q, p)
         /\ Queued(q, p) => DeployOf(Head(q), p) \/ Queued(Tail(q), p)
<1>1. /\ Head(q) = q[1] /\ Len(q) \in Nat /\ Len(q) >= 1 /\ Len(Tail(q)) = Len(q) - 1
      /\ \A i \in 1 .. Len(q) - 1 : Tail(q)[i] = q[i + 1]
  BY QueueFacts
<1>2. ASSUME Queued(Tail(q), p) PROVE Queued(q, p)
  <2>1. PICK i \in 1 .. Len(q) - 1 : DeployOf(Tail(q)[i], p)
    BY <1>1, <1>2 DEF Queued
  <2>2. i + 1 \in 1 .. Len(q) /\ DeployOf(q[i + 1], p)
    BY <1>1, <2>1
  <2> QED BY <2>2 DEF Queued
<1>3. ASSUME DeployOf(Head(q), p) PROVE Queued(q, p)
  <2>1. 1 \in 1 .. Len(q)
    BY <1>1
  <2> QED BY <1>1, <1>3, <2>1 DEF Queued
<1>4. ASSUME Queued(q, p), ~DeployOf(Head(q), p) PROVE Queued(Tail(q), p)
  <2>1. PICK i \in 1 .. Len(q) : DeployOf(q[i], p)
    BY <1>4 DEF Queued
  <2>2. i # 1
    BY <1>1, <1>4, <2>1
  <2>3. i - 1 \in 1 .. Len(q) - 1 /\ Tail(q)[i - 1] = q[i]
    BY <1>1, <2>2
  <2> QED BY <1>1, <2>1, <2>3 DEF Queued
<1> QED BY <1>2, <1>3, <1>4

LEMMA JoinQueued ==
  ASSUME NEW q \in Seq(Vector), NEW r \in Seq(Vector), NEW p
  PROVE  Queued(q \o r, p) <=> Queued(q, p) \/ Queued(r, p)
<1>1. /\ Len(q) \in Nat /\ Len(r) \in Nat /\ Len(q \o r) = Len(q) + Len(r)
      /\ \A i \in 1 .. Len(q) : (q \o r)[i] = q[i]
      /\ \A i \in 1 .. Len(r) : (q \o r)[Len(q) + i] = r[i]
  OBVIOUS
<1>2. ASSUME Queued(q \o r, p) PROVE Queued(q, p) \/ Queued(r, p)
  <2>1. PICK i \in 1 .. Len(q) + Len(r) : DeployOf((q \o r)[i], p)
    BY <1>1, <1>2 DEF Queued
  <2>2. CASE i <= Len(q)
    <3>1. i \in 1 .. Len(q) /\ DeployOf(q[i], p)
      BY <1>1, <2>1, <2>2
    <3> QED BY <3>1 DEF Queued
  <2>3. CASE ~(i <= Len(q))
    <3>1. i - Len(q) \in 1 .. Len(r) /\ Len(q) + (i - Len(q)) = i
      BY <1>1, <2>3
    <3>2. DeployOf(r[i - Len(q)], p)
      BY <1>1, <2>1, <3>1
    <3> QED BY <3>1, <3>2 DEF Queued
  <2> QED BY <2>2, <2>3
<1>3. ASSUME Queued(q, p) PROVE Queued(q \o r, p)
  <2>1. PICK i \in 1 .. Len(q) : DeployOf(q[i], p)
    BY <1>3 DEF Queued
  <2>2. i \in 1 .. Len(q) + Len(r) /\ (q \o r)[i] = q[i]
    BY <1>1
  <2> QED BY <1>1, <2>1, <2>2 DEF Queued
<1>4. ASSUME Queued(r, p) PROVE Queued(q \o r, p)
  <2>1. PICK i \in 1 .. Len(r) : DeployOf(r[i], p)
    BY <1>4 DEF Queued
  <2>2. Len(q) + i \in 1 .. Len(q) + Len(r) /\ (q \o r)[Len(q) + i] = r[i]
    BY <1>1
  <2> QED BY <1>1, <2>1, <2>2 DEF Queued
<1> QED BY <1>2, <1>3, <1>4

\* A pipeline's only deploy is that of its signal.
LEMMA VectorsQueued ==
  ASSUME NEW s \in Id, NEW p
  PROVE  Queued(Vectors(s), p) <=> p = s.pipeline
<1>1. /\ Len(Vectors(s)) = 3
      /\ Vectors(s)[1] = VectorOf(s, "Build") /\ Vectors(s)[2] = VectorOf(s, "Test")
      /\ Vectors(s)[3] = VectorOf(s, "Deploy")
  BY VectorsType
<1>2. /\ ~DeployOf(VectorOf(s, "Build"), p) /\ ~DeployOf(VectorOf(s, "Test"), p)
      /\ DeployOf(VectorOf(s, "Deploy"), p) <=> p = s.pipeline
  BY DEF DeployOf, VectorOf
<1>3. \A i \in 1 .. 3 : i = 1 \/ i = 2 \/ i = 3
  OBVIOUS
<1>4. 3 \in 1 .. 3
  OBVIOUS
<1> QED BY <1>1, <1>2, <1>3, <1>4 DEF Queued

\* A step of the engine that neither counts resonances nor registers an ion.
LEMMA DeploysEngine ==
  ASSUME TypeOK, TypeOK', Deploys, NEW n \in Node,
         resonated' = resonated, ions' = ions,
         disk' = disk \/ Save(n, ions[n]),
         \A k \in Node : todo'[k] \subseteq todo[k],
         \A k \in Node, p \in Pipeline :
            Queued(flywheel'[k], p) => Queued(flywheel[k], p) \/ Backed(resonated', k, p)
  PROVE  Deploys'
<1>1. ions[n] \in SUBSET Pipeline
  BY DEF TypeOK
<1>2. \A k \in Node : disk'[k].ions = disk[k].ions \/ disk'[k].ions = ions'[k]
  BY <1>1, SaveType
<1> QED BY <1>2, DeploysStep

LEMMA DeploysOffer ==
  ASSUME TypeOK, TypeOK', Deploys, NEW m \in net, m.type = "VectorOffer", RunOffer(m)
  PROVE  Deploys'
<1> DEFINE n == m.to
           q == Append(flywheel[n], m.vector)
<1>1. n \in Node /\ m.vector \in Vector /\ flywheel[n] \in Seq(Vector)
  BY Kinds DEF VectorOffer, TypeOK
<1>2. /\ q \in Seq(Vector) /\ Len(q) = Len(flywheel[n]) + 1 /\ Len(flywheel[n]) \in Nat
      /\ \A i \in 1 .. Len(flywheel[n]) : q[i] = flywheel[n][i]
      /\ q[Len(flywheel[n]) + 1] = m.vector
  BY <1>1
<1>3. m.vector.thrust # "Deploy" /\ flywheel' = [flywheel EXCEPT ![n] = Tail(q)]
  BY DEF RunOffer
<1> HIDE DEF q
<1>4. q # <<>>
  <2>1. Len(<<>>) = 0
    OBVIOUS
  <2> QED BY <1>2, <2>1
<1>5. ASSUME NEW p \in Pipeline, Queued(Tail(q), p) PROVE Queued(flywheel[n], p)
  <2>1. Queued(q, p)
    BY <1>2, <1>4, <1>5, TailQueued
  <2>2. PICK i \in 1 .. Len(q) : DeployOf(q[i], p)
    BY <2>1 DEF Queued
  <2>3. i # Len(flywheel[n]) + 1
    BY <1>2, <1>3, <2>2 DEF DeployOf
  <2>4. i \in 1 .. Len(flywheel[n]) /\ DeployOf(flywheel[n][i], p)
    BY <1>2, <2>2, <2>3
  <2> QED BY <2>4 DEF Queued
<1>6. \A k \in Node, p \in Pipeline : Queued(flywheel'[k], p) => Queued(flywheel[k], p)
  BY <1>1, <1>3, <1>5 DEF TypeOK
<1>7. /\ ions' = ions /\ disk' = disk /\ resonated' = resonated /\ todo' = todo
  BY DEF RunOffer, Ending, memory, history
<1> QED BY <1>1, <1>6, <1>7, DeploysEngine

LEMMA DeploysInject ==
  ASSUME TypeOK, TypeOK', Deploys, NEW n \in Node, NEW s \in todo[n], Inject(n, s)
  PROVE  Deploys'
<1>1. s \in Id /\ s.origin = n /\ HasQuorum(s, resonated[s]) /\ flywheel[n] \in Seq(Vector)
  BY DEF TypeOK, Inject, Origin, Deploys
<1>2. /\ flywheel' = [flywheel EXCEPT ![n] = @ \o Vectors(s)]
      /\ todo' = [todo EXCEPT ![n] = @ \ {s}]
      /\ resonated' = resonated /\ ions' = ions /\ disk' = disk
  BY DEF Inject, memory, history
<1>3. ASSUME NEW p \in Pipeline, Queued(flywheel[n] \o Vectors(s), p)
      PROVE  Queued(flywheel[n], p) \/ Backed(resonated', n, p)
  <2>1. Queued(flywheel[n], p) \/ p = s.pipeline
    BY <1>1, <1>3, VectorsType, VectorsQueued, JoinQueued
  <2> QED BY <1>1, <1>2, <2>1 DEF Backed
<1>4. \A k \in Node, p \in Pipeline :
        Queued(flywheel'[k], p) => Queued(flywheel[k], p) \/ Backed(resonated', k, p)
  <2>1. flywheel'[n] = flywheel[n] \o Vectors(s) /\ \A k \in Node \ {n} : flywheel'[k] = flywheel[k]
    BY <1>2 DEF TypeOK
  <2> QED BY <1>3, <2>1
<1>5. \A k \in Node : todo'[k] \subseteq todo[k]
  BY <1>2 DEF TypeOK
<1> QED BY <1>2, <1>4, <1>5, DeploysEngine

\* A step that runs the front of the queue registers at most its ion.
LEMMA DeploysTaken ==
  ASSUME TypeOK, TypeOK', Deploys, NEW n \in Node, Taken(n),
         resonated' = resonated,
         \A k \in Node \ {n} : ions'[k] = ions[k],
         \/ ions'[n] = ions[n]
         \/ /\ Head(flywheel[n]).thrust = "Deploy"
            /\ ions'[n] = ions[n] \cup {Head(flywheel[n]).pipeline},
         disk' = disk \/ Save(n, ions'[n]),
         \A k \in Node : todo'[k] \subseteq todo[k]
  PROVE  Deploys'
<1>1. /\ flywheel[n] \in Seq(Vector) /\ flywheel[n] # <<>>
      /\ flywheel'[n] = Tail(flywheel[n])
      /\ \A k \in Node \ {n} : flywheel'[k] = flywheel[k]
  BY TakenFacts
<1>2. \A k \in Node, p \in Pipeline : Queued(flywheel'[k], p) => Queued(flywheel[k], p)
  BY <1>1, TailQueued
<1>3. ASSUME NEW p \in ions'[n] PROVE p \in ions[n] \/ Queued(flywheel[n], p)
  <2>1. CASE p \in ions[n]
    BY <2>1
  <2>2. CASE p \notin ions[n]
    <3>1. DeployOf(Head(flywheel[n]), p)
      BY <1>3, <2>2 DEF DeployOf
    <3> QED BY <1>1, <3>1, TailQueued
  <2> QED BY <2>1, <2>2
<1>4. \A k \in Node : \A p \in ions'[k] : p \in ions[k] \cup disk[k].ions \/ Queued(flywheel[k], p)
  BY <1>3
<1>5. ions'[n] \in SUBSET Pipeline
  BY DEF TypeOK
<1>6. \A k \in Node : disk'[k].ions = disk[k].ions \/ disk'[k].ions = ions'[k]
  BY <1>5, SaveType
<1> QED BY <1>2, <1>4, <1>6, DeploysStep

LEMMA DeploysFire ==
  ASSUME TypeOK, TypeOK', Deploys, NEW n \in Node, Fire(n)
  PROVE  Deploys'
<1>1. ASSUME NEW s \in todo[n], PassOver(n, s) \/ WorkbenchFails(n, s) PROVE Deploys'
  <2>1. /\ resonated' = resonated /\ ions' = ions /\ disk' = disk /\ flywheel' = flywheel
    BY <1>1 DEF PassOver, WorkbenchFails, memory, engine, history
  <2>2. todo' = [todo EXCEPT ![n] = @ \ {s}] \/ todo' = [todo EXCEPT ![n] = {}]
    BY <1>1 DEF PassOver, WorkbenchFails, Fail
  <2>3. todo'[n] \subseteq todo[n] /\ \A k \in Node \ {n} : todo'[k] = todo[k]
    BY <2>2 DEF TypeOK
  <2>4. \A k \in Node : todo'[k] \subseteq todo[k]
    BY <2>3
  <2> QED BY <2>1, <2>4, DeploysEngine
<1>2. ASSUME NEW s \in todo[n], Inject(n, s) PROVE Deploys'
  BY <1>2, DeploysInject
<1>3. CASE Spin(n)
  <2> DEFINE v == Head(flywheel[n])
  <2>1. Taken(n) /\ resonated' = resonated /\ todo' = todo
    BY <1>3 DEF Spin, handler, history
  <2>2. v.pipeline \in Pipeline
    BY <2>1, TakenFacts DEF Vector
  <2>3. (v.thrust = "Deploy" /\ Birth(n, v.pipeline)) \/ UNCHANGED <<ions, disk>>
    BY <1>3 DEF Spin
  <2>4. /\ \A k \in Node \ {n} : ions'[k] = ions[k]
        /\ ions'[n] = ions[n] \/ (v.thrust = "Deploy" /\ ions'[n] = ions[n] \cup {v.pipeline})
        /\ disk' = disk \/ Save(n, ions'[n])
    BY <2>2, <2>3, BirthType
  <2> QED BY <2>1, <2>4, DeploysTaken
<1>4. CASE RecipeFails(n)
  BY <1>4, DeploysTaken DEF RecipeFails
<1>5. CASE SpinFails(n)
  <2>1. Taken(n) /\ resonated' = resonated
    BY <1>5 DEF SpinFails, history
  <2>2. \A k \in Node : todo'[k] \subseteq todo[k]
    BY <1>5 DEF SpinFails, Fail, TypeOK
  <2> QED BY <1>5, <2>1, <2>2, SpinFailsFacts, DeploysTaken
<1>6. CASE Finish(n)
  BY <1>6, DeploysEngine DEF Finish, engine, history
<1>7. CASE Return(n)
  BY <1>7, DeploysEngine DEF Return, memory, engine, history
<1>8. CASE ReturnFails(n)
  <2>1. \A k \in Node : todo'[k] \subseteq todo[k]
    BY <1>8 DEF ReturnFails, Fail, TypeOK
  <2>2. resonated' = resonated /\ ions' = ions /\ disk' = disk /\ flywheel' = flywheel
    BY <1>8 DEF ReturnFails, memory, engine, history
  <2> QED BY <2>1, <2>2, DeploysStep
<1> QED BY <1>1, <1>2, <1>3, <1>4, <1>5, <1>6, <1>7, <1>8 DEF Fire

LEMMA DeploysCrash ==
  ASSUME TypeOK, TypeOK', Deploys, NEW n \in Node, Crash(n)
  PROVE  Deploys'
<1>1. /\ ions'[n] = disk[n].ions /\ \A k \in Node \ {n} : ions'[k] = ions[k]
      /\ flywheel'[n] = <<>> /\ \A k \in Node \ {n} : flywheel'[k] = flywheel[k]
      /\ todo'[n] = {} /\ \A k \in Node \ {n} : todo'[k] = todo[k]
      /\ resonated' = resonated /\ disk' = disk
  BY DEF TypeOK, Crash, history
<1>2. \A p : ~Queued(<<>>, p)
  BY DEF Queued
<1>3. \A k \in Node : \A p \in ions'[k] : p \in ions[k] \cup disk[k].ions
  BY <1>1
<1>4. \A k \in Node, p \in Pipeline : Queued(flywheel'[k], p) => Queued(flywheel[k], p)
  BY <1>1, <1>2
<1>5. \A k \in Node : todo'[k] \subseteq todo[k]
  BY <1>1
<1> QED BY <1>1, <1>3, <1>4, <1>5, DeploysStep

LEMMA DeploysNext ==
  ASSUME TypeOK, TypeOK', Counts', Deploys, [Next]_vars
  PROVE  Deploys'
<1>1. ASSUME NEW n \in Node, NEW p \in Pipeline, EmitSignal(n, p) PROVE Deploys'
  BY <1>1, DeploysEmit
<1>2. ASSUME NEW n \in Node, NEW s \in Id, Resonate(n, s) PROVE Deploys'
  BY <1>2, DeploysResonate
<1>3. ASSUME NEW m \in net, \/ m.type = "SignalBroadcast" /\ RecvSignal(m)
                            \/ m.type = "Resonance" /\ RecvResonance(m)
                            \/ m.type = "VectorOffer" /\ RunOffer(m)
      PROVE  Deploys'
  BY <1>3, DeploysReceive, DeploysOffer
<1>4. ASSUME NEW n \in Node, Persist(n) PROVE Deploys'
  BY <1>4, DeploysEngine DEF Persist, memory, engine, handler, history
<1>5. ASSUME NEW n \in Node, Fire(n) \/ Crash(n) PROVE Deploys'
  BY <1>5, DeploysFire, DeploysCrash
<1>6. CASE UNCHANGED vars
  <2>1. /\ resonated' = resonated /\ ions' = ions /\ disk' = disk /\ flywheel' = flywheel
        /\ todo' = todo
    BY <1>6 DEF vars, memory, engine, handler, history
  <2> QED BY <2>1, DeploysStep
<1> QED BY <1>1, <1>2, <1>3, <1>4, <1>5, <1>6 DEF Next

\* A node registers an ion only for a signal of its own that had its quorum,
\* however its queue mixed leftovers and the vectors of others.
THEOREM DeploysNeedQuorum == Spec => []DeployedByQuorum
<1>1. Init => TypeOK /\ Counts /\ Deploys
  BY TypeInit, CountsInit, DeploysInit
<1>2. (TypeOK /\ Counts /\ Deploys) /\ [Next]_vars => (TypeOK /\ Counts /\ Deploys)'
  BY TypeNext, CountsNext, DeploysNext
<1>3. TypeOK /\ Counts /\ Deploys => DeployedByQuorum
  BY DEF Deploys, Backed, DeployedByQuorum
<1> QED BY <1>1, <1>2, <1>3, PTL DEF Spec

-----------------------------------------------------------------------------
(* Processed signals.                                                      *)

\* Settled, with the aborted signals named.
SettledIn(A, n, D, I) == \A s \in D : s.origin = n => s.pipeline \in I \/ s \in A

\* The deploy of the signal a node spins has been run or waits in the queue.
Due(signal, I, q) == signal # NoSignal => signal.pipeline \in I \/ Queued(q, signal.pipeline)

\* What is processed is settled, also on disk; and an idle node has nothing to do.
Tidy(n) ==
  /\ SettledIn(aborted, n, processed[n], ions[n])
  /\ SettledIn(aborted, n, disk[n].processed, disk[n].ions)
  /\ Idle(n) => spinning[n] = NoSignal /\ todo[n] = {}
  /\ Due(spinning[n], ions[n], flywheel[n])

AllTidy == \A n \in Node : Tidy(n)

LEMMA TidyInit == Init => AllTidy
<1> SUFFICES ASSUME Init, NEW n \in Node PROVE Tidy(n)
  BY DEF AllTidy
<1>1. /\ processed[n] = {} /\ disk[n].processed = {} /\ spinning[n] = NoSignal /\ todo[n] = {}
  BY DEF Init, Blank
<1> QED BY <1>1 DEF Tidy, SettledIn, Due

\* What was settled stays so as long as nothing is unregistered.
LEMMA SettledGrows ==
  ASSUME NEW A, NEW B, A \subseteq B, NEW n, NEW D, NEW E, NEW I, NEW J,
         SettledIn(A, n, D, I), I \subseteq J,
         \A s \in E : s \in D \/ s.origin # n \/ s.pipeline \in J \/ s \in B
  PROVE  SettledIn(B, n, E, J)
  BY DEF SettledIn

\* What a step of n does to the others: nothing.
Only(n) ==
  /\ aborted \subseteq aborted'
  /\ \A k \in Node \ {n} :
       /\ processed'[k] = processed[k] /\ ions'[k] = ions[k] /\ disk'[k] = disk[k]
       /\ call'[k] = call[k] /\ spinning'[k] = spinning[k] /\ flywheel'[k] = flywheel[k]
       /\ todo'[k] = todo[k]

\* What it does to n: it registers and processes, spins on or stops, and may save.
LEMMA TidyStep ==
  ASSUME TypeOK, TypeOK', AllTidy, NEW n \in Node, Only(n),
         ions[n] \subseteq ions'[n],
         \A s \in processed'[n] :
            s \in processed[n] \/ s.origin # n \/ s.pipeline \in ions'[n] \/ s \in aborted',
         \/ disk'[n].processed = disk[n].processed /\ disk'[n].ions = disk[n].ions
         \/ disk'[n].processed = processed[n] /\ disk'[n].ions = ions'[n],
         \/ spinning'[n] = NoSignal
         \/ ~(call'[n] = "idle") /\ Due(spinning'[n], ions'[n], flywheel'[n]),
         call'[n] = "idle" => todo'[n] = {}
  PROVE  AllTidy'
<1>1. Tidy(n) /\ aborted \subseteq aborted'
  BY DEF AllTidy, Only
<1>2. SettledIn(aborted', n, processed'[n], ions'[n])
  BY <1>1, SettledGrows DEF Tidy
<1>3. SettledIn(aborted', n, processed[n], ions'[n])
  BY <1>1, SettledGrows DEF Tidy
<1>4. SettledIn(aborted', n, disk[n].processed, disk[n].ions)
  BY <1>1, SettledGrows DEF Tidy
<1>5. SettledIn(aborted', n, disk'[n].processed, disk'[n].ions)
  BY <1>3, <1>4
<1>6. /\ Due(spinning'[n], ions'[n], flywheel'[n])
      /\ call'[n] = "idle" => spinning'[n] = NoSignal /\ todo'[n] = {}
  BY DEF Due
<1>7. Tidy(n)'
  BY <1>2, <1>5, <1>6 DEF Tidy, Idle
<1>8. ASSUME NEW k \in Node, k # n PROVE Tidy(k)'
  <2>1. Tidy(k)
    BY DEF AllTidy
  <2>2. /\ processed'[k] = processed[k] /\ ions'[k] = ions[k] /\ disk'[k] = disk[k]
        /\ call'[k] = call[k] /\ spinning'[k] = spinning[k] /\ flywheel'[k] = flywheel[k]
        /\ todo'[k] = todo[k]
    BY <1>8 DEF Only
  <2>3. /\ SettledIn(aborted', k, processed[k], ions[k])
        /\ SettledIn(aborted', k, disk[k].processed, disk[k].ions)
    BY <1>1, <2>1, SettledGrows DEF Tidy
  <2> QED BY <2>1, <2>2, <2>3 DEF Tidy, Idle
<1> QED BY <1>7, <1>8 DEF AllTidy

\* A handler of the Field starts with nothing to spin.
LEMMA TidyField ==
  ASSUME TypeOK, TypeOK', AllTidy, NEW n \in Node, Idle(n),
         spinning' = spinning,
         \A k \in Node \ {n} : call'[k] = call[k] /\ todo'[k] = todo[k],
         call'[n] # "idle" \/ todo'[n] = todo[n],
         processed' = processed, ions' = ions, disk' = disk, aborted' = aborted,
         \A k \in Node \ {n} : flywheel'[k] = flywheel[k]
  PROVE  AllTidy'
<1>1. spinning'[n] = NoSignal /\ (call'[n] # "idle" \/ todo'[n] = {})
  BY DEF AllTidy, Tidy
<1>2. Only(n)
  BY DEF Only
<1> QED BY <1>1, <1>2, TidyStep

LEMMA TidyReceive ==
  ASSUME TypeOK, TypeOK', AllTidy, NEW m \in net,
         \/ m.type = "SignalBroadcast" /\ RecvSignal(m)
         \/ m.type = "Resonance" /\ RecvResonance(m)
         \/ m.type = "VectorOffer" /\ RunOffer(m)
  PROVE  AllTidy'
<1>1. m.to \in Node
  BY Kinds DEF SignalBroadcast, Resonance, VectorOffer
<1>2. /\ Idle(m.to) /\ spinning' = spinning
      /\ processed' = processed /\ ions' = ions /\ disk' = disk /\ aborted' = aborted
  BY DEF RecvSignal, RecvResonance, RunOffer, TryFire, Ending, memory, engine, history
<1>3. /\ \A k \in Node \ {m.to} : call'[k] = call[k] /\ flywheel'[k] = flywheel[k] /\ todo'[k] = todo[k]
      /\ call'[m.to] # "idle" \/ todo'[m.to] = todo[m.to]
  BY <1>1 DEF RecvSignal, RecvResonance, RunOffer, TryFire, Ending, memory, engine, history, TypeOK
<1> QED BY <1>1, <1>2, <1>3, TidyField

LEMMA TidyPassOver ==
  ASSUME TypeOK, TypeOK', AllTidy, NEW n \in Node, NEW s \in todo[n], PassOver(n, s)
  PROVE  AllTidy'
<1>1. s.origin # n /\ spinning'[n] = NoSignal
  BY DEF PassOver, Pending, Origin
<1>2. /\ processed'[n] = processed[n] \cup {s} /\ \A k \in Node \ {n} : processed'[k] = processed[k]
      /\ ions' = ions /\ disk' = disk /\ aborted' = aborted /\ call' = call
      /\ spinning' = spinning /\ flywheel' = flywheel
      /\ todo'[n] = todo[n] \ {s} /\ \A k \in Node \ {n} : todo'[k] = todo[k]
  BY DEF PassOver, TypeOK, engine, history
<1>3. Only(n)
  BY <1>2 DEF Only
<1>4. call'[n] = "idle" => todo'[n] = {}
  BY <1>2 DEF AllTidy, Tidy, Idle
<1> QED BY <1>1, <1>2, <1>3, <1>4, TidyStep

LEMMA TidyInject ==
  ASSUME TypeOK, TypeOK', AllTidy, NEW n \in Node, NEW s \in todo[n], Inject(n, s)
  PROVE  AllTidy'
<1>1. s \in Id /\ spinning[n] = NoSignal /\ flywheel[n] \in Seq(Vector)
  BY DEF TypeOK, Inject, Pending
<1>2. /\ flywheel' = [flywheel EXCEPT ![n] = @ \o Vectors(s)]
      /\ spinning' = [spinning EXCEPT ![n] = s]
      /\ todo' = [todo EXCEPT ![n] = @ \ {s}]
      /\ processed' = processed /\ ions' = ions /\ disk' = disk /\ aborted' = aborted /\ call' = call
  BY DEF Inject, memory, history
<1>3. /\ flywheel'[n] = flywheel[n] \o Vectors(s) /\ spinning'[n] = s
      /\ \A k \in Node \ {n} :
           flywheel'[k] = flywheel[k] /\ spinning'[k] = spinning[k] /\ todo'[k] = todo[k]
  BY <1>2 DEF TypeOK
<1>4. Due(spinning'[n], ions'[n], flywheel'[n])
  BY <1>1, <1>3, VectorsType, VectorsQueued, JoinQueued DEF Due
<1>5. Only(n)
  BY <1>2, <1>3 DEF Only
<1>6. CASE call[n] = "idle"
  <2>1. todo[n] = {}
    BY <1>6 DEF AllTidy, Tidy, Idle
  <2> QED BY <2>1
<1>7. CASE call[n] # "idle"
  BY <1>2, <1>4, <1>5, <1>7, TidyStep
<1> QED BY <1>6, <1>7

\* An error leaves nothing to spin.
LEMMA TidyFail ==
  ASSUME TypeOK, TypeOK', AllTidy, NEW n \in Node, Fail(n),
         processed' = processed, aborted' = aborted,
         \A k \in Node \ {n} : ions'[k] = ions[k] /\ flywheel'[k] = flywheel[k],
         ions[n] \subseteq ions'[n],
         disk' = disk \/ Save(n, ions'[n])
  PROVE  AllTidy'
<1>1. /\ spinning'[n] = NoSignal /\ todo'[n] = {}
      /\ \A k \in Node \ {n} :
           spinning'[k] = spinning[k] /\ call'[k] = call[k] /\ todo'[k] = todo[k]
  BY DEF Fail, TypeOK
<1>2. ions'[n] \in SUBSET Pipeline
  BY DEF TypeOK
<1>3. /\ \A k \in Node \ {n} : disk'[k] = disk[k]
      /\ \/ disk'[n].processed = disk[n].processed /\ disk'[n].ions = disk[n].ions
         \/ disk'[n].processed = processed[n] /\ disk'[n].ions = ions'[n]
  BY <1>2, SaveType
<1>4. Only(n)
  BY <1>1, <1>3 DEF Only
<1> QED BY <1>1, <1>3, <1>4, TidyStep

\* The front of the queue: the deploy looked for, or it waits behind it.
LEMMA TidySpin ==
  ASSUME TypeOK, TypeOK', AllTidy, NEW n \in Node, Spin(n)
  PROVE  AllTidy'
<1> DEFINE v == Head(flywheel[n])
           p == spinning[n].pipeline
<1>1. /\ Taken(n) /\ processed' = processed /\ aborted' = aborted
      /\ call' = call /\ spinning' = spinning /\ todo' = todo
  BY DEF Spin, handler, history
<1>2. /\ spinning[n] # NoSignal
      /\ v.pipeline \in Pipeline
      /\ flywheel[n] \in Seq(Vector) /\ flywheel[n] # <<>>
      /\ flywheel'[n] = Tail(flywheel[n])
      /\ \A k \in Node \ {n} : flywheel'[k] = flywheel[k]
  BY <1>1, TakenFacts DEF Taken, Vector
<1>3. (v.thrust = "Deploy" /\ Birth(n, v.pipeline)) \/ (v.thrust # "Deploy" /\ UNCHANGED <<ions, disk>>)
  BY DEF Spin
<1>4. /\ \A k \in Node \ {n} : ions'[k] = ions[k]
      /\ ions[n] \subseteq ions'[n]
      /\ v.thrust = "Deploy" => v.pipeline \in ions'[n]
      /\ disk' = disk \/ Save(n, ions'[n])
  BY <1>2, <1>3, BirthType
<1>5. Due(spinning'[n], ions'[n], flywheel'[n])
  <2>1. p \in ions[n] \/ Queued(flywheel[n], p)
    BY <1>2 DEF AllTidy, Tidy, Due
  <2>2. p \in ions[n] \/ DeployOf(v, p) \/ Queued(flywheel'[n], p)
    BY <1>2, <2>1, TailQueued
  <2>3. p \in ions'[n] \/ Queued(flywheel'[n], p)
    BY <1>4, <2>2 DEF DeployOf
  <2> QED BY <1>1, <2>3 DEF Due
<1>6. ions'[n] \in SUBSET Pipeline
  BY DEF TypeOK
<1>7. /\ \A k \in Node \ {n} : disk'[k] = disk[k]
      /\ \/ disk'[n].processed = disk[n].processed /\ disk'[n].ions = disk[n].ions
         \/ disk'[n].processed = processed[n] /\ disk'[n].ions = ions'[n]
  BY <1>4, <1>6, SaveType
<1>8. Only(n)
  BY <1>1, <1>2, <1>4, <1>7 DEF Only
<1>9. ~(call'[n] = "idle")
  BY <1>1, <1>2 DEF AllTidy, Tidy, Idle
<1> QED BY <1>1, <1>4, <1>5, <1>7, <1>8, <1>9, TidyStep

LEMMA TidyRecipeFails ==
  ASSUME TypeOK, TypeOK', AllTidy, NEW n \in Node, RecipeFails(n)
  PROVE  AllTidy'
<1>1. Taken(n) /\ ions' = ions /\ disk' = disk /\ call' = call /\ todo' = todo
      /\ aborted' = aborted \cup {spinning[n]}
  BY DEF RecipeFails
<1>2. /\ processed'[n] = processed[n] \cup {spinning[n]} /\ spinning'[n] = NoSignal
      /\ \A k \in Node \ {n} : processed'[k] = processed[k] /\ spinning'[k] = spinning[k]
  BY DEF RecipeFails, TypeOK
<1>3. Only(n)
  BY <1>1, <1>2, TakenFacts DEF Only
<1>4. ~(call'[n] = "idle")
  BY <1>1 DEF Taken, AllTidy, Tidy, Idle
<1> QED BY <1>1, <1>2, <1>3, <1>4, TidyStep

\* The queue is empty: the deploy has been run.
LEMMA TidyFinish ==
  ASSUME TypeOK, TypeOK', AllTidy, NEW n \in Node, Finish(n)
  PROVE  AllTidy'
<1>1. spinning[n] # NoSignal /\ flywheel[n] = <<>>
  BY DEF Finish
<1>2. /\ ions' = ions /\ disk' = disk /\ call' = call /\ aborted' = aborted /\ flywheel' = flywheel
      /\ todo' = todo
      /\ processed'[n] = processed[n] \cup {spinning[n]} /\ spinning'[n] = NoSignal
      /\ \A k \in Node \ {n} : processed'[k] = processed[k] /\ spinning'[k] = spinning[k]
  BY DEF Finish, TypeOK, engine, history
<1>3. ~Queued(<<>>, spinning[n].pipeline)
  BY DEF Queued
<1>4. spinning[n].pipeline \in ions'[n]
  BY <1>1, <1>2, <1>3 DEF AllTidy, Tidy, Due
<1>5. Only(n)
  BY <1>2 DEF Only
<1>6. ~(call'[n] = "idle")
  BY <1>1, <1>2 DEF AllTidy, Tidy, Idle
<1> QED BY <1>2, <1>4, <1>5, <1>6, TidyStep

LEMMA TidySave ==
  ASSUME TypeOK, TypeOK', AllTidy, NEW n \in Node, Return(n) \/ Persist(n)
  PROVE  AllTidy'
<1>1. /\ processed' = processed /\ ions' = ions /\ aborted' = aborted
      /\ spinning' = spinning /\ flywheel' = flywheel /\ todo' = todo
      /\ disk' = disk \/ Save(n, ions[n])
  BY DEF Return, Persist, memory, engine, handler, history
<1>2. spinning'[n] = NoSignal /\ todo'[n] = {}
  BY <1>1 DEF Return, Persist, AllTidy, Tidy
<1>3. \A k \in Node \ {n} : call'[k] = call[k]
  BY DEF Return, Persist, handler, TypeOK
<1>4. ions[n] \in SUBSET Pipeline
  BY DEF TypeOK
<1>5. /\ \A k \in Node \ {n} : disk'[k] = disk[k]
      /\ \/ disk'[n].processed = disk[n].processed /\ disk'[n].ions = disk[n].ions
         \/ disk'[n].processed = processed[n] /\ disk'[n].ions = ions'[n]
  BY <1>1, <1>4, SaveType
<1>6. Only(n)
  BY <1>1, <1>3, <1>5 DEF Only
<1> QED BY <1>1, <1>2, <1>5, <1>6, TidyStep

\* What a restart reads was settled when it was saved.
LEMMA TidyCrash ==
  ASSUME TypeOK, TypeOK', AllTidy, NEW n \in Node, Crash(n)
  PROVE  AllTidy'
<1>1. /\ processed'[n] = disk[n].processed /\ ions'[n] = disk[n].ions
      /\ spinning'[n] = NoSignal /\ todo'[n] = {} /\ disk' = disk /\ aborted' = aborted
      /\ \A k \in Node \ {n} :
           /\ processed'[k] = processed[k] /\ ions'[k] = ions[k]
           /\ call'[k] = call[k] /\ spinning'[k] = spinning[k] /\ flywheel'[k] = flywheel[k]
           /\ todo'[k] = todo[k]
  BY DEF Crash, TypeOK, history
<1>2. Tidy(n)'
  BY <1>1 DEF AllTidy, Tidy, Due
<1>3. ASSUME NEW k \in Node, k # n PROVE Tidy(k)'
  BY <1>1, <1>3 DEF AllTidy, Tidy, Idle
<1> QED BY <1>2, <1>3 DEF AllTidy

LEMMA TidyNext ==
  ASSUME TypeOK, TypeOK', AllTidy, [Next]_vars
  PROVE  AllTidy'
<1>1. ASSUME NEW n \in Node, NEW p \in Pipeline, EmitSignal(n, p) PROVE AllTidy'
  <2>1. /\ Idle(n) /\ spinning' = spinning
        /\ \A k \in Node \ {n} : call'[k] = call[k] /\ todo'[k] = todo[k]
        /\ call'[n] # "idle"
        /\ processed' = processed /\ ions' = ions /\ disk' = disk /\ aborted' = aborted
        /\ flywheel' = flywheel
    BY <1>1 DEF EmitSignal, TryFire, engine, TypeOK
  <2> QED BY <2>1, TidyField
<1>2. ASSUME NEW n \in Node, NEW s \in Id, Resonate(n, s) PROVE AllTidy'
  <2>1. /\ Idle(n) /\ spinning' = spinning
        /\ \A k \in Node \ {n} : call'[k] = call[k] /\ todo'[k] = todo[k]
        /\ call'[n] # "idle"
        /\ processed' = processed /\ ions' = ions /\ disk' = disk /\ aborted' = aborted
        /\ flywheel' = flywheel
    BY <1>2 DEF Resonate, TryFire, engine, TypeOK
  <2> QED BY <2>1, TidyField
<1>3. ASSUME NEW m \in net, \/ m.type = "SignalBroadcast" /\ RecvSignal(m)
                            \/ m.type = "Resonance" /\ RecvResonance(m)
                            \/ m.type = "VectorOffer" /\ RunOffer(m)
      PROVE  AllTidy'
  BY <1>3, TidyReceive
<1>4. ASSUME NEW n \in Node, Persist(n) \/ Crash(n) PROVE AllTidy'
  BY <1>4, TidySave, TidyCrash
<1>5. ASSUME NEW n \in Node, NEW s \in todo[n], PassOver(n, s) \/ Inject(n, s) PROVE AllTidy'
  BY <1>5, TidyPassOver, TidyInject
<1>6. ASSUME NEW n \in Node, NEW s \in todo[n], WorkbenchFails(n, s) PROVE AllTidy'
  BY <1>6, TidyFail DEF WorkbenchFails, memory, engine, history
<1>7. ASSUME NEW n \in Node, SpinFails(n) PROVE AllTidy'
  <2>1. /\ Fail(n) /\ processed' = processed /\ aborted' = aborted /\ Taken(n)
    BY <1>7 DEF SpinFails, history
  <2>2. ions[n] \subseteq ions'[n]
    BY <1>7, SpinFailsFacts
  <2> QED BY <1>7, <2>1, <2>2, SpinFailsFacts, TakenFacts, TidyFail
<1>8. ASSUME NEW n \in Node, Spin(n) \/ RecipeFails(n) \/ Finish(n) \/ Return(n) PROVE AllTidy'
  BY <1>8, TidySpin, TidyRecipeFails, TidyFinish, TidySave
<1>9. ASSUME NEW n \in Node, ReturnFails(n) PROVE AllTidy'
  BY <1>9, TidyFail DEF ReturnFails, memory, engine, history
<1>10. CASE UNCHANGED vars
  BY <1>10 DEF vars, memory, engine, handler, history, AllTidy, Tidy, Idle
<1> QED BY <1>1, <1>2, <1>3, <1>4, <1>5, <1>6, <1>7, <1>8, <1>9, <1>10 DEF Next, Fire

\* Whatever errors and crashes cut a handler short, no signal is marked as
\* processed whose ion its origin has not registered or whose recipe did not fail.
THEOREM ProcessedIsSettled == Spec => []ProcessedSettled
<1>1. Init => TypeOK /\ AllTidy
  BY TypeInit, TidyInit
<1>2. (TypeOK /\ AllTidy) /\ [Next]_vars => (TypeOK /\ AllTidy)'
  BY TypeNext, TidyNext
<1>3. AllTidy => ProcessedSettled
  BY DEF AllTidy, Tidy, SettledIn, Settled, ProcessedSettled
<1> QED BY <1>1, <1>2, <1>3, PTL DEF Spec

-----------------------------------------------------------------------------
(* Ids.                                                                    *)

\* The ids a node knows have nonces it will not use again, not even after a
\* restart.
Used(F, nonce) == \A s \in Id : F[s] # Unknown => s.nonce < nonce

Fresh ==
  \A n \in Node :
    Used(signals[n], next_nonce[n]) /\ Used(disk[n].signals, disk[n].next_nonce)

LEMMA FreshInit == Init => Fresh
<1> SUFFICES ASSUME Init, NEW n \in Node, NEW s \in Id
             PROVE  signals[n][s] = Unknown /\ disk[n].signals[s] = Unknown
  BY DEF Fresh, Used
<1> QED BY DEF Init, Blank, NoField

\* One copy changes, of a signal known or below the new next_nonce.
LEMMA FreshStep ==
  ASSUME TypeOK, TypeOK', Fresh, NEW n \in Node, NEW s \in Id, disk' = disk,
         \A k \in Node \ {n} : next_nonce'[k] = next_nonce[k],
         next_nonce[n] <= next_nonce'[n],
         \A k \in Node, t \in Id : k # n \/ t # s => signals'[k][t] = signals[k][t],
         Known(n, s) \/ s.nonce < next_nonce'[n]
  PROVE  Fresh'
<1>1. \A k \in Node : next_nonce[k] \in Nat /\ next_nonce'[k] \in Nat
  BY BoundAssumption DEF TypeOK
<1>2. \A t \in Id : t.nonce \in Nat
  BY DEF Id
<1>3. ASSUME NEW k \in Node, NEW t \in Id, signals'[k][t] # Unknown
      PROVE  t.nonce < next_nonce'[k]
  <2>1. CASE k = n /\ t = s
    <3>1. s.nonce < next_nonce[n] \/ s.nonce < next_nonce'[n]
      BY DEF Fresh, Used, Known
    <3> QED BY <1>1, <1>2, <2>1, <3>1
  <2>2. CASE ~(k = n /\ t = s)
    <3>1. signals[k][t] # Unknown /\ next_nonce[k] <= next_nonce'[k]
      BY <1>1, <1>3, <2>2
    <3>2. t.nonce < next_nonce[k]
      BY <3>1 DEF Fresh, Used
    <3> QED BY <1>1, <1>2, <3>1, <3>2
  <2> QED BY <2>1, <2>2
<1> QED BY <1>3 DEF Fresh, Used

LEMMA FreshNext ==
  ASSUME TypeOK, TypeOK', Fresh, [Next]_vars
  PROVE  Fresh'
<1>1. \A k \in Node : next_nonce[k] \in Nat
  BY BoundAssumption DEF TypeOK
<1>2. ASSUME NEW n \in Node, NEW p \in Pipeline, EmitSignal(n, p) PROVE Fresh'
  <2> DEFINE s == NewId(n, p)
  <2>1. /\ s \in Id /\ s.nonce = next_nonce[n] /\ disk' = disk
        /\ \A k \in Node, t \in Id : k # n \/ t # s => signals'[k][t] = signals[k][t]
        /\ next_nonce'[n] = next_nonce[n] + 1
        /\ \A k \in Node \ {n} : next_nonce'[k] = next_nonce[k]
    BY <1>2, EmitStep
  <2> HIDE DEF s
  <2>2. next_nonce[n] <= next_nonce'[n] /\ s.nonce < next_nonce'[n]
    BY <1>1, <2>1
  <2> QED BY <2>1, <2>2, FreshStep
<1>3. ASSUME NEW n \in Node, NEW s \in Id, Resonate(n, s) PROVE Fresh'
  <2>1. /\ Known(n, s) /\ next_nonce' = next_nonce /\ disk' = disk
        /\ \A k \in Node, t \in Id : k # n \/ t # s => signals'[k][t] = signals[k][t]
    BY <1>3, ResonateStep
  <2>2. next_nonce[n] <= next_nonce'[n]
    BY <1>1, <2>1
  <2> QED BY <2>1, <2>2, FreshStep
<1>4. ASSUME NEW m \in net, m.type = "SignalBroadcast", RecvSignal(m) PROVE Fresh'
  <2>1. m.to \in Node /\ m.id \in Id /\ m.id.nonce \in Nat
    BY <1>4, RecvSignalStep DEF Id
  <2>2. next_nonce[m.to] <= next_nonce'[m.to] /\ m.id.nonce < next_nonce'[m.to]
    BY <1>1, <1>4, <2>1, RecvSignalStep DEF Above
  <2> QED BY <1>4, <2>1, <2>2, RecvSignalStep, FreshStep
<1>5. ASSUME NEW m \in net, m.type = "Resonance", RecvResonance(m) PROVE Fresh'
  <2>1. m.to \in Node /\ m.id \in Id /\ next_nonce' = next_nonce /\ disk' = disk
    BY <1>5, RecvResonanceStep
  <2>2. next_nonce[m.to] <= next_nonce'[m.to]
    BY <1>1, <2>1
  <2>3. CASE Known(m.to, m.id)
    <3>1. \A k \in Node, t \in Id : k # m.to \/ t # m.id => signals'[k][t] = signals[k][t]
      BY <1>5, <2>3, RecvResonanceStep
    <3> QED BY <2>1, <2>2, <2>3, <3>1, FreshStep
  <2>4. CASE ~Known(m.to, m.id)
    <3>1. signals' = signals
      BY <1>5, <2>4, RecvResonanceStep
    <3> QED BY <2>1, <3>1 DEF Fresh, Used
  <2> QED BY <2>3, <2>4
<1>6. ASSUME NEW n \in Node, Crash(n) PROVE Fresh'
  BY <1>6, CrashStep DEF Fresh, Used
<1>7. CASE Quiet
  <2>1. ASSUME NEW k \in Node PROVE Used(disk'[k].signals, disk'[k].next_nonce)
    <3>1. Used(signals[k], next_nonce[k]) /\ Used(disk[k].signals, disk[k].next_nonce)
      BY DEF Fresh
    <3> QED BY <1>7, <3>1 DEF Quiet
  <2> QED BY <1>7, <2>1 DEF Quiet, Fresh
<1> QED BY <1>2, <1>3, <1>4, <1>5, <1>6, <1>7, Steps

LEMMA FreshAlways == Spec => [](TypeOK /\ Fresh)
<1>1. Init => TypeOK /\ Fresh
  BY TypeInit, FreshInit
<1>2. (TypeOK /\ Fresh) /\ [Next]_vars => (TypeOK /\ Fresh)'
  BY TypeNext, FreshNext
<1> QED BY <1>1, <1>2, PTL DEF Spec

\* y says at least what x says.
Extends(x, y) == x.resonators \subseteq y.resonators /\ (x.fired => y.fired)

LEMMA JoinedExtends ==
  ASSUME NEW s \in Id, NEW x \in Signal, NEW S \in SUBSET Node
  PROVE  Extends(x, Joined(s, x, S))
  BY DEF Extends, Joined

LEMMA AbsorbedExtends ==
  ASSUME TypeOK, NEW n \in Node, NEW s \in Id, NEW x \in Signal
  PROVE  Extends(signals[n][s], Absorbed(n, s, x))
<1> DEFINE own == Joined(s, signals[n][s], x.resonators)
<1>1. signals[n][s] \in Signal /\ x.resonators \in SUBSET Node /\ x.fired \in BOOLEAN
  BY DEF TypeOK, Signal
<1>2. own \in Signal /\ Extends(signals[n][s], own)
  BY <1>1, JoinedType, JoinedExtends
<1>3. CASE Known(n, s)
  <2>1. Absorbed(n, s, x) = [own EXCEPT !.fired = @ \/ x.fired]
    BY <1>3 DEF Absorbed
  <2> HIDE DEF own
  <2>2. Extends(own, Absorbed(n, s, x))
    BY <1>1, <1>2, <2>1 DEF Extends, Signal
  <2> QED BY <1>2, <2>2 DEF Extends
<1>4. CASE ~Known(n, s)
  <2>1. signals[n][s] = Unknown
    BY <1>4 DEF Known
  <2> QED BY <2>1, UnknownType DEF Extends
<1> QED BY <1>3, <1>4

LEMMA CopiesGrow ==
  ASSUME TypeOK, Fresh, [Next]_vars, crashes' = crashes, NEW k \in Node, NEW t \in Id
  PROVE  Extends(signals[k][t], signals'[k][t])
<1>1. signals[k][t] \in Signal
  BY DEF TypeOK
<1>2. CASE signals'[k][t] = signals[k][t]
  BY <1>2 DEF Extends
<1>3. ASSUME NEW n \in Node, NEW p \in Pipeline, EmitSignal(n, p)
      PROVE  Extends(signals[k][t], signals'[k][t])
  <2>1. CASE k = n /\ t = NewId(n, p)
    <3>1. t.nonce = next_nonce[k] /\ next_nonce[k] \in Nat
      BY <2>1, BoundAssumption DEF NewId, TypeOK
    <3>2. signals[k][t] = Unknown
      BY <3>1 DEF Fresh, Used
    <3> QED BY <3>2, UnknownType DEF Extends
  <2>2. CASE ~(k = n /\ t = NewId(n, p))
    BY <1>2, <1>3, <2>2, EmitStep
  <2> QED BY <2>1, <2>2
<1>4. ASSUME NEW n \in Node, NEW s \in Id, Resonate(n, s)
      PROVE  Extends(signals[k][t], signals'[k][t])
  <2>1. signals[n][s] \in Signal /\ {n} \in SUBSET Node
    BY DEF TypeOK
  <2>2. /\ signals'[n][s] = Joined(s, signals[n][s], {n})
        /\ \A i \in Node, j \in Id : i # n \/ j # s => signals'[i][j] = signals[i][j]
    BY <1>4, ResonateStep
  <2>3. Extends(signals[n][s], signals'[n][s])
    BY <2>1, <2>2, JoinedExtends
  <2> QED BY <1>2, <2>2, <2>3
<1>5. ASSUME NEW m \in net, m.type = "SignalBroadcast", RecvSignal(m)
      PROVE  Extends(signals[k][t], signals'[k][t])
  <2>1. /\ m.to \in Node /\ m.id \in Id /\ m.signal \in Signal
        /\ signals'[m.to][m.id] = Absorbed(m.to, m.id, m.signal)
        /\ k # m.to \/ t # m.id => signals'[k][t] = signals[k][t]
    BY <1>5, RecvSignalStep
  <2>2. Extends(signals[m.to][m.id], signals'[m.to][m.id])
    BY <2>1, AbsorbedExtends
  <2> QED BY <1>2, <2>1, <2>2
<1>6. ASSUME NEW m \in net, m.type = "Resonance", RecvResonance(m)
      PROVE  Extends(signals[k][t], signals'[k][t])
  <2>1. m.to \in Node /\ m.id \in Id /\ m.resonator \in Node
    BY <1>6, RecvResonanceStep
  <2>2. \/ signals'[k][t] = signals[k][t]
        \/ /\ k = m.to /\ t = m.id
           /\ signals'[m.to][m.id] = Joined(m.id, signals[m.to][m.id], {m.resonator})
    BY <1>6, RecvResonanceStep
  <2>3. signals[m.to][m.id] \in Signal /\ {m.resonator} \in SUBSET Node
    BY <2>1 DEF TypeOK
  <2>4. Extends(signals[m.to][m.id], Joined(m.id, signals[m.to][m.id], {m.resonator}))
    BY <2>1, <2>3, JoinedExtends
  <2> QED BY <1>2, <2>2, <2>4
<1>7. ASSUME NEW n \in Node, Crash(n) PROVE FALSE
  BY <1>7, CrashStep DEF TypeOK
<1>8. CASE Quiet
  BY <1>2, <1>8 DEF Quiet
<1> QED BY <1>3, <1>4, <1>5, <1>6, <1>7, <1>8, Steps

\* Between two crashes no node forgets a resonance or a firing: a new signal
\* never takes the id of one the node knows, also after a restart.
THEOREM FieldOnlyGrows == Spec => FieldGrows
<1>1. TypeOK /\ Fresh /\ [Next]_vars =>
        [crashes' = crashes =>
           \A n \in Node, s \in Id :
             /\ signals[n][s].resonators \subseteq signals'[n][s].resonators
             /\ FiredAt(n, s) => signals'[n][s].fired]_vars
  BY CopiesGrow DEF Extends, FiredAt
<1> QED BY <1>1, FreshAlways, PTL DEF Spec, FieldGrows

-----------------------------------------------------------------------------
(* What the origin hears.                                                  *)

AllRipe ==
  /\ \A n \in Node, s \in Id : Ripe(s, signals[n][s]) /\ Ripe(s, disk[n].signals[s])
  /\ \A m \in net : m.type = "SignalBroadcast" => Ripe(m.id, m.signal)

LEMMA RipeInit == Init => AllRipe
<1> SUFFICES ASSUME Init PROVE AllRipe
  OBVIOUS
<1>1. \A s \in Id : Ripe(s, Unknown)
  BY UnknownType, NobodyIsNoQuorum DEF Ripe
<1>2. \A n \in Node, s \in Id : signals[n][s] = Unknown /\ disk[n].signals[s] = Unknown
  BY DEF Init, Blank, NoField
<1>3. net = {}
  BY DEF Init
<1> QED BY <1>1, <1>2, <1>3 DEF AllRipe

LEMMA RipeJoined ==
  ASSUME NEW s \in Id, NEW x \in Signal, NEW S \in SUBSET Node
  PROVE  Ripe(s, Joined(s, x, S))
  BY DEF Ripe, Joined

LEMMA RipeAbsorbed ==
  ASSUME TypeOK, NEW n \in Node, NEW s \in Id, NEW x \in Signal, Ripe(s, x)
  PROVE  Ripe(s, Absorbed(n, s, x))
<1> DEFINE own == Joined(s, signals[n][s], x.resonators)
<1>1. signals[n][s] \in Signal /\ x.resonators \in SUBSET Node /\ x.fired \in BOOLEAN
  BY DEF TypeOK, Signal
<1>2. own \in Signal /\ Ripe(s, own)
  BY <1>1, JoinedType, RipeJoined
<1>3. CASE Known(n, s)
  <2>1. Absorbed(n, s, x) = [own EXCEPT !.fired = @ \/ x.fired]
    BY <1>3 DEF Absorbed
  <2> HIDE DEF own
  <2>2. Absorbed(n, s, x).resonators = own.resonators /\ (own.fired => Absorbed(n, s, x).fired)
    BY <1>1, <1>2, <2>1 DEF Signal
  <2> QED BY <1>2, <2>2 DEF Ripe
<1>4. CASE ~Known(n, s)
  BY <1>4 DEF Absorbed
<1> QED BY <1>3, <1>4

LEMMA RipeStep ==
  ASSUME AllRipe,
         \A n \in Node, s \in Id :
            \/ signals'[n][s] = signals[n][s] \/ signals'[n][s] = disk[n].signals[s]
            \/ Ripe(s, signals'[n][s]),
         \A n \in Node : \/ disk'[n].signals = disk[n].signals
                         \/ disk'[n].signals = signals[n],
         \A m \in net' :
            \/ m \in net \/ m.type \in {"VectorOffer", "Resonance"}
            \/ m.type = "SignalBroadcast" /\ Ripe(m.id, m.signal)
  PROVE  AllRipe'
<1>1. ASSUME NEW n \in Node, NEW s \in Id
      PROVE  Ripe(s, signals'[n][s]) /\ Ripe(s, disk'[n].signals[s])
  <2>1. Ripe(s, signals[n][s]) /\ Ripe(s, disk[n].signals[s])
    BY DEF AllRipe
  <2> QED BY <2>1
<1>2. ASSUME NEW m \in net', m.type = "SignalBroadcast" PROVE Ripe(m.id, m.signal)
  BY <1>2 DEF AllRipe
<1> QED BY <1>1, <1>2 DEF AllRipe

LEMMA RipeNext ==
  ASSUME TypeOK, AllRipe, [Next]_vars
  PROVE  AllRipe'
<1>1. ASSUME NEW n \in Node, NEW p \in Pipeline, EmitSignal(n, p) PROVE AllRipe'
  <2> DEFINE s == NewId(n, p)
             x == Newborn(n, s)
  <2>1. /\ s \in Id /\ signals'[n][s] = x
        /\ \A k \in Node, t \in Id : k # n \/ t # s => signals'[k][t] = signals[k][t]
        /\ \A m \in net' : m \in net \/ (m.type = "SignalBroadcast" /\ m.id = s /\ m.signal = x)
        /\ disk' = disk
    BY <1>1, EmitStep
  <2>2. Ripe(s, x)
    BY <2>1, UnknownType, RipeJoined DEF Newborn
  <2> HIDE DEF s, x
  <2>3. /\ \A k \in Node, t \in Id : signals'[k][t] = signals[k][t] \/ Ripe(t, signals'[k][t])
        /\ \A m \in net' : m \in net \/ (m.type = "SignalBroadcast" /\ Ripe(m.id, m.signal))
    BY <2>1, <2>2
  <2> QED BY <2>1, <2>3, RipeStep
<1>2. ASSUME NEW n \in Node, NEW s \in Id, Resonate(n, s) PROVE AllRipe'
  <2> DEFINE x == Joined(s, signals[n][s], {n})
  <2>1. /\ signals'[n][s] = x
        /\ \A k \in Node, t \in Id : k # n \/ t # s => signals'[k][t] = signals[k][t]
        /\ net' = net \cup {[type |-> "Resonance", to |-> q, id |-> s, resonator |-> n] : q \in Node \ {n}}
        /\ disk' = disk
    BY <1>2, ResonateStep
  <2>2. Ripe(s, x)
    <3>1. signals[n][s] \in Signal /\ {n} \in SUBSET Node
      BY DEF TypeOK
    <3> QED BY <3>1, RipeJoined
  <2> HIDE DEF x
  <2>3. /\ \A k \in Node, t \in Id : signals'[k][t] = signals[k][t] \/ Ripe(t, signals'[k][t])
        /\ \A m \in net' : m \in net \/ m.type = "Resonance"
    BY <2>1, <2>2
  <2> QED BY <2>1, <2>3, RipeStep
<1>3. ASSUME NEW m \in net, m.type = "SignalBroadcast", RecvSignal(m) PROVE AllRipe'
  <2>1. /\ m.to \in Node /\ m.id \in Id /\ m.signal \in Signal
        /\ signals'[m.to][m.id] = Absorbed(m.to, m.id, m.signal)
        /\ \A k \in Node, t \in Id : k # m.to \/ t # m.id => signals'[k][t] = signals[k][t]
        /\ net' = net \ {m} /\ disk' = disk
    BY <1>3, RecvSignalStep
  <2>2. Ripe(m.id, signals'[m.to][m.id])
    BY <1>3, <2>1, RipeAbsorbed DEF AllRipe
  <2>3. \A k \in Node, t \in Id : signals'[k][t] = signals[k][t] \/ Ripe(t, signals'[k][t])
    BY <2>1, <2>2
  <2> QED BY <2>1, <2>3, RipeStep
<1>4. ASSUME NEW m \in net, m.type = "Resonance", RecvResonance(m) PROVE AllRipe'
  <2>1. /\ m.to \in Node /\ m.id \in Id /\ m.resonator \in Node
        /\ \/ /\ signals'[m.to][m.id] = Joined(m.id, signals[m.to][m.id], {m.resonator})
              /\ \A k \in Node, t \in Id : k # m.to \/ t # m.id => signals'[k][t] = signals[k][t]
           \/ signals' = signals
        /\ net' = net \ {m} /\ disk' = disk
    BY <1>4, RecvResonanceStep
  <2>2. Ripe(m.id, Joined(m.id, signals[m.to][m.id], {m.resonator}))
    <3>1. signals[m.to][m.id] \in Signal /\ {m.resonator} \in SUBSET Node
      BY <2>1 DEF TypeOK
    <3> QED BY <2>1, <3>1, RipeJoined
  <2>3. \A k \in Node, t \in Id : signals'[k][t] = signals[k][t] \/ Ripe(t, signals'[k][t])
    BY <2>1, <2>2
  <2> QED BY <2>1, <2>3, RipeStep
<1>5. ASSUME NEW n \in Node, Crash(n) PROVE AllRipe'
  <2>1. /\ signals'[n] = disk[n].signals /\ \A k \in Node \ {n} : signals'[k] = signals[k]
        /\ net' = net /\ disk' = disk
    BY <1>5, CrashStep
  <2> QED BY <2>1, RipeStep
<1>6. CASE Quiet
  <2>1. \A k \in Node : disk'[k].signals = disk[k].signals \/ disk'[k].signals = signals[k]
    BY <1>6 DEF Quiet
  <2> QED BY <1>6, <2>1, RipeStep DEF Quiet
<1> QED BY <1>1, <1>2, <1>3, <1>4, <1>5, <1>6, Steps

\* r's resonance with s is on its way to the origin.
OnItsWay(s, r) ==
  \E m \in net : m.type = "Resonance" /\ m.to = s.origin /\ m.id = s /\ m.resonator = r

\* Until somebody crashes, the origin of a signal that anybody resonates with
\* knows it, and counts them or is about to.
Heard ==
  crashes = 0 =>
    \A s \in Id : \A r \in resonated[s] :
      /\ Known(s.origin, s)
      /\ r \in signals[s.origin][s].resonators \/ OnItsWay(s, r)

LEMMA HeardInit == Init => Heard
  BY DEF Init, Heard

LEMMA KnownGrows ==
  ASSUME TypeOK, TypeOK', Fresh, [Next]_vars, crashes' = crashes,
         NEW n \in Node, NEW s \in Id, Known(n, s)
  PROVE  signals'[n][s] # Unknown
<1>1. signals[n][s] \in Signal /\ signals[n][s] # Unknown /\ signals'[n][s] \in Signal
  BY DEF TypeOK, Known
<1>2. signals[n][s].resonators # {} \/ signals[n][s].fired
  BY <1>1, UnknownType
<1>3. Extends(signals[n][s], signals'[n][s])
  BY CopiesGrow
<1> QED BY <1>2, <1>3, UnknownType DEF Extends

\* Whoever knows a signal knows of somebody who resonated with it.
LEMMA KnownIsResonated ==
  ASSUME TypeOK, Counts, NEW n \in Node, NEW s \in Id, Known(n, s)
  PROVE  resonated[s] # {}
<1>1. signals[n][s] \in Signal /\ signals[n][s] # Unknown
  BY DEF TypeOK, Known
<1>2. signals[n][s].resonators # {} \/ signals[n][s].fired
  BY <1>1, UnknownType
<1>3. Real(resonated, s, signals[n][s])
  BY DEF Counts
<1> QED BY <1>2, <1>3, NobodyIsNoQuorum DEF Real

\* Whoever was counted, or on the way and still is, needs no second look.
LEMMA HeardStep ==
  ASSUME TypeOK, TypeOK', Fresh, [Next]_vars, Heard, crashes' = crashes,
         \A s \in Id : \A r \in resonated'[s] :
            \/ /\ r \in resonated[s]
               /\ OnItsWay(s, r) =>
                    OnItsWay(s, r)' \/ r \in signals'[s.origin][s].resonators
            \/ /\ signals'[s.origin][s] # Unknown
               /\ r \in signals'[s.origin][s].resonators \/ OnItsWay(s, r)'
  PROVE  Heard'
<1> SUFFICES ASSUME crashes = 0, NEW s \in Id, NEW r \in resonated'[s], r \in resonated[s],
                    OnItsWay(s, r) => OnItsWay(s, r)' \/ r \in signals'[s.origin][s].resonators
             PROVE  /\ signals'[s.origin][s] # Unknown
                    /\ r \in signals'[s.origin][s].resonators \/ OnItsWay(s, r)'
  BY DEF Heard, Known
<1>1. s.origin \in Node
  BY DEF Id
<1>2. /\ Known(s.origin, s)
      /\ r \in signals[s.origin][s].resonators \/ OnItsWay(s, r)
  BY DEF Heard
<1>3. signals'[s.origin][s] # Unknown
  BY <1>1, <1>2, KnownGrows
<1>4. Extends(signals[s.origin][s], signals'[s.origin][s])
  BY <1>1, CopiesGrow
<1> QED BY <1>2, <1>3, <1>4 DEF Extends

\* Nothing new was resonated with, and every resonance is still on its way.
LEMMA HeardQuiet ==
  ASSUME TypeOK, TypeOK', Fresh, [Next]_vars, Heard, crashes' = crashes,
         resonated' = resonated,
         \A m \in net : m \in net' \/ m.type # "Resonance"
  PROVE  Heard'
<1>1. \A s \in Id, r \in Node : OnItsWay(s, r) => OnItsWay(s, r)'
  BY DEF OnItsWay
<1>2. resonated \in [Id -> SUBSET Node]
  BY DEF TypeOK
<1> QED BY <1>1, <1>2, HeardStep

LEMMA HeardEmit ==
  ASSUME TypeOK, TypeOK', Fresh, Heard, [Next]_vars, crashes = 0,
         NEW n \in Node, NEW p \in Pipeline, EmitSignal(n, p)
  PROVE  Heard'
<1> DEFINE s == NewId(n, p)
<1>1. /\ s \in Id /\ s.origin = n /\ s.nonce = next_nonce[n]
      /\ signals'[n][s] = Newborn(n, s)
      /\ resonated'[s] = resonated[s] \cup {n}
      /\ \A t \in Id \ {s} : resonated'[t] = resonated[t]
      /\ net \subseteq net' /\ crashes' = crashes
  BY EmitStep
<1>2. next_nonce[n] \in Nat
  BY BoundAssumption DEF TypeOK
<1> HIDE DEF s
<1>3. ~Known(n, s)
  BY <1>1, <1>2 DEF Fresh, Used, Known
<1>4. resonated[s] = {}
  BY <1>1, <1>3 DEF Heard
<1>5. n \in signals'[n][s].resonators /\ signals'[n][s] # Unknown
  <2>1. n \in Newborn(n, s).resonators
    BY <1>1 DEF Newborn, Joined
  <2> QED BY <1>1, <2>1, UnknownType
<1>6. \A t \in Id : \A r \in resonated'[t] :
         \/ r \in resonated[t] /\ (OnItsWay(t, r) => OnItsWay(t, r)')
         \/ /\ signals'[t.origin][t] # Unknown
            /\ r \in signals'[t.origin][t].resonators
  <2>1. \A t \in Id : \A r : OnItsWay(t, r) => OnItsWay(t, r)'
    BY <1>1 DEF OnItsWay
  <2> QED BY <1>1, <1>4, <1>5, <2>1
<1> QED BY <1>1, <1>6, HeardStep

LEMMA HeardResonate ==
  ASSUME TypeOK, TypeOK', Counts, Fresh, Heard, [Next]_vars, crashes = 0,
         NEW n \in Node, NEW s \in Id, Resonate(n, s)
  PROVE  Heard'
<1>1. /\ Known(n, s)
      /\ signals'[n][s] = Joined(s, signals[n][s], {n})
      /\ resonated'[s] = resonated[s] \cup {n}
      /\ \A t \in Id \ {s} : resonated'[t] = resonated[t]
      /\ net' = net \cup {[type |-> "Resonance", to |-> q, id |-> s, resonator |-> n] : q \in Node \ {n}}
      /\ crashes' = crashes
  BY ResonateStep
<1>2. s.origin \in Node
  BY DEF Id
<1>3. signals'[s.origin][s] # Unknown
  <2>1. resonated[s] # {}
    BY <1>1, KnownIsResonated
  <2>2. Known(s.origin, s)
    BY <2>1 DEF Heard
  <2> QED BY <1>1, <1>2, <2>2, KnownGrows
<1>4. n \in signals'[s.origin][s].resonators \/ OnItsWay(s, n)'
  <2>1. CASE s.origin = n
    BY <1>1, <2>1 DEF Joined
  <2>2. CASE s.origin # n
    <3> DEFINE m == [type |-> "Resonance", to |-> s.origin, id |-> s, resonator |-> n]
    <3>1. m \in net'
      BY <1>1, <1>2, <2>2
    <3>2. m.type = "Resonance" /\ m.to = s.origin /\ m.id = s /\ m.resonator = n
      OBVIOUS
    <3> HIDE DEF m
    <3> QED BY <3>1, <3>2 DEF OnItsWay
  <2> QED BY <2>1, <2>2
<1>5. \A t \in Id : \A r : OnItsWay(t, r) => OnItsWay(t, r)'
  <2>1. net \subseteq net'
    BY <1>1
  <2> QED BY <2>1 DEF OnItsWay
<1>6. \A t \in Id : \A r \in resonated'[t] : r \in resonated[t] \/ (t = s /\ r = n)
  BY <1>1
<1>7. \A t \in Id : \A r \in resonated'[t] :
         \/ r \in resonated[t] /\ (OnItsWay(t, r) => OnItsWay(t, r)')
         \/ /\ signals'[t.origin][t] # Unknown
            /\ r \in signals'[t.origin][t].resonators \/ OnItsWay(t, r)'
  BY <1>3, <1>4, <1>5, <1>6
<1> QED BY <1>1, <1>7, HeardStep

\* The origin does not drop a resonance, and nobody else is waited for.
LEMMA HeardRecvResonance ==
  ASSUME TypeOK, TypeOK', Counts, Fresh, Heard, [Next]_vars, crashes = 0,
         NEW m \in net, m.type = "Resonance", RecvResonance(m)
  PROVE  Heard'
<1>1. /\ m.to \in Node /\ m.id \in Id /\ m.resonator \in Node
      /\ \/ signals'[m.to][m.id] = Joined(m.id, signals[m.to][m.id], {m.resonator})
         \/ ~Known(m.to, m.id)
      /\ resonated' = resonated /\ net' = net \ {m} /\ crashes' = crashes
  BY RecvResonanceStep
<1>2. CASE m.to = m.id.origin
  <2>1. m.resonator \in resonated[m.id]
    BY DEF Counts
  <2>2. Known(m.to, m.id)
    BY <1>1, <1>2, <2>1 DEF Heard
  <2>3. m.resonator \in signals'[m.id.origin][m.id].resonators
    BY <1>1, <1>2, <2>2 DEF Joined
  <2>4. \A s \in Id : \A r \in resonated[s] :
          OnItsWay(s, r) => OnItsWay(s, r)' \/ r \in signals'[s.origin][s].resonators
    <3> SUFFICES ASSUME NEW s \in Id, NEW r \in resonated[s], OnItsWay(s, r)
                 PROVE  OnItsWay(s, r)' \/ r \in signals'[s.origin][s].resonators
      OBVIOUS
    <3>1. PICK k \in net : k.type = "Resonance" /\ k.to = s.origin /\ k.id = s /\ k.resonator = r
      BY DEF OnItsWay
    <3>2. CASE k = m
      BY <2>3, <3>1, <3>2
    <3>3. CASE k # m
      BY <1>1, <3>1, <3>3 DEF OnItsWay
    <3> QED BY <3>2, <3>3
  <2> QED BY <1>1, <2>4, HeardStep
<1>3. CASE m.to # m.id.origin
  <2>1. \A s \in Id, r \in Node : OnItsWay(s, r) => OnItsWay(s, r)'
    BY <1>1, <1>3 DEF OnItsWay
  <2>2. resonated \in [Id -> SUBSET Node]
    BY DEF TypeOK
  <2> QED BY <1>1, <2>1, <2>2, HeardStep
<1> QED BY <1>2, <1>3

LEMMA HeardNext ==
  ASSUME TypeOK, TypeOK', Counts, Fresh, Heard, [Next]_vars
  PROVE  Heard'
<1> SUFFICES ASSUME crashes' = 0 PROVE Heard'
  BY DEF Heard
<1>1. ASSUME NEW n \in Node, Crash(n) PROVE FALSE
  BY <1>1, CrashStep DEF TypeOK
<1>2. ASSUME NEW n \in Node, NEW p \in Pipeline, EmitSignal(n, p) PROVE Heard'
  <2>1. crashes = 0
    BY <1>2, EmitStep
  <2> QED BY <1>2, <2>1, HeardEmit
<1>3. ASSUME NEW n \in Node, NEW s \in Id, Resonate(n, s) PROVE Heard'
  <2>1. crashes = 0
    BY <1>3, ResonateStep
  <2> QED BY <1>3, <2>1, HeardResonate
<1>4. ASSUME NEW m \in net, m.type = "SignalBroadcast", RecvSignal(m) PROVE Heard'
  <2>1. resonated' = resonated /\ net' = net \ {m} /\ crashes' = crashes
    BY <1>4, RecvSignalStep
  <2> QED BY <1>4, <2>1, HeardQuiet
<1>5. ASSUME NEW m \in net, m.type = "Resonance", RecvResonance(m) PROVE Heard'
  <2>1. crashes = 0
    BY <1>5, RecvResonanceStep
  <2> QED BY <1>5, <2>1, HeardRecvResonance
<1>6. CASE Quiet
  <2>1. \A m \in net : m \in net' \/ m.type # "Resonance"
    BY <1>6 DEF Quiet
  <2> QED BY <1>6, <2>1, HeardQuiet DEF Quiet
<1> QED BY <1>1, <1>2, <1>3, <1>4, <1>5, <1>6, Steps

\* Nodes may miss a resonance that overtakes its signal, but not the origin:
\* until somebody crashes, a quorum has fired there or is on its way.
THEOREM OriginHearsQuorum == Spec => []QuorumHeard
<1> DEFINE Inv == TypeOK /\ Counts /\ Fresh /\ AllRipe /\ Heard
<1>1. Init => Inv
  BY TypeInit, CountsInit, FreshInit, RipeInit, HeardInit
<1>2. Inv /\ [Next]_vars => Inv'
  <2> SUFFICES ASSUME Inv, [Next]_vars PROVE Inv'
    OBVIOUS
  <2>1. TypeOK'
    BY TypeNext
  <2> QED BY <2>1, CountsNext, FreshNext, RipeNext, HeardNext
<1>3. Inv => QuorumHeard
  <2> SUFFICES ASSUME Inv, crashes = 0, NEW s \in Id, HasQuorum(s, resonated[s]),
                      ~\E m \in net : m.type = "Resonance" /\ m.to = s.origin /\ m.id = s
               PROVE  signals[s.origin][s].fired
    BY DEF QuorumHeard, FiredAt
  <2>1. s.origin \in Node
    BY DEF Id
  <2>2. resonated[s] \subseteq signals[s.origin][s].resonators
    BY DEF Heard, OnItsWay
  <2>3. signals[s.origin][s].resonators \in SUBSET Node
    BY <2>1 DEF TypeOK, Signal
  <2>4. HasQuorum(s, signals[s.origin][s].resonators)
    BY <2>2, <2>3, QuorumGrows
  <2> QED BY <2>1, <2>4 DEF AllRipe, Ripe
<1> HIDE DEF Inv
<1> QED BY <1>1, <1>2, <1>3, PTL DEF Spec
=============================================================================
