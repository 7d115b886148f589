------------------------------ MODULE TheField ------------------------------
(***************************************************************************)
(* The Field of crates/thefield, the Flywheel of crates/inertia and the    *)
(* part of mycelium-node that joins them.  A signal proposes a pipeline    *)
(* and fires once a quorum of nodes resonates with it.  Its origin then    *)
(* builds, tests and deploys the ion; the other nodes may run the Build    *)
(* and Test vectors they are offered.  A node runs one handler at a time;  *)
(* a crash or an error may cut it short, and what a handler saves it saves *)
(* at its end or when it registers an ion.                                 *)
(***************************************************************************)
EXTENDS Naturals, Sequences, FiniteSets

CONSTANTS
  Node,      \* nodes
  Pipeline,  \* proposals: a plot and the ion it becomes
  Quorum,    \* Quorum[p]: the quorum p is proposed with
  Emitter,   \* nodes whose users emit signals
  Mortal,    \* nodes that may crash
  NoSignal,  \* spinning nothing
  MaxNonce,  \* bound on next_nonce
  MaxEmits,  \* bound on the signals emitted
  MaxFaults  \* bound on crashes, failing recipes and errors

ASSUME QuorumAssumption == Quorum \in [Pipeline -> Nat]
ASSUME NodeAssumption == IsFiniteSet(Node)
ASSUME RoleAssumption == Emitter \subseteq Node /\ Mortal \subseteq Node
ASSUME BoundAssumption == MaxNonce \in Nat /\ MaxEmits \in Nat /\ MaxFaults \in Nat

VARIABLES
  signals,     \* signals[n]: n's Field, a map from ids to signals
  next_nonce,  \* its next_nonce
  processed,   \* signals n has dealt with
  ions,        \* ions n has registered (IonReplicas takes them away)
  disk,        \* state.json: the four above as last saved
  flywheel,    \* flywheel[n]: queue of vectors, in memory only
  remote_done, \* vectors n ran for others, in memory only
  call,        \* "idle", or "busy" with a handler, which ends with persist()
  todo,        \* fired signals the handler has yet to look at
  spinning,    \* the signal whose pipeline it runs, or NoSignal
  net,         \* envelopes in flight, one per receiver
  resonated,   \* resonated[s]: nodes whose user emitted s or resonated with it
  aborted,     \* signals whose pipeline a failing recipe ended
  crashes,     \* crashes so far
  failures,    \* failing recipes and errors so far
  emits        \* signals emitted so far

history == <<resonated, aborted>>
counters == <<crashes, failures, emits>>
memory == <<signals, next_nonce, processed, ions>>
engine == <<flywheel, remote_done>>
handler == <<call, todo, spinning>>
vars == <<memory, disk, engine, handler, net, history, counters>>

\* The id is the hash of the origin, the proposal and the nonce.
Id     == [origin : Node, pipeline : Pipeline, nonce : 0 .. MaxNonce - 1]
Signal == [resonators : SUBSET Node, fired : BOOLEAN]

\* A known signal has its emitter among its resonators.
Unknown == [resonators |-> {}, fired |-> FALSE]
NoField == [s \in Id |-> Unknown]

ASSUME NoSignalAssumption == NoSignal \notin Id

Thrust == {"Build", "Test", "Deploy"}
Vector == [pipeline : Pipeline, thrust : Thrust, emitter : Node]

SignalBroadcast == [type : {"SignalBroadcast"}, to : Node, id : Id, signal : Signal]
Resonance       == [type : {"Resonance"}, to : Node, id : Id, resonator : Node]
VectorOffer     == [type : {"VectorOffer"}, to : Node, vector : Vector]

TypeOK ==
  /\ signals \in [Node -> [Id -> Signal]]
  /\ next_nonce \in [Node -> 0 .. MaxNonce]
  /\ processed \in [Node -> SUBSET Id]
  /\ ions \in [Node -> SUBSET Pipeline]
  /\ disk \in [Node -> [signals : [Id -> Signal], next_nonce : 0 .. MaxNonce,
                       processed : SUBSET Id, ions : SUBSET Pipeline]]
  /\ flywheel \in [Node -> Seq(Vector)]
  /\ remote_done \in [Node -> SUBSET Vector]
  /\ call \in [Node -> {"idle", "busy"}]
  /\ todo \in [Node -> SUBSET Id]
  /\ spinning \in [Node -> Id \cup {NoSignal}]
  /\ net \subseteq SignalBroadcast \cup Resonance \cup VectorOffer
  /\ resonated \in [Id -> SUBSET Node]
  /\ aborted \subseteq Id
  /\ crashes \in Nat /\ failures \in Nat /\ crashes + failures <= MaxFaults
  /\ emits \in 0 .. MaxEmits

Blank == [signals |-> NoField, next_nonce |-> 0, processed |-> {}, ions |-> {}]

Init ==
  /\ signals = [n \in Node |-> Blank.signals]
  /\ next_nonce = [n \in Node |-> Blank.next_nonce]
  /\ processed = [n \in Node |-> Blank.processed]
  /\ ions = [n \in Node |-> Blank.ions]
  /\ disk = [n \in Node |-> Blank]
  /\ flywheel = [n \in Node |-> <<>>]
  /\ remote_done = [n \in Node |-> {}]
  /\ call = [n \in Node |-> "idle"]
  /\ todo = [n \in Node |-> {}]
  /\ spinning = [n \in Node |-> NoSignal]
  /\ net = {}
  /\ resonated = [s \in Id |-> {}]
  /\ aborted = {}
  /\ crashes = 0 /\ failures = 0 /\ emits = 0

-----------------------------------------------------------------------------
(* The Field.                                                              *)

\* emit raises a quorum of 0 to 1.
Needed(s) == IF Quorum[s.pipeline] = 0 THEN 1 ELSE Quorum[s.pipeline]

HasQuorum(s, nodes) == Cardinality(nodes) >= Needed(s)

\* The quorum looked at before the insertion.
JoinedLate(s, signal, nodes) ==
  [resonators |-> signal.resonators \cup nodes,
   fired |-> signal.fired \/ HasQuorum(s, signal.resonators)]

\* Two resonances of one node counted twice.
JoinedTwice(s, signal, nodes) ==
  [resonators |-> signal.resonators \cup nodes,
   fired |-> signal.fired \/ Cardinality(signal.resonators) + Cardinality(nodes) >= Needed(s)]

\* insert(node), then Fired at the quorum: resonate and absorb_resonance.
Joined(s, signal, nodes) ==
  LET all == signal.resonators \cup nodes
  IN [resonators |-> all, fired |-> signal.fired \/ HasQuorum(s, all)]

Known(n, s) == signals[n][s] # Unknown
FiredAt(n, s) == signals[n][s].fired

\* absorb: the union of two copies, fired if either is; a new one as it came.
Absorbed(n, s, signal) ==
  LET own == Joined(s, signals[n][s], signal.resonators)
  IN IF Known(n, s) THEN [own EXCEPT !.fired = @ \/ signal.fired] ELSE signal

\* The nonces of the signals seen, added up.
Summed(nonce, seen) == nonce + seen + 1

\* absorb keeps next_nonce above every nonce seen.
Above(nonce, seen) == IF nonce > seen THEN nonce ELSE seen + 1

Put(n, s, signal) == signals' = [signals EXCEPT ![n][s] = signal]

\* A state.json that forgets next_nonce.
SaveNoNonce(n, itsIons) ==
  disk' = [disk EXCEPT ![n] = [signals |-> signals[n], next_nonce |-> 0,
                               processed |-> processed[n], ions |-> itsIons]]

\* state.json holds what one handler left.
Save(n, itsIons) ==
  disk' = [disk EXCEPT ![n] = [signals |-> signals[n], next_nonce |-> next_nonce[n],
                               processed |-> processed[n], ions |-> itsIons]]

\* try_fire_pipelines starts by collecting what has fired and is not processed.
TryFire(n) ==
  /\ call' = [call EXCEPT ![n] = "busy"]
  /\ todo' = [todo EXCEPT ![n] = {s \in Id : signals'[n][s].fired} \ processed[n]]
  /\ UNCHANGED spinning

\* An error leaves the handler at once; nothing is saved.
Fail(n) ==
  /\ crashes + failures < MaxFaults /\ failures' = failures + 1
  /\ call' = [call EXCEPT ![n] = "idle"]
  /\ todo' = [todo EXCEPT ![n] = {}]
  /\ spinning' = [spinning EXCEPT ![n] = NoSignal]

Idle(n) == call[n] = "idle"

\* A handler with no pipeline to look at has only its persist() left.
Ending(n) == call' = [call EXCEPT ![n] = "busy"] /\ UNCHANGED <<todo, spinning>>

-----------------------------------------------------------------------------
(* Handlers.                                                               *)

\* emit_signal: a new signal, which its emitter resonates with.
EmitSignal(n, p) ==
  LET s      == [origin |-> n, pipeline |-> p, nonce |-> next_nonce[n]]
      signal == Joined(s, Unknown, {n})
  IN
  /\ n \in Emitter /\ Idle(n) /\ next_nonce[n] < MaxNonce
  /\ emits < MaxEmits /\ emits' = emits + 1
  /\ Put(n, s, signal)
  /\ next_nonce' = [next_nonce EXCEPT ![n] = @ + 1]
  /\ net' = net \cup {[type |-> "SignalBroadcast", to |-> q, id |-> s, signal |-> signal] :
                        q \in Node \ {n}}
  /\ resonated' = [resonated EXCEPT ![s] = @ \cup {n}]
  /\ TryFire(n)
  /\ UNCHANGED <<processed, ions, disk, engine, aborted, crashes, failures>>

\* resonate: refused for an unknown or a fired signal; again, if the user likes.
Resonate(n, s) ==
  /\ Idle(n) /\ Known(n, s) /\ ~FiredAt(n, s)
  /\ Put(n, s, Joined(s, signals[n][s], {n}))
  /\ net' = net \cup {[type |-> "Resonance", to |-> q, id |-> s, resonator |-> n] :
                        q \in Node \ {n}}
  /\ resonated' = [resonated EXCEPT ![s] = @ \cup {n}]
  /\ TryFire(n)
  /\ UNCHANGED <<next_nonce, processed, ions, disk, engine, aborted, counters>>

RecvSignal(m) ==
  LET n == m.to IN
  /\ m \in net /\ Idle(n) /\ net' = net \ {m}
  /\ Put(n, m.id, Absorbed(n, m.id, m.signal))
  /\ next_nonce' = [next_nonce EXCEPT ![n] = Above(@, m.id.nonce)]
  /\ TryFire(n)
  /\ UNCHANGED <<processed, ions, disk, engine, history, counters>>

\* A resonance with a signal the node has not heard of changes nothing.
RecvResonance(m) ==
  LET n == m.to IN
  /\ m \in net /\ Idle(n) /\ net' = net \ {m}
  /\ IF Known(n, m.id)
       THEN /\ Put(n, m.id, Joined(m.id, signals[n][m.id], {m.resonator}))
            /\ TryFire(n)
       ELSE Ending(n) /\ UNCHANGED signals
  /\ UNCHANGED <<next_nonce, processed, ions, disk, engine, history, counters>>

\* accept_remote_vector: unless the queue is long or the vector was run, it
\* is queued and the FRONT of the queue is run, which may be a leftover.
RunOffer(m) ==
  LET n     == m.to
      queue == Append(flywheel[n], m.vector)
  IN
  /\ m \in net /\ Idle(n) /\ net' = net \ {m}
  /\ Len(flywheel[n]) <= 2
  /\ m.vector.thrust # "Deploy" /\ m.vector.emitter # n
  /\ m.vector \notin remote_done[n]
  /\ flywheel' = [flywheel EXCEPT ![n] = Tail(queue)]
  /\ remote_done' = [remote_done EXCEPT ![n] = @ \cup {Head(queue)}]
  /\ Ending(n)
  /\ UNCHANGED <<memory, disk, history, counters>>

\* Any other handler that ends with persist(), which may save what a handler
\* that failed has left; read again only after a crash.
Persist(n) ==
  /\ n \in Mortal /\ Idle(n) /\ Save(n, ions[n])
  /\ UNCHANGED <<memory, engine, handler, net, history, counters>>

-----------------------------------------------------------------------------
(* try_fire_pipelines, in steps a crash may come between.                  *)

Pending(n, s) == s \in todo[n] /\ spinning[n] = NoSignal

\* Everybody who sees a signal fire runs its pipeline.
Everybody(n, s) == TRUE

Origin(n, s) == s.origin = n

\* Only the origin runs the pipeline.
PassOver(n, s) ==
  /\ Pending(n, s) /\ ~Origin(n, s)
  /\ todo' = [todo EXCEPT ![n] = @ \ {s}]
  /\ processed' = [processed EXCEPT ![n] = @ \cup {s}]
  /\ UNCHANGED <<signals, next_nonce, ions, disk, engine, call, spinning, net, history, counters>>

VectorOf(s, thrust) == [pipeline |-> s.pipeline, thrust |-> thrust, emitter |-> s.origin]

Vectors(s) == <<VectorOf(s, "Build"), VectorOf(s, "Test"), VectorOf(s, "Deploy")>>

\* A signal is processed once its vectors are queued.
InjectDone(n, s) ==
  /\ Pending(n, s) /\ Origin(n, s)
  /\ todo' = [todo EXCEPT ![n] = @ \ {s}]
  /\ spinning' = [spinning EXCEPT ![n] = s]
  /\ processed' = [processed EXCEPT ![n] = @ \cup {s}]
  /\ flywheel' = [flywheel EXCEPT ![n] = @ \o Vectors(s)]
  /\ UNCHANGED <<signals, next_nonce, ions, disk, remote_done, call, net, history, counters>>

Inject(n, s) ==
  /\ Pending(n, s) /\ Origin(n, s)
  /\ todo' = [todo EXCEPT ![n] = @ \ {s}]
  /\ spinning' = [spinning EXCEPT ![n] = s]
  /\ flywheel' = [flywheel EXCEPT ![n] = @ \o Vectors(s)]
  /\ UNCHANGED <<memory, disk, remote_done, call, net, history, counters>>

\* prepare_workbench fails.
WorkbenchFails(n, s) ==
  /\ Pending(n, s) /\ Origin(n, s)
  /\ Fail(n)
  /\ UNCHANGED <<memory, disk, engine, net, history, crashes, emits>>

\* birth_ion: a new ion is registered and saved.
Birth(n, p) ==
  /\ ions' = [ions EXCEPT ![n] = @ \cup {p}]
  /\ IF p \in ions[n] THEN UNCHANGED disk ELSE Save(n, ions'[n])

\* spin takes the front of the queue, whosever it is.
Taken(n) ==
  /\ spinning[n] # NoSignal /\ flywheel[n] # <<>>
  /\ flywheel' = [flywheel EXCEPT ![n] = Tail(@)]

Spin(n) ==
  LET v == Head(flywheel[n]) IN
  /\ Taken(n)
  /\ IF v.thrust = "Deploy"
       THEN Birth(n, v.pipeline) /\ UNCHANGED net
       ELSE /\ net' = net \cup {[type |-> "VectorOffer", to |-> q, vector |-> v] : q \in Node \ {n}}
            /\ UNCHANGED <<ions, disk>>
  /\ UNCHANGED <<signals, next_nonce, processed, remote_done, handler, history, counters>>

\* A recipe fails: the loop ends, the rest of the queue stays.
RecipeFails(n) ==
  /\ Taken(n) /\ Head(flywheel[n]).thrust # "Deploy"
  /\ crashes + failures < MaxFaults /\ failures' = failures + 1
  /\ processed' = [processed EXCEPT ![n] = @ \cup {spinning[n]}]
  /\ aborted' = aborted \cup {spinning[n]}
  /\ spinning' = [spinning EXCEPT ![n] = NoSignal]
  /\ UNCHANGED <<signals, next_nonce, ions, disk, remote_done, call, todo, net, resonated, crashes, emits>>

\* birth_ion or broadcast_momentum returns an error, before the ion is
\* registered, before it is saved, or after.
SpinFails(n) ==
  LET v == Head(flywheel[n]) IN
  /\ Taken(n) /\ Fail(n)
  /\ \/ UNCHANGED <<ions, disk>>
     \/ v.thrust = "Deploy" /\ ions' = [ions EXCEPT ![n] = @ \cup {v.pipeline}] /\ UNCHANGED disk
     \/ v.thrust = "Deploy" /\ Birth(n, v.pipeline)
  /\ UNCHANGED <<signals, next_nonce, processed, remote_done, net, history, crashes, emits>>

Finish(n) ==
  /\ spinning[n] # NoSignal /\ flywheel[n] = <<>>
  /\ processed' = [processed EXCEPT ![n] = @ \cup {spinning[n]}]
  /\ spinning' = [spinning EXCEPT ![n] = NoSignal]
  /\ UNCHANGED <<signals, next_nonce, ions, disk, engine, call, todo, net, history, counters>>

\* persist() ends every handler.
Return(n) ==
  /\ ~Idle(n) /\ todo[n] = {} /\ spinning[n] = NoSignal
  /\ call' = [call EXCEPT ![n] = "idle"]
  /\ Save(n, ions[n])
  /\ UNCHANGED <<memory, engine, todo, spinning, net, history, counters>>

\* persist() fails, or what the handler called before it.
ReturnFails(n) ==
  /\ ~Idle(n) /\ todo[n] = {} /\ spinning[n] = NoSignal
  /\ Fail(n)
  /\ UNCHANGED <<memory, disk, engine, net, history, crashes, emits>>

\* The daemon dies and starts again from state.json.
Crash(n) ==
  /\ n \in Mortal /\ crashes + failures < MaxFaults /\ crashes' = crashes + 1
  /\ signals' = [signals EXCEPT ![n] = disk[n].signals]
  /\ next_nonce' = [next_nonce EXCEPT ![n] = disk[n].next_nonce]
  /\ processed' = [processed EXCEPT ![n] = disk[n].processed]
  /\ ions' = [ions EXCEPT ![n] = disk[n].ions]
  /\ flywheel' = [flywheel EXCEPT ![n] = <<>>]
  /\ remote_done' = [remote_done EXCEPT ![n] = {}]
  /\ call' = [call EXCEPT ![n] = "idle"]
  /\ todo' = [todo EXCEPT ![n] = {}]
  /\ spinning' = [spinning EXCEPT ![n] = NoSignal]
  /\ UNCHANGED <<disk, net, history, failures, emits>>

Fire(n) ==
  \/ \E s \in todo[n] : PassOver(n, s) \/ Inject(n, s) \/ WorkbenchFails(n, s)
  \/ Spin(n) \/ RecipeFails(n) \/ SpinFails(n) \/ Finish(n) \/ Return(n) \/ ReturnFails(n)

Next ==
  \/ \E n \in Node, p \in Pipeline : EmitSignal(n, p)
  \/ \E n \in Node, s \in Id : Resonate(n, s)
  \/ \E m \in net : \/ m.type = "SignalBroadcast" /\ RecvSignal(m)
                    \/ m.type = "Resonance" /\ RecvResonance(m)
                    \/ m.type = "VectorOffer" /\ RunOffer(m)
  \/ \E n \in Node : Persist(n) \/ Fire(n) \/ Crash(n)

Spec == Init /\ [][Next]_vars

-----------------------------------------------------------------------------
(* Properties.                                                             *)

\* Wherever a signal has fired, a quorum of users did emit it or resonate
\* with it: lost, late and repeated envelopes and restarts count nobody twice.
QuorumReal ==
  \A n \in Node, s \in Id : FiredAt(n, s) => HasQuorum(s, resonated[s])

\* A node registers an ion only for a signal of its own that had its quorum,
\* although its queue mixes leftovers and the vectors of others.
DeployedByQuorum ==
  \A n \in Node : \A p \in ions[n] :
    \E s \in Id : s.origin = n /\ s.pipeline = p /\ HasQuorum(s, resonated[s])

Settled(n, done, registered) ==
  \A s \in done : s.origin = n => s.pipeline \in registered \/ s \in aborted

\* Neither an error nor a crash leaves a signal marked as processed, in memory or on disk,
\* whose ion its origin has not registered, unless one of the recipes failed.
ProcessedSettled ==
  \A n \in Node :
    Settled(n, processed[n], ions[n]) /\ Settled(n, disk[n].processed, disk[n].ions)

\* Between two crashes no node forgets a resonance or a signal's firing: a
\* new signal never takes the id of one the node knows, even after a restart.
FieldGrows ==
  [][crashes' = crashes =>
       \A n \in Node, s \in Id :
         /\ signals[n][s].resonators \subseteq signals'[n][s].resonators
         /\ FiredAt(n, s) => signals'[n][s].fired]_vars

\* Nodes may miss a resonance that overtakes its signal, but not the origin:
\* until somebody crashes, a quorum has fired there or is on its way.
QuorumHeard ==
  crashes = 0 =>
    \A s \in Id : HasQuorum(s, resonated[s]) =>
      FiredAt(s.origin, s)
        \/ \E m \in net : m.type = "Resonance" /\ m.to = s.origin /\ m.id = s
=============================================================================
