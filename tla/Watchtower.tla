----------------------------- MODULE Watchtower -----------------------------
(***************************************************************************)
(* The Lightning watchtower of src/crypto/watchtower.ts: registrations in  *)
(* a Map, and a setInterval that asks mempool.space about each of them in  *)
(* turn, broadcasts the justice transaction of one whose funding output    *)
(* was spent by another commitment, and tells the listeners.  The timer    *)
(* does not wait for the previous check.                                   *)
(***************************************************************************)
EXTENDS Integers, FiniteSets, FiniteSetsExt

CONSTANTS
  Channel,      \* channels
  Poll,         \* checks that may overlap
  Unspent,      \* the funding output is not spent
  MaxId,        \* bound on the registrations ever made
  MaxStops,     \* bound on the stops of the watchtower
  maxRegistrations \* config.maxRegistrations

ASSUME BoundAssumption ==
  MaxId \in Nat /\ MaxStops \in Nat /\ maxRegistrations \in Nat /\ IsFiniteSet(Poll)
ASSUME ChannelAssumption == Channel # {}
ASSUME UnspentAssumption == Unspent \notin Nat

VARIABLES
  version,       \* version[c]: number of the newest commitment of c
  spent,         \* spent[c]: the commitment that spent c's funding output
  chan, expected,\* chan[id], expected[id]: channelId and commitmentTxid of a registration
  registrations, \* ids in the Map, which it visits in increasing order
  count,         \* registrations ever made
  late,          \* ids past their expiresAt
  running,       \* is the interval set?
  stops,         \* stops so far
  at,            \* at[k]: id that check k is visiting, 0 when there is no check k
  step,          \* step[k]: what check k awaits
  expired,       \* expired[k]: ids past their time when check k began
  alerts,        \* alerts[id]: alerts given, counted up to one more than the checks
  justice        \* channels whose justice transaction was accepted

registry == <<version, chan, expected, count>>
checks   == <<at, step, expired>>
vars == <<version, spent, chan, expected, registrations, count, late, running, stops,
          at, step, expired, alerts, justice>>

Id == 1 .. MaxId

TypeOK ==
  /\ version \in [Channel -> Nat]
  /\ spent \in [Channel -> Nat \cup {Unspent}]
  /\ chan \in [Id -> Channel] /\ expected \in [Id -> Nat]
  /\ registrations \subseteq 1 .. count /\ count \in 0 .. MaxId
  /\ Cardinality(registrations) <= maxRegistrations
  /\ late \subseteq Id
  /\ running \in BOOLEAN /\ stops \in 0 .. MaxStops
  /\ at \in [Poll -> Id \cup {0}]
  /\ step \in [Poll -> {"outspend", "broadcast", "height"}]
  /\ expired \in [Poll -> SUBSET Id]
  /\ alerts \in [Id -> 0 .. Cardinality(Poll) + 1]
  /\ justice \subseteq Channel

Init ==
  /\ version = [c \in Channel |-> 0]
  /\ spent = [c \in Channel |-> Unspent]
  /\ chan = [id \in Id |-> CHOOSE c \in Channel : TRUE] /\ expected = [id \in Id |-> 0]
  /\ registrations = {} /\ count = 0 /\ late = {}
  /\ running = FALSE /\ stops = 0
  /\ at = [k \in Poll |-> 0]
  /\ step = [k \in Poll |-> "outspend"]
  /\ expired = [k \in Poll |-> {}]
  /\ alerts = [id \in Id |-> 0]
  /\ justice = {}

Breached(id) == spent[chan[id]] \notin {Unspent, expected[id]}

-----------------------------------------------------------------------------
(* Clients and the chain.                                                  *)

\* The full Map takes one more.
RegisterAnyway(c) ==
  /\ count < MaxId /\ spent[c] = Unspent
  /\ version' = [version EXCEPT ![c] = @ + 1]
  /\ count' = count + 1
  /\ chan' = [chan EXCEPT ![count'] = c]
  /\ expected' = [expected EXCEPT ![count'] = version'[c]]
  /\ registrations' = registrations \cup {count'}
  /\ UNCHANGED <<spent, late, running, stops, checks, alerts, justice>>

\* A client registers each new commitment under a new id; its older
\* registrations stay.  A full watchtower throws.
Register(c) ==
  /\ count < MaxId /\ spent[c] = Unspent
  /\ version' = [version EXCEPT ![c] = @ + 1]
  /\ count' = count + 1
  /\ chan' = [chan EXCEPT ![count'] = c]
  /\ expected' = [expected EXCEPT ![count'] = version'[c]]
  /\ registrations' =
       IF Cardinality(registrations) >= maxRegistrations THEN registrations
       ELSE registrations \cup {count'}
  /\ UNCHANGED <<spent, late, running, stops, checks, alerts, justice>>

\* A commitment of c is confirmed, the newest or an older one.
Spend(c) ==
  /\ spent[c] = Unspent
  /\ \E v \in 1 .. version[c] : spent' = [spent EXCEPT ![c] = v]
  /\ UNCHANGED <<registry, registrations, late, running, stops, checks, alerts, justice>>

PassTime(id) ==
  /\ id \in registrations \ late
  /\ late' = late \cup {id}
  /\ UNCHANGED <<registry, spent, registrations, running, stops, checks, alerts, justice>>

-----------------------------------------------------------------------------
(* The watchtower.                                                         *)

Start ==
  /\ ~running /\ running' = TRUE
  /\ UNCHANGED <<registry, spent, registrations, late, stops, checks, alerts, justice>>

\* A check under way goes on.
Stop ==
  /\ running /\ stops < MaxStops
  /\ running' = FALSE /\ stops' = stops + 1
  /\ UNCHANGED <<registry, spent, registrations, late, checks, alerts, justice>>

\* checkForBreaches up to its next await: from the id `from`, with `kept` in
\* the Map, it deletes the registrations that had expired when it began and
\* asks about the first that had not, if there is one.
Proceed(k, from, kept, old) ==
  LET ahead == {id \in kept : id > from}
      ask   == ahead \ old
      next  == IF ask = {} THEN 0 ELSE Min(ask)
  IN
  /\ registrations' = {id \in kept : id \notin ahead \cap old \/ (next > 0 /\ id > next)}
  /\ at' = [at EXCEPT ![k] = next]
  /\ step' = [step EXCEPT ![k] = "outspend"]
  /\ expired' = [expired EXCEPT ![k] = IF next = 0 THEN {} ELSE old]

\* The timer fires.
Check(k) ==
  /\ running /\ at[k] = 0
  /\ Proceed(k, 0, registrations, late)
  /\ UNCHANGED <<registry, spent, late, running, stops, alerts, justice>>

\* The registration goes with the failed check.
OutspendFailsForgetting(k) ==
  /\ at[k] # 0 /\ step[k] = "outspend"
  /\ Proceed(k, at[k], registrations \ {at[k]}, expired[k])
  /\ UNCHANGED <<registry, spent, late, running, stops, alerts, justice>>

\* fetchLatestCommitmentTxid throws or gives null.
OutspendFails(k) ==
  /\ at[k] # 0 /\ step[k] = "outspend"
  /\ Proceed(k, at[k], registrations, expired[k])
  /\ UNCHANGED <<registry, spent, late, running, stops, alerts, justice>>

\* Only the newest commitment of the client's channel is no breach, or none
\* before the registration: an older one passes.
OutspendOlderPasses(k) ==
  /\ at[k] # 0 /\ step[k] = "outspend"
  /\ IF Breached(at[k]) /\ spent[chan[at[k]]] > expected[at[k]]
     THEN /\ step' = [step EXCEPT ![k] = "broadcast"]
          /\ UNCHANGED <<registrations, at, expired>>
     ELSE Proceed(k, at[k], registrations, expired[k])
  /\ UNCHANGED <<registry, spent, late, running, stops, alerts, justice>>

\* It answers; a spending commitment other than the expected one is a breach.
Outspend(k) ==
  /\ at[k] # 0 /\ step[k] = "outspend"
  /\ IF Breached(at[k])
     THEN /\ step' = [step EXCEPT ![k] = "broadcast"]
          /\ UNCHANGED <<registrations, at, expired>>
     ELSE Proceed(k, at[k], registrations, expired[k])
  /\ UNCHANGED <<registry, spent, late, running, stops, alerts, justice>>

\* broadcastJusticeTx: accepted, or refused and not tried again.
Broadcast(k) ==
  /\ at[k] # 0 /\ step[k] = "broadcast"
  /\ step' = [step EXCEPT ![k] = "height"]
  /\ justice' \in {justice, justice \cup {chan[at[k]]}}
  /\ UNCHANGED <<registry, spent, registrations, late, running, stops, at, expired, alerts>>

Told(id) == alerts' = [alerts EXCEPT ![id] = IF @ > Cardinality(Poll) THEN @ ELSE @ + 1]

\* The registration stays.
AlertKeeping(k) ==
  /\ at[k] # 0 /\ step[k] = "height"
  /\ Told(at[k])
  /\ Proceed(k, at[k], registrations, expired[k])
  /\ UNCHANGED <<registry, spent, late, running, stops, justice>>

\* fetchTxHeight answers or gives up; the listeners are told, and the
\* registration deleted.
Alert(k) ==
  /\ at[k] # 0 /\ step[k] = "height"
  /\ Told(at[k])
  /\ Proceed(k, at[k], registrations \ {at[k]}, expired[k])
  /\ UNCHANGED <<registry, spent, late, running, stops, justice>>

Next ==
  \/ \E c \in Channel : Register(c) \/ Spend(c)
  \/ \E id \in Id : PassTime(id)
  \/ Start \/ Stop
  \/ \E k \in Poll : Check(k) \/ OutspendFails(k) \/ Outspend(k) \/ Broadcast(k) \/ Alert(k)

Spec == Init /\ [][Next]_vars

\* The interval fires, every request ends, and mempool.space does not fail
\* for one registration for ever.
LiveSpec ==
  /\ Spec
  /\ \A k \in Poll : WF_vars(Check(k)) /\ WF_vars(Broadcast(k)) /\ WF_vars(Alert(k))
  /\ \A k \in Poll : WF_vars(OutspendFails(k) \/ Outspend(k))
  /\ \A k \in Poll, id \in Id : SF_vars(at[k] = id /\ Outspend(k))

-----------------------------------------------------------------------------
(* Properties.                                                             *)

\* A registration leaves the Map only when its breach has been told or its
\* time has come, however the requests of the checks fail and overlap.
KeptUntilTold ==
  [][\A id \in registrations \ registrations' : alerts'[id] > 0 \/ id \in late]_vars

\* A breach is told no more often than checks overlap.
ToldOncePerCheck == \A id \in Id : alerts[id] <= Cardinality(Poll)

\* "Se detecta commitment tx antiga" (watchtower.ts:16): a breach of a
\* channel whose registration stands is told in the end, unless the
\* registration expires or the watchtower stops.
BreachTold ==
  \A id \in Id :
    (id \in registrations /\ Breached(id)) ~> (alerts[id] > 0 \/ id \in late \/ ~running)
=============================================================================
