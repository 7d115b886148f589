------------------------------- MODULE Isotope -------------------------------
(***************************************************************************)
(* The Isotope key-value store: the Nucleus of crates/isotope, a map of    *)
(* last-writer-wins atoms, and what mycelium-node does with it.  A put is  *)
(* written locally and gossiped; nodes whose shard the key hashes to keep  *)
(* what they hear, the others only what they are asking for.  A get that   *)
(* misses asks the lattice once.  Every handler ends by writing            *)
(* nucleus.json, in place.  The event loop of a node is one biased select: *)
(* it takes an envelope only if no request and no timer is ready.          *)
(***************************************************************************)
EXTENDS Integers, FiniteSets

CONSTANTS
  Node, Key,
  Writer, Reader, \* nodes whose users put, get
  Mortal,     \* nodes that may crash
  Owner,      \* Owner[k]: the nodes whose nucleus index is k's shard
  MaxPuts,    \* bound on the puts
  MaxClock,   \* bound on the clocks of the puts
  MaxFaults   \* bound on crashes and lost envelopes

ASSUME OwnerAssumption == Owner \in [Key -> SUBSET Node]
ASSUME RoleAssumption == Writer \subseteq Node /\ Reader \subseteq Node /\ Mortal \subseteq Node
ASSUME BoundAssumption == MaxPuts \in Nat /\ MaxClock \in Nat /\ MaxFaults \in Nat

VARIABLES
  up,       \* is the daemon running?
  nucleus,  \* nucleus[n][k]: the atom of k at n, in memory
  disk,     \* nucleus.json
  saving,   \* saving[n]: has n's handler yet to write nucleus.json?
  swarm,    \* swarm[n]: has the select of n come to its last branch, the swarm?
  pending,  \* pending_decays
  net,      \* envelopes in flight, one per receiver
  written,  \* written[k]: every atom ever put
  puts,     \* puts so far; a put's number stands for its value
  missed,   \* missed[n]: AtomSyncs n never heard, or forgot in a crash
  faults    \* crashes and losses so far

vars == <<up, nucleus, disk, saving, swarm, pending, net, written, puts, missed, faults>>

Atom   == [clock : Nat, value : 1 .. MaxPuts]
Absent == [clock |-> -1, value |-> 0]
Cell   == Atom \cup {Absent}

AtomSync   == [type : {"AtomSync"}, key : Key, to : Node, atom : Atom]
DecayReply == [type : {"DecayReply"}, key : Key, to : Node, atom : Atom]
DecayQuery == [type : {"DecayQuery"}, key : Key, to : Node, asker : Node]

TypeOK ==
  /\ up \in [Node -> BOOLEAN]
  /\ nucleus \in [Node -> [Key -> Cell]]
  /\ disk \in [Node -> [Key -> Cell]]
  /\ saving \in [Node -> BOOLEAN] /\ swarm \in [Node -> BOOLEAN]
  /\ pending \in [Node -> SUBSET Key]
  /\ net \subseteq AtomSync \cup DecayReply \cup DecayQuery
  /\ \A m \in net : up[m.to]
  /\ written \in [Key -> SUBSET Atom]
  /\ puts \in 0 .. MaxPuts
  /\ missed \in [Node -> SUBSET (Key \X Atom)]
  /\ faults \in 0 .. MaxFaults

Empty == [k \in Key |-> Absent]

Init ==
  /\ up = [n \in Node |-> TRUE]
  /\ nucleus = [n \in Node |-> Empty]
  /\ disk = [n \in Node |-> Empty]
  /\ saving = [n \in Node |-> FALSE] /\ swarm = [n \in Node |-> FALSE]
  /\ pending = [n \in Node |-> {}]
  /\ net = {}
  /\ written = [k \in Key |-> {}]
  /\ puts = 0
  /\ missed = [n \in Node |-> {}]
  /\ faults = 0

\* The event loop of n runs one handler at a time; control requests come first.
Idle(n) == up[n] /\ ~saving[n] /\ ~swarm[n]

\* An envelope reaches its receiver, whose handler will save.
Receive(m, type) ==
  /\ m \in net /\ m.type = type /\ swarm[m.to]
  /\ saving' = [saving EXCEPT ![m.to] = TRUE]
  /\ swarm' = [swarm EXCEPT ![m.to] = FALSE]

-----------------------------------------------------------------------------
(* crates/isotope: Nucleus.                                                *)

\* The later of two equal clocks wins.
AbsorbEqual(old, atom) == IF old.clock > atom.clock THEN old ELSE atom

\* Nucleus::absorb, and write, which it is for an owner.
Absorb(old, atom) == IF old.clock >= atom.clock THEN old ELSE atom

Absorbed(n, k, atom) == [nucleus EXCEPT ![n][k] = Absorb(@, atom)]
Held(n, k) == nucleus[n][k] # Absent

-----------------------------------------------------------------------------
(* mycelium-node.  Gossip reaches the nodes that are up, unless it is lost. *)

\* Gossip that waits for nodes that are down.
ListenersAlways(n) == Node \ {n}

Listeners(n) == {p \in Node \ {n} : up[p]}

\* isotope_put: owner or not, the node keeps the atom and gossips it.
Put(n, k, clock) ==
  LET atom == [clock |-> clock, value |-> puts + 1] IN
  /\ Idle(n) /\ puts < MaxPuts /\ puts' = puts + 1
  /\ nucleus' = Absorbed(n, k, atom)
  /\ net' = net \cup {[type |-> "AtomSync", key |-> k, to |-> p, atom |-> atom] :
                        p \in Listeners(n)}
  /\ saving' = [saving EXCEPT ![n] = TRUE]
  /\ written' = [written EXCEPT ![k] = @ \cup {atom}]
  /\ missed' = [p \in Node |-> IF up[p] THEN missed[p] ELSE missed[p] \cup {<<k, atom>>}]
  /\ UNCHANGED <<up, disk, swarm, pending, faults>>

\* isotope_get and begin_decay: a hit ends the query; a miss asks once.
Get(n, k) ==
  /\ Idle(n)
  /\ IF Held(n, k)
     THEN pending' = [pending EXCEPT ![n] = @ \ {k}] /\ UNCHANGED net
     ELSE /\ k \notin pending[n]
          /\ pending' = [pending EXCEPT ![n] = @ \cup {k}]
          /\ net' = net \cup {[type |-> "DecayQuery", key |-> k, to |-> p, asker |-> n] :
                                p \in Listeners(n)}
  /\ UNCHANGED <<up, nucleus, disk, saving, swarm, written, puts, missed, faults>>

\* Owners keep what they asked for only.
RecvSyncAsked(m) ==
  LET n == m.to
      asked == m.key \in pending[n] IN
  /\ Receive(m, "AtomSync")
  /\ net' = net \ {m}
  /\ nucleus' = IF asked THEN Absorbed(n, m.key, m.atom) ELSE nucleus
  /\ pending' = IF asked THEN [pending EXCEPT ![n] = @ \ {m.key}] ELSE pending
  /\ UNCHANGED <<up, disk, written, puts, missed, faults>>

\* Only owners listen.
RecvSyncOwned(m) ==
  LET n == m.to
      owns == n \in Owner[m.key] IN
  /\ Receive(m, "AtomSync")
  /\ net' = net \ {m}
  /\ nucleus' = IF owns THEN Absorbed(n, m.key, m.atom) ELSE nucleus
  /\ UNCHANGED <<up, disk, pending, written, puts, missed, faults>>

\* An owner absorbs every atom, another node one that answers its query.
RecvSync(m) ==
  LET n     == m.to
      owns  == n \in Owner[m.key]
      asked == m.key \in pending[n]
  IN
  /\ Receive(m, "AtomSync")
  /\ net' = net \ {m}
  /\ nucleus' = IF owns \/ asked THEN Absorbed(n, m.key, m.atom) ELSE nucleus
  /\ pending' = IF asked /\ ~owns THEN [pending EXCEPT ![n] = @ \ {m.key}] ELSE pending
  /\ UNCHANGED <<up, disk, written, puts, missed, faults>>

\* reply_decay: who has the atom tells the whole lattice.
RecvQuery(m) ==
  LET n == m.to IN
  /\ Receive(m, "DecayQuery")
  /\ net' = (net \ {m}) \cup
       (IF Held(n, m.key)
        THEN {[type |-> "DecayReply", key |-> m.key, to |-> p, atom |-> nucleus[n][m.key]] :
                p \in Listeners(n)}
        ELSE {})
  /\ UNCHANGED <<up, nucleus, disk, pending, written, puts, missed, faults>>

\* A reply is absorbed by everyone, asked or not.
RecvReply(m) ==
  LET n == m.to IN
  /\ Receive(m, "DecayReply")
  /\ net' = net \ {m}
  /\ nucleus' = Absorbed(n, m.key, m.atom)
  /\ pending' = [pending EXCEPT ![n] = @ \ {m.key}]
  /\ UNCHANGED <<up, disk, written, puts, missed, faults>>

\* save_nucleus, the end of a handler.
Save(n) ==
  /\ up[n] /\ saving[n]
  /\ saving' = [saving EXCEPT ![n] = FALSE]
  /\ disk' = [disk EXCEPT ![n] = nucleus[n]]
  /\ UNCHANGED <<up, nucleus, swarm, pending, net, written, puts, missed, faults>>

Waiting(n) == \E m \in net : m.to = n

\* The select of n finds no request and no timer ready, but an envelope.
Pass(n) ==
  /\ Idle(n) /\ Waiting(n)
  /\ swarm' = [swarm EXCEPT ![n] = TRUE]
  /\ UNCHANGED <<up, nucleus, disk, saving, pending, net, written, puts, missed, faults>>

\* The envelope was lost before it could be taken.
Recall(n) ==
  /\ swarm[n] /\ ~Waiting(n)
  /\ swarm' = [swarm EXCEPT ![n] = FALSE]
  /\ UNCHANGED <<up, nucleus, disk, saving, pending, net, written, puts, missed, faults>>

-----------------------------------------------------------------------------
(* Losses, crashes and restarts.                                           *)

Syncs(S) == {<<m.key, m.atom>> : m \in {m \in S : m.type = "AtomSync"}}

Lose(m) ==
  /\ m \in net /\ faults < MaxFaults
  /\ faults' = faults + 1
  /\ net' = net \ {m}
  /\ missed' = [missed EXCEPT ![m.to] = @ \cup Syncs({m})]
  /\ UNCHANGED <<up, nucleus, disk, saving, swarm, pending, written, puts>>

\* What n will read back: the file, which a handler under way may have
\* written, or truncated (load_nucleus then gives none).
Readable(n) == IF saving[n] THEN {disk[n], nucleus[n], Empty} ELSE {disk[n]}

\* Atoms ever put that are newer than those of the file `cells`.
Newer(cells) == {w \in UNION {{k} \X written[k] : k \in Key} : w[2].clock > cells[w[1]].clock}

Crash(n) ==
  /\ up[n] /\ faults < MaxFaults
  /\ faults' = faults + 1
  /\ up' = [up EXCEPT ![n] = FALSE]
  /\ net' = {m \in net : m.to # n}
  /\ \E cells \in Readable(n) :
       /\ disk' = [disk EXCEPT ![n] = cells]
       /\ nucleus' = [nucleus EXCEPT ![n] = cells]
       /\ missed' = [missed EXCEPT ![n] = @ \cup Syncs({m \in net : m.to = n})
                       \cup (IF saving[n] THEN Newer(cells) ELSE {})]
  /\ saving' = [saving EXCEPT ![n] = FALSE] /\ swarm' = [swarm EXCEPT ![n] = FALSE]
  /\ pending' = [pending EXCEPT ![n] = {}]
  /\ UNCHANGED <<written, puts>>

\* awaken
Restart(n) ==
  /\ ~up[n]
  /\ up' = [up EXCEPT ![n] = TRUE]
  /\ UNCHANGED <<nucleus, disk, saving, swarm, pending, net, written, puts, missed, faults>>

-----------------------------------------------------------------------------
Deliver(m) == RecvSync(m) \/ RecvQuery(m) \/ RecvReply(m)

Next ==
  \/ \E n \in Reader, k \in Key : Get(n, k)
  \/ \E n \in Writer, k \in Key, c \in 0 .. MaxClock : Put(n, k, c)
  \/ \E m \in net : Deliver(m) \/ Lose(m)
  \/ \E n \in Node : Save(n) \/ Pass(n) \/ Recall(n) \/ Restart(n)
  \/ \E n \in Mortal : Crash(n)

Spec == Init /\ [][Next]_vars

\* Handlers end, and the branch of the select that is ready is taken.
LiveSpec ==
  /\ Spec
  /\ \A n \in Node : WF_vars(Save(n)) /\ WF_vars(\E m \in net : m.to = n /\ Deliver(m))

-----------------------------------------------------------------------------
(* Properties.                                                             *)

\* In whatever order puts, replies and old copies arrive, an owner of a
\* key's shard is behind a put only while its AtomSync is on the way, or if
\* the owner was down, lost it, or crashed while writing nucleus.json.
OwnerCurrent ==
  \A k \in Key : \A n \in Owner[k], a \in written[k] :
    \/ nucleus[n][k].clock >= a.clock
    \/ [type |-> "AtomSync", key |-> k, to |-> n, atom |-> a] \in net
    \/ <<k, a>> \in missed[n]

\* What a node answers for a key changes only for a newer clock (between
\* equal clocks the first stays), restarts included, but for a crash while
\* nucleus.json is written.
ReadsForward ==
  [][\A n \in Node, k \in Key :
       nucleus'[n][k] # nucleus[n][k] =>
         nucleus'[n][k].clock > nucleus[n][k].clock \/ (saving[n] /\ ~up'[n])]_vars

\* Requests and timers, which come first in the select, do not take every
\* turn of a node for ever while envelopes wait.
Heard == \A n \in Node : []<>(swarm[n] \/ ~Waiting(n))

\* A get that waits for a key somebody holds is answered, though it asks once
\* and only owners listen to puts, if every loop keeps coming to the swarm,
\* nothing is lost and nobody crashes.
DecayAnswered ==
  Heard =>
    \A n \in Reader, k \in Key :
      (k \in pending[n] /\ \E h \in Node : Held(h, k)) ~> (Held(n, k) \/ faults > 0)

\* "Cada um lê - o maior clock (200 "beta") deve prevalecer"
\* (docs/testes-realidade.md:324): when every envelope has arrived and none
\* was lost, every node that has an atom of a key has the newest.
NewestRead ==
  (faults = 0 /\ net = {}) =>
    \A n \in Node, k \in Key :
      Held(n, k) => \A a \in written[k] : nucleus[n][k].clock >= a.clock
=============================================================================
