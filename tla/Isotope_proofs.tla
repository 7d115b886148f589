--------------------------- MODULE Isotope_proofs ---------------------------
(* Theorems about Isotope, for every set of nodes, keys and owners.        *)
EXTENDS Isotope, TLAPS

\* Between two handlers nucleus.json is what the memory holds, and a daemon
\* that is down has no handler under way.
FileCurrent ==
  \A n \in Node : /\ ~saving[n] => disk[n] = nucleus[n]
                  /\ saving[n] => up[n]

IInv == TypeOK /\ FileCurrent /\ OwnerCurrent

-----------------------------------------------------------------------------
(* Absorbing an atom.                                                      *)

\* Absorb keeps the greater clock, and changes the cell for that only.
LEMMA AbsorbNewer ==
  ASSUME NEW old \in Cell, NEW new \in Cell
  PROVE  /\ Absorb(old, new) \in Cell
         /\ Absorb(old, new).clock >= old.clock
         /\ Absorb(old, new).clock >= new.clock
         /\ Absorb(old, new) # old => Absorb(old, new).clock > old.clock
  BY DEF Absorb, Cell, Atom, Absent

\* A nucleus that absorbs an atom keeps its type, is not behind the atom nor
\* its old self, and differs in the one cell, which then has a newer clock.
LEMMA AbsorbedNewer ==
  ASSUME TypeOK, NEW n \in Node, NEW k \in Key, NEW atom \in Cell
  PROVE  /\ Absorbed(n, k, atom) \in [Node -> [Key -> Cell]]
         /\ Absorbed(n, k, atom)[n][k].clock >= atom.clock
         /\ \A p \in Node, j \in Key :
              /\ Absorbed(n, k, atom)[p][j].clock >= nucleus[p][j].clock
              /\ Absorbed(n, k, atom)[p][j] # nucleus[p][j] =>
                   Absorbed(n, k, atom)[p][j].clock > nucleus[p][j].clock
         /\ \A p \in Node : p # n => Absorbed(n, k, atom)[p] = nucleus[p]
<1> DEFINE new == Absorbed(n, k, atom)
<1>1. nucleus \in [Node -> [Key -> Cell]]
  BY DEF TypeOK
<1>2. new[n][k] = Absorb(nucleus[n][k], atom) /\ Absorb(nucleus[n][k], atom) \in Cell
  BY <1>1, AbsorbNewer DEF Absorbed
<1>3. new \in [Node -> [Key -> Cell]]
  BY <1>1, <1>2 DEF Absorbed
<1>4. new[n][k].clock >= atom.clock
  BY <1>1, <1>2, AbsorbNewer
<1>5. ASSUME NEW p \in Node, NEW j \in Key
      PROVE  /\ new[p][j].clock >= nucleus[p][j].clock
             /\ new[p][j] # nucleus[p][j] => new[p][j].clock > nucleus[p][j].clock
  <2>1. CASE p = n /\ j = k
    BY <1>1, <1>2, <2>1, AbsorbNewer
  <2>2. CASE ~(p = n /\ j = k)
    <3>1. new[p][j] = nucleus[p][j]
      BY <1>1, <2>2 DEF Absorbed
    <3>2. nucleus[p][j].clock \in Int
      BY <1>1 DEF Cell, Atom, Absent
    <3> QED BY <3>1, <3>2
  <2> QED BY <2>1, <2>2
<1>6. ASSUME NEW p \in Node, p # n PROVE new[p] = nucleus[p]
  BY <1>1, <1>6 DEF Absorbed
<1> QED BY <1>3, <1>4, <1>5, <1>6

-----------------------------------------------------------------------------
(* Type correctness.                                                       *)

LEMMA InitInv == Init => IInv
  BY BoundAssumption, OwnerAssumption
     DEF Init, IInv, TypeOK, FileCurrent, OwnerCurrent, Empty, Cell, Absent

\* The envelopes of a broadcast are well typed and go to live nodes.
LEMMA EnvelopeType ==
  ASSUME TypeOK, NEW m \in net
  PROVE  /\ m.to \in Node /\ up[m.to] /\ m.key \in Key
         /\ m.type = "AtomSync" => m \in AtomSync /\ m.atom \in Atom
         /\ m.type = "DecayReply" => m \in DecayReply /\ m.atom \in Atom
         /\ m.type = "DecayQuery" => m \in DecayQuery
  BY DEF TypeOK, AtomSync, DecayReply, DecayQuery

LEMMA PutType ==
  ASSUME TypeOK, NEW n \in Node, NEW k \in Key, NEW c \in 0 .. MaxClock, Put(n, k, c)
  PROVE  TypeOK'
<1> DEFINE atom == [clock |-> c, value |-> puts + 1]
<1>1. atom \in Atom /\ atom \in Cell
  BY BoundAssumption DEF Put, TypeOK, Atom, Cell
<1>2. nucleus' \in [Node -> [Key -> Cell]]
  BY <1>1, AbsorbedNewer DEF Put
<1>3. net' \subseteq AtomSync \cup DecayReply \cup DecayQuery /\ \A m \in net' : up'[m.to]
  BY <1>1 DEF Put, TypeOK, Listeners, AtomSync
<1>4. written' \in [Key -> SUBSET Atom]
  BY <1>1 DEF Put, TypeOK
<1>5. missed' \in [Node -> SUBSET (Key \X Atom)]
  BY <1>1 DEF Put, TypeOK
<1> QED BY <1>2, <1>3, <1>4, <1>5, BoundAssumption DEF Put, TypeOK

LEMMA GetType ==
  ASSUME TypeOK, NEW n \in Node, NEW k \in Key, Get(n, k)
  PROVE  TypeOK'
<1>1. net' \subseteq AtomSync \cup DecayReply \cup DecayQuery /\ \A m \in net' : up'[m.to]
  BY DEF Get, TypeOK, Listeners, DecayQuery
<1>2. pending' \in [Node -> SUBSET Key]
  <2>1. pending \in [Node -> SUBSET Key]
    BY DEF TypeOK
  <2>2. CASE Held(n, k)
    BY <2>1, <2>2 DEF Get
  <2>3. CASE ~Held(n, k)
    BY <2>1, <2>3 DEF Get
  <2> QED BY <2>2, <2>3
<1> QED BY <1>1, <1>2 DEF Get, TypeOK

LEMMA DeliverType ==
  ASSUME TypeOK, NEW m \in net, Deliver(m)
  PROVE  TypeOK'
<1>1. m.to \in Node /\ m.key \in Key
  BY EnvelopeType
<1>2. CASE RecvSync(m)
  <2>1. m.atom \in Cell
    BY <1>2, EnvelopeType DEF RecvSync, Receive, Cell
  <2>2. nucleus' \in [Node -> [Key -> Cell]]
    BY <1>1, <1>2, <2>1, AbsorbedNewer DEF RecvSync, TypeOK
  <2>3. pending' \in [Node -> SUBSET Key] /\ saving' \in [Node -> BOOLEAN]
        /\ swarm' \in [Node -> BOOLEAN]
    BY <1>1, <1>2 DEF RecvSync, Receive, TypeOK
  <2> QED BY <1>2, <2>2, <2>3 DEF RecvSync, TypeOK
<1>3. CASE RecvQuery(m)
  <2>1. Held(m.to, m.key) => nucleus[m.to][m.key] \in Atom
    BY <1>1 DEF TypeOK, Held, Cell
  <2>2. net' \subseteq AtomSync \cup DecayReply \cup DecayQuery /\ \A e \in net' : up'[e.to]
    BY <1>1, <1>3, <2>1 DEF RecvQuery, TypeOK, Listeners, DecayReply
  <2> QED BY <1>1, <1>3, <2>2 DEF RecvQuery, Receive, TypeOK
<1>4. CASE RecvReply(m)
  <2>1. m.atom \in Cell
    BY <1>4, EnvelopeType DEF RecvReply, Receive, Cell
  <2>2. nucleus' \in [Node -> [Key -> Cell]]
    BY <1>1, <1>4, <2>1, AbsorbedNewer DEF RecvReply
  <2> QED BY <1>1, <1>4, <2>2 DEF RecvReply, Receive, TypeOK
<1> QED BY <1>2, <1>3, <1>4 DEF Deliver

\* The AtomSyncs among some envelopes name written keys and atoms.
LEMMA SyncsType ==
  ASSUME TypeOK, NEW S \in SUBSET net
  PROVE  Syncs(S) \subseteq Key \X Atom
  BY EnvelopeType DEF Syncs

LEMMA FaultType ==
  ASSUME TypeOK, NEW n \in Node, Save(n) \/ Pass(n) \/ Recall(n) \/ Restart(n) \/ Crash(n)
  PROVE  TypeOK'
<1>1. CASE Save(n)
  BY <1>1 DEF Save, TypeOK
<1>2. CASE Restart(n)
  BY <1>2 DEF Restart, TypeOK
<1>3. CASE Pass(n) \/ Recall(n)
  BY <1>3 DEF Pass, Recall, TypeOK
<1>4. CASE Crash(n)
  <2>1. PICK cells \in Readable(n) :
          /\ disk' = [disk EXCEPT ![n] = cells]
          /\ nucleus' = [nucleus EXCEPT ![n] = cells]
          /\ missed' = [missed EXCEPT ![n] = @ \cup Syncs({m \in net : m.to = n})
                          \cup (IF saving[n] THEN Newer(cells) ELSE {})]
    BY <1>4 DEF Crash
  <2>2. cells \in [Key -> Cell]
    BY DEF Readable, TypeOK, Empty, Cell
  <2>3. Newer(cells) \subseteq Key \X Atom
    BY DEF Newer, TypeOK
  <2>4. missed' \in [Node -> SUBSET (Key \X Atom)]
    <3>1. Syncs({m \in net : m.to = n}) \subseteq Key \X Atom
      BY SyncsType
    <3> QED BY <2>1, <2>3, <3>1 DEF TypeOK
  <2>5. disk' \in [Node -> [Key -> Cell]] /\ nucleus' \in [Node -> [Key -> Cell]]
    BY <2>1, <2>2 DEF TypeOK
  <2>6. net' \subseteq AtomSync \cup DecayReply \cup DecayQuery /\ \A m \in net' : up'[m.to]
    BY <1>4, EnvelopeType DEF Crash, TypeOK
  <2>7. up' \in [Node -> BOOLEAN] /\ saving' \in [Node -> BOOLEAN] /\ swarm' \in [Node -> BOOLEAN]
        /\ pending' \in [Node -> SUBSET Key] /\ faults' \in 0 .. MaxFaults /\ written' = written /\ puts' = puts
    BY <1>4, BoundAssumption DEF Crash, TypeOK
  <2> QED BY <2>4, <2>5, <2>6, <2>7 DEF TypeOK
<1> QED BY <1>1, <1>2, <1>3, <1>4

LEMMA LoseType ==
  ASSUME TypeOK, NEW m \in net, Lose(m)
  PROVE  TypeOK'
<1>1. Syncs({m}) \subseteq Key \X Atom
  BY SyncsType
<1>2. missed' \in [Node -> SUBSET (Key \X Atom)]
  BY <1>1, EnvelopeType DEF Lose, TypeOK
<1>3. faults' \in 0 .. MaxFaults
  BY BoundAssumption DEF Lose, TypeOK
<1>4. net' \subseteq net /\ up' = up
  BY DEF Lose
<1> QED BY <1>2, <1>3, <1>4 DEF Lose, TypeOK

LEMMA StepType == TypeOK /\ [Next]_vars => TypeOK'
<1> SUFFICES ASSUME TypeOK, [Next]_vars PROVE TypeOK'
  OBVIOUS
<1>1. CASE UNCHANGED vars
  BY <1>1 DEF vars, TypeOK
<1>2. CASE Next
  BY <1>2, RoleAssumption, GetType, PutType, DeliverType, LoseType, FaultType DEF Next
<1> QED BY <1>1, <1>2

\* Every reachable state is well typed.
THEOREM TypeCorrect == Spec => []TypeOK
<1>1. Init => TypeOK
  BY InitInv DEF IInv
<1> QED BY <1>1, StepType, PTL DEF Spec

-----------------------------------------------------------------------------
(* Owners and files.                                                       *)

LEMMA StepFile == IInv /\ [Next]_vars => FileCurrent'
<1> SUFFICES ASSUME IInv, [Next]_vars PROVE FileCurrent'
  OBVIOUS
<1> USE DEF IInv
<1>1. CASE UNCHANGED vars
  BY <1>1 DEF vars, FileCurrent
<1>2. ASSUME NEW n \in Node, NEW k \in Key, Get(n, k) PROVE FileCurrent'
  BY <1>2 DEF Get, FileCurrent
<1>3. ASSUME NEW n \in Node, NEW k \in Key, NEW c \in 0 .. MaxClock, Put(n, k, c)
      PROVE FileCurrent'
  <2>1. \A p \in Node : p # n => nucleus'[p] = nucleus[p]
    BY <1>3 DEF Put, Absorbed, TypeOK
  <2> QED BY <1>3, <2>1 DEF Put, Idle, FileCurrent, TypeOK
<1>4. ASSUME NEW m \in net, Deliver(m) PROVE FileCurrent'
  <2>1. m.to \in Node /\ up[m.to] /\ m.key \in Key
    BY EnvelopeType
  <2>2. /\ saving' = [saving EXCEPT ![m.to] = TRUE]
        /\ up' = up /\ disk' = disk
    BY <1>4 DEF Deliver, RecvSync, RecvQuery, RecvReply, Receive
  <2>3. \A p \in Node : p # m.to => nucleus'[p] = nucleus[p]
    BY <1>4, <2>1 DEF Deliver, RecvSync, RecvQuery, RecvReply, Absorbed, TypeOK
  <2> QED BY <2>1, <2>2, <2>3 DEF FileCurrent, TypeOK
<1>5. ASSUME NEW m \in net, Lose(m) PROVE FileCurrent'
  BY <1>5 DEF Lose, FileCurrent
<1>6. ASSUME NEW n \in Node, Save(n) PROVE FileCurrent'
  BY <1>6 DEF Save, FileCurrent, TypeOK
<1>7. ASSUME NEW n \in Node, Restart(n) PROVE FileCurrent'
  BY <1>7 DEF Restart, FileCurrent, TypeOK
<1>9. ASSUME NEW n \in Node, Pass(n) \/ Recall(n) PROVE FileCurrent'
  BY <1>9 DEF Pass, Recall, FileCurrent
<1>8. ASSUME NEW n \in Node, Crash(n) PROVE FileCurrent'
  <2>1. PICK cells : /\ disk' = [disk EXCEPT ![n] = cells]
                     /\ nucleus' = [nucleus EXCEPT ![n] = cells]
    BY <1>8 DEF Crash
  <2>2. /\ saving' = [saving EXCEPT ![n] = FALSE]
        /\ up' = [up EXCEPT ![n] = FALSE]
    BY <1>8 DEF Crash
  <2> QED BY <2>1, <2>2 DEF FileCurrent, TypeOK
<1> QED BY <1>1, <1>2, <1>3, <1>4, <1>5, <1>6, <1>7, <1>8, <1>9, RoleAssumption DEF Next

\* One owner n and one put a of key k.
Known(n, k, a) ==
  \/ nucleus[n][k].clock >= a.clock
  \/ [type |-> "AtomSync", key |-> k, to |-> n, atom |-> a] \in net
  \/ <<k, a>> \in missed[n]

\* A put is kept by its node, heard by those that listen, and missed by those
\* that are down.
LEMMA PutOwner ==
  ASSUME IInv, NEW x \in Node, NEW j \in Key, NEW c \in 0 .. MaxClock, Put(x, j, c)
  PROVE  OwnerCurrent'
<1> DEFINE atom == [clock |-> c, value |-> puts + 1]
<1>1. atom \in Cell /\ atom.clock = c /\ TypeOK
  BY BoundAssumption DEF Put, IInv, TypeOK, Atom, Cell
<1>2. /\ nucleus'[x][j].clock >= c
      /\ \A n \in Node, k \in Key : nucleus'[n][k].clock >= nucleus[n][k].clock
  BY <1>1, AbsorbedNewer DEF Put
<1> SUFFICES ASSUME NEW k \in Key, NEW n \in Owner[k], NEW a \in written'[k]
             PROVE  Known(n, k, a)'
  BY DEF OwnerCurrent, Known
<1>3. n \in Node
  BY OwnerAssumption
<1>4. CASE a \in written[k]
  <2>1. Known(n, k, a)
    BY <1>3, <1>4 DEF IInv, OwnerCurrent, Known
  <2>2. nucleus[n][k].clock \in Int /\ a.clock \in Int /\ nucleus'[n][k].clock \in Int
    <3>1. nucleus' \in [Node -> [Key -> Cell]]
      BY <1>1, AbsorbedNewer DEF Put
    <3> QED BY <1>1, <1>3, <1>4, <3>1 DEF TypeOK, Cell, Atom, Absent
  <2>3. missed[n] \subseteq missed'[n] /\ net \subseteq net'
    BY <1>3 DEF Put
  <2> QED BY <1>2, <1>3, <2>1, <2>2, <2>3 DEF Known
<1>5. CASE a \notin written[k]
  <2>1. k = j /\ a = atom
    BY <1>1, <1>5 DEF Put, TypeOK
  <2>2. CASE n = x
    BY <1>1, <1>2, <2>1, <2>2 DEF Known
  <2>3. CASE n # x /\ up[n]
    BY <1>3, <2>1, <2>3 DEF Put, Listeners, Known
  <2>4. CASE n # x /\ ~up[n]
    BY <1>1, <1>3, <2>1, <2>4 DEF Put, Known, TypeOK
  <2> QED BY <2>2, <2>3, <2>4
<1> QED BY <1>4, <1>5

\* Delivering an envelope uses up an owner's AtomSync only by absorbing it.
LEMMA DeliverOwner ==
  ASSUME IInv, NEW m \in net, Deliver(m)
  PROVE  OwnerCurrent'
<1>1. TypeOK /\ m.to \in Node /\ m.key \in Key
  BY EnvelopeType DEF IInv
<1>2. written' = written /\ missed' = missed /\ net \ {m} \subseteq net'
  BY <1>1 DEF Deliver, RecvSync, RecvQuery, RecvReply
<1>3. nucleus' \in [Node -> [Key -> Cell]]
  BY <1>1, DeliverType DEF TypeOK
<1>4. \A n \in Node, k \in Key : nucleus'[n][k].clock >= nucleus[n][k].clock
  <2>1. CASE UNCHANGED nucleus
    <3>1. \A n \in Node, k \in Key : nucleus[n][k].clock \in Int
      BY <1>1 DEF TypeOK, Cell, Atom, Absent
    <3> QED BY <2>1, <3>1
  <2>2. CASE m.atom \in Cell /\ nucleus' = Absorbed(m.to, m.key, m.atom)
    BY <1>1, <2>2, AbsorbedNewer
  <2>3. UNCHANGED nucleus \/ (m.atom \in Cell /\ nucleus' = Absorbed(m.to, m.key, m.atom))
    BY EnvelopeType, <1>1 DEF Deliver, RecvSync, RecvQuery, RecvReply, Receive, Cell
  <2> QED BY <2>1, <2>2, <2>3
<1> SUFFICES ASSUME NEW k \in Key, NEW n \in Owner[k], NEW a \in written[k]
             PROVE  Known(n, k, a)'
  BY <1>2 DEF OwnerCurrent, Known
<1>5. n \in Node /\ Known(n, k, a)
  BY OwnerAssumption DEF IInv, OwnerCurrent, Known
<1>6. nucleus[n][k].clock \in Int /\ nucleus'[n][k].clock \in Int /\ a.clock \in Int
  BY <1>1, <1>3, <1>5 DEF TypeOK, Cell, Atom, Absent
<1>7. CASE m = [type |-> "AtomSync", key |-> k, to |-> n, atom |-> a]
  <2>1. RecvSync(m)
    BY <1>7 DEF Deliver, RecvQuery, RecvReply, Receive
  <2>2. nucleus' = Absorbed(n, k, a) /\ a \in Cell
    BY <1>1, <1>7, <2>1 DEF RecvSync, TypeOK, Cell
  <2>3. nucleus'[n][k].clock >= a.clock
    BY <1>1, <1>5, <2>2, AbsorbedNewer
  <2> QED BY <2>3 DEF Known
<1>8. CASE m # [type |-> "AtomSync", key |-> k, to |-> n, atom |-> a]
  BY <1>2, <1>4, <1>5, <1>6, <1>8 DEF Known
<1> QED BY <1>7, <1>8

\* A lost AtomSync is missed.
LEMMA LoseOwner ==
  ASSUME IInv, NEW m \in net, Lose(m)
  PROVE  OwnerCurrent'
<1>1. m.to \in Node /\ TypeOK
  BY EnvelopeType DEF IInv
<1> SUFFICES ASSUME NEW k \in Key, NEW n \in Owner[k], NEW a \in written[k]
             PROVE  Known(n, k, a)'
  BY DEF Lose, OwnerCurrent, Known
<1>2. n \in Node /\ Known(n, k, a)
  BY OwnerAssumption DEF IInv, OwnerCurrent, Known
<1>3. missed[n] \subseteq missed'[n] /\ nucleus' = nucleus /\ net' = net \ {m}
  BY <1>1, <1>2 DEF Lose, TypeOK
<1>4. CASE m = [type |-> "AtomSync", key |-> k, to |-> n, atom |-> a]
  <2>1. <<k, a>> \in Syncs({m})
    BY <1>4 DEF Syncs
  <2>2. <<k, a>> \in missed'[n]
    BY <1>1, <1>2, <1>4, <2>1 DEF Lose, TypeOK
  <2> QED BY <2>2 DEF Known
<1>5. CASE m # [type |-> "AtomSync", key |-> k, to |-> n, atom |-> a]
  BY <1>2, <1>3, <1>5 DEF Known
<1> QED BY <1>4, <1>5

\* A crash takes what was on the way to the node, and what a handler had not
\* written; the file of an idle node has all it knew.
LEMMA CrashOwner ==
  ASSUME IInv, NEW x \in Node, Crash(x)
  PROVE  OwnerCurrent'
<1>1. PICK cells \in Readable(x) :
        /\ nucleus' = [nucleus EXCEPT ![x] = cells]
        /\ missed' = [missed EXCEPT ![x] = @ \cup Syncs({m \in net : m.to = x})
                        \cup (IF saving[x] THEN Newer(cells) ELSE {})]
  BY DEF Crash
<1>2. TypeOK /\ FileCurrent /\ written' = written /\ net' = {m \in net : m.to # x}
  BY DEF IInv, Crash
<1> SUFFICES ASSUME NEW k \in Key, NEW n \in Owner[k], NEW a \in written[k]
             PROVE  Known(n, k, a)'
  BY <1>2 DEF OwnerCurrent, Known
<1>3. n \in Node /\ Known(n, k, a)
  BY OwnerAssumption DEF IInv, OwnerCurrent, Known
<1>4. CASE n # x
  BY <1>1, <1>2, <1>3, <1>4 DEF Known, TypeOK
<1>5. CASE n = x
  <2>1. missed'[n] = missed[n] \cup Syncs({m \in net : m.to = n})
                       \cup (IF saving[n] THEN Newer(cells) ELSE {})
        /\ nucleus'[n] = cells
    BY <1>1, <1>2, <1>5 DEF TypeOK
  <2>2. CASE [type |-> "AtomSync", key |-> k, to |-> n, atom |-> a] \in net
    <3>1. <<k, a>> \in Syncs({m \in net : m.to = n})
      BY <2>2 DEF Syncs
    <3> QED BY <2>1, <3>1 DEF Known
  <2>3. CASE <<k, a>> \in missed[n]
    BY <2>1, <2>3 DEF Known
  <2>4. CASE nucleus[n][k].clock >= a.clock /\ ~saving[n]
    <3>1. cells = nucleus[n]
      BY <1>2, <1>3, <1>5, <2>4 DEF Readable, FileCurrent
    <3> QED BY <2>1, <2>4, <3>1 DEF Known
  <2>5. CASE saving[n]
    <3>1. cells[k] \in Cell /\ a \in Atom
      BY <1>1, <1>2 DEF Readable, TypeOK, Empty, Cell
    <3>2. CASE cells[k].clock >= a.clock
      BY <2>1, <3>2 DEF Known
    <3>3. CASE a.clock > cells[k].clock
      <4>1. <<k, a>> \in Newer(cells)
        BY <3>3 DEF Newer
      <4> QED BY <2>1, <2>5, <4>1 DEF Known
    <3> QED BY <3>1, <3>2, <3>3 DEF Cell, Atom, Absent
  <2> QED BY <1>3, <2>2, <2>3, <2>4, <2>5 DEF Known
<1> QED BY <1>4, <1>5

LEMMA StepOwner == IInv /\ [Next]_vars => OwnerCurrent'
<1> SUFFICES ASSUME IInv, [Next]_vars PROVE OwnerCurrent'
  OBVIOUS
<1>1. CASE UNCHANGED vars
  BY <1>1 DEF vars, IInv, OwnerCurrent
<1>2. ASSUME NEW n \in Node, NEW k \in Key, Get(n, k) PROVE OwnerCurrent'
  <2>1. net \subseteq net'
    BY <1>2 DEF Get
  <2> QED BY <1>2, <2>1, OwnerAssumption DEF Get, IInv, OwnerCurrent
<1>3. ASSUME NEW n \in Node, Save(n) \/ Pass(n) \/ Recall(n) \/ Restart(n) PROVE OwnerCurrent'
  BY <1>3 DEF Save, Pass, Recall, Restart, IInv, OwnerCurrent
<1> QED BY <1>1, <1>2, <1>3, PutOwner, DeliverOwner, LoseOwner, CrashOwner, RoleAssumption
        DEF Next

-----------------------------------------------------------------------------
(* The theorems.                                                           *)

LEMMA Invariant == Spec => []IInv
<1>1. IInv /\ [Next]_vars => IInv'
  BY StepType, StepFile, StepOwner DEF IInv
<1> QED BY InitInv, <1>1, PTL DEF Spec

\* An owner of a key's shard is behind a put only while its AtomSync is on
\* the way or if it missed it: the order of puts, replies and copies does not
\* matter, nor do crashes of nodes that are not writing their file.
THEOREM OwnersCurrent == Spec => []OwnerCurrent
<1>1. IInv => OwnerCurrent
  BY DEF IInv
<1> QED BY <1>1, Invariant, PTL

\* What a node answers for a key only moves to newer clocks, restarts
\* included, unless it crashes while it writes its file.
THEOREM ReadsMoveForward == Spec => ReadsForward
<1> DEFINE Forward ==
      \A n \in Node, k \in Key :
        nucleus'[n][k] # nucleus[n][k] =>
          nucleus'[n][k].clock > nucleus[n][k].clock \/ (saving[n] /\ ~up'[n])
<1>1. ASSUME IInv, [Next]_vars PROVE [Forward]_vars
  <2>1. CASE UNCHANGED vars
    BY <2>1
  <2>2. ASSUME NEW x \in Node, NEW j \in Key, NEW c \in 0 .. MaxClock, Put(x, j, c)
        PROVE Forward
    <3>1. [clock |-> c, value |-> puts + 1] \in Cell /\ TypeOK
      BY <1>1, <2>2, BoundAssumption DEF Put, IInv, TypeOK, Atom, Cell
    <3> QED BY <2>2, <3>1, AbsorbedNewer DEF Put
  <2>3. ASSUME NEW m \in net, Deliver(m) PROVE Forward
    <3>1. UNCHANGED nucleus \/ (m.atom \in Cell /\ nucleus' = Absorbed(m.to, m.key, m.atom))
      BY EnvelopeType, <1>1, <2>3
         DEF IInv, Deliver, RecvSync, RecvQuery, RecvReply, Receive, Cell
    <3>2. m.to \in Node /\ m.key \in Key /\ TypeOK
      BY <1>1, EnvelopeType DEF IInv
    <3>3. CASE UNCHANGED nucleus
      BY <3>3
    <3>4. CASE m.atom \in Cell /\ nucleus' = Absorbed(m.to, m.key, m.atom)
      BY <3>2, <3>4, AbsorbedNewer
    <3> QED BY <3>1, <3>3, <3>4
  <2>4. ASSUME NEW x \in Node, Crash(x) PROVE Forward
    <3>1. PICK cells \in Readable(x) : nucleus' = [nucleus EXCEPT ![x] = cells]
      BY <2>4 DEF Crash
    <3>2. ~saving[x] => cells = nucleus[x]
      BY <1>1, <3>1 DEF IInv, FileCurrent, Readable
    <3>3. ~up'[x]
      BY <1>1, <2>4 DEF Crash, IInv, TypeOK
    <3> QED BY <1>1, <3>1, <3>2, <3>3 DEF IInv, TypeOK
  <2>5. CASE UNCHANGED nucleus
    BY <2>5
  <2>6. ASSUME NEW n \in Node, NEW k \in Key, Get(n, k) PROVE UNCHANGED nucleus
    BY <2>6 DEF Get
  <2>7. ASSUME NEW m \in net, Lose(m) PROVE UNCHANGED nucleus
    BY <2>7 DEF Lose
  <2>8. ASSUME NEW n \in Node, Save(n) \/ Pass(n) \/ Recall(n) \/ Restart(n) PROVE UNCHANGED nucleus
    BY <2>8 DEF Save, Pass, Recall, Restart
  <2> QED BY <1>1, <2>1, <2>2, <2>3, <2>4, <2>5, <2>6, <2>7, <2>8, RoleAssumption DEF Next
<1> QED BY <1>1, Invariant, PTL DEF Spec, ReadsForward
=============================================================================
