-------------------------- MODULE Watchtower_proofs --------------------------
(* Theorems about Watchtower, for every set of channels and checks.        *)
EXTENDS Watchtower, FiniteSetTheorems, WellFoundedInduction, TLAPS

\* The checks that visit id.
Visits(id) == {k \in Poll : at[k] = id}

\* What a check took for expired when it began has expired.
TakenLate == \A k \in Poll : expired[k] \subseteq late

\* An id not given yet has neither an alert nor a visit.
Unborn ==
  /\ \A id \in Id : id > count => alerts[id] = 0
  /\ \A k \in Poll : at[k] <= count

\* A registration goes with its first alert.
UntoldYet == \A id \in registrations : alerts[id] = 0

\* Only checks that visit it already will tell a breach once more.
AlertsDue == \A id \in Id : alerts[id] + Cardinality(Visits(id)) <= Cardinality(Poll)

IInv == TypeOK /\ TakenLate /\ Unborn /\ UntoldYet /\ AlertsDue

-----------------------------------------------------------------------------
(* Numbers and finite sets.                                                *)

LEMMA PollFinite ==
  /\ IsFiniteSet(Poll) /\ Cardinality(Poll) \in Nat
  BY BoundAssumption, FS_CardinalityType DEF BoundAssumption

LEMMA VisitsFinite ==
  ASSUME NEW id
  PROVE  /\ IsFiniteSet(Visits(id)) /\ Cardinality(Visits(id)) \in Nat
         /\ Cardinality(Visits(id)) <= Cardinality(Poll)
<1>1. Visits(id) \in SUBSET Poll
  BY DEF Visits
<1>2. IsFiniteSet(Visits(id)) /\ Cardinality(Visits(id)) <= Cardinality(Poll)
  BY <1>1, PollFinite, FS_Subset
<1> QED BY <1>2, FS_CardinalityType

\* A check visits a registration or none.
LEMMA VisitBound ==
  ASSUME NEW S, NEW n \in Nat, S \subseteq 1 .. n, NEW x \in S \cup {0}
  PROVE  x <= n
  OBVIOUS

\* A set of ids is finite.
LEMMA IdsFinite ==
  ASSUME NEW S \in SUBSET Id
  PROVE  IsFiniteSet(S) /\ Cardinality(S) \in Nat
<1>1. IsFiniteSet(Id)
  BY BoundAssumption, FS_Interval DEF BoundAssumption, Id
<1>2. IsFiniteSet(S)
  BY <1>1, FS_Subset
<1> QED BY <1>2, FS_CardinalityType

\* Min of a set of ids is one of them: the intervals from 1 to each of them
\* have a least one.
LEMMA MinIsMember ==
  ASSUME NEW S \in SUBSET Id, S # {}
  PROVE  Min(S) \in S
<1> DEFINE T == {1 .. x : x \in S}
<1>1. IsFiniteSet(Id)
  BY IdsFinite
<1>2. IsWellFoundedOn(StrictSubsetOrdering(Id), SUBSET Id)
  BY <1>1, FS_StrictSubsetOrderingWellFounded, FS_FiniteSubsetsOfFinite
<1>3. ASSUME NEW z \in S PROVE 1 .. z \in SUBSET Id
  BY BoundAssumption DEF BoundAssumption, Id
<1>4. T # {}
  OBVIOUS
<1>5. PICK t \in T : \A u \in T : ~(<<u, t>> \in StrictSubsetOrdering(Id))
  <2>1. T \subseteq SUBSET Id
    BY <1>3
  <2> HIDE DEF T
  <2> QED BY <1>2, <1>4, <2>1, WFMin
<1>6. PICK x \in S : t = 1 .. x
  OBVIOUS
<1>7. ASSUME NEW y \in S PROVE x <= y
  <2>1. x \in Int /\ y \in Int /\ x >= 1 /\ y >= 1
    BY DEF Id
  <2>2. ~(<<1 .. y, 1 .. x>> \in StrictSubsetOrdering(Id))
    BY <1>5, <1>6
  <2>3. 1 .. y \in SUBSET Id /\ 1 .. x \in SUBSET Id
    BY <1>3
  <2>4. ~(1 .. y \subseteq 1 .. x /\ 1 .. y # 1 .. x)
    BY <2>2, <2>3 DEF StrictSubsetOrdering
  <2>5. ASSUME y < x PROVE FALSE
    <3>1. 1 .. y \subseteq 1 .. x
      BY <2>1, <2>5
    <3>2. x \in 1 .. x /\ x \notin 1 .. y
      BY <2>1, <2>5
    <3> QED BY <2>4, <3>1, <3>2
  <2> QED BY <2>1, <2>5
<1> QED BY <1>7 DEF Min

-----------------------------------------------------------------------------
(* Going on to the next registration.                                      *)

\* What Proceed deletes had expired when the check began; what it visits next
\* was kept.
LEMMA ProceedStep ==
  ASSUME TypeOK, NEW k \in Poll, NEW from, NEW kept \in SUBSET registrations,
         NEW old \in SUBSET Id, Proceed(k, from, kept, old)
  PROVE  /\ registrations' \subseteq kept /\ kept \ registrations' \subseteq old
         /\ at'[k] \in kept \cup {0} /\ at' = [at EXCEPT ![k] = at'[k]]
         /\ step' = [step EXCEPT ![k] = "outspend"]
         /\ expired'[k] \subseteq old /\ expired' = [expired EXCEPT ![k] = expired'[k]]
<1> DEFINE ask  == {id \in kept : id > from} \ old
           next == IF ask = {} THEN 0 ELSE Min(ask)
<1>1. kept \subseteq Id
  BY BoundAssumption DEF TypeOK, Id, BoundAssumption
<1>2. next \in kept \cup {0}
  <2>1. ask \in SUBSET Id
    BY <1>1
  <2>2. ask # {} => Min(ask) \in ask
    <3> HIDE DEF ask
    <3> QED BY <2>1, MinIsMember
  <2> QED BY <2>2
<1>3. at' = [at EXCEPT ![k] = next]
  BY DEF Proceed
<1>4. at'[k] = next
  BY <1>3 DEF TypeOK
<1>5. expired' = [expired EXCEPT ![k] = IF next = 0 THEN {} ELSE old]
  BY DEF Proceed
<1>6. expired'[k] = IF next = 0 THEN {} ELSE old
  BY <1>5 DEF TypeOK
<1>7. registrations' \subseteq kept /\ kept \ registrations' \subseteq old
  BY DEF Proceed
<1>8. step' = [step EXCEPT ![k] = "outspend"]
  BY DEF Proceed
<1> DEFINE taken == IF next = 0 THEN {} ELSE old
<1> HIDE DEF next
<1>9. at'[k] \in kept \cup {0} /\ at' = [at EXCEPT ![k] = at'[k]]
  BY <1>2, <1>3, <1>4
<1>10. expired' = [expired EXCEPT ![k] = expired'[k]] /\ expired'[k] \subseteq old
  <2>1. expired' = [expired EXCEPT ![k] = taken] /\ expired'[k] = taken
    BY <1>5, <1>6
  <2>2. taken \subseteq old
    OBVIOUS
  <2> HIDE DEF taken
  <2> QED BY <2>1, <2>2
<1> QED BY <1>7, <1>8, <1>9, <1>10

\* Registrations that only go stay within their bound.
LEMMA FewerRegistrations ==
  ASSUME TypeOK, registrations' \subseteq registrations
  PROVE  Cardinality(registrations') <= maxRegistrations
<1>1. registrations \in SUBSET Id
  BY BoundAssumption DEF TypeOK, Id, BoundAssumption
<1>2. IsFiniteSet(registrations) /\ Cardinality(registrations) \in Nat
  BY <1>1, IdsFinite
<1>3. Cardinality(registrations') <= Cardinality(registrations)
  BY <1>2, FS_Subset
<1>4. Cardinality(registrations') \in Nat
  BY <1>1, IdsFinite
<1> QED BY <1>2, <1>3, <1>4, BoundAssumption DEF TypeOK, BoundAssumption

\* The type of a check's step that goes on.
LEMMA ProceedType ==
  ASSUME TypeOK, NEW k \in Poll, NEW from, NEW kept \in SUBSET registrations,
         NEW old \in SUBSET Id, Proceed(k, from, kept, old),
         alerts' \in [Id -> 0 .. Cardinality(Poll) + 1],
         UNCHANGED <<registry, spent, late, running, stops, justice>>
  PROVE  TypeOK'
<1>0. /\ registrations' \subseteq registrations
      /\ at'[k] \in kept \cup {0} /\ at' = [at EXCEPT ![k] = at'[k]]
      /\ step' = [step EXCEPT ![k] = "outspend"]
      /\ expired'[k] \in SUBSET Id /\ expired' = [expired EXCEPT ![k] = expired'[k]]
  <2>1. /\ registrations' \subseteq kept
        /\ at'[k] \in kept \cup {0} /\ at' = [at EXCEPT ![k] = at'[k]]
        /\ step' = [step EXCEPT ![k] = "outspend"]
        /\ expired'[k] \subseteq old /\ expired' = [expired EXCEPT ![k] = expired'[k]]
    BY ProceedStep
  <2> QED BY <2>1
<1>2. Cardinality(registrations') <= maxRegistrations
  BY <1>0, FewerRegistrations
<1>3. at' \in [Poll -> Id \cup {0}]
  <2>1. registrations \subseteq Id
    BY BoundAssumption DEF TypeOK, Id, BoundAssumption
  <2>2. at \in [Poll -> Id \cup {0}]
    BY DEF TypeOK
  <2> QED BY <1>0, <2>1, <2>2
<1>4. step' \in [Poll -> {"outspend", "broadcast", "height"}]
  <2>1. step \in [Poll -> {"outspend", "broadcast", "height"}]
    BY DEF TypeOK
  <2> QED BY <1>0, <2>1
<1>5. expired' \in [Poll -> SUBSET Id]
  <2>1. expired \in [Poll -> SUBSET Id]
    BY DEF TypeOK
  <2> QED BY <1>0, <2>1
<1> QED BY <1>0, <1>2, <1>3, <1>4, <1>5 DEF TypeOK, registry

\* Ids that the check does not turn to have no more visits than before.
LEMMA NoNewVisit ==
  ASSUME TypeOK, NEW k \in Poll, NEW id \in Id,
         at' = [at EXCEPT ![k] = at'[k]], at'[k] # id
  PROVE  /\ Visits(id)' = Visits(id) \ {k}
         /\ Cardinality(Visits(id)') \in Nat
         /\ Cardinality(Visits(id)') =
              IF at[k] = id THEN Cardinality(Visits(id)) - 1 ELSE Cardinality(Visits(id))
<1>1. \A j \in Poll : j # k => at'[j] = at[j]
  BY DEF TypeOK
<1>2. Visits(id)' = Visits(id) \ {k}
  BY <1>1 DEF Visits
<1>3. k \in Visits(id) <=> at[k] = id
  BY DEF Visits
<1>4. Cardinality(Visits(id) \ {k}) =
        IF k \in Visits(id) THEN Cardinality(Visits(id)) - 1 ELSE Cardinality(Visits(id))
  BY VisitsFinite, FS_RemoveElement
<1>5. IsFiniteSet(Visits(id) \ {k})
  BY VisitsFinite, FS_RemoveElement
<1>6. Cardinality(Visits(id) \ {k}) \in Nat
  BY <1>5, FS_CardinalityType
<1> QED BY <1>2, <1>3, <1>4, <1>6

\* After any step there are at most as many visits as checks.
LEMMA VisitsFiniteNext ==
  ASSUME NEW id
  PROVE  /\ Cardinality(Visits(id)') \in Nat
         /\ Cardinality(Visits(id)') <= Cardinality(Poll)
<1>1. Visits(id)' \in SUBSET Poll
  BY DEF Visits
<1>2. IsFiniteSet(Visits(id)') /\ Cardinality(Visits(id)') <= Cardinality(Poll)
  BY <1>1, PollFinite, FS_Subset
<1> QED BY <1>2, FS_CardinalityType

\* A check that goes on and tells nothing preserves the invariant.
LEMMA ProceedInv ==
  ASSUME IInv, NEW k \in Poll, NEW from, NEW old \in SUBSET late,
         Proceed(k, from, registrations, old),
         UNCHANGED <<registry, spent, late, running, stops, justice, alerts>>
  PROVE  IInv'
<1> USE DEF IInv
<1>1. late \subseteq Id /\ old \in SUBSET Id
  BY DEF TypeOK
<1>2. TypeOK'
  BY <1>1, ProceedType DEF TypeOK
<1>3. /\ registrations' \subseteq registrations
      /\ at'[k] \in registrations \cup {0} /\ at' = [at EXCEPT ![k] = at'[k]]
      /\ expired'[k] \subseteq old /\ expired' = [expired EXCEPT ![k] = expired'[k]]
  BY <1>1, ProceedStep
<1>4. TakenLate'
  BY <1>3 DEF TakenLate, TypeOK
<1>5. Unborn'
  <2>1. count \in Nat /\ registrations \subseteq 1 .. count
    BY BoundAssumption DEF TypeOK, BoundAssumption
  <2>2. at'[k] <= count
    <3>1. at'[k] \in registrations \cup {0}
      BY <1>3
    <3> QED BY <2>1, <3>1, VisitBound
  <2> QED BY <1>3, <2>2 DEF Unborn, TypeOK, registry
<1>6. UntoldYet'
  BY <1>3 DEF UntoldYet
<1>7. AlertsDue'
  <2> SUFFICES ASSUME NEW id \in Id
               PROVE  alerts[id] + Cardinality(Visits(id)') <= Cardinality(Poll)
    BY DEF AlertsDue
  <2>1. CASE id \in registrations
    <3>1. alerts[id] = 0
      BY <2>1 DEF UntoldYet
    <3> QED BY <3>1, VisitsFiniteNext
  <2>2. CASE id \notin registrations
    <3>1. at'[k] # id
      BY <1>3, <2>2, BoundAssumption DEF Id, BoundAssumption
    <3>2. Cardinality(Visits(id)') <= Cardinality(Visits(id)) /\ Cardinality(Visits(id)') \in Nat
      BY <1>3, <3>1, NoNewVisit, VisitsFinite
    <3>3. alerts[id] + Cardinality(Visits(id)) <= Cardinality(Poll) /\ alerts[id] \in Nat
      BY PollFinite DEF AlertsDue, TypeOK
    <3> QED BY <3>2, <3>3, VisitsFinite, PollFinite
  <2> QED BY <2>1, <2>2
<1> QED BY <1>2, <1>4, <1>5, <1>6, <1>7

-----------------------------------------------------------------------------
(* The actions.                                                            *)

LEMMA InitInv == Init => IInv
<1> SUFFICES ASSUME Init PROVE IInv
  OBVIOUS
<1>1. Cardinality(registrations) = 0
  BY FS_EmptySet DEF Init
<1>2. (CHOOSE c \in Channel : TRUE) \in Channel
  BY ChannelAssumption DEF ChannelAssumption
<1>3. TypeOK
  <2>1. /\ version \in [Channel -> Nat] /\ spent \in [Channel -> Nat \cup {Unspent}]
        /\ chan \in [Id -> Channel] /\ expected \in [Id -> Nat]
    BY <1>2 DEF Init
  <2>2. registrations \subseteq 1 .. count /\ count \in 0 .. MaxId /\ stops \in 0 .. MaxStops
    BY BoundAssumption DEF Init, BoundAssumption
  <2>3. Cardinality(registrations) <= maxRegistrations
    BY <1>1, BoundAssumption DEF BoundAssumption
  <2>4. /\ at \in [Poll -> Id \cup {0}] /\ expired \in [Poll -> SUBSET Id]
        /\ step \in [Poll -> {"outspend", "broadcast", "height"}]
    BY DEF Init
  <2>5. alerts \in [Id -> 0 .. Cardinality(Poll) + 1]
    BY PollFinite DEF Init
  <2> QED BY <2>1, <2>2, <2>3, <2>4, <2>5 DEF Init, TypeOK
<1>4. TakenLate /\ Unborn /\ UntoldYet
  BY DEF Init, TakenLate, Unborn, UntoldYet
<1>5. AlertsDue
  BY VisitsFinite DEF Init, AlertsDue
<1> QED BY <1>3, <1>4, <1>5 DEF IInv

\* Register counts one more registration, which nothing has told or visited.
LEMMA RegisterInv ==
  ASSUME IInv, NEW c \in Channel, Register(c)
  PROVE  IInv'
<1> USE DEF IInv
<1>1. count \in Nat /\ count' = count + 1 /\ count' \in 0 .. MaxId /\ count' \in Id
  BY BoundAssumption DEF Register, TypeOK, BoundAssumption, Id
<1>2. registrations' \in {registrations, registrations \cup {count'}}
  BY DEF Register
<1>3. registrations' \subseteq 1 .. count'
  BY <1>1, <1>2 DEF TypeOK
<1>4. Cardinality(registrations') <= maxRegistrations
  <2>1. registrations \in SUBSET Id
    BY BoundAssumption DEF TypeOK, Id, BoundAssumption
  <2>2. IsFiniteSet(registrations) /\ Cardinality(registrations) \in Nat
    BY <2>1, IdsFinite
  <2>3. CASE Cardinality(registrations) >= maxRegistrations
    BY <2>3 DEF Register, TypeOK
  <2>4. CASE ~(Cardinality(registrations) >= maxRegistrations)
    <3>1. registrations' = registrations \cup {count'}
      BY <2>4 DEF Register
    <3>2. count' \notin registrations
      BY <1>1 DEF TypeOK
    <3>3. Cardinality(registrations') = Cardinality(registrations) + 1
      BY <2>2, <3>1, <3>2, FS_AddElement
    <3> QED BY <2>2, <2>4, <3>3, BoundAssumption DEF BoundAssumption
  <2> QED BY <2>3, <2>4
<1>5. TypeOK'
  <2>1. version' \in [Channel -> Nat]
    BY DEF Register, TypeOK
  <2>2. version'[c] \in Nat
    BY <2>1
  <2>3. chan' \in [Id -> Channel] /\ expected' \in [Id -> Nat]
    BY <1>1, <2>2 DEF Register, TypeOK
  <2> QED BY <1>1, <1>3, <1>4, <2>1, <2>3 DEF Register, TypeOK, checks
<1>6. TakenLate'
  BY DEF Register, TakenLate, checks
<1>7. Unborn'
  <2>1. \A k \in Poll : at[k] \in Nat
    BY BoundAssumption DEF TypeOK, Id, BoundAssumption
  <2> QED BY <1>1, <2>1 DEF Register, Unborn, checks, Id
<1>8. UntoldYet'
  <2>1. alerts[count'] = 0
    BY <1>1 DEF Unborn
  <2> QED BY <1>2, <2>1 DEF Register, UntoldYet
<1>9. AlertsDue'
  BY DEF Register, AlertsDue, Visits, checks
<1> QED BY <1>5, <1>6, <1>7, <1>8, <1>9

\* The chain, time and the interval leave the registrations and the visits.
LEMMA ClockInv ==
  ASSUME IInv,
         \/ \E c \in Channel : Spend(c)
         \/ \E id \in Id : PassTime(id)
         \/ Start \/ Stop
  PROVE  IInv'
<1> USE DEF IInv
<1>1. /\ UNCHANGED <<registry, registrations, checks, alerts, justice>>
      /\ late \subseteq late'
  BY DEF Spend, PassTime, Start, Stop
<1>2. TypeOK'
  <2>1. CASE \E c \in Channel : Spend(c)
    <3> PICK c \in Channel : Spend(c)
      BY <2>1
    <3>1. version[c] \in Nat
      BY DEF TypeOK
    <3>2. spent' \in [Channel -> Nat \cup {Unspent}]
      BY <3>1 DEF Spend, TypeOK
    <3> QED BY <3>2 DEF Spend, TypeOK, registry, checks
  <2>2. CASE \E id \in Id : PassTime(id)
    BY <2>2 DEF PassTime, TypeOK, registry, checks
  <2>3. CASE Start
    BY <2>3 DEF Start, TypeOK, registry, checks
  <2>4. CASE Stop
    <3>1. stops' \in 0 .. MaxStops
      BY <2>4, BoundAssumption DEF Stop, TypeOK, BoundAssumption
    <3> QED BY <2>4, <3>1 DEF Stop, TypeOK, registry, checks
  <2> QED BY <2>1, <2>2, <2>3, <2>4
<1>3. TakenLate'
  BY <1>1 DEF TakenLate, checks
<1>4. Unborn' /\ UntoldYet' /\ AlertsDue'
  BY <1>1 DEF Unborn, UntoldYet, AlertsDue, Visits, checks, registry
<1> QED BY <1>2, <1>3, <1>4

LEMMA CheckInv ==
  ASSUME IInv, NEW k \in Poll, Check(k)
  PROVE  IInv'
  BY ProceedInv DEF Check

LEMMA OutspendFailsInv ==
  ASSUME IInv, NEW k \in Poll, OutspendFails(k)
  PROVE  IInv'
<1>1. expired[k] \in SUBSET late
  BY DEF IInv, TakenLate
<1> QED BY <1>1, ProceedInv DEF OutspendFails

\* A check that only awaits something else.
LEMMA SameVisits ==
  ASSUME IInv, step' \in [Poll -> {"outspend", "broadcast", "height"}],
         justice' \subseteq Channel,
         UNCHANGED <<registry, spent, registrations, late, running, stops, at, expired, alerts>>
  PROVE  IInv'
<1>1. TypeOK'
  BY DEF IInv, TypeOK, registry
<1> QED BY <1>1 DEF IInv, TakenLate, Unborn, UntoldYet, AlertsDue, Visits, registry

LEMMA OutspendInv ==
  ASSUME IInv, NEW k \in Poll, Outspend(k)
  PROVE  IInv'
<1>1. CASE Breached(at[k])
  <2>1. step' \in [Poll -> {"outspend", "broadcast", "height"}]
    BY <1>1 DEF Outspend, IInv, TypeOK
  <2>2. justice' \subseteq Channel
    BY DEF Outspend, IInv, TypeOK
  <2> QED BY <1>1, <2>1, <2>2, SameVisits DEF Outspend
<1>2. CASE ~Breached(at[k])
  <2>1. expired[k] \in SUBSET late
    BY DEF IInv, TakenLate
  <2> QED BY <1>2, <2>1, ProceedInv DEF Outspend
<1> QED BY <1>1, <1>2

LEMMA BroadcastInv ==
  ASSUME IInv, NEW k \in Poll, Broadcast(k)
  PROVE  IInv'
<1>1. step' \in [Poll -> {"outspend", "broadcast", "height"}]
  BY DEF Broadcast, IInv, TypeOK
<1>2. at[k] \in Id
  BY DEF Broadcast, IInv, TypeOK
<1>3. justice' \subseteq Channel
  BY <1>2 DEF Broadcast, IInv, TypeOK
<1> QED BY <1>1, <1>3, SameVisits DEF Broadcast

\* The told registration goes, and with it the visit of the check that told.
LEMMA AlertInv ==
  ASSUME IInv, NEW k \in Poll, Alert(k)
  PROVE  IInv'
<1> USE DEF IInv
<1>1. PICK told \in Id : told = at[k]
  BY DEF Alert, TypeOK
<1>2. expired[k] \in SUBSET late /\ expired[k] \in SUBSET Id
  BY DEF TakenLate, TypeOK
<1>3. /\ Proceed(k, told, registrations \ {told}, expired[k])
      /\ registrations \ {told} \in SUBSET registrations
  BY <1>1 DEF Alert
<1>4. /\ registrations' \subseteq registrations \ {told}
      /\ at'[k] \in (registrations \ {told}) \cup {0} /\ at' = [at EXCEPT ![k] = at'[k]]
      /\ expired'[k] \subseteq expired[k] /\ expired' = [expired EXCEPT ![k] = expired'[k]]
  <2> DEFINE kept == registrations \ {told}
             old  == expired[k]
  <2>1. TypeOK /\ Proceed(k, told, kept, old) /\ kept \in SUBSET registrations /\ old \in SUBSET Id
    BY <1>2, <1>3
  <2> HIDE DEF kept, old
  <2>2. /\ registrations' \subseteq kept
        /\ at'[k] \in kept \cup {0} /\ at' = [at EXCEPT ![k] = at'[k]]
        /\ expired'[k] \subseteq old /\ expired' = [expired EXCEPT ![k] = expired'[k]]
    BY <2>1, ProceedStep
  <2> QED BY <2>2 DEF kept, old
<1>5. alerts[told] + Cardinality(Visits(told)) <= Cardinality(Poll) /\ alerts[told] \in Nat
  BY <1>1, PollFinite DEF AlertsDue, TypeOK
<1>6. /\ Cardinality(Visits(told)') = Cardinality(Visits(told)) - 1
      /\ Cardinality(Visits(told)') \in Nat
  <2>1. at'[k] # told
    BY <1>1, <1>4, BoundAssumption DEF Id, BoundAssumption
  <2> QED BY <1>1, <1>4, <2>1, NoNewVisit
<1>7. alerts' = [alerts EXCEPT ![told] = @ + 1] /\ alerts[told] < Cardinality(Poll)
  <2>1. alerts[told] < Cardinality(Poll)
    BY <1>5, <1>6, VisitsFinite, PollFinite
  <2>2. ~(alerts[told] > Cardinality(Poll))
    BY <1>5, <2>1, PollFinite
  <2> QED BY <1>1, <2>1, <2>2 DEF Alert, Told
<1>8. alerts' \in [Id -> 0 .. Cardinality(Poll) + 1]
  BY <1>1, <1>5, <1>7, PollFinite DEF TypeOK
<1>9. TypeOK'
  BY <1>2, <1>3, <1>8, ProceedType DEF Alert
<1>10. TakenLate'
  BY <1>2, <1>4 DEF Alert, TakenLate, TypeOK
<1>11. Unborn'
  <2>1. count \in Nat /\ registrations \subseteq 1 .. count /\ count' = count /\ told <= count
    BY <1>1, BoundAssumption DEF TypeOK, BoundAssumption, Alert, registry, Unborn
  <2>2. at'[k] <= count
    <3>1. at'[k] \in registrations \cup {0}
      BY <1>4
    <3> QED BY <2>1, <3>1, VisitBound
  <2>3. \A id \in Id : id > count => alerts'[id] = 0
    BY <1>1, <1>7, <2>1 DEF Unborn, TypeOK, Id
  <2> QED BY <1>4, <2>1, <2>2, <2>3 DEF Unborn, TypeOK
<1>12. UntoldYet'
  BY <1>4, <1>7, BoundAssumption DEF UntoldYet, TypeOK, Id, BoundAssumption
<1>13. AlertsDue'
  <2> SUFFICES ASSUME NEW id \in Id
               PROVE  alerts'[id] + Cardinality(Visits(id)') <= Cardinality(Poll)
    BY DEF AlertsDue
  <2>1. CASE id = told
    <3>1. alerts'[id] = alerts[told] + 1
      BY <1>1, <1>7, <2>1 DEF TypeOK
    <3>2. Cardinality(Visits(id)') = Cardinality(Visits(told)) - 1
      BY <1>6, <2>1
    <3>3. Cardinality(Visits(told)) \in Nat
      BY VisitsFinite
    <3> QED BY <1>5, <3>1, <3>2, <3>3, PollFinite
  <2>2. CASE id # told
    <3>1. alerts'[id] = alerts[id]
      BY <1>7, <2>2 DEF TypeOK
    <3>2. CASE id \in registrations
      <4>1. alerts[id] = 0
        BY <3>2 DEF UntoldYet
      <4> QED BY <3>1, <4>1, VisitsFiniteNext
    <3>3. CASE id \notin registrations
      <4>1. at'[k] # id
        BY <1>4, <3>3, BoundAssumption DEF Id, BoundAssumption
      <4>2. Cardinality(Visits(id)') = Cardinality(Visits(id))
        BY <1>1, <1>4, <2>2, <4>1, NoNewVisit
      <4> QED BY <3>1, <4>2 DEF AlertsDue
    <3> QED BY <3>2, <3>3
  <2> QED BY <2>1, <2>2
<1> QED BY <1>9, <1>10, <1>11, <1>12, <1>13

LEMMA NextInv == IInv /\ [Next]_vars => IInv'
<1> SUFFICES ASSUME IInv, [Next]_vars PROVE IInv'
  OBVIOUS
<1>1. CASE \E c \in Channel : Register(c)
  BY <1>1, RegisterInv
<1>2. CASE \/ \E c \in Channel : Spend(c)
           \/ \E id \in Id : PassTime(id)
           \/ Start \/ Stop
  BY <1>2, ClockInv
<1>3. CASE \E k \in Poll : Check(k)
  BY <1>3, CheckInv
<1>4. CASE \E k \in Poll : OutspendFails(k)
  BY <1>4, OutspendFailsInv
<1>5. CASE \E k \in Poll : Outspend(k)
  BY <1>5, OutspendInv
<1>6. CASE \E k \in Poll : Broadcast(k)
  BY <1>6, BroadcastInv
<1>7. CASE \E k \in Poll : Alert(k)
  BY <1>7, AlertInv
<1>8. CASE UNCHANGED vars
  BY <1>8 DEF vars, IInv, TypeOK, TakenLate, Unborn, UntoldYet, AlertsDue, Visits
<1> QED BY <1>1, <1>2, <1>3, <1>4, <1>5, <1>6, <1>7, <1>8 DEF Next

LEMMA Invariance == Spec => []IInv
  BY InitInv, NextInv, PTL DEF Spec

-----------------------------------------------------------------------------
(* Theorems.                                                               *)

\* Every variable keeps its type; the Map never holds more than
\* maxRegistrations.
THEOREM TypeCorrect == Spec => []TypeOK
<1>1. IInv => TypeOK
  BY DEF IInv
<1> QED BY <1>1, Invariance, PTL

\* However many checks overlap, a breach is told at most once by each that
\* overlaps: the first to tell it takes the registration away.
THEOREM ToldNoMoreThanChecks == Spec => []ToldOncePerCheck
<1>1. IInv => ToldOncePerCheck
  <2> SUFFICES ASSUME IInv, NEW id \in Id PROVE alerts[id] <= Cardinality(Poll)
    BY DEF ToldOncePerCheck
  <2>1. alerts[id] \in Nat /\ alerts[id] + Cardinality(Visits(id)) <= Cardinality(Poll)
    BY PollFinite DEF IInv, AlertsDue, TypeOK
  <2> QED BY <2>1, VisitsFinite, PollFinite
<1> QED BY <1>1, Invariance, PTL

\* A registration leaves the Map only told or expired, whatever requests fail.
THEOREM RegistrationsKept == Spec => KeptUntilTold
<1> DEFINE Kept == \A id \in registrations \ registrations' : alerts'[id] > 0 \/ id \in late
<1>1. ASSUME IInv, [Next]_vars PROVE [Kept]_vars
  <2>1. ASSUME NEW k \in Poll, NEW from, NEW kept \in SUBSET registrations,
               NEW old \in SUBSET late, Proceed(k, from, kept, old)
        PROVE  kept \ registrations' \subseteq late
    <3>1. old \in SUBSET Id
      BY <1>1 DEF IInv, TypeOK
    <3> QED BY <1>1, <2>1, <3>1, ProceedStep DEF IInv
  <2>2. \A k \in Poll : expired[k] \in SUBSET late
    BY <1>1 DEF IInv, TakenLate
  <2>3. CASE \E c \in Channel : Register(c)
    BY <2>3 DEF Register
  <2>4. CASE \/ \E c \in Channel : Spend(c)
             \/ \E id \in Id : PassTime(id)
             \/ Start \/ Stop
             \/ \E k \in Poll : Broadcast(k)
    BY <2>4 DEF Spend, PassTime, Start, Stop, Broadcast
  <2>5. CASE \E k \in Poll : Check(k)
    BY <2>1, <2>5 DEF Check
  <2>6. CASE \E k \in Poll : OutspendFails(k)
    BY <2>1, <2>2, <2>6 DEF OutspendFails
  <2>7. CASE \E k \in Poll : Outspend(k)
    BY <2>1, <2>2, <2>7 DEF Outspend
  <2>8. CASE \E k \in Poll : Alert(k)
    <3> PICK k \in Poll : Alert(k)
      BY <2>8
    <3>1. (registrations \ {at[k]}) \ registrations' \subseteq late
      BY <2>1, <2>2 DEF Alert
    <3>2. alerts'[at[k]] > 0
      BY <1>1, PollFinite DEF Alert, Told, IInv, TypeOK
    <3> QED BY <3>1, <3>2
  <2>9. CASE UNCHANGED vars
    BY <2>9
  <2> QED BY <1>1, <2>3, <2>4, <2>5, <2>6, <2>7, <2>8, <2>9 DEF Next
<1> QED BY <1>1, Invariance, PTL DEF Spec, KeptUntilTold
=============================================================================
