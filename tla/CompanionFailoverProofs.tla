----------------------- MODULE CompanionFailoverProofs -----------------------
(***************************************************************************)
(* Proofs about the failover policy in its closed loop: a round keeps to   *)
(* the order of preference, and the link is sticky.                        *)
(*                                                                         *)
(* The inductive invariant says what the policy knows of the stored set,   *)
(* and that every candidate tried in a round was marked as attempted and   *)
(* is preferred to all that are left.                                      *)
(***************************************************************************)
EXTENDS CompanionFailover, FailoverPolicyProofs

Kept ==
  /\ stored \in StoredSets /\ WellFormed(stored) /\ Distinct(stored.list)
  /\ stored.generation <= MaxGeneration
  /\ failover \in Failovers /\ failover.since = 0
  /\ age \in 0..OfflineWindow
  /\ tried \in Seq(Profile)

Known ==
  /\ failover.initialized =>
       failover.generation = stored.generation /\ failover.active = ActiveId(stored)
  /\ ~failover.initialized =>
       failover.target = NoProfile /\ link = "down" /\ ~failover.round

(* The entry a candidate was taken from, and that it came before the rest. *)
WasBest(f, p) ==
  \E i \in DOMAIN stored.list :
    /\ stored.list[i].id = p /\ i \in f.attempted /\ p # f.active
    /\ \A j \in Unattempted(f, Snapshot(stored)) : Preferred(stored.list, i, j)

InOrder ==
  \A k, l \in DOMAIN tried : \A i, j \in DOMAIN stored.list :
    (k < l /\ stored.list[i].id = tried[k] /\ stored.list[j].id = tried[l])
      => i # j /\ Preferred(stored.list, i, j)

Round ==
  /\ failover.round => failover.offline
  /\ ~failover.round => tried = << >>
  /\ \A k \in DOMAIN tried : WasBest(failover, tried[k])
  /\ InOrder

FailoverInv == Kept /\ Known /\ Round

LEMMA InitFailover == Init => FailoverInv
<1> SUFFICES ASSUME Init PROVE FailoverInv
  OBVIOUS
<1> USE DEF Init
<1>1. /\ stored \in StoredSets /\ WellFormed(stored) /\ Distinct(stored.list)
      /\ stored.generation = 0
  BY DEF EmptySet, StoredSets, WellFormed, Distinct
<1>2. /\ failover \in Failovers /\ failover.since = 0 /\ failover.initialized = FALSE
      /\ failover.target = NoProfile /\ failover.round = FALSE
  BY DEF NewFailover, Failovers, ProfileOrNone
<1>3. age \in 0..OfflineWindow /\ tried \in Seq(Profile) /\ stored.generation <= MaxGeneration
  BY <1>1, WindowAssumption, FailoverAssumption
<1>4. DOMAIN tried = {}
  OBVIOUS
<1> QED
  BY <1>1, <1>2, <1>3, <1>4 DEF FailoverInv, Kept, Known, Round, InOrder
-----------------------------------------------------------------------------
(* The policy's state as Deliver hands it over: time runs from the stamp.  *)
Handed == [failover EXCEPT !.since = 0]

LEMMA HandedFacts ==
  ASSUME failover \in Failovers
  PROVE  /\ Handed \in Failovers /\ Handed.since = 0
         /\ Handed.initialized = failover.initialized /\ Handed.offline = failover.offline
         /\ Handed.round = failover.round /\ Handed.attempted = failover.attempted
         /\ Handed.generation = failover.generation
         /\ Handed.active = failover.active /\ Handed.target = failover.target
BY DEF Handed, Failovers

(* What Deliver leaves, whatever the policy answered. *)
LEMMA DeliverFacts ==
  ASSUME NEW set, NEW event, NEW linkAfter, Deliver(set, event, linkAfter),
         age \in 0..OfflineWindow,
         NEW r, r = Advance(Handed, Snapshot(set), age, event), r.failover \in Failovers
  PROVE  /\ failover' \in Failovers /\ failover'.since = 0
         /\ failover'.initialized = r.failover.initialized
         /\ failover'.offline = r.failover.offline
         /\ failover'.round = r.failover.round /\ failover'.attempted = r.failover.attempted
         /\ failover'.generation = r.failover.generation
         /\ failover'.active = r.failover.active /\ failover'.target = r.failover.target
         /\ age' \in 0..OfflineWindow
         /\ tried' = IF ~r.failover.round THEN << >>
                     ELSE IF r.connect # NoProfile THEN Append(tried, r.connect) ELSE tried
<1>1. /\ failover' = [r.failover EXCEPT !.since = 0]
      /\ age' = 0 \/ age' = age
      /\ tried' = IF ~r.failover.round THEN << >>
                  ELSE IF r.connect # NoProfile THEN Append(tried, r.connect) ELSE tried
  BY DEF Deliver, Handed
<1>2. /\ failover' \in Failovers /\ failover'.since = 0
      /\ failover'.initialized = r.failover.initialized
      /\ failover'.offline = r.failover.offline
      /\ failover'.round = r.failover.round /\ failover'.attempted = r.failover.attempted
      /\ failover'.generation = r.failover.generation
      /\ failover'.active = r.failover.active /\ failover'.target = r.failover.target
  BY <1>1 DEF Failovers
<1>3. age' \in 0..OfflineWindow
  BY <1>1, WindowAssumption
<1> QED
  BY <1>1, <1>2, <1>3

(* A committed edit is a new generation to the policy, also when the       *)
(* counter wraps, so that the round is over.                               *)
LEMMA WrapMoves ==
  ASSUME Kept, NEW set, EditOf(stored, set)
  PROVE  /\ Wrapped(set) \in StoredSets /\ WellFormed(Wrapped(set))
         /\ Distinct(Wrapped(set).list)
         /\ Wrapped(set).generation <= MaxGeneration
         /\ Wrapped(set).generation # stored.generation
<1>1. /\ set \in StoredSets /\ WellFormed(set) /\ Distinct(set.list)
      /\ set.generation = stored.generation + 1 /\ stored.generation \in Nat
      /\ stored.generation <= MaxGeneration
  BY DEF EditOf, Kept, StoredSets
<1> DEFINE g == IF set.generation > MaxGeneration THEN 1 ELSE set.generation
<1>2. g \in Nat /\ g <= MaxGeneration /\ g # stored.generation
  BY <1>1, FailoverAssumption
<1>3. Wrapped(set) = [set EXCEPT !.generation = g]
  BY DEF Wrapped
<1> HIDE DEF g
<1>4. /\ Wrapped(set) \in StoredSets /\ Wrapped(set).generation = g
      /\ Wrapped(set).list = set.list /\ Wrapped(set).active = set.active
  BY <1>1, <1>2, <1>3 DEF StoredSets
<1> QED
  BY <1>1, <1>2, <1>4 DEF WellFormed

LEMMA ChangeKeeps ==
  ASSUME FailoverInv, NEW set, EditOf(stored, set), stored' = Wrapped(set),
         NEW event, NEW linkAfter, Deliver(stored', event, linkAfter)
  PROVE  FailoverInv' /\ stored'.generation # stored.generation
<1> USE DEF FailoverInv
<1>1. /\ stored' \in StoredSets /\ WellFormed(stored') /\ Distinct(stored'.list)
      /\ stored'.generation <= MaxGeneration /\ stored'.generation # stored.generation
  BY WrapMoves
<1>2. /\ Snapshot(stored') \in Snapshots /\ WellSeen(Snapshot(stored'))
      /\ Snapshot(stored').generation = stored'.generation
      /\ Snapshot(stored').active = ActiveId(stored')
  BY <1>1, SnapshotIsSeen DEF Snapshot
<1>3. /\ Handed \in Failovers /\ Handed.initialized = failover.initialized
      /\ Handed.generation = failover.generation
  BY HandedFacts DEF Kept
<1>4. age \in Nat /\ age \in 0..OfflineWindow
  BY WindowAssumption DEF Kept
<1> DEFINE r == Advance(Handed, Snapshot(stored'), age, event)
<1>5. r = ProfilesChanged(Handed, Snapshot(stored'), age, event)
  BY <1>1, <1>2, <1>3 DEF Advance, Known
<1> HIDE DEF r
<1>6. Answers(Handed, Snapshot(stored'), r) /\ r.failover.round = FALSE
  BY <1>2, <1>3, <1>4, <1>5, ChangedAnswers
<1>7. /\ failover' \in Failovers /\ failover'.since = 0 /\ failover'.initialized
      /\ failover'.round = FALSE /\ failover'.generation = stored'.generation
      /\ failover'.active = ActiveId(stored')
      /\ age' \in 0..OfflineWindow /\ tried' = << >>
  BY <1>2, <1>4, <1>6, DeliverFacts DEF Answers, r
<1>8. DOMAIN tried' = {} /\ tried' \in Seq(Profile)
  BY <1>7
<1> QED
  BY <1>1, <1>7, <1>8 DEF Kept, Known, Round, InOrder

-----------------------------------------------------------------------------
(* A candidate that is appended to the ones tried before it is the best of *)
(* those that were left, so that the order extends to it.                  *)
LEMMA AppendKeepsOrder ==
  ASSUME Kept, Round, UNCHANGED stored, NEW g, g \in Failovers, g.active = failover.active,
         \/ g.attempted = failover.attempted
         \/ tried = << >>,
         NEW i \in Unattempted(g, Snapshot(stored)),
         Best(stored.list, Unattempted(g, Snapshot(stored)), i),
         tried' = Append(tried, stored.list[i].id),
         failover' \in Failovers, failover'.active = failover.active,
         failover'.attempted = g.attempted \cup {i}
  PROVE  /\ tried' \in Seq(Profile)
         /\ \A k \in DOMAIN tried' : WasBest(failover', tried'[k])
         /\ InOrder'
<1> DEFINE left == Unattempted(g, Snapshot(stored))
           rest == Unattempted(failover', Snapshot(stored))
           p    == stored.list[i].id
           n    == Len(tried)
<1>1. stored.list \in Seq(StoredProfile) /\ Distinct(stored.list) /\ tried \in Seq(Profile)
  BY DEF Kept, StoredSets
<1>2. /\ i \in DOMAIN stored.list /\ i \notin g.attempted /\ p # failover.active
  BY DEF Unattempted, Snapshot
<1>3. stored.list[i] \in StoredProfile
  BY <1>1, <1>2
<1>4. p \in Profile
  BY <1>3 DEF StoredProfile
<1>5. rest \subseteq left /\ \A j \in left : Preferred(stored.list, i, j)
  BY DEF Unattempted, Best
<1> HIDE DEF left, p
<1>6. /\ tried' \in Seq(Profile) /\ n \in Nat /\ DOMAIN tried' = 1..(n + 1) /\ DOMAIN tried = 1..n
      /\ tried'[n + 1] = p /\ \A k \in 1..n : tried'[k] = tried[k]
  <2>1. tried' = Append(tried, p)
    BY DEF p
  <2> QED
    BY <1>1, <1>4, <2>1
<1> HIDE DEF n
<1>7. ASSUME NEW k \in 1..n
      PROVE  \E h \in DOMAIN stored.list :
               /\ stored.list[h].id = tried[k] /\ h \in g.attempted /\ tried[k] # failover.active
               /\ \A j \in left : Preferred(stored.list, h, j)
  <2>1. g.attempted = failover.attempted
    <3>1. tried # << >>
      BY <1>1, <1>6, <1>7
    <3> QED
      BY <3>1
  <2>2. WasBest(failover, tried[k])
    BY <1>6, <1>7 DEF Round
  <2>3. left = Unattempted(failover, Snapshot(stored))
    BY <2>1 DEF left, Unattempted
  <2> QED
    BY <2>1, <2>2, <2>3 DEF WasBest
<1>8. WasBest(failover', p)
  <2>1. i \in failover'.attempted
    OBVIOUS
  <2>2. \A j \in rest : Preferred(stored.list, i, j)
    BY <1>5
  <2> QED
    BY <1>2, <2>1, <2>2 DEF WasBest, p
<1>9. ASSUME NEW k \in DOMAIN tried'
      PROVE  WasBest(failover', tried'[k])
  <2>1. CASE k = n + 1
    BY <1>6, <1>8, <2>1
  <2>2. CASE k \in 1..n
    <3>1. PICK h \in DOMAIN stored.list :
               /\ stored.list[h].id = tried[k] /\ h \in g.attempted /\ tried[k] # failover.active
               /\ \A j \in left : Preferred(stored.list, h, j)
      BY <1>7, <2>2
    <3>2. h \in failover'.attempted /\ \A j \in rest : Preferred(stored.list, h, j)
      BY <1>5, <3>1
    <3>3. tried'[k] = tried[k]
      BY <1>6, <2>2
    <3> QED
      BY <3>1, <3>2, <3>3 DEF WasBest
  <2> QED
    BY <1>6, <2>1, <2>2
<1>10. InOrder'
  <2> SUFFICES ASSUME NEW k \in DOMAIN tried', NEW l \in DOMAIN tried',
                      NEW h \in DOMAIN stored.list, NEW j \in DOMAIN stored.list,
                      k < l, stored.list[h].id = tried'[k], stored.list[j].id = tried'[l]
               PROVE  h # j /\ Preferred(stored.list, h, j)
    BY DEF InOrder
  <2>1. k \in 1..n /\ tried'[k] = tried[k]
    BY <1>6
  <2>2. CASE l \in 1..n
    BY <1>6, <2>1, <2>2 DEF Round, InOrder
  <2>3. CASE l = n + 1
    <3>1. j = i
      BY <1>1, <1>2, <1>6, <2>3 DEF Distinct, p
    <3>2. PICK m \in DOMAIN stored.list :
               /\ stored.list[m].id = tried[k] /\ m \in g.attempted
               /\ \A q \in left : Preferred(stored.list, m, q)
      BY <1>7, <2>1
    <3>3. m = h
      BY <1>1, <2>1, <3>2 DEF Distinct
    <3>4. h # i /\ Preferred(stored.list, h, i)
      BY <1>2, <3>2, <3>3 DEF left
    <3> QED
      BY <3>1, <3>4
  <2> QED
    BY <1>6, <2>2, <2>3
<1> QED
  BY <1>6, <1>9, <1>10

(* An event about profiles the policy knows: the round goes on in order,   *)
(* and the target changes only when the link was offline long enough.      *)
LEMMA KnownKeeps ==
  ASSUME FailoverInv, failover.initialized, UNCHANGED stored,
         NEW event \in {"TRANSPORT_FAILED", "TICK"}, NEW linkAfter,
         Deliver(stored, event, linkAfter)
  PROVE  /\ FailoverInv'
         /\ failover'.target # failover.target =>
              failover.offline /\ (failover.round \/ age = OfflineWindow)
<1> USE DEF FailoverInv
<1>1. /\ Snapshot(stored) \in Snapshots /\ WellSeen(Snapshot(stored))
      /\ Snapshot(stored).generation = stored.generation
      /\ Snapshot(stored).list = stored.list
      /\ Snapshot(stored).active = ActiveId(stored)
  BY SnapshotIsSeen DEF Kept, Snapshot
<1>2. failover \in Failovers /\ age \in Nat /\ age \in 0..OfflineWindow
  BY WindowAssumption DEF Kept
<1>3. /\ Handed \in Failovers /\ Handed.since = 0
      /\ Handed.initialized = failover.initialized /\ Handed.offline = failover.offline
      /\ Handed.round = failover.round /\ Handed.attempted = failover.attempted
      /\ Handed.generation = failover.generation
      /\ Handed.active = failover.active /\ Handed.target = failover.target
  BY <1>2, HandedFacts
<1>4. /\ Handed.initialized /\ Handed.generation = Snapshot(stored).generation
      /\ Handed.active = Snapshot(stored).active
  BY <1>1, <1>3 DEF Known
<1> DEFINE r == Advance(Handed, Snapshot(stored), age, event)
<1>5. /\ Answers(Handed, Snapshot(stored), r)
      /\ event = "TRANSPORT_FAILED" => r.failover.offline
      /\ event = "TICK" => r.failover.offline = Handed.offline
      /\ r.failover.target # Handed.target =>
           \/ event = "TRANSPORT_FAILED" /\ Handed.round
           \/ event = "TICK" /\ Handed.offline /\ ~Handed.round /\ WindowElapsed(Handed, age)
      /\ \/ r.failover.round = FALSE
         \/ Waits(Handed, r)
         \/ Continues(Handed, Snapshot(stored), r) /\ Handed.round
         \/ /\ ~Handed.round /\ Handed.offline /\ event = "TICK"
            /\ \E g \in Failovers : /\ g.active = Handed.active /\ g.round
                                    /\ Continues(g, Snapshot(stored), r)
  BY <1>1, <1>2, <1>3, <1>4, KnownAnswers
<1>6. /\ failover' \in Failovers /\ failover'.since = 0
      /\ failover'.initialized = r.failover.initialized
      /\ failover'.offline = r.failover.offline
      /\ failover'.round = r.failover.round /\ failover'.attempted = r.failover.attempted
      /\ failover'.generation = r.failover.generation
      /\ failover'.active = r.failover.active /\ failover'.target = r.failover.target
      /\ age' \in 0..OfflineWindow
      /\ tried' = IF ~r.failover.round THEN << >>
                  ELSE IF r.connect # NoProfile THEN Append(tried, r.connect) ELSE tried
  <2>1. r.failover \in Failovers
    BY <1>5 DEF Answers
  <2> QED
    BY <1>2, <2>1, DeliverFacts
<1> HIDE DEF r
<1>7. /\ failover'.initialized /\ failover'.generation = stored.generation
      /\ failover'.active = ActiveId(stored) /\ failover'.active = failover.active
  BY <1>1, <1>3, <1>4, <1>5, <1>6 DEF Answers
<1>8. failover'.target # failover.target =>
        failover.offline /\ (failover.round \/ age = OfflineWindow)
  <2> SUFFICES ASSUME failover'.target # failover.target
               PROVE  failover.offline /\ (failover.round \/ age = OfflineWindow)
    OBVIOUS
  <2>1. CASE event = "TRANSPORT_FAILED" /\ Handed.round
    BY <1>3, <2>1 DEF Round
  <2>2. CASE Handed.offline /\ WindowElapsed(Handed, age)
    <3>1. age >= OfflineWindow
      BY <1>2, <1>3, <2>2, WindowAssumption DEF WindowElapsed
    <3> QED
      BY <1>2, <1>3, <2>2, <3>1, WindowAssumption
  <2> QED
    BY <1>3, <1>5, <1>6, <2>1, <2>2
<1>9. Known' /\ (failover'.round => failover'.offline)
  <2>1. failover'.round => failover'.offline
    <3>1. CASE event = "TRANSPORT_FAILED"
      BY <1>5, <1>6, <3>1
    <3>2. CASE event = "TICK"
      <4>1. failover'.offline = failover.offline
        BY <1>3, <1>5, <1>6, <3>2
      <4>2. failover'.round => (failover.round \/ failover.offline)
        BY <1>3, <1>5, <1>6 DEF Waits
      <4> QED
        BY <4>1, <4>2 DEF Round
    <3> QED
      BY <3>1, <3>2
  <2> QED
    BY <1>7, <2>1 DEF Known
<1>10. /\ tried' \in Seq(Profile)
       /\ ~failover'.round => tried' = << >>
       /\ \A k \in DOMAIN tried' : WasBest(failover', tried'[k])
       /\ InOrder'
  <2>1. CASE r.failover.round = FALSE
    <3>1. tried' = << >> /\ DOMAIN tried' = {} /\ tried' \in Seq(Profile)
      BY <1>6, <2>1
    <3> QED
      BY <3>1 DEF InOrder
  <2>2. CASE r.failover.round # FALSE /\ Waits(Handed, r)
    <3>1. failover'.attempted = failover.attempted /\ failover'.round = failover.round
      BY <1>3, <1>6, <2>2 DEF Waits
    <3>2. tried' = tried
      <4>1. r.failover.round = TRUE
        BY <1>5, <2>2 DEF Answers, Failovers
      <4> QED
        BY <1>6, <2>2, <4>1 DEF Waits
    <3>3. Unattempted(failover', Snapshot(stored)) = Unattempted(failover, Snapshot(stored))
      BY <1>7, <3>1 DEF Unattempted
    <3>4. ASSUME NEW k \in DOMAIN tried PROVE WasBest(failover', tried[k])
      <4>1. WasBest(failover, tried[k])
        BY DEF Round
      <4> QED
        BY <1>7, <3>1, <3>3, <4>1 DEF WasBest
    <3>5. InOrder'
      BY <3>2 DEF Round, InOrder
    <3> QED
      BY <1>6, <3>1, <3>2, <3>4, <3>5 DEF Round, Kept
  <2>3. ASSUME r.failover.round # FALSE,
               NEW g \in Failovers, g.active = failover.active,
               g.attempted = failover.attempted \/ tried = << >>,
               Continues(g, Snapshot(stored), r)
        PROVE  /\ tried' \in Seq(Profile)
               /\ ~failover'.round => tried' = << >>
               /\ \A k \in DOMAIN tried' : WasBest(failover', tried'[k])
               /\ InOrder'
    <3>1. PICK i \in Unattempted(g, Snapshot(stored)) :
            /\ Best(stored.list, Unattempted(g, Snapshot(stored)), i)
            /\ r.connect = stored.list[i].id
            /\ r.failover.attempted = g.attempted \cup {i}
      BY <1>1, <2>3 DEF Continues
    <3>2. r.failover.round = TRUE
      BY <1>5, <2>3 DEF Answers, Failovers
    <3>3. r.connect # NoProfile
      <4>1. i \in DOMAIN stored.list /\ stored.list \in Seq(StoredProfile)
        BY <1>1 DEF Unattempted, Kept, StoredSets
      <4>2. stored.list[i] \in StoredProfile
        BY <4>1
      <4> QED
        BY <3>1, <4>2, ProfilesAssumption DEF StoredProfile
    <3>4. tried' = Append(tried, stored.list[i].id)
      BY <1>6, <3>1, <3>2, <3>3
    <3>5. failover'.attempted = g.attempted \cup {i}
      BY <1>6, <3>1
    <3> QED
      BY <1>6, <1>7, <2>3, <3>1, <3>2, <3>4, <3>5, AppendKeepsOrder
  <2>4. CASE r.failover.round # FALSE /\ Continues(Handed, Snapshot(stored), r)
    BY <1>3, <2>3, <2>4
  <2>5. CASE /\ r.failover.round # FALSE /\ ~Handed.round
             /\ \E g \in Failovers : g.active = Handed.active /\ Continues(g, Snapshot(stored), r)
    <3>1. tried = << >>
      BY <1>3, <2>5 DEF Round
    <3> QED
      BY <1>3, <2>3, <2>5, <3>1
  <2> QED
    BY <1>5, <2>1, <2>2, <2>4, <2>5
<1>11. Kept'
  BY <1>6, <1>10 DEF Kept
<1>12. (\A k \in DOMAIN tried : WasBest(failover, tried[k]))'
  BY <1>10 DEF WasBest
<1> QED
  BY <1>8, <1>9, <1>10, <1>11, <1>12 DEF Round

-----------------------------------------------------------------------------
(* The steps that change neither the profiles nor the policy. *)
LEMMA QuietKeeps ==
  ASSUME FailoverInv, UNCHANGED <<stored, failover, tried>>,
         age' \in 0..OfflineWindow, link' = link \/ failover.target # NoProfile
  PROVE  FailoverInv'
<1>1. Kept' /\ Known'
  BY DEF FailoverInv, Kept, Known
<1>2. Round'
  BY DEF FailoverInv, Round, WasBest, InOrder
<1> QED
  BY <1>1, <1>2 DEF FailoverInv

(* Every step of the closed loop preserves the invariant and is sticky. *)
LEMMA StepKeeps ==
  ASSUME FailoverInv, [Next]_vars
  PROVE  /\ FailoverInv'
         /\ (stored'.generation = stored.generation /\ failover'.target # failover.target)
              => failover.offline /\ (failover.round \/ age = OfflineWindow)
<1> USE DEF FailoverInv
<1>1. CASE UserEdit
  <2>1. stored \in StoredSets /\ WellFormed(stored) /\ 0 \in Nat
    BY DEF Kept
  <2>2. PICK set : EditOf(stored, set) /\ Edit(set)
    <3>1. CASE EditPair
      BY <2>1, <3>1, PairEdits DEF EditPair
    <3>2. CASE EditSelect
      BY <2>1, <3>2, SelectEdits DEF EditSelect
    <3>3. CASE EditRevoke
      BY <2>1, <3>3, RevokeEdits DEF EditRevoke
    <3>4. CASE EditPriority
      BY <2>1, <3>4, PriorityEdits, FailoverAssumption DEF EditPriority
    <3> QED
      BY <1>1, <3>1, <3>2, <3>3, <3>4 DEF UserEdit
  <2>3. FailoverInv' /\ stored'.generation # stored.generation
    BY <2>2, ChangeKeeps DEF Edit
  <2> QED
    BY <2>3
<1>2. CASE FirstHeartbeat
  <2>1. PICK i \in FindProfile(stored, failover.target), utc \in Utc :
          stored' = Wrapped(ActivateOnSuccess(stored, i, utc))
    BY <1>2 DEF FirstHeartbeat
  <2>2. EditOf(stored, ActivateOnSuccess(stored, i, utc))
    <3>1. stored \in StoredSets /\ i \in DOMAIN stored.list /\ utc \in Nat
      BY FailoverAssumption DEF Kept, FindProfile
    <3> QED
      BY <3>1, ActivateEdits
  <2>3. Deliver(stored', "ONLINE", "up")
    BY <1>2 DEF FirstHeartbeat
  <2>4. FailoverInv' /\ stored'.generation # stored.generation
    BY <2>1, <2>2, <2>3, ChangeKeeps
  <2> QED
    BY <2>4
<1>3. CASE TransportFailed
  <2>1. failover.initialized /\ UNCHANGED stored /\ Deliver(stored, "TRANSPORT_FAILED", "down")
    BY <1>3 DEF TransportFailed, Known
  <2> QED
    BY <2>1, KnownKeeps
<1>4. CASE Tick
  <2>1. failover.initialized /\ UNCHANGED stored /\ Deliver(stored, "TICK", link)
    BY <1>4 DEF Tick
  <2> QED
    BY <2>1, KnownKeeps
<1>5. CASE Retry
  <2>1. /\ UNCHANGED <<stored, failover, tried, age>> /\ failover.target # NoProfile
    BY <1>5 DEF Retry
  <2> QED
    BY <2>1, QuietKeeps DEF Kept
<1>6. CASE Elapse \/ Reach \/ UNCHANGED vars
  <2>1. UNCHANGED <<stored, failover, tried, link>>
    BY <1>6 DEF Elapse, Reach, vars
  <2>2. age' \in 0..OfflineWindow
    BY <1>6, WindowAssumption DEF Elapse, Reach, vars, Kept
  <2> QED
    BY <2>1, <2>2, QuietKeeps
<1> QED
  BY <1>1, <1>2, <1>3, <1>4, <1>5, <1>6 DEF Next

LEMMA FailoverInvariant == Spec => []FailoverInv
<1>1. FailoverInv /\ [Next]_vars => FailoverInv'
  BY StepKeeps
<1> QED
  BY <1>1, InitFailover, PTL DEF Spec
-----------------------------------------------------------------------------
(* However many profiles there are, with whatever priorities and last      *)
(* successes, a round connects to none of them twice, never to the active  *)
(* one, and goes from the preferred to the less preferred                  *)
(* (best_unattempted, attempted_mask).                                     *)
THEOREM RoundsKeepTheOrder == Spec => []RoundInOrder
<1>1. FailoverInv => RoundInOrder
  <2> SUFFICES ASSUME FailoverInv PROVE RoundInOrder
    OBVIOUS
  <2> DEFINE index(p) == CHOOSE i \in FindProfile(stored, p) : TRUE
  <2>1. ASSUME NEW k \in DOMAIN tried
        PROVE  /\ index(tried[k]) \in DOMAIN stored.list
               /\ stored.list[index(tried[k])].id = tried[k]
               /\ tried[k] # failover.active
    <3>1. WasBest(failover, tried[k])
      BY DEF FailoverInv, Round
    <3>2. FindProfile(stored, tried[k]) # {} /\ tried[k] # failover.active
      BY <3>1 DEF WasBest, FindProfile
    <3>3. index(tried[k]) \in FindProfile(stored, tried[k])
      BY <3>2
    <3> QED
      BY <3>2, <3>3 DEF FindProfile
  <2> HIDE DEF index
  <2>2. ASSUME NEW k \in DOMAIN tried, NEW l \in DOMAIN tried, k < l
        PROVE  tried[k] # tried[l] /\ Preferred(stored.list, index(tried[k]), index(tried[l]))
    <3>1. index(tried[k]) # index(tried[l])
      BY <2>1, <2>2 DEF FailoverInv, Round, InOrder
    <3>2. Preferred(stored.list, index(tried[k]), index(tried[l]))
      BY <2>1, <2>2 DEF FailoverInv, Round, InOrder
    <3> QED
      BY <3>1, <3>2
  <2> QED
    BY <2>1, <2>2 DEF RoundInOrder, index
<1> QED
  BY <1>1, FailoverInvariant, PTL

(* The link leaves its target on its own only when it has been offline for *)
(* the whole window or a round is under way (the TICK and TRANSPORT_FAILED *)
(* branches of deck_companion_failover_advance).                           *)
THEOREM LinkIsSticky == Spec => Sticky
<1>1. FailoverInv /\ [Next]_vars =>
        [/\ stored'.generation = stored.generation
         /\ failover'.target # failover.target
         => failover.offline /\ (failover.round \/ age = OfflineWindow)]_vars
  BY StepKeeps
<1> QED
  BY <1>1, FailoverInvariant, PTL DEF Spec, Sticky
=============================================================================
