------------------------- MODULE CompanionLinkProofs -------------------------
(***************************************************************************)
(* Proofs about the Companion link: who holds the authority, what a        *)
(* heartbeat may commit and when the UI may call a document fresh.         *)
(*                                                                         *)
(* The inductive invariant has two halves.  Wire ties the transport in     *)
(* place to its client, its credential and the events queued for it.       *)
(* Policy orders the three views of the profiles: the target's generation  *)
(* is at most the observed one, which is at most the stored one, and equal *)
(* generations mean equal contents.                                        *)
(***************************************************************************)
EXTENDS CompanionLink, FailoverPolicyProofs

Secrets  == [id : Profile, token : Nat]
Connects == [id : ProfileOrNone, generation : Nat]
Clients  == [generation : Nat, peer : Profile, phase : {"opening", "open", "closed"}]
Events   == [type : EventTypes, generation : Nat, peer : Profile]

Typed ==
  /\ stored \in StoredSets /\ WellFormed(stored)
  /\ observed \in Snapshots /\ WellSeen(observed)
  /\ failover \in Failovers
  /\ connect \in Connects
  /\ heartbeat \in BOOLEAN /\ retryOnFail \in BOOLEAN
  /\ secret \in Secrets \cup {NoSecret}
  /\ targetGen \in Nat /\ transport \in Nat /\ pairings \in Nat
  /\ authority \in [generation : Nat, active : BOOLEAN, current : BOOLEAN]
  /\ client \in Clients \cup {NoClient}
  /\ queue \in Seq(Events)

(* The client in place is that of the current transport generation and     *)
(* uses the credential in place.                                           *)
Attached ==
  client # NoClient =>
    /\ client.generation = transport /\ authority.generation = transport
    /\ secret # NoSecret /\ client.peer = secret.id

(* No event comes from a generation that has not begun, and one of the     *)
(* current generation comes from the client in place.                      *)
Queued ==
  \A i \in DOMAIN queue :
    /\ queue[i].generation <= transport
    /\ queue[i].generation = transport => client # NoClient /\ queue[i].peer = client.peer

Heard == (heartbeat \/ authority.active) => client # NoClient /\ heard = client.peer

Online == state = "ONLINE" => authority.active

Current == authority.current => authority.active /\ document = transport

Wire == Attached /\ Queued /\ Heard /\ Online /\ Current

Seen ==
  /\ observed.generation <= stored.generation
  /\ observed.generation = stored.generation => observed = Snapshot(stored)

Followed ==
  /\ failover.generation = observed.generation
  /\ failover.initialized => failover.active = observed.active
  /\ targetGen <= observed.generation

Asked ==
  connect # NoConnect =>
    /\ ~heartbeat
    /\ connect.id = failover.target /\ connect.id \in Ids(observed.list)
    /\ connect.generation = observed.generation

Committed ==
  heartbeat => /\ observed.generation < stored.generation
               /\ secret # NoSecret /\ secret.id = failover.target

(* The credential in use is the target's whenever a heartbeat could commit *)
(* it: its generation is the stored one and no newer decision is under way.*)
Chosen ==
  (/\ targetGen = stored.generation /\ targetGen # 0
   /\ secret # NoSecret /\ connect = NoConnect /\ ~heartbeat
   /\ observed.list # << >>)
  => secret.id = failover.target

Policy == Seen /\ Followed /\ Asked /\ Committed /\ Chosen

LinkInv == Typed /\ Wire /\ Policy
-----------------------------------------------------------------------------
LEMMA InitLink == LinkInit => LinkInv
<1> SUFFICES ASSUME LinkInit PROVE LinkInv
  OBVIOUS
<1> USE DEF LinkInit
<1>1. stored \in StoredSets /\ WellFormed(stored)
  BY DEF EmptySet, StoredSets, WellFormed
<1>2. observed \in Snapshots /\ WellSeen(observed) /\ observed = Snapshot(stored) /\ observed.generation = 0
  <2>1. observed = Snapshot(stored)
    BY DEF Nothing
  <2>2. stored.generation = 0
    BY DEF EmptySet
  <2> QED
    BY <1>1, <2>1, <2>2, SnapshotIsSeen
<1>3. /\ failover \in Failovers /\ failover.generation = 0 /\ failover.initialized = FALSE
  BY DEF NewFailover, Failovers, ProfileOrNone
<1>4. Typed
  <2>1. connect \in Connects
    BY DEF Connects, NoConnect, ProfileOrNone
  <2>2. authority \in [generation : Nat, active : BOOLEAN, current : BOOLEAN]
    BY DEF NoAuthority
  <2>3. queue \in Seq(Events)
    OBVIOUS
  <2> QED
    BY <1>1, <1>2, <1>3, <2>1, <2>2, <2>3 DEF Typed
<1>5. Wire
  BY DEF Wire, Attached, Queued, Heard, Online, Current, NoAuthority
<1>6. Policy
  <2>1. stored.generation = 0
    BY DEF EmptySet
  <2> QED
    BY <1>2, <1>3, <2>1 DEF Policy, Seen, Followed, Asked, Committed, Chosen
<1> QED
  BY <1>4, <1>5, <1>6 DEF LinkInv

-----------------------------------------------------------------------------
(* advance_failover: the policy's answer as the link records it.           *)
LEMMA AdvanceStep ==
  ASSUME NEW f \in Failovers, NEW profiles \in Snapshots, WellSeen(profiles), NEW event, NEW onFail,
         (f.initialized /\ f.generation = profiles.generation) => f.active = profiles.active,
         AdvanceFailover(f, profiles, event, onFail)
  PROVE  /\ failover' \in Failovers /\ connect' \in Connects /\ retryOnFail' = onFail
         /\ failover'.generation = profiles.generation /\ failover'.active = profiles.active
         /\ connect' # NoConnect =>
              /\ connect'.id = failover'.target /\ connect'.id \in Ids(profiles.list)
              /\ connect'.generation = profiles.generation
         /\ connect' = NoConnect =>
              failover'.target = f.target \/ profiles.active = NoProfile
         /\ ~f.initialized /\ event # "ONLINE" =>
              connect' # NoConnect \/ profiles.active = NoProfile
<1> DEFINE r == Advance(f, profiles, 0, event)
<1>1. Answers(f, profiles, r)
  BY AdvanceAnswers
<1>2. ASSUME ~f.initialized, event # "ONLINE"
      PROVE  r.connect = profiles.active
  <2>1. r = ProfilesChanged(f, profiles, 0, event)
    BY <1>2 DEF Advance
  <2> HIDE DEF r
  <2>2. \/ r.connect = profiles.active
        \/ AcceptedTarget(f, profiles, event) /\ r.connect = NoProfile
    BY <2>1, ChangedAnswers
  <2>3. ~AcceptedTarget(f, profiles, event)
    BY <1>2 DEF AcceptedTarget
  <2> QED
    BY <2>2, <2>3
<1>3. /\ failover' = r.failover
      /\ connect' = IF r.connect = NoProfile THEN NoConnect
                    ELSE [id |-> r.connect, generation |-> profiles.generation]
      /\ retryOnFail' = onFail
  BY DEF AdvanceFailover
<1> HIDE DEF r
<1>4. profiles.generation \in Nat
  BY DEF Snapshots
<1>5. CASE r.connect = NoProfile
  <2>1. connect' = NoConnect /\ NoConnect \in Connects
    BY <1>3, <1>5 DEF NoConnect, Connects, ProfileOrNone
  <2> QED
    BY <1>1, <1>2, <1>3, <1>5, <2>1 DEF Answers
<1>6. CASE r.connect # NoProfile
  <2>1. connect' = [id |-> r.connect, generation |-> profiles.generation]
    BY <1>3, <1>6
  <2>2. /\ connect' \in Connects /\ connect'.id = r.connect
        /\ connect'.generation = profiles.generation /\ connect' # NoConnect
    BY <1>1, <1>4, <1>6, <2>1 DEF Answers, Connects, NoConnect
  <2> QED
    BY <1>1, <1>2, <1>3, <1>6, <2>2 DEF Answers
<1> QED
  BY <1>5, <1>6

(* What is left of the queue after at most one event was taken. *)
Shrunk == queue' = queue \/ (queue # << >> /\ queue' = Tail(queue))

LEMMA ShrunkFacts ==
  ASSUME queue \in Seq(Events), Shrunk
  PROVE  /\ queue' \in Seq(Events)
         /\ \A i \in DOMAIN queue' : \E j \in DOMAIN queue : queue'[i] = queue[j]
<1>1. CASE queue' = queue
  BY <1>1
<1>2. CASE queue # << >> /\ queue' = Tail(queue)
  <2>1. queue' \in Seq(Events) /\ \A i \in DOMAIN queue' : i + 1 \in DOMAIN queue /\ queue'[i] = queue[i + 1]
    BY <1>2
  <2> QED
    BY <2>1
<1> QED
  BY <1>1, <1>2 DEF Shrunk

(* A transport that is given up leaves nothing that could pass for its     *)
(* successor's.                                                            *)
LEMMA DisconnectWire ==
  ASSUME Typed, Wire, NEW s, s # "ONLINE", Disconnect(s), Shrunk,
         ~heartbeat', UNCHANGED document
  PROVE  /\ Wire'
         /\ transport' \in Nat
         /\ authority' \in [generation : Nat, active : BOOLEAN, current : BOOLEAN]
         /\ client' \in Clients \cup {NoClient}
         /\ queue' \in Seq(Events)
<1>1. queue' \in Seq(Events) /\ \A i \in DOMAIN queue' : \E j \in DOMAIN queue : queue'[i] = queue[j]
  BY ShrunkFacts DEF Typed
<1>2. /\ client' = NoClient /\ transport' = transport + 1 /\ transport \in Nat
      /\ authority' = NoAuthority /\ state' # "ONLINE"
  BY DEF Disconnect, Typed
<1>3. authority'.active = FALSE /\ authority'.current = FALSE
  BY <1>2 DEF NoAuthority
<1>4. Queued'
  <2> SUFFICES ASSUME NEW i \in DOMAIN queue'
               PROVE  queue'[i].generation <= transport' /\ queue'[i].generation # transport'
    BY DEF Queued
  <2>1. PICK j \in DOMAIN queue : queue'[i] = queue[j]
    BY <1>1
  <2>2. queue[j] \in Events
    BY DEF Typed
  <2>3. queue[j].generation \in Nat /\ queue[j].generation <= transport
    BY <2>2 DEF Wire, Queued, Events
  <2> QED
    BY <1>2, <2>1, <2>3
<1>5. Attached' /\ Heard' /\ Online' /\ Current'
  BY <1>2, <1>3 DEF Attached, Heard, Online, Current
<1>6. authority' \in [generation : Nat, active : BOOLEAN, current : BOOLEAN]
  BY <1>2 DEF NoAuthority
<1> QED
  BY <1>1, <1>2, <1>4, <1>5, <1>6 DEF Wire

(* A step that leaves the transport and its credential alone. *)
LEMMA KeepWire ==
  ASSUME Typed, Wire, KeepTransport, Shrunk, heartbeat' => heartbeat, UNCHANGED <<secret, document>>
  PROVE  /\ Wire'
         /\ transport' \in Nat
         /\ authority' \in [generation : Nat, active : BOOLEAN, current : BOOLEAN]
         /\ client' \in Clients \cup {NoClient}
         /\ queue' \in Seq(Events)
<1>1. queue' \in Seq(Events) /\ \A i \in DOMAIN queue' : \E j \in DOMAIN queue : queue'[i] = queue[j]
  BY ShrunkFacts DEF Typed
<1>2. UNCHANGED <<client, transport, authority, state, heard>>
  BY DEF KeepTransport
<1>3. Queued'
  <2> SUFFICES ASSUME NEW i \in DOMAIN queue'
               PROVE  /\ queue'[i].generation <= transport
                      /\ queue'[i].generation = transport =>
                           client # NoClient /\ queue'[i].peer = client.peer
    BY <1>2 DEF Queued
  <2> QED
    BY <1>1 DEF Wire, Queued
<1>4. Attached' /\ Heard' /\ Online' /\ Current'
  BY <1>2 DEF Wire, Attached, Heard, Online, Current
<1> QED
  BY <1>1, <1>2, <1>3, <1>4 DEF Wire, Typed

(* schedule_retry preserves the invariant, on behalf of the transport, of  *)
(* a target that could not be used or of a commit that was not observed.   *)
LEMMA RetryKeeps ==
  ASSUME LinkInv, NEW f,
         \/ f = failover /\ connect = NoConnect
         \/ f = [failover EXCEPT !.initialized = FALSE],
         ScheduleRetry(f), Shrunk
  PROVE  LinkInv'
<1> USE DEF LinkInv
<1>1. /\ Disconnect("OFFLINE") /\ AdvanceFailover(f, observed, "TRANSPORT_FAILED", FALSE)
      /\ heartbeat' = FALSE
      /\ UNCHANGED <<stored, pairings, observed, secret, targetGen, document>>
  BY DEF ScheduleRetry, ui
<1>2. /\ f \in Failovers /\ f.generation = failover.generation /\ f.active = failover.active
      /\ f.target = failover.target /\ (f.initialized => failover.initialized)
      /\ (f = failover /\ connect = NoConnect) \/ ~f.initialized
  BY DEF Typed, Failovers
<1>3. observed \in Snapshots /\ WellSeen(observed)
  BY DEF Typed
<1>4. (f.initialized /\ f.generation = observed.generation) => f.active = observed.active
  BY <1>2 DEF Policy, Followed
<1>5. /\ failover' \in Failovers /\ connect' \in Connects /\ retryOnFail' = FALSE
      /\ failover'.generation = observed.generation /\ failover'.active = observed.active
      /\ connect' # NoConnect =>
           /\ connect'.id = failover'.target /\ connect'.id \in Ids(observed.list)
           /\ connect'.generation = observed.generation
      /\ connect' = NoConnect =>
           failover'.target = f.target \/ observed.active = NoProfile
      /\ ~f.initialized => connect' # NoConnect \/ observed.active = NoProfile
  BY <1>1, <1>2, <1>3, <1>4, AdvanceStep
<1>6. /\ Wire' /\ transport' \in Nat
      /\ authority' \in [generation : Nat, active : BOOLEAN, current : BOOLEAN]
      /\ client' \in Clients \cup {NoClient}
      /\ queue' \in Seq(Events)
  BY <1>1, DisconnectWire
<1>7. Typed'
  BY <1>1, <1>5, <1>6 DEF Typed
<1>8. Seen' /\ Followed' /\ Asked' /\ Committed'
  BY <1>1, <1>5 DEF Policy, Seen, Followed, Asked, Committed
<1>9. Chosen'
  <2> SUFFICES ASSUME targetGen = stored.generation, targetGen # 0, secret # NoSecret,
                      connect' = NoConnect, observed.list # << >>
               PROVE  secret.id = failover'.target
    BY <1>1 DEF Chosen
  <2>1. observed.active # NoProfile
    BY <1>3 DEF WellSeen
  <2>2. f.initialized /\ failover'.target = failover.target
    BY <1>2, <1>5, <2>1
  <2>3. f = failover /\ connect = NoConnect
    BY <1>2, <2>2
  <2>4. ~heartbeat
    BY DEF Policy, Followed, Committed, Typed, Snapshots, StoredSets
  <2> QED
    BY <2>2, <2>3, <2>4 DEF Policy, Chosen
<1> QED
  BY <1>6, <1>7, <1>8, <1>9 DEF Policy

(* refresh_profile preserves the invariant. *)
LEMMA RefreshKeeps ==
  ASSUME LinkInv, TaskFree, NEW onFail \in BOOLEAN, RefreshProfile(onFail), Shrunk
  PROVE  LinkInv'
<1> USE DEF LinkInv
<1>1. /\ observed' = Snapshot(stored)
      /\ AdvanceFailover(failover, Snapshot(stored), "PROFILES_OBSERVED", onFail)
      /\ UNCHANGED <<stored, pairings, heartbeat, document>>
  BY DEF RefreshProfile, ui
<1>2. connect = NoConnect /\ ~heartbeat
  BY DEF TaskFree
<1>3. /\ observed' \in Snapshots /\ WellSeen(observed')
      /\ observed'.generation = stored.generation /\ observed'.list = stored.list
  BY <1>1, SnapshotIsSeen DEF Typed
<1>4. /\ observed.generation \in Nat /\ stored.generation \in Nat /\ targetGen \in Nat
      /\ observed.generation <= stored.generation /\ targetGen <= observed.generation
  BY DEF Typed, Snapshots, StoredSets, Policy, Seen, Followed
<1>5. (failover.initialized /\ failover.generation = observed'.generation)
        => failover.active = observed'.active
  BY <1>1, <1>3 DEF Policy, Seen, Followed
<1>6. /\ failover' \in Failovers /\ connect' \in Connects /\ retryOnFail' = onFail
      /\ failover'.generation = observed'.generation /\ failover'.active = observed'.active
      /\ connect' # NoConnect =>
           /\ connect'.id = failover'.target /\ connect'.id \in Ids(observed'.list)
           /\ connect'.generation = observed'.generation
      /\ connect' = NoConnect =>
           failover'.target = failover.target \/ observed'.active = NoProfile
  <2>1. failover \in Failovers
    BY DEF Typed
  <2> QED
    BY <1>1, <1>3, <1>5, <2>1, AdvanceStep
<1>7. Seen' /\ Asked' /\ Committed'
  BY <1>1, <1>2, <1>3, <1>4, <1>6 DEF Seen, Asked, Committed
<1>8. CASE observed'.active # NoProfile
  <2>1. KeepTransport /\ UNCHANGED <<secret, targetGen>>
    BY <1>1, <1>8 DEF RefreshProfile
  <2>2. /\ Wire' /\ transport' \in Nat
        /\ authority' \in [generation : Nat, active : BOOLEAN, current : BOOLEAN]
        /\ client' \in Clients \cup {NoClient}
        /\ queue' \in Seq(Events)
    BY <1>1, <2>1, KeepWire
  <2>3. Typed'
    BY <1>1, <1>3, <1>6, <2>1, <2>2 DEF Typed
  <2>4. Followed'
    BY <1>3, <1>4, <1>6, <2>1 DEF Followed
  <2>5. Chosen'
    <3> SUFFICES ASSUME targetGen = stored.generation, targetGen # 0, secret # NoSecret,
                        connect' = NoConnect, observed'.list # << >>
                 PROVE  secret.id = failover'.target
      BY <1>1, <2>1 DEF Chosen
    <3>1. observed = observed'
      BY <1>1, <1>4 DEF Policy, Seen
    <3>2. failover'.target = failover.target
      BY <1>6, <1>8
    <3> QED
      BY <1>2, <3>1, <3>2 DEF Policy, Chosen
  <2> QED
    BY <1>7, <2>2, <2>3, <2>4, <2>5 DEF Policy
<1>9. CASE observed'.active = NoProfile
  <2>1. secret' = NoSecret /\ targetGen' = 0
    BY <1>1, <1>9 DEF RefreshProfile
  <2>2. \/ Disconnect("UNPAIRED")
        \/ /\ client = NoClient /\ state' = "UNPAIRED"
           /\ UNCHANGED <<client, transport, authority, heard>>
    BY <1>1, <1>9 DEF RefreshProfile
  <2>3. /\ Wire' /\ transport' \in Nat
        /\ authority' \in [generation : Nat, active : BOOLEAN, current : BOOLEAN]
        /\ client' \in Clients \cup {NoClient}
        /\ queue' \in Seq(Events)
    <3>1. CASE Disconnect("UNPAIRED")
      BY <1>1, <1>2, <3>1, DisconnectWire
    <3>2. ASSUME client = NoClient, state' = "UNPAIRED",
                 UNCHANGED <<client, transport, authority, heard>>
          PROVE  /\ Wire' /\ transport' \in Nat
                 /\ authority' \in [generation : Nat, active : BOOLEAN, current : BOOLEAN]
                 /\ client' \in Clients \cup {NoClient}
                 /\ queue' \in Seq(Events)
      <4>1. /\ queue' \in Seq(Events)
            /\ \A i \in DOMAIN queue' : \E j \in DOMAIN queue : queue'[i] = queue[j]
        BY ShrunkFacts DEF Typed
      <4>2. Queued'
        BY <3>2, <4>1 DEF Wire, Queued
      <4>3. ~authority.active /\ ~authority.current
        BY <3>2 DEF Wire, Heard, Current
      <4>4. Attached' /\ Heard' /\ Online' /\ Current'
        BY <1>1, <1>2, <3>2, <4>3 DEF Attached, Heard, Online, Current
      <4> QED
        BY <3>2, <4>1, <4>2, <4>4 DEF Wire, Typed
    <3> QED
      BY <2>2, <3>1, <3>2
  <2>4. Typed'
    BY <1>1, <1>3, <1>6, <2>1, <2>3 DEF Typed
  <2>5. Followed' /\ Chosen'
    BY <1>3, <1>4, <1>6, <2>1 DEF Followed, Chosen
  <2> QED
    BY <1>7, <2>3, <2>4, <2>5 DEF Policy
<1> QED
  BY <1>8, <1>9

-----------------------------------------------------------------------------
(* The steps of the other actors and those of the link task that leave the *)
(* policy alone.                                                           *)
LEMMA KeepPolicy ==
  ASSUME Policy, UNCHANGED <<stored, observed, failover, connect, heartbeat, secret, targetGen>>
  PROVE  Policy'
BY DEF Policy, Seen, Followed, Asked, Committed, Chosen

(* An edit moves the stored generation beyond all that was observed. *)
LEMMA EditKeeps ==
  ASSUME LinkInv, UserEdit
  PROVE  LinkInv'
<1> USE DEF LinkInv
<1>1. PICK set : Edited(set) /\ EditOf(stored, set)
  <2>1. stored \in StoredSets /\ WellFormed(stored) /\ pairings + 1 \in Nat
    BY DEF Typed
  <2>2. CASE UserPair
    BY <2>1, <2>2, PairEdits DEF UserPair
  <2>3. CASE UserSelect
    BY <2>1, <2>3, SelectEdits DEF UserSelect
  <2>4. CASE UserRevoke
    BY <2>1, <2>4, RevokeEdits DEF UserRevoke
  <2> QED
    BY <2>2, <2>3, <2>4 DEF UserEdit
<1>2. /\ stored' \in StoredSets /\ WellFormed(stored')
      /\ stored'.generation = stored.generation + 1
  BY <1>1 DEF Edited, EditOf
<1>3. UNCHANGED <<policy, secret, targetGen, wire, ui>>
  BY <1>1 DEF Edited
<1>4. pairings' \in Nat
  BY DEF Typed, UserEdit, UserPair, UserSelect, UserRevoke
<1>5. Typed'
  BY <1>2, <1>3, <1>4 DEF Typed, policy, wire
<1>6. Wire'
  BY <1>3 DEF Wire, Attached, Queued, Heard, Online, Current, policy, wire, ui
<1>7. /\ observed.generation \in Nat /\ stored.generation \in Nat /\ targetGen \in Nat
      /\ observed.generation <= stored.generation /\ targetGen <= observed.generation
  BY DEF Typed, Snapshots, StoredSets, Policy, Seen, Followed
<1>8. Policy'
  BY <1>2, <1>3, <1>7 DEF Policy, Seen, Followed, Asked, Committed, Chosen, policy
<1> QED
  BY <1>5, <1>6, <1>8

(* The failover tick only changes the policy. *)
LEMMA TickKeeps ==
  ASSUME LinkInv, FailoverTick
  PROVE  LinkInv'
<1> USE DEF LinkInv
<1>1. /\ connect = NoConnect /\ ~heartbeat
      /\ AdvanceFailover(failover, observed, "TICK", FALSE)
      /\ UNCHANGED <<stored, pairings, observed, heartbeat, secret, targetGen, wire, ui>>
  BY DEF FailoverTick, TaskFree
<1>2. failover \in Failovers /\ observed \in Snapshots /\ WellSeen(observed)
  BY DEF Typed
<1>3. (failover.initialized /\ failover.generation = observed.generation)
        => failover.active = observed.active
  BY DEF Policy, Followed
<1>4. /\ failover' \in Failovers /\ connect' \in Connects /\ retryOnFail' = FALSE
      /\ failover'.generation = observed.generation /\ failover'.active = observed.active
      /\ connect' # NoConnect =>
           /\ connect'.id = failover'.target /\ connect'.id \in Ids(observed.list)
           /\ connect'.generation = observed.generation
      /\ connect' = NoConnect =>
           failover'.target = failover.target \/ observed.active = NoProfile
  BY <1>1, <1>2, <1>3, AdvanceStep
<1>5. Typed'
  BY <1>1, <1>4 DEF Typed, wire
<1>6. Wire'
  BY <1>1 DEF Wire, Attached, Queued, Heard, Online, Current, wire, ui
<1>7. Seen' /\ Followed' /\ Asked' /\ Committed'
  BY <1>1, <1>4 DEF Policy, Seen, Followed, Asked, Committed
<1>8. Chosen'
  BY <1>1, <1>2, <1>4 DEF Policy, Chosen, WellSeen
<1> QED
  BY <1>5, <1>6, <1>7, <1>8 DEF Policy

(* connect_failover_target installs the target's credential, or finds that *)
(* the profiles were edited since they were observed.                      *)
LEMMA ConnectKeeps ==
  ASSUME LinkInv, ConnectTarget \/ ConnectRefused
  PROVE  LinkInv'
<1> USE DEF LinkInv
<1>1. connect # NoConnect
  BY DEF ConnectTarget, ConnectRefused
<1>2. /\ ~heartbeat /\ connect.id = failover.target /\ connect.id \in Ids(observed.list)
      /\ connect.generation = observed.generation
  BY <1>1 DEF Policy, Asked
<1>3. /\ observed.generation \in Nat /\ stored.generation \in Nat /\ targetGen \in Nat
      /\ observed.generation <= stored.generation /\ targetGen <= observed.generation
  BY DEF Typed, Snapshots, StoredSets, Policy, Seen, Followed
<1>4. CASE ConnectTarget
  <2> USE <1>4 DEF ConnectTarget
  <2>1. /\ connect' = NoConnect /\ Disconnect("OFFLINE")
        /\ secret' = SecretFor(stored, connect.id) /\ targetGen' = connect.generation
        /\ UNCHANGED <<stored, pairings, observed, failover, heartbeat, retryOnFail,
                       queue, overflow, ui>>
    OBVIOUS
  <2>2. secret' \in Secrets /\ secret'.id = connect.id
    <3> DEFINE i == CHOOSE i \in FindProfile(stored, connect.id) : TRUE
    <3>1. i \in DOMAIN stored.list /\ stored.list[i].id = connect.id
      BY DEF SecretAvailable, FindProfile
    <3>2. secret' = [id |-> connect.id, token |-> stored.list[i].token]
      BY <2>1 DEF SecretFor
    <3> HIDE DEF i
    <3>3. stored.list \in Seq(StoredProfile)
      BY DEF Typed, StoredSets
    <3>4. stored.list[i] \in StoredProfile
      BY <3>1, <3>3
    <3> QED
      BY <3>1, <3>2, <3>4 DEF StoredProfile, Secrets
  <2>3. /\ Wire' /\ transport' \in Nat
        /\ authority' \in [generation : Nat, active : BOOLEAN, current : BOOLEAN]
        /\ client' \in Clients \cup {NoClient}
        /\ queue' \in Seq(Events)
    BY <1>2, <2>1, DisconnectWire DEF Shrunk, ui
  <2>4. connect' \in Connects
    BY <2>1 DEF Connects, NoConnect, ProfileOrNone
  <2>5. Typed'
    BY <1>2, <1>3, <2>1, <2>2, <2>3, <2>4 DEF Typed
  <2>6. Policy'
    BY <1>2, <1>3, <2>1, <2>2 DEF Policy, Seen, Followed, Asked, Committed, Chosen
  <2> QED
    BY <2>3, <2>5, <2>6
<1>5. CASE ConnectRefused /\ retryOnFail
  <2>1. ScheduleRetry([failover EXCEPT !.initialized = FALSE]) /\ Shrunk
    BY <1>5 DEF ConnectRefused, Shrunk
  <2> QED
    BY <1>2, <2>1, RetryKeeps
<1>6. CASE ConnectRefused /\ ~retryOnFail
  <2>1. /\ connect' = NoConnect /\ failover' = [failover EXCEPT !.initialized = FALSE]
        /\ KeepTransport /\ Shrunk
        /\ UNCHANGED <<stored, pairings, observed, heartbeat, retryOnFail, secret, targetGen, ui>>
    BY <1>6 DEF ConnectRefused, Shrunk
  <2>2. /\ Wire' /\ transport' \in Nat
        /\ authority' \in [generation : Nat, active : BOOLEAN, current : BOOLEAN]
        /\ client' \in Clients \cup {NoClient}
        /\ queue' \in Seq(Events)
    BY <2>1, KeepWire DEF ui
  <2>3. /\ failover' \in Failovers /\ failover'.initialized = FALSE
        /\ failover'.generation = failover.generation
    BY <2>1 DEF Typed, Failovers
  <2>4. connect' \in Connects
    BY <2>1 DEF Connects, NoConnect, ProfileOrNone
  <2>5. Typed'
    BY <2>1, <2>2, <2>3, <2>4 DEF Typed
  <2>6. stored.generation = 0 \/ observed.generation # stored.generation
    <3> SUFFICES ASSUME observed.generation = stored.generation, stored.generation # 0
                 PROVE  FALSE
      OBVIOUS
    <3>1. observed.list = stored.list
      <4>1. observed = Snapshot(stored)
        BY DEF Policy, Seen
      <4> QED
        BY <4>1 DEF Snapshot
    <3>2. FindProfile(stored, connect.id) # {}
      BY <1>2, <3>1 DEF Ids, FindProfile
    <3>3. SecretAvailable(stored, connect.id, connect.generation)
      BY <1>2, <3>2 DEF SecretAvailable, StaleGeneration
    <3> QED
      BY <1>6, <3>3 DEF ConnectRefused
  <2>7. Policy'
    BY <1>2, <1>3, <2>1, <2>3, <2>6 DEF Policy, Seen, Followed, Asked, Committed, Chosen
  <2> QED
    BY <2>2, <2>5, <2>7
<1> QED
  BY <1>4, <1>5, <1>6

(* start_transport: the new generation has no events yet. *)
LEMMA StartKeeps ==
  ASSUME LinkInv, StartTransport
  PROVE  LinkInv'
<1> USE DEF LinkInv
<1>1. /\ ~heartbeat /\ secret # NoSecret /\ client = NoClient
      /\ transport' = transport + 1
      /\ authority' = [NoAuthority EXCEPT !.generation = transport']
      /\ client' = [generation |-> transport', peer |-> secret.id, phase |-> "opening"]
      /\ state' = "CONNECTING"
      /\ UNCHANGED <<stored, pairings, policy, secret, targetGen, queue, overflow, heard, ui>>
  BY DEF StartTransport, TaskFree
<1>2. transport' \in Nat /\ transport \in Nat /\ secret.id \in Profile
  BY <1>1 DEF Typed, Secrets
<1>3. /\ client' \in Clients /\ client' # NoClient
      /\ client'.generation = transport' /\ client'.peer = secret.id
  BY <1>1, <1>2 DEF Clients, NoClient
<1>4. /\ authority' \in [generation : Nat, active : BOOLEAN, current : BOOLEAN]
      /\ authority'.generation = transport' /\ authority'.active = FALSE
      /\ authority'.current = FALSE
  BY <1>1, <1>2 DEF NoAuthority
<1>5. Typed'
  BY <1>1, <1>2, <1>3, <1>4 DEF Typed, policy
<1>6. Queued'
  <2> SUFFICES ASSUME NEW i \in DOMAIN queue
               PROVE  queue[i].generation <= transport' /\ queue[i].generation # transport'
    BY <1>1 DEF Queued
  <2>1. queue[i] \in Events
    BY DEF Typed
  <2>2. queue[i].generation \in Nat /\ queue[i].generation <= transport
    BY <2>1 DEF Wire, Queued, Events
  <2> QED
    BY <1>1, <1>2, <2>2
<1>7. Attached' /\ Heard' /\ Online' /\ Current'
  BY <1>1, <1>3, <1>4 DEF Attached, Heard, Online, Current, policy
<1>8. Policy'
  BY <1>1, KeepPolicy DEF policy
<1> QED
  BY <1>5, <1>6, <1>7, <1>8 DEF Wire

(* The events that only leave the queue. *)
LEMMA DropKeeps ==
  ASSUME LinkInv, Shrunk, KeepTransport,
         UNCHANGED <<stored, pairings, policy, secret, targetGen, ui>>
  PROVE  LinkInv'
<1> USE DEF LinkInv
<1>1. /\ Wire' /\ transport' \in Nat
      /\ authority' \in [generation : Nat, active : BOOLEAN, current : BOOLEAN]
      /\ client' \in Clients \cup {NoClient}
      /\ queue' \in Seq(Events)
  BY KeepWire DEF policy, ui
<1>2. Policy'
  BY KeepPolicy DEF policy
<1>3. Typed'
  BY <1>1 DEF Typed, policy
<1> QED
  BY <1>1, <1>2, <1>3

(* An event that is current comes from the client in place. *)
LEMMA HeadIsCurrent ==
  ASSUME LinkInv, NEW type, Receive(type)
  PROVE  /\ ~heartbeat /\ connect = NoConnect /\ queue # << >>
         /\ Head(queue).generation = transport
         /\ client # NoClient /\ Head(queue).peer = client.peer
         /\ authority.generation = transport
<1>1. /\ ~heartbeat /\ connect = NoConnect /\ queue # << >>
      /\ Head(queue).generation = transport
  BY DEF Receive, TaskFree, IsCurrent
<1>2. queue \in Seq(Events)
  BY DEF LinkInv, Typed
<1>3. 1 \in DOMAIN queue /\ Head(queue) = queue[1]
  BY <1>1, <1>2
<1>4. client # NoClient /\ queue[1].peer = client.peer
  BY <1>1, <1>3 DEF LinkInv, Wire, Queued
<1> QED
  BY <1>1, <1>3, <1>4 DEF LinkInv, Wire, Attached

(* A later heartbeat, and an AI snapshot, of a transport with authority. *)
LEMMA AuthorityKeeps ==
  ASSUME LinkInv, ReceiveHeartbeat \/ ReceiveSnapshot
  PROVE  LinkInv'
<1> USE DEF LinkInv
<1>1. PICK type : Receive(type)
  BY DEF ReceiveHeartbeat, ReceiveSnapshot
<1>2. queue # << >> /\ Head(queue).generation = transport /\ client # NoClient
  BY <1>1, HeadIsCurrent
<1>3. /\ HasAuthority /\ Dequeued /\ authority.active
      /\ UNCHANGED <<stored, pairings, policy, secret, targetGen, client, transport, heard>>
  BY DEF ReceiveHeartbeat, ReceiveSnapshot, HasAuthority
<1>4. /\ queue' \in Seq(Events)
      /\ \A i \in DOMAIN queue' : \E j \in DOMAIN queue : queue'[i] = queue[j]
  BY <1>2, <1>3, ShrunkFacts DEF Shrunk, Dequeued, Typed
<1>5. Policy'
  BY <1>3, KeepPolicy DEF policy
<1>6. Queued'
  BY <1>3, <1>4 DEF Wire, Queued
<1>7. CASE ReceiveHeartbeat
  <2>1. state' = "ONLINE" /\ UNCHANGED <<authority, document>>
    BY <1>7 DEF ReceiveHeartbeat, ui
  <2>2. Typed'
    BY <1>3, <1>4, <2>1 DEF Typed, policy
  <2>3. Attached' /\ Heard' /\ Online' /\ Current'
    BY <1>3, <2>1 DEF Wire, Attached, Heard, Online, Current, policy
  <2> QED
    BY <1>5, <1>6, <2>2, <2>3 DEF Wire
<1>8. CASE ReceiveSnapshot
  <2>1. /\ state' = state /\ document' = Head(queue).generation
        /\ authority' = [authority EXCEPT !.current = TRUE]
    BY <1>8 DEF ReceiveSnapshot
  <2>2. /\ authority' \in [generation : Nat, active : BOOLEAN, current : BOOLEAN]
        /\ authority'.generation = authority.generation /\ authority'.active = authority.active
        /\ authority'.current = TRUE
    BY <2>1 DEF Typed
  <2>3. Typed'
    BY <1>3, <1>4, <2>2 DEF Typed, policy
  <2>4. Attached' /\ Heard' /\ Online' /\ Current'
    BY <1>2, <1>3, <2>1, <2>2 DEF Wire, Attached, Heard, Online, Current, policy
  <2> QED
    BY <1>5, <1>6, <2>3, <2>4 DEF Wire
<1> QED
  BY <1>7, <1>8

(* When the first heartbeat passes the fence, the policy's target, the     *)
(* credential in use and the stored set are of one generation.             *)
LEMMA FenceMeans ==
  ASSUME LinkInv, FirstHeartbeat
  PROVE  /\ observed = Snapshot(stored) /\ observed.generation = stored.generation
         /\ failover.generation = stored.generation
         /\ secret # NoSecret /\ secret.id = failover.target
         /\ ActiveId(stored') = secret.id
         /\ EditOf(stored, stored')
<1> USE DEF LinkInv
<1>1. ~heartbeat /\ connect = NoConnect
  <2>1. Receive("heartbeat")
    BY DEF FirstHeartbeat
  <2> QED
    BY <2>1, HeadIsCurrent
<1>2. stored.generation = targetGen /\ targetGen # 0 /\ secret # NoSecret
  BY DEF FirstHeartbeat, ActivationFence, StaleGeneration
<1>3. /\ observed.generation \in Nat /\ stored.generation \in Nat /\ targetGen \in Nat
      /\ observed.generation <= stored.generation /\ targetGen <= observed.generation
  BY DEF Typed, Snapshots, StoredSets, Policy, Seen, Followed
<1>4. observed.generation = stored.generation
  BY <1>2, <1>3
<1>5. observed = Snapshot(stored) /\ failover.generation = stored.generation
  BY <1>4 DEF Policy, Seen, Followed
<1>6. PICK i \in FindProfile(stored, secret.id) : stored' = ActivateOnSuccess(stored, i, 1)
  BY DEF FirstHeartbeat
<1>7. i \in DOMAIN stored.list /\ stored.list[i].id = secret.id
  BY DEF FindProfile
<1>8. EditOf(stored, stored') /\ ActiveId(stored') = secret.id
  BY <1>6, <1>7, ActivateEdits DEF Typed
<1>9. observed.list # << >>
  <2>1. observed.list = stored.list
    BY <1>5 DEF Snapshot
  <2> QED
    BY <1>7, <2>1
<1>10. secret.id = failover.target
  BY <1>1, <1>2, <1>9 DEF Policy, Chosen
<1> QED
  BY <1>2, <1>4, <1>5, <1>8, <1>10

LEMMA HeartbeatKeeps ==
  ASSUME LinkInv, FirstHeartbeat
  PROVE  LinkInv'
<1> USE DEF LinkInv
<1>1. /\ observed.generation = stored.generation /\ secret # NoSecret
      /\ secret.id = failover.target /\ EditOf(stored, stored')
  BY FenceMeans
<1>2. /\ Receive("heartbeat") /\ Dequeued /\ heartbeat' = TRUE /\ heard' = Head(queue).peer
      /\ UNCHANGED <<pairings, observed, failover, connect, retryOnFail, secret, targetGen,
                     client, transport, authority, state, overflow, ui>>
  BY DEF FirstHeartbeat
<1>3. queue # << >> /\ client # NoClient /\ Head(queue).peer = client.peer /\ connect = NoConnect
  BY <1>2, HeadIsCurrent
<1>4. /\ queue' \in Seq(Events)
      /\ \A i \in DOMAIN queue' : \E j \in DOMAIN queue : queue'[i] = queue[j]
  BY <1>2, <1>3, ShrunkFacts DEF Shrunk, Dequeued, Typed
<1>5. Queued'
  BY <1>2, <1>4 DEF Wire, Queued
<1>6. Attached' /\ Heard' /\ Online' /\ Current'
  BY <1>2, <1>3 DEF Wire, Attached, Heard, Online, Current, ui
<1>7. /\ stored' \in StoredSets /\ WellFormed(stored')
      /\ stored'.generation = stored.generation + 1
  BY <1>1 DEF EditOf
<1>8. Typed'
  BY <1>2, <1>4, <1>7 DEF Typed
<1>9. stored.generation \in Nat
  BY DEF Typed, StoredSets
<1>10. Policy'
  BY <1>1, <1>2, <1>3, <1>7, <1>9 DEF Policy, Seen, Followed, Asked, Committed, Chosen
<1> QED
  BY <1>5, <1>6, <1>8, <1>10 DEF Wire

(* The second half of accept_heartbeat: the authority is given only if the *)
(* target is still the active profile.                                     *)
LEMMA ObserveKeeps ==
  ASSUME LinkInv, HeartbeatObserve
  PROVE  LinkInv'
<1> USE DEF LinkInv
<1>1. /\ heartbeat /\ heartbeat' = FALSE /\ observed' = Snapshot(stored)
      /\ targetGen' = stored.generation
      /\ AdvanceFailover(failover, Snapshot(stored), "ONLINE", TRUE)
      /\ UNCHANGED <<stored, pairings, secret, client, transport, queue, overflow, heard, ui>>
  BY DEF HeartbeatObserve
<1>2. authority' = [authority EXCEPT !.active = @ \/ connect' = NoConnect] /\ UNCHANGED state
  BY DEF HeartbeatObserve
<1>3. /\ observed' \in Snapshots /\ WellSeen(observed')
      /\ observed'.generation = stored.generation /\ observed'.list = stored.list
  BY <1>1, SnapshotIsSeen DEF Typed
<1>4. /\ observed.generation < stored.generation /\ observed.generation \in Nat
      /\ stored.generation \in Nat
      /\ secret # NoSecret /\ secret.id = failover.target
  BY <1>1 DEF Policy, Committed, Typed, Snapshots, StoredSets
<1>5. /\ failover \in Failovers /\ failover.generation # observed'.generation
  BY <1>3, <1>4 DEF Typed, Policy, Followed
<1>6. /\ failover' \in Failovers /\ connect' \in Connects /\ retryOnFail' = TRUE
      /\ failover'.generation = observed'.generation /\ failover'.active = observed'.active
      /\ connect' # NoConnect =>
           /\ connect'.id = failover'.target /\ connect'.id \in Ids(observed'.list)
           /\ connect'.generation = observed'.generation
      /\ connect' = NoConnect =>
           failover'.target = failover.target \/ observed'.active = NoProfile
  BY <1>1, <1>3, <1>5, AdvanceStep
<1>7. /\ authority' \in [generation : Nat, active : BOOLEAN, current : BOOLEAN]
      /\ authority'.generation = authority.generation /\ authority'.current = authority.current
      /\ authority'.active = (connect' = NoConnect \/ authority.active)
  BY <1>2 DEF Typed
<1>8. Typed'
  BY <1>1, <1>3, <1>4, <1>6, <1>7 DEF Typed
<1>9. Wire'
  <2>1. client # NoClient /\ heard = client.peer
    BY <1>1 DEF Wire, Heard
  <2>2. Online'
    BY <1>2, <1>7 DEF Wire, Online
  <2>3. Attached' /\ Queued' /\ Heard' /\ Current'
    BY <1>1, <1>7, <2>1 DEF Wire, Attached, Queued, Heard, Current, ui
  <2> QED
    BY <2>2, <2>3 DEF Wire
<1>10. Policy'
  BY <1>1, <1>3, <1>4, <1>6 DEF Policy, Seen, Followed, Asked, Committed, Chosen, WellSeen
<1> QED
  BY <1>8, <1>9, <1>10

(* Publishing the authority that was given. *)
LEMMA OnlineKeeps ==
  ASSUME LinkInv, HeartbeatOnline
  PROVE  LinkInv'
<1> USE DEF LinkInv
<1>1. /\ authority.active
      /\ UNCHANGED <<stored, pairings, policy, secret, targetGen, client, transport, authority,
                     queue, overflow, heard, ui>>
  BY DEF HeartbeatOnline, Activated
<1>2. Policy'
  BY <1>1, KeepPolicy DEF policy
<1>3. Wire'
  BY <1>1 DEF Wire, Attached, Queued, Heard, Online, Current, policy, ui
<1>4. Typed'
  BY <1>1 DEF Typed, policy
<1> QED
  BY <1>2, <1>3, <1>4

(* A callback of the client reports for the client in place. *)
LEMMA CallbackKeeps ==
  ASSUME LinkInv, WebsocketEvent
  PROVE  LinkInv'
<1> USE DEF LinkInv
<1>1. PICK type \in Phases[client.phase] :
        /\ IF QueueHasRoom
           THEN /\ queue' = Append(queue, [type |-> type, generation |-> client.generation,
                                           peer |-> client.peer])
                /\ UNCHANGED overflow
           ELSE overflow' = client.generation /\ UNCHANGED queue
        /\ client' = [client EXCEPT !.phase = CASE type = "connected" -> "open"
                                                [] type = "disconnected" -> "closed"
                                                [] OTHER -> @]
  BY DEF WebsocketEvent
<1>2. /\ client # NoClient
      /\ UNCHANGED <<stored, pairings, policy, secret, targetGen, transport, authority, state,
                     heard, ui>>
  BY DEF WebsocketEvent
<1>3. client \in Clients /\ client.generation = transport /\ transport \in Nat
  BY <1>2 DEF Typed, Wire, Attached
<1>4. client.phase \in {"opening", "open", "closed"} /\ client.peer \in Profile
  BY <1>3 DEF Clients
<1>5. type \in EventTypes
  BY <1>1, <1>4 DEF Phases, EventTypes
<1>6. /\ client' \in Clients /\ client'.generation = client.generation
      /\ client'.peer = client.peer
  BY <1>1, <1>3 DEF Clients
<1>7. client' # NoClient
  BY <1>6 DEF Clients, NoClient
<1> DEFINE e == [type |-> type, generation |-> client.generation, peer |-> client.peer]
<1>8. e \in Events /\ e.generation = transport /\ e.peer = client.peer
  BY <1>3, <1>4, <1>5 DEF Events
<1>9. queue' = queue \/ queue' = Append(queue, e)
  BY <1>1
<1> HIDE DEF e
<1>10. /\ queue' \in Seq(Events)
       /\ \A i \in DOMAIN queue' : queue'[i] = e \/ (i \in DOMAIN queue /\ queue'[i] = queue[i])
  <2>1. queue \in Seq(Events)
    BY DEF Typed
  <2>2. CASE queue' = queue
    BY <2>1, <2>2
  <2>3. CASE queue' = Append(queue, e)
    BY <1>8, <2>1, <2>3
  <2> QED
    BY <1>9, <2>2, <2>3
<1>11. Queued'
  <2> SUFFICES ASSUME NEW i \in DOMAIN queue'
               PROVE  /\ queue'[i].generation <= transport
                      /\ queue'[i].generation = transport => queue'[i].peer = client.peer
    BY <1>2, <1>6, <1>7 DEF Queued
  <2>1. CASE queue'[i] = e
    BY <1>3, <1>8, <2>1
  <2>2. CASE i \in DOMAIN queue /\ queue'[i] = queue[i]
    BY <2>2 DEF Wire, Queued
  <2> QED
    BY <1>10, <2>1, <2>2
<1>12. Attached' /\ Heard' /\ Online' /\ Current'
  BY <1>2, <1>6, <1>7 DEF Wire, Attached, Heard, Online, Current, policy, ui
<1>13. Typed'
  BY <1>2, <1>6, <1>10 DEF Typed, policy
<1>14. Policy'
  BY <1>2, KeepPolicy DEF policy
<1> QED
  BY <1>11, <1>12, <1>13, <1>14 DEF Wire

(* The UI reads; stuttering changes nothing. *)
LEMMA ReaderKeeps ==
  ASSUME LinkInv,
         UNCHANGED <<stored, pairings, policy, secret, targetGen, wire, document>>
  PROVE  LinkInv'
<1> USE DEF LinkInv
<1>1. Policy'
  BY KeepPolicy DEF policy
<1>2. Wire'
  BY DEF Wire, Attached, Queued, Heard, Online, Current, wire, policy
<1>3. Typed'
  BY DEF Typed, wire, policy
<1> QED
  BY <1>1, <1>2, <1>3

LEMMA NextLink == LinkInv /\ [LinkNext]_linkVars => LinkInv'
<1> SUFFICES ASSUME LinkInv, [LinkNext]_linkVars PROVE LinkInv'
  OBVIOUS
<1>1. CASE UserEdit
  BY <1>1, EditKeeps
<1>2. CASE PollProfiles
  BY <1>2, RefreshKeeps DEF PollProfiles, Shrunk
<1>3. CASE FailoverTick
  BY <1>3, TickKeeps
<1>4. CASE ConnectTarget \/ ConnectRefused
  BY <1>4, ConnectKeeps
<1>5. CASE StartTransport
  BY <1>5, StartKeeps
<1>6. CASE StartFails \/ TransportLost
  <2>1. ~heartbeat /\ connect = NoConnect /\ ScheduleRetry(failover) /\ Shrunk
    BY <1>6 DEF StartFails, TransportLost, TaskFree, Shrunk
  <2> QED
    BY <2>1, RetryKeeps
<1>7. CASE QueueOverflowed
  <2>1. ~heartbeat /\ connect = NoConnect /\ Shrunk
    BY <1>7 DEF QueueOverflowed, TaskFree, Shrunk
  <2>2. CASE overflow = transport
    <3>1. ScheduleRetry(failover)
      BY <1>7, <2>2 DEF QueueOverflowed
    <3> QED
      BY <2>1, <3>1, RetryKeeps
  <2>3. CASE overflow # transport
    <3>1. KeepTransport /\ UNCHANGED <<stored, pairings, policy, secret, targetGen, ui>>
      BY <1>7, <2>3 DEF QueueOverflowed
    <3> QED
      BY <2>1, <3>1, DropKeeps
  <2> QED
    BY <2>2, <2>3
<1>8. CASE DropStaleEvent \/ ReceiveConnected
  <2>1. /\ Shrunk /\ KeepTransport
        /\ UNCHANGED <<stored, pairings, policy, secret, targetGen, ui>>
    BY <1>8 DEF DropStaleEvent, ReceiveConnected, Receive, Dequeued, Shrunk
  <2> QED
    BY <2>1, DropKeeps
<1>9. CASE \/ ReceiveDisconnected \/ ReceiveInvalid \/ FirstHeartbeatFails
           \/ ReceiveUnauthorized
  <2>1. ~heartbeat /\ connect = NoConnect /\ ScheduleRetry(failover) /\ Shrunk
    BY <1>9 DEF ReceiveDisconnected, ReceiveInvalid, FirstHeartbeatFails,
                ReceiveUnauthorized, GiveUp, Receive, TaskFree, Dequeued, Shrunk
  <2> QED
    BY <2>1, RetryKeeps
<1>10. CASE ReceiveHeartbeat \/ ReceiveSnapshot
  BY <1>10, AuthorityKeeps
<1>11. CASE FirstHeartbeat
  BY <1>11, HeartbeatKeeps
<1>12. CASE FirstHeartbeatStale
  <2>1. TaskFree /\ RefreshProfile(TRUE) /\ Shrunk
    BY <1>12 DEF FirstHeartbeatStale, Receive, Dequeued, Shrunk
  <2> QED
    BY <2>1, RefreshKeeps
<1>13. CASE HeartbeatObserve
  BY <1>13, ObserveKeeps
<1>14. CASE WebsocketEvent
  BY <1>14, CallbackKeeps
<1>15. CASE CopyBegin \/ CopyEnd
  BY <1>15, ReaderKeeps DEF CopyBegin, CopyEnd
<1>16. CASE UNCHANGED linkVars
  BY <1>16, ReaderKeeps DEF linkVars, ui
<1>17. CASE HeartbeatObserveFails
  <2>1. heartbeat /\ ScheduleRetry(failover) /\ Shrunk
    BY <1>17 DEF HeartbeatObserveFails, Shrunk
  <2>2. connect = NoConnect
    BY <2>1 DEF LinkInv, Policy, Asked
  <2> QED
    BY <2>1, <2>2, RetryKeeps
<1>18. CASE HeartbeatOnline
  BY <1>18, OnlineKeeps
<1> QED
  BY <1>1, <1>2, <1>3, <1>4, <1>5, <1>6, <1>7, <1>8, <1>9, <1>10, <1>11, <1>12, <1>13,
     <1>14, <1>15, <1>16, <1>17, <1>18 DEF LinkNext

LEMMA LinkInvariant == LinkSpec => []LinkInv
BY InitLink, NextLink, PTL DEF LinkSpec
-----------------------------------------------------------------------------
(* At every moment the authority is that of the transport in place, whose  *)
(* own peer was heard and whose credential is the one in use; the link     *)
(* reports ONLINE only then (accept_heartbeat, disconnect_transport,       *)
(* start_transport), for any number of Companions, transports, edits and   *)
(* events.                                                                 *)
THEOREM AuthorityIsEarned == LinkSpec => []AuthorityIsHeard
<1>1. LinkInv => AuthorityIsHeard
  BY DEF LinkInv, Wire, Attached, Heard, Online, AuthorityIsHeard
<1> QED
  BY <1>1, LinkInvariant, PTL

(* A heartbeat commits a profile as the active one only if it is the       *)
(* policy's target in the very generation of the set that is stored: no    *)
(* interleaving of edits, polls and delayed heartbeats overrides a newer   *)
(* choice of the user (activate_on_success and its expected generation).   *)
THEOREM UserIsRespected == LinkSpec => HeartbeatRespectsUser
<1>1. LinkInv /\ [LinkNext]_linkVars =>
        [~heartbeat /\ heartbeat'
           => /\ observed = Snapshot(stored)
              /\ failover.generation = stored.generation
              /\ secret.id = failover.target
              /\ ActiveId(stored') = failover.target]_linkVars
  <2> SUFFICES ASSUME LinkInv, [LinkNext]_linkVars, ~heartbeat, heartbeat'
               PROVE  /\ observed = Snapshot(stored)
                      /\ failover.generation = stored.generation
                      /\ secret.id = failover.target
                      /\ ActiveId(stored') = failover.target
    OBVIOUS
  <2>1. FirstHeartbeat
    <3>1. ~UNCHANGED linkVars
      BY DEF linkVars, policy
    <3>2. ~UserEdit /\ ~PollProfiles /\ ~FailoverTick /\ ~ConnectTarget /\ ~ConnectRefused
      BY DEF UserEdit, UserPair, UserSelect, UserRevoke, Edited, policy, PollProfiles,
             RefreshProfile, FailoverTick, ConnectTarget, ConnectRefused, ScheduleRetry
    <3>3. ~StartTransport /\ ~StartFails /\ ~TransportLost /\ ~QueueOverflowed
      BY DEF StartTransport, StartFails, TransportLost, QueueOverflowed, ScheduleRetry, policy
    <3>4. /\ ~DropStaleEvent /\ ~ReceiveConnected /\ ~ReceiveDisconnected /\ ~ReceiveInvalid
          /\ ~ReceiveHeartbeat /\ ~FirstHeartbeatStale /\ ~FirstHeartbeatFails
          /\ ~ReceiveSnapshot /\ ~ReceiveUnauthorized
      BY DEF DropStaleEvent, ReceiveConnected, ReceiveDisconnected, ReceiveInvalid,
             ReceiveHeartbeat, FirstHeartbeatStale, FirstHeartbeatFails, RefreshProfile,
             ReceiveSnapshot, ReceiveUnauthorized, GiveUp, ScheduleRetry, policy
    <3>5. /\ ~HeartbeatObserve /\ ~HeartbeatObserveFails /\ ~HeartbeatOnline
          /\ ~WebsocketEvent /\ ~CopyBegin /\ ~CopyEnd
      BY DEF HeartbeatObserve, HeartbeatObserveFails, HeartbeatOnline, WebsocketEvent,
             CopyBegin, CopyEnd, policy
    <3> QED
      BY <3>1, <3>2, <3>3, <3>4, <3>5 DEF LinkNext
  <2> QED
    BY <2>1, FenceMeans
<1> QED
  BY <1>1, LinkInvariant, PTL DEF LinkSpec, HeartbeatRespectsUser

(* copy_ai_snapshot calls a document fresh only if, at that moment, the    *)
(* link is online and the document came over the transport in place, even  *)
(* when transports were replaced between its two checks.                   *)
THEOREM FreshnessIsLive == LinkSpec => FreshIsLive
<1>1. LinkInv /\ [LinkNext]_linkVars =>
        [reader.busy /\ ~reader'.busy /\ shown' = "fresh"
           => /\ state = "ONLINE"
              /\ document = transport
              /\ client # NoClient /\ client.generation = transport]_linkVars
  <2> SUFFICES ASSUME LinkInv, [LinkNext]_linkVars, reader.busy, ~reader'.busy, shown' = "fresh"
               PROVE  /\ state = "ONLINE" /\ document = transport
                      /\ client # NoClient /\ client.generation = transport
    OBVIOUS
  <2>1. CopyEnd
    <3>1. reader' # reader
      OBVIOUS
    <3>2. ~UNCHANGED ui /\ ~UNCHANGED linkVars /\ ~CopyBegin
      BY <3>1 DEF linkVars, ui, CopyBegin
    <3>3. ~UserEdit /\ ~PollProfiles /\ ~FailoverTick /\ ~ConnectTarget /\ ~ConnectRefused
      BY <3>2 DEF UserEdit, UserPair, UserSelect, UserRevoke, Edited, PollProfiles,
             RefreshProfile, FailoverTick, ConnectTarget, ConnectRefused, ScheduleRetry
    <3>4. ~StartTransport /\ ~StartFails /\ ~TransportLost /\ ~QueueOverflowed
      BY <3>2 DEF StartTransport, StartFails, TransportLost, QueueOverflowed, ScheduleRetry
    <3>5. /\ ~DropStaleEvent /\ ~ReceiveConnected /\ ~ReceiveDisconnected /\ ~ReceiveInvalid
          /\ ~ReceiveHeartbeat /\ ~FirstHeartbeatStale /\ ~FirstHeartbeatFails
          /\ ~ReceiveSnapshot /\ ~ReceiveUnauthorized
      BY <3>1, <3>2 DEF DropStaleEvent, ReceiveConnected, ReceiveDisconnected, ReceiveInvalid,
             ReceiveHeartbeat, FirstHeartbeatStale, FirstHeartbeatFails, RefreshProfile,
             ReceiveSnapshot, ReceiveUnauthorized, GiveUp, ScheduleRetry
    <3>6. /\ ~FirstHeartbeat /\ ~HeartbeatObserve /\ ~HeartbeatObserveFails
          /\ ~HeartbeatOnline /\ ~WebsocketEvent
      BY <3>2 DEF FirstHeartbeat, HeartbeatObserve, HeartbeatObserveFails, HeartbeatOnline,
                  ScheduleRetry, WebsocketEvent
    <3> QED
      BY <3>2, <3>3, <3>4, <3>5, <3>6 DEF LinkNext
  <2>2. SourceStillCurrent
    BY <2>1 DEF CopyEnd
  <2> QED
    BY <2>2 DEF SourceStillCurrent, SourceCurrent, LinkInv, Wire, Attached, Heard, Current
<1> QED
  BY <1>1, LinkInvariant, PTL DEF LinkSpec, FreshIsLive
=============================================================================
