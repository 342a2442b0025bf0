---------------------------- MODULE CompanionLink ----------------------------
(***************************************************************************)
(* The Companion link of the Deck                                          *)
(* (components/companion_link/deck_companion_link.cpp): the link task, the *)
(* WebSocket client's callbacks, the recovery page that edits the profiles *)
(* and the UI that copies the AI snapshot, all concurrent.                 *)
(*                                                                         *)
(* One action is one lock-to-lock stretch of the link task: the profiles'  *)
(* mutex is released between an activation, the snapshot that follows it   *)
(* and the credential read, so an edit can fall between any two of them.   *)
(* Time is abstracted: the runs have OfflineWindow = 0, so that a tick     *)
(* stands for the first one after the window, and a deadline may have      *)
(* passed at any loop.  The serial fence that precedes a transport is the  *)
(* subject of TransportFence.                                              *)
(***************************************************************************)
EXTENDS FailoverPolicy

CONSTANTS NoDocument,
          QueueCapacity,     \* length of link->events
          MaxEdits,          \* bound on profile generations
          MaxTransport       \* bound on transport generations

VARIABLES
  stored,        \* the profile set in the transaction store
  pairings,      \* codes redeemed so far: numbers the credentials
  observed,      \* link->profiles_snapshot
  failover,      \* link->failover
  connect,       \* the CONNECT action being carried out, [id, generation]
  heartbeat,     \* accept_heartbeat is between the activation and the snapshot
  retryOnFail,   \* whether a failed connect ends in schedule_retry
  secret,        \* link->secret
  targetGen,     \* link->target_profile_generation
  client,        \* link->client: its transport generation, peer and phase
  transport,     \* link->transport_generation
  authority,     \* link->transport_authority
  state,         \* link->snapshot.state
  queue,         \* link->events
  overflow,      \* link->queue_overflow_generation
  document,      \* whose AI document the snapshot store holds
  heard,         \* the peer whose heartbeat gave the authority
  reader,        \* a UI call of copy_ai_snapshot between its two checks
  shown          \* what the last such call reported

policy == <<observed, failover, connect, heartbeat, retryOnFail>>
wire   == <<client, transport, authority, state, queue, overflow, heard>>
ui     == <<document, reader, shown>>
linkVars == <<stored, pairings, policy, secret, targetGen, wire, ui>>

NoSecret    == [id |-> NoProfile, token |-> 0]
NoClient    == [generation |-> 0, peer |-> NoProfile, phase |-> "none"]
NoConnect   == [id |-> NoProfile, generation |-> 0]
NoAuthority == [generation |-> 0, active |-> FALSE, current |-> FALSE]
NoReader    == [online |-> FALSE, generation |-> 0, busy |-> FALSE]
Nothing     == Snapshot(EmptySet)

States     == {"UNPAIRED", "OFFLINE", "CONNECTING", "ONLINE"}
EventTypes == {"connected", "disconnected", "heartbeat", "snapshot", "invalid"}

LinkTypeOK ==
  /\ stored.generation \in 0..MaxEdits
  /\ failover.generation \in 0..MaxEdits
  /\ connect.id \in Profile \cup {NoProfile}
  /\ heartbeat \in BOOLEAN /\ retryOnFail \in BOOLEAN
  /\ secret \in [id : Profile, token : 0..pairings] \cup {NoSecret}
  /\ targetGen \in 0..MaxEdits
  /\ transport \in 0..MaxTransport
  /\ authority.generation \in 0..transport
  /\ state \in States
  /\ Len(queue) <= QueueCapacity
  /\ \A i \in DOMAIN queue : queue[i].type \in EventTypes
  /\ overflow \in 0..MaxTransport
  /\ document \in 1..MaxTransport \cup {NoDocument}
  /\ shown \in {"nothing", "fresh", "stale"}

LinkInit ==
  /\ stored = EmptySet /\ pairings = 0
  /\ observed = Nothing /\ failover = NewFailover
  /\ connect = NoConnect /\ heartbeat = FALSE /\ retryOnFail = FALSE
  /\ secret = NoSecret /\ targetGen = 0
  /\ client = NoClient /\ transport = 0 /\ authority = NoAuthority
  /\ state = "UNPAIRED" /\ queue = << >> /\ overflow = 0
  /\ heard = NoProfile
  /\ document = NoDocument /\ reader = NoReader /\ shown = "nothing"
-----------------------------------------------------------------------------
(* The recovery page's edits (setup_service), under the profiles' mutex.   *)
Edited(set) ==
  /\ stored.generation < MaxEdits
  /\ stored' = set
  /\ UNCHANGED <<policy, secret, targetGen, wire, ui>>

UserPair ==
  /\ \E p \in Profile : CanPair(stored, p) /\ Edited(Pair(stored, p, pairings + 1))
  /\ pairings' = pairings + 1

UserSelect ==
  /\ \E i \in DOMAIN stored.list : Edited(SelectActive(stored, i))
  /\ UNCHANGED pairings

UserRevoke ==
  /\ \E i \in DOMAIN stored.list : Edited(Revoke(stored, i))
  /\ UNCHANGED pairings

UserEdit == UserPair \/ UserSelect \/ UserRevoke
-----------------------------------------------------------------------------
(* The link task. *)

(* accept_heartbeat has given the authority and not yet published it. *)
Activated == authority.active /\ state # "ONLINE"

(* It is at the top of an iteration or waiting for an event. *)
TaskFree == connect = NoConnect /\ ~heartbeat /\ ~Activated

(* disconnect_transport: the generation moves on and the authority ends in *)
(* one critical section, before the client is stopped.                     *)
Disconnect(stateAfter) ==
  /\ transport < MaxTransport
  /\ client' = NoClient
  /\ transport' = transport + 1
  /\ authority' = NoAuthority
  /\ state' = stateAfter
  /\ heard' = NoProfile

KeepTransport == UNCHANGED <<client, transport, authority, state, heard>>

(* advance_failover, up to the credential read of connect_failover_target. *)
AdvanceFailover(f, profiles, event, onFail) ==
  LET r == Advance(f, profiles, 0, event)
  IN  /\ failover' = r.failover
      /\ connect' = IF r.connect = NoProfile THEN NoConnect
                    ELSE [id |-> r.connect, generation |-> profiles.generation]
      /\ retryOnFail' = onFail

(* schedule_retry, from any of the places that give up on the transport. *)
ScheduleRetry(f) ==
  /\ Disconnect("OFFLINE")
  /\ AdvanceFailover(f, observed, "TRANSPORT_FAILED", FALSE)
  /\ heartbeat' = FALSE
  /\ UNCHANGED <<stored, pairings, observed, secret, targetGen, ui>>

(* refresh_profile: observe the stored set; without an active profile the  *)
(* transport and its credential go.                                        *)
RefreshProfile(onFail) ==
  LET seen == Snapshot(stored)
  IN  /\ observed' = seen
      /\ AdvanceFailover(failover, seen, "PROFILES_OBSERVED", onFail)
      /\ \/ seen.active # NoProfile /\ KeepTransport /\ UNCHANGED <<secret, targetGen>>
         \/ /\ seen.active = NoProfile
            /\ \/ /\ client # NoClient \/ secret # NoSecret \/ targetGen # 0
                  /\ Disconnect("UNPAIRED")
               \/ /\ client = NoClient /\ secret = NoSecret /\ targetGen = 0
                  /\ state' = "UNPAIRED"
                  /\ UNCHANGED <<client, transport, authority, heard>>
            /\ secret' = NoSecret
            /\ targetGen' = 0
      /\ UNCHANGED <<stored, pairings, heartbeat, ui>>

PollProfiles ==
  /\ TaskFree
  /\ RefreshProfile(FALSE)
  /\ UNCHANGED <<queue, overflow>>

FailoverTick ==
  /\ TaskFree
  /\ observed # Nothing
  /\ AdvanceFailover(failover, observed, "TICK", FALSE)
  /\ UNCHANGED <<stored, pairings, observed, heartbeat, secret, targetGen, wire, ui>>

(* connect_failover_target: the credential is read only if the profiles    *)
(* are still the observed ones, and then replaces the transport.  If they  *)
(* are not, the policy starts over; when that happens on behalf of a       *)
(* heartbeat its handler returns false and the transport is given up.      *)
ConnectTarget ==
  /\ connect # NoConnect
  /\ SecretAvailable(stored, connect.id, connect.generation)
  /\ connect' = NoConnect
  /\ Disconnect("OFFLINE")
  /\ secret' = SecretFor(stored, connect.id)
  /\ targetGen' = connect.generation
  /\ UNCHANGED <<stored, pairings, observed, failover, heartbeat, retryOnFail,
                 queue, overflow, ui>>

ConnectRefused ==
  /\ connect # NoConnect
  /\ ~SecretAvailable(stored, connect.id, connect.generation)
  /\ LET restarted == [failover EXCEPT !.initialized = FALSE]
     IN  \/ retryOnFail /\ ScheduleRetry(restarted)
         \/ /\ ~retryOnFail
            /\ connect' = NoConnect /\ failover' = restarted
            /\ KeepTransport
            /\ UNCHANGED <<stored, pairings, observed, heartbeat, retryOnFail, secret,
                           targetGen, ui>>
  /\ UNCHANGED <<queue, overflow>>

(* start_transport: a new generation begins without authority.  When the   *)
(* client does not start, the generation is retired again.                 *)
StartTransport ==
  /\ TaskFree /\ secret # NoSecret /\ client = NoClient
  /\ transport < MaxTransport
  /\ transport' = transport + 1
  /\ authority' = [NoAuthority EXCEPT !.generation = transport']
  /\ client' = [generation |-> transport', peer |-> secret.id, phase |-> "opening"]
  /\ state' = "CONNECTING"
  /\ UNCHANGED <<stored, pairings, policy, secret, targetGen, queue, overflow, heard, ui>>

StartFails ==
  /\ TaskFree /\ secret # NoSecret /\ client = NoClient
  /\ ScheduleRetry(failover)
  /\ UNCHANGED <<queue, overflow>>

(* The server's heartbeat is overdue, or a send to it failed. *)
TransportLost ==
  /\ TaskFree /\ client # NoClient
  /\ ScheduleRetry(failover)
  /\ UNCHANGED <<queue, overflow>>

(* An event was lost: the transport it belonged to is given up, if it is   *)
(* still the current one.                                                  *)
QueueOverflowed ==
  /\ TaskFree /\ overflow # 0
  /\ overflow' = 0
  /\ \/ overflow = transport /\ ScheduleRetry(failover)
     \/ /\ overflow # transport
        /\ KeepTransport
        /\ UNCHANGED <<stored, pairings, policy, secret, targetGen, ui>>
  /\ UNCHANGED queue
-----------------------------------------------------------------------------
(* Events of the queue: those of another transport generation are dropped. *)
IsCurrentTrusting(event) == TRUE

IsCurrent(event) == event.generation = transport

Receive(type) ==
  /\ TaskFree /\ queue # << >>
  /\ Head(queue).type = type /\ IsCurrent(Head(queue))

Dequeued == queue' = Tail(queue)

DropStaleEvent ==
  /\ TaskFree /\ queue # << >> /\ ~IsCurrent(Head(queue))
  /\ Dequeued
  /\ KeepTransport
  /\ UNCHANGED <<stored, pairings, policy, secret, targetGen, overflow, ui>>

(* The transport opened: send_hello; the timers start over. *)
ReceiveConnected ==
  /\ Receive("connected")
  /\ Dequeued
  /\ KeepTransport
  /\ UNCHANGED <<stored, pairings, policy, secret, targetGen, overflow, ui>>

(* A closed transport, or a message the link refuses. *)
GiveUp == Dequeued /\ ScheduleRetry(failover) /\ UNCHANGED overflow

ReceiveDisconnected == Receive("disconnected") /\ client # NoClient /\ GiveUp

ReceiveInvalid == Receive("invalid") /\ GiveUp

HasAuthority == authority.generation = transport /\ authority.active

(* A later heartbeat of a transport that already has the authority. *)
ReceiveHeartbeat ==
  /\ Receive("heartbeat") /\ HasAuthority
  /\ Dequeued
  /\ state' = "ONLINE"
  /\ UNCHANGED <<stored, pairings, policy, secret, targetGen,
                 client, transport, authority, overflow, heard, ui>>

(* The first heartbeat of a transport commits its profile as the active    *)
(* one, unless the profiles changed since the target was chosen, in which  *)
(* case they are observed again.  A commit that fails, or a profile that   *)
(* is gone, gives the transport up.                                        *)
ActivationFenceIgnored == FALSE

ActivationFence == StaleGeneration(stored, targetGen)

FirstHeartbeat ==
  /\ Receive("heartbeat") /\ ~HasAuthority /\ secret # NoSecret
  /\ ~ActivationFence
  /\ stored.generation < MaxEdits
  /\ \E i \in FindProfile(stored, secret.id) : stored' = ActivateOnSuccess(stored, i, 1)
  /\ Dequeued
  /\ heartbeat' = TRUE
  /\ heard' = Head(queue).peer
  /\ UNCHANGED <<pairings, observed, failover, connect, retryOnFail, secret, targetGen,
                 client, transport, authority, state, overflow, ui>>

FirstHeartbeatStale ==
  /\ Receive("heartbeat") /\ ~HasAuthority /\ secret # NoSecret
  /\ ActivationFence
  /\ RefreshProfile(TRUE)
  /\ Dequeued
  /\ UNCHANGED overflow

FirstHeartbeatFails ==
  /\ Receive("heartbeat") /\ ~HasAuthority
  /\ GiveUp

(* After the commit the set is observed again.  If it still has the target *)
(* active the transport gets the authority; if the user edited it since,   *)
(* the policy connects to the newer choice.  A snapshot that fails, for    *)
(* want of memory, gives the transport up after its commit.                *)
HeartbeatObserve ==
  /\ heartbeat
  /\ heartbeat' = FALSE
  /\ observed' = Snapshot(stored)
  /\ targetGen' = stored.generation
  /\ AdvanceFailover(failover, observed', "ONLINE", TRUE)
  /\ authority' = [authority EXCEPT !.active = @ \/ connect' = NoConnect]
  /\ UNCHANGED <<stored, pairings, secret, client, transport, state, queue, overflow,
                 heard, ui>>

HeartbeatObserveFails ==
  /\ heartbeat
  /\ ScheduleRetry(failover)
  /\ UNCHANGED <<queue, overflow>>

(* The link is online in a critical section of its own. *)
HeartbeatOnline ==
  /\ Activated
  /\ state' = "ONLINE"
  /\ UNCHANGED <<stored, pairings, policy, secret, targetGen, client, transport, authority,
                 queue, overflow, heard, ui>>

(* An AI snapshot: refused without authority; the store is updated before  *)
(* the transport's snapshot_current flag is set, in the same task.         *)
ReceiveSnapshot ==
  /\ Receive("snapshot") /\ HasAuthority
  /\ Dequeued
  /\ document' = Head(queue).generation
  /\ authority' = [authority EXCEPT !.current = TRUE]
  /\ UNCHANGED <<stored, pairings, policy, secret, targetGen,
                 client, transport, state, overflow, heard, reader, shown>>

ReceiveUnauthorized == Receive("snapshot") /\ ~HasAuthority /\ GiveUp
-----------------------------------------------------------------------------
(* The WebSocket client's task: it reports the opening of the connection,  *)
(* then data in any order, and at some point the end.  An event that finds *)
(* the queue full is lost and the overflow is noted instead.               *)
Phases == [opening |-> {"connected", "disconnected"},
           open    |-> {"heartbeat", "snapshot", "invalid", "disconnected"},
           closed  |-> {}]

QueueHasRoom == Len(queue) < QueueCapacity

WebsocketEvent ==
  /\ client # NoClient
  /\ \E type \in Phases[client.phase] :
       /\ IF QueueHasRoom
          THEN /\ queue' = Append(queue, [type |-> type, generation |-> client.generation,
                                          peer |-> client.peer])
               /\ UNCHANGED overflow
          ELSE overflow' = client.generation /\ UNCHANGED queue
       /\ client' = [client EXCEPT !.phase = CASE type = "connected" -> "open"
                                               [] type = "disconnected" -> "closed"
                                               [] OTHER -> @]
  /\ UNCHANGED <<stored, pairings, policy, secret, targetGen, transport, authority, state,
                 heard, ui>>
-----------------------------------------------------------------------------
(* The UI copies the AI snapshot: it reads whether the source is current,  *)
(* copies the document without the link's lock, and asks again.            *)
SourceCurrent ==
  state = "ONLINE" /\ HasAuthority /\ authority.current

CopyBegin ==
  /\ ~reader.busy /\ document # NoDocument
  /\ reader' = [busy |-> TRUE, online |-> SourceCurrent, generation |-> transport]
  /\ UNCHANGED <<stored, pairings, policy, secret, targetGen, wire, document, shown>>

SourceStillCurrentTrusting == reader.online

SourceStillCurrent == reader.online /\ reader.generation = transport /\ SourceCurrent

CopyEnd ==
  /\ reader.busy
  /\ reader' = NoReader
  /\ shown' = IF SourceStillCurrent THEN "fresh" ELSE "stale"
  /\ UNCHANGED <<stored, pairings, policy, secret, targetGen, wire, document>>
-----------------------------------------------------------------------------
LinkNext ==
  \/ UserEdit
  \/ PollProfiles \/ FailoverTick \/ ConnectTarget \/ ConnectRefused
  \/ StartTransport \/ StartFails \/ TransportLost \/ QueueOverflowed
  \/ DropStaleEvent \/ ReceiveConnected \/ ReceiveDisconnected \/ ReceiveInvalid
  \/ ReceiveHeartbeat \/ FirstHeartbeat \/ FirstHeartbeatStale \/ FirstHeartbeatFails
  \/ HeartbeatObserve \/ HeartbeatObserveFails \/ HeartbeatOnline
  \/ ReceiveSnapshot \/ ReceiveUnauthorized
  \/ WebsocketEvent
  \/ CopyBegin \/ CopyEnd

LinkSpec == LinkInit /\ [][LinkNext]_linkVars
-----------------------------------------------------------------------------
(* A heartbeat makes a profile active only while the policy's target, the  *)
(* credential in use and the stored set are of one generation: a delayed   *)
(* heartbeat never overrides a newer choice of the user.                   *)
HeartbeatRespectsUser ==
  [][~heartbeat /\ heartbeat'
     => /\ observed = Snapshot(stored)
        /\ failover.generation = stored.generation
        /\ secret.id = failover.target
        /\ ActiveId(stored') = failover.target]_linkVars

(* Authority is held only by the transport in place, and only once that    *)
(* transport's own peer was heard: nothing an earlier transport left in    *)
(* the queue can open a later one.  The link reports ONLINE only then.     *)
AuthorityIsHeard ==
  /\ authority.active =>
       /\ client # NoClient
       /\ authority.generation = transport /\ client.generation = transport
       /\ heard = client.peer
       /\ secret # NoSecret /\ secret.id = client.peer
  /\ state = "ONLINE" => authority.active

(* The UI calls a document fresh only if, at that moment, the link is      *)
(* online and the document came over the very transport in place.          *)
FreshIsLive ==
  [][reader.busy /\ ~reader'.busy /\ shown' = "fresh"
     => /\ state = "ONLINE"
        /\ document = transport
        /\ client # NoClient /\ client.generation = transport]_linkVars

(* A transport gets the authority only with a credential that is still the *)
(* stored one: pairing anew or revoking cancels an in-flight decision.     *)
EditCancelsDecision ==
  [][~authority.active /\ authority'.active
     => \E i \in FindProfile(stored, secret.id) : secret.token = stored.list[i].token]_linkVars
=============================================================================
