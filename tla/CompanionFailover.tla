-------------------------- MODULE CompanionFailover --------------------------
(***************************************************************************)
(* The failover policy in a closed loop with the profiles it reads and the *)
(* transports it asks for: which Companion the Deck ends up on, and when.  *)
(*                                                                         *)
(* Time is kept relative to the policy's offline_since stamp, which the    *)
(* policy only ever subtracts from the clock: age is now - since, counted  *)
(* up to the offline window and back at 0 whenever the policy stamps.      *)
(***************************************************************************)
EXTENDS FailoverPolicy

CONSTANTS Utc,               \* heartbeat times a Companion may send
          Priority,          \* priorities the recovery page may set
          MaxGeneration      \* last generation before the store's counter wraps

ASSUME FailoverAssumption ==
  Utc \subseteq Nat /\ Priority \subseteq Nat /\ MaxGeneration \in Nat \ {0, 1}

VARIABLES stored,            \* the stored profile set
          failover,          \* deck_companion_failover_t, since relative to age
          age,
          link,              \* the transport to failover.target
          reachable,         \* Companions that answer at the moment
          tried              \* candidates connected to in this round, in order

vars == <<stored, failover, age, link, reachable, tried>>

LinkStates == {"down", "probing", "up"}

TypeOK ==
  /\ stored.generation \in 0..MaxGeneration
  /\ stored.list \in Seq(StoredProfile) /\ Len(stored.list) <= MaxProfiles
  /\ stored.active \in 0..Len(stored.list)
  /\ failover.attempted \subseteq DOMAIN stored.list
  /\ failover.target \in Profile \cup {NoProfile}
  /\ age \in 0..OfflineWindow
  /\ link \in LinkStates
  /\ reachable \subseteq Profile
  /\ tried \in Seq(Profile)

(* The store's generation wraps to 1 after its largest value. *)
Wrapped(set) ==
  [set EXCEPT !.generation = IF @ > MaxGeneration THEN 1 ELSE @]

Init ==
  /\ stored = EmptySet
  /\ failover = NewFailover
  /\ age = 0
  /\ link = "down"
  /\ reachable \in SUBSET Profile
  /\ tried = << >>

(* The link hands one event to the policy and acts on its answer: a        *)
(* connection to another target starts a new transport.                    *)
Deliver(set, event, linkAfter) ==
  LET r == Advance([failover EXCEPT !.since = 0], Snapshot(set), age, event)
  IN  /\ failover' = [r.failover EXCEPT !.since = 0]
      /\ age' = IF r.failover.since = age THEN 0 ELSE age
      /\ link' = IF r.connect # NoProfile THEN "probing" ELSE linkAfter
      /\ tried' = IF ~r.failover.round THEN << >>
                  ELSE IF r.connect # NoProfile THEN Append(tried, r.connect)
                  ELSE tried

(* The user edits the profiles on the recovery page, and the link's next   *)
(* poll observes the new generation.                                       *)
Edit(set) ==
  /\ stored' = Wrapped(set)
  /\ Deliver(stored', "PROFILES_OBSERVED", IF set.list = << >> THEN "down" ELSE link)
  /\ UNCHANGED reachable

EditPair == \E p \in Profile : CanPair(stored, p) /\ Edit(Pair(stored, p, 0))

EditSelect == \E i \in DOMAIN stored.list : Edit(SelectActive(stored, i))

EditRevoke == \E i \in DOMAIN stored.list : Edit(Revoke(stored, i))

EditPriority ==
  \E i \in DOMAIN stored.list, v \in Priority :
    stored.list[i].priority # v /\ Edit(SetPriority(stored, i, v))

UserEdit == EditPair \/ EditSelect \/ EditRevoke \/ EditPriority

(* The retry timer opens the transport to the target again. *)
Retry ==
  /\ link = "down" /\ failover.target # NoProfile
  /\ link' = "probing"
  /\ UNCHANGED <<stored, failover, age, reachable, tried>>

(* The first valid heartbeat of the target: it is committed as the active  *)
(* profile and the policy hears that it is online.                         *)
FirstHeartbeat ==
  /\ link = "probing" /\ failover.target \in reachable
  /\ \E i \in FindProfile(stored, failover.target), utc \in Utc :
       stored' = Wrapped(ActivateOnSuccess(stored, i, utc))
  /\ Deliver(stored', "ONLINE", "up")
  /\ UNCHANGED reachable

(* The transport fails: the Companion is away, or the network drops it. *)
TransportFailed ==
  /\ link \in {"probing", "up"}
  /\ Deliver(stored, "TRANSPORT_FAILED", "down")
  /\ UNCHANGED <<stored, reachable>>

Tick ==
  /\ failover.initialized
  /\ Deliver(stored, "TICK", link)
  /\ UNCHANGED <<stored, reachable>>

Elapse ==
  /\ age < OfflineWindow
  /\ age' = age + 1
  /\ UNCHANGED <<stored, failover, link, reachable, tried>>

(* Companions come and go: external. *)
Reach ==
  /\ \E p \in Profile :
       reachable' = IF p \in reachable THEN reachable \ {p} ELSE reachable \cup {p}
  /\ UNCHANGED <<stored, failover, age, link, tried>>

Next == UserEdit \/ Retry \/ FirstHeartbeat \/ TransportFailed \/ Tick \/ Elapse \/ Reach

(* The link task polls forever and time passes; a Companion that keeps     *)
(* answering gets its heartbeat through before the transport fails, and a  *)
(* transport to one that is away does fail.                                *)
Fairness ==
  /\ WF_vars(Retry) /\ WF_vars(Tick) /\ WF_vars(Elapse)
  /\ SF_vars(FirstHeartbeat)
  /\ WF_vars(TransportFailed /\ failover.target \notin reachable)

Spec == Init /\ [][Next]_vars /\ Fairness
-----------------------------------------------------------------------------
(* A round goes through the other profiles in the order of preference and  *)
(* connects to none of them twice (best_unattempted, attempted_mask).      *)
RoundInOrder ==
  LET index(p) == CHOOSE i \in FindProfile(stored, p) : TRUE
  IN  /\ \A k \in DOMAIN tried : tried[k] # failover.active
      /\ \A k, l \in DOMAIN tried :
           k < l => /\ tried[k] # tried[l]
                    /\ Preferred(stored.list, index(tried[k]), index(tried[l]))

(* The active profile changes without a user's edit only after a full      *)
(* offline window: the link leaves its target for another one on its own   *)
(* only when a round is under way or the window has elapsed.               *)
Sticky ==
  [][/\ stored'.generation = stored.generation
     /\ failover'.target # failover.target
     => failover.offline /\ (failover.round \/ age = OfflineWindow)]_vars

(* A Companion that is paired and stays reachable while every other one    *)
(* stays away is connected again and again, however often the network      *)
(* drops the transport, once the user stops editing the profiles.          *)
(* (Reach changes one Companion at a time, so a single reachable one that  *)
(* is the only one at every moment is always the same.)                    *)
EventuallyOnline ==
  /\ <>[][~UserEdit]_vars
  /\ <>[](\E p \in Profile : reachable = {p} /\ FindProfile(stored, p) # {})
  => []<>(link = "up" /\ failover.target \in reachable)
=============================================================================
