---------------------------- MODULE FailoverPolicy ----------------------------
(***************************************************************************)
(* The sticky failover policy of the Companion link                        *)
(* (components/companion_link/deck_companion_failover.cpp): a pure         *)
(* function from the policy's state, the observed profiles, the clock and  *)
(* one event to the next state and at most one profile to connect to.      *)
(***************************************************************************)
EXTENDS CompanionProfiles

CONSTANT OfflineWindow     \* kOfflineWindowMs, in clock units

ASSUME WindowAssumption == OfflineWindow \in Nat

NewFailover ==
  [initialized |-> FALSE, online |-> FALSE, offline |-> FALSE, round |-> FALSE,
   attempted |-> {}, generation |-> 0, since |-> 0,
   active |-> NoProfile, target |-> NoProfile]

(* A step's outcome: the new state, and the profile the link must connect  *)
(* to, NoProfile standing for DECK_COMPANION_FAILOVER_NONE.                 *)
Stay(f) == [failover |-> f, connect |-> NoProfile]

ConnectTo(f, p) ==
  [failover |-> [f EXCEPT !.target = p, !.online = FALSE], connect |-> p]

(* Descending priority, then descending last success, then stored order. *)
Preferred(list, i, j) ==
  \/ list[i].priority > list[j].priority
  \/ list[i].priority = list[j].priority /\ list[i].success > list[j].success
  \/ /\ list[i].priority = list[j].priority
     /\ list[i].success = list[j].success
     /\ i <= j

Unattempted(f, profiles) ==
  {i \in DOMAIN profiles.list : i \notin f.attempted /\ profiles.list[i].id # f.active}

BestUnattemptedRepeating(f, profiles) ==
  CHOOSE i \in {j \in DOMAIN profiles.list : profiles.list[j].id # f.active} :
    \A j \in {k \in DOMAIN profiles.list : profiles.list[k].id # f.active} :
      Preferred(profiles.list, i, j)

BestUnattempted(f, profiles) ==
  CHOOSE i \in Unattempted(f, profiles) :
    \A j \in Unattempted(f, profiles) : Preferred(profiles.list, i, j)

(* The end of a round opens a new offline window. *)
EndOfRoundLeaking(f, now) == [f EXCEPT !.round = FALSE, !.since = now]

EndOfRound(f, now) == [f EXCEPT !.round = FALSE, !.attempted = {}, !.since = now]

(* The next candidate of a round or, when all were tried, the end of the   *)
(* round and the way back to the stored active profile.                    *)
TryNext(f, profiles) ==
  LET i == BestUnattempted(f, profiles)
  IN  ConnectTo([f EXCEPT !.attempted = @ \cup {i}], profiles.list[i].id)

AdvanceRound(f, profiles, now) ==
  IF Unattempted(f, profiles) # {} THEN TryNext(f, profiles)
  ELSE IF f.target = f.active THEN Stay(EndOfRound(f, now))
  ELSE ConnectTo(EndOfRound(f, now), f.active)

(* Another generation of the profiles restarts the policy; it stays online *)
(* only if that generation is the one that made the target active.         *)
AcceptedTarget(f, profiles, event) ==
  event = "ONLINE" /\ f.target # NoProfile /\ f.target = profiles.active

ProfilesChanged(f, profiles, now, event) ==
  LET accepted == AcceptedTarget(f, profiles, event)
      fresh    == [NewFailover EXCEPT
                     !.initialized = TRUE, !.generation = profiles.generation,
                     !.online = accepted,
                     !.offline = profiles.active # NoProfile /\ ~accepted,
                     !.since = now, !.active = profiles.active]
  IN  IF profiles.active = NoProfile THEN Stay(fresh)
      ELSE IF accepted THEN Stay([fresh EXCEPT !.target = profiles.active])
      ELSE ConnectTo(fresh, profiles.active)

WindowElapsedEarly(f, now) == now >= f.since

WindowElapsed(f, now) == now >= f.since /\ now - f.since >= OfflineWindow

Advance(f, profiles, now, event) ==
  IF ~f.initialized \/ f.generation # profiles.generation
  THEN ProfilesChanged(f, profiles, now, event)
  ELSE CASE event = "ONLINE" ->
              Stay([f EXCEPT !.online = TRUE, !.offline = FALSE, !.round = FALSE,
                             !.attempted = {}])
         [] event = "TRANSPORT_FAILED" ->
              LET failed == [f EXCEPT !.online = FALSE, !.offline = TRUE,
                                      !.since = IF f.offline THEN @ ELSE now]
              IN  IF f.round THEN AdvanceRound(failed, profiles, now) ELSE Stay(failed)
         [] event = "TICK" ->
              IF f.offline /\ ~f.round /\ WindowElapsed(f, now)
              THEN AdvanceRound([f EXCEPT !.round = TRUE,
                                          !.attempted = @ \cup FindProfile(profiles, f.active)],
                                profiles, now)
              ELSE Stay(f)
         [] OTHER -> Stay(f)
=============================================================================
