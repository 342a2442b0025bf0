-------------------------- MODULE CompanionProfiles --------------------------
(***************************************************************************)
(* The set of paired Companion Profiles                                    *)
(* (components/companion_profiles/deck_companion_profiles.cpp).            *)
(*                                                                         *)
(* The set is one record of a transaction store: every operation loads it, *)
(* edits a copy and commits the copy, under one mutex, so each operator    *)
(* below is one atomic edit of the value a DurableRegister keeps.  A       *)
(* commit advances the record's generation.  Addresses and certificates    *)
(* are left out; a credential is the number of the pairing that issued it. *)
(***************************************************************************)
EXTENDS Naturals, Sequences, FiniteSets

CONSTANTS Profile,       \* profile ids: certificate fingerprints
          NoProfile,
          MaxProfiles    \* DECK_COMPANION_MAX_PROFILES

ASSUME ProfilesAssumption == NoProfile \notin Profile /\ MaxProfiles \in Nat \ {0}

(* A stored profile, and the stored set.  active is an index of list, or 0 *)
(* for kNoActiveProfile; generation 0 means that nothing is stored yet.    *)
StoredProfile == [id : Profile, priority : Nat, success : Nat, token : Nat]

EmptySet == [generation |-> 0, list |-> << >>, active |-> 0]

FindProfile(set, p) == {i \in DOMAIN set.list : set.list[i].id = p}

(* commit_set: the edited copy becomes the record of the next generation. *)
CommitSet(set) == [set EXCEPT !.generation = @ + 1]

(* The snapshot's view: the active profile by id. *)
ActiveId(set) == IF set.list = << >> THEN NoProfile ELSE set.list[set.active].id

Snapshot(set) ==
  [generation |-> set.generation, list |-> set.list, active |-> ActiveId(set)]

(* Redeeming a code for a profile already stored replaces its credential   *)
(* and keeps its priority and last success; the profile becomes active.    *)
CanPair(set, p) == FindProfile(set, p) # {} \/ Len(set.list) < MaxProfiles

Pair(set, p, token) ==
  LET found == FindProfile(set, p)
      kept  == IF found = {} THEN Len(set.list) + 1 ELSE CHOOSE i \in found : TRUE
      entry == IF found = {} THEN [id |-> p, priority |-> 0, success |-> 0, token |-> token]
                             ELSE [set.list[kept] EXCEPT !.token = token]
  IN  CommitSet([set EXCEPT !.list   = IF found = {} THEN Append(@, entry)
                                                     ELSE [@ EXCEPT ![kept] = entry],
                            !.active = kept])

SelectActive(set, i) == CommitSet([set EXCEPT !.active = i])

(* Removing a profile shifts the ones behind it; if it was the active one  *)
(* the first of the remaining profiles becomes active.                     *)
Revoke(set, i) ==
  LET rest == [j \in 1..(Len(set.list) - 1) |-> set.list[IF j < i THEN j ELSE j + 1]]
  IN  CommitSet([set EXCEPT !.list = rest,
                            !.active = IF rest = << >> THEN 0
                                       ELSE IF @ = i THEN 1
                                       ELSE IF @ > i THEN @ - 1 ELSE @])

SetPriority(set, i, priority) == CommitSet([set EXCEPT !.list[i].priority = priority])

(* activate_on_success is fenced by the generation the caller observed. *)
StaleGeneration(set, expected) == set.generation = 0 \/ set.generation # expected

NewestSuccess(old, utc) == IF utc > old THEN utc ELSE old

ActivateOnSuccess(set, i, utc) ==
  CommitSet([set EXCEPT !.active = i, !.list[i].success = NewestSuccess(@, utc)])

(* secret_for: the credential of p, if the set is still of the expected    *)
(* generation and holds p.                                                 *)
SecretAvailable(set, p, expected) ==
  ~StaleGeneration(set, expected) /\ FindProfile(set, p) # {}

SecretFor(set, p) ==
  LET i == CHOOSE i \in FindProfile(set, p) : TRUE
  IN  [id |-> p, token |-> set.list[i].token]
=============================================================================
