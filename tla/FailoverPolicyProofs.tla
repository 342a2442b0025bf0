------------------------- MODULE FailoverPolicyProofs -------------------------
(***************************************************************************)
(* Facts about the stored profile set and the failover policy, which the   *)
(* proofs about the link and about the policy's closed loop rest on: every *)
(* edit leaves a well-formed set, and the policy always answers with a     *)
(* profile of the set it was shown.                                        *)
(***************************************************************************)
EXTENDS FailoverPolicy, WellFoundedInduction, TLAPS

ProfileOrNone == Profile \cup {NoProfile}

StoredSets == [generation : Nat, list : Seq(StoredProfile), active : Nat]

Snapshots == [generation : Nat, list : Seq(StoredProfile), active : ProfileOrNone]

Failovers ==
  [initialized : BOOLEAN, online : BOOLEAN, offline : BOOLEAN, round : BOOLEAN,
   attempted : SUBSET Nat, generation : Nat, since : Nat,
   active : ProfileOrNone, target : ProfileOrNone]

Ids(list) == {list[i].id : i \in DOMAIN list}

(* A set that is not empty has an active profile. *)
WellFormed(set) == set.list # << >> => set.active \in DOMAIN set.list

(* No two entries of a set are of the same Companion. *)
Distinct(list) == \A i, j \in DOMAIN list : list[i].id = list[j].id => i = j

WellSeen(profiles) ==
  /\ (profiles.active = NoProfile) <=> (profiles.list = << >>)
  /\ profiles.active # NoProfile => profiles.active \in Ids(profiles.list)
-----------------------------------------------------------------------------
(* What every edit of a set does: it commits a well-formed set as the next *)
(* generation and keeps the profiles distinct.                             *)
EditOf(old, new) ==
  /\ new \in StoredSets /\ WellFormed(new)
  /\ new.generation = old.generation + 1
  /\ Distinct(old.list) => Distinct(new.list)

LEMMA CommitFields ==
  ASSUME NEW set \in StoredSets
  PROVE  /\ CommitSet(set) \in StoredSets
         /\ CommitSet(set).generation = set.generation + 1
         /\ CommitSet(set).list = set.list /\ CommitSet(set).active = set.active
  BY DEF CommitSet, StoredSets

(* The copy an operation edits, and its commit. *)
Copy(set, list, act) == [set EXCEPT !.list = list, !.active = act]

LEMMA CopyFields ==
  ASSUME NEW set \in StoredSets, NEW list \in Seq(StoredProfile), NEW act \in Nat
  PROVE  /\ Copy(set, list, act) \in StoredSets
         /\ Copy(set, list, act).generation = set.generation
         /\ Copy(set, list, act).list = list /\ Copy(set, list, act).active = act
  BY DEF StoredSets, Copy

LEMMA CommitCopy ==
  ASSUME NEW set \in StoredSets, NEW list \in Seq(StoredProfile), NEW act \in Nat
  PROVE  /\ CommitSet(Copy(set, list, act)) \in StoredSets
         /\ CommitSet(Copy(set, list, act)).generation = set.generation + 1
         /\ CommitSet(Copy(set, list, act)).list = list
         /\ CommitSet(Copy(set, list, act)).active = act
<1> DEFINE copy == Copy(set, list, act)
<1>1. copy \in StoredSets /\ copy.generation = set.generation /\ copy.list = list /\ copy.active = act
  BY CopyFields
<1> HIDE DEF copy
<1>2. /\ CommitSet(copy) \in StoredSets /\ CommitSet(copy).generation = copy.generation + 1
      /\ CommitSet(copy).list = copy.list /\ CommitSet(copy).active = copy.active
  BY <1>1, CommitFields
<1> QED
  BY <1>1, <1>2 DEF copy

(* Replacing an entry by one of the same Companion keeps the list's shape. *)
Replaced(list, i, entry) == [list EXCEPT ![i] = entry]

LEMMA ReplaceEntry ==
  ASSUME NEW list \in Seq(StoredProfile), NEW i \in DOMAIN list,
         NEW entry \in StoredProfile, entry.id = list[i].id
  PROVE  /\ Replaced(list, i, entry) \in Seq(StoredProfile)
         /\ DOMAIN Replaced(list, i, entry) = DOMAIN list
         /\ Replaced(list, i, entry) # << >> /\ list # << >> /\ i \in Nat
         /\ \A j \in DOMAIN list : Replaced(list, i, entry)[j].id = list[j].id
         /\ Distinct(list) => Distinct(Replaced(list, i, entry))
<1> DEFINE new == Replaced(list, i, entry)
<1>1. new \in Seq(StoredProfile) /\ DOMAIN new = DOMAIN list
  BY DEF Replaced
<1>2. \A j \in DOMAIN list : new[j].id = list[j].id
  BY DEF Replaced
<1> HIDE DEF new
<1>3. new # << >> /\ list # << >> /\ i \in Nat
  BY <1>1
<1>4. Distinct(list) => Distinct(new)
  BY <1>1, <1>2 DEF Distinct
<1> QED
  BY <1>1, <1>2, <1>3, <1>4 DEF new

(* Choosing another active profile is an edit. *)
LEMMA SelectEdits ==
  ASSUME NEW set \in StoredSets, NEW i \in DOMAIN set.list
  PROVE  EditOf(set, SelectActive(set, i))
<1>1. set.list \in Seq(StoredProfile) /\ i \in Nat
  BY DEF StoredSets
<1>2. SelectActive(set, i) = CommitSet(Copy(set, set.list, i))
  BY DEF SelectActive, CommitSet, StoredSets, Copy
<1>3. /\ SelectActive(set, i) \in StoredSets
      /\ SelectActive(set, i).generation = set.generation + 1
      /\ SelectActive(set, i).list = set.list /\ SelectActive(set, i).active = i
  BY <1>1, <1>2, CommitCopy
<1> QED
  BY <1>3 DEF EditOf, WellFormed

(* Setting a priority is an edit. *)
LEMMA PriorityEdits ==
  ASSUME NEW set \in StoredSets, WellFormed(set), NEW i \in DOMAIN set.list, NEW v \in Nat
  PROVE  EditOf(set, SetPriority(set, i, v))
<1> DEFINE entry == [set.list[i] EXCEPT !.priority = v]
           list  == Replaced(set.list, i, entry)
<1>1. set.list \in Seq(StoredProfile) /\ set.list[i] \in StoredProfile /\ set.active \in Nat
  BY DEF StoredSets
<1>2. entry \in StoredProfile /\ entry.id = set.list[i].id
  BY <1>1 DEF StoredProfile
<1>3. SetPriority(set, i, v) = CommitSet(Copy(set, list, set.active))
  BY DEF SetPriority, CommitSet, StoredSets, Copy, Replaced
<1> HIDE DEF entry
<1>4. /\ list \in Seq(StoredProfile) /\ DOMAIN list = DOMAIN set.list /\ set.list # << >>
      /\ Distinct(set.list) => Distinct(list)
  BY <1>1, <1>2, ReplaceEntry
<1> DEFINE new == SetPriority(set, i, v)
<1> HIDE DEF list, new
<1>5. /\ new \in StoredSets /\ new.generation = set.generation + 1
      /\ new.list = list /\ new.active = set.active
  <2> DEFINE act == set.active
  <2>1. new = CommitSet(Copy(set, list, act)) /\ act \in Nat
    BY <1>1, <1>3 DEF new
  <2> HIDE DEF act
  <2>2. /\ new \in StoredSets /\ new.generation = set.generation + 1
        /\ new.list = list /\ new.active = act
    BY <2>1, <1>4, CommitCopy
  <2> QED
    BY <2>2 DEF act
<1>6. EditOf(set, new)
  BY <1>4, <1>5 DEF EditOf, WellFormed
<1> QED
  BY <1>6 DEF new

(* The commit of a first heartbeat is an edit that makes the profile the   *)
(* active one.                                                             *)
LEMMA ActivateEdits ==
  ASSUME NEW set \in StoredSets, NEW i \in DOMAIN set.list, NEW utc \in Nat
  PROVE  /\ EditOf(set, ActivateOnSuccess(set, i, utc))
         /\ ActiveId(ActivateOnSuccess(set, i, utc)) = set.list[i].id
<1> DEFINE entry == [set.list[i] EXCEPT !.success = NewestSuccess(@, utc)]
           list  == Replaced(set.list, i, entry)
           new   == ActivateOnSuccess(set, i, utc)
<1>1. set.list \in Seq(StoredProfile) /\ set.list[i] \in StoredProfile
  BY DEF StoredSets
<1>2. entry \in StoredProfile /\ entry.id = set.list[i].id
  BY <1>1 DEF StoredProfile, NewestSuccess
<1>3. new = CommitSet(Copy(set, list, i))
  BY DEF ActivateOnSuccess, CommitSet, StoredSets, Copy, Replaced
<1> HIDE DEF entry
<1>4. /\ list \in Seq(StoredProfile) /\ DOMAIN list = DOMAIN set.list /\ list # << >> /\ i \in Nat
      /\ \A j \in DOMAIN set.list : list[j].id = set.list[j].id
      /\ Distinct(set.list) => Distinct(list)
  BY <1>1, <1>2, ReplaceEntry
<1> HIDE DEF list, new
<1>5. /\ new \in StoredSets /\ new.generation = set.generation + 1
      /\ new.list = list /\ new.active = i
  BY <1>3, <1>4, CommitCopy
<1>6. EditOf(set, new) /\ ActiveId(new) = set.list[i].id
  BY <1>4, <1>5 DEF EditOf, WellFormed, ActiveId
<1> QED
  BY <1>6 DEF new

(* Redeeming a code is an edit, whether the profile is new or stored. *)
LEMMA PairEdits ==
  ASSUME NEW set \in StoredSets, NEW p \in Profile, NEW token \in Nat
  PROVE  EditOf(set, Pair(set, p, token))
<1>1. set.list \in Seq(StoredProfile)
  BY DEF StoredSets
<1>2. ASSUME FindProfile(set, p) = {}
      PROVE  EditOf(set, Pair(set, p, token))
  <2> DEFINE entry == [id |-> p, priority |-> 0, success |-> 0, token |-> token]
             list  == Append(set.list, entry)
  <2>1. entry \in StoredProfile /\ entry.id = p
    BY DEF StoredProfile
  <2>2. Pair(set, p, token) = CommitSet(Copy(set, list, Len(set.list) + 1))
    BY <1>2 DEF Pair, CommitSet, StoredSets, Copy
  <2> HIDE DEF entry
  <2>3. /\ list \in Seq(StoredProfile) /\ Len(list) = Len(set.list) + 1
        /\ DOMAIN list = 1..(Len(set.list) + 1)
        /\ DOMAIN set.list = 1..Len(set.list)
        /\ \A j \in DOMAIN set.list : list[j] = set.list[j]
        /\ list[Len(set.list) + 1] = entry
    BY <1>1, <2>1
  <2> HIDE DEF list
  <2>4. ASSUME Distinct(set.list) PROVE Distinct(list)
    <3>1. \A j \in DOMAIN set.list : list[j].id # p
      BY <1>2, <2>3 DEF FindProfile
    <3> QED
      BY <3>1, <2>1, <2>3, <2>4, <1>1 DEF Distinct
  <2>5. /\ Pair(set, p, token) \in StoredSets
        /\ Pair(set, p, token).generation = set.generation + 1
        /\ Pair(set, p, token).list = list /\ Pair(set, p, token).active = Len(set.list) + 1
    <3> DEFINE act == Len(set.list) + 1
               new == Pair(set, p, token)
    <3>1. act \in Nat /\ list \in Seq(StoredProfile) /\ new = CommitSet(Copy(set, list, act))
      BY <1>1, <2>2, <2>3
    <3> HIDE DEF act, new
    <3>2. /\ new \in StoredSets /\ new.generation = set.generation + 1
          /\ new.list = list /\ new.active = act
      BY <3>1, CommitCopy
    <3> QED
      BY <3>2 DEF act, new
  <2> QED
    BY <1>1, <2>3, <2>4, <2>5 DEF EditOf, WellFormed
<1>3. ASSUME FindProfile(set, p) # {}
      PROVE  EditOf(set, Pair(set, p, token))
  <2> DEFINE kept  == CHOOSE i \in FindProfile(set, p) : TRUE
             entry == [set.list[kept] EXCEPT !.token = token]
             list  == Replaced(set.list, kept, entry)
             new   == Pair(set, p, token)
  <2>1. kept \in DOMAIN set.list
    BY <1>3 DEF FindProfile
  <2>2. new = CommitSet(Copy(set, list, kept))
    BY <1>3 DEF Pair, CommitSet, StoredSets, Copy, Replaced
  <2> HIDE DEF kept, new
  <2>3. set.list[kept] \in StoredProfile
    BY <1>1, <2>1
  <2>4. entry \in StoredProfile /\ entry.id = set.list[kept].id
    BY <2>3 DEF StoredProfile
  <2> HIDE DEF entry
  <2>5. /\ list \in Seq(StoredProfile) /\ DOMAIN list = DOMAIN set.list /\ kept \in Nat
        /\ Distinct(set.list) => Distinct(list)
    BY <1>1, <2>1, <2>4, ReplaceEntry
  <2> HIDE DEF list
  <2>6. /\ new \in StoredSets /\ new.generation = set.generation + 1
        /\ new.list = list /\ new.active = kept
    BY <2>2, <2>5, CommitCopy
  <2>7. EditOf(set, new)
    BY <2>1, <2>5, <2>6 DEF EditOf, WellFormed
  <2> QED
    BY <2>7 DEF new
<1> QED
  BY <1>2, <1>3

(* Revoking a profile is an edit: the active one stays within the set. *)
LEMMA RevokeEdits ==
  ASSUME NEW set \in StoredSets, WellFormed(set), NEW i \in DOMAIN set.list
  PROVE  EditOf(set, Revoke(set, i))
<1>1. /\ set.list \in Seq(StoredProfile) /\ i \in 1..Len(set.list) /\ Len(set.list) \in Nat
      /\ set.active \in 1..Len(set.list)
  BY DEF StoredSets, WellFormed
<1> DEFINE n    == Len(set.list) - 1
           rest == [j \in 1..n |-> set.list[IF j < i THEN j ELSE j + 1]]
           act  == IF rest = << >> THEN 0
                   ELSE IF set.active = i THEN 1
                   ELSE IF set.active > i THEN set.active - 1 ELSE set.active
<1>2. Revoke(set, i) = CommitSet(Copy(set, rest, act))
  BY DEF Revoke, CommitSet, StoredSets, Copy
<1>3. n \in Nat
  BY <1>1
<1>4. \A j \in 1..n : set.list[IF j < i THEN j ELSE j + 1] \in StoredProfile
  BY <1>1
<1>5. /\ rest \in Seq(StoredProfile) /\ Len(rest) = n /\ DOMAIN rest = 1..n
      /\ \A j \in 1..n : rest[j] = set.list[IF j < i THEN j ELSE j + 1]
  <2> HIDE DEF n
  <2>1. rest \in Seq(StoredProfile)
    BY <1>3, <1>4
  <2> QED
    BY <2>1, <1>3
<1> HIDE DEF rest
<1>6. (n = 0) <=> (rest = << >>)
  <2> HIDE DEF n
  <2> QED
    BY <1>3, <1>5
<1>7. act \in Nat /\ (rest # << >> => act \in 1..n)
  <2>1. CASE rest = << >>
    BY <2>1
  <2>2. CASE rest # << >>
    <3>1. n # 0
      BY <2>2, <1>6
    <3>2. act = IF set.active = i THEN 1
                ELSE IF set.active > i THEN set.active - 1 ELSE set.active
      BY <2>2
    <3> HIDE DEF act
    <3>3. act \in Nat /\ act \in 1..n
      <4> DEFINE a == set.active
                 m == Len(set.list)
      <4>1. /\ a \in 1..m /\ i \in 1..m /\ m \in Nat /\ m - 1 # 0
            /\ act = IF a = i THEN 1 ELSE IF a > i THEN a - 1 ELSE a
        BY <1>1, <3>1, <3>2
      <4> HIDE DEF a, m
      <4>2. act \in Nat /\ act \in 1..(m - 1)
        BY <4>1
      <4> QED
        BY <4>2 DEF m
    <3> QED
      BY <3>3
  <2> QED
    BY <2>1, <2>2
<1>8. ASSUME Distinct(set.list) PROVE Distinct(rest)
  <2> SUFFICES ASSUME NEW j \in 1..n, NEW k \in 1..n, rest[j].id = rest[k].id
               PROVE  j = k
    BY <1>5 DEF Distinct
  <2> DEFINE jj == IF j < i THEN j ELSE j + 1
             kk == IF k < i THEN k ELSE k + 1
  <2>1. jj \in DOMAIN set.list /\ kk \in DOMAIN set.list
    BY <1>1
  <2>2. set.list[jj].id = set.list[kk].id
    BY <1>5
  <2>3. jj = kk
    BY <1>8, <2>1, <2>2 DEF Distinct
  <2> QED
    BY <2>3, <1>1
<1> HIDE DEF act
<1>9. /\ Revoke(set, i) \in StoredSets /\ Revoke(set, i).generation = set.generation + 1
      /\ Revoke(set, i).list = rest /\ Revoke(set, i).active = act
  <2> DEFINE new == Revoke(set, i)
  <2>1. act \in Nat /\ rest \in Seq(StoredProfile) /\ new = CommitSet(Copy(set, rest, act))
    BY <1>2, <1>5, <1>7
  <2> HIDE DEF new
  <2>2. /\ new \in StoredSets /\ new.generation = set.generation + 1
        /\ new.list = rest /\ new.active = act
    BY <2>1, CommitCopy
  <2> QED
    BY <2>2 DEF new
<1> QED
  BY <1>5, <1>7, <1>8, <1>9 DEF EditOf, WellFormed
-----------------------------------------------------------------------------
(* The snapshot of a well-formed set names an active profile of the set,   *)
(* and none only if the set is empty.                                      *)
LEMMA SnapshotIsSeen ==
  ASSUME NEW set \in StoredSets, WellFormed(set)
  PROVE  /\ Snapshot(set) \in Snapshots /\ WellSeen(Snapshot(set))
         /\ Snapshot(set).generation = set.generation
         /\ Snapshot(set).list = set.list
<1>1. set.list \in Seq(StoredProfile)
  BY DEF StoredSets
<1>2. CASE set.list = << >>
  BY <1>1, <1>2, ProfilesAssumption
  DEF Snapshot, Snapshots, StoredSets, WellSeen, ActiveId, ProfileOrNone
<1>3. CASE set.list # << >>
  <2>1. set.active \in DOMAIN set.list /\ set.list[set.active] \in StoredProfile
    BY <1>1, <1>3 DEF WellFormed
  <2>2. ActiveId(set) \in Profile /\ ActiveId(set) \in Ids(set.list)
    BY <1>3, <2>1 DEF ActiveId, StoredProfile, Ids
  <2> QED
    BY <1>1, <1>3, <2>2, ProfilesAssumption
    DEF Snapshot, Snapshots, StoredSets, WellSeen, ProfileOrNone
<1> QED
  BY <1>2, <1>3

-----------------------------------------------------------------------------
(* A set of numbers that is not empty has a least element. *)
LEMMA LeastElement ==
  ASSUME NEW T \in SUBSET Nat, T # {}
  PROVE  \E m \in T : \A k \in T : m <= k
<1> DEFINE R == OpToRel(<, Nat)
<1>1. IsWellFoundedOn(R, Nat)
  BY NatLessThanWellFounded
<1>2. \A x, y \in Nat : <<x, y>> \in R <=> x < y
  BY DEF OpToRel
<1> HIDE DEF R
<1>3. PICK m \in T : \A k \in T : ~(<<k, m>> \in R)
  BY <1>1, WFMin, Zenon
<1>4. ASSUME NEW k \in T PROVE m <= k
  <2>1. k \in Nat /\ m \in Nat
    OBVIOUS
  <2>2. ~(k < m)
    BY <1>2, <1>3, <2>1, Zenon
  <2> QED
    BY <2>1, <2>2
<1> QED
  BY <1>4

(* The order of preference is total and transitive. *)
LEMMA PreferredOrder ==
  ASSUME NEW list \in Seq(StoredProfile)
  PROVE  /\ \A i, j \in DOMAIN list : Preferred(list, i, j) \/ Preferred(list, j, i)
         /\ \A i, j, k \in DOMAIN list :
              (Preferred(list, i, j) /\ Preferred(list, j, k)) => Preferred(list, i, k)
<1>1. \A i \in DOMAIN list : i \in Nat /\ list[i].priority \in Nat /\ list[i].success \in Nat
  <2>1. \A i \in DOMAIN list : i \in Nat /\ list[i] \in StoredProfile
    OBVIOUS
  <2> QED
    BY <2>1 DEF StoredProfile
<1>2. \A i, j \in DOMAIN list : Preferred(list, i, j) \/ Preferred(list, j, i)
  BY <1>1 DEF Preferred
<1>3. \A i, j, k \in DOMAIN list :
        (Preferred(list, i, j) /\ Preferred(list, j, k)) => Preferred(list, i, k)
  BY <1>1 DEF Preferred
<1> QED
  BY <1>2, <1>3

(* Among some entries of a list there is one that is preferred to all: the *)
(* choice of best_unattempted is defined.                                  *)
Best(list, S, i) == i \in S /\ \A j \in S : Preferred(list, i, j)

LEMMA BestExists ==
  ASSUME NEW list \in Seq(StoredProfile), NEW S \in SUBSET DOMAIN list, S # {}
  PROVE  \E i \in S : Best(list, S, i)
<1> DEFINE Upto(m) == {j \in S : j <= m}
           Bad     == {m \in Nat : Upto(m) # {} /\ \A i \in S : ~Best(list, Upto(m), i)}
<1>1. S \subseteq Nat /\ (\A j \in S : j >= 1 /\ j <= Len(list)) /\ Len(list) \in Nat
  OBVIOUS
<1>2. Upto(Len(list)) = S
  BY <1>1
<1>3. SUFFICES ASSUME \A i \in S : ~Best(list, S, i) PROVE FALSE
  OBVIOUS
<1> HIDE DEF Upto
<1>4. Len(list) \in Bad
  BY <1>1, <1>2, <1>3
<1>5. PICK m \in Bad : \A k \in Bad : m <= k
  <2>1. Bad \in SUBSET Nat /\ Bad # {}
    BY <1>4
  <2> HIDE DEF Bad
  <2> QED
    BY <2>1, LeastElement
<1>6. m \in Nat /\ Upto(m) # {} /\ \A i \in S : ~Best(list, Upto(m), i)
  BY <1>5
<1> USE DEF Upto
<1>7. m # 0
  BY <1>1, <1>6
<1>8. m - 1 \in Nat /\ m - 1 \notin Bad
  BY <1>5, <1>6, <1>7
<1>9. m \in S
  <2>1. SUFFICES ASSUME m \notin S PROVE FALSE
    OBVIOUS
  <2>2. Upto(m) = Upto(m - 1)
    BY <1>1, <1>6, <2>1
  <2> QED
    BY <1>6, <1>8, <2>2
<1>10. Upto(m) = Upto(m - 1) \cup {m}
  BY <1>1, <1>6, <1>9
<1>11. m \in DOMAIN list /\ Preferred(list, m, m)
  BY <1>9, PreferredOrder
<1>12. CASE Upto(m - 1) = {}
  <2>1. Best(list, Upto(m), m)
    BY <1>10, <1>11, <1>12 DEF Best
  <2> QED
    BY <2>1, <1>6, <1>9
<1>13. CASE Upto(m - 1) # {}
  <2>1. PICK b \in S : Best(list, Upto(m - 1), b)
    BY <1>8, <1>13
  <2>2. b \in DOMAIN list /\ b \in Upto(m - 1) /\ \A j \in Upto(m - 1) : j \in DOMAIN list /\ Preferred(list, b, j)
    BY <2>1 DEF Best
  <2>3. CASE Preferred(list, b, m)
    <3>1. Best(list, Upto(m), b)
      BY <1>10, <2>2, <2>3 DEF Best
    <3> QED
      BY <3>1, <1>6
  <2>4. CASE Preferred(list, m, b)
    <3>1. Best(list, Upto(m), m)
      BY <1>10, <1>11, <2>2, <2>4, PreferredOrder DEF Best
    <3> QED
      BY <3>1, <1>6, <1>9
  <2> QED
    BY <2>2, <2>3, <2>4, <1>11, PreferredOrder
<1> QED
  BY <1>12, <1>13

-----------------------------------------------------------------------------
(* best_unattempted returns an entry that was not tried in the round, is   *)
(* not the active one, and is preferred to all the others of that kind.    *)
LEMMA BestIsPreferred ==
  ASSUME NEW f, NEW profiles \in Snapshots, Unattempted(f, profiles) # {}
  PROVE  Best(profiles.list, Unattempted(f, profiles), BestUnattempted(f, profiles))
<1>1. profiles.list \in Seq(StoredProfile)
  BY DEF Snapshots
<1>2. Unattempted(f, profiles) \in SUBSET DOMAIN profiles.list
  BY DEF Unattempted
<1>3. \E i \in Unattempted(f, profiles) : Best(profiles.list, Unattempted(f, profiles), i)
  BY <1>1, <1>2, BestExists
<1> QED
  BY <1>3, Zenon DEF Best, BestUnattempted

(* What the policy may answer: a profile of the set it was shown becomes   *)
(* the target and is connected to, or the target stays; without an active  *)
(* profile there is no target.                                             *)
Answers(f, profiles, r) ==
  /\ r.failover \in Failovers /\ r.connect \in ProfileOrNone
  /\ r.failover.initialized
  /\ r.failover.generation = profiles.generation
  /\ r.failover.active = profiles.active
  /\ r.connect # NoProfile =>
       r.connect \in Ids(profiles.list) /\ r.failover.target = r.connect
  /\ r.connect = NoProfile =>
       r.failover.target = f.target \/ profiles.active = NoProfile

LEMMA ConnectFields ==
  ASSUME NEW f \in Failovers, NEW p \in ProfileOrNone
  PROVE  LET r == ConnectTo(f, p)
         IN  /\ r.failover \in Failovers /\ r.connect = p /\ r.failover.target = p
             /\ r.failover.initialized = f.initialized /\ r.failover.offline = f.offline
             /\ r.failover.round = f.round /\ r.failover.attempted = f.attempted
             /\ r.failover.generation = f.generation /\ r.failover.active = f.active
             /\ r.failover.since = f.since
  BY DEF ConnectTo, Failovers

LEMMA EndFields ==
  ASSUME NEW f \in Failovers, NEW now \in Nat
  PROVE  LET g == EndOfRound(f, now)
         IN  /\ g \in Failovers /\ g.round = FALSE /\ g.attempted = {} /\ g.since = now
             /\ g.initialized = f.initialized /\ g.offline = f.offline
             /\ g.generation = f.generation /\ g.active = f.active /\ g.target = f.target
  BY DEF EndOfRound, Failovers

(* A round goes on with the best entry left and remembers it, or ends.     *)
Continues(f, profiles, r) ==
  \E i \in Unattempted(f, profiles) :
    /\ Best(profiles.list, Unattempted(f, profiles), i)
    /\ r.connect = profiles.list[i].id
    /\ r.failover.attempted = f.attempted \cup {i}
    /\ r.failover.round = f.round

LEMMA RoundAnswers ==
  ASSUME NEW f \in Failovers, NEW profiles \in Snapshots, NEW now \in Nat, WellSeen(profiles),
         f.initialized, f.generation = profiles.generation, f.active = profiles.active
  PROVE  LET r == AdvanceRound(f, profiles, now)
         IN  /\ Answers(f, profiles, r)
             /\ r.failover.offline = f.offline
             /\ Continues(f, profiles, r) \/ r.failover.round = FALSE
<1> DEFINE r == AdvanceRound(f, profiles, now)
<1>1. profiles.list \in Seq(StoredProfile) /\ profiles.active \in ProfileOrNone
  BY DEF Snapshots
<1>2. CASE Unattempted(f, profiles) # {}
  <2> DEFINE i == BestUnattempted(f, profiles)
             g == [f EXCEPT !.attempted = @ \cup {i}]
             p == profiles.list[i].id
  <2>1. r = ConnectTo(g, p)
    BY <1>2 DEF AdvanceRound, TryNext
  <2>2. Best(profiles.list, Unattempted(f, profiles), i)
    BY <1>2, BestIsPreferred
  <2> HIDE DEF i
  <2>3. i \in DOMAIN profiles.list /\ i \in Unattempted(f, profiles)
    BY <2>2 DEF Best, Unattempted
  <2>4. i \in Nat /\ profiles.list[i] \in StoredProfile
    BY <1>1, <2>3
  <2>5. p \in Profile /\ p \in Ids(profiles.list) /\ p \in ProfileOrNone /\ p # NoProfile
    BY <2>3, <2>4, ProfilesAssumption DEF StoredProfile, Ids, ProfileOrNone
  <2> HIDE DEF p, r
  <2>6. /\ g \in Failovers /\ g.attempted = f.attempted \cup {i}
        /\ g.initialized = f.initialized /\ g.round = f.round /\ g.offline = f.offline
        /\ g.generation = f.generation /\ g.active = f.active
    BY <2>4 DEF Failovers
  <2> HIDE DEF g
  <2>7. /\ r.failover \in Failovers /\ r.connect = p /\ r.failover.target = p
        /\ r.failover.initialized = f.initialized /\ r.failover.offline = f.offline
        /\ r.failover.round = f.round /\ r.failover.attempted = f.attempted \cup {i}
        /\ r.failover.generation = f.generation /\ r.failover.active = f.active
    BY <2>1, <2>5, <2>6, ConnectFields
  <2>8. Answers(f, profiles, r)
    BY <2>5, <2>7 DEF Answers
  <2>9. Continues(f, profiles, r)
    BY <2>2, <2>3, <2>7 DEF Continues, p
  <2> QED
    BY <2>7, <2>8, <2>9 DEF r
<1>3. CASE Unattempted(f, profiles) = {}
  <2> DEFINE g == EndOfRound(f, now)
  <2>1. /\ g \in Failovers /\ g.round = FALSE
        /\ g.initialized = f.initialized /\ g.offline = f.offline
        /\ g.generation = f.generation /\ g.active = f.active /\ g.target = f.target
    BY EndFields
  <2> HIDE DEF g
  <2>2. CASE f.target = f.active
    <3>1. r = [failover |-> g, connect |-> NoProfile]
      BY <1>3, <2>2 DEF AdvanceRound, Stay, g
    <3>2. r.failover = g /\ r.connect = NoProfile
      BY <3>1
    <3> HIDE DEF r
    <3>3. Answers(f, profiles, r)
      BY <2>1, <3>2 DEF Answers, ProfileOrNone
    <3> QED
      BY <2>1, <3>2, <3>3 DEF r
  <2>3. CASE f.target # f.active
    <3>1. r = ConnectTo(g, profiles.active)
      BY <1>3, <2>3 DEF AdvanceRound, g
    <3> HIDE DEF r
    <3>2. /\ r.failover \in Failovers /\ r.connect = profiles.active
          /\ r.failover.target = profiles.active
          /\ r.failover.initialized = f.initialized /\ r.failover.offline = f.offline
          /\ r.failover.round = FALSE
          /\ r.failover.generation = f.generation /\ r.failover.active = f.active
      BY <1>1, <2>1, <3>1, ConnectFields
    <3>3. Answers(f, profiles, r)
      BY <1>1, <3>2 DEF Answers, WellSeen
    <3> QED
      BY <3>2, <3>3 DEF r
  <2> QED
    BY <2>2, <2>3
<1> QED
  BY <1>2, <1>3

(* Another generation of the profiles: the policy starts over on the       *)
(* active profile, unless it is the target that became active.             *)
LEMMA ChangedAnswers ==
  ASSUME NEW f \in Failovers, NEW profiles \in Snapshots, NEW now \in Nat, WellSeen(profiles),
         NEW event
  PROVE  LET r == ProfilesChanged(f, profiles, now, event)
         IN  /\ Answers(f, profiles, r)
             /\ r.failover.round = FALSE
             /\ \/ r.connect = profiles.active
                \/ AcceptedTarget(f, profiles, event) /\ r.connect = NoProfile
<1> DEFINE accepted == AcceptedTarget(f, profiles, event)
           fresh == [NewFailover EXCEPT
                       !.initialized = TRUE, !.generation = profiles.generation,
                       !.online = accepted,
                       !.offline = profiles.active # NoProfile /\ ~accepted,
                       !.since = now, !.active = profiles.active]
           r == ProfilesChanged(f, profiles, now, event)
<1>1. profiles.generation \in Nat /\ profiles.active \in ProfileOrNone
  BY DEF Snapshots
<1>2. accepted \in BOOLEAN
  BY DEF AcceptedTarget
<1>3. /\ fresh \in Failovers /\ fresh.initialized = TRUE /\ fresh.round = FALSE
      /\ fresh.generation = profiles.generation /\ fresh.active = profiles.active
      /\ fresh.target = NoProfile
  <2> HIDE DEF accepted
  <2> QED
    BY <1>1, <1>2 DEF Failovers, NewFailover, ProfileOrNone
<1>4. r = IF profiles.active = NoProfile THEN [failover |-> fresh, connect |-> NoProfile]
          ELSE IF accepted
               THEN [failover |-> [fresh EXCEPT !.target = profiles.active], connect |-> NoProfile]
          ELSE ConnectTo(fresh, profiles.active)
  BY DEF ProfilesChanged, Stay
<1> HIDE DEF fresh, r
<1>5. CASE profiles.active = NoProfile
  <2>1. r.failover = fresh /\ r.connect = NoProfile
    BY <1>4, <1>5
  <2> QED
    BY <1>1, <1>3, <1>5, <2>1 DEF Answers, r
<1>6. CASE profiles.active # NoProfile /\ accepted
  <2>1. r.failover = [fresh EXCEPT !.target = profiles.active] /\ r.connect = NoProfile
    BY <1>4, <1>6
  <2>2. /\ r.failover \in Failovers /\ r.failover.initialized = TRUE /\ r.failover.round = FALSE
        /\ r.failover.generation = profiles.generation /\ r.failover.active = profiles.active
        /\ r.failover.target = profiles.active
    BY <1>1, <1>3, <2>1 DEF Failovers
  <2>3. f.target = profiles.active
    BY <1>6 DEF AcceptedTarget
  <2>4. Answers(f, profiles, r)
    BY <2>1, <2>2, <2>3 DEF Answers, ProfileOrNone
  <2> QED
    BY <1>6, <2>1, <2>2, <2>4 DEF r
<1>7. CASE profiles.active # NoProfile /\ ~accepted
  <2>1. r = ConnectTo(fresh, profiles.active)
    BY <1>4, <1>7
  <2>2. /\ r.failover \in Failovers /\ r.connect = profiles.active
        /\ r.failover.target = profiles.active
        /\ r.failover.initialized = TRUE /\ r.failover.round = FALSE
        /\ r.failover.generation = profiles.generation /\ r.failover.active = profiles.active
    BY <1>1, <1>3, <2>1, ConnectFields
  <2>3. Answers(f, profiles, r)
    BY <1>1, <1>7, <2>2 DEF Answers, WellSeen
  <2> QED
    BY <2>2, <2>3 DEF r
<1> QED
  BY <1>5, <1>6, <1>7

(* A step of the policy on profiles it already knows leaves a round as it  *)
(* is, ends it, continues it or, on a tick after the window, begins one.   *)
Waits(f, r) ==
  /\ r.connect = NoProfile /\ r.failover.target = f.target
  /\ r.failover.round = f.round /\ r.failover.attempted = f.attempted

LEMMA KnownAnswers ==
  ASSUME NEW f \in Failovers, NEW profiles \in Snapshots, NEW now \in Nat, WellSeen(profiles),
         NEW event, f.initialized, f.generation = profiles.generation, f.active = profiles.active
  PROVE  LET r == Advance(f, profiles, now, event)
         IN  /\ Answers(f, profiles, r)
             /\ event = "ONLINE" =>
                  r.connect = NoProfile /\ r.failover.target = f.target /\ r.failover.round = FALSE
             /\ event = "TRANSPORT_FAILED" => r.failover.offline
             /\ event = "TICK" => r.failover.offline = f.offline
             /\ event = "PROFILES_OBSERVED" => r.failover = f /\ r.connect = NoProfile
             /\ r.failover.target # f.target =>
                  \/ event = "TRANSPORT_FAILED" /\ f.round
                  \/ event = "TICK" /\ f.offline /\ ~f.round /\ WindowElapsed(f, now)
             /\ \/ r.failover.round = FALSE
                \/ Waits(f, r)
                \/ Continues(f, profiles, r) /\ f.round
                \/ /\ ~f.round /\ f.offline /\ event = "TICK"
                   /\ \E g \in Failovers : /\ g.active = f.active /\ g.round
                                           /\ Continues(g, profiles, r)
<1> DEFINE r == Advance(f, profiles, now, event)
<1>1. CASE event = "ONLINE"
  <2> DEFINE g == [f EXCEPT !.online = TRUE, !.offline = FALSE, !.round = FALSE, !.attempted = {}]
  <2>1. r = [failover |-> g, connect |-> NoProfile]
    BY <1>1 DEF Advance, Stay
  <2>2. /\ g \in Failovers /\ g.round = FALSE
        /\ g.initialized = f.initialized /\ g.target = f.target
        /\ g.generation = f.generation /\ g.active = f.active
    BY DEF Failovers
  <2>3. r.failover = g /\ r.connect = NoProfile
    BY <2>1
  <2> HIDE DEF g, r
  <2>4. Answers(f, profiles, r)
    BY <2>2, <2>3 DEF Answers, ProfileOrNone
  <2> QED
    BY <1>1, <2>2, <2>3, <2>4 DEF r
<1>2. CASE event = "TRANSPORT_FAILED"
  <2> DEFINE g == [f EXCEPT !.online = FALSE, !.offline = TRUE,
                            !.since = IF f.offline THEN @ ELSE now]
  <2>1. r = IF f.round THEN AdvanceRound(g, profiles, now) ELSE [failover |-> g, connect |-> NoProfile]
    BY <1>2 DEF Advance, Stay
  <2>2. /\ g \in Failovers /\ g.round = f.round /\ g.offline = TRUE
        /\ g.initialized = f.initialized /\ g.target = f.target /\ g.attempted = f.attempted
        /\ g.generation = f.generation /\ g.active = f.active
    BY DEF Failovers
  <2> HIDE DEF g, r
  <2>3. CASE f.round
    <3>1. r = AdvanceRound(g, profiles, now)
      BY <2>1, <2>3
    <3>2. /\ Answers(g, profiles, r) /\ r.failover.offline
          /\ Continues(g, profiles, r) \/ r.failover.round = FALSE
      BY <2>2, <3>1, RoundAnswers
    <3>3. Unattempted(g, profiles) = Unattempted(f, profiles)
      BY <2>2 DEF Unattempted
    <3>4. Answers(f, profiles, r)
      BY <2>2, <3>2 DEF Answers
    <3>5. Continues(g, profiles, r) => Continues(f, profiles, r)
      BY <2>2, <3>3 DEF Continues
    <3> QED
      BY <1>2, <2>3, <3>2, <3>4, <3>5 DEF r
  <2>4. CASE ~f.round
    <3>1. r.failover = g /\ r.connect = NoProfile
      BY <2>1, <2>4
    <3>2. Answers(f, profiles, r)
      BY <2>2, <3>1 DEF Answers, ProfileOrNone
    <3> QED
      BY <1>2, <2>2, <3>1, <3>2 DEF r, Waits
  <2> QED
    BY <2>3, <2>4
<1>3. CASE event = "TICK"
  <2> DEFINE g == [f EXCEPT !.round = TRUE, !.attempted = @ \cup FindProfile(profiles, f.active)]
  <2>1. r = IF f.offline /\ ~f.round /\ WindowElapsed(f, now) THEN AdvanceRound(g, profiles, now)
            ELSE [failover |-> f, connect |-> NoProfile]
    BY <1>3 DEF Advance, Stay
  <2>2. FindProfile(profiles, f.active) \subseteq Nat
    BY DEF FindProfile, Snapshots
  <2>3. /\ g \in Failovers /\ g.round = TRUE /\ g.offline = f.offline
        /\ g.initialized = f.initialized /\ g.target = f.target
        /\ g.generation = f.generation /\ g.active = f.active
    BY <2>2 DEF Failovers
  <2> HIDE DEF g, r
  <2>4. CASE f.offline /\ ~f.round /\ WindowElapsed(f, now)
    <3>1. r = AdvanceRound(g, profiles, now)
      BY <2>1, <2>4
    <3>2. /\ Answers(g, profiles, r) /\ r.failover.offline = g.offline
          /\ Continues(g, profiles, r) \/ r.failover.round = FALSE
      BY <2>3, <3>1, RoundAnswers
    <3>3. Answers(f, profiles, r)
      BY <2>3, <3>2 DEF Answers
    <3> QED
      BY <1>3, <2>3, <2>4, <3>2, <3>3 DEF r
  <2>5. CASE ~(f.offline /\ ~f.round /\ WindowElapsed(f, now))
    <3>1. r.failover = f /\ r.connect = NoProfile
      BY <2>1, <2>5
    <3>2. Answers(f, profiles, r)
      BY <3>1 DEF Answers, ProfileOrNone
    <3> QED
      BY <1>3, <3>1, <3>2 DEF r, Waits
  <2> QED
    BY <2>4, <2>5
<1>4. CASE event \notin {"ONLINE", "TRANSPORT_FAILED", "TICK"}
  <2>1. r = [failover |-> f, connect |-> NoProfile]
    BY <1>4 DEF Advance, Stay
  <2>2. r.failover = f /\ r.connect = NoProfile
    BY <2>1
  <2> HIDE DEF r
  <2>3. Answers(f, profiles, r)
    BY <2>2 DEF Answers, ProfileOrNone
  <2> QED
    BY <1>4, <2>2, <2>3 DEF r, Waits
<1> QED
  BY <1>1, <1>2, <1>3, <1>4

(* So every step of the policy answers with a profile it was shown. *)
LEMMA AdvanceAnswers ==
  ASSUME NEW f \in Failovers, NEW profiles \in Snapshots, NEW now \in Nat, WellSeen(profiles),
         NEW event, (f.initialized /\ f.generation = profiles.generation) => f.active = profiles.active
  PROVE  Answers(f, profiles, Advance(f, profiles, now, event))
<1>1. CASE ~f.initialized \/ f.generation # profiles.generation
  <2>1. Advance(f, profiles, now, event) = ProfilesChanged(f, profiles, now, event)
    BY <1>1 DEF Advance
  <2> QED
    BY <2>1, ChangedAnswers
<1>2. CASE f.initialized /\ f.generation = profiles.generation
  BY <1>2, KnownAnswers
<1> QED
  BY <1>1, <1>2
=============================================================================
