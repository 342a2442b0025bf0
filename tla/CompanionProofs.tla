---------------------------- MODULE CompanionProofs ----------------------------
(***************************************************************************)
(* Proofs about the Companion: the pairing store, the device hub, the      *)
(* provider definitions and their credentials, the installation, the Web   *)
(* TX Lease and the serial ring, each for any value of its bounds: any     *)
(* Decks, identities, code numbers, browsers and observers, any number of  *)
(* codes, tokens, requests, frames, messages under way, lost links, failed *)
(* writes and restarts.                                                    *)
(***************************************************************************)
EXTENDS MCCompanion, Sequences, WellFoundedInduction, TLAPS

-----------------------------------------------------------------------------
\* The pairing store.

\* What pairing.json may hold.
Content == [codes : SUBSET Codes, trusts : [Devices -> Trusts \union {NoTrust}]]

\* The codes of one content are told apart by their serials, none of them has
\* bought a credential, and no code issued later has one of their serials.
CodesAreFresh(s, last_issued, spent) ==
    /\ \A c \in s.codes : c.serial <= last_issued /\ c.serial \notin spent
    /\ \A c, e \in s.codes : c.serial = e.serial => c = e

\* The tokens of one content are told apart, none of them is dead, and no token
\* drawn later is equal to one of them.
TokensAreFresh(s, last_token, ended) ==
    /\ \A d \in Devices : s.trusts[d].token <= last_token /\ s.trusts[d].token \notin ended
    /\ \A d, e \in Devices :
         (s.trusts[d].token = s.trusts[e].token /\ d # e) => s.trusts[d].token = 0

Fresh(s) ==
    s \in Content /\ CodesAreFresh(s, issued, granted) /\ TokensAreFresh(s, tokens, dead)

\* Memory follows the file, and whatever a crash may leave behind is as fresh as
\* what is in memory: what was granted and what died is in none of it.
PairInv ==
    /\ issued \in Nat /\ tokens \in Nat /\ starts \in Nat
    /\ file.now \in file.crash
    /\ Running => state = file.now
    /\ \A s \in file.crash : Fresh(s)
    /\ granted \subseteq 1..issued /\ dead \subseteq 1..tokens
    /\ ~twice

LEMMA EmptyIsFresh == Init => Fresh(emptyFileStoreState)
<1> SUFFICES ASSUME Init PROVE Fresh(emptyFileStoreState)
  OBVIOUS
<1>1. emptyFileStoreState \in Content
  BY DEF emptyFileStoreState, Content
<1>2. \A d \in Devices : emptyFileStoreState.trusts[d].token = 0
  BY DEF emptyFileStoreState, NoTrust
<1>3. emptyFileStoreState.codes = {}
  BY DEF emptyFileStoreState
<1> QED
  BY <1>1, <1>2, <1>3 DEF Fresh, CodesAreFresh, TokensAreFresh, Init

LEMMA PairInitially == Init => PairInv
<1> SUFFICES ASSUME Init PROVE PairInv
  OBVIOUS
<1>1. Fresh(emptyFileStoreState)
  BY EmptyIsFresh
<1> QED
  BY <1>1 DEF Init, PairInv, File, Running

\* What a replacement of the file leaves to find: the old content, the new one,
\* or both; only a reported success rules the old ones out.
LEMMA Replaced ==
    ASSUME NEW f, NEW v, f.now \in f.crash, NEW r \in Replace(f, v)
    PROVE  /\ r.file.now \in r.file.crash
           /\ r.file.now = IF r.committed THEN v ELSE f.now
           /\ \A s \in r.file.crash : s = v \/ (s \in f.crash /\ ~r.ok)
           /\ r.ok => r.committed
<1>1. CASE r = [file |-> f, committed |-> FALSE, ok |-> FALSE]
  BY <1>1
<1>2. CASE r = [file |-> [now |-> v, crash |-> f.crash \union {v}],
                committed |-> TRUE, ok |-> FALSE]
  BY <1>2
<1>3. CASE r = [file |-> File(v), committed |-> TRUE, ok |-> FALSE]
  BY <1>3 DEF File
<1>4. CASE r = [file |-> File(v), committed |-> TRUE, ok |-> TRUE]
  BY <1>4 DEF File
<1> QED
  BY <1>1, <1>2, <1>3, <1>4 DEF Replace

\* FileStore.update with a fresh state: the serials, tokens, credentials and dead
\* tokens it was made for are those recorded, and the last two only on success.
LEMMA UpdateStep ==
    ASSUME PairInv, Running, UNCHANGED pepper,
           NEW next, next \in [codes : SUBSET Codes, trusts : [Devices -> Trusts \union {NoTrust}]],
           NEW r \in Replace(file, next), Update(next, r),
           issued' \in Nat, issued <= issued', tokens' \in Nat, tokens <= tokens',
           starts' = starts,
           CodesAreFresh(next, issued', granted'), TokensAreFresh(next, tokens', dead'),
           ~r.ok => UNCHANGED <<granted, dead>>,
           granted' \subseteq 1..issued', dead' \subseteq 1..tokens', ~twice'
    PROVE  PairInv'
<1>1. /\ r.file.now \in r.file.crash
      /\ r.file.now = IF r.committed THEN next ELSE file.now
      /\ \A s \in r.file.crash : s = next \/ (s \in file.crash /\ ~r.ok)
  BY Replaced DEF PairInv
<1>2. file' = r.file /\ state' = IF r.committed THEN next ELSE state
  BY DEF Update
<1>3. ASSUME NEW s \in file'.crash PROVE Fresh(s)'
  <2>1. CASE s = next
    BY <2>1 DEF Fresh, Content, Codes, Trusts, NoTrust
  <2>2. CASE s \in file.crash /\ ~r.ok
    <3>1. s \in Content /\ CodesAreFresh(s, issued, granted) /\ TokensAreFresh(s, tokens, dead)
      BY <2>2 DEF PairInv, Fresh
    <3>2. granted' = granted /\ dead' = dead
      BY <2>2
    <3>3. CodesAreFresh(s, issued', granted')
      <4>1. \A c \in s.codes : c.serial \in Nat
        BY <3>1 DEF Content, Codes
      <4> QED
        BY <3>1, <3>2, <4>1 DEF CodesAreFresh, PairInv
    <3>4. TokensAreFresh(s, tokens', dead')
      <4>1. \A d \in Devices : s.trusts[d].token \in Nat
        BY <3>1 DEF Content, Trusts, NoTrust
      <4> QED
        BY <3>1, <3>2, <4>1 DEF TokensAreFresh, PairInv
    <3> QED
      BY <3>1, <3>3, <3>4 DEF Fresh, Content, Codes, Trusts, NoTrust
  <2> QED
    BY <1>1, <1>2, <2>1, <2>2
<1>4. Running' => state' = file'.now
  BY <1>1, <1>2 DEF PairInv, Running
<1> QED
  BY <1>1, <1>2, <1>3, <1>4 DEF PairInv

\* The steps that touch neither the file nor what was granted.
LEMMA PairQuietStep ==
    ASSUME PairInv, Start \/ Crash \/ Tick \/ UNCHANGED vars
    PROVE  PairInv'
<1>1. /\ UNCHANGED <<issued, tokens, granted, twice, dead>>
      /\ starts' \in Nat
      /\ file'.now \in file'.crash /\ file'.crash \subseteq file.crash
      /\ Running' => state' = file'.now
  <2>1. CASE Start
    BY <2>1 DEF Start, PairInv, Running
  <2>2. CASE Crash
    BY <2>2 DEF Crash, PairInv, Running, File
  <2>3. CASE Tick \/ UNCHANGED vars
    BY <2>3 DEF Tick, vars, PairInv, Running
  <2> QED
    BY <2>1, <2>2, <2>3
<1>2. ASSUME NEW s \in file'.crash PROVE Fresh(s)'
  <2>1. Fresh(s)
    BY <1>1 DEF PairInv
  <2> QED
    BY <1>1, <2>1 DEF Fresh, Content, Codes, Trusts, NoTrust
<1> QED
  BY <1>1, <1>2 DEF PairInv

\* In a running process memory is one of the fresh contents.
LEMMA MemoryIsFresh ==
    ASSUME PairInv, Running
    PROVE  /\ state \in Content
           /\ CodesAreFresh(state, issued, granted) /\ TokensAreFresh(state, tokens, dead)
BY DEF PairInv, Fresh

LEMMA IssueStep ==
    ASSUME PairInv, NEW n \in Numbers, NEW d \in Devices \union {None}, Issue(n, d)
    PROVE  PairInv'
<1> DEFINE kept == Live(state.codes)
           code == [serial |-> issued + 1, number |-> n, pepper |-> pepper,
                    device |-> d, expires |-> now + CodeTTL]
           next == [state EXCEPT !.codes = kept \union {code}]
<1>1. /\ Running /\ issued' = issued + 1
      /\ UNCHANGED <<now, pepper, starts, tokens, granted, twice, dead>>
      /\ \E r \in Replace(file, next) : Update(next, r)
  BY DEF Issue
<1>2. PICK r \in Replace(file, next) : Update(next, r)
  BY <1>1
<1>3. /\ state \in Content
      /\ CodesAreFresh(state, issued, granted) /\ TokensAreFresh(state, tokens, dead)
  BY <1>1, MemoryIsFresh
<1>4. next.codes = kept \union {code} /\ next.trusts = state.trusts
  BY <1>3 DEF Content
<1>5. next \in [codes : SUBSET Codes, trusts : [Devices -> Trusts \union {NoTrust}]]
  BY <1>2, <1>3, <1>4 DEF Update, validateFileStoreState, Content
<1>6. CodesAreFresh(next, issued', granted')
  <2>1. \A c \in kept : c \in state.codes /\ c.serial \in Nat
    BY <1>3 DEF Live, Content, Codes
  <2>2. code.serial = issued + 1
    OBVIOUS
  <2>3. issued \in Nat
    BY DEF PairInv
  <2>4. issued + 1 \notin granted
    BY <2>3 DEF PairInv
  <2> QED
    BY <1>1, <1>3, <1>4, <2>1, <2>2, <2>3, <2>4 DEF CodesAreFresh
<1>7. TokensAreFresh(next, tokens', dead')
  BY <1>1, <1>3, <1>4 DEF TokensAreFresh
<1>8. /\ issued' \in Nat /\ issued <= issued' /\ tokens' \in Nat /\ tokens <= tokens'
      /\ granted' \subseteq 1..issued' /\ dead' \subseteq 1..tokens' /\ ~twice'
  BY <1>1 DEF PairInv
<1> HIDE DEF next
<1> QED
  BY <1>1, <1>2, <1>5, <1>6, <1>7, <1>8, UpdateStep

\* The code spent and the token replaced leave the store with the replacement
\* that is reported.
LEMMA RedeemStep ==
    ASSUME PairInv, NEW n \in Numbers, NEW d \in Devices, NEW i \in Identities, Redeem(n, d, i)
    PROVE  PairInv'
<1>1. /\ Running /\ tokens' = tokens + 1
      /\ UNCHANGED <<now, pepper, starts, issued>>
  BY DEF Redeem
<1>0. PICK c \in state.codes : \E r \in Replace(file, Consumed(c, d, i)) :
        /\ Update(Consumed(c, d, i), r)
        /\ IF r.ok
           THEN /\ granted' = granted \union {c.serial}
                /\ twice' = (twice \/ c.serial \in granted)
                /\ dead' = dead \union ({state.trusts[d].token} \ {0})
           ELSE UNCHANGED <<granted, twice, dead>>
  BY DEF Redeem
<1>2. PICK r \in Replace(file, Consumed(c, d, i)) :
        /\ Update(Consumed(c, d, i), r)
        /\ IF r.ok
           THEN /\ granted' = granted \union {c.serial}
                /\ twice' = (twice \/ c.serial \in granted)
                /\ dead' = dead \union ({state.trusts[d].token} \ {0})
           ELSE UNCHANGED <<granted, twice, dead>>
  BY <1>0
<1> DEFINE next == Consumed(c, d, i)
           new == [identity |-> i, token |-> tokens + 1]
<1>3. /\ state \in Content
      /\ CodesAreFresh(state, issued, granted) /\ TokensAreFresh(state, tokens, dead)
  BY <1>1, MemoryIsFresh
<1>4. next.codes = state.codes \ {c} /\ next.trusts = [state.trusts EXCEPT ![d] = new]
  BY DEF Consumed
<1>5. next \in [codes : SUBSET Codes, trusts : [Devices -> Trusts \union {NoTrust}]]
  BY <1>2, <1>4 DEF Update, validateFileStoreState, Consumed
<1>6. /\ c.serial \in Nat \ {0} /\ c.serial <= issued /\ c.serial \notin granted
      /\ \A e \in next.codes : e.serial # c.serial
  BY <1>3, <1>4 DEF Content, Codes, CodesAreFresh
<1>7. /\ \A e \in Devices : state.trusts[e].token \in Nat /\ state.trusts[e].token <= tokens
      /\ next.trusts[d].token = tokens + 1
      /\ \A e \in Devices : e # d => next.trusts[e] = state.trusts[e]
  <2>1. state.trusts \in [Devices -> Trusts \union {NoTrust}]
    BY <1>3 DEF Content
  <2>2. \A x \in Trusts \union {NoTrust} : x.token \in Nat
    BY DEF Trusts, NoTrust
  <2>3. \A e \in Devices : state.trusts[e].token <= tokens
    BY <1>3 DEF TokensAreFresh
  <2>4. new.token = tokens + 1
    OBVIOUS
  <2> QED
    BY <1>4, <2>1, <2>2, <2>3, <2>4
<1>8. tokens \in Nat /\ issued \in Nat /\ granted \subseteq 1..issued /\ dead \subseteq 1..tokens /\ ~twice
  BY DEF PairInv
<1> HIDE DEF next
<1>9. CodesAreFresh(next, issued', granted')
  BY <1>1, <1>2, <1>3, <1>4, <1>6 DEF CodesAreFresh
<1>10. TokensAreFresh(next, tokens', dead')
  <2>1. \A e \in Devices : e # d /\ state.trusts[e].token = state.trusts[d].token
            => state.trusts[e].token = 0
    BY <1>3 DEF TokensAreFresh
  <2>2. \A e \in Devices : state.trusts[e].token \notin dead
    BY <1>3 DEF TokensAreFresh
  <2>3. dead' \subseteq dead \union ({state.trusts[d].token} \ {0})
    BY <1>2
  <2>4. \A e \in Devices : next.trusts[e].token <= tokens'
    BY <1>1, <1>7, <1>8
  <2>5. \A e \in Devices : next.trusts[e].token \notin dead'
    BY <1>7, <1>8, <2>1, <2>2, <2>3
  <2>6. \A a, b \in Devices : next.trusts[a].token = next.trusts[b].token /\ a # b
            => next.trusts[a].token = 0
    BY <1>3, <1>7, <1>8 DEF TokensAreFresh
  <2> QED
    BY <2>4, <2>5, <2>6 DEF TokensAreFresh
<1>11. /\ issued' \in Nat /\ issued <= issued' /\ tokens' \in Nat /\ tokens <= tokens'
       /\ granted' \subseteq 1..issued' /\ dead' \subseteq 1..tokens' /\ ~twice'
  <2>1. granted' \subseteq granted \union {c.serial} /\ ~twice'
    BY <1>2, <1>6, <1>8
  <2>2. dead' \subseteq dead \union ({state.trusts[d].token} \ {0})
    BY <1>2
  <2>3. state.trusts[d].token \in Nat /\ state.trusts[d].token <= tokens
    BY <1>7
  <2> QED
    BY <1>1, <1>6, <1>8, <2>1, <2>2, <2>3
<1> QED
  BY <1>1, <1>2, <1>5, <1>9, <1>10, <1>11, UpdateStep DEF next

LEMMA RevokeStep ==
    ASSUME PairInv, NEW d \in Devices, Revoke(d)
    PROVE  PairInv'
<1> DEFINE next == [state EXCEPT !.trusts[d] = NoTrust]
<1>1. /\ Running /\ d \in Trusted(state)
      /\ UNCHANGED <<now, pepper, starts, issued, tokens, granted, twice>>
  BY DEF Revoke
<1>2. PICK r \in Replace(file, next) :
        /\ Update(next, r)
        /\ dead' = IF r.ok THEN dead \union {state.trusts[d].token} ELSE dead
  BY DEF Revoke
<1>3. /\ state \in Content
      /\ CodesAreFresh(state, issued, granted) /\ TokensAreFresh(state, tokens, dead)
  BY <1>1, MemoryIsFresh
<1>4. next.codes = state.codes /\ next.trusts = [state.trusts EXCEPT ![d] = NoTrust]
  BY <1>3 DEF Content
<1>5. next \in [codes : SUBSET Codes, trusts : [Devices -> Trusts \union {NoTrust}]]
  BY <1>2, <1>3, <1>4 DEF Update, validateFileStoreState, Content
<1>6. /\ state.trusts[d].token \in Nat \ {0} /\ state.trusts[d].token <= tokens
      /\ next.trusts[d].token = 0
      /\ \A e \in Devices : e # d => next.trusts[e] = state.trusts[e]
  <2>1. state.trusts \in [Devices -> Trusts \union {NoTrust}]
    BY <1>3 DEF Content
  <2>2. state.trusts[d] \in Trusts
    BY <1>1, <2>1 DEF Trusted
  <2>3. state.trusts[d].token <= tokens
    BY <1>3 DEF TokensAreFresh
  <2>4. NoTrust.token = 0
    BY DEF NoTrust
  <2>5. state.trusts[d].token \in Nat \ {0}
    BY <2>2 DEF Trusts
  <2> QED
    BY <1>4, <2>1, <2>3, <2>4, <2>5
<1>7. tokens \in Nat /\ issued \in Nat /\ granted \subseteq 1..issued /\ dead \subseteq 1..tokens /\ ~twice
  BY DEF PairInv
<1>8. dead' \subseteq dead \union {state.trusts[d].token} /\ (~r.ok => UNCHANGED dead)
  BY <1>2
<1> HIDE DEF next
<1>9. CodesAreFresh(next, issued', granted')
  BY <1>1, <1>3, <1>4 DEF CodesAreFresh
<1>10. TokensAreFresh(next, tokens', dead')
  <2>1. \A e \in Devices : e # d => state.trusts[e].token # state.trusts[d].token
    BY <1>3, <1>6 DEF TokensAreFresh
  <2>2. \A e \in Devices : state.trusts[e].token \notin dead
    BY <1>3 DEF TokensAreFresh
  <2>3. \A e \in Devices : next.trusts[e].token <= tokens'
    BY <1>1, <1>3, <1>6, <1>7 DEF TokensAreFresh
  <2>4. 0 \notin dead'
    BY <1>6, <1>7, <1>8
  <2>5. \A e \in Devices : next.trusts[e].token \notin dead'
    BY <1>6, <1>8, <2>1, <2>2, <2>4
  <2>6. \A a, b \in Devices : next.trusts[a].token = next.trusts[b].token /\ a # b
            => next.trusts[a].token = 0
    BY <1>3, <1>6 DEF TokensAreFresh
  <2> QED
    BY <2>3, <2>5, <2>6 DEF TokensAreFresh
<1>11. /\ issued' \in Nat /\ issued <= issued' /\ tokens' \in Nat /\ tokens <= tokens'
       /\ granted' \subseteq 1..issued' /\ dead' \subseteq 1..tokens' /\ ~twice'
  BY <1>1, <1>6, <1>7, <1>8
<1> QED
  BY <1>1, <1>2, <1>5, <1>9, <1>10, <1>11, UpdateStep

LEMMA PairInductive == PairInv /\ [Next]_vars => PairInv'
BY PairQuietStep, IssueStep, RedeemStep, RevokeStep DEF Next

LEMMA PairSteps == MCSpec => Init /\ [][Next]_vars
<1>1. MCInit => Init
  BY DEF MCInit
<1>2. [MCNext]_<<part, vars, hubVars, leaseVars, secretVars, installVars, ringVars>> => [Next]_vars
  BY DEF MCNext
<1> QED
  BY <1>1, <1>2, PTL DEF MCSpec

LEMMA PairInvariant == MCSpec => []PairInv
BY PairSteps, PairInitially, PairInductive, PTL

\* A step that leaves a Deck trusted with another identity spends an open code.
LEMMA IdentityMoves ==
    ASSUME PairInv, [Next]_vars, NEW d \in Devices,
           Running, Running', d \in Trusted(state), state'.trusts[d] # NoTrust,
           state.trusts[d].identity # state'.trusts[d].identity
    PROVE  \E c \in state.codes \ state'.codes : c.device = None
<1>0. state \in Content
  BY MemoryIsFresh
<1>1. ~Start /\ ~Crash /\ ~Tick /\ ~UNCHANGED vars
  BY DEF Start, Crash, Tick, vars, Running
<1>2. ASSUME NEW n \in Numbers, NEW e \in Devices \union {None}, Issue(n, e)
      PROVE  FALSE
  BY <1>0, <1>2 DEF Issue, Update, Content
<1>3. ASSUME NEW e \in Devices, Revoke(e) PROVE FALSE
  <2>1. state'.trusts \in {state.trusts, [state.trusts EXCEPT ![e] = NoTrust]}
    BY <1>0, <1>3 DEF Revoke, Update, Content
  <2> QED
    BY <1>0, <2>1 DEF Content
<1>4. ASSUME NEW n \in Numbers, NEW e \in Devices, NEW i \in Identities, Redeem(n, e, i)
      PROVE  \E c \in state.codes \ state'.codes : c.device = None
  <2>1. PICK c \in state.codes :
          /\ Redeemable(c, e, i)
          /\ \E r \in Replace(file, Consumed(c, e, i)) : Update(Consumed(c, e, i), r)
    BY <1>4 DEF Redeem
  <2>2. state' \in {state, Consumed(c, e, i)}
    BY <2>1 DEF Update
  <2>3. state' = Consumed(c, e, i)
    BY <2>2
  <2>4. /\ state'.codes = state.codes \ {c}
        /\ state'.trusts = [state.trusts EXCEPT ![e] = [identity |-> i, token |-> tokens + 1]]
    BY <2>3 DEF Consumed
  <2>5. d = e /\ state'.trusts[d].identity = i
    BY <1>0, <2>4 DEF Content
  <2>6. c.device = None
    BY <2>1, <2>5 DEF Redeemable
  <2> QED
    BY <2>4, <2>6
<1> QED
  BY <1>1, <1>2, <1>3, <1>4 DEF Next

\* A pairing code buys at most one credential, a token whose revocation or
\* replacement was reported is never accepted again, and only an open code moves
\* a Deck's trust to another identity: through failed writes, renames undone by
\* a crash and restarts (ConsumeCode, RevokeTrust, Redeem).
THEOREM TrustStaysEarned == MCSpec => TrustIsEarned
<1>1. PairInv => CodeBuysOnce
  BY DEF PairInv, CodeBuysOnce
<1>2. PairInv => DeadStaysDead
  <2> SUFFICES ASSUME PairInv, NEW d \in Devices, NEW t \in dead, NEW i \in Identities,
                      Verify(d, t, i)
               PROVE  FALSE
    BY DEF DeadStaysDead
  <2>1. Running /\ state.trusts[d].token = t
    BY DEF Verify
  <2> QED
    BY <2>1, MemoryIsFresh DEF TokensAreFresh
<1>3. PairInv /\ [Next]_vars =>
      [\A d \in Devices :
          (/\ Running /\ Running'
           /\ d \in Trusted(state) /\ state'.trusts[d] # NoTrust
           /\ state.trusts[d].identity # state'.trusts[d].identity)
          => \E c \in state.codes \ state'.codes : c.device = None]_vars
  BY IdentityMoves
<1> QED
  BY <1>1, <1>2, <1>3, PairSteps, PairInvariant, PTL DEF TrustIsEarned, RotationKeepsIdentity

-----------------------------------------------------------------------------
\* The Device Link hub.

HubTyped ==
    /\ None \notin Conns
    /\ phase \in [Conns -> Hub!Phases]
    /\ device \in [Conns -> Devices \union {None}]
    /\ sessions \in [Devices -> Conns \union {None}]
    /\ disconnecting \in [Devices -> Conns \union {None}]
    /\ view \in [Devices -> Conns \union {None}]
    /\ DOMAIN written = Conns /\ DOMAIN copy = Conns /\ DOMAIN token = Conns

\* The connection holds the Deck's reservation.
Holding == {"reserved"} \union Hub!Serving

Notified(c) == c \in signal \/ c \in unsignalled

\* A connection that holds its Deck is the one in hub.sessions, one that tells
\* the serial hub goodbye is the one in hub.disconnecting, and a connection whose
\* document is not the latest, or will not be once it is written, is notified.
Attended(c) ==
    /\ phase[c] # "free" => device[c] \in Devices
    /\ phase[c] \in Holding => sessions[device[c]] = c
    /\ phase[c] \in {"removed", "told"} => disconnecting[device[c]] = c
    /\ phase[c] \in Hub!Serving => view[device[c]] = c
    /\ phase[c] \in {"loop", "ticked"} /\ Hub!Stale(c) => Notified(c)
    /\ phase[c] = "writing" /\ document # 0 /\ copy[c] # generation => Notified(c)

\* Nobody holds a Deck while an earlier connection's goodbye is under way.
Exclusive == \A d \in Devices : disconnecting[d] # None => sessions[d] = None

HubInv == HubTyped /\ Exclusive /\ \A c \in Conns : Attended(c)

LEMMA HubInitially == (None \notin Conns /\ Hub!Init) => HubInv
BY DEF Hub!Init, HubInv, HubTyped, Exclusive, Attended, Hub!Phases, Holding, Hub!Serving

\* A connection that a step of somebody else does not touch.
LEMMA AttendedKept ==
    ASSUME NEW x \in Conns, Attended(x),
           phase'[x] = phase[x], device'[x] = device[x],
           written'[x] = written[x], copy'[x] = copy[x],
           phase[x] \in Holding => sessions'[device[x]] = sessions[device[x]],
           phase[x] \in {"removed", "told"} =>
               disconnecting'[device[x]] = disconnecting[device[x]],
           phase[x] \in Hub!Serving => view'[device[x]] = view[device[x]],
           \/ generation' = generation /\ document' \in {document, 0}
                                       /\ (Notified(x) => Notified(x)')
           \/ phase[x] \in Hub!Serving => Notified(x)'
    PROVE  Attended(x)'
<1>1. (phase[x] \in {"loop", "ticked"} /\ Hub!Stale(x))' => Notified(x)'
  BY DEF Attended, Hub!Stale, Hub!Serving
<1>2. (phase[x] = "writing" /\ document # 0 /\ copy[x] # generation)' => Notified(x)'
  BY DEF Attended, Hub!Serving
<1>3. /\ phase'[x] # "free" => device'[x] \in Devices
      /\ phase'[x] \in Holding => sessions'[device'[x]] = x
      /\ phase'[x] \in {"removed", "told"} => disconnecting'[device'[x]] = x
      /\ phase'[x] \in Hub!Serving => view'[device'[x]] = x
  BY DEF Attended
<1> QED
  BY <1>1, <1>2, <1>3 DEF Attended

\* Two connections do not hold the same Deck, and none holds one whose
\* goodbye is under way.
LEMMA OneHolder ==
    ASSUME HubInv, NEW c \in Conns, NEW x \in Conns, x # c
    PROVE  /\ (phase[c] \in Holding \/ sessions[device[c]] = c) /\ phase[x] \in Holding
                => device[x] # device[c]
           /\ phase[c] \in {"removed", "told"} /\ phase[x] \in Holding => device[x] # device[c]
           /\ phase[c] \in {"removed", "told"} /\ phase[x] \in {"removed", "told"}
                => device[x] # device[c]
           /\ device[c] \in Devices /\ sessions[device[c]] = c /\ phase[x] \in {"removed", "told"}
                => device[x] # device[c]
<1>1. Attended(c) /\ Attended(x) /\ Exclusive
  BY DEF HubInv
<1>2. c # None /\ x # None
  BY DEF HubInv, HubTyped
<1>3. Holding \subseteq Hub!Phases /\ "free" \notin Holding
  BY DEF Holding, Hub!Serving, Hub!Phases
<1> QED
  BY <1>1, <1>2, <1>3 DEF Attended, Exclusive

\* The steps of a connection that end in its select loop, or leave it.
LEMMA ServeStep ==
    ASSUME HubInv, NEW c \in Conns,
           \/ Hub!HelloFails(c) \/ Hub!Greet(c) \/ Hub!Fetch(c) \/ Hub!WriteSnapshot(c) \/ Hub!Wake(c)
           \/ Hub!Tick(c) \/ Hub!Done(c) \/ Hub!Drop(c) \/ Hub!AcceptDiagnostics(c)
    PROVE  HubInv'
<1>0. /\ UNCHANGED <<device, sessions, disconnecting, view, generation, document, unsignalled,
                     token>>
      /\ signal' \in {signal, signal \ {c}}
  BY DEF Hub!HelloFails, Hub!Greet, Hub!Fetch, Hub!WriteSnapshot, Hub!Wake, Hub!Tick, Hub!Done, Hub!Drop,
         Hub!AcceptDiagnostics, Hub!mapVars, Hub!connVars
<1>1. HubTyped /\ Attended(c) /\ Exclusive
  BY DEF HubInv
<1>2. \E p \in Hub!Phases : phase' = [phase EXCEPT ![c] = p]
  BY <1>1 DEF Hub!HelloFails, Hub!Greet, Hub!Fetch, Hub!WriteSnapshot, Hub!Wake, Hub!Tick, Hub!Done, Hub!Drop,
              Hub!AcceptDiagnostics, Hub!connVars, Hub!Goto, Hub!ReadLatest, Hub!Phases, HubTyped
<1>3. /\ DOMAIN written' = Conns /\ DOMAIN copy' = Conns
      /\ \A x \in Conns \ {c} : written'[x] = written[x] /\ copy'[x] = copy[x]
  BY <1>1 DEF Hub!HelloFails, Hub!Greet, Hub!Fetch, Hub!WriteSnapshot, Hub!Wake, Hub!Tick, Hub!Done, Hub!Drop,
              Hub!AcceptDiagnostics, Hub!connVars, Hub!ReadLatest, HubTyped
<1>4. HubTyped' /\ Exclusive'
  BY <1>0, <1>1, <1>2, <1>3 DEF HubTyped, Exclusive
<1>5. ASSUME NEW x \in Conns, x # c PROVE Attended(x)'
  <2>1. phase'[x] = phase[x] /\ Attended(x)
    BY <1>1, <1>2, <1>5 DEF HubTyped, HubInv
  <2>2. Notified(x) => Notified(x)'
    BY <1>0, <1>5 DEF Notified
  <2> QED
    BY <1>0, <1>3, <1>5, <2>1, <2>2, AttendedKept
<1>6. Attended(c)'
  <2>0. ASSUME NEW p \in Hub!Phases, phase' = [phase EXCEPT ![c] = p],
               phase[c] \in Holding, p \in Hub!Serving \union {"leaving"},
               phase[c] = "reserved" => p = "leaving",
               p \in {"loop", "ticked"} /\ Hub!Stale(c)' => Notified(c)',
               p = "writing" => copy'[c] = generation
        PROVE  Attended(c)'
    BY <1>0, <1>1, <2>0 DEF Attended, Holding, Hub!Serving, HubTyped
  <2>1. CASE Hub!HelloFails(c)
    <3>1. phase'[c] = "leaving" /\ phase[c] = "hello"
      BY <1>1, <2>1 DEF Hub!HelloFails, Hub!Goto, HubTyped
    <3> QED
      BY <1>0, <1>1, <3>1 DEF Attended, Holding, Hub!Serving
  <2>2. CASE Hub!Greet(c)
    <3>1. /\ phase[c] \in {"greeting", "ticked"} /\ UNCHANGED <<signal, written, copy>>
          /\ phase' \in {[phase EXCEPT ![c] = "leaving"],
                         [phase EXCEPT ![c] = IF phase[c] = "greeting" THEN "fetch" ELSE "loop"]}
      BY <2>2 DEF Hub!Greet, Hub!Goto
    <3>2. Hub!Stale(c)' = Hub!Stale(c) /\ Notified(c)' = Notified(c)
      BY <1>0, <3>1 DEF Hub!Stale, Notified
    <3> QED
      BY <1>1, <2>0, <3>1, <3>2 DEF Attended, Holding, Hub!Serving, Hub!Phases
  <2>3. CASE Hub!ReadLatest(c) /\ phase[c] \in {"fetch", "loop"} /\ UNCHANGED written
    <3>1. CASE Hub!Stale(c) /\ copy' = [copy EXCEPT ![c] = generation]
               /\ phase' = [phase EXCEPT ![c] = "writing"]
      BY <1>1, <2>0, <2>3, <3>1 DEF Holding, Hub!Serving, Hub!Phases, HubTyped
    <3>2. CASE ~Hub!Stale(c) /\ phase' = [phase EXCEPT ![c] = "loop"]
      <4>1. ~Hub!Stale(c)'
        BY <1>0, <2>3, <3>2 DEF Hub!Stale
      <4> QED
        BY <2>0, <2>3, <3>2, <4>1 DEF Holding, Hub!Serving, Hub!Phases
    <3> QED
      BY <2>3, <3>1, <3>2 DEF Hub!ReadLatest, Hub!Goto
  <2>4. CASE Hub!Fetch(c) \/ Hub!Wake(c)
    BY <2>3, <2>4 DEF Hub!Fetch, Hub!Wake
  <2>5. CASE Hub!WriteSnapshot(c)
    <3>0. phase[c] = "writing" /\ UNCHANGED signal
      BY <2>5 DEF Hub!WriteSnapshot, Hub!mapVars
    <3>1. CASE phase' = [phase EXCEPT ![c] = "leaving"]
      BY <2>0, <3>0, <3>1 DEF Holding, Hub!Serving, Hub!Phases
    <3>2. CASE /\ phase' = [phase EXCEPT ![c] = "loop"]
               /\ written' = [written EXCEPT ![c] = copy[c]]
      <4>1. Hub!Stale(c)' => document # 0 /\ copy[c] # generation
        BY <1>0, <1>1, <3>2 DEF Hub!Stale, HubTyped
      <4>2. Notified(c) => Notified(c)'
        BY <1>0, <3>0 DEF Notified
      <4> QED
        BY <1>1, <2>0, <3>0, <3>2, <4>1, <4>2 DEF Attended, Holding, Hub!Serving, Hub!Phases
    <3> QED
      BY <2>5, <3>1, <3>2 DEF Hub!WriteSnapshot, Hub!Goto
  <2>6. CASE Hub!Tick(c) \/ Hub!Done(c) \/ Hub!Drop(c)
    <3>1. /\ phase[c] = "loop" /\ UNCHANGED <<signal, written, copy>>
          /\ phase' \in {[phase EXCEPT ![c] = "leaving"], [phase EXCEPT ![c] = "ticked"]}
      BY <2>6 DEF Hub!Tick, Hub!Done, Hub!Drop, Hub!Goto, Hub!mapVars
    <3>2. Hub!Stale(c)' = Hub!Stale(c) /\ Notified(c)' = Notified(c)
      BY <1>0, <3>1 DEF Hub!Stale, Notified
    <3> QED
      BY <1>1, <2>0, <3>1, <3>2 DEF Attended, Holding, Hub!Serving, Hub!Phases
  <2>7. CASE Hub!AcceptDiagnostics(c)
    <3>1. UNCHANGED <<phase, signal, written, copy>>
      BY <2>7 DEF Hub!AcceptDiagnostics, Hub!connVars
    <3>2. Hub!Stale(c)' = Hub!Stale(c) /\ Notified(c)' = Notified(c)
      BY <1>0, <3>1 DEF Hub!Stale, Notified
    <3> QED
      BY <1>0, <1>1, <3>1, <3>2, AttendedKept
  <2> QED
    BY <2>1, <2>2, <2>4, <2>5, <2>6, <2>7
<1> QED
  BY <1>4, <1>5, <1>6 DEF HubInv

\* The steps that take a Deck, tell of it and give it back.
LEMMA HoldStep ==
    ASSUME HubInv, NEW c \in Conns,
           \/ Hub!AddConnection(c) \/ Hub!Reserve(c) \/ Hub!FirstState(c) \/ Hub!State(c)
           \/ Hub!Remove(c) \/ Hub!OnDisconnect(c) \/ Hub!Release(c)
    PROVE  HubInv'
<1>1. HubTyped /\ Attended(c) /\ Exclusive /\ c # None
  BY DEF HubInv, HubTyped
<1>2. CASE Hub!AddConnection(c)
  <2>0. /\ UNCHANGED <<sessions, disconnecting, view, generation, document, unsignalled, signal>>
        /\ phase[c] = "verified"
    BY <1>2 DEF Hub!AddConnection
  <2>1. /\ \E p \in {"hello", "free"} : phase' = [phase EXCEPT ![c] = p]
        /\ phase'[c] = "hello" => device'[c] = device[c]
        /\ device' \in {device, [device EXCEPT ![c] = None]}
        /\ DOMAIN written' = Conns /\ DOMAIN copy' = Conns /\ DOMAIN token' = Conns
        /\ \A x \in Conns \ {c} : written'[x] = written[x] /\ copy'[x] = copy[x]
    BY <1>1, <1>2 DEF Hub!AddConnection, Hub!Return, Hub!Goto, HubTyped
  <2>2. HubTyped' /\ Exclusive'
    BY <1>1, <2>0, <2>1 DEF HubTyped, Exclusive, Hub!Phases
  <2>3. ASSUME NEW x \in Conns, x # c PROVE Attended(x)'
    <3>1. phase'[x] = phase[x] /\ device'[x] = device[x] /\ Attended(x)
      BY <1>1, <2>1, <2>3 DEF HubTyped, HubInv
    <3>2. Notified(x) => Notified(x)'
      BY <2>0 DEF Notified
    <3> QED
      BY <2>0, <2>1, <2>3, <3>1, <3>2, AttendedKept
  <2>4. Attended(c)'
    BY <1>1, <2>0, <2>1 DEF Attended, Holding, Hub!Serving, HubTyped
  <2> QED
    BY <2>2, <2>3, <2>4 DEF HubInv
<1>3. CASE Hub!Reserve(c)
  <2>0. /\ UNCHANGED <<disconnecting, view, generation, document, unsignalled, device,
                       written, copy, token>>
        /\ phase[c] = "hello" /\ phase' = [phase EXCEPT ![c] = "reserved"]
        /\ sessions' = [sessions EXCEPT ![device[c]] = c] /\ signal' = signal \ {c}
        /\ sessions[device[c]] = None /\ disconnecting[device[c]] = None
        /\ device[c] \in Devices
    BY <1>1, <1>3 DEF Hub!Reserve, Hub!Goto, Hub!MayReserve, Attended
  <2>1. HubTyped' /\ Exclusive'
    BY <1>1, <2>0 DEF HubTyped, Exclusive, Hub!Phases
  <2>2. ASSUME NEW x \in Conns, x # c PROVE Attended(x)'
    <3>1. phase'[x] = phase[x] /\ Attended(x)
      BY <1>1, <2>0, <2>2 DEF HubTyped, HubInv
    <3>2. phase[x] \in Holding => device[x] # device[c] /\ device[x] \in Devices
      BY <1>1, <2>0, <3>1 DEF HubTyped, Attended, Holding, Hub!Serving
    <3>3. phase[x] \in Holding => sessions'[device[x]] = sessions[device[x]]
      BY <1>1, <2>0, <3>2 DEF HubTyped
    <3>4. Notified(x) => Notified(x)'
      BY <2>0, <2>2 DEF Notified
    <3> QED
      BY <2>0, <3>1, <3>3, <3>4, AttendedKept
  <2>3. Attended(c)'
    BY <1>1, <2>0 DEF Attended, Holding, Hub!Serving, HubTyped
  <2> QED
    BY <2>1, <2>2, <2>3 DEF HubInv
<1>4. CASE Hub!FirstState(c) \/ Hub!State(c)
  <2>0. /\ UNCHANGED <<sessions, disconnecting, generation, document, unsignalled, signal, device,
                       written, copy, token>>
        /\ phase[c] \in Holding
        /\ view' = [view EXCEPT ![device[c]] = c]
        /\ \/ phase' = phase /\ phase[c] = "loop"
           \/ phase' \in {[phase EXCEPT ![c] = "greeting"], [phase EXCEPT ![c] = "leaving"]}
    BY <1>4 DEF Hub!FirstState, Hub!State, Hub!Goto, Hub!mapVars, Hub!connVars, Holding, Hub!Serving
  <2>d. device[c] \in Devices /\ sessions[device[c]] = c
    BY <1>1, <2>0 DEF Attended, Holding, Hub!Serving
  <2>1. HubTyped' /\ Exclusive'
    BY <1>1, <2>0, <2>d DEF HubTyped, Exclusive, Hub!Phases
  <2>2. ASSUME NEW x \in Conns, x # c PROVE Attended(x)'
    <3>1. phase'[x] = phase[x] /\ Attended(x)
      BY <1>1, <2>0, <2>2 DEF HubTyped, HubInv
    <3>2. phase[x] \in Hub!Serving => device[x] # device[c] /\ device[x] \in Devices
      BY <2>0, <2>2, <3>1, OneHolder DEF Attended, Holding, Hub!Serving
    <3>3. phase[x] \in Hub!Serving => view'[device[x]] = view[device[x]]
      BY <1>1, <2>0, <3>2 DEF HubTyped
    <3>4. Notified(x) => Notified(x)'
      BY <2>0 DEF Notified
    <3> QED
      BY <2>0, <3>1, <3>3, <3>4, AttendedKept
  <2>3. Attended(c)'
    <3>1. view'[device[c]] = c
      BY <1>1, <2>0, <2>d DEF HubTyped
    <3>2. CASE phase' = phase
      <4>1. Hub!Stale(c)' = Hub!Stale(c) /\ Notified(c)' = Notified(c)
        BY <2>0 DEF Hub!Stale, Notified
      <4> QED
        BY <1>1, <2>0, <2>d, <3>1, <3>2, <4>1 DEF Attended
    <3>3. CASE phase'[c] \in {"greeting", "leaving"}
      BY <2>0, <2>d, <3>1, <3>3 DEF Attended, Holding, Hub!Serving
    <3> QED
      BY <1>1, <2>0, <3>2, <3>3 DEF HubTyped
  <2> QED
    BY <2>1, <2>2, <2>3 DEF HubInv
<1>5. CASE Hub!Remove(c)
  <2>0. /\ UNCHANGED <<generation, document, view>>
        /\ phase[c] = "leaving" /\ signal' = signal \ {c} /\ unsignalled' = unsignalled \ {c}
        /\ device[c] \in Devices
    BY <1>1, <1>5 DEF Hub!Remove, Attended
  <2>n. ASSUME NEW x \in Conns, x # c, Notified(x) PROVE Notified(x)'
    BY <2>0, <2>n DEF Notified
  <2>1. CASE sessions[device[c]] = c
    <3>0. /\ sessions' = [sessions EXCEPT ![device[c]] = None]
          /\ disconnecting' = [disconnecting EXCEPT ![device[c]] = c]
          /\ phase' = [phase EXCEPT ![c] = "removed"]
          /\ UNCHANGED <<device, token, written, copy>>
      BY <1>5, <2>1 DEF Hub!Remove, Hub!Goto
    <3>1. HubTyped' /\ Exclusive'
      BY <1>1, <2>0, <3>0 DEF HubTyped, Exclusive, Hub!Phases
    <3>2. ASSUME NEW x \in Conns, x # c PROVE Attended(x)'
      <4>1. phase'[x] = phase[x] /\ Attended(x)
        BY <1>1, <3>0, <3>2 DEF HubTyped, HubInv
      <4>2. phase[x] \in Holding \union {"removed", "told"} =>
              device[x] # device[c] /\ device[x] \in Devices
        BY <2>0, <2>1, <3>2, <4>1, OneHolder DEF Attended, Holding, Hub!Serving
      <4>3. phase[x] \in Holding \union {"removed", "told"} =>
              /\ sessions'[device[x]] = sessions[device[x]]
              /\ disconnecting'[device[x]] = disconnecting[device[x]]
        BY <1>1, <3>0, <4>2 DEF HubTyped
      <4> QED
        BY <2>0, <2>n, <3>0, <3>2, <4>1, <4>3, AttendedKept
    <3>3. Attended(c)'
      BY <1>1, <2>0, <3>0 DEF Attended, Holding, Hub!Serving, HubTyped
    <3> QED
      BY <3>1, <3>2, <3>3 DEF HubInv
  <2>2. CASE Hub!Return(c) /\ UNCHANGED <<sessions, disconnecting>>
    <3>0. /\ phase' = [phase EXCEPT ![c] = "free"] /\ device' = [device EXCEPT ![c] = None]
          /\ DOMAIN written' = Conns /\ DOMAIN copy' = Conns /\ DOMAIN token' = Conns
          /\ \A x \in Conns \ {c} : written'[x] = written[x] /\ copy'[x] = copy[x]
      BY <1>1, <2>2 DEF Hub!Return, Hub!Goto, HubTyped
    <3>1. HubTyped' /\ Exclusive'
      BY <1>1, <2>0, <2>2, <3>0 DEF HubTyped, Exclusive, Hub!Phases
    <3>2. ASSUME NEW x \in Conns, x # c PROVE Attended(x)'
      <4>1. phase'[x] = phase[x] /\ device'[x] = device[x] /\ Attended(x)
        BY <1>1, <3>0, <3>2 DEF HubTyped, HubInv
      <4> QED
        BY <2>0, <2>2, <2>n, <3>0, <3>2, <4>1, AttendedKept
    <3>3. Attended(c)'
      BY <1>1, <3>0 DEF Attended, Holding, Hub!Serving, HubTyped
    <3> QED
      BY <3>1, <3>2, <3>3 DEF HubInv
  <2> QED
    BY <1>5, <2>1, <2>2 DEF Hub!Remove
<1>6. CASE Hub!OnDisconnect(c)
  <2>0. /\ UNCHANGED <<sessions, disconnecting, generation, document, unsignalled, signal, device,
                       written, copy, token>>
        /\ phase[c] = "removed" /\ phase' = [phase EXCEPT ![c] = "told"]
        /\ view' = [view EXCEPT ![device[c]] = None]
        /\ device[c] \in Devices /\ disconnecting[device[c]] = c
    BY <1>1, <1>6 DEF Hub!OnDisconnect, Hub!Goto, Hub!mapVars, Attended
  <2>1. HubTyped' /\ Exclusive'
    BY <1>1, <2>0 DEF HubTyped, Exclusive, Hub!Phases
  <2>2. ASSUME NEW x \in Conns, x # c PROVE Attended(x)'
    <3>1. phase'[x] = phase[x] /\ Attended(x)
      BY <1>1, <2>0, <2>2 DEF HubTyped, HubInv
    <3>2. phase[x] \in Hub!Serving => device[x] # device[c] /\ device[x] \in Devices
      BY <2>0, <2>2, <3>1, OneHolder DEF Attended, Holding, Hub!Serving
    <3>3. phase[x] \in Hub!Serving => view'[device[x]] = view[device[x]]
      BY <1>1, <2>0, <3>2 DEF HubTyped
    <3>4. Notified(x) => Notified(x)'
      BY <2>0 DEF Notified
    <3> QED
      BY <2>0, <3>1, <3>3, <3>4, AttendedKept
  <2>3. Attended(c)'
    BY <1>1, <2>0 DEF Attended, Holding, Hub!Serving, HubTyped
  <2> QED
    BY <2>1, <2>2, <2>3 DEF HubInv
<1>7. CASE Hub!Release(c)
  <2>0. /\ UNCHANGED <<sessions, view, generation, document, unsignalled, signal>>
        /\ phase[c] = "told" /\ phase' = [phase EXCEPT ![c] = "free"]
        /\ device' = [device EXCEPT ![c] = None]
        /\ disconnecting' = [disconnecting EXCEPT ![device[c]] = None]
        /\ device[c] \in Devices
        /\ DOMAIN written' = Conns /\ DOMAIN copy' = Conns /\ DOMAIN token' = Conns
        /\ \A x \in Conns \ {c} : written'[x] = written[x] /\ copy'[x] = copy[x]
    BY <1>1, <1>7 DEF Hub!Release, Hub!Return, Hub!Goto, Attended, HubTyped
  <2>1. HubTyped' /\ Exclusive'
    BY <1>1, <2>0 DEF HubTyped, Exclusive, Hub!Phases
  <2>2. ASSUME NEW x \in Conns, x # c PROVE Attended(x)'
    <3>1. phase'[x] = phase[x] /\ device'[x] = device[x] /\ Attended(x)
      BY <1>1, <2>0, <2>2 DEF HubTyped, HubInv
    <3>2. phase[x] \in {"removed", "told"} => device[x] # device[c] /\ device[x] \in Devices
      BY <2>0, <2>2, <3>1, OneHolder DEF Attended
    <3>3. phase[x] \in {"removed", "told"} =>
            disconnecting'[device[x]] = disconnecting[device[x]]
      BY <1>1, <2>0, <3>2 DEF HubTyped
    <3>4. Notified(x) => Notified(x)'
      BY <2>0 DEF Notified
    <3> QED
      BY <2>0, <2>2, <3>1, <3>3, <3>4, AttendedKept
  <2>3. Attended(c)'
    BY <1>1, <2>0 DEF Attended, Holding, Hub!Serving, HubTyped
  <2> QED
    BY <2>1, <2>2, <2>3 DEF HubInv
<1> QED
  BY <1>2, <1>3, <1>4, <1>5, <1>6, <1>7

\* Trust, documents and the end of the hub.
LEMMA HubStep ==
    ASSUME HubInv,
           \/ \E d \in Devices : Hub!Rotate(d) \/ Hub!Revoke(d)
           \/ \E c \in Conns, d \in Devices, t \in 1..MaxTrust : Hub!Authenticate(c, d, t)
           \/ \E c \in Conns : Hub!Signal(c)
           \/ Hub!Publish \/ Hub!Close
           \/ UNCHANGED Hub!vars
    PROVE  HubInv'
<1>0. HubTyped /\ Exclusive /\ \A x \in Conns : Attended(x)
  BY DEF HubInv
<1>1. CASE (\E d \in Devices : Hub!Rotate(d) \/ Hub!Revoke(d)) \/ Hub!Close \/ UNCHANGED Hub!vars
  <2>1. /\ UNCHANGED <<phase, device, token, written, copy, sessions, disconnecting, view,
                       signal, unsignalled, generation>>
        /\ document' \in {document, 0}
    BY <1>1 DEF Hub!Rotate, Hub!Revoke, Hub!Close, Hub!vars, Hub!mapVars, Hub!connVars
  <2>2. ASSUME NEW x \in Conns PROVE Attended(x)'
    <3>1. Notified(x) => Notified(x)'
      BY <2>1 DEF Notified
    <3> QED
      BY <1>0, <2>1, <3>1, AttendedKept
  <2> QED
    BY <1>0, <2>1, <2>2 DEF HubInv, HubTyped, Exclusive
<1>2. ASSUME NEW c \in Conns, NEW d \in Devices, NEW t \in 1..MaxTrust, Hub!Authenticate(c, d, t)
      PROVE  HubInv'
  <2>0. /\ UNCHANGED <<sessions, disconnecting, view, signal, unsignalled, generation, document,
                       written, copy>>
        /\ phase' = [phase EXCEPT ![c] = "verified"] /\ device' = [device EXCEPT ![c] = d]
        /\ DOMAIN token' = Conns
    BY <1>0, <1>2 DEF Hub!Authenticate, Hub!Goto, Hub!mapVars, HubTyped
  <2>1. HubTyped' /\ Exclusive'
    BY <1>0, <2>0 DEF HubTyped, Exclusive, Hub!Phases
  <2>2. ASSUME NEW x \in Conns, x # c PROVE Attended(x)'
    <3>1. phase'[x] = phase[x] /\ device'[x] = device[x] /\ Attended(x)
      BY <1>0, <2>0, <2>2 DEF HubTyped
    <3>2. Notified(x) => Notified(x)'
      BY <2>0 DEF Notified
    <3> QED
      BY <2>0, <2>2, <3>1, <3>2, AttendedKept
  <2>3. Attended(c)'
    BY <1>0, <2>0 DEF Attended, Holding, Hub!Serving, HubTyped
  <2> QED
    BY <2>1, <2>2, <2>3 DEF HubInv
<1>3. ASSUME NEW c \in Conns, Hub!Signal(c) PROVE HubInv'
  <2>1. /\ UNCHANGED <<phase, device, token, written, copy, sessions, disconnecting, view,
                       generation, document>>
        /\ unsignalled' = unsignalled \ {c} /\ signal' = signal \union {c}
    BY <1>3 DEF Hub!Signal, Hub!connVars
  <2>2. ASSUME NEW x \in Conns PROVE Attended(x)'
    <3>1. Notified(x) => Notified(x)'
      BY <2>1 DEF Notified
    <3> QED
      BY <1>0, <2>1, <3>1, AttendedKept
  <2> QED
    BY <1>0, <2>1, <2>2 DEF HubInv, HubTyped, Exclusive
<1>4. CASE Hub!Publish
  <2>1. /\ UNCHANGED <<phase, device, token, written, copy, sessions, disconnecting, view>>
        /\ unsignalled' = {c \in Conns : \E d \in Devices : sessions[d] = c}
    BY <1>4 DEF Hub!Publish, Hub!mapVars, Hub!connVars
  <2>2. ASSUME NEW x \in Conns PROVE Attended(x)'
    <3>1. phase[x] \in Hub!Serving => device[x] \in Devices /\ sessions[device[x]] = x
      BY <1>0 DEF Attended, Holding, Hub!Serving
    <3>2. phase[x] \in Hub!Serving => Notified(x)'
      BY <2>1, <3>1 DEF Notified
    <3> QED
      BY <1>0, <2>1, <3>2, AttendedKept
  <2> QED
    BY <1>0, <2>1, <2>2 DEF HubInv, HubTyped, Exclusive
<1> QED
  BY <1>1, <1>2, <1>3, <1>4

LEMMA HubInductive == HubInv /\ [Hub!Next]_(Hub!vars) => HubInv'
BY ServeStep, HoldStep, HubStep DEF Hub!Next, Hub!Serve

LEMMA HubInvariant == MCSpec => []HubInv
<1>1. MCInit => HubInv
  BY CompanionAssumption, HubInitially DEF MCInit
<1>2. HubInv /\ [MCNext]_<<part, vars, hubVars, leaseVars, secretVars, installVars, ringVars>>
        => HubInv'
  <2> SUFFICES ASSUME HubInv, Hub!Next \/ UNCHANGED hubVars PROVE HubInv'
    BY DEF MCNext
  <2> QED
    BY HubInductive DEF hubVars, Hub!vars
<1> QED
  BY <1>1, <1>2, PTL DEF MCSpec

\* While a connection serves its Deck, the last callback about that Deck came
\* from it: no OnDisconnect of an earlier connection, run outside the lock,
\* overtakes or wipes its report.
THEOREM ReportsAreOrdered == MCSpec => []ServedIsReported
<1>1. HubInv => ServedIsReported
  BY DEF HubInv, Attended, ServedIsReported, Hub!ServedIsReported
<1> QED
  BY <1>1, HubInvariant, PTL

\* A connection that waits with an older document has a token in its channel
\* or a publisher about to put one there, whichever write, publication and
\* reservation raced.
THEOREM WakeupsAreKept == MCSpec => []NoLostWakeup
<1>1. HubInv => NoLostWakeup
  BY DEF HubInv, Attended, Notified, NoLostWakeup, Hub!NoLostWakeup
<1> QED
  BY <1>1, HubInvariant, PTL

-----------------------------------------------------------------------------
\* The provider definitions and their credentials.

\* References drawn so far, definitions, contents of structured-providers.json.
Drawn == 1..drawn
Definitions == [Providers -> (SUBSET Drawn) \union {None}]
Doc == [definitions : Definitions, pending : SUBSET Drawn]

\* An edit between its first read and its publication, and a cleanup.
EditTask == [pc : {"bind", "stage", "write"}, op : {"save", "import"}, scope : SUBSET Providers,
             expected : Definitions, plan : Definitions, need : SUBSET Providers,
             staged : SUBSET Drawn, ref : Drawn \union {None}]
CleanTask == [pc : {"clean"}, todo : SUBSET Drawn, deleted : SUBSET Drawn]
Tasks == EditTask \union CleanTask \union {[pc |-> "idle"], [pc |-> "reconcile"]}

refs(s) == Secrets!definitionReferences(s.definitions)

Editing(t) == t.pc \in {"bind", "stage", "write"}

\* The references an edit has drawn, and those of them whose credential it wrote.
Own(t) == IF t.pc = "bind" THEN t.staged ELSE t.staged \union {t.ref}
Written(t) == IF t.pc = "write" THEN t.staged \ {t.ref} ELSE t.staged

\* Each reference to publish for p was in the definition read, or is an own one.
Sourced(t, p) ==
    /\ t.plan[p] \in SUBSET Drawn
    /\ \A r \in t.plan[p] : r \in Written(t) \/ (t.expected[p] # None /\ r \in t.expected[p])

\* What an edit will publish is what it read and what it wrote itself; what it
\* drew is in no definition yet.
EditIsSound(t, refsNow, vault) ==
    Editing(t) =>
        /\ t.pc \in {"stage", "write"} => t.ref \in Drawn
        /\ t.pc = "stage" => t.ref \notin t.staged
        /\ t.pc = "write" => t.ref \in t.staged
        /\ Written(t) \subseteq vault
        /\ Own(t) \intersect refsNow = {}
        /\ t.need \subseteq t.scope
        /\ \A p \in t.scope : (p \in t.need \/ t.plan[p] # None) => Sourced(t, p)

\* What is to be deleted is in no definition, what was deleted is not in the vault.
CleanIsSound(t, refsNow, vault) ==
    t.pc = "clean" => t.todo \intersect refsNow = {} /\ t.deleted \intersect vault = {}

\* Nobody else has or cleans what an edit has drawn.
Apart(t, u) ==
    Editing(t) =>
        /\ Editing(u) => Own(t) \intersect Own(u) = {}
        /\ u.pc = "clean" => Own(t) \intersect (u.todo \union u.deleted) = {}

\* A reference whose credential is in the vault or about to be.
Pledged(r) == r \in secrets \/ \E c \in Clients : task[c].pc = "write" /\ task[c].ref = r

\* One content of the file: the journal and the definitions are apart, each
\* credential is in one of them, and each definition has its credential.
DocIsSound(s) ==
    /\ s.pending \intersect refs(s) = {}
    /\ \A r \in Drawn : Pledged(r) => r \in refs(s) \union s.pending
    /\ ~gambled => refs(s) \subseteq secrets

SecretsTyped ==
    /\ drawn \in Nat /\ running \in BOOLEAN
    /\ definitionFile.now \in definitionFile.crash
    /\ secrets \subseteq Drawn /\ reserved \subseteq Drawn
    /\ \A s \in definitionFile.crash : s \in Doc
    /\ task \in [Clients \union {Boot} -> Tasks]

\* Memory follows the file, and a process that does not run does nothing.
MemoryIsFile ==
    /\ running => definitions = definitionFile.now
    /\ ~running => /\ definitions = Secrets!emptyDefinitionStoreState
                   /\ \A c \in Clients \union {Boot} : task[c] = Secrets!Idle

TasksAreSound ==
    /\ \A c \in Clients \union {Boot} : /\ EditIsSound(task[c], refs(definitions), secrets)
                                        /\ CleanIsSound(task[c], refs(definitions), secrets)
    /\ \A c, e \in Clients \union {Boot} : c # e => Apart(task[c], task[e])
    /\ \A c \in Clients : task[c].pc \in {"stage", "write"} => vaultLock = c
    /\ \A c \in Clients : task[c].pc # "reconcile"
    /\ ~Editing(task[Boot])
    /\ task[Boot].pc # "idle" => \A c \in Clients : task[c] = Secrets!Idle

SecretsInv ==
    /\ SecretsTyped /\ MemoryIsFile /\ TasksAreSound
    /\ \A s \in definitionFile.crash : DocIsSound(s)

LEMMA RefsOf ==
    ASSUME NEW d, NEW r
    PROVE  r \in Secrets!definitionReferences(d)
             <=> \E p \in Providers : d[p] # None /\ r \in d[p]
BY DEF Secrets!definitionReferences

LEMMA RefsAreDrawn == ASSUME NEW d \in Definitions PROVE Secrets!definitionReferences(d) \subseteq Drawn
BY RefsOf DEF Definitions

\* Memory holds a content of the file, or the empty one.
LEMMA MemoryIsDoc ==
    ASSUME SecretsInv
    PROVE  /\ definitions \in Doc /\ refs(definitions) \subseteq Drawn
           /\ running => definitions \in definitionFile.crash /\ DocIsSound(definitions)
<1>1. Secrets!emptyDefinitionStoreState \in Doc
  BY DEF Secrets!emptyDefinitionStoreState, Secrets!NoDefinitions, Doc, Definitions
<1>2. definitions \in Doc
  BY <1>1 DEF SecretsInv, SecretsTyped, MemoryIsFile
<1>3. definitions.definitions \in Definitions
  BY <1>2 DEF Doc
<1> QED
  BY <1>2, <1>3, RefsAreDrawn DEF SecretsInv, SecretsTyped, MemoryIsFile, refs

\* What updateWithCommit leaves of the file.
LEMMA Updated ==
    ASSUME SecretsInv, NEW next, NEW out \in Secrets!Update(next)
    PROVE  /\ out.file.now \in out.file.crash
           /\ out.file.now = IF out.committed THEN next ELSE definitionFile.now
           /\ \A s \in out.file.crash : \/ s = next /\ Secrets!validateDefinitionStoreState(next)
                                        \/ s \in definitionFile.crash
           /\ out.committed => Secrets!validateDefinitionStoreState(next)
           /\ out.ok => out.committed /\ out.file.crash = {next}
<1>0. definitionFile.now \in definitionFile.crash
  BY DEF SecretsInv, SecretsTyped
<1>1. CASE out = [file |-> definitionFile, committed |-> FALSE, ok |-> FALSE]
  BY <1>0, <1>1
<1>2. CASE /\ out = [file |-> [now |-> next, crash |-> definitionFile.crash \union {next}],
                     committed |-> TRUE, ok |-> FALSE]
           /\ Secrets!validateDefinitionStoreState(next)
  BY <1>2
<1>3. CASE /\ out \in {[file |-> Secrets!File(next), committed |-> TRUE, ok |-> FALSE],
                       [file |-> Secrets!File(next), committed |-> TRUE, ok |-> TRUE]}
           /\ Secrets!validateDefinitionStoreState(next)
  BY <1>3 DEF Secrets!File
<1> QED
  BY <1>1, <1>2, <1>3 DEF Secrets!Update, Secrets!Replace

\* The file after a step of a running process, judged by the vault before it.
FileMoves ==
    /\ definitionFile'.now \in definitionFile'.crash
    /\ definitions' = definitionFile'.now
    /\ \A s \in definitionFile'.crash : s \in Doc /\ DocIsSound(s)

LEMMA FileStays ==
    ASSUME SecretsInv, running, UNCHANGED <<definitionFile, definitions>>
    PROVE  FileMoves
BY DEF FileMoves, SecretsInv, SecretsTyped, MemoryIsFile

\* A content that keeps what the present one covers and defines only what has a
\* credential may be written.
LEMMA FileStep ==
    ASSUME SecretsInv, running, running', NEW next \in Doc,
           NEW out \in Secrets!Update(next), Secrets!Take(out, next),
           \A r \in Drawn : Pledged(r) => r \in refs(next) \union next.pending,
           ~gambled => refs(next) \subseteq secrets
    PROVE  /\ FileMoves
           /\ definitions' = IF out.committed THEN next ELSE definitions
           /\ out.committed => next.pending \intersect refs(next) = {}
           /\ out.ok => out.committed /\ definitionFile'.crash = {next}
<1>1. definitionFile' = out.file /\ definitions' = IF out.committed THEN next ELSE definitions
  BY DEF Secrets!Take
<1>2. definitions = definitionFile.now
  BY DEF SecretsInv, MemoryIsFile
<1>3. Secrets!validateDefinitionStoreState(next) => next.pending \intersect refs(next) = {}
  BY DEF Secrets!validateDefinitionStoreState, refs
<1>4. ASSUME NEW s \in definitionFile'.crash PROVE s \in Doc /\ DocIsSound(s)
  <2>1. CASE s = next /\ Secrets!validateDefinitionStoreState(next)
    BY <1>3, <2>1 DEF DocIsSound
  <2>2. CASE s \in definitionFile.crash
    BY <2>2 DEF SecretsInv, SecretsTyped
  <2> QED
    BY <1>1, <1>4, <2>1, <2>2, Updated
<1> QED
  BY <1>1, <1>2, <1>3, <1>4, Updated DEF FileMoves

\* A step of one task: what it adds to the definitions and to the vault it drew
\* itself, what it takes from the vault it was to delete.
LEMMA OneTask ==
    ASSUME SecretsInv, NEW c \in Clients \union {Boot}, NEW t \in Tasks,
           task' = [task EXCEPT ![c] = t], drawn' = drawn,
           EditIsSound(t, refs(definitions'), secrets'),
           CleanIsSound(t, refs(definitions'), secrets'),
           \A x \in Clients \union {Boot} : x # c => Apart(t, task[x]) /\ Apart(task[x], t),
           \A r \in refs(definitions') : \/ r \in refs(definitions)
                                         \/ Editing(task[c]) /\ r \in Own(task[c]),
           \A r \in secrets' : r \in secrets \/ (Editing(task[c]) /\ r \in Own(task[c])),
           \A r \in secrets \ secrets' : task[c].pc = "clean" /\ r \in task[c].todo,
           t.pc \in {"stage", "write"} => vaultLock' = c,
           vaultLock' = vaultLock \/ vaultLock = c \/ vaultLock = None,
           c \in Clients => task[Boot].pc = "idle" /\ t.pc # "reconcile",
           c = Boot => ~Editing(t) /\ \A x \in Clients : task[x] = Secrets!Idle
    PROVE  TasksAreSound' /\ task' \in [Clients \union {Boot} -> Tasks]
<1>0. /\ task \in [Clients \union {Boot} -> Tasks]
      /\ \A x \in Clients \union {Boot} : /\ EditIsSound(task[x], refs(definitions), secrets)
                                          /\ CleanIsSound(task[x], refs(definitions), secrets)
      /\ \A x, y \in Clients \union {Boot} : x # y => Apart(task[x], task[y])
  BY DEF SecretsInv, SecretsTyped, TasksAreSound
<1>1. task'[c] = t /\ \A x \in Clients \union {Boot} : x # c => task'[x] = task[x]
  BY <1>0
<1>2. Drawn' = Drawn
  BY DEF Drawn
<1>3. ASSUME NEW x \in Clients \union {Boot}, x # c
      PROVE  /\ EditIsSound(task[x], refs(definitions'), secrets')
             /\ CleanIsSound(task[x], refs(definitions'), secrets')
  <2>1. Apart(task[x], task[c]) /\ Apart(task[c], task[x])
    BY <1>0, <1>3
  <2>2. EditIsSound(task[x], refs(definitions), secrets)
    BY <1>0
  <2>3. CleanIsSound(task[x], refs(definitions), secrets)
    BY <1>0
  <2>4. EditIsSound(task[x], refs(definitions'), secrets')
    <3> SUFFICES ASSUME Editing(task[x])
                 PROVE  /\ Written(task[x]) \subseteq secrets'
                        /\ Own(task[x]) \intersect refs(definitions') = {}
      BY <2>2 DEF EditIsSound
    <3>1. Written(task[x]) \subseteq Own(task[x])
      BY DEF Written, Own
    <3>2. Written(task[x]) \subseteq secrets /\ Own(task[x]) \intersect refs(definitions) = {}
      BY <2>2 DEF EditIsSound
    <3>3. Written(task[x]) \subseteq secrets'
      BY <2>1, <3>1, <3>2 DEF Apart
    <3>4. Own(task[x]) \intersect refs(definitions') = {}
      BY <2>1, <3>2 DEF Apart
    <3> QED
      BY <3>3, <3>4
  <2>5. CleanIsSound(task[x], refs(definitions'), secrets')
    BY <2>1, <2>3 DEF CleanIsSound, Apart
  <2> QED
    BY <2>4, <2>5
<1>4. \A x \in Clients \union {Boot} : /\ EditIsSound(task'[x], refs(definitions'), secrets')
                                       /\ CleanIsSound(task'[x], refs(definitions'), secrets')
  BY <1>1, <1>3
<1>5. \A x, y \in Clients \union {Boot} : x # y => Apart(task'[x], task'[y])
  BY <1>0, <1>1
<1>6. /\ \A x \in Clients : task'[x].pc \in {"stage", "write"} => vaultLock' = x
      /\ \A x \in Clients : task'[x].pc # "reconcile"
      /\ ~Editing(task'[Boot])
      /\ task'[Boot].pc # "idle" => \A x \in Clients : task'[x] = Secrets!Idle
  <2>1. /\ \A x \in Clients : task[x].pc \in {"stage", "write"} => vaultLock = x
        /\ \A x \in Clients : task[x].pc # "reconcile"
        /\ ~Editing(task[Boot])
        /\ Boot \notin Clients /\ None \notin Clients
    BY CompanionAssumption DEF SecretsInv, TasksAreSound
  <2> QED
    BY <1>1, <2>1
<1>7. task' \in [Clients \union {Boot} -> Tasks]
  BY <1>0
<1> QED
  BY <1>2, <1>4, <1>5, <1>6, <1>7 DEF TasksAreSound, EditIsSound, Sourced, refs

\* The parts of the invariant that a step without a new reference leaves to show.
LEMMA SecretsAssembled ==
    ASSUME SecretsInv, drawn' = drawn, running, running',
           secrets' \subseteq Drawn, reserved' \subseteq Drawn,
           FileMoves, \A s \in definitionFile'.crash : s \in Doc /\ DocIsSound(s)',
           task' \in [Clients \union {Boot} -> Tasks], TasksAreSound'
    PROVE  SecretsInv'
BY DEF SecretsInv, SecretsTyped, MemoryIsFile, FileMoves, Drawn, Doc, Definitions, Tasks,
       EditTask, CleanTask

\* A step that leaves the vault alone and pledges no more.
LEMMA DocsStay ==
    ASSUME FileMoves, UNCHANGED <<secrets, gambled, drawn>>,
           \A r \in Drawn : Pledged(r)' => Pledged(r)
    PROVE  \A s \in definitionFile'.crash : s \in Doc /\ DocIsSound(s)'
BY DEF FileMoves, DocIsSound, Drawn, refs

LEMMA PledgesStay ==
    ASSUME SecretsInv, NEW c \in Clients \union {Boot}, NEW t,
           task' = [task EXCEPT ![c] = t], t.pc # "write", secrets' \subseteq secrets
    PROVE  \A r \in Drawn : Pledged(r)' => Pledged(r)
<1>1. task \in [Clients \union {Boot} -> Tasks]
  BY DEF SecretsInv, SecretsTyped
<1> QED
  BY <1>1 DEF Pledged

\* A busy client means that the start-up task is done.
LEMMA BootIsIdle ==
    ASSUME SecretsInv, NEW c \in Clients, task[c] # Secrets!Idle
    PROVE  running /\ task[Boot].pc = "idle"
BY DEF SecretsInv, MemoryIsFile, TasksAreSound

LEMMA IdleIsSound ==
    ASSUME NEW R, NEW S
    PROVE  /\ EditIsSound(Secrets!Idle, R, S) /\ CleanIsSound(Secrets!Idle, R, S)
           /\ \A u : Apart(Secrets!Idle, u) /\ Apart(u, Secrets!Idle)
           /\ Secrets!Idle \in Tasks /\ Secrets!Idle.pc = "idle" /\ ~Editing(Secrets!Idle)
BY DEF EditIsSound, CleanIsSound, Apart, Editing, Secrets!Idle, Tasks

LEMMA CleaningIsSound ==
    ASSUME NEW R, NEW S, NEW todo \in SUBSET Drawn, todo \intersect R = {}
    PROVE  /\ EditIsSound(Secrets!Cleaning(todo), R, S) /\ CleanIsSound(Secrets!Cleaning(todo), R, S)
           /\ \A u : Apart(Secrets!Cleaning(todo), u)
           /\ \A u : (Editing(u) => Own(u) \intersect todo = {}) => Apart(u, Secrets!Cleaning(todo))
           /\ Secrets!Cleaning(todo) \in Tasks /\ Secrets!Cleaning(todo).pc = "clean"
           /\ ~Editing(Secrets!Cleaning(todo))
BY DEF EditIsSound, CleanIsSound, Apart, Editing, Secrets!Cleaning, Tasks, CleanTask

\* Save and Import read the definitions and plan.
LEMMA EditBegins ==
    ASSUME SecretsInv, NEW c \in Clients, Secrets!Save(c) \/ Secrets!Import(c)
    PROVE  SecretsInv'
<1>0. /\ Secrets!Serving /\ task[c] = Secrets!Idle
      /\ UNCHANGED <<definitionFile, running, definitions, reserved, secrets, vaultLock, drawn, gambled>>
  BY DEF Secrets!Save, Secrets!Import
<1>1. /\ running /\ task[Boot].pc = "idle"
      /\ definitions \in Doc /\ definitions.definitions \in Definitions
  BY <1>0, MemoryIsDoc DEF Secrets!Serving, Doc
<1>2. PICK kind \in {"save", "import"}, scope \in SUBSET Providers, plan \in Definitions,
           need \in SUBSET Providers :
        /\ need \subseteq scope
        /\ task' = [task EXCEPT ![c] = Secrets!Edit(kind, scope, plan, need)]
        /\ \A p \in scope : (p \in need \/ plan[p] # None) =>
              /\ plan[p] \in SUBSET Drawn
              /\ \A r \in plan[p] : definitions.definitions[p] # None
                                      /\ r \in definitions.definitions[p]
  <2>1. CASE Secrets!Save(c)
    <3>1. PICK p \in Providers :
          \E need \in {{}, {p}},
             kept \in IF definitions.definitions[p] = None THEN {{}}
                      ELSE SUBSET definitions.definitions[p] :
            task' = [task EXCEPT ![c] = Secrets!Edit("save", {p},
                       [definitions.definitions EXCEPT ![p] = kept], need)]
      BY <2>1 DEF Secrets!Save, Secrets!Become
    <3>2. PICK need \in {{}, {p}},
               kept \in IF definitions.definitions[p] = None THEN {{}}
                        ELSE SUBSET definitions.definitions[p] :
            task' = [task EXCEPT ![c] = Secrets!Edit("save", {p},
                       [definitions.definitions EXCEPT ![p] = kept], need)]
      BY <3>1
    <3>3. kept \in SUBSET Drawn /\ \A r \in kept : definitions.definitions[p] # None
                                                    /\ r \in definitions.definitions[p]
      BY <1>1, <3>2 DEF Definitions
    <3> DEFINE plan == [definitions.definitions EXCEPT ![p] = kept]
    <3>4. plan \in Definitions /\ plan[p] = kept
      BY <1>1, <3>3 DEF Definitions
    <3> HIDE DEF plan
    <3>5. {p} \in SUBSET Providers /\ need \in SUBSET Providers /\ need \subseteq {p}
      BY <3>2
    <3> QED
      BY <3>2, <3>3, <3>4, <3>5 DEF plan
  <2>2. CASE Secrets!Import(c)
    <3>1. PICK from \in SUBSET Providers, replace \in BOOLEAN :
            task' = [task EXCEPT ![c] = Secrets!Edit("import", Providers,
                    [p \in Providers |-> IF p \in from THEN {}
                                         ELSE IF replace THEN None
                                         ELSE definitions.definitions[p]], from)]
      BY <2>2 DEF Secrets!Import, Secrets!Become
    <3> DEFINE plan == [p \in Providers |-> IF p \in from THEN {}
                                            ELSE IF replace THEN None
                                            ELSE definitions.definitions[p]]
    <3>2. plan \in Definitions
      BY <1>1 DEF Definitions
    <3>3. \A p \in Providers : (p \in from \/ plan[p] # None) =>
              /\ plan[p] \in SUBSET Drawn
              /\ \A r \in plan[p] : definitions.definitions[p] # None
                                      /\ r \in definitions.definitions[p]
      BY <1>1 DEF Definitions
    <3> HIDE DEF plan
    <3> QED
      BY <3>1, <3>2, <3>3 DEF plan
  <2> QED
    BY <2>1, <2>2
<1> DEFINE t == Secrets!Edit(kind, scope, plan, need)
<1>3. /\ t \in Tasks /\ t.pc = "bind" /\ t.staged = {} /\ t.scope = scope /\ t.need = need
      /\ t.plan = plan /\ t.expected = definitions.definitions
  BY <1>1, <1>2 DEF Secrets!Edit, Tasks, EditTask
<1> HIDE DEF t
<1>4. Own(t) = {} /\ Written(t) = {} /\ Editing(t)
  BY <1>3 DEF Own, Written, Editing
<1>5. EditIsSound(t, refs(definitions), secrets) /\ CleanIsSound(t, refs(definitions), secrets)
  BY <1>2, <1>3, <1>4 DEF EditIsSound, CleanIsSound, Sourced
<1>6. \A x \in Clients \union {Boot} : x # c => Apart(t, task[x]) /\ Apart(task[x], t)
  BY <1>3, <1>4 DEF Apart
<1>7. task' = [task EXCEPT ![c] = t]
  BY <1>2 DEF t
<1>8. TasksAreSound' /\ task' \in [Clients \union {Boot} -> Tasks]
  BY <1>0, <1>1, <1>3, <1>5, <1>6, <1>7, OneTask, CompanionAssumption
<1>9. FileMoves
  BY <1>0, <1>1, FileStays
<1>10. \A s \in definitionFile'.crash : s \in Doc /\ DocIsSound(s)'
  BY <1>0, <1>3, <1>7, <1>9, PledgesStay, DocsStay
<1> QED
  BY <1>0, <1>1, <1>8, <1>9, <1>10, SecretsAssembled DEF SecretsInv, SecretsTyped

\* Contents and tasks stay well typed when a reference is drawn.
LEMMA TypesGrow ==
    ASSUME drawn \in Nat, drawn' = drawn + 1
    PROVE  /\ Drawn \subseteq Drawn' /\ drawn' \in Drawn' /\ drawn' \notin Drawn
           /\ Doc \subseteq Doc' /\ Tasks \subseteq Tasks' /\ EditTask \subseteq EditTask'
<1>1. Drawn \subseteq Drawn' /\ drawn' \in Drawn' /\ drawn' \notin Drawn
  BY DEF Drawn
<1>2. Definitions \subseteq Definitions'
  BY <1>1 DEF Definitions
<1>3. Doc \subseteq Doc'
  BY <1>1, <1>2 DEF Doc
<1>4. EditTask \subseteq EditTask'
  BY <1>1, <1>2 DEF EditTask
<1>5. CleanTask \subseteq CleanTask'
  BY <1>1 DEF CleanTask
<1> QED
  BY <1>1, <1>3, <1>4, <1>5 DEF Tasks

\* An edit that gives up cleans what it staged.
LEMMA FailStep ==
    ASSUME SecretsInv, NEW c \in Clients, Editing(task[c]),
           Secrets!Fail(c), UNCHANGED <<running, secrets, drawn, gambled>>,
           FileMoves, refs(definitions') = refs(definitions), reserved' \subseteq Drawn,
           vaultLock' = vaultLock \/ vaultLock = c
    PROVE  SecretsInv'
<1> DEFINE t == Secrets!Cleaning(task[c].staged)
<1>0. task' = [task EXCEPT ![c] = t]
  BY DEF Secrets!Fail, Secrets!Become
<1>1. task[c] # Secrets!Idle /\ running /\ task[Boot].pc = "idle"
  BY BootIsIdle, IdleIsSound DEF Editing
<1>2. /\ task[c] \in Tasks /\ EditIsSound(task[c], refs(definitions), secrets)
      /\ \A x \in Clients \union {Boot} : x # c => Apart(task[x], task[c])
  BY DEF SecretsInv, SecretsTyped, TasksAreSound
<1>3. task[c] \in EditTask
  BY <1>2 DEF Tasks, CleanTask, Editing
<1>4. task[c].staged \subseteq Own(task[c]) /\ task[c].staged \in SUBSET Drawn
  BY <1>3 DEF Own, EditTask
<1>5. task[c].staged \intersect refs(definitions) = {}
  BY <1>2, <1>4 DEF EditIsSound
<1>6. \A x \in Clients \union {Boot} : x # c => Apart(t, task[x]) /\ Apart(task[x], t)
  <2>1. ASSUME NEW x \in Clients \union {Boot}, x # c, Editing(task[x])
        PROVE  Own(task[x]) \intersect task[c].staged = {}
    BY <1>2, <1>4, <2>1 DEF Apart
  <2> QED
    BY <1>4, <1>5, <2>1, CleaningIsSound
<1>7. /\ EditIsSound(t, refs(definitions), secrets) /\ CleanIsSound(t, refs(definitions), secrets)
      /\ t \in Tasks /\ t.pc = "clean"
  BY <1>4, <1>5, CleaningIsSound
<1> HIDE DEF t
<1>8. TasksAreSound' /\ task' \in [Clients \union {Boot} -> Tasks]
  BY <1>0, <1>1, <1>6, <1>7, OneTask, CompanionAssumption
<1>9. \A s \in definitionFile'.crash : s \in Doc /\ DocIsSound(s)'
  BY <1>0, <1>7, PledgesStay, DocsStay
<1> QED
  BY <1>1, <1>8, <1>9, SecretsAssembled DEF SecretsInv, SecretsTyped

LEMMA ReserveStep ==
    ASSUME SecretsInv, NEW c \in Clients, Secrets!Reserve(c)
    PROVE  SecretsInv'
<1>0. /\ task[c].pc = "bind" /\ task[c].need # {} /\ vaultLock = None
      /\ UNCHANGED <<definitionFile, running, definitions, secrets, gambled>>
  BY DEF Secrets!Reserve
<1>1. CASE Secrets!Fail(c) /\ UNCHANGED <<drawn, reserved, vaultLock>>
  <2>1. Editing(task[c]) /\ running
    BY <1>0, BootIsIdle DEF Editing, Secrets!Idle
  <2>2. FileMoves
    BY <1>0, <2>1, FileStays
  <2> QED
    BY <1>0, <1>1, <2>1, <2>2, FailStep DEF SecretsInv, SecretsTyped, refs
<1>2. CASE /\ drawn' = drawn + 1 /\ reserved' = reserved \union {drawn'}
           /\ task' = [task EXCEPT ![c] = [task[c] EXCEPT !.pc = "stage", !.ref = drawn']]
           /\ vaultLock' = c
  <2> DEFINE t == [task[c] EXCEPT !.pc = "stage", !.ref = drawn']
  <2>0. drawn \in Nat /\ c # Boot /\ c # None
    BY CompanionAssumption DEF SecretsInv, SecretsTyped
  <2>1. /\ Drawn \subseteq Drawn' /\ drawn' \in Drawn' /\ drawn' \notin Drawn
        /\ Doc \subseteq Doc' /\ Tasks \subseteq Tasks' /\ EditTask \subseteq EditTask'
    BY <1>2, <2>0, TypesGrow
  <2>2. /\ task \in [Clients \union {Boot} -> Tasks]
        /\ \A x \in Clients \union {Boot} : /\ EditIsSound(task[x], refs(definitions), secrets)
                                            /\ CleanIsSound(task[x], refs(definitions), secrets)
        /\ \A x, y \in Clients \union {Boot} : x # y => Apart(task[x], task[y])
    BY DEF SecretsInv, SecretsTyped, TasksAreSound
  <2>3. task[c] \in EditTask /\ task[c] \in EditTask'
    BY <1>0, <2>1, <2>2 DEF Tasks, CleanTask
  <2>4. /\ t \in EditTask' /\ t.pc = "stage" /\ t.ref = drawn' /\ t.staged = task[c].staged
        /\ t.scope = task[c].scope /\ t.need = task[c].need /\ t.plan = task[c].plan
        /\ t.expected = task[c].expected
    BY <2>1, <2>3 DEF EditTask
  <2>5. task'[c] = t /\ \A x \in Clients \union {Boot} : x # c => task'[x] = task[x]
    BY <1>2, <2>2
  <2>6. Written(t) = task[c].staged /\ Own(t) = Own(task[c]) \union {drawn'} /\ Editing(t)
    BY <1>0, <2>4 DEF Written, Own, Editing
  <2> HIDE DEF t
  <2>7. task' \in [Clients \union {Boot} -> Tasks']
    <3>1. t \in Tasks' /\ task \in [Clients \union {Boot} -> Tasks']
      BY <2>1, <2>2, <2>4 DEF Tasks
    <3> QED
      BY <1>2, <3>1 DEF t
  <2>8. Editing(task[c]) /\ task[c].staged \in SUBSET Drawn /\ refs(definitions) \subseteq Drawn
    BY <1>0, <2>3, MemoryIsDoc DEF Editing, EditTask
  <2>9. ASSUME NEW x \in Clients \union {Boot}
        PROVE  /\ EditIsSound(task[x], refs(definitions), secrets)'
               /\ CleanIsSound(task[x], refs(definitions), secrets)'
    <3>1. CleanIsSound(task[x], refs(definitions), secrets)'
      BY <1>0, <2>2, <2>4, <2>5 DEF CleanIsSound, refs
    <3>2. CASE x # c
      <4>1. EditIsSound(task[x], refs(definitions), secrets) /\ task'[x] = task[x]
        BY <2>2, <2>5, <3>2
      <4>2. \A p : Sourced(task[x], p) => Sourced(task[x], p)'
        BY <2>1, <4>1 DEF Sourced
      <4> QED
        BY <1>0, <2>1, <3>1, <4>1, <4>2 DEF EditIsSound, refs
    <3>3. CASE x = c
      <4>1. /\ task[c].staged \subseteq secrets /\ Own(task[c]) \intersect refs(definitions) = {}
            /\ task[c].need \subseteq task[c].scope
            /\ \A p \in task[c].scope :
                  (p \in task[c].need \/ task[c].plan[p] # None) => Sourced(task[c], p)
        BY <1>0, <2>2, <2>8 DEF EditIsSound, Written
      <4>2. \A p : Sourced(task[c], p) => Sourced(task[c], p)'
        BY <1>0, <2>1, <2>4, <2>5, <2>6 DEF Sourced, Written
      <4>3. Own(t) \intersect refs(definitions) = {} /\ drawn' \notin task[c].staged
        BY <2>1, <2>6, <2>8, <4>1
      <4> QED
        BY <1>0, <2>1, <2>4, <2>5, <2>6, <3>1, <3>3, <4>1, <4>2, <4>3 DEF EditIsSound, refs
    <3> QED
      BY <3>2, <3>3
  <2>10. ASSUME NEW x \in Clients \union {Boot}, x # c
         PROVE  Apart(task'[c], task'[x]) /\ Apart(task'[x], task'[c])
    <3>1. Apart(task[c], task[x]) /\ Apart(task[x], task[c]) /\ task[x] \in Tasks
      BY <2>2, <2>10
    <3>2. Editing(task[x]) => Own(task[x]) \subseteq Drawn
      <4> SUFFICES ASSUME Editing(task[x]) PROVE Own(task[x]) \subseteq Drawn
        OBVIOUS
      <4>1. task[x] \in EditTask /\ EditIsSound(task[x], refs(definitions), secrets)
        BY <2>2, <3>1 DEF Tasks, CleanTask, Editing
      <4> QED
        BY <4>1 DEF EditIsSound, EditTask, Own, Editing
    <3>3. task[x].pc = "clean" => task[x].todo \subseteq Drawn /\ task[x].deleted \subseteq Drawn
      BY <3>1 DEF Tasks, CleanTask, EditTask
    <3> QED
      BY <2>1, <2>5, <2>6, <2>8, <2>10, <3>1, <3>2, <3>3 DEF Apart, Editing
  <2>11. task[Boot].pc = "idle" /\ running
    BY <1>0, BootIsIdle DEF Secrets!Idle
  <2>12. TasksAreSound'
    <3>1. \A x, y \in Clients \union {Boot} : x # y => Apart(task'[x], task'[y])
      BY <2>2, <2>5, <2>10
    <3>2. /\ \A x \in Clients : task'[x].pc \in {"stage", "write"} => vaultLock' = x
          /\ \A x \in Clients : task'[x].pc # "reconcile"
          /\ task'[Boot].pc = "idle"
      BY <1>0, <1>2, <2>0, <2>4, <2>5, <2>11, CompanionAssumption DEF SecretsInv, TasksAreSound
    <3> QED
      BY <2>9, <3>1, <3>2 DEF TasksAreSound, Editing
  <2>13. \A r : Pledged(r)' => Pledged(r)
    BY <1>0, <2>4, <2>5 DEF Pledged
  <2>14. \A r \in Drawn' : Pledged(r) => r \in Drawn
    BY <2>2 DEF Pledged, SecretsInv, SecretsTyped, Tasks, EditTask, CleanTask, TasksAreSound, EditIsSound, Editing
  <2>15. ASSUME NEW s \in definitionFile'.crash PROVE s \in Doc' /\ DocIsSound(s)'
    <3>1. s \in Doc /\ DocIsSound(s)
      BY <1>0 DEF SecretsInv, SecretsTyped
    <3> QED
      BY <1>0, <2>1, <2>13, <2>14, <3>1 DEF DocIsSound, refs
  <2>16. SecretsTyped' /\ MemoryIsFile'
    BY <1>0, <1>2, <2>0, <2>1, <2>7, <2>11, <2>15 DEF SecretsInv, SecretsTyped, MemoryIsFile
  <2> QED
    BY <2>12, <2>15, <2>16 DEF SecretsInv
<1> QED
  BY <1>0, <1>1, <1>2 DEF Secrets!Reserve, Secrets!Become

LEMMA StageStep ==
    ASSUME SecretsInv, NEW c \in Clients, Secrets!Stage(c)
    PROVE  SecretsInv'
<1> DEFINE r == task[c].ref
           next == [definitions EXCEPT !.pending = @ \union {r}]
<1>0. /\ task[c].pc = "stage" /\ UNCHANGED <<running, secrets, drawn, gambled>>
  BY DEF Secrets!Stage
<1>1. PICK out \in Secrets!Update(next) :
        /\ Secrets!Take(out, next)
        /\ IF out.ok
           THEN /\ Secrets!Become(c, [task[c] EXCEPT !.pc = "write", !.staged = @ \union {r}])
                /\ UNCHANGED <<reserved, vaultLock>>
           ELSE /\ reserved' \in {reserved, reserved \ {r}}
                /\ vaultLock' = None
                /\ Secrets!Fail(c)
  BY DEF Secrets!Stage
<1>2. running /\ task[Boot].pc = "idle" /\ Editing(task[c]) /\ vaultLock = c
  BY <1>0, BootIsIdle DEF Editing, Secrets!Idle, SecretsInv, TasksAreSound
<1>3. /\ task[c] \in Tasks /\ EditIsSound(task[c], refs(definitions), secrets)
      /\ \A x \in Clients \union {Boot} :
            x # c => Apart(task[x], task[c]) /\ Apart(task[c], task[x])
  BY DEF SecretsInv, SecretsTyped, TasksAreSound
<1>4. task[c] \in EditTask /\ r \in Drawn /\ r \notin task[c].staged
  BY <1>0, <1>2, <1>3 DEF Tasks, CleanTask, EditIsSound
<1>5. definitions \in Doc /\ DocIsSound(definitions)
  BY <1>2, MemoryIsDoc
<1>6. next \in Doc /\ next.pending = definitions.pending \union {r} /\ refs(next) = refs(definitions)
  BY <1>4, <1>5 DEF Doc, refs
<1> HIDE DEF next
<1>7. /\ \A x \in Drawn : Pledged(x) => x \in refs(next) \union next.pending
      /\ ~gambled => refs(next) \subseteq secrets
  BY <1>5, <1>6 DEF DocIsSound
<1>8. /\ FileMoves /\ definitions' = IF out.committed THEN next ELSE definitions
      /\ out.ok => out.committed /\ definitionFile'.crash = {next}
  BY <1>0, <1>1, <1>2, <1>6, <1>7, FileStep
<1>9. refs(definitions') = refs(definitions)
  BY <1>6, <1>8
<1>10. CASE ~out.ok
  <2>1. Secrets!Fail(c) /\ reserved' \subseteq Drawn /\ (vaultLock' = vaultLock \/ vaultLock = c)
    BY <1>1, <1>2, <1>10 DEF SecretsInv, SecretsTyped
  <2> QED
    BY <1>0, <1>2, <1>8, <1>9, <2>1, FailStep
<1>11. CASE out.ok
  <2> DEFINE t == [task[c] EXCEPT !.pc = "write", !.staged = @ \union {r}]
  <2>0. task' = [task EXCEPT ![c] = t] /\ UNCHANGED <<reserved, vaultLock>>
    BY <1>1, <1>11 DEF Secrets!Become
  <2>1. /\ t \in Tasks /\ t.pc = "write" /\ t.ref = r /\ t.staged = task[c].staged \union {r}
        /\ t.scope = task[c].scope /\ t.need = task[c].need /\ t.plan = task[c].plan
        /\ t.expected = task[c].expected
    BY <1>4 DEF Tasks, EditTask
  <2> HIDE DEF t
  <2>2. Written(t) = Written(task[c]) /\ Own(t) = Own(task[c]) /\ Editing(t)
    BY <1>0, <1>4, <2>1 DEF Written, Own, Editing
  <2>3. EditIsSound(t, refs(definitions'), secrets') /\ CleanIsSound(t, refs(definitions'), secrets')
    <3>1. \A p : Sourced(task[c], p) => Sourced(t, p)
      BY <2>1, <2>2 DEF Sourced
    <3> QED
      BY <1>0, <1>2, <1>3, <1>4, <1>9, <2>1, <2>2, <3>1 DEF EditIsSound, CleanIsSound
  <2>4. \A x \in Clients \union {Boot} : x # c => Apart(t, task[x]) /\ Apart(task[x], t)
    BY <1>2, <1>3, <2>1, <2>2 DEF Apart
  <2>5. TasksAreSound' /\ task' \in [Clients \union {Boot} -> Tasks]
    BY <1>0, <1>2, <1>9, <2>0, <2>1, <2>3, <2>4, OneTask, CompanionAssumption
  <2>6. \A x : Pledged(x)' => Pledged(x) \/ x = r
    <3>1. task \in [Clients \union {Boot} -> Tasks]
      BY DEF SecretsInv, SecretsTyped
    <3> QED
      BY <1>0, <2>0, <2>1, <3>1 DEF Pledged
  <2>7. \A s \in definitionFile'.crash : s \in Doc /\ DocIsSound(s)'
    <3> SUFFICES ASSUME NEW s \in definitionFile'.crash PROVE s \in Doc /\ DocIsSound(s)'
      OBVIOUS
    <3>1. s = next /\ s \in Doc /\ DocIsSound(s)
      BY <1>8, <1>11 DEF FileMoves
    <3>2. r \in s.pending
      BY <1>6, <3>1
    <3> QED
      BY <1>0, <2>6, <3>1, <3>2 DEF DocIsSound, Drawn, refs
  <2> QED
    BY <1>0, <1>2, <1>8, <2>0, <2>5, <2>7, SecretsAssembled DEF SecretsInv, SecretsTyped
<1> QED
  BY <1>10, <1>11

\* The credential of the journaled reference is written, or not.
LEMMA WriteSecretStep ==
    ASSUME SecretsInv, NEW c \in Clients, Secrets!WriteSecret(c)
    PROVE  SecretsInv'
<1> DEFINE r == task[c].ref
<1>0. /\ task[c].pc = "write" /\ vaultLock' = None
      /\ UNCHANGED <<definitionFile, running, definitions, reserved, drawn, gambled>>
  BY DEF Secrets!WriteSecret
<1>1. running /\ task[Boot].pc = "idle" /\ Editing(task[c]) /\ vaultLock = c
  BY <1>0, BootIsIdle DEF Editing, Secrets!Idle, SecretsInv, TasksAreSound
<1>2. FileMoves
  BY <1>0, <1>1, FileStays
<1>3. /\ task[c] \in Tasks /\ EditIsSound(task[c], refs(definitions), secrets)
      /\ \A x \in Clients \union {Boot} :
            x # c => Apart(task[x], task[c]) /\ Apart(task[c], task[x])
      /\ task \in [Clients \union {Boot} -> Tasks] /\ secrets \subseteq Drawn
  BY DEF SecretsInv, SecretsTyped, TasksAreSound
<1>4. task[c] \in EditTask /\ r \in Drawn /\ r \in task[c].staged
  BY <1>0, <1>1, <1>3 DEF Tasks, CleanTask, EditIsSound
<1>5. CASE Secrets!Fail(c) /\ UNCHANGED secrets
  BY <1>0, <1>1, <1>2, <1>5, FailStep DEF SecretsInv, SecretsTyped, refs
<1>6. ASSUME NEW p \in task[c].need, secrets' = secrets \union {r},
             Secrets!Become(c, [task[c] EXCEPT !.pc = "bind", !.need = @ \ {p},
                                               !.plan[p] = @ \union {r}])
      PROVE  SecretsInv'
  <2> DEFINE t == [task[c] EXCEPT !.pc = "bind", !.need = @ \ {p}, !.plan[p] = @ \union {r}]
  <2>0. task' = [task EXCEPT ![c] = t]
    BY <1>6 DEF Secrets!Become
  <2>1. /\ task[c].need \subseteq task[c].scope /\ p \in task[c].scope /\ p \in Providers
        /\ Sourced(task[c], p) /\ task[c].plan \in Definitions
    BY <1>1, <1>3, <1>4, <1>6 DEF EditIsSound, EditTask
  <2>2. task[c].plan[p] \union {r} \in SUBSET Drawn
    BY <1>4, <2>1 DEF Sourced
  <2>3. /\ t.pc = "bind" /\ t.ref = r /\ t.staged = task[c].staged
        /\ t.scope = task[c].scope /\ t.need = task[c].need \ {p}
        /\ t.plan = [task[c].plan EXCEPT ![p] = task[c].plan[p] \union {r}]
        /\ t.expected = task[c].expected /\ t.op = task[c].op
    BY <1>4 DEF EditTask
  <2>4. [task[c].plan EXCEPT ![p] = task[c].plan[p] \union {r}] \in Definitions
    BY <2>1, <2>2 DEF Definitions
  <2>5. t \in Tasks
    <3>1. t \in EditTask
      BY <1>4, <2>3, <2>4 DEF EditTask
    <3> QED
      BY <3>1 DEF Tasks
  <2> HIDE DEF t
  <2>6. /\ Written(t) = task[c].staged /\ Own(t) = task[c].staged /\ Own(task[c]) = task[c].staged
        /\ Written(task[c]) = task[c].staged \ {r} /\ Editing(t)
    BY <1>0, <1>4, <2>3 DEF Written, Own, Editing
  <2>7. /\ t.plan[p] = task[c].plan[p] \union {r}
        /\ \A q \in Providers : q # p => t.plan[q] = task[c].plan[q]
    BY <2>1, <2>3 DEF Definitions
  <2>8. \A q \in task[c].scope : Sourced(task[c], q) => Sourced(t, q)
    <3>1. \A q \in task[c].scope : q \in Providers
      BY <1>4 DEF EditTask
    <3> QED
      BY <1>4, <2>2, <2>3, <2>6, <2>7, <3>1 DEF Sourced
  <2>9. EditIsSound(t, refs(definitions'), secrets') /\ CleanIsSound(t, refs(definitions'), secrets')
    <3>1. /\ Written(task[c]) \subseteq secrets /\ Own(task[c]) \intersect refs(definitions) = {}
          /\ \A q \in task[c].scope :
                (q \in task[c].need \/ task[c].plan[q] # None) => Sourced(task[c], q)
      BY <1>1, <1>3 DEF EditIsSound
    <3>2. Written(t) \subseteq secrets'
      BY <1>6, <2>6, <3>1
    <3>3. \A q \in t.scope : (q \in t.need \/ t.plan[q] # None) => Sourced(t, q)
      <4>1. \A q \in task[c].scope : q \in Providers
        BY <1>4 DEF EditTask
      <4> QED
        BY <2>1, <2>3, <2>7, <2>8, <3>1, <4>1
    <3>4. t.need \subseteq t.scope /\ Own(t) \intersect refs(definitions') = {}
      BY <1>0, <2>1, <2>3, <2>6, <3>1
    <3> QED
      BY <2>3, <3>2, <3>3, <3>4 DEF EditIsSound, CleanIsSound
  <2>10. \A x \in Clients \union {Boot} : x # c => Apart(t, task[x]) /\ Apart(task[x], t)
    BY <1>1, <1>3, <2>3, <2>6 DEF Apart
  <2>11. TasksAreSound' /\ task' \in [Clients \union {Boot} -> Tasks]
    <3>1. r \in Own(task[c])
      BY <1>4, <2>6
    <3>2. c \in Clients \union {Boot} /\ c # Boot
      BY CompanionAssumption
    <3> QED
      BY <1>0, <1>1, <1>6, <2>0, <2>3, <2>5, <2>9, <2>10, <3>1, <3>2, OneTask
  <2>12. \A x : Pledged(x)' => Pledged(x)
    BY <1>0, <1>3, <1>6, <2>0, <2>3 DEF Pledged
  <2>13. \A s \in definitionFile'.crash : s \in Doc /\ DocIsSound(s)'
    <3> SUFFICES ASSUME NEW s \in definitionFile'.crash PROVE s \in Doc /\ DocIsSound(s)'
      OBVIOUS
    <3>1. s \in Doc /\ DocIsSound(s)
      BY <1>2 DEF FileMoves
    <3> QED
      BY <1>0, <1>6, <2>12, <3>1 DEF DocIsSound, Drawn, refs
  <2> QED
    BY <1>0, <1>1, <1>2, <1>3, <1>4, <1>6, <2>11, <2>13, SecretsAssembled DEF SecretsInv, SecretsTyped
<1> QED
  BY <1>0, <1>5, <1>6 DEF Secrets!WriteSecret

LEMMA UpdateSettingsStep == ASSUME SecretsInv, Secrets!UpdateSettings PROVE SecretsInv'
<1>0. /\ running /\ UNCHANGED <<running, reserved, secrets, vaultLock, drawn, task, gambled>>
  BY DEF Secrets!UpdateSettings, Secrets!Serving
<1>1. PICK out \in Secrets!Update(definitions) : Secrets!Take(out, definitions)
  BY DEF Secrets!UpdateSettings
<1>2. definitions \in Doc /\ DocIsSound(definitions)
  BY <1>0, MemoryIsDoc
<1>3. FileMoves /\ definitions' = definitions
  BY <1>0, <1>1, <1>2, FileStep DEF DocIsSound
<1>4. \A r \in Drawn : Pledged(r)' => Pledged(r)
  BY <1>0 DEF Pledged
<1>5. \A s \in definitionFile'.crash : s \in Doc /\ DocIsSound(s)'
  BY <1>0, <1>3, <1>4, DocsStay
<1>6. TasksAreSound' /\ task' \in [Clients \union {Boot} -> Tasks]
  BY <1>0, <1>3 DEF SecretsInv, SecretsTyped, TasksAreSound, EditIsSound, Sourced, Drawn, refs
<1> QED
  BY <1>0, <1>3, <1>5, <1>6, SecretsAssembled DEF SecretsInv, SecretsTyped

\* A task settles: it is done, or has only to delete what no definition needs
\* and nobody else has drawn.
LEMMA SettleStep ==
    ASSUME SecretsInv, running, NEW c \in Clients \union {Boot},
           UNCHANGED <<running, secrets, drawn, gambled, reserved, vaultLock>>, FileMoves,
           NEW todo \in SUBSET Drawn, todo \intersect refs(definitions') = {},
           \A x \in Clients \union {Boot} :
              x # c /\ Editing(task[x]) => Own(task[x]) \intersect todo = {},
           NEW t, t = Secrets!Idle \/ t = Secrets!Cleaning(todo),
           task' = [task EXCEPT ![c] = t],
           \A r \in refs(definitions') : \/ r \in refs(definitions)
                                         \/ Editing(task[c]) /\ r \in Own(task[c]),
           c \in Clients => task[Boot].pc = "idle",
           c = Boot => \A x \in Clients : task[x] = Secrets!Idle
    PROVE  SecretsInv'
<1>1. /\ EditIsSound(t, refs(definitions'), secrets') /\ CleanIsSound(t, refs(definitions'), secrets')
      /\ t \in Tasks /\ t.pc \in {"idle", "clean"} /\ ~Editing(t)
  <2>1. CASE t = Secrets!Idle
    BY <2>1, IdleIsSound
  <2>2. CASE t = Secrets!Cleaning(todo)
    BY <2>2, CleaningIsSound
  <2> QED
    BY <2>1, <2>2
<1>2. \A x \in Clients \union {Boot} : x # c => Apart(t, task[x]) /\ Apart(task[x], t)
  <2>1. CASE t = Secrets!Idle
    BY <2>1, IdleIsSound
  <2>2. CASE t = Secrets!Cleaning(todo)
    BY <2>2, CleaningIsSound
  <2> QED
    BY <2>1, <2>2
<1>3. TasksAreSound' /\ task' \in [Clients \union {Boot} -> Tasks]
  BY <1>1, <1>2, OneTask
<1>4. \A s \in definitionFile'.crash : s \in Doc /\ DocIsSound(s)'
  BY <1>1, PledgesStay, DocsStay
<1> QED
  BY <1>3, <1>4, SecretsAssembled DEF SecretsInv, SecretsTyped

\* What a publication adds to the definitions its own edit wrote; nothing that
\* has a credential leaves both the definitions and the journal.
LEMMA PublishedIsSound ==
    ASSUME SecretsInv, running, NEW c \in Clients, task[c].pc = "bind", Secrets!Unchanged(task[c])
    PROVE  LET t == task[c]
               next == [definitions |-> Secrets!Published(t),
                        pending |-> (definitions.pending \ Secrets!Activated(t))
                                      \union Secrets!Retired(t)]
           IN /\ next \in Doc
              /\ refs(next) = Secrets!definitionReferences(Secrets!Published(t))
              /\ \A r \in refs(next) : r \in refs(definitions) \/ r \in Written(t)
              /\ \A r \in Drawn : Pledged(r) => r \in refs(next) \union next.pending
              /\ ~gambled => refs(next) \subseteq secrets
              /\ Secrets!Retired(t) \subseteq refs(definitions)
              /\ Secrets!Retired(t) \intersect refs(next) = {}
<1> DEFINE t == task[c]
           after == Secrets!Published(t)
           next == [definitions |-> after,
                    pending |-> (definitions.pending \ Secrets!Activated(t))
                                  \union Secrets!Retired(t)]
<1>1. /\ t \in Tasks /\ EditIsSound(t, refs(definitions), secrets)
      /\ definitions \in Doc /\ DocIsSound(definitions) /\ refs(definitions) \subseteq Drawn
  BY MemoryIsDoc DEF SecretsInv, SecretsTyped, TasksAreSound
<1>2. t \in EditTask /\ Editing(t)
  BY <1>1 DEF Tasks, CleanTask, Editing
<1>3. after \in Definitions
  BY <1>1, <1>2 DEF Secrets!Published, EditTask, Definitions, Doc
<1>4. \A p \in Providers : after[p] = IF p \in t.scope THEN t.plan[p] ELSE definitions.definitions[p]
  BY DEF Secrets!Published
<1>5. next.definitions = after /\ refs(next) = Secrets!definitionReferences(after)
  BY DEF refs
<1>6. Secrets!definitionReferences(after) \subseteq Drawn
  BY <1>3, RefsAreDrawn
<1>7. next \in Doc
  <2>1. Secrets!Retired(t) \subseteq Drawn
    BY <1>1 DEF Secrets!Retired, refs
  <2> QED
    BY <1>1, <1>3, <2>1 DEF Doc
<1>8. ASSUME NEW r \in refs(next) PROVE r \in refs(definitions) \/ r \in Written(t)
  <2>1. PICK p \in Providers : after[p] # None /\ r \in after[p]
    BY <1>5, <1>8, RefsOf
  <2>2. CASE p \notin t.scope
    BY <1>4, <2>1, <2>2, RefsOf DEF refs
  <2>3. CASE p \in t.scope
    <3>1. Sourced(t, p) /\ r \in t.plan[p]
      BY <1>1, <1>2, <1>4, <2>1, <2>3 DEF EditIsSound
    <3>2. definitions.definitions[p] = t.expected[p]
      BY <2>3 DEF Secrets!Unchanged
    <3> QED
      BY <3>1, <3>2, RefsOf DEF Sourced, refs
  <2> QED
    BY <2>2, <2>3
<1>9. \A r \in Drawn : Pledged(r) => r \in refs(next) \union next.pending
  BY <1>1, <1>5 DEF DocIsSound, Secrets!Activated, Secrets!Retired, refs
<1>10. ~gambled => refs(next) \subseteq secrets
  BY <1>1, <1>2, <1>8 DEF DocIsSound, EditIsSound
<1>11. /\ Secrets!Retired(t) \subseteq refs(definitions)
       /\ Secrets!Retired(t) \intersect refs(next) = {}
  BY <1>5 DEF Secrets!Retired, refs
<1> QED
  BY <1>5, <1>7, <1>8, <1>9, <1>10, <1>11

LEMMA PublishStep ==
    ASSUME SecretsInv, NEW c \in Clients, Secrets!Publish(c)
    PROVE  SecretsInv'
<1> DEFINE t == task[c]
           next == [definitions |-> Secrets!Published(t),
                    pending |-> (definitions.pending \ Secrets!Activated(t))
                                  \union Secrets!Retired(t)]
<1>0. t.pc = "bind" /\ UNCHANGED <<running, reserved, secrets, vaultLock, drawn, gambled>>
  BY DEF Secrets!Publish
<1>1. running /\ task[Boot].pc = "idle" /\ Editing(t)
  BY <1>0, BootIsIdle DEF Editing, Secrets!Idle
<1>2. /\ task[c] \in Tasks /\ EditIsSound(task[c], refs(definitions), secrets)
      /\ \A x \in Clients \union {Boot} : x # c => Apart(task[x], task[c])
      /\ \A x \in Clients \union {Boot} : EditIsSound(task[x], refs(definitions), secrets)
      /\ reserved \subseteq Drawn /\ refs(definitions) \subseteq Drawn
  BY MemoryIsDoc DEF SecretsInv, SecretsTyped, TasksAreSound
<1>3. CASE Secrets!Fail(c) /\ UNCHANGED <<definitionFile, definitions>>
  <2>1. FileMoves
    BY <1>1, <1>3, FileStays
  <2> QED
    BY <1>0, <1>1, <1>2, <1>3, <2>1, FailStep
<1>4. ASSUME Secrets!Unchanged(t), NEW out \in Secrets!Update(next), Secrets!Take(out, next),
             IF out.committed THEN Secrets!Become(c, Secrets!AfterPublish(t, out.ok))
             ELSE Secrets!Fail(c)
      PROVE  SecretsInv'
  <2>1. /\ next \in Doc
        /\ \A r \in refs(next) : r \in refs(definitions) \/ r \in Written(t)
        /\ \A r \in Drawn : Pledged(r) => r \in refs(next) \union next.pending
        /\ ~gambled => refs(next) \subseteq secrets
        /\ Secrets!Retired(t) \subseteq refs(definitions)
        /\ Secrets!Retired(t) \intersect refs(next) = {}
    BY <1>0, <1>1, <1>4, PublishedIsSound
  <2> HIDE DEF next
  <2>2. FileMoves /\ definitions' = IF out.committed THEN next ELSE definitions
    BY <1>0, <1>1, <1>4, <2>1, FileStep
  <2>3. CASE ~out.committed
    <3>1. Secrets!Fail(c) /\ refs(definitions') = refs(definitions)
      BY <1>4, <2>2, <2>3
    <3> QED
      BY <1>0, <1>1, <1>2, <2>2, <3>1, FailStep
  <2>4. CASE out.committed
    <3> DEFINE u == Secrets!AfterPublish(t, out.ok)
               todo == Secrets!Retired(t)
    <3>1. u = Secrets!Idle \/ u = Secrets!Cleaning(todo)
      BY DEF Secrets!AfterPublish
    <3>2. task' = [task EXCEPT ![c] = u]
      BY <1>4, <2>4 DEF Secrets!Become
    <3>3. definitions' = next /\ todo \in SUBSET Drawn
      BY <1>2, <2>1, <2>2, <2>4
    <3> HIDE DEF u, todo
    <3>4. todo \intersect refs(definitions') = {}
      BY <2>1, <3>3 DEF todo
    <3>5. \A x \in Clients \union {Boot} :
              x # c /\ Editing(task[x]) => Own(task[x]) \intersect todo = {}
      BY <1>2, <2>1 DEF EditIsSound, todo
    <3>6. \A r \in refs(definitions') : \/ r \in refs(definitions)
                                        \/ Editing(task[c]) /\ r \in Own(task[c])
      BY <1>0, <1>1, <2>1, <3>3 DEF Own, Written
    <3>7. c # Boot
      BY CompanionAssumption
    <3> QED
      BY <1>0, <1>1, <2>2, <3>1, <3>2, <3>3, <3>4, <3>5, <3>6, <3>7, SettleStep
  <2> QED
    BY <2>3, <2>4
<1> QED
  BY <1>3, <1>4 DEF Secrets!Publish

LEMMA DeleteStep ==
    ASSUME SecretsInv, NEW c \in Clients, Secrets!Delete(c)
    PROVE  SecretsInv'
<1>0. /\ running /\ task[Boot].pc = "idle" /\ task[c] = Secrets!Idle
      /\ UNCHANGED <<running, reserved, secrets, vaultLock, drawn, gambled>>
  BY DEF Secrets!Delete, Secrets!Serving
<1>1. PICK p \in Providers :
        /\ definitions.definitions[p] # None
        /\ LET next == [definitions |-> [definitions.definitions EXCEPT ![p] = None],
                        pending |-> definitions.pending \union definitions.definitions[p]]
           IN \E out \in Secrets!Update(next) :
                /\ Secrets!Take(out, next)
                /\ Secrets!Become(c, IF out.ok THEN Secrets!Cleaning(definitions.definitions[p])
                                     ELSE Secrets!Idle)
  BY DEF Secrets!Delete
<1> DEFINE d == [definitions.definitions EXCEPT ![p] = None]
           todo == definitions.definitions[p]
           next == [definitions |-> d, pending |-> definitions.pending \union todo]
<1>2. PICK out \in Secrets!Update(next) :
        /\ Secrets!Take(out, next)
        /\ Secrets!Become(c, IF out.ok THEN Secrets!Cleaning(todo) ELSE Secrets!Idle)
  BY <1>1
<1>3. /\ definitions \in Doc /\ DocIsSound(definitions) /\ definitions.definitions \in Definitions
      /\ \A x \in Clients \union {Boot} : EditIsSound(task[x], refs(definitions), secrets)
  BY <1>0, MemoryIsDoc DEF Doc, SecretsInv, TasksAreSound
<1>4. todo \in SUBSET Drawn /\ d \in Definitions
  BY <1>1, <1>3 DEF Definitions
<1>5. \A q \in Providers : d[q] = IF q = p THEN None ELSE definitions.definitions[q]
  BY <1>3 DEF Definitions
<1>6. next \in Doc /\ next.definitions = d /\ next.pending = definitions.pending \union todo
  BY <1>3, <1>4 DEF Doc
<1>7. todo \subseteq refs(definitions)
  BY <1>1, RefsOf DEF refs
<1> HIDE DEF next, d, todo
<1>8. \A r \in refs(next) : r \in refs(definitions)
  BY <1>5, <1>6, RefsOf DEF refs
<1>9. \A r \in refs(definitions) : r \in refs(next) \/ r \in todo
  BY <1>1, <1>5, <1>6, RefsOf DEF refs, todo
<1>10. /\ \A r \in Drawn : Pledged(r) => r \in refs(next) \union next.pending
       /\ ~gambled => refs(next) \subseteq secrets
  BY <1>3, <1>6, <1>8, <1>9 DEF DocIsSound
<1>11. /\ FileMoves /\ definitions' = IF out.committed THEN next ELSE definitions
       /\ out.committed => next.pending \intersect refs(next) = {}
       /\ out.ok => out.committed
  BY <1>0, <1>2, <1>6, <1>10, FileStep
<1>12. \A r \in refs(definitions') : r \in refs(definitions)
  BY <1>8, <1>11
<1>13. c # Boot
  BY CompanionAssumption
<1>14. CASE out.ok
  <2>1. todo \intersect refs(definitions') = {}
    BY <1>6, <1>11, <1>14
  <2>2. \A x \in Clients \union {Boot} :
              x # c /\ Editing(task[x]) => Own(task[x]) \intersect todo = {}
    BY <1>3, <1>7 DEF EditIsSound
  <2>3. task' = [task EXCEPT ![c] = Secrets!Cleaning(todo)]
    BY <1>2, <1>14 DEF Secrets!Become
  <2> QED
    BY <1>0, <1>4, <1>11, <1>12, <1>13, <2>1, <2>2, <2>3, SettleStep
<1>15. CASE ~out.ok
  <2>1. task' = [task EXCEPT ![c] = Secrets!Idle]
    BY <1>2, <1>15 DEF Secrets!Become
  <2>2. {} \in SUBSET Drawn
    OBVIOUS
  <2> QED
    BY <1>0, <1>11, <1>12, <1>13, <2>1, <2>2, SettleStep
<1> QED
  BY <1>14, <1>15

\* A reference is deleted from the vault, or stays.  It is in no definition, so
\* only a content that a crash may bring back could miss it.
LEMMA RemoveStep ==
    ASSUME SecretsInv, NEW c \in Clients \union {Boot}, Secrets!Remove(c)
    PROVE  SecretsInv'
<1>0. /\ task[c].pc = "clean" /\ vaultLock = None
      /\ UNCHANGED <<definitionFile, running, definitions, vaultLock, drawn>>
  BY DEF Secrets!Remove
<1>1. /\ task[c] \in Tasks /\ CleanIsSound(task[c], refs(definitions), secrets)
      /\ \A x \in Clients \union {Boot} : x # c => Apart(task[x], task[c])
      /\ task \in [Clients \union {Boot} -> Tasks] /\ secrets \subseteq Drawn /\ reserved \subseteq Drawn
      /\ refs(definitions) \subseteq Drawn
  BY MemoryIsDoc DEF SecretsInv, SecretsTyped, TasksAreSound
<1>2. task[c] \in CleanTask
  BY <1>0, <1>1 DEF Tasks, EditTask
<1>3. /\ running
      /\ c \in Clients => task[Boot].pc = "idle"
      /\ c = Boot => \A x \in Clients : task[x] = Secrets!Idle
  BY <1>0 DEF SecretsInv, MemoryIsFile, TasksAreSound, Secrets!Idle
<1>4. FileMoves
  BY <1>0, <1>3, FileStays
<1>5. PICK r \in task[c].todo :
         \/ /\ reserved' = reserved \ {r} /\ secrets' = secrets \ {r}
            /\ gambled' = (gambled \/ definitionFile.crash # {definitionFile.now})
            /\ Secrets!Become(c, [task[c] EXCEPT !.todo = @ \ {r}, !.deleted = @ \union {r}])
         \/ /\ Secrets!Become(c, [task[c] EXCEPT !.todo = @ \ {r}])
            /\ UNCHANGED <<reserved, secrets, gambled>>
  BY DEF Secrets!Remove
<1>6. PICK t \in CleanTask :
         /\ task' = [task EXCEPT ![c] = t] /\ t.todo = task[c].todo \ {r}
         /\ \/ /\ reserved' = reserved \ {r} /\ secrets' = secrets \ {r}
               /\ gambled' = (gambled \/ definitionFile.crash # {definitionFile.now})
               /\ t.deleted = task[c].deleted \union {r}
            \/ t.deleted = task[c].deleted /\ UNCHANGED <<reserved, secrets, gambled>>
  <2> DEFINE t1 == [task[c] EXCEPT !.todo = @ \ {r}, !.deleted = @ \union {r}]
             t2 == [task[c] EXCEPT !.todo = @ \ {r}]
  <2>1. /\ t1 \in CleanTask /\ t1.todo = task[c].todo \ {r}
        /\ t1.deleted = task[c].deleted \union {r}
    BY <1>2 DEF CleanTask
  <2>2. /\ t2 \in CleanTask /\ t2.todo = task[c].todo \ {r}
        /\ t2.deleted = task[c].deleted
    BY <1>2 DEF CleanTask
  <2> QED
    BY <1>5, <2>1, <2>2 DEF Secrets!Become
<1>7. /\ t \in Tasks /\ t.pc = "clean" /\ ~Editing(t)
      /\ t.todo \union t.deleted \subseteq task[c].todo \union task[c].deleted
  BY <1>6 DEF Tasks, CleanTask, Editing
<1>8. /\ EditIsSound(t, refs(definitions'), secrets') /\ CleanIsSound(t, refs(definitions'), secrets')
  BY <1>0, <1>1, <1>6, <1>7 DEF EditIsSound, CleanIsSound
<1>9. \A x \in Clients \union {Boot} : x # c => Apart(t, task[x]) /\ Apart(task[x], t)
  BY <1>0, <1>1, <1>7 DEF Apart
<1>10. secrets' \subseteq secrets /\ reserved' \subseteq reserved
       /\ \A x \in secrets \ secrets' : x \in task[c].todo
  BY <1>6
<1>11. TasksAreSound' /\ task' \in [Clients \union {Boot} -> Tasks]
  <2>1. task' = [task EXCEPT ![c] = t] /\ drawn' = drawn /\ vaultLock' = vaultLock
    BY <1>0, <1>6
  <2>2. /\ \A x \in refs(definitions') : x \in refs(definitions)
        /\ \A x \in secrets' : x \in secrets
        /\ \A x \in secrets \ secrets' : task[c].pc = "clean" /\ x \in task[c].todo
    BY <1>0, <1>10
  <2> QED
    BY <1>3, <1>7, <1>8, <1>9, <2>1, <2>2, OneTask
<1>12. \A x \in Drawn : Pledged(x)' => Pledged(x)
  BY <1>6, <1>7, <1>10, PledgesStay
<1>13. ASSUME NEW s \in definitionFile'.crash PROVE s \in Doc /\ DocIsSound(s)'
  <2>1. s \in Doc /\ DocIsSound(s)
    BY <1>4, <1>13 DEF FileMoves
  <2>2. ~gambled' => refs(s) \subseteq secrets'
    <3>1. CASE UNCHANGED <<secrets, gambled>>
      BY <2>1, <3>1 DEF DocIsSound
    <3>2. CASE /\ secrets' = secrets \ {r}
               /\ gambled' = (gambled \/ definitionFile.crash # {definitionFile.now})
      <4> SUFFICES ASSUME ~gambled' PROVE refs(s) \subseteq secrets'
        OBVIOUS
      <4>1. ~gambled /\ s = definitionFile.now
        BY <1>0, <1>13, <3>2
      <4>2. s = definitions
        BY <1>3, <4>1 DEF SecretsInv, MemoryIsFile
      <4>3. r \notin refs(s) /\ refs(s) \subseteq secrets
        BY <1>0, <1>1, <2>1, <4>1, <4>2 DEF CleanIsSound, DocIsSound
      <4> QED
        BY <3>2, <4>3
    <3> QED
      BY <1>6, <3>1, <3>2
  <2> QED
    BY <1>0, <1>12, <2>1, <2>2 DEF DocIsSound, Drawn, refs
<1> QED
  BY <1>0, <1>1, <1>3, <1>4, <1>10, <1>11, <1>13, SecretsAssembled

\* What was deleted leaves the journal.
LEMMA CompleteCleanupStep ==
    ASSUME SecretsInv, NEW c \in Clients \union {Boot}, Secrets!CompleteCleanup(c)
    PROVE  SecretsInv'
<1> DEFINE next == [definitions EXCEPT !.pending = @ \ task[c].deleted]
<1>0. /\ task[c].pc = "clean" /\ task' = [task EXCEPT ![c] = Secrets!Idle]
      /\ UNCHANGED <<running, reserved, secrets, vaultLock, drawn, gambled>>
  BY DEF Secrets!CompleteCleanup, Secrets!Become
<1>1. /\ running
      /\ c \in Clients => task[Boot].pc = "idle"
      /\ c = Boot => \A x \in Clients : task[x] = Secrets!Idle
  BY <1>0 DEF SecretsInv, MemoryIsFile, TasksAreSound, Secrets!Idle
<1>2. /\ CleanIsSound(task[c], refs(definitions), secrets)
      /\ \A x \in Clients \union {Boot} : x # c => Apart(task[x], task[c])
      /\ definitions \in Doc /\ DocIsSound(definitions)
  BY <1>1, MemoryIsDoc DEF SecretsInv, TasksAreSound
<1>3. FileMoves /\ refs(definitions') = refs(definitions)
  <2>1. CASE UNCHANGED <<definitionFile, definitions>>
    BY <1>1, <2>1, FileStays
  <2>2. ASSUME NEW out \in Secrets!Update(next), Secrets!Take(out, next)
        PROVE  FileMoves /\ refs(definitions') = refs(definitions)
    <3>1. /\ next \in Doc /\ refs(next) = refs(definitions)
          /\ next.pending = definitions.pending \ task[c].deleted
      BY <1>2 DEF Doc, refs
    <3> HIDE DEF next
    <3>2. \A r \in Drawn : Pledged(r) => r \notin task[c].deleted
      <4> SUFFICES ASSUME NEW x \in Clients, task[x].pc = "write"
                   PROVE  task[x].ref \notin task[c].deleted
        BY <1>0, <1>2 DEF Pledged, CleanIsSound
      <4>1. x # c /\ Editing(task[x]) /\ task[x].ref \in Own(task[x])
        BY <1>0 DEF Editing, Own
      <4> QED
        BY <1>0, <1>2, <4>1 DEF Apart
    <3>3. /\ \A r \in Drawn : Pledged(r) => r \in refs(next) \union next.pending
          /\ ~gambled => refs(next) \subseteq secrets
      BY <1>2, <3>1, <3>2 DEF DocIsSound
    <3> QED
      BY <1>0, <1>1, <2>2, <3>1, <3>3, FileStep
  <2> QED
    BY <2>1, <2>2 DEF Secrets!CompleteCleanup
<1>4. {} \in SUBSET Drawn
  OBVIOUS
<1> QED
  BY <1>0, <1>1, <1>3, <1>4, SettleStep

LEMMA ReconcileStep == ASSUME SecretsInv, Secrets!Reconcile PROVE SecretsInv'
<1> DEFINE orphans == (reserved \ Secrets!definitionReferences(definitions.definitions))
                         \ definitions.pending
           next == [definitions EXCEPT !.pending = @ \union orphans]
<1>0. /\ task[Boot].pc = "reconcile"
      /\ UNCHANGED <<running, reserved, secrets, vaultLock, drawn, gambled>>
  BY DEF Secrets!Reconcile
<1>1. running /\ \A x \in Clients : task[x] = Secrets!Idle
  BY <1>0 DEF SecretsInv, MemoryIsFile, TasksAreSound, Secrets!Idle
<1>2. /\ definitions \in Doc /\ DocIsSound(definitions) /\ reserved \subseteq Drawn
      /\ Boot \notin Clients
  BY <1>1, MemoryIsDoc, CompanionAssumption DEF SecretsInv, SecretsTyped
<1>3. \A x \in Clients \union {Boot} : x # Boot => ~Editing(task[x])
  BY <1>1, IdleIsSound
<1>4. CASE task' = [task EXCEPT ![Boot] = Secrets!Idle] /\ UNCHANGED <<definitionFile, definitions>>
  <2>1. FileMoves /\ {} \in SUBSET Drawn
    BY <1>1, <1>4, FileStays
  <2> QED
    BY <1>0, <1>1, <1>2, <1>3, <1>4, <2>1, SettleStep
<1>5. CASE /\ task' = [task EXCEPT ![Boot] = Secrets!Cleaning(definitions.pending)]
           /\ UNCHANGED <<definitionFile, definitions>>
  <2>1. FileMoves /\ definitions.pending \in SUBSET Drawn
    BY <1>1, <1>2, <1>5, FileStays DEF Doc
  <2>2. definitions.pending \intersect refs(definitions') = {}
    BY <1>2, <1>5 DEF DocIsSound
  <2> QED
    BY <1>0, <1>1, <1>2, <1>3, <1>5, <2>1, <2>2, SettleStep
<1>6. ASSUME NEW out \in Secrets!Update(next), Secrets!Take(out, next),
             task' = [task EXCEPT ![Boot] = IF out.ok THEN Secrets!Cleaning(next.pending)
                                            ELSE Secrets!Idle]
      PROVE  SecretsInv'
  <2>1. /\ next \in Doc /\ refs(next) = refs(definitions)
        /\ next.pending = definitions.pending \union orphans
    BY <1>2 DEF Doc, refs
  <2> HIDE DEF next, orphans
  <2>2. /\ \A r \in Drawn : Pledged(r) => r \in refs(next) \union next.pending
        /\ ~gambled => refs(next) \subseteq secrets
    BY <1>2, <2>1 DEF DocIsSound
  <2>3. /\ FileMoves /\ definitions' = IF out.committed THEN next ELSE definitions
        /\ out.committed => next.pending \intersect refs(next) = {}
        /\ out.ok => out.committed
    BY <1>0, <1>1, <1>6, <2>1, <2>2, FileStep
  <2>4. refs(definitions') = refs(definitions) /\ next.pending \in SUBSET Drawn
    BY <2>1, <2>3 DEF Doc
  <2>5. CASE out.ok
    <3>1. task' = [task EXCEPT ![Boot] = Secrets!Cleaning(next.pending)]
      BY <1>6, <2>5
    <3>2. next.pending \intersect refs(definitions') = {}
      BY <2>3, <2>5
    <3> QED
      BY <1>0, <1>1, <1>2, <1>3, <2>3, <2>4, <3>1, <3>2, SettleStep
  <2>6. CASE ~out.ok
    <3>1. task' = [task EXCEPT ![Boot] = Secrets!Idle] /\ {} \in SUBSET Drawn
      BY <1>6, <2>6
    <3> QED
      BY <1>0, <1>1, <1>2, <1>3, <2>3, <2>4, <3>1, SettleStep
  <2> QED
    BY <2>5, <2>6
<1> QED
  BY <1>4, <1>5, <1>6 DEF Secrets!Reconcile, Secrets!Become

\* A start finds the file as it is; a crash leaves one of its contents.
LEMMA StartStopStep ==
    ASSUME SecretsInv, Secrets!Start \/ Secrets!Crash
    PROVE  SecretsInv'
<1>0. /\ UNCHANGED <<reserved, secrets, drawn, gambled>> /\ running' \in BOOLEAN
      /\ definitionFile'.now \in definitionFile'.crash
      /\ \A s \in definitionFile'.crash : s \in definitionFile.crash
      /\ running' => definitions' = definitionFile'.now
  <2>1. CASE Secrets!Start
    BY <2>1 DEF Secrets!Start, SecretsInv, SecretsTyped
  <2>2. CASE Secrets!Crash
    <3>1. /\ UNCHANGED <<reserved, secrets, drawn, gambled>> /\ running' = FALSE
          /\ definitionFile' \in {definitionFile}
                                 \union {Secrets!File(v) : v \in definitionFile.crash}
      BY <2>2 DEF Secrets!Crash
    <3>2. CASE definitionFile' = definitionFile
      BY <3>1, <3>2 DEF SecretsInv, SecretsTyped
    <3>3. ASSUME NEW v \in definitionFile.crash, definitionFile' = Secrets!File(v)
          PROVE  definitionFile'.now = v /\ definitionFile'.crash = {v}
      BY <3>3 DEF Secrets!File
    <3> QED
      BY <3>1, <3>2, <3>3
  <2> QED
    BY <2>1, <2>2
<1>1. task \in [Clients \union {Boot} -> Tasks] /\ Boot \notin Clients
  BY CompanionAssumption DEF SecretsInv, SecretsTyped
<1>2. /\ \A x \in Clients : task'[x] = Secrets!Idle
      /\ task'[Boot] \in {Secrets!Idle, [pc |-> "reconcile"]}
      /\ task' \in [Clients \union {Boot} -> Tasks]
      /\ ~running' => /\ definitions' = Secrets!emptyDefinitionStoreState
                      /\ task'[Boot] = Secrets!Idle
  <2>1. CASE Secrets!Start
    <3>1. task' = [task EXCEPT ![Boot] = [pc |-> "reconcile"]] /\ running'
      BY <2>1 DEF Secrets!Start, Secrets!Become
    <3>2. \A x \in Clients : task[x] = Secrets!Idle
      BY <2>1 DEF Secrets!Start, SecretsInv, MemoryIsFile
    <3>3. [pc |-> "reconcile"] \in Tasks
      BY DEF Tasks
    <3> QED
      BY <1>1, <3>1, <3>2, <3>3
  <2>2. CASE Secrets!Crash
    <3>1. /\ task' = [x \in Clients \union {Boot} |-> Secrets!Idle]
          /\ definitions' = Secrets!emptyDefinitionStoreState
      BY <1>1, <2>2 DEF Secrets!Crash
    <3> QED
      BY <3>1, IdleIsSound
  <2> QED
    BY <2>1, <2>2
<1>3. \A x \in Clients \union {Boot} : task'[x].pc \in {"idle", "reconcile"}
  BY <1>2, IdleIsSound
<1>4. TasksAreSound'
  BY <1>2, <1>3, IdleIsSound DEF TasksAreSound, EditIsSound, CleanIsSound, Apart, Editing
<1>5. ASSUME NEW s \in definitionFile'.crash PROVE s \in Doc /\ DocIsSound(s)'
  <2>1. s \in Doc /\ DocIsSound(s)
    BY <1>0, <1>5 DEF SecretsInv, SecretsTyped
  <2>2. \A r : Pledged(r)' => Pledged(r)
    BY <1>0, <1>3 DEF Pledged
  <2> QED
    BY <1>0, <2>1, <2>2 DEF DocIsSound, Drawn, refs
<1>6. SecretsTyped'
  BY <1>0, <1>2, <1>5 DEF SecretsInv, SecretsTyped, Drawn, Doc, Definitions, Tasks, EditTask, CleanTask
<1>7. MemoryIsFile'
  BY <1>0, <1>2 DEF MemoryIsFile
<1> QED
  BY <1>4, <1>5, <1>6, <1>7 DEF SecretsInv

LEMMA SecretsInitially == MCInit => SecretsInv
<1> SUFFICES ASSUME Secrets!Init PROVE SecretsInv
  BY DEF MCInit
<1> DEFINE e == Secrets!emptyDefinitionStoreState
<1>1. /\ definitionFile.now = e /\ definitionFile.crash = {e} /\ definitions = e /\ ~running
      /\ secrets = {} /\ reserved = {} /\ drawn = 0 /\ running \in BOOLEAN
      /\ task = [c \in Clients \union {Boot} |-> Secrets!Idle]
  BY DEF Secrets!Init, Secrets!File
<1>2. e \in Doc /\ e.pending = {} /\ e.definitions = [p \in Providers |-> None]
  BY DEF Secrets!emptyDefinitionStoreState, Secrets!NoDefinitions, Doc, Definitions
<1>3. refs(e) = {}
  BY <1>2, RefsOf DEF refs
<1> HIDE DEF e
<1>4. \A x \in Clients \union {Boot} : task[x] = Secrets!Idle /\ task[x].pc = "idle"
  BY <1>1, IdleIsSound
<1>5. TasksAreSound
  BY <1>4, IdleIsSound DEF TasksAreSound
<1>6. SecretsTyped
  BY <1>1, <1>2, IdleIsSound DEF SecretsTyped
<1>7. MemoryIsFile
  BY <1>1, <1>4 DEF MemoryIsFile, e
<1>8. DocIsSound(e)
  BY <1>1, <1>2, <1>3, <1>4 DEF DocIsSound, Pledged
<1> QED
  BY <1>1, <1>5, <1>6, <1>7, <1>8 DEF SecretsInv

LEMMA SecretsStay == ASSUME SecretsInv, UNCHANGED secretVars PROVE SecretsInv'
<1>1. \A r : Pledged(r)' = Pledged(r)
  BY DEF secretVars, Pledged
<1>2. \A s : DocIsSound(s)' = DocIsSound(s)
  BY <1>1 DEF secretVars, DocIsSound, Drawn, refs
<1>3. SecretsTyped' /\ MemoryIsFile'
  BY DEF secretVars, SecretsInv, SecretsTyped, MemoryIsFile, Drawn, Doc, Definitions, Tasks, EditTask,
         CleanTask
<1>4. TasksAreSound'
  BY DEF secretVars, SecretsInv, TasksAreSound, EditIsSound, Sourced, Drawn, refs
<1> QED
  BY <1>2, <1>3, <1>4 DEF secretVars, SecretsInv

LEMMA SecretsInvariant == MCSpec => []SecretsInv
<1>1. SecretsInv /\ [MCNext]_<<part, vars, hubVars, leaseVars, secretVars, installVars, ringVars>>
        => SecretsInv'
  <2> SUFFICES ASSUME SecretsInv, Secrets!Next \/ UNCHANGED secretVars PROVE SecretsInv'
    BY DEF MCNext
  <2> QED
    BY SecretsStay, EditBegins, ReserveStep, StageStep, WriteSecretStep, PublishStep, DeleteStep,
       UpdateSettingsStep, RemoveStep, CompleteCleanupStep, ReconcileStep, StartStopStep
    DEF Secrets!Next
<1> QED
  BY <1>1, SecretsInitially, PTL DEF MCSpec

\* A definition never loses its credential, in memory or in what a restart may
\* find, unless one was deleted while the last rename was unsynced; and each
\* credential in the vault belongs to a definition or to the journal, whatever a
\* crash leaves of the file: for any number of concurrent saves, imports and
\* deletions (PutNew, CommitDefinition, ReconcileCleanup).
THEOREM SecretsStayKept == MCSpec => []SecretsAreKept
<1>1. SecretsInv => SecretsAreKept
  <2> SUFFICES ASSUME SecretsInv
               PROVE  /\ ~gambled => refs(definitions) \subseteq secrets
                      /\ \A s \in definitionFile.crash :
                            /\ ~gambled => refs(s) \subseteq secrets
                            /\ secrets \subseteq refs(s) \union s.pending
    BY DEF SecretsAreKept, Secrets!DefinitionsKeepSecrets, Secrets!NoSecretForgotten, refs
  <2>1. \A s \in definitionFile.crash :
            /\ ~gambled => refs(s) \subseteq secrets
            /\ secrets \subseteq refs(s) \union s.pending
    BY DEF SecretsInv, SecretsTyped, DocIsSound, Pledged
  <2>2. CASE running
    BY <2>1, <2>2 DEF SecretsInv, SecretsTyped, MemoryIsFile
  <2>3. CASE ~running
    <3>1. definitions.definitions = [p \in Providers |-> None]
      BY <2>3 DEF SecretsInv, MemoryIsFile, Secrets!emptyDefinitionStoreState, Secrets!NoDefinitions
    <3>2. refs(definitions) = {}
      BY <3>1, RefsOf DEF refs
    <3> QED
      BY <2>1, <3>2
  <2> QED
    BY <2>2, <2>3
<1> QED
  BY <1>1, SecretsInvariant, PTL

-----------------------------------------------------------------------------
\* The installation.

InstallContent == [journal : Journals \union {None}, state : InstallStates \union {None}]
Registrations == [exe : Versions \union {None}, enabled : BOOLEAN, marker : BOOLEAN]

Forward == {"migrate", "configure", "state", "enable", "enabled", "remove", "forget", "commit"}
Backward == {"restore", "unregister", "reenable", "restate", "finish"}

BegunOp == [cmd : Install!Commands, pc : {"open", "run"}, fenced : BOOLEAN,
            version : Versions \union {None}]
EnteredOp == [cmd : Install!Commands, pc : Forward \union Backward \union {"run"}, fenced : BOOLEAN,
              version : Versions \union {None}, journal : Journals, file : Nat,
              failed : BOOLEAN, recovering : BOOLEAN]

\* The transaction is under way, forward or back.
Active == op.pc \in Forward \union Backward

\* A journal that restores has a backup, one that does not reconfigure began
\* with an installation and keeps its version.
JournalIsSound(j) ==
    /\ j.restore => j.backup \in DataFiles
    /\ ~j.reconfigure => (j.prior # None /\ j.next.version = j.prior.version)

RootIsSound ==
    /\ root.now \in root.crash
    /\ \A c \in root.crash : /\ c \in InstallContent
                             /\ c.journal # None => JournalIsSound(c.journal)

\* A command that may touch the data has fenced the Companion off.
OpIsSound ==
    /\ op \in BegunOp \union EnteredOp \union {Install!Idle}
    /\ op.pc = "run" => root.now.journal = None
    /\ (op.pc # "idle" /\ op.cmd = "install") => (op.version \in Versions /\ op.fenced)
    /\ op.pc = "open" => op.fenced
    /\ op.fenced => ~app
    /\ Active => (op \in EnteredOp /\ JournalIsSound(op.journal))
    /\ (Active /\ op.journal.restore) => op.fenced
    /\ op.pc = "reenable" => op.journal.prior # None

\* The data goes back file by file, and unless that failed it is back before
\* anything else is.
DataGoesBack ==
    /\ op.pc = "restore" =>
         /\ op.journal.restore /\ ~op.failed
         /\ \A f \in Install!Files : f < op.file => data[f] = op.journal.backup[f]
    /\ (op.pc \in Backward \ {"restore"} /\ op.journal.restore /\ ~op.failed)
         => data = op.journal.backup

\* On Windows only a task with its marker is ever enabled.
Marked == platform = "launchagent" \/ reg.marker

\* The registration is what state s says.
Registered(s) ==
    /\ s = None => ~reg.enabled
    /\ s # None => (reg.exe = s.version /\ reg.enabled = s.enabled /\ Marked)

\* A content without a journal tells the registration; one whose journal does not
\* reconfigure tells what is registered, enabled or not.
ContentIsSound(c) ==
    /\ c.journal = None => (c.state = root.now.state /\ Registered(c.state))
    /\ (c.journal # None /\ ~c.journal.reconfigure) =>
          /\ reg.exe = c.journal.prior.version /\ Marked
          /\ c.state # None /\ root.now.state # None

\* What each step of a transaction has achieved.
Achieved ==
    /\ op.pc \in {"migrate", "configure", "state"} => op.journal.next.version = op.version
    /\ op.pc \in {"migrate", "configure", "state", "remove", "forget"} => op.journal.reconfigure
    /\ op.pc \in {"state", "enable", "enabled"} => (reg.exe = op.journal.next.version /\ Marked)
    /\ op.pc = "enabled" => reg.enabled = Install!Enabling
    /\ op.pc = "forget" => ~reg.enabled
    /\ op.pc = "commit" => Registered(root.now.state)
    /\ op.pc = "reenable" => (reg.exe = op.journal.prior.version /\ Marked)
    /\ (op.pc = "restate" /\ ~op.failed) => Registered(op.journal.prior)
    /\ (op.pc = "finish" /\ ~op.failed) => Registered(root.now.state)

\* The contents a crash may leave hold one journal, if all of them hold one.
CrashIsSound ==
    /\ reg.enabled => Marked
    /\ \A c \in root.crash : ContentIsSound(c)
    /\ (\A c \in root.crash : c.journal # None) =>
          \A c \in root.crash : c.journal = root.now.journal

\* While a transaction is under way every content holds its journal.
JournalIsKept == Active => \A c \in root.crash : c.journal = op.journal

RegistrationIsSound == CrashIsSound /\ JournalIsKept /\ Achieved

InstallInv ==
    /\ reg \in Registrations /\ data \in DataFiles /\ app \in BOOLEAN /\ unsure \in BOOLEAN
    /\ RootIsSound /\ OpIsSound /\ DataGoesBack
    /\ ~unsure => RegistrationIsSound

\* What becomes of the root when its content is to be c.
Dirty(c) == [now |-> c, crash |-> root.crash \union {c}]
Synced(c) == [now |-> c, crash |-> {c}]

WithJournal(j) == [journal |-> j, state |-> root.now.state]
WithState(s) == [journal |-> root.now.journal, state |-> s]

LEMMA ContentFields ==
  ASSUME RootIsSound
  PROVE  /\ root.now \in InstallContent
         /\ \A v : [root.now EXCEPT !["journal"] = v] = WithJournal(v)
         /\ \A v : [root.now EXCEPT !["state"] = v] = WithState(v)
<1>1. root.now \in InstallContent
  BY DEF RootIsSound
<1> QED
  BY <1>1 DEF InstallContent, WithJournal, WithState

LEMMA JournalWrites ==
  ASSUME RootIsSound, NEW v, NEW out \in Install!Write("journal", v)
  PROVE  /\ out.root \in {root, Dirty(WithJournal(v)), Synced(WithJournal(v))}
         /\ out.ok \in BOOLEAN
         /\ out.ok => out.root = Synced(WithJournal(v))
<1> DEFINE c == WithJournal(v)
<1>1. \/ out = [root |-> root, ok |-> FALSE]
      \/ out = [root |-> Dirty(c), ok |-> FALSE]
      \/ out = [root |-> Synced(c), ok |-> FALSE]
      \/ out = [root |-> Synced(c), ok |-> TRUE]
  BY ContentFields DEF Install!Write, Dirty, Synced
<1> HIDE DEF c
<1>2. CASE out = [root |-> root, ok |-> FALSE]
  BY <1>2 DEF c
<1>3. CASE out = [root |-> Dirty(c), ok |-> FALSE]
  BY <1>3 DEF c
<1>4. CASE out = [root |-> Synced(c), ok |-> FALSE]
  BY <1>4 DEF c
<1>5. CASE out = [root |-> Synced(c), ok |-> TRUE]
  BY <1>5 DEF c
<1> QED
  BY <1>1, <1>2, <1>3, <1>4, <1>5

LEMMA StateWrites ==
  ASSUME RootIsSound, NEW v, NEW out \in Install!Write("state", v)
  PROVE  /\ out.root \in {root, Dirty(WithState(v)), Synced(WithState(v))}
         /\ out.ok \in BOOLEAN
         /\ out.ok => out.root = Synced(WithState(v))
<1> DEFINE c == WithState(v)
<1>1. \/ out = [root |-> root, ok |-> FALSE]
      \/ out = [root |-> Dirty(c), ok |-> FALSE]
      \/ out = [root |-> Synced(c), ok |-> FALSE]
      \/ out = [root |-> Synced(c), ok |-> TRUE]
  BY ContentFields DEF Install!Write, Dirty, Synced
<1> HIDE DEF c
<1>2. CASE out = [root |-> root, ok |-> FALSE]
  BY <1>2 DEF c
<1>3. CASE out = [root |-> Dirty(c), ok |-> FALSE]
  BY <1>3 DEF c
<1>4. CASE out = [root |-> Synced(c), ok |-> FALSE]
  BY <1>4 DEF c
<1>5. CASE out = [root |-> Synced(c), ok |-> TRUE]
  BY <1>5 DEF c
<1> QED
  BY <1>1, <1>2, <1>3, <1>4, <1>5

LEMMA Unlinks ==
  ASSUME RootIsSound, NEW field \in {"journal", "state"}, NEW out \in Install!Unlink(field)
  PROVE  /\ out.ok \in BOOLEAN
         /\ ~out.ok => out.root = root
         /\ out.ok => out.root = IF field = "journal" THEN Dirty(WithJournal(None))
                                 ELSE Dirty(WithState(None))
<1> DEFINE c == IF field = "journal" THEN Dirty(WithJournal(None)) ELSE Dirty(WithState(None))
<1>1. \/ out = [root |-> root, ok |-> FALSE]
      \/ out = [root |-> c, ok |-> TRUE]
  BY ContentFields DEF Install!Unlink, Dirty
<1> HIDE DEF c
<1>2. CASE out = [root |-> root, ok |-> FALSE]
  BY <1>2
<1>3. CASE out = [root |-> c, ok |-> TRUE]
  BY <1>3 DEF c
<1> QED
  BY <1>1, <1>2, <1>3

LEMMA RootMoves ==
  ASSUME RootIsSound, NEW c \in InstallContent, c.journal # None => JournalIsSound(c.journal),
         root' \in {root, Dirty(c), Synced(c)}
  PROVE  RootIsSound'
  BY DEF RootIsSound, Dirty, Synced, JournalIsSound

LEMMA RootStays == ASSUME RootIsSound, root' = root PROVE RootIsSound'
  BY DEF RootIsSound, JournalIsSound

\* What the platform adapters leave registered.
LEMMA Reported ==
  /\ \A r, out : out \in Install!Done(r) => (out.reg = r /\ out.ok = TRUE)
  /\ \A R, out : out \in Install!Failed(R) => (out.reg \in R /\ out.ok = FALSE)
  BY DEF Install!Done, Install!Failed

LEMMA ConfigureOutcome ==
  ASSUME reg \in Registrations, NEW v \in Versions \union {None}, NEW out \in Install!Configure(v)
  PROVE  /\ out.reg \in Registrations /\ out.ok \in BOOLEAN
         /\ out.reg = reg \/ out.reg.enabled = FALSE
         /\ out.ok => (out.reg.exe = v /\ (platform = "launchagent" \/ out.reg.marker))
<1>1. CASE platform = "launchagent"
  <2> DEFINE new == [exe |-> v, enabled |-> FALSE, marker |-> FALSE]
             off == [reg EXCEPT !.enabled = FALSE]
  <2>1. out \in Install!Done(new) \union Install!Failed({reg, off, new})
    BY <1>1 DEF Install!Configure
  <2>2. new \in Registrations /\ new.enabled = FALSE /\ new.exe = v
    BY DEF Registrations
  <2>3. off \in Registrations /\ off.enabled = FALSE
    BY DEF Registrations
  <2> HIDE DEF new, off
  <2>4. CASE out \in Install!Done(new)
    BY <1>1, <2>2, <2>4, Reported, Zenon
  <2>5. CASE out \in Install!Failed({reg, off, new})
    <3>1. out.reg \in {reg, off, new} /\ out.ok = FALSE
      BY <2>5, Reported, Zenon
    <3> QED
      BY <2>2, <2>3, <3>1, Zenon
  <2> QED
    BY <2>1, <2>4, <2>5
<1>2. CASE platform # "launchagent"
  <2> DEFINE new == [reg EXCEPT !.exe = v, !.enabled = FALSE]
             gone == [reg EXCEPT !.exe = None, !.enabled = FALSE]
             marked == [new EXCEPT !.marker = TRUE]
             left == [gone EXCEPT !.marker = TRUE]
  <2>1. out \in Install!Done(marked) \union Install!Failed({reg, new, gone, marked, left})
    BY <1>2 DEF Install!Configure
  <2>2. new \in Registrations /\ new.enabled = FALSE /\ new.exe = v
    BY DEF Registrations
  <2>3. gone \in Registrations /\ gone.enabled = FALSE
    BY DEF Registrations
  <2>4. marked \in Registrations /\ marked.enabled = FALSE /\ marked.exe = v /\ marked.marker = TRUE
    BY DEF Registrations
  <2>5. left \in Registrations /\ left.enabled = FALSE
    BY DEF Registrations
  <2> HIDE DEF new, gone, marked, left
  <2>6. CASE out \in Install!Done(marked)
    BY <2>4, <2>6, Reported, Zenon
  <2>7. CASE out \in Install!Failed({reg, new, gone, marked, left})
    <3>1. out.reg \in {reg, new, gone, marked, left} /\ out.ok = FALSE
      BY <2>7, Reported, Zenon
    <3> QED
      BY <2>2, <2>3, <2>4, <2>5, <3>1, Zenon
  <2> QED
    BY <2>1, <2>6, <2>7
<1> QED
  BY <1>1, <1>2

LEMMA SetEnabledOutcome ==
  ASSUME reg \in Registrations, NEW b \in BOOLEAN, reg.exe # None, NEW out \in Install!SetEnabled(b)
  PROVE  /\ out.reg \in Registrations /\ out.ok \in BOOLEAN
         /\ out.reg.exe = reg.exe /\ out.reg.marker = reg.marker
         /\ out.ok => out.reg.enabled = b
<1> DEFINE new == [reg EXCEPT !.enabled = b]
           off == [reg EXCEPT !.enabled = FALSE]
<1>1. out \in Install!Done(new) \union Install!Failed({reg, off, new})
  BY DEF Install!SetEnabled
<1>2. new \in Registrations /\ new.enabled = b /\ new.exe = reg.exe /\ new.marker = reg.marker
  BY DEF Registrations
<1>3. off \in Registrations /\ off.exe = reg.exe /\ off.marker = reg.marker
  BY DEF Registrations
<1> HIDE DEF new, off
<1>4. CASE out \in Install!Done(new)
  BY <1>2, <1>4, Reported, Zenon
<1>5. CASE out \in Install!Failed({reg, off, new})
  BY <1>2, <1>3, <1>5, Reported, Zenon
<1> QED
  BY <1>1, <1>4, <1>5

LEMMA SetEnabledTyped ==
  ASSUME reg \in Registrations, NEW b \in BOOLEAN, NEW out \in Install!SetEnabled(b)
  PROVE  out.reg \in Registrations /\ out.ok \in BOOLEAN
<1>1. CASE reg.exe # None
  BY <1>1, SetEnabledOutcome
<1>2. CASE reg.exe = None
  <2>1. out \in Install!Done(reg) \/ out \in Install!Failed({reg})
    BY <1>2 DEF Install!SetEnabled
  <2>2. CASE out \in Install!Done(reg)
    BY <2>2, Reported, Zenon
  <2>3. CASE out \in Install!Failed({reg})
    <3>1. out.reg = reg /\ out.ok = FALSE
      BY <2>3, Reported
    <3> QED
      BY <3>1
  <2> QED
    BY <2>1, <2>2, <2>3
<1> QED
  BY <1>1, <1>2

LEMMA RemoveOutcome ==
  ASSUME reg \in Registrations, NEW out \in Install!Remove
  PROVE  /\ out.reg \in Registrations /\ out.ok \in BOOLEAN
         /\ out.reg = reg \/ out.reg.enabled = FALSE
         /\ out.ok => (out.reg.enabled = FALSE \/ (out.reg = reg /\ ~Marked))
<1> DEFINE none == Install!Unregistered
           gone == [reg EXCEPT !.exe = None, !.enabled = FALSE]
           off == [reg EXCEPT !.enabled = FALSE]
<1>1. none \in Registrations /\ none.enabled = FALSE
  BY DEF Registrations, Install!Unregistered
<1>2. gone \in Registrations /\ gone.enabled = FALSE
  BY DEF Registrations
<1>3. off \in Registrations /\ off.enabled = FALSE
  BY DEF Registrations
<1>4. \/ out \in Install!Done(none)
      \/ out \in Install!Failed({reg, off})
      \/ out \in Install!Failed({reg})
      \/ out \in Install!Failed({gone})
      \/ out \in Install!Done(reg) /\ ~Marked
  BY DEF Install!Remove, Marked
<1> HIDE DEF none, gone, off
<1>5. CASE out \in Install!Done(none)
  BY <1>1, <1>5, Reported, Zenon
<1>6. CASE out \in Install!Failed({reg, off})
  BY <1>3, <1>6, Reported, Zenon
<1>7. CASE out \in Install!Failed({reg})
  BY <1>7, Reported, Zenon
<1>8. CASE out \in Install!Failed({gone})
  BY <1>2, <1>8, Reported, Zenon
<1>9. CASE out \in Install!Done(reg) /\ ~Marked
  BY <1>9, Reported, Zenon
<1> QED
  BY <1>4, <1>5, <1>6, <1>7, <1>8, <1>9, Zenon

\* How a step moves the command on.
SameTransaction ==
    /\ op' \in EnteredOp
    /\ op'.cmd = op.cmd /\ op'.fenced = op.fenced /\ op'.version = op.version
    /\ op'.journal = op.journal

LEMMA GotoMoves ==
  ASSUME op \in EnteredOp, NEW pc \in Forward \union Backward \union {"run"}, Install!Goto(pc)
  PROVE  SameTransaction /\ op'.pc = pc /\ op'.failed = op.failed /\ op'.file = op.file
  BY DEF EnteredOp, SameTransaction, Install!Goto

LEMMA ContinueMoves ==
  ASSUME op \in EnteredOp, NEW pc \in Backward, NEW ok \in BOOLEAN, Install!Continue(ok, pc)
  PROVE  SameTransaction /\ op'.pc = pc /\ (~op'.failed => (ok /\ ~op.failed))
<1>1. op' = [op EXCEPT !.pc = pc, !.failed = op.failed \/ ~ok]
  BY DEF Install!Continue
<1>2. (op.failed \/ ~ok) \in BOOLEAN
  OBVIOUS
<1>3. SameTransaction /\ op'.pc = pc
  BY <1>1, <1>2 DEF EnteredOp, SameTransaction
<1>4. op'.failed = (op.failed \/ ~ok)
  BY <1>1 DEF EnteredOp
<1> QED
  BY <1>3, <1>4, Zenon

LEMMA RollbackMoves ==
  ASSUME op \in EnteredOp, Install!Rollback
  PROVE  /\ SameTransaction /\ ~op'.failed /\ op'.file = 1
         /\ op.journal.restore => op'.pc = "restore"
         /\ ~op.journal.restore => op'.pc = "unregister"
  BY DEF EnteredOp, SameTransaction, Install!Rollback, Install!EnterRollback, Backward

LEMMA OpGoesOn ==
  ASSUME OpIsSound, Active, SameTransaction, op'.pc \in Forward \union Backward, app' = app,
         op'.pc = "reenable" => op.journal.prior # None
  PROVE  OpIsSound' /\ Active'
  BY DEF OpIsSound, Active, SameTransaction, JournalIsSound, Forward, Backward

LEMMA RollsBack ==
  ASSUME OpIsSound, Active, Install!Rollback, app' = app
  PROVE  /\ SameTransaction /\ OpIsSound' /\ Active' /\ DataGoesBack' /\ Achieved'
         /\ op'.pc \in {"restore", "unregister"}
<1>1. op \in EnteredOp
  BY DEF OpIsSound
<1>2. op.journal.restore \in BOOLEAN
  BY <1>1 DEF EnteredOp, Journals
<1>3. op'.pc \in {"restore", "unregister"}
  BY <1>1, <1>2, RollbackMoves
<1>4. OpIsSound' /\ Active'
  BY <1>1, <1>3, RollbackMoves, OpGoesOn DEF Backward
<1>5. DataGoesBack'
  <2>1. \A f \in Install!Files : ~(f < 1)
    BY DEF Install!Files
  <2>2. op'.journal = op.journal /\ ~op'.failed /\ op'.file = 1
    BY <1>1, RollbackMoves DEF SameTransaction
  <2>3. CASE op.journal.restore
    BY <1>1, <2>1, <2>2, <2>3, RollbackMoves DEF DataGoesBack, Backward, Install!Files
  <2>4. CASE ~op.journal.restore
    <3>1. op'.pc = "unregister" /\ ~op'.journal.restore
      BY <1>1, <2>2, <2>4, RollbackMoves
    <3> QED
      BY <3>1 DEF DataGoesBack
  <2> QED
    BY <2>3, <2>4
<1>6. Achieved'
  BY <1>3 DEF Achieved
<1> QED
  BY <1>1, <1>3, <1>4, <1>5, <1>6, RollbackMoves

LEMMA OpEnds ==
  ASSUME op' = Install!Idle
  PROVE  OpIsSound' /\ DataGoesBack' /\ ~Active' /\ JournalIsKept' /\ Achieved'
<1>1. op'.pc = "idle" /\ op'.fenced = FALSE
  BY DEF Install!Idle
<1>2. ~Active'
  BY <1>1 DEF Active, Forward, Backward
<1> QED
  BY <1>1, <1>2 DEF OpIsSound, DataGoesBack, JournalIsKept, Achieved, Backward

\* How the registration and the contents go together after a step.
LEMMA CrashStays ==
  ASSUME CrashIsSound, root' = root, reg' = reg, platform' = platform
  PROVE  CrashIsSound'
  BY DEF CrashIsSound, ContentIsSound, Registered, Marked

LEMMA Reconfigures ==
  ASSUME NEW j \in Journals, j.reconfigure, \A c \in root'.crash : c.journal = j,
         RootIsSound', reg'.enabled => Marked'
  PROVE  CrashIsSound'
<1>1. j # None
  BY InstallAssumption
<1>2. \A c \in root'.crash : ContentIsSound(c)'
  BY <1>1 DEF ContentIsSound
<1>3. root'.now.journal = j
  BY DEF RootIsSound
<1> QED
  BY <1>2, <1>3 DEF CrashIsSound

LEMMA KeepsRegistered ==
  ASSUME CrashIsSound, RootIsSound, NEW j \in Journals, \A c \in root.crash : c.journal = j,
         root' = root, platform' = platform, reg'.exe = reg.exe, reg'.marker = reg.marker, Marked
  PROVE  CrashIsSound'
<1>1. j # None
  BY InstallAssumption
<1>2. Marked'
  BY DEF Marked
<1>3. \A c \in root'.crash : ContentIsSound(c)'
  BY <1>1, <1>2 DEF ContentIsSound, CrashIsSound
<1> QED
  BY <1>1, <1>2, <1>3 DEF CrashIsSound, RootIsSound

LEMMA InstallInitially == MCInit => InstallInv
<1> SUFFICES ASSUME Install!Init PROVE InstallInv
  BY DEF MCInit
<1> DEFINE empty == [journal |-> None, state |-> None]
<1>1. root = [now |-> empty, crash |-> {empty}]
  BY DEF Install!Init
<1>2. RootIsSound /\ root.crash = {empty} /\ root.now = empty
  BY <1>1 DEF RootIsSound, InstallContent
<1>3. op.pc = "idle" /\ op.fenced = FALSE /\ op = Install!Idle
  BY DEF Install!Init, Install!Idle
<1>4. ~Active
  BY <1>3 DEF Active, Forward, Backward
<1>5. OpIsSound /\ DataGoesBack /\ JournalIsKept /\ Achieved
  BY <1>3, <1>4 DEF OpIsSound, DataGoesBack, JournalIsKept, Achieved, Backward
<1>6. reg.exe = None /\ reg.enabled = FALSE /\ reg \in Registrations
  BY DEF Install!Init, Install!Unregistered, Registrations
<1>7. CrashIsSound
  BY <1>2, <1>6 DEF CrashIsSound, ContentIsSound, Registered
<1>8. data \in DataFiles /\ app \in BOOLEAN /\ unsure \in BOOLEAN
  BY DEF Install!Init, DataFiles
<1> QED
  BY <1>2, <1>5, <1>6, <1>7, <1>8 DEF InstallInv, RegistrationIsSound

LEMMA BeginStep == ASSUME InstallInv, Install!Begin PROVE InstallInv'
<1> USE DEF InstallInv
<1>1. PICK cmd \in Install!Commands :
        \E v \in IF cmd = "install" THEN Versions ELSE {None} :
          LET fenced == cmd = "install" \/ root.now.journal # None IN
          /\ fenced => ~app
          /\ op' = [cmd |-> cmd, pc |-> IF fenced THEN "open" ELSE "run",
                    fenced |-> fenced, version |-> v]
  BY DEF Install!Begin
<1>2. PICK v \in IF cmd = "install" THEN Versions ELSE {None} :
          LET fenced == cmd = "install" \/ root.now.journal # None IN
          /\ fenced => ~app
          /\ op' = [cmd |-> cmd, pc |-> IF fenced THEN "open" ELSE "run",
                    fenced |-> fenced, version |-> v]
  BY <1>1
<1>3. UNCHANGED <<platform, root, reg, data, app, unsure>>
  BY DEF Install!Begin
<1> DEFINE fenced == cmd = "install" \/ root.now.journal # None
<1>4. fenced \in BOOLEAN /\ (fenced => ~app)
  BY <1>2
<1>5. op' = [cmd |-> cmd, pc |-> IF fenced THEN "open" ELSE "run", fenced |-> fenced, version |-> v]
  BY <1>2
<1>6. cmd = "install" => (v \in Versions /\ fenced)
  OBVIOUS
<1>7. ~fenced => root.now.journal = None
  OBVIOUS
<1> HIDE DEF fenced
<1>8. op' \in BegunOp /\ op'.cmd = cmd /\ op'.version = v
  BY <1>4, <1>5 DEF BegunOp
<1>9. op'.fenced = fenced
  BY <1>5
<1>10. (fenced => op'.pc = "open") /\ (~fenced => op'.pc = "run")
  BY <1>5
<1>11. ~Active'
  BY <1>8 DEF BegunOp, Active, Forward, Backward
<1>12. OpIsSound'
  <2>1. (op.fenced => ~app)'
    BY <1>3, <1>4, <1>9, Zenon
  <2>2. (op.pc = "open" => op.fenced)'
    BY <1>4, <1>9, <1>10, Zenon
  <2>3. (op.pc = "run" => root.now.journal = None)'
    BY <1>3, <1>4, <1>7, <1>10
  <2>4. op'.cmd = "install" => (op'.version \in Versions /\ op'.fenced)
    BY <1>6, <1>8, <1>9, Zenon
  <2> QED
    BY <1>8, <1>11, <2>1, <2>2, <2>3, <2>4 DEF OpIsSound, Active, Backward
<1>13. op'.pc \in {"open", "run"}
  BY <1>8 DEF BegunOp
<1>14. DataGoesBack' /\ JournalIsKept' /\ Achieved'
  BY <1>11, <1>13 DEF DataGoesBack, JournalIsKept, Achieved, Backward
<1> QED
  BY <1>3, <1>12, <1>14, RootStays, CrashStays DEF RegistrationIsSound

LEMMA RecoverStep == ASSUME InstallInv, Install!Recover PROVE InstallInv'
<1> USE DEF InstallInv
<1>1. op.pc = "open" /\ UNCHANGED <<platform, root, reg, data, app>>
  BY DEF Install!Recover
<1>2. /\ op \in BegunOp /\ op.fenced /\ ~app
      /\ op.cmd = "install" => op.version \in Versions
  <2>1. op \in BegunOp
    BY <1>1 DEF OpIsSound, BegunOp, EnteredOp, Forward, Backward, Install!Idle
  <2> QED
    BY <1>1, <2>1 DEF OpIsSound
<1>3. RootIsSound' /\ (CrashIsSound => CrashIsSound')
  BY <1>1, RootStays, CrashStays
<1>4. unsure' \in BOOLEAN /\ (~unsure' => ~unsure)
      /\ (~unsure' => (root.now.journal = None \/ \A c \in root.crash : c.journal # None))
  <2>1. unsure' = (unsure \/ (root.now.journal # None /\ \E c \in root.crash : c.journal = None))
    BY DEF Install!Recover
  <2> QED
    BY <2>1, Zenon
<1>5. CASE root.now.journal = None /\ Install!Goto("run")
  <2>1. op' \in BegunOp /\ op'.pc = "run" /\ op'.cmd = op.cmd /\ op'.version = op.version
        /\ op'.fenced = op.fenced
    BY <1>2, <1>5 DEF Install!Goto, BegunOp
  <2>2. ~Active'
    BY <2>1 DEF Active, Forward, Backward
  <2>3. OpIsSound'
    BY <1>1, <1>2, <1>5, <2>1, <2>2 DEF OpIsSound
  <2>4. DataGoesBack' /\ JournalIsKept' /\ Achieved'
    BY <2>1, <2>2 DEF DataGoesBack, JournalIsKept, Achieved, Backward
  <2> QED
    BY <1>1, <1>3, <1>4, <2>3, <2>4 DEF RegistrationIsSound
<1>6. CASE root.now.journal # None /\ Install!EnterRollback(root.now.journal, TRUE)
  <2> DEFINE j == root.now.journal
  <2>1. j \in Journals /\ JournalIsSound(j)
    BY <1>6 DEF RootIsSound, InstallContent
  <2> HIDE DEF j
  <2>2. op' = [cmd |-> op.cmd, pc |-> IF j.restore THEN "restore" ELSE "unregister",
               fenced |-> op.fenced, version |-> op.version, journal |-> j,
               file |-> 1, failed |-> FALSE, recovering |-> TRUE]
    BY <1>6 DEF Install!EnterRollback, j
  <2>3. /\ op'.cmd = op.cmd /\ op'.version = op.version /\ op'.fenced = op.fenced
        /\ op'.journal = j /\ op'.file = 1 /\ op'.failed = FALSE
        /\ j.restore => op'.pc = "restore"
        /\ ~j.restore => op'.pc = "unregister"
    BY <2>2
  <2>4. op'.pc \in {"restore", "unregister"}
    BY <2>3, Zenon
  <2>5. op' \in EnteredOp
    BY <1>2, <2>1, <2>2 DEF BegunOp, EnteredOp, Backward
  <2>6. Active'
    BY <2>4 DEF Active, Backward
  <2>7. OpIsSound'
    BY <1>1, <1>2, <2>1, <2>3, <2>4, <2>5 DEF OpIsSound, JournalIsSound
  <2>8. DataGoesBack'
    <3>1. \A f \in Install!Files : ~(f < 1)
      BY DEF Install!Files
    <3>2. CASE j.restore
      BY <2>3, <3>1, <3>2 DEF DataGoesBack, Backward, Install!Files
    <3>3. CASE ~j.restore
      BY <2>3, <3>3 DEF DataGoesBack
    <3> QED
      BY <3>2, <3>3
  <2>9. Achieved'
    BY <2>4 DEF Achieved
  <2>10. ASSUME ~unsure' PROVE RegistrationIsSound'
    <3>1. CrashIsSound /\ \A c \in root.crash : c.journal = j
      BY <1>4, <1>6, <2>10 DEF RegistrationIsSound, CrashIsSound, j
    <3>2. JournalIsKept'
      BY <1>1, <2>3, <3>1 DEF JournalIsKept
    <3> QED
      BY <1>3, <2>9, <3>1, <3>2 DEF RegistrationIsSound
  <2> QED
    BY <1>1, <1>3, <1>4, <2>7, <2>8, <2>10
<1>7. CASE Install!End
  BY <1>1, <1>3, <1>4, <1>7, OpEnds DEF Install!End, RegistrationIsSound
<1> QED
  BY <1>5, <1>6, <1>7 DEF Install!Recover

LEMMA PlanIsSound ==
  ASSUME RootIsSound, OpIsSound, data \in DataFiles, op.pc = "run", NEW p \in Install!Plan
  PROVE  /\ p.pc \in {"migrate", "remove", "enable"}
         /\ p.journal \in Journals /\ JournalIsSound(p.journal)
         /\ p.journal.restore => op.cmd = "install"
         /\ p.pc = "migrate" => p.journal.next.version = op.version
         /\ p.pc \in {"migrate", "remove"} => p.journal.reconfigure
         /\ (p.pc = "enable" \/ ~p.journal.reconfigure)
              => (/\ root.now.state # None /\ p.journal.prior = root.now.state
                  /\ p.journal.next.version = root.now.state.version)
<1> DEFINE state_ == root.now.state
           plan(pc, restore, reconfigure, next) ==
             [pc |-> pc, journal |-> [restore |-> restore, reconfigure |-> reconfigure,
              prior |-> state_, backup |-> IF restore THEN data ELSE None, next |-> next]]
<1>1. state_ \in InstallStates \union {None} /\ root.now.journal = None
  BY DEF RootIsSound, InstallContent, OpIsSound
<1>2. op.cmd = "install" => op.version \in Versions
  BY DEF OpIsSound
<1>3. CASE /\ op.cmd = "install"
           /\ p = plan("migrate", TRUE, TRUE, [version |-> op.version, enabled |-> FALSE])
  <2> DEFINE next == [version |-> op.version, enabled |-> FALSE]
  <2>1. next \in InstallStates /\ next.version = op.version
    BY <1>2, <1>3 DEF InstallStates
  <2> HIDE DEF next
  <2>2. /\ p.pc = "migrate"
        /\ p.journal = [restore |-> TRUE, reconfigure |-> TRUE, prior |-> state_,
                        backup |-> data, next |-> next]
    BY <1>3 DEF next
  <2>3. p.journal \in Journals /\ p.journal.backup \in DataFiles
    BY <1>1, <2>1, <2>2 DEF Journals
  <2>4. p.journal.next = next /\ p.journal.reconfigure = TRUE
    BY <2>2
  <2> QED
    BY <1>3, <2>1, <2>2, <2>3, <2>4 DEF JournalIsSound
<1>4. CASE op.cmd = "uninstall" /\ state_ # None /\ p = plan("remove", FALSE, TRUE, state_)
  <2>1. /\ p.pc = "remove"
        /\ p.journal = [restore |-> FALSE, reconfigure |-> TRUE, prior |-> state_,
                        backup |-> None, next |-> state_]
    BY <1>4
  <2>2. p.journal \in Journals
    BY <1>1, <1>4, <2>1 DEF Journals
  <2>3. p.journal.restore = FALSE /\ p.journal.reconfigure = TRUE
    BY <2>1
  <2> QED
    BY <2>1, <2>2, <2>3 DEF JournalIsSound
<1>5. CASE /\ op.cmd \in {"enable", "disable"} /\ state_ # None
           /\ p = plan("enable", FALSE, FALSE, [state_ EXCEPT !.enabled = ~state_.enabled])
  <2> DEFINE next == [state_ EXCEPT !.enabled = ~state_.enabled]
  <2>1. next \in InstallStates /\ next.version = state_.version
    BY <1>1, <1>5 DEF InstallStates
  <2> HIDE DEF next
  <2>2. /\ p.pc = "enable"
        /\ p.journal = [restore |-> FALSE, reconfigure |-> FALSE, prior |-> state_,
                        backup |-> None, next |-> next]
    BY <1>5 DEF next
  <2>3. p.journal \in Journals
    BY <1>1, <2>1, <2>2 DEF Journals
  <2>4. p.journal.restore = FALSE /\ p.journal.next = next /\ p.journal.prior = state_
    BY <2>2
  <2> QED
    BY <1>5, <2>1, <2>2, <2>3, <2>4 DEF JournalIsSound
<1>6. \/ /\ op.cmd = "install"
         /\ p = plan("migrate", TRUE, TRUE, [version |-> op.version, enabled |-> FALSE])
      \/ op.cmd = "uninstall" /\ state_ # None /\ p = plan("remove", FALSE, TRUE, state_)
      \/ /\ op.cmd \in {"enable", "disable"} /\ state_ # None
         /\ p = plan("enable", FALSE, FALSE, [state_ EXCEPT !.enabled = ~state_.enabled])
  BY DEF Install!Plan
<1> QED
  BY <1>3, <1>4, <1>5, <1>6

LEMMA WriteJournalStep == ASSUME InstallInv, Install!WriteJournal PROVE InstallInv'
<1> USE DEF InstallInv
<1>1. op.pc = "run" /\ UNCHANGED <<platform, reg, data, app, unsure>>
  BY DEF Install!WriteJournal
<1>2. PICK p \in Install!Plan : \E out \in Install!Write("journal", p.journal) :
         /\ root' = out.root
         /\ IF out.ok THEN Install!Enter(p.pc, p.journal) ELSE Install!End
  BY DEF Install!WriteJournal
<1>3. PICK out \in Install!Write("journal", p.journal) :
         /\ root' = out.root
         /\ IF out.ok THEN Install!Enter(p.pc, p.journal) ELSE Install!End
  BY <1>2
<1> DEFINE j == p.journal
           c == WithJournal(j)
<1>4. /\ p.pc \in {"migrate", "remove", "enable"}
      /\ j \in Journals /\ j # None /\ JournalIsSound(j)
      /\ j.restore => op.cmd = "install"
      /\ p.pc = "migrate" => j.next.version = op.version
      /\ p.pc \in {"migrate", "remove"} => j.reconfigure
      /\ (p.pc = "enable" \/ ~j.reconfigure)
           => (/\ root.now.state # None /\ j.prior = root.now.state
               /\ j.next.version = root.now.state.version)
  BY <1>1, PlanIsSound, InstallAssumption
<1>5. /\ root' \in {root, Dirty(c), Synced(c)} /\ out.ok \in BOOLEAN
      /\ out.ok => root' = Synced(c)
  BY <1>3, JournalWrites
<1>6. /\ c \in InstallContent /\ c.journal = j /\ c.state = root.now.state
      /\ root.now.journal = None /\ root.now \in root.crash
  BY <1>1, <1>4 DEF WithJournal, InstallContent, RootIsSound, OpIsSound
<1> HIDE DEF j, c
<1>7. RootIsSound'
  BY <1>4, <1>5, <1>6, RootMoves
<1>8. ASSUME ~unsure PROVE CrashIsSound'
  <2>1. CrashIsSound /\ Registered(root.now.state)
    BY <1>6, <1>8 DEF RegistrationIsSound, CrashIsSound, ContentIsSound
  <2>2. root'.now.state = root.now.state
    BY <1>5, <1>6 DEF Dirty, Synced
  <2>3. \A s : Registered(s)' = Registered(s)
    BY <1>1 DEF Registered, Marked
  <2>4. \A e \in root.crash : ContentIsSound(e)'
    BY <1>1, <2>1, <2>2, <2>3 DEF CrashIsSound, ContentIsSound, Marked
  <2>5. \A e : e = c => ContentIsSound(e)'
    BY <1>1, <1>4, <1>6, <2>1, <2>2 DEF ContentIsSound, Registered, Marked
  <2>6. \A e \in root'.crash : ContentIsSound(e)'
    BY <1>5, <2>4, <2>5 DEF Dirty, Synced
  <2>7. (\/ \E e \in root'.crash : e.journal = None
         \/ \A e \in root'.crash : e.journal = root'.now.journal)
    BY <1>5, <1>6 DEF Dirty, Synced
  <2>8. (reg.enabled => Marked)'
    BY <1>1, <2>1 DEF CrashIsSound, Marked
  <2> QED
    BY <2>6, <2>7, <2>8 DEF CrashIsSound
<1>9. CASE ~out.ok
  BY <1>1, <1>3, <1>7, <1>8, <1>9, OpEnds DEF RegistrationIsSound, Install!End
<1>10. CASE out.ok
  <2>1. op \in BegunOp \union EnteredOp /\ op.pc # "idle"
    BY <1>1 DEF OpIsSound, Install!Idle
  <2>2. op' = [cmd |-> op.cmd, pc |-> p.pc, fenced |-> op.fenced, version |-> op.version,
               journal |-> j, file |-> 1, failed |-> FALSE, recovering |-> FALSE]
    BY <1>3, <1>10 DEF Install!Enter, j
  <2>3. op' \in EnteredOp
    BY <1>4, <2>1, <2>2 DEF EnteredOp, BegunOp, Forward
  <2>4. /\ op'.cmd = op.cmd /\ op'.version = op.version /\ op'.fenced = op.fenced
        /\ op'.journal = j /\ op'.pc = p.pc
    BY <2>2
  <2>5. OpIsSound'
    BY <1>1, <1>4, <2>1, <2>3, <2>4 DEF OpIsSound, JournalIsSound
  <2>6. DataGoesBack'
    BY <1>4, <2>4 DEF DataGoesBack, Backward
  <2>7. ASSUME ~unsure PROVE RegistrationIsSound'
    <3>1. Registered(root.now.state)
      BY <1>6, <2>7 DEF RegistrationIsSound, CrashIsSound, ContentIsSound
    <3>2. Achieved'
      BY <1>1, <1>4, <2>4, <3>1 DEF Achieved, Registered, Marked
    <3>3. JournalIsKept'
      BY <1>5, <1>6, <1>10, <2>4 DEF JournalIsKept, Synced
    <3> QED
      BY <1>8, <2>7, <3>2, <3>3 DEF RegistrationIsSound
  <2> QED
    BY <1>1, <1>7, <2>5, <2>6, <2>7
<1> QED
  BY <1>5, <1>9, <1>10

LEMMA ReturnStep == ASSUME InstallInv, Install!Return PROVE InstallInv'
<1> USE DEF InstallInv
<1>1. op.pc = "run" /\ Install!End /\ UNCHANGED <<platform, root, data, app, unsure>>
  BY DEF Install!Return
<1>2. RootIsSound'
  BY <1>1, RootStays
<1>3. CASE reg' = reg
  BY <1>1, <1>2, <1>3, OpEnds, CrashStays DEF RegistrationIsSound, Install!End
<1>4. CASE root.now.state = None /\ \E out \in Install!Remove : reg' = out.reg
  <2>1. reg' \in Registrations /\ (reg' = reg \/ reg'.enabled = FALSE)
    BY <1>4, RemoveOutcome
  <2>2. ASSUME ~unsure, reg'.enabled = FALSE PROVE CrashIsSound'
    <3>1. root.now.journal = None
      BY <1>1 DEF OpIsSound
    <3>2. \A c \in root.crash : ContentIsSound(c)'
      BY <1>1, <1>4, <2>2, <3>1 DEF RegistrationIsSound, CrashIsSound, ContentIsSound, Registered
    <3> QED
      BY <1>1, <2>2, <3>2 DEF RegistrationIsSound, CrashIsSound
  <2> QED
    BY <1>1, <1>2, <1>3, <2>1, <2>2, OpEnds DEF RegistrationIsSound, Install!End
<1> QED
  BY <1>3, <1>4 DEF Install!Return

\* What is known at every step of a transaction.
LEMMA UnderWay ==
  ASSUME InstallInv, op.pc \in Forward \union Backward
  PROVE  /\ Active /\ op \in EnteredOp
         /\ op.journal \in Journals /\ op.journal # None /\ JournalIsSound(op.journal)
         /\ ~unsure => (/\ CrashIsSound /\ Achieved
                        /\ \A c \in root.crash : c.journal = op.journal)
<1>1. Active /\ op \in EnteredOp /\ JournalIsSound(op.journal)
  BY DEF InstallInv, OpIsSound, Active
<1>2. op.journal \in Journals /\ op.journal # None
  BY <1>1, InstallAssumption DEF EnteredOp
<1> QED
  BY <1>1, <1>2 DEF InstallInv, RegistrationIsSound, JournalIsKept

LEMMA ForwardData == ASSUME op'.pc \in Forward PROVE DataGoesBack'
  BY DEF DataGoesBack, Forward, Backward

\* A step back after the data: what it knows of the data it keeps.
LEMMA BackwardData ==
  ASSUME DataGoesBack, SameTransaction, data' = data, op.pc \in Backward \ {"restore"},
         op'.pc \in Backward \ {"restore"}, ~op'.failed => ~op.failed
  PROVE  DataGoesBack'
  BY DEF DataGoesBack, SameTransaction

\* Rolling back what left every content its journal and the registration sound.
LEMMA RollbackStep ==
  ASSUME InstallInv, op.pc \in Forward, Install!Rollback, app' = app, unsure' = unsure,
         RootIsSound', reg' \in Registrations, data' \in DataFiles,
         ~unsure => (CrashIsSound' /\ \A c \in root'.crash : c.journal = op.journal)
  PROVE  InstallInv'
<1>1. Active /\ OpIsSound
  BY UnderWay DEF InstallInv
<1>2. SameTransaction /\ OpIsSound' /\ Active' /\ DataGoesBack' /\ Achieved'
  BY <1>1, RollsBack
<1>3. ~unsure => JournalIsKept'
  BY <1>2 DEF SameTransaction, JournalIsKept
<1> QED
  BY <1>2, <1>3 DEF InstallInv, RegistrationIsSound

\* Going forward in the same way.
LEMMA ForwardStep ==
  ASSUME InstallInv, op.pc \in Forward, SameTransaction, op'.pc \in Forward,
         app' = app, unsure' = unsure,
         RootIsSound', reg' \in Registrations, data' \in DataFiles,
         ~unsure => (CrashIsSound' /\ Achieved' /\ \A c \in root'.crash : c.journal = op.journal)
  PROVE  InstallInv'
<1>1. OpIsSound' /\ Active'
  BY UnderWay, OpGoesOn DEF InstallInv, Forward
<1>2. ~unsure => JournalIsKept'
  BY <1>1 DEF SameTransaction, JournalIsKept
<1> QED
  BY <1>1, <1>2, ForwardData DEF InstallInv, RegistrationIsSound

LEMMA MigrateStep == ASSUME InstallInv, Install!Migrate PROVE InstallInv'
<1>1. op.pc = "migrate" /\ UNCHANGED <<platform, root, reg, app, unsure>>
  BY DEF Install!Migrate
<1>2. op.pc \in Forward
  BY <1>1 DEF Forward
<1>3. RootIsSound' /\ reg' \in Registrations /\ op \in EnteredOp /\ data \in DataFiles
  BY <1>1, <1>2, RootStays, UnderWay DEF InstallInv
<1>4. ~unsure => (CrashIsSound' /\ Achieved /\ \A c \in root'.crash : c.journal = op.journal)
  BY <1>1, <1>2, UnderWay, CrashStays
<1>5. ASSUME op.file \in Install!Files, data' = [data EXCEPT ![op.file].by = op.version],
             op' = [op EXCEPT !.file = @ + 1]
      PROVE  InstallInv'
  <2>1. data' \in DataFiles
    BY <1>3, <1>5 DEF DataFiles, EnteredOp
  <2>2. SameTransaction /\ op'.pc = op.pc
    BY <1>3, <1>5 DEF EnteredOp, SameTransaction
  <2>3. ~unsure => Achieved'
    BY <1>1, <1>4, <2>2 DEF Achieved, SameTransaction
  <2> QED
    BY <1>1, <1>2, <1>3, <1>4, <2>1, <2>2, <2>3, ForwardStep
<1>6. ASSUME Install!Goto("configure"), data' = data PROVE InstallInv'
  <2>1. SameTransaction /\ op'.pc = "configure"
    BY <1>3, <1>6, GotoMoves DEF Forward
  <2>2. ~unsure => Achieved'
    BY <1>1, <1>4, <2>1 DEF Achieved, SameTransaction
  <2> QED
    BY <1>1, <1>2, <1>3, <1>4, <1>6, <2>1, <2>2, ForwardStep DEF Forward
<1>7. ASSUME Install!Rollback, data' = data PROVE InstallInv'
  BY <1>1, <1>2, <1>3, <1>4, <1>7, RollbackStep
<1> QED
  BY <1>5, <1>6, <1>7 DEF Install!Migrate

LEMMA ConfigureNextStep == ASSUME InstallInv, Install!ConfigureNext PROVE InstallInv'
<1>1. op.pc = "configure" /\ UNCHANGED <<platform, root, data, app, unsure>>
  BY DEF Install!ConfigureNext
<1>2. op.pc \in Forward
  BY <1>1 DEF Forward
<1>3. RootIsSound' /\ RootIsSound /\ op \in EnteredOp /\ data' \in DataFiles /\ reg \in Registrations
  BY <1>1, <1>2, RootStays, UnderWay DEF InstallInv
<1>4. PICK out \in Install!Configure(op.version) : reg' = out.reg /\ Install!Step(out.ok, "state")
  BY DEF Install!ConfigureNext
<1>5. op.version \in Versions \union {None}
  BY <1>3 DEF EnteredOp
<1>6. /\ reg' \in Registrations /\ out.ok \in BOOLEAN
      /\ reg' = reg \/ reg'.enabled = FALSE
      /\ out.ok => (reg'.exe = op.version /\ Marked')
  BY <1>1, <1>3, <1>4, <1>5, ConfigureOutcome DEF Marked
<1>7. ASSUME ~unsure
      PROVE  /\ CrashIsSound' /\ Achieved
             /\ op.journal.reconfigure /\ op.journal.next.version = op.version
             /\ \A c \in root'.crash : c.journal = op.journal
  <2>1. /\ CrashIsSound /\ Achieved /\ op.journal \in Journals
        /\ \A c \in root'.crash : c.journal = op.journal
    BY <1>1, <1>2, <1>7, UnderWay
  <2>2. op.journal.reconfigure /\ op.journal.next.version = op.version
    BY <1>1, <2>1 DEF Achieved
  <2>3. (reg.enabled => Marked)'
    BY <1>1, <1>6, <2>1 DEF CrashIsSound, Marked
  <2> QED
    BY <1>3, <2>1, <2>2, <2>3, Reconfigures
<1>8. CASE out.ok
  <2>1. SameTransaction /\ op'.pc = "state"
    BY <1>3, <1>4, <1>8, GotoMoves DEF Install!Step, Forward
  <2>2. ~unsure => Achieved'
    BY <1>6, <1>7, <1>8, <2>1 DEF Achieved, SameTransaction
  <2> QED
    BY <1>1, <1>2, <1>3, <1>6, <1>7, <2>1, <2>2, ForwardStep DEF Forward
<1>9. CASE ~out.ok
  <2>1. Install!Rollback
    BY <1>4, <1>9 DEF Install!Step
  <2> QED
    BY <1>1, <1>2, <1>3, <1>6, <1>7, <2>1, RollbackStep
<1> QED
  BY <1>6, <1>8, <1>9

\* The state is written or removed under the journal.
LEMMA StateChanges ==
  ASSUME InstallInv, op.pc \in Forward \union Backward, UNCHANGED <<platform, reg>>,
         NEW s \in InstallStates \union {None}, ~op.journal.reconfigure => s # None,
         root' \in {root, Dirty(WithState(s)), Synced(WithState(s))}
  PROVE  /\ RootIsSound'
         /\ ~unsure => (CrashIsSound' /\ \A c \in root'.crash : c.journal = op.journal)
<1> DEFINE c == WithState(s)
<1>1. root.now \in InstallContent /\ root.now \in root.crash /\ RootIsSound
  BY DEF InstallInv, RootIsSound
<1>2. c \in InstallContent /\ c.journal = root.now.journal /\ c.state = s
  BY <1>1 DEF WithState, InstallContent
<1>3. root' \in {root, Dirty(c), Synced(c)}
  OBVIOUS
<1> HIDE DEF c
<1>4. RootIsSound'
  BY <1>1, <1>2, <1>3, RootMoves DEF RootIsSound
<1>5. ASSUME ~unsure PROVE CrashIsSound' /\ \A e \in root'.crash : e.journal = op.journal
  <2>1. /\ CrashIsSound /\ op.journal \in Journals /\ op.journal # None
        /\ \A e \in root.crash : e.journal = op.journal
    BY <1>5, UnderWay
  <2>2. c.journal = op.journal
    BY <1>1, <1>2, <2>1
  <2>3. \A e \in root'.crash : e.journal = op.journal
    BY <1>3, <2>1, <2>2 DEF Dirty, Synced
  <2>4. (reg.enabled => Marked)'
    BY <2>1 DEF CrashIsSound, Marked
  <2>5. CASE op.journal.reconfigure
    BY <1>4, <2>1, <2>3, <2>4, <2>5, Reconfigures
  <2>6. CASE ~op.journal.reconfigure
    <3>1. /\ reg'.exe = op.journal.prior.version /\ Marked' /\ root.now.state # None
          /\ \A e \in root.crash : e.state # None
      BY <1>1, <2>1, <2>6 DEF CrashIsSound, ContentIsSound, Marked
    <3>2. root'.now.state # None /\ \A e \in root'.crash : e.state # None
      BY <1>2, <1>3, <2>6, <3>1 DEF Dirty, Synced
    <3>3. \A e \in root'.crash : ContentIsSound(e)'
      BY <2>1, <2>3, <3>1, <3>2 DEF ContentIsSound
    <3>4. root'.now.journal = op.journal
      BY <1>4, <2>3 DEF RootIsSound
    <3> QED
      BY <2>3, <2>4, <3>3, <3>4 DEF CrashIsSound
  <2> QED
    BY <2>3, <2>5, <2>6
<1> QED
  BY <1>4, <1>5

\* The journal goes, and a crash may bring it back.
LEMMA JournalGoes ==
  ASSUME InstallInv, op.pc \in Forward \union Backward, UNCHANGED <<platform, reg>>,
         ~unsure => Registered(root.now.state), root' = Dirty(WithJournal(None))
  PROVE  RootIsSound' /\ root'.now.journal = None /\ (~unsure => CrashIsSound')
<1> DEFINE c == WithJournal(None)
<1>1. root.now \in InstallContent /\ root.now \in root.crash /\ RootIsSound
  BY DEF InstallInv, RootIsSound
<1>2. c \in InstallContent /\ c.journal = None /\ c.state = root.now.state
  BY <1>1 DEF WithJournal, InstallContent
<1>3. root'.now = c /\ root'.crash = root.crash \union {c}
  BY DEF Dirty
<1> HIDE DEF c
<1>4. RootIsSound'
  BY <1>1, <1>2, <1>3 DEF RootIsSound, JournalIsSound
<1>5. ASSUME ~unsure PROVE CrashIsSound'
  <2>1. /\ CrashIsSound /\ op.journal # None
        /\ \A e \in root.crash : e.journal = op.journal
    BY <1>5, UnderWay
  <2>2. \A s : Registered(s)' = Registered(s)
    BY DEF Registered, Marked
  <2>3. \A e \in root.crash : ContentIsSound(e)'
    BY <1>2, <1>3, <2>1, <2>2 DEF CrashIsSound, ContentIsSound, Marked
  <2>4. \A e : e = c => ContentIsSound(e)'
    BY <1>2, <1>3, <1>5, <2>2 DEF ContentIsSound
  <2>5. (reg.enabled => Marked)'
    BY <2>1 DEF CrashIsSound, Marked
  <2> QED
    BY <1>2, <1>3, <2>3, <2>4, <2>5 DEF CrashIsSound
<1> QED
  BY <1>2, <1>3, <1>4, <1>5

LEMMA WriteStateStep == ASSUME InstallInv, Install!WriteState PROVE InstallInv'
<1>1. op.pc = "state" /\ UNCHANGED <<platform, reg, data, app, unsure>>
  BY DEF Install!WriteState
<1>2. op.pc \in Forward
  BY <1>1 DEF Forward
<1>3. op \in EnteredOp /\ op.journal.next \in InstallStates /\ op.journal.next # None
  BY <1>2, UnderWay, InstallAssumption DEF Journals
<1>4. PICK out \in Install!Write("state", op.journal.next) :
        root' = out.root /\ Install!Step(out.ok, "enable")
  BY DEF Install!WriteState
<1>5. /\ RootIsSound' /\ out.ok \in BOOLEAN
      /\ ~unsure => (CrashIsSound' /\ \A c \in root'.crash : c.journal = op.journal)
  BY <1>1, <1>2, <1>3, <1>4, StateWrites, StateChanges DEF InstallInv
<1>6. data' \in DataFiles /\ reg' \in Registrations
  BY <1>1 DEF InstallInv
<1>7. CASE out.ok
  <2>1. SameTransaction /\ op'.pc = "enable"
    BY <1>3, <1>4, <1>7, GotoMoves DEF Install!Step, Forward
  <2>2. ~unsure => Achieved'
    BY <1>1, <1>2, <2>1, UnderWay DEF Achieved, SameTransaction, Marked
  <2> QED
    BY <1>1, <1>2, <1>5, <1>6, <2>1, <2>2, ForwardStep DEF Forward
<1>8. CASE ~out.ok
  BY <1>1, <1>2, <1>4, <1>5, <1>6, <1>8, RollbackStep DEF Install!Step
<1> QED
  BY <1>5, <1>7, <1>8

LEMMA EnableStep == ASSUME InstallInv, Install!Enable PROVE InstallInv'
<1>1. op.pc = "enable" /\ UNCHANGED <<platform, root, data, app, unsure>>
  BY DEF Install!Enable
<1>2. op.pc \in Forward
  BY <1>1 DEF Forward
<1>3. /\ op \in EnteredOp /\ op.journal \in Journals /\ RootIsSound /\ RootIsSound'
      /\ data' \in DataFiles /\ reg \in Registrations
  BY <1>1, <1>2, UnderWay, RootStays DEF InstallInv
<1>4. PICK out \in Install!SetEnabled(Install!Enabling) :
        reg' = out.reg /\ Install!Step(out.ok, "enabled")
  BY DEF Install!Enable
<1>5. reg' \in Registrations /\ out.ok \in BOOLEAN
  BY <1>3, <1>4, SetEnabledTyped DEF Install!Enabling
<1>6. ASSUME ~unsure
      PROVE  /\ CrashIsSound' /\ \A c \in root'.crash : c.journal = op.journal
             /\ reg'.exe = op.journal.next.version /\ Marked'
             /\ out.ok => reg'.enabled = Install!Enabling
  <2>1. /\ CrashIsSound /\ reg.exe = op.journal.next.version /\ Marked
        /\ \A c \in root'.crash : c.journal = op.journal
    BY <1>1, <1>2, <1>6, UnderWay DEF Achieved
  <2>2. reg.exe # None
    BY <1>3, <2>1, InstallAssumption DEF Journals, InstallStates
  <2>3. /\ reg'.exe = reg.exe /\ reg'.marker = reg.marker
        /\ out.ok => reg'.enabled = Install!Enabling
    BY <1>3, <1>4, <2>2, SetEnabledOutcome DEF Install!Enabling
  <2>4. CrashIsSound' /\ Marked'
    BY <1>1, <1>3, <2>1, <2>3, KeepsRegistered DEF Marked
  <2> QED
    BY <2>1, <2>3, <2>4
<1>7. CASE out.ok
  <2>1. SameTransaction /\ op'.pc = "enabled"
    BY <1>3, <1>4, <1>7, GotoMoves DEF Install!Step, Forward
  <2>2. Install!Enabling' = Install!Enabling
    BY <2>1 DEF SameTransaction, Install!Enabling
  <2>3. ~unsure => Achieved'
    BY <1>6, <1>7, <2>1, <2>2 DEF Achieved, SameTransaction
  <2> QED
    BY <1>1, <1>2, <1>3, <1>5, <1>6, <2>1, <2>3, ForwardStep DEF Forward
<1>8. CASE ~out.ok
  <2>1. Install!Rollback
    BY <1>4, <1>8 DEF Install!Step
  <2> QED
    BY <1>1, <1>2, <1>3, <1>5, <1>6, <2>1, RollbackStep
<1> QED
  BY <1>5, <1>7, <1>8

LEMMA WriteEnabledStep == ASSUME InstallInv, Install!WriteEnabled PROVE InstallInv'
<1> DEFINE s == [op.journal.next EXCEPT !.enabled = Install!Enabling]
<1>1. op.pc = "enabled" /\ UNCHANGED <<platform, reg, data, app, unsure>>
  BY DEF Install!WriteEnabled
<1>2. op.pc \in Forward
  BY <1>1 DEF Forward
<1>3. op \in EnteredOp /\ op.journal.next \in InstallStates
  BY <1>2, UnderWay DEF Journals
<1>4. s \in InstallStates /\ s # None /\ s.version = op.journal.next.version
      /\ s.enabled = Install!Enabling
  <2>1. Install!Enabling \in BOOLEAN
    BY DEF Install!Enabling
  <2> QED
    BY <1>3, <2>1, InstallAssumption DEF InstallStates
<1>5. PICK out \in Install!Write("state", s) : root' = out.root /\ Install!Step(out.ok, "commit")
  BY DEF Install!WriteEnabled
<1> HIDE DEF s
<1>6. /\ RootIsSound' /\ out.ok \in BOOLEAN
      /\ out.ok => root' = Synced(WithState(s))
      /\ ~unsure => (CrashIsSound' /\ \A c \in root'.crash : c.journal = op.journal)
  BY <1>1, <1>2, <1>4, <1>5, StateWrites, StateChanges DEF InstallInv
<1>7. data' \in DataFiles /\ reg' \in Registrations
  BY <1>1 DEF InstallInv
<1>8. CASE out.ok
  <2>1. SameTransaction /\ op'.pc = "commit"
    BY <1>3, <1>5, <1>8, GotoMoves DEF Install!Step, Forward
  <2>2. root'.now.state = s
    BY <1>6, <1>8 DEF Synced, WithState
  <2>3. ASSUME ~unsure PROVE Achieved'
    <3>1. reg.exe = op.journal.next.version /\ Marked /\ reg.enabled = Install!Enabling
      BY <1>1, <1>2, <2>3, UnderWay DEF Achieved
    <3>2. Registered(root.now.state)'
      BY <1>1, <1>4, <2>2, <3>1 DEF Registered, Marked
    <3> QED
      BY <2>1, <3>2 DEF Achieved
  <2> QED
    BY <1>1, <1>2, <1>6, <1>7, <2>1, <2>3, ForwardStep DEF Forward
<1>9. CASE ~out.ok
  BY <1>1, <1>2, <1>5, <1>6, <1>7, <1>9, RollbackStep DEF Install!Step
<1> QED
  BY <1>6, <1>8, <1>9

\* With the registration removed nothing is enabled: a task without its marker
\* was not.
LEMMA RemovedIsOff ==
  ASSUME reg \in Registrations, reg.enabled => Marked, platform' = platform,
         NEW out \in Install!Remove, reg' = out.reg
  PROVE  /\ reg' \in Registrations /\ out.ok \in BOOLEAN
         /\ (reg.enabled => Marked)'
         /\ out.ok => ~reg'.enabled
<1>1. /\ reg' \in Registrations /\ out.ok \in BOOLEAN
      /\ reg' = reg \/ reg'.enabled = FALSE
      /\ out.ok => (reg'.enabled = FALSE \/ (reg' = reg /\ ~Marked))
  BY RemoveOutcome
<1>2. (reg.enabled => Marked)'
  BY <1>1 DEF Marked
<1> QED
  BY <1>1, <1>2, Zenon

LEMMA RemoveRegistrationStep == ASSUME InstallInv, Install!RemoveRegistration PROVE InstallInv'
<1>1. op.pc = "remove" /\ UNCHANGED <<platform, root, data, app, unsure>>
  BY DEF Install!RemoveRegistration
<1>2. op.pc \in Forward
  BY <1>1 DEF Forward
<1>3. /\ op \in EnteredOp /\ op.journal \in Journals /\ RootIsSound'
      /\ data' \in DataFiles /\ reg \in Registrations
  BY <1>1, <1>2, UnderWay, RootStays DEF InstallInv
<1>4. PICK out \in Install!Remove : reg' = out.reg /\ Install!Step(out.ok, "forget")
  BY DEF Install!RemoveRegistration
<1>5. reg' \in Registrations /\ out.ok \in BOOLEAN
  BY <1>3, <1>4, RemoveOutcome
<1>6. ASSUME ~unsure
      PROVE  /\ CrashIsSound' /\ \A c \in root'.crash : c.journal = op.journal
             /\ op.journal.reconfigure
             /\ out.ok => ~reg'.enabled
  <2>1. /\ CrashIsSound /\ op.journal.reconfigure
        /\ \A c \in root'.crash : c.journal = op.journal
    BY <1>1, <1>2, <1>6, UnderWay DEF Achieved
  <2>2. (reg.enabled => Marked)' /\ (out.ok => ~reg'.enabled)
    BY <1>1, <1>3, <1>4, <2>1, RemovedIsOff DEF CrashIsSound
  <2> QED
    BY <1>3, <2>1, <2>2, Reconfigures
<1>7. CASE out.ok
  <2>1. SameTransaction /\ op'.pc = "forget"
    BY <1>3, <1>4, <1>7, GotoMoves DEF Install!Step, Forward
  <2>2. ~unsure => Achieved'
    BY <1>6, <1>7, <2>1 DEF Achieved, SameTransaction
  <2> QED
    BY <1>1, <1>2, <1>3, <1>5, <1>6, <2>1, <2>2, ForwardStep DEF Forward
<1>8. CASE ~out.ok
  <2>1. Install!Rollback
    BY <1>4, <1>8 DEF Install!Step
  <2> QED
    BY <1>1, <1>2, <1>3, <1>5, <1>6, <2>1, RollbackStep
<1> QED
  BY <1>5, <1>7, <1>8

LEMMA RemoveStateStep == ASSUME InstallInv, Install!RemoveState PROVE InstallInv'
<1>1. op.pc = "forget" /\ UNCHANGED <<platform, reg, data, app, unsure>>
  BY DEF Install!RemoveState
<1>2. op.pc \in Forward /\ RootIsSound
  BY <1>1 DEF Forward, InstallInv
<1>3. op \in EnteredOp /\ data' \in DataFiles /\ reg' \in Registrations
  BY <1>1, <1>2, UnderWay DEF InstallInv
<1>4. PICK out \in Install!Unlink("state") : root' = out.root /\ Install!Step(out.ok, "commit")
  BY DEF Install!RemoveState
<1>5. /\ out.ok \in BOOLEAN /\ (~out.ok => root' = root)
      /\ out.ok => root' = Dirty(WithState(None))
  BY <1>2, <1>4, Unlinks
<1>6. CASE out.ok
  <2>1. SameTransaction /\ op'.pc = "commit"
    BY <1>3, <1>4, <1>6, GotoMoves DEF Install!Step, Forward
  <2>2. root'.now.state = None
    BY <1>5, <1>6 DEF Dirty, WithState
  <2>3. RootIsSound'
    <3>1. WithState(None) \in InstallContent /\ WithState(None).journal = root.now.journal
      BY <1>2 DEF RootIsSound, WithState, InstallContent
    <3> QED
      BY <1>2, <1>5, <1>6, <3>1, RootMoves DEF RootIsSound
  <2>4. ASSUME ~unsure
        PROVE  CrashIsSound' /\ Achieved' /\ \A c \in root'.crash : c.journal = op.journal
    <3>1. op.journal.reconfigure /\ ~reg'.enabled
      BY <1>1, <1>2, <2>4, UnderWay DEF Achieved
    <3>2. CrashIsSound' /\ \A c \in root'.crash : c.journal = op.journal
      BY <1>1, <1>2, <1>5, <1>6, <2>4, <3>1, StateChanges
    <3>3. Registered(root.now.state)'
      BY <2>2, <3>1 DEF Registered
    <3>4. Achieved'
      BY <2>1, <3>3 DEF Achieved
    <3> QED
      BY <3>2, <3>4
  <2> QED
    BY <1>1, <1>2, <1>3, <2>1, <2>3, <2>4, ForwardStep DEF Forward
<1>7. CASE ~out.ok
  <2>1. Install!Rollback /\ root' = root
    BY <1>4, <1>5, <1>7 DEF Install!Step
  <2>2. ~unsure => (CrashIsSound' /\ \A c \in root'.crash : c.journal = op.journal)
    BY <1>1, <1>2, <2>1, UnderWay, CrashStays
  <2> QED
    BY <1>1, <1>2, <1>3, <2>1, <2>2, RollbackStep, RootStays
<1> QED
  BY <1>5, <1>6, <1>7

LEMMA CommitStep == ASSUME InstallInv, Install!Commit PROVE InstallInv'
<1>1. op.pc = "commit" /\ UNCHANGED <<platform, reg, data, app, unsure>>
  BY DEF Install!Commit
<1>2. op.pc \in Forward /\ RootIsSound
  BY <1>1 DEF Forward, InstallInv
<1>3. /\ data' \in DataFiles /\ reg' \in Registrations /\ app' \in BOOLEAN /\ unsure' \in BOOLEAN
  BY <1>1 DEF InstallInv
<1>4. PICK out \in Install!Unlink("journal") :
        root' = out.root /\ IF out.ok THEN Install!End ELSE Install!Rollback
  BY DEF Install!Commit
<1>5. /\ out.ok \in BOOLEAN /\ (~out.ok => root' = root)
      /\ out.ok => root' = Dirty(WithJournal(None))
  BY <1>2, <1>4, Unlinks
<1>6. CASE out.ok
  <2>1. ~unsure => Registered(root.now.state)
    BY <1>1, <1>2, UnderWay DEF Achieved
  <2>2. RootIsSound' /\ (~unsure => CrashIsSound')
    BY <1>1, <1>2, <1>5, <1>6, <2>1, JournalGoes
  <2> QED
    BY <1>1, <1>3, <1>4, <1>6, <2>2, OpEnds DEF InstallInv, RegistrationIsSound, Install!End
<1>7. CASE ~out.ok
  <2>1. Install!Rollback /\ root' = root
    BY <1>4, <1>5, <1>7
  <2>2. ~unsure => (CrashIsSound' /\ \A c \in root'.crash : c.journal = op.journal)
    BY <1>1, <1>2, <2>1, UnderWay, CrashStays
  <2> QED
    BY <1>1, <1>2, <1>3, <2>1, <2>2, RollbackStep, RootStays
<1> QED
  BY <1>5, <1>6, <1>7

\* Going back in the same way.
LEMMA BackwardStep ==
  ASSUME InstallInv, op.pc \in Backward, SameTransaction, op'.pc \in Backward,
         op'.pc = "reenable" => op.journal.prior # None, app' = app, unsure' = unsure,
         RootIsSound', reg' \in Registrations, data' \in DataFiles, DataGoesBack',
         ~unsure => (CrashIsSound' /\ Achieved' /\ \A c \in root'.crash : c.journal = op.journal)
  PROVE  InstallInv'
<1>1. OpIsSound' /\ Active'
  BY UnderWay, OpGoesOn DEF InstallInv
<1>2. ~unsure => JournalIsKept'
  BY <1>1 DEF SameTransaction, JournalIsKept
<1> QED
  BY <1>1, <1>2 DEF InstallInv, RegistrationIsSound

LEMMA RestoreDataStep == ASSUME InstallInv, Install!RestoreData PROVE InstallInv'
<1>1. op.pc = "restore" /\ UNCHANGED <<platform, root, reg, app, unsure>>
  BY DEF Install!RestoreData
<1>2. op.pc \in Backward
  BY <1>1 DEF Backward
<1>3. /\ RootIsSound' /\ reg' \in Registrations /\ op \in EnteredOp /\ data \in DataFiles
      /\ DataGoesBack /\ op.journal.restore /\ ~op.failed /\ op.journal.backup \in DataFiles
  BY <1>1, <1>2, RootStays, UnderWay DEF InstallInv, DataGoesBack, JournalIsSound
<1>4. ~unsure => (CrashIsSound' /\ \A c \in root'.crash : c.journal = op.journal)
  BY <1>1, <1>2, UnderWay, CrashStays
<1>5. ASSUME op.file \in Install!Files, Install!Restore(op.file), op' = [op EXCEPT !.file = @ + 1]
      PROVE  InstallInv'
  <2>1. data' = [data EXCEPT ![op.file] = op.journal.backup[op.file]]
    BY <1>5 DEF Install!Restore
  <2>2. data' \in DataFiles
    BY <1>3, <1>5, <2>1 DEF DataFiles
  <2>3. /\ SameTransaction /\ op'.pc = "restore" /\ op'.file = op.file + 1 /\ op.file \in Nat
        /\ op'.failed = op.failed
    BY <1>1, <1>3, <1>5 DEF EnteredOp, SameTransaction
  <2>4. \A f \in Install!Files : f < op'.file => data'[f] = op.journal.backup[f]
    <3> SUFFICES ASSUME NEW f \in Install!Files, f < op.file + 1
                 PROVE  data'[f] = op.journal.backup[f]
      BY <2>3
    <3>1. f \in Nat /\ (f < op.file \/ f = op.file)
      BY <2>3 DEF Install!Files
    <3> QED
      BY <1>1, <1>3, <1>5, <2>1, <3>1 DEF DataGoesBack, DataFiles
  <2>5. DataGoesBack'
    BY <1>3, <2>3, <2>4 DEF DataGoesBack, SameTransaction, Install!Files
  <2>6. Achieved'
    BY <2>3 DEF Achieved
  <2> QED
    BY <1>1, <1>2, <1>3, <1>4, <2>2, <2>3, <2>5, <2>6, BackwardStep
<1>6. ASSUME NEW ok \in BOOLEAN, Install!Continue(ok, "unregister"), data' = data,
             ok => op.file > NumFiles
      PROVE  InstallInv'
  <2>1. SameTransaction /\ op'.pc = "unregister" /\ (~op'.failed => ok)
    BY <1>3, <1>6, ContinueMoves DEF Backward
  <2>2. ok => data = op.journal.backup
    <3> SUFFICES ASSUME ok PROVE data = op.journal.backup
      OBVIOUS
    <3>1. \A f \in Install!Files : f < op.file
      BY <1>3, <1>6, InstallAssumption DEF Install!Files, EnteredOp
    <3> QED
      BY <1>1, <1>3, <3>1 DEF DataGoesBack, DataFiles
  <2>3. DataGoesBack'
    BY <1>6, <2>1, <2>2 DEF DataGoesBack, SameTransaction
  <2>4. Achieved'
    BY <2>1 DEF Achieved
  <2> QED
    BY <1>1, <1>2, <1>3, <1>4, <1>6, <2>1, <2>3, <2>4, BackwardStep DEF Backward
<1> QED
  BY <1>5, <1>6 DEF Install!RestoreData

LEMMA RestoreRegistrationStep == ASSUME InstallInv, Install!RestoreRegistration PROVE InstallInv'
<1> DEFINE j == op.journal
<1>1. op.pc = "unregister" /\ UNCHANGED <<platform, root, data, app, unsure>>
  BY DEF Install!RestoreRegistration
<1>2. op.pc \in Backward /\ op.pc \in Backward \ {"restore"}
  BY <1>1 DEF Backward
<1>3. /\ op \in EnteredOp /\ j \in Journals /\ JournalIsSound(j) /\ RootIsSound /\ RootIsSound'
      /\ data' \in DataFiles /\ reg \in Registrations /\ DataGoesBack
  BY <1>1, <1>2, UnderWay, RootStays DEF InstallInv
<1>4. ~unsure => (/\ CrashIsSound /\ (reg.enabled => Marked)
                  /\ \A c \in root'.crash : c.journal = j)
  BY <1>1, <1>2, UnderWay DEF CrashIsSound
<1>5. ASSUME j.prior = None,
             NEW out \in Install!Remove, reg' = out.reg, Install!Continue(out.ok, "restate")
      PROVE  InstallInv'
  <2>1. reg' \in Registrations /\ out.ok \in BOOLEAN
    BY <1>3, <1>5, RemoveOutcome
  <2>2. SameTransaction /\ op'.pc = "restate" /\ (~op'.failed => (out.ok /\ ~op.failed))
    BY <1>3, <1>5, <2>1, ContinueMoves DEF Backward
  <2>3. DataGoesBack'
    BY <1>1, <1>2, <1>3, <2>2, BackwardData DEF Backward
  <2>4. ASSUME ~unsure PROVE CrashIsSound' /\ Achieved'
    <3>1. (reg.enabled => Marked)' /\ (out.ok => ~reg'.enabled)
      BY <1>1, <1>3, <1>4, <1>5, <2>4, RemovedIsOff
    <3>2. CrashIsSound'
      BY <1>3, <1>4, <1>5, <2>4, <3>1, Reconfigures DEF JournalIsSound
    <3>3. Achieved'
      BY <1>5, <2>2, <3>1 DEF Achieved, Registered, SameTransaction
    <3> QED
      BY <3>2, <3>3
  <2> QED
    BY <1>1, <1>2, <1>3, <1>4, <2>1, <2>2, <2>3, <2>4, BackwardStep DEF Backward
<1>6. ASSUME j.prior # None, j.reconfigure,
             NEW out \in Install!Configure(j.prior.version), reg' = out.reg,
             Install!Continue(out.ok, IF out.ok THEN "reenable" ELSE "finish")
      PROVE  InstallInv'
  <2>1. j.prior.version \in Versions \union {None}
    BY <1>3, <1>6 DEF Journals, InstallStates
  <2>2. /\ reg' \in Registrations /\ out.ok \in BOOLEAN
        /\ reg' = reg \/ reg'.enabled = FALSE
        /\ out.ok => (reg'.exe = j.prior.version /\ Marked')
    BY <1>1, <1>3, <1>6, <2>1, ConfigureOutcome DEF Marked
  <2>3. ASSUME ~unsure PROVE CrashIsSound'
    <3>1. (reg.enabled => Marked)'
      BY <1>1, <1>4, <2>2, <2>3 DEF Marked
    <3> QED
      BY <1>3, <1>4, <1>6, <2>3, <3>1, Reconfigures
  <2>4. CASE out.ok
    <3>1. Install!Continue(out.ok, "reenable")
      BY <1>6, <2>4
    <3>2. SameTransaction /\ op'.pc = "reenable" /\ (~op'.failed => (out.ok /\ ~op.failed))
      BY <1>3, <2>2, <3>1, ContinueMoves DEF Backward
    <3>3. DataGoesBack'
      BY <1>1, <1>2, <1>3, <3>2, BackwardData DEF Backward
    <3>4. Achieved'
      BY <1>6, <2>2, <2>4, <3>2 DEF Achieved, SameTransaction
    <3> QED
      BY <1>1, <1>2, <1>3, <1>4, <1>6, <2>2, <2>3, <3>2, <3>3, <3>4, BackwardStep DEF Backward
  <2>5. CASE ~out.ok
    <3>1. Install!Continue(out.ok, "finish")
      BY <1>6, <2>5
    <3>2. SameTransaction /\ op'.pc = "finish" /\ op'.failed
      BY <1>3, <2>2, <2>5, <3>1, ContinueMoves DEF Backward
    <3>3. DataGoesBack'
      BY <1>1, <1>2, <1>3, <3>2, BackwardData DEF Backward
    <3>4. Achieved'
      BY <3>2 DEF Achieved
    <3> QED
      BY <1>1, <1>2, <1>3, <1>4, <2>2, <2>3, <3>2, <3>3, <3>4, BackwardStep DEF Backward
  <2> QED
    BY <2>2, <2>4, <2>5
<1>7. ASSUME j.prior # None, ~j.reconfigure, Install!Continue(TRUE, "reenable"), reg' = reg
      PROVE  InstallInv'
  <2>1. SameTransaction /\ op'.pc = "reenable" /\ (~op'.failed => ~op.failed)
    BY <1>3, <1>7, ContinueMoves DEF Backward
  <2>2. DataGoesBack'
    BY <1>1, <1>2, <1>3, <2>1, BackwardData DEF Backward
  <2>3. ASSUME ~unsure PROVE CrashIsSound' /\ Achieved'
    <3>1. j # None /\ root.now \in root.crash /\ root.now.journal = j
      BY <1>1, <1>3, <1>4, <2>3, InstallAssumption DEF RootIsSound
    <3>2. reg.exe = j.prior.version /\ Marked
      BY <1>4, <1>7, <2>3, <3>1 DEF CrashIsSound, ContentIsSound
    <3>3. Achieved'
      BY <1>1, <1>7, <2>1, <3>2 DEF Achieved, SameTransaction, Marked
    <3> QED
      BY <1>1, <1>4, <1>7, <2>3, <3>3, CrashStays
  <2> QED
    BY <1>1, <1>2, <1>3, <1>4, <1>7, <2>1, <2>2, <2>3, BackwardStep DEF Backward
<1> QED
  BY <1>5, <1>6, <1>7 DEF Install!RestoreRegistration

LEMMA RestoreEnabledStep == ASSUME InstallInv, Install!RestoreEnabled PROVE InstallInv'
<1> DEFINE j == op.journal
<1>1. op.pc = "reenable" /\ UNCHANGED <<platform, root, data, app, unsure>>
  BY DEF Install!RestoreEnabled
<1>2. op.pc \in Backward /\ op.pc \in Backward \ {"restore"}
  BY <1>1 DEF Backward
<1>3. /\ op \in EnteredOp /\ j \in Journals /\ RootIsSound /\ RootIsSound'
      /\ data' \in DataFiles /\ reg \in Registrations /\ DataGoesBack /\ j.prior # None
  BY <1>1, <1>2, UnderWay, RootStays DEF InstallInv, OpIsSound
<1>4. PICK out \in Install!SetEnabled(j.prior.enabled) :
         reg' = out.reg /\ Install!Continue(out.ok, IF out.ok THEN "restate" ELSE "finish")
  BY DEF Install!RestoreEnabled
<1>5. ASSUME ~unsure
      PROVE  /\ reg'.exe = j.prior.version /\ Marked' /\ CrashIsSound'
             /\ \A c \in root'.crash : c.journal = j
             /\ out.ok => reg'.enabled = j.prior.enabled
  <2>1. /\ CrashIsSound /\ reg.exe = j.prior.version /\ Marked
        /\ \A c \in root'.crash : c.journal = j
    BY <1>1, <1>2, <1>5, UnderWay DEF Achieved
  <2>2. reg.exe # None /\ j.prior.enabled \in BOOLEAN
    BY <1>3, <2>1, InstallAssumption DEF Journals, InstallStates
  <2>3. /\ reg'.exe = reg.exe /\ reg'.marker = reg.marker
        /\ out.ok => reg'.enabled = j.prior.enabled
    BY <1>3, <1>4, <2>2, SetEnabledOutcome
  <2>4. CrashIsSound' /\ Marked'
    BY <1>1, <1>3, <2>1, <2>3, KeepsRegistered DEF Marked
  <2> QED
    BY <2>1, <2>3, <2>4
<1>6. reg' \in Registrations /\ out.ok \in BOOLEAN
  <2>1. j.prior.enabled \in BOOLEAN
    BY <1>3 DEF Journals, InstallStates
  <2> QED
    BY <1>3, <1>4, <2>1, SetEnabledTyped
<1>7. CASE out.ok
  <2>1. Install!Continue(out.ok, "restate")
    BY <1>4, <1>7
  <2>2. SameTransaction /\ op'.pc = "restate" /\ (~op'.failed => (out.ok /\ ~op.failed))
    BY <1>3, <1>6, <2>1, ContinueMoves DEF Backward
  <2>3. DataGoesBack'
    BY <1>1, <1>2, <1>3, <2>2, BackwardData DEF Backward
  <2>4. ~unsure => Achieved'
    BY <1>3, <1>5, <1>7, <2>2 DEF Achieved, Registered, SameTransaction
  <2> QED
    BY <1>1, <1>2, <1>3, <1>5, <1>6, <2>2, <2>3, <2>4, BackwardStep DEF Backward
<1>8. CASE ~out.ok
  <2>1. Install!Continue(out.ok, "finish")
    BY <1>4, <1>8
  <2>2. SameTransaction /\ op'.pc = "finish" /\ op'.failed
    BY <1>3, <1>6, <1>8, <2>1, ContinueMoves DEF Backward
  <2>3. DataGoesBack'
    BY <1>1, <1>2, <1>3, <2>2, BackwardData DEF Backward
  <2>4. Achieved'
    BY <2>2 DEF Achieved
  <2> QED
    BY <1>1, <1>2, <1>3, <1>5, <1>6, <2>2, <2>3, <2>4, BackwardStep DEF Backward
<1> QED
  BY <1>6, <1>7, <1>8

LEMMA RestoreStateStep == ASSUME InstallInv, Install!RestoreState PROVE InstallInv'
<1> DEFINE s == op.journal.prior
<1>1. op.pc = "restate" /\ UNCHANGED <<platform, reg, data, app, unsure>>
  BY DEF Install!RestoreState
<1>2. op.pc \in Backward /\ op.pc \in Backward \ {"restore"}
  BY <1>1 DEF Backward
<1>3. /\ op \in EnteredOp /\ s \in InstallStates \union {None} /\ JournalIsSound(op.journal)
      /\ RootIsSound /\ data' \in DataFiles /\ reg' \in Registrations /\ DataGoesBack
  BY <1>1, <1>2, UnderWay DEF InstallInv, Journals
<1>4. PICK out \in IF s = None THEN Install!Unlink("state") ELSE Install!Write("state", s) :
         root' = out.root /\ Install!Continue(out.ok, "finish")
  BY DEF Install!RestoreState
<1>5. /\ root' \in {root, Dirty(WithState(s)), Synced(WithState(s))} /\ out.ok \in BOOLEAN
      /\ out.ok => root'.now.state = s
  <2>1. CASE s = None
    <3>1. /\ out.ok \in BOOLEAN /\ (~out.ok => root' = root)
          /\ out.ok => root' = Dirty(WithState(None))
      BY <1>3, <1>4, <2>1, Unlinks
    <3>2. Dirty(WithState(None)).now.state = None
      BY DEF Dirty, WithState
    <3> QED
      BY <2>1, <3>1, <3>2
  <2>2. CASE s # None
    <3>1. /\ root' \in {root, Dirty(WithState(s)), Synced(WithState(s))} /\ out.ok \in BOOLEAN
          /\ out.ok => root' = Synced(WithState(s))
      BY <1>3, <1>4, <2>2, StateWrites
    <3>2. Synced(WithState(s)).now.state = s
      BY DEF Synced, WithState
    <3> QED
      BY <3>1, <3>2
  <2> QED
    BY <2>1, <2>2
<1>6. ~op.journal.reconfigure => s # None
  BY <1>3 DEF JournalIsSound
<1>7. /\ RootIsSound'
      /\ ~unsure => (CrashIsSound' /\ \A c \in root'.crash : c.journal = op.journal)
  BY <1>1, <1>2, <1>3, <1>5, <1>6, StateChanges
<1>8. SameTransaction /\ op'.pc = "finish" /\ (~op'.failed => (out.ok /\ ~op.failed))
  BY <1>3, <1>4, <1>5, ContinueMoves DEF Backward
<1>9. DataGoesBack'
  BY <1>1, <1>2, <1>3, <1>8, BackwardData DEF Backward
<1>10. ASSUME ~unsure PROVE Achieved'
  <2>1. ~op.failed => Registered(s)
    BY <1>1, <1>2, <1>10, UnderWay DEF Achieved
  <2>2. ~op'.failed => Registered(root.now.state)'
    BY <1>1, <1>5, <1>8, <2>1 DEF Registered, Marked
  <2> QED
    BY <1>8, <2>2 DEF Achieved
<1> QED
  BY <1>1, <1>2, <1>3, <1>7, <1>8, <1>9, <1>10, BackwardStep DEF Backward

LEMMA FinishStep == ASSUME InstallInv, Install!Finish PROVE InstallInv'
<1>1. op.pc = "finish" /\ UNCHANGED <<platform, reg, data, app, unsure>>
  BY DEF Install!Finish
<1>2. op.pc \in Backward
  BY <1>1 DEF Backward
<1>3. /\ op \in EnteredOp /\ RootIsSound /\ OpIsSound
      /\ data' \in DataFiles /\ reg' \in Registrations /\ app' \in BOOLEAN /\ unsure' \in BOOLEAN
  BY <1>1, <1>2, UnderWay DEF InstallInv
<1>4. ASSUME Install!End, root' = root PROVE InstallInv'
  <2>1. ~unsure => CrashIsSound'
    BY <1>1, <1>2, <1>4, UnderWay, CrashStays
  <2> QED
    BY <1>1, <1>3, <1>4, <2>1, OpEnds, RootStays DEF InstallInv, RegistrationIsSound, Install!End
<1>5. ASSUME ~op.failed, NEW out \in Install!Unlink("journal"), root' = out.root,
             IF out.ok /\ op.recovering THEN Install!Goto("run") ELSE Install!End
      PROVE  InstallInv'
  <2>1. /\ out.ok \in BOOLEAN /\ (~out.ok => root' = root)
        /\ out.ok => root' = Dirty(WithJournal(None))
    BY <1>3, <1>5, Unlinks
  <2>2. ~unsure => Registered(root.now.state)
    BY <1>1, <1>2, <1>5, UnderWay DEF Achieved
  <2>3. CASE out.ok
    <3>1. RootIsSound' /\ root'.now.journal = None /\ (~unsure => CrashIsSound')
      BY <1>1, <1>2, <2>1, <2>2, <2>3, JournalGoes
    <3>2. CASE Install!End
      BY <1>1, <1>3, <3>1, <3>2, OpEnds DEF InstallInv, RegistrationIsSound, Install!End
    <3>3. CASE Install!Goto("run")
      <4>1. SameTransaction /\ op'.pc = "run"
        BY <1>3, <3>3, GotoMoves
      <4>2. ~Active'
        BY <4>1 DEF Active, Forward, Backward
      <4>3. OpIsSound'
        BY <1>1, <1>3, <3>1, <4>1, <4>2 DEF OpIsSound, SameTransaction
      <4>4. DataGoesBack' /\ JournalIsKept' /\ Achieved'
        BY <4>1, <4>2 DEF DataGoesBack, JournalIsKept, Achieved, Backward
      <4> QED
        BY <1>1, <1>3, <3>1, <4>3, <4>4 DEF InstallInv, RegistrationIsSound
    <3> QED
      BY <1>5, <3>2, <3>3
  <2>4. CASE ~out.ok
    BY <1>4, <1>5, <2>1, <2>4
  <2> QED
    BY <2>1, <2>3, <2>4
<1> QED
  BY <1>4, <1>5 DEF Install!Finish

LEMMA CompanionStep ==
  ASSUME InstallInv, Install!StartCompanion \/ Install!EditData \/ Install!StopCompanion
  PROVE  InstallInv'
<1>1. UNCHANGED <<platform, root, reg, op, unsure>>
  BY DEF Install!StartCompanion, Install!EditData, Install!StopCompanion
<1>2. /\ OpIsSound /\ RootIsSound /\ DataGoesBack /\ data \in DataFiles /\ reg \in Registrations
      /\ app \in BOOLEAN /\ unsure \in BOOLEAN
  BY DEF InstallInv
<1>3. RootIsSound' /\ (~unsure => RegistrationIsSound')
  BY <1>1, <1>2, RootStays, CrashStays
     DEF InstallInv, RegistrationIsSound, JournalIsKept, Active, Achieved, Registered, Marked,
         Install!Enabling
<1>4. ASSUME data' = data, app' \in BOOLEAN, op.fenced => ~app' PROVE InstallInv'
  <2>1. OpIsSound' /\ DataGoesBack'
    BY <1>1, <1>2, <1>4 DEF OpIsSound, DataGoesBack, JournalIsSound, Active
  <2> QED
    BY <1>1, <1>2, <1>3, <1>4, <2>1 DEF InstallInv
<1>5. CASE Install!EditData
  <2>1. app /\ app' = app /\ ~op.fenced
    BY <1>2, <1>5 DEF Install!EditData, OpIsSound
  <2>2. PICK f \in Install!Files : data' = [data EXCEPT ![f].edit = @ + 1]
    BY <1>5 DEF Install!EditData
  <2>3. data' \in DataFiles
    BY <1>2, <2>2 DEF DataFiles
  <2>4. OpIsSound'
    BY <1>1, <1>2, <2>1 DEF OpIsSound, JournalIsSound, Active
  <2>5. op.pc \in Backward => ~op.journal.restore
    BY <1>2, <2>1 DEF OpIsSound, Active
  <2>6. op.pc # "restore"
    BY <1>2, <2>5 DEF DataGoesBack, Backward
  <2>7. DataGoesBack'
    BY <1>1, <2>5, <2>6 DEF DataGoesBack
  <2> QED
    BY <1>1, <1>2, <1>3, <2>1, <2>3, <2>4, <2>7 DEF InstallInv
<1> QED
  BY <1>2, <1>4, <1>5 DEF Install!StartCompanion, Install!StopCompanion

LEMMA MachineStep == ASSUME InstallInv, Install!Kill \/ Install!PowerLoss PROVE InstallInv'
<1>1. op' = Install!Idle /\ UNCHANGED <<platform, reg, data, unsure>>
  BY DEF Install!Kill, Install!PowerLoss, Install!End
<1>2. /\ RootIsSound /\ data' \in DataFiles /\ reg' \in Registrations /\ unsure' \in BOOLEAN
      /\ app' \in BOOLEAN
  BY <1>1 DEF InstallInv, Install!Kill, Install!PowerLoss
<1>3. ASSUME root' = root PROVE InstallInv'
  BY <1>1, <1>2, <1>3, OpEnds, RootStays, CrashStays DEF InstallInv, RegistrationIsSound
<1>4. ASSUME NEW c \in root.crash, root' = [now |-> c, crash |-> {c}] PROVE InstallInv'
  <2>1. root'.now = c /\ root'.crash = {c}
    BY <1>4
  <2>2. RootIsSound'
    BY <1>2, <2>1 DEF RootIsSound, JournalIsSound
  <2>3. ASSUME ~unsure PROVE CrashIsSound'
    <3>1. CrashIsSound /\ ContentIsSound(c)
      BY <1>4, <2>3 DEF InstallInv, RegistrationIsSound, CrashIsSound
    <3>2. ContentIsSound(c)'
      BY <1>1, <2>1, <3>1 DEF ContentIsSound, Registered, Marked
    <3> QED
      BY <1>1, <2>1, <3>1, <3>2 DEF CrashIsSound, Marked
  <2> QED
    BY <1>1, <1>2, <2>2, <2>3, OpEnds DEF InstallInv, RegistrationIsSound
<1> QED
  BY <1>3, <1>4 DEF Install!Kill, Install!PowerLoss

LEMMA InstallStays == ASSUME InstallInv, UNCHANGED installVars PROVE InstallInv'
  BY DEF installVars, InstallInv, RootIsSound, OpIsSound, DataGoesBack, RegistrationIsSound,
         CrashIsSound, JournalIsKept, Achieved, ContentIsSound, Registered, Marked, Active,
         JournalIsSound, Install!Enabling

LEMMA InstallInvariant == MCSpec => []InstallInv
<1>1. InstallInv /\ [MCNext]_<<part, vars, hubVars, leaseVars, secretVars, installVars, ringVars>>
        => InstallInv'
  <2> SUFFICES ASSUME InstallInv, Install!Next \/ UNCHANGED installVars PROVE InstallInv'
    BY DEF MCNext
  <2> QED
    BY InstallStays, BeginStep, RecoverStep, WriteJournalStep, ReturnStep, MigrateStep,
       ConfigureNextStep, WriteStateStep, EnableStep, WriteEnabledStep, RemoveRegistrationStep,
       RemoveStateStep, CommitStep, RestoreDataStep, RestoreRegistrationStep, RestoreEnabledStep,
       RestoreStateStep, FinishStep, CompanionStep, MachineStep
    DEF Install!Next
<1> QED
  BY <1>1, InstallInitially, PTL DEF MCSpec

\* Whenever a restart would find no journal, the login registration is exactly
\* what the installation state says, and a rollback that removes its journal has
\* put every data file back: for any platform, versions and number of files,
\* through failing platform calls, kills and power losses (Apply, SetEnabled,
\* Uninstall, rollback, recover).
THEOREM InstallationStaysWhole == MCSpec => []InstallationIsWhole
<1>1. InstallInv => InstallationIsWhole
  <2> SUFFICES ASSUME InstallInv PROVE Install!StateIsRegistered /\ Install!RollbackRestores
    BY DEF InstallationIsWhole
  <2>1. Install!RollbackRestores
    BY DEF InstallInv, DataGoesBack, Install!RollbackRestores, Backward
  <2>2. Install!StateIsRegistered
    BY DEF InstallInv, RegistrationIsSound, CrashIsSound, ContentIsSound, Registered,
           Install!StateIsRegistered
  <2> QED
    BY <2>1, <2>2
<1> QED
  BY <1>1, InstallInvariant, PTL

-----------------------------------------------------------------------------
\* The Web TX Lease.

Holders == Clients \union {NoClient}
TxStates == {"disarmed", "usb_tx", "web_tx"}
Owners == {"none", "unavailable", "usb", "web", "transitioning"}
Requests ==
  [kind : {"request"}, id : Nat \ {0}, enable : BOOLEAN, session : Nat, client : Holders]
Activities == [kind : {"activity"}, session : Nat, lease : Nat, client : Holders]
Frames == [kind : {"frame"}, session : Nat, sequence : Nat, client : Holders]
Messages == Requests \union Activities \union Frames
OwnerResults ==
  [id : Nat, accepted : BOOLEAN, owner : Owners, session : Nat, lease : Nat]
StateReports == [kind : {"state"}, state : TxStates, session : Nat]
ResultReports == [kind : {"result"}, result : OwnerResults]
Reports == StateReports \union ResultReports
Decks ==
  [state : TxStates, session : Nat, lease : Nat, tracker : Nat, queue : Seq(Requests),
   result : OwnerResults, published : BOOLEAN, order : Nat]

LeaseTyped ==
  /\ svc \in [state : TxStates, session : Nat, sequence : Nat]
  /\ lease \in [session : Nat, client : Holders, owner : Owners, id : Nat]
  /\ pending \in [id : Nat, enable : BOOLEAN, claimed : BOOLEAN]
  /\ nextID \in Nat \ {0} /\ outbox \subseteq Messages
  /\ conn \in {"none", "serving", "ending"} /\ deckUp \in BOOLEAN
  /\ toDeck \in Seq(Messages) /\ toCompanion \in Seq(Reports)
  /\ deck \in Decks /\ grants \in Seq(Holders)

\* What is known of an end without a link, and of the request the Deck tracks.
LinkHolds ==
  /\ ~deckUp => toDeck = <<>> /\ deck.tracker = 0 /\ deck.state # "web_tx"
  /\ conn = "none" => toCompanion = <<>>
  /\ deck.tracker = 0 => deck.queue = <<>> /\ deck.result = Lease!NoResult
  /\ deck.tracker # 0 =>
       \/ Len(deck.queue) = 1 /\ deck.queue[1].id = deck.tracker /\ deck.result = Lease!NoResult
       \/ deck.queue = <<>> /\ deck.result.id = deck.tracker
  /\ deck.state # "disarmed" => deck.session # 0
  /\ deck.result.session <= deck.session

\* A lease shown as held is of the present session and nothing is asked of it.
HeldHolds ==
  /\ lease.owner = "web" =>
       /\ pending.id = 0 /\ lease.session = svc.session /\ svc.session # 0
       /\ lease.id \in DOMAIN grants /\ grants[lease.id] = lease.client
  /\ pending.id < nextID

\* A request is of this process, and the pending one asks what the lease says.
Asks(m) ==
  /\ m.id < nextID
  /\ m.id = pending.id =>
       m.enable = pending.enable /\ m.session = lease.session /\ m.client = lease.client

Granted(c) == \E i \in DOMAIN grants : grants[i] = c

\* The Deck's link state is of this process only while both ends have the link.
Linked == conn # "none" /\ deckUp
Served == conn = "serving" /\ deckUp

Said(x) ==
  /\ x.kind = "request" => Asks(x)
  /\ x.kind = "frame" => Granted(x.client)

MessagesHold ==
  /\ \A x \in outbox : Said(x)
  /\ \A i \in DOMAIN toDeck : Said(toDeck[i])
  /\ Linked => \A i \in DOMAIN deck.queue : Asks(deck.queue[i])
  /\ ~foreign

\* A result answers a request of this process; the one it answers is accepted if
\* the session it was made in is the one the result reports.
Answers(r) ==
  /\ r.id < nextID
  /\ (r.accepted /\ r.owner = "web") => r.lease \in DOMAIN grants
  /\ (r.id = pending.id /\ pending.id # 0) =>
       /\ (r.session # 0 /\ r.session = lease.session) => r.accepted
       /\ (r.accepted /\ r.owner = "web") => grants[r.lease] = lease.client
       /\ r.accepted => r.owner = IF pending.enable THEN "web" ELSE "usb"

IsState(i) == toCompanion[i].kind = "state"
IsResult(i) == toCompanion[i].kind = "result"

ResultsHold ==
  /\ \A i \in DOMAIN toCompanion : IsResult(i) => Answers(toCompanion[i].result)
  /\ Linked => Answers(deck.result)

\* The last report of the Deck is the last the Companion heard or will hear.
LastState(i) == IsState(i) /\ \A j \in DOMAIN toCompanion : j > i => ~IsState(j)

ReportsHold ==
  (Served /\ deck.published) =>
    /\ \A i \in DOMAIN toCompanion : LastState(i) =>
         toCompanion[i].state = deck.state /\ toCompanion[i].session = Lease!Wire(deck)
    /\ (\A i \in DOMAIN toCompanion : ~IsState(i)) => svc.session = Lease!Wire(deck)

\* A grant is in place until a report says otherwise.
Gives(r) == r.accepted /\ r.owner = "web" /\ r.session # 0 /\ r.session = Lease!Wire(deck)

GrantsHold ==
  /\ Gives(deck.result) => deck.state = "web_tx" /\ deck.lease = deck.result.lease
  /\ (Served /\ deck.published) =>
       \A i \in DOMAIN toCompanion :
         (IsResult(i) /\ Gives(toCompanion[i].result)
            /\ \A j \in DOMAIN toCompanion : j > i => ~IsState(j))
           => deck.state = "web_tx"

\* The result that names the lease in place.
Names(r) ==
  r.accepted /\ r.owner = "web" /\ r.lease = deck.lease /\ r.session = deck.session

ReportedSince(i) ==
  \A j \in DOMAIN toCompanion : (j > i /\ IsState(j)) =>
    toCompanion[j].state = "web_tx" /\ toCompanion[j].session = deck.session

\* While the target is the browser's, its result is owed, under way or known.
Owed == deck.tracker # 0 /\ deck.result.id = deck.tracker /\ Names(deck.result)
OnItsWay ==
  \E i \in DOMAIN toCompanion : IsResult(i) /\ Names(toCompanion[i].result) /\ ReportedSince(i)
Known ==
  /\ lease.owner = "web" /\ lease.id = deck.lease /\ pending.id = 0 /\ svc.state = "web_tx"
  /\ svc.session = deck.session /\ lease.session = deck.session /\ ReportedSince(0)
TakenBack ==
  /\ pending.id # 0 /\ ~pending.enable
  /\ svc.session = deck.session /\ lease.session = deck.session /\ ReportedSince(0)
  /\ \A i \in DOMAIN toCompanion : IsResult(i) => toCompanion[i].result.id # pending.id
  /\ deck.result.id # pending.id

WebHolds ==
  (Served /\ deck.state = "web_tx") => Owed \/ OnItsWay \/ Known \/ TakenBack

\* With nothing asked, what was reported last is what the Companion shows.
UsbHolds ==
  (Served /\ deck.published /\ deck.state # "web_tx" /\ pending.id = 0
     /\ \A i \in DOMAIN toCompanion : ~IsState(i))
    => svc.state = deck.state /\ lease.owner # "web"

LeaseInv ==
  LeaseTyped /\ LinkHolds /\ HeldHolds /\ MessagesHold /\ ResultsHold /\ ReportsHold
  /\ GrantsHold /\ WebHolds /\ UsbHolds

\* Messages are said, taken or thrown away, and nothing else happens.
LEMMA SayStep ==
  ASSUME LeaseInv, UNCHANGED <<lease, nextID, conn, toCompanion, deckUp, grants>>,
         svc' \in [state : TxStates, session : Nat, sequence : Nat],
         svc'.state = svc.state, svc'.session = svc.session,
         pending' \in [id : Nat, enable : BOOLEAN, claimed : BOOLEAN],
         pending'.id = pending.id, pending'.enable = pending.enable,
         deck' \in Decks, deck'.state = deck.state, deck'.session = deck.session,
         deck'.lease = deck.lease, deck'.tracker = deck.tracker, deck'.queue = deck.queue,
         deck'.result = deck.result, deck'.published = deck.published,
         outbox' \subseteq Messages, toDeck' \in Seq(Messages), ~deckUp => toDeck' = <<>>,
         ~foreign', \A x \in outbox' : Said(x), \A i \in DOMAIN toDeck' : Said(toDeck'[i])
  PROVE  LeaseInv'
<1> USE DEF LeaseInv
<1>1. LeaseTyped' /\ LinkHolds'
  BY DEF LeaseTyped, LinkHolds
<1>2. HeldHolds'
  BY DEF HeldHolds
<1>3. \A x : Said(x) => Said(x)'
  BY DEF Said, Asks, Granted
<1>4. MessagesHold'
  BY <1>3 DEF MessagesHold, Linked, Asks
<1>5. \A r : Answers(r) => Answers(r)'
  BY DEF Answers
<1>6. ResultsHold'
  BY <1>5 DEF ResultsHold, Linked, IsResult
<1>7. Lease!Wire(deck)' = Lease!Wire(deck)
  BY DEF Lease!Wire
<1>8. ReportsHold' /\ GrantsHold'
  BY <1>7 DEF ReportsHold, GrantsHold, Served, IsState, IsResult, LastState, Gives
<1>9. WebHolds'
  <2>1. (Owed => Owed') /\ (OnItsWay => OnItsWay') /\ (Known => Known') /\ (TakenBack => TakenBack')
    BY DEF Owed, OnItsWay, Known, TakenBack, Names, ReportedSince, IsState, IsResult
  <2> QED
    BY <2>1 DEF WebHolds, Served
<1>10. UsbHolds'
  BY DEF UsbHolds, Served, IsState
<1> QED
  BY <1>1, <1>2, <1>4, <1>6, <1>8, <1>9, <1>10

\* A new request: of the lease that is there, or of one nobody holds.
LEMMA AskStep ==
  ASSUME LeaseInv,
         UNCHANGED <<svc, outbox, conn, toDeck, toCompanion, deckUp, deck, grants, foreign>>,
         nextID' = nextID + 1, pending' \in [id : Nat, enable : BOOLEAN, claimed : BOOLEAN],
         pending'.id = nextID,
         lease' \in [session : Nat, client : Holders, owner : Owners, id : Nat],
         lease'.owner = "transitioning",
         \/ ~pending'.enable /\ lease'.session = lease.session
         \/ lease.owner # "web" /\ pending.id = 0
  PROVE  LeaseInv'
<1> USE DEF LeaseInv
<1>1. LeaseTyped' /\ LinkHolds' /\ HeldHolds'
  <2>1. nextID \in Nat \ {0}
    BY DEF LeaseTyped
  <2> QED
    BY <2>1 DEF LeaseTyped, LinkHolds, HeldHolds
<1>2. nextID \in Nat \ {0} /\ pending.id \in Nat /\ deck \in Decks
  BY DEF LeaseTyped
<1>3. \A m : (m.id \in Nat /\ Asks(m)) => Asks(m)'
  BY <1>2 DEF Asks
<1>4. MessagesHold'
  <2>1. \A x \in Messages : Said(x) => Said(x)'
    BY <1>3 DEF Said, Messages, Requests, Activities, Frames, Granted
  <2>2. /\ \A x \in outbox : x \in Messages
        /\ \A i \in DOMAIN toDeck : toDeck[i] \in Messages
        /\ \A i \in DOMAIN deck.queue : deck.queue[i].id \in Nat
    <3>1. deck.queue \in Seq(Requests)
      BY <1>2 DEF Decks
    <3>2. \A i \in DOMAIN deck.queue : deck.queue[i] \in Requests
      BY <3>1
    <3> QED
      BY <3>2 DEF LeaseTyped, Requests
  <2> QED
    BY <1>3, <2>1, <2>2 DEF MessagesHold, Linked
<1>5. \A r \in OwnerResults : Answers(r) => Answers(r)' /\ r.id # pending'.id
  BY <1>2 DEF Answers, OwnerResults
<1>6. deck.result \in OwnerResults /\ \A i \in DOMAIN toCompanion : IsResult(i) => toCompanion[i].result \in OwnerResults
  BY <1>2 DEF LeaseTyped, IsResult, Reports, StateReports, ResultReports, Decks
<1>7. ResultsHold'
  BY <1>5, <1>6 DEF ResultsHold, Linked, IsResult
<1>8. ReportsHold' /\ GrantsHold'
  BY DEF ReportsHold, GrantsHold, Served, IsState, IsResult, LastState, Gives
<1>9. WebHolds'
  <2>1. (Owed => Owed') /\ (OnItsWay => OnItsWay')
    BY DEF Owed, OnItsWay, Names, ReportedSince, IsState, IsResult
  <2>2. ASSUME Served, Known \/ TakenBack PROVE TakenBack'
    <3>1. /\ svc.session = deck.session /\ lease.session = deck.session /\ ReportedSince(0)
          /\ lease'.session = lease.session /\ ~pending'.enable
      BY <2>2 DEF Known, TakenBack
    <3>2. ReportedSince(0)'
      BY <3>1 DEF ReportedSince, IsState
    <3>3. (\A i \in DOMAIN toCompanion : IsResult(i) => toCompanion[i].result.id # pending'.id)
          /\ deck.result.id # pending'.id
      BY <1>5, <1>6, <2>2 DEF ResultsHold, Linked, Served
    <3> QED
      BY <1>2, <3>1, <3>2, <3>3 DEF TakenBack, IsResult
  <2> QED
    BY <2>1, <2>2 DEF WebHolds, Served
<1>10. UsbHolds'
  BY <1>2 DEF UsbHolds
<1> QED
  BY <1>1, <1>4, <1>7, <1>8, <1>9, <1>10

\* The Deck's serial owner moves.
LEMMA DeckMoves ==
  ASSUME NEW d \in Decks, NEW s \in TxStates, NEW l \in Nat, NEW p \in BOOLEAN, NEW e,
         e = [d EXCEPT !.state = s, !.lease = l, !.published = p]
  PROVE  /\ e \in Decks /\ e.state = s /\ e.lease = l /\ e.published = p
         /\ e.session = d.session /\ e.tracker = d.tracker /\ e.queue = d.queue
         /\ e.result = d.result
  BY DEF Decks

LEMMA ReturnMoves ==
  ASSUME NEW d \in Decks, d.state = "web_tx"
  PROVE  \E e \in Decks :
           /\ e = Lease!ReturnToUSB(d)
           /\ e.state = "usb_tx" /\ e.lease = 0 /\ e.published = FALSE
           /\ e.session = d.session /\ e.tracker = d.tracker /\ e.queue = d.queue
           /\ e.result = d.result
<1>1. PICK e : e = [d EXCEPT !.state = "usb_tx", !.lease = 0, !.published = FALSE]
  OBVIOUS
<1>2. /\ e \in Decks /\ e.state = "usb_tx" /\ e.lease = 0 /\ e.published = FALSE
      /\ e.session = d.session /\ e.tracker = d.tracker /\ e.queue = d.queue
      /\ e.result = d.result
  BY <1>1 DEF Decks, TxStates
<1>3. Lease!ReturnToUSB(d) = [d EXCEPT !.state = "usb_tx", !.lease = 0, !.published = FALSE]
  BY DEF Lease!ReturnToUSB
<1> QED
  BY <1>1, <1>2, <1>3

\* The Deck loses its transport.
LEMMA DroppedIs ==
  ASSUME deck \in Decks
  PROVE  /\ Lease!Dropped(deck) \in Decks /\ Lease!Dropped(deck).session = deck.session
         /\ Lease!Dropped(deck).state # "web_tx" /\ Lease!Dropped(deck).tracker = 0
         /\ (Lease!Dropped(deck).state = "disarmed") <=> (deck.state = "disarmed")
         /\ Lease!Dropped(deck).queue = <<>> /\ Lease!Dropped(deck).result = Lease!NoResult
<1>1. Lease!NoResult \in OwnerResults /\ <<>> \in Seq(Requests)
  BY DEF Lease!NoResult, OwnerResults, Owners
<1> DEFINE e == Lease!ReturnToUSB(deck)
           d == Lease!FreshLink(e)
<1>2. /\ e \in Decks /\ e.session = deck.session /\ e.state # "web_tx"
      /\ (e.state = "disarmed") <=> (deck.state = "disarmed")
  <2>1. CASE deck.state = "web_tx"
    <3>1. e \in Decks /\ e.session = deck.session /\ e.state = "usb_tx"
      BY <2>1, ReturnMoves
    <3> QED
      BY <2>1, <3>1
  <2>2. CASE deck.state # "web_tx"
    BY <2>2 DEF Lease!ReturnToUSB
  <2> QED
    BY <2>1, <2>2
<1> HIDE DEF e
<1>3. d = [e EXCEPT !.tracker = 0, !.queue = <<>>, !.result = Lease!NoResult, !.published = FALSE,
                    !.order = 0]
  BY DEF Lease!FreshLink
<1> HIDE DEF d
<1>4. /\ d \in Decks /\ d.session = e.session /\ d.state = e.state /\ d.tracker = 0
      /\ d.queue = <<>> /\ d.result = Lease!NoResult
  BY <1>1, <1>2, <1>3 DEF Decks
<1> QED
  BY <1>2, <1>4 DEF Lease!Dropped, d, e

LEMMA DropStep ==
  ASSUME LeaseInv, UNCHANGED <<svc, lease, pending, nextID, outbox, conn, toCompanion, grants, foreign>>,
         deckUp' = FALSE, toDeck' = <<>>, deck' = Lease!Dropped(deck)
  PROVE  LeaseInv'
<1> USE DEF LeaseInv
<1>1. /\ deck' \in Decks /\ deck'.session = deck.session /\ deck'.state # "web_tx"
      /\ deck'.tracker = 0 /\ ((deck'.state = "disarmed") <=> (deck.state = "disarmed"))
      /\ deck'.queue = <<>> /\ deck'.result = Lease!NoResult
  BY DroppedIs DEF LeaseTyped
<1>2. /\ Lease!NoResult.session = 0 /\ Lease!NoResult.accepted = FALSE /\ deck.session \in Nat
      /\ Lease!NoResult.id = 0
  BY DEF Lease!NoResult, LeaseTyped, Decks
<1>3. LeaseTyped'
  <2>1. toDeck' \in Seq(Messages)
    OBVIOUS
  <2>2. deckUp' \in BOOLEAN
    OBVIOUS
  <2> QED
    BY <1>1, <2>1, <2>2 DEF LeaseTyped
<1>4. LinkHolds' /\ HeldHolds'
  BY <1>1, <1>2 DEF LinkHolds, HeldHolds
<1>5. MessagesHold'
  BY DEF MessagesHold, Linked, Said, Asks, Granted
<1>6. ResultsHold'
  BY DEF ResultsHold, Linked, Answers, IsResult
<1>7. ReportsHold' /\ GrantsHold' /\ WebHolds' /\ UsbHolds'
  BY <1>1, <1>2 DEF ReportsHold, GrantsHold, WebHolds, UsbHolds, Served, Gives
<1> QED
  BY <1>3, <1>4, <1>5, <1>6, <1>7

\* The last of a sequence added to, the first of one taken from.
LEMMA Appended ==
  ASSUME NEW S, NEW q \in Seq(S), NEW x \in S, NEW r, r = Append(q, x)
  PROVE  /\ r \in Seq(S) /\ Len(q) + 1 \in DOMAIN r /\ r[Len(q) + 1] = x
         /\ \A i \in DOMAIN q :
              i \in DOMAIN r /\ r[i] = q[i] /\ i < Len(q) + 1 /\ i \in Nat /\ i > 0
         /\ \A i \in DOMAIN r : i \in DOMAIN q \/ i = Len(q) + 1
         /\ Len(q) \in Nat
  OBVIOUS

LEMMA Shifted ==
  ASSUME NEW S, NEW q \in Seq(S), q # <<>>, NEW r, r = Tail(q)
  PROVE  /\ r \in Seq(S) /\ 1 \in DOMAIN q /\ Head(q) = q[1] /\ q[1] \in S
         /\ \A i \in DOMAIN r :
              i + 1 \in DOMAIN q /\ r[i] = q[i + 1] /\ i \in Nat /\ i > 0
         /\ \A i \in DOMAIN q : i \in Nat /\ (i = 1 \/ (i - 1 \in DOMAIN r /\ r[i - 1] = q[i]))
  OBVIOUS

LEMMA OneAppended ==
  ASSUME NEW S, NEW x \in S, NEW q, q = Append(<<>>, x)
  PROVE  q \in Seq(S) /\ Len(q) = 1 /\ q[1] = x
  OBVIOUS

LEMMA OneTaken ==
  ASSUME NEW S, NEW q \in Seq(S), Len(q) = 1
  PROVE  Tail(q) = <<>> /\ <<>> \in Seq(S)
<1>1. Tail(q) \in Seq(S) /\ Len(Tail(q)) = 0
  OBVIOUS
<1>2. \A r \in Seq(S) : Len(r) = 0 => r = <<>>
  OBVIOUS
<1> QED
  BY <1>1, <1>2

LEMMA DeckFields ==
  ASSUME LeaseTyped
  PROVE  /\ deck.state \in TxStates /\ deck.session \in Nat /\ deck.lease \in Nat
         /\ deck.tracker \in Nat /\ deck.queue \in Seq(Requests)
         /\ deck.result \in OwnerResults /\ deck.published \in BOOLEAN /\ deck.order \in Nat
  BY DEF LeaseTyped, Decks

LEMMA NoResultIs ==
  /\ Lease!NoResult \in OwnerResults /\ Lease!NoResult.id = 0 /\ ~Lease!NoResult.accepted
  /\ Lease!NoResult.session = 0
  BY DEF Lease!NoResult, OwnerResults, Owners

\* The serial page and the lease's expiry: the owner leaves and has it to report.
LEMMA LeaveStep ==
  ASSUME LeaseInv,
         UNCHANGED <<svc, lease, pending, nextID, outbox, conn, toDeck, toCompanion, deckUp,
                     grants, foreign>>,
         deck' \in Decks, deck'.published = FALSE, deck'.state # "web_tx",
         deck'.tracker = deck.tracker, deck'.queue = deck.queue, deck'.result = deck.result,
         deck'.state # "disarmed" => deck'.session # 0, deck.session <= deck'.session,
         ~Gives(deck.result)'
  PROVE  LeaseInv'
<1> USE DEF LeaseInv
<1>1. LeaseTyped'
  BY DEF LeaseTyped
<1>2. LinkHolds' /\ HeldHolds'
  <2>1. deck.session \in Nat /\ deck'.session \in Nat /\ deck.result.session \in Nat
    BY DeckFields DEF Decks, OwnerResults
  <2> QED
    BY <2>1 DEF LinkHolds, HeldHolds
<1>3. MessagesHold'
  BY DEF MessagesHold, Linked, Said, Asks, Granted
<1>4. ResultsHold'
  BY DEF ResultsHold, Linked, Answers, IsResult
<1>5. ReportsHold' /\ GrantsHold' /\ WebHolds' /\ UsbHolds'
  BY DEF ReportsHold, GrantsHold, WebHolds, UsbHolds, Served
<1> QED
  BY <1>1, <1>2, <1>3, <1>4, <1>5

LEMMA EnterStep == ASSUME LeaseInv, Lease!Enter PROVE LeaseInv'
<1>1. deck' = [deck EXCEPT !.state = "usb_tx", !.session = @ + 1, !.published = FALSE]
  BY DEF Lease!Enter
<1>2. deck \in Decks
  BY DEF LeaseInv, LeaseTyped
<1>3. /\ deck' \in Decks /\ deck'.published = FALSE /\ deck'.state = "usb_tx"
      /\ deck'.tracker = deck.tracker /\ deck'.queue = deck.queue /\ deck'.result = deck.result
      /\ deck'.session = deck.session + 1 /\ deck.session \in Nat
  <2>1. PICK k \in Nat : k = deck.session + 1 /\ deck.session \in Nat
    BY <1>2 DEF Decks
  <2>2. deck' = [deck EXCEPT !.state = "usb_tx", !.session = k, !.published = FALSE]
    BY <1>1, <1>2, <2>1 DEF Decks
  <2>3. /\ deck' \in Decks /\ deck'.published = FALSE /\ deck'.state = "usb_tx"
        /\ deck'.tracker = deck.tracker /\ deck'.queue = deck.queue
        /\ deck'.result = deck.result /\ deck'.session = k
    BY <1>2, <2>2 DEF Decks, TxStates
  <2> QED
    BY <2>1, <2>3
<1>4. ~Gives(deck.result)'
  <2>1. deck.result.session <= deck.session /\ deck.result.session \in Nat
    BY DeckFields DEF LeaseInv, LinkHolds, OwnerResults
  <2> QED
    BY <1>3, <2>1 DEF Gives, Lease!Wire
<1> QED
  BY <1>3, <1>4, LeaveStep DEF Lease!Enter, Lease!companion

LEMMA ExitStep == ASSUME LeaseInv, Lease!Exit PROVE LeaseInv'
<1>1. deck' = [deck EXCEPT !.state = "disarmed", !.lease = 0, !.published = FALSE]
  BY DEF Lease!Exit
<1>2. deck \in Decks
  BY DEF LeaseInv, LeaseTyped
<1>3. /\ deck' \in Decks /\ deck'.published = FALSE /\ deck'.state = "disarmed"
      /\ deck'.tracker = deck.tracker /\ deck'.queue = deck.queue /\ deck'.result = deck.result
      /\ deck'.session = deck.session /\ deck.session \in Nat
  BY <1>1, <1>2 DEF Decks, TxStates
<1>4. ~Gives(deck.result)'
  BY <1>3 DEF Gives, Lease!Wire
<1> QED
  BY <1>3, <1>4, LeaveStep DEF Lease!Exit, Lease!companion

LEMMA ExpireStep == ASSUME LeaseInv, Lease!Expire PROVE LeaseInv'
<1>1. /\ deck.state = "web_tx" /\ deck.result.lease # deck.lease /\ deck \in Decks
      /\ deck' = Lease!ReturnToUSB(deck)
  BY DEF Lease!Expire, LeaseInv, LeaseTyped
<1>2. /\ deck' \in Decks /\ deck'.published = FALSE /\ deck'.state = "usb_tx"
      /\ deck'.tracker = deck.tracker /\ deck'.queue = deck.queue /\ deck'.result = deck.result
      /\ deck'.session = deck.session /\ deck.session \in Nat
  BY <1>1, ReturnMoves, DeckFields DEF LeaseInv
<1>3. ~Gives(deck.result)'
  BY <1>1, <1>2 DEF Gives, Lease!Wire, LeaseInv, GrantsHold
<1>4. deck.session # 0
  BY <1>1 DEF LeaseInv, LinkHolds
<1>5. UNCHANGED <<svc, lease, pending, nextID, outbox, conn, toDeck, toCompanion, deckUp,
                  grants, foreign>>
  BY DEF Lease!Expire, Lease!companion
<1>6. deck'.state # "web_tx" /\ deck.session <= deck'.session /\ deck'.session # 0
  BY <1>2, <1>4
<1> QED
  BY <1>2, <1>3, <1>5, <1>6, LeaveStep

LEMMA PublishStateStep == ASSUME LeaseInv, Lease!PublishState PROVE LeaseInv'
<1> USE DEF LeaseInv
<1>1. UNCHANGED <<svc, lease, pending, nextID, outbox, conn, toDeck, deckUp, grants, foreign>>
  BY DEF Lease!PublishState, Lease!companion
<1>2. deckUp /\ conn # "none" /\ deck \in Decks
  BY DEF Lease!PublishState, LeaseTyped
<1>3. /\ deck' \in Decks /\ deck'.published = TRUE /\ deck'.state = deck.state
      /\ deck'.tracker = deck.tracker /\ deck'.queue = deck.queue /\ deck'.result = deck.result
      /\ deck'.session = deck.session /\ deck'.lease = deck.lease
  <2>1. PICK n \in Nat : deck' = [deck EXCEPT !.published = TRUE, !.order = n]
    BY <1>2 DEF Lease!PublishState, Decks
  <2> QED
    BY <1>2, <2>1 DEF Decks
<1>4. /\ deck.state \in TxStates /\ deck.session \in Nat /\ Lease!Wire(deck) \in Nat
      /\ Lease!Wire(deck)' = Lease!Wire(deck)
  BY <1>3, DeckFields DEF Lease!Wire
<1>0. PICK n \in Nat : n = Len(toCompanion) + 1
  BY DEF LeaseTyped
<1>5. PICK x \in Reports : /\ x.kind = "state" /\ x.state = deck.state
                           /\ x.session = Lease!Wire(deck) /\ toCompanion' = Append(toCompanion, x)
  BY <1>4 DEF Lease!PublishState, Reports, StateReports
<1>6. /\ toCompanion' \in Seq(Reports) /\ n \in DOMAIN toCompanion' /\ toCompanion'[n] = x
      /\ \A i \in DOMAIN toCompanion : /\ i \in DOMAIN toCompanion' /\ i < n /\ i > 0 /\ i \in Nat
                                       /\ toCompanion'[i] = toCompanion[i]
      /\ \A i \in DOMAIN toCompanion' : i \in DOMAIN toCompanion \/ i = n
  BY <1>5, <1>0, Appended DEF LeaseTyped
<1>7. LeaseTyped' /\ LinkHolds' /\ HeldHolds'
  BY <1>1, <1>2, <1>3, <1>6 DEF LeaseTyped, LinkHolds, HeldHolds
<1>8. MessagesHold'
  BY <1>1, <1>3 DEF MessagesHold, Linked, Said, Asks, Granted
<1>9. ResultsHold'
  BY <1>1, <1>3, <1>5, <1>6 DEF ResultsHold, Linked, Answers, IsResult
<1>10. ReportsHold' /\ UsbHolds'
  BY <1>3, <1>4, <1>5, <1>6 DEF ReportsHold, UsbHolds, LastState, IsState
<1>11. GrantsHold'
  BY <1>3, <1>4, <1>5, <1>6 DEF GrantsHold, IsState, IsResult, Gives
<1>12. WebHolds'
  <2> SUFFICES ASSUME Served, deck.state = "web_tx"
               PROVE  (Owed \/ OnItsWay \/ Known \/ TakenBack)'
    BY <1>1, <1>3 DEF WebHolds, Served
  <2>1. \A i : ReportedSince(i) => ReportedSince(i)'
    BY <1>3, <1>5, <1>6 DEF ReportedSince, IsState, Lease!Wire
  <2>2. Owed => Owed'
    BY <1>3 DEF Owed, Names
  <2>3. OnItsWay => OnItsWay'
    BY <1>3, <1>6, <2>1 DEF OnItsWay, Names, IsResult
  <2>4. (Known => Known') /\ (TakenBack => TakenBack')
    BY <1>1, <1>3, <1>5, <1>6, <2>1 DEF Known, TakenBack, IsResult
  <2> QED
    BY <2>2, <2>3, <2>4 DEF WebHolds
<1> QED
  BY <1>7, <1>8, <1>9, <1>10, <1>11, <1>12

LEMMA SendStep == ASSUME LeaseInv, Lease!SendResult PROVE LeaseInv'
<1> USE DEF LeaseInv
<1>1. UNCHANGED <<svc, lease, pending, nextID, outbox, conn, toDeck, deckUp, grants, foreign>>
  BY DEF Lease!SendResult, Lease!companion
<1>2. /\ deckUp /\ conn # "none" /\ deck \in Decks /\ deck.tracker # 0
      /\ deck.result.id = deck.tracker
  BY DEF Lease!SendResult, LeaseTyped
<1>3. /\ deck' \in Decks /\ deck'.tracker = 0 /\ deck'.result = Lease!NoResult
      /\ deck'.published = deck.published /\ deck'.state = deck.state
      /\ deck'.queue = deck.queue /\ deck'.session = deck.session /\ deck'.lease = deck.lease
  <2>1. PICK z \in OwnerResults : z = Lease!NoResult
    BY NoResultIs
  <2>2. deck' = [deck EXCEPT !.tracker = 0, !.result = z]
    BY <2>1 DEF Lease!SendResult
  <2>3. /\ deck' \in Decks /\ deck'.tracker = 0 /\ deck'.result = z
        /\ deck'.published = deck.published /\ deck'.state = deck.state
        /\ deck'.queue = deck.queue /\ deck'.session = deck.session /\ deck'.lease = deck.lease
    BY <1>2, <2>2 DEF Decks
  <2> QED
    BY <2>1, <2>3
<1>4. Lease!Wire(deck)' = Lease!Wire(deck)
  BY <1>3 DEF Lease!Wire
<1>0. PICK n \in Nat : n = Len(toCompanion) + 1
  BY DEF LeaseTyped
<1>5. PICK x \in Reports : /\ x.kind = "result" /\ x.result = deck.result
                           /\ toCompanion' = Append(toCompanion, x)
  BY DeckFields DEF Lease!SendResult, Reports, ResultReports
<1>6. /\ toCompanion' \in Seq(Reports) /\ n \in DOMAIN toCompanion' /\ toCompanion'[n] = x
      /\ \A i \in DOMAIN toCompanion : /\ i \in DOMAIN toCompanion' /\ i < n /\ i > 0 /\ i \in Nat
                                       /\ toCompanion'[i] = toCompanion[i]
      /\ \A i \in DOMAIN toCompanion' : i \in DOMAIN toCompanion \/ i = n
  BY <1>5, <1>0, Appended DEF LeaseTyped
<1>7. LeaseTyped' /\ LinkHolds' /\ HeldHolds'
  <2>1. deck.queue = <<>>
    BY <1>2, NoResultIs DEF LinkHolds
  <2>2. deck.session \in Nat
    BY DeckFields
  <2> QED
    BY <1>1, <1>2, <1>3, <1>6, <2>1, <2>2, NoResultIs DEF LeaseTyped, LinkHolds, HeldHolds
<1>8. MessagesHold'
  BY <1>1, <1>3 DEF MessagesHold, Linked, Said, Asks, Granted
<1>9. ResultsHold'
  <2>1. \A r : Answers(r) => Answers(r)'
    BY <1>1 DEF Answers
  <2>2. Answers(Lease!NoResult)
    BY NoResultIs DEF Answers, LeaseTyped
  <2>3. Answers(deck.result)
    BY <1>2 DEF ResultsHold, Linked
  <2> QED
    BY <1>3, <1>5, <1>6, <2>1, <2>2, <2>3 DEF ResultsHold, IsResult
<1>10. ReportsHold' /\ UsbHolds'
  <2>1. \A i \in DOMAIN toCompanion' : IsState(i)' => i \in DOMAIN toCompanion /\ IsState(i)
    BY <1>5, <1>6 DEF IsState
  <2>2. \A i \in DOMAIN toCompanion : IsState(i) => IsState(i)'
    BY <1>6 DEF IsState
  <2>3. \A i \in DOMAIN toCompanion' : LastState(i)' =>
          i \in DOMAIN toCompanion /\ LastState(i) /\ toCompanion'[i] = toCompanion[i]
    BY <1>6, <2>1, <2>2 DEF LastState
  <2>4. (\A i \in DOMAIN toCompanion : ~IsState(i))' => \A i \in DOMAIN toCompanion : ~IsState(i)
    BY <1>6, <2>2
  <2>5. ReportsHold'
    BY <1>1, <1>3, <1>4, <2>3, <2>4 DEF ReportsHold, Served
  <2>6. UsbHolds'
    BY <1>1, <1>3, <2>4 DEF UsbHolds, Served
  <2> QED
    BY <2>5, <2>6
<1>11. GrantsHold'
  BY <1>1, <1>3, <1>4, <1>5, <1>6, NoResultIs DEF GrantsHold, Served, IsState, IsResult, Gives
<1>12. WebHolds'
  <2> SUFFICES ASSUME Served, deck.state = "web_tx"
               PROVE  (Owed \/ OnItsWay \/ Known \/ TakenBack)'
    BY <1>1, <1>3 DEF WebHolds, Served
  <2>1. \A i : ReportedSince(i) => ReportedSince(i)'
    BY <1>3, <1>5, <1>6 DEF ReportedSince, IsState
  <2>2. Owed => OnItsWay'
    <3>1. ReportedSince(n)'
      BY <1>6 DEF ReportedSince
    <3> QED
      BY <1>3, <1>5, <1>6, <3>1 DEF Owed, OnItsWay, Names, IsResult
  <2>3. OnItsWay => OnItsWay'
    BY <1>3, <1>6, <2>1 DEF OnItsWay, Names, IsResult
  <2>4. (Known => Known') /\ (TakenBack => TakenBack')
    BY <1>1, <1>3, <1>5, <1>6, <2>1, NoResultIs DEF Known, TakenBack, IsResult
  <2> QED
    BY <2>2, <2>3, <2>4 DEF WebHolds
<1> QED
  BY <1>7, <1>8, <1>9, <1>10, <1>11, <1>12

\* What is written or taken was said before.
LEMMA SaysSame ==
  ASSUME LeaseInv, UNCHANGED <<svc, lease, pending, nextID, conn, toCompanion, deckUp, deck, grants>>,
         outbox' \subseteq Messages, toDeck' \in Seq(Messages), ~deckUp => toDeck' = <<>>,
         ~foreign', \A x \in outbox' : Said(x), \A i \in DOMAIN toDeck' : Said(toDeck'[i])
  PROVE  LeaseInv'
  BY SayStep DEF LeaseInv, LeaseTyped

LEMMA OldSaid ==
  ASSUME LeaseInv
  PROVE  /\ ~foreign /\ outbox \subseteq Messages /\ toDeck \in Seq(Messages)
         /\ ~deckUp => toDeck = <<>>
         /\ \A x \in outbox : Said(x)
         /\ \A i \in DOMAIN toDeck : Said(toDeck[i])
  BY DEF LeaseInv, LeaseTyped, LinkHolds, MessagesHold

LEMMA BrowserOpensStep ==
  ASSUME LeaseInv, NEW c \in Clients, Lease!BrowserOpens(c) PROVE LeaseInv'
<1>1. UNCHANGED <<svc, lease, pending, nextID, outbox, conn, toDeck, toCompanion, deckUp, deck,
                  grants, foreign>>
  BY DEF Lease!BrowserOpens
<1> QED
  BY <1>1, SaysSame, OldSaid

LEMMA HeartbeatStep ==
  ASSUME LeaseInv, NEW c \in Clients, Lease!HeartbeatLease(c) PROVE LeaseInv'
<1>1. UNCHANGED <<svc, lease, pending, nextID, conn, toDeck, toCompanion, deckUp, deck,
                  grants, foreign>>
  BY DEF Lease!HeartbeatLease, Lease!companion
<1>2. PICK x \in Messages : x.kind = "activity" /\ outbox' = outbox \union {x}
  <2>1. lease.session \in Nat /\ lease.id \in Nat /\ c \in Holders
    BY DEF LeaseInv, LeaseTyped, Holders
  <2>2. [kind |-> "activity", session |-> lease.session, lease |-> lease.id, client |-> c]
          \in Messages
    BY <2>1 DEF Messages, Activities
  <2> QED
    BY <2>2 DEF Lease!HeartbeatLease
<1>3. Said(x)
  BY <1>2 DEF Said
<1> QED
  BY <1>1, <1>2, <1>3, SaysSame, OldSaid

LEMMA ClaimStep == ASSUME LeaseInv, Lease!ClaimRequestAttempt PROVE LeaseInv'
<1>1. UNCHANGED <<svc, lease, nextID, conn, toDeck, toCompanion, deckUp, deck, grants, foreign>>
  BY DEF Lease!ClaimRequestAttempt
<1>2. /\ pending.id # 0 /\ pending \in [id : Nat, enable : BOOLEAN, claimed : BOOLEAN]
      /\ pending' = [pending EXCEPT !.claimed = TRUE]
      /\ svc \in [state : TxStates, session : Nat, sequence : Nat] /\ deck \in Decks
  BY DEF Lease!ClaimRequestAttempt, LeaseInv, LeaseTyped
<1>3. /\ pending' \in [id : Nat, enable : BOOLEAN, claimed : BOOLEAN]
      /\ pending'.id = pending.id /\ pending'.enable = pending.enable
  BY <1>2
<1>4. PICK x \in Messages : /\ x.kind = "request" /\ x.id = pending.id
                            /\ x.enable = pending.enable /\ x.session = lease.session
                            /\ x.client = lease.client /\ outbox' = outbox \union {x}
  <2>1. /\ lease.session \in Nat /\ lease.client \in Holders /\ pending.id \in Nat \ {0}
        /\ pending.enable \in BOOLEAN
    BY <1>2 DEF LeaseInv, LeaseTyped
  <2>2. PICK x : x = Lease!Request(pending.id, pending.enable, lease.session, lease.client)
    OBVIOUS
  <2>3. /\ x \in Messages /\ x.kind = "request" /\ x.id = pending.id
        /\ x.enable = pending.enable /\ x.session = lease.session /\ x.client = lease.client
    BY <2>1, <2>2 DEF Lease!Request, Messages, Requests
  <2> QED
    BY <2>2, <2>3 DEF Lease!ClaimRequestAttempt
<1>5. Said(x)
  BY <1>4 DEF Said, Asks, LeaseInv, HeldHolds
<1> QED
  BY <1>1, <1>2, <1>3, <1>4, <1>5, SayStep, OldSaid

LEMMA RetryStep == ASSUME LeaseInv, Lease!RetryDue PROVE LeaseInv'
<1>1. UNCHANGED <<svc, lease, nextID, outbox, conn, toDeck, toCompanion, deckUp, deck, grants,
                  foreign>>
  BY DEF Lease!RetryDue
<1>2. /\ pending \in [id : Nat, enable : BOOLEAN, claimed : BOOLEAN]
      /\ pending' = [pending EXCEPT !.claimed = FALSE]
      /\ svc \in [state : TxStates, session : Nat, sequence : Nat] /\ deck \in Decks
  BY DEF Lease!RetryDue, LeaseInv, LeaseTyped
<1>3. /\ pending' \in [id : Nat, enable : BOOLEAN, claimed : BOOLEAN]
      /\ pending'.id = pending.id /\ pending'.enable = pending.enable
  BY <1>2
<1> QED
  BY <1>1, <1>2, <1>3, SayStep, OldSaid

LEMMA BuildStep ==
  ASSUME LeaseInv, NEW c \in Clients, Lease!BuildWebFrame(c) PROVE LeaseInv'
<1>1. UNCHANGED <<lease, pending, nextID, conn, toDeck, toCompanion, deckUp, deck, grants, foreign>>
  BY DEF Lease!BuildWebFrame
<1>2. /\ svc \in [state : TxStates, session : Nat, sequence : Nat] /\ deck \in Decks
      /\ pending \in [id : Nat, enable : BOOLEAN, claimed : BOOLEAN] /\ svc.sequence \in Nat
      /\ lease.session \in Nat /\ c \in Holders /\ lease.owner = "web" /\ lease.client = c
  BY DEF Lease!BuildWebFrame, LeaseInv, LeaseTyped, Holders
<1>3. /\ svc' \in [state : TxStates, session : Nat, sequence : Nat]
      /\ svc'.state = svc.state /\ svc'.session = svc.session
  <2>1. PICK k \in Nat : svc' = [svc EXCEPT !.sequence = k]
    BY <1>2 DEF Lease!BuildWebFrame
  <2> QED
    BY <1>2, <2>1
<1>4. PICK x \in Messages : x.kind = "frame" /\ x.client = c /\ outbox' = outbox \union {x}
  <2>1. PICK x : x = [kind |-> "frame", session |-> lease.session,
                      sequence |-> svc.sequence + 1, client |-> c]
    OBVIOUS
  <2>2. x \in Messages /\ x.kind = "frame" /\ x.client = c
    BY <1>2, <2>1 DEF Messages, Frames
  <2> QED
    BY <2>1, <2>2 DEF Lease!BuildWebFrame
<1>5. Said(x)
  BY <1>2, <1>4 DEF Said, Granted, LeaseInv, HeldHolds
<1> QED
  BY <1>1, <1>2, <1>3, <1>4, <1>5, SayStep, OldSaid

LEMMA WriteStep ==
  ASSUME LeaseInv, NEW x \in outbox, Lease!Write(x) PROVE LeaseInv'
<1>1. UNCHANGED <<svc, lease, pending, nextID, conn, toCompanion, deckUp, deck, grants, foreign>>
  BY DEF Lease!Write, Lease!companion
<1>2. x \in Messages /\ Said(x)
  BY OldSaid
<1>3. outbox' \subseteq Messages /\ \A y \in outbox' : Said(y)
  BY OldSaid DEF Lease!Write
<1>4. CASE deckUp /\ toDeck' = Append(toDeck, x)
  <2>1. toDeck' \in Seq(Messages) /\ \A i \in DOMAIN toDeck' : Said(toDeck'[i])
    BY <1>2, <1>4, OldSaid, Appended
  <2> QED
    BY <1>1, <1>3, <1>4, <2>1, SaysSame, OldSaid
<1>5. CASE toDeck' = toDeck
  BY <1>1, <1>3, <1>5, SaysSame, OldSaid
<1> QED
  BY <1>4, <1>5 DEF Lease!Write

LEMMA TakeIs ==
  ASSUME LeaseInv, Lease!Take
  PROVE  /\ deckUp /\ toDeck' \in Seq(Messages) /\ \A i \in DOMAIN toDeck' : Said(toDeck'[i])
         /\ Lease!Message \in Messages /\ Said(Lease!Message)
<1>1. toDeck \in Seq(Messages) /\ toDeck # <<>> /\ toDeck' = Tail(toDeck) /\ deckUp
  BY DEF Lease!Take, LeaseInv, LeaseTyped
<1>2. /\ toDeck' \in Seq(Messages) /\ 1 \in DOMAIN toDeck /\ Lease!Message = toDeck[1]
      /\ toDeck[1] \in Messages
      /\ \A i \in DOMAIN toDeck' : i + 1 \in DOMAIN toDeck /\ toDeck'[i] = toDeck[i + 1]
  BY <1>1, Shifted DEF Lease!Message
<1> QED
  BY <1>1, <1>2, OldSaid

LEMMA TakeActivityStep == ASSUME LeaseInv, Lease!TakeActivity PROVE LeaseInv'
<1>1. UNCHANGED <<svc, lease, pending, nextID, outbox, conn, toCompanion, deckUp, deck, grants,
                  foreign>> /\ Lease!Take
  BY DEF Lease!TakeActivity, Lease!companion
<1> QED
  BY <1>1, TakeIs, SaysSame, OldSaid

LEMMA TakeFrameStep == ASSUME LeaseInv, Lease!TakeFrame PROVE LeaseInv'
<1>1. UNCHANGED <<svc, lease, pending, nextID, outbox, conn, toCompanion, deckUp, grants>>
  BY DEF Lease!TakeFrame, Lease!companion
<1>2. /\ Lease!Take /\ Lease!Message.kind = "frame"
      /\ deck' = [deck EXCEPT !.order = Lease!Message.sequence]
      /\ foreign' = (foreign \/ \A i \in DOMAIN grants : grants[i] # Lease!Message.client)
  BY DEF Lease!TakeFrame
<1>3. /\ Lease!Message \in Messages /\ Said(Lease!Message)
      /\ toDeck' \in Seq(Messages) /\ \A i \in DOMAIN toDeck' : Said(toDeck'[i])
  BY <1>2, TakeIs
<1>4. ~foreign'
  BY <1>2, <1>3, OldSaid DEF Said, Granted
<1>5. /\ svc \in [state : TxStates, session : Nat, sequence : Nat] /\ deck \in Decks
      /\ pending \in [id : Nat, enable : BOOLEAN, claimed : BOOLEAN]
  BY DEF LeaseInv, LeaseTyped
<1>6. /\ deck' \in Decks /\ deck'.state = deck.state /\ deck'.session = deck.session
      /\ deck'.lease = deck.lease /\ deck'.tracker = deck.tracker /\ deck'.queue = deck.queue
      /\ deck'.result = deck.result /\ deck'.published = deck.published
  <2>1. PICK k \in Nat : deck' = [deck EXCEPT !.order = k]
    BY <1>2, <1>3 DEF Messages, Requests, Activities, Frames
  <2> QED
    BY <1>5, <2>1 DEF Decks
<1>7. ~deckUp => toDeck' = <<>>
  BY <1>2, TakeIs
<1> QED
  BY <1>1, <1>3, <1>4, <1>5, <1>6, <1>7, SayStep, OldSaid

LEMMA DropsStep == ASSUME LeaseInv, Lease!DeckDrops \/ Lease!Refuse PROVE LeaseInv'
<1>1. /\ UNCHANGED <<svc, lease, pending, nextID, outbox, conn, toCompanion, grants, foreign>>
      /\ deckUp' = FALSE /\ toDeck' = <<>> /\ deck' = Lease!Dropped(deck)
  BY DEF Lease!DeckDrops, Lease!Refuse, Lease!companion
<1> QED
  BY <1>1, DropStep

LEMMA TakeRequestStep == ASSUME LeaseInv, Lease!TakeRequest PROVE LeaseInv'
<1>1. UNCHANGED <<svc, lease, pending, nextID, outbox, conn, toCompanion, deckUp, grants, foreign>>
  BY DEF Lease!TakeRequest, Lease!companion
<1>2. PICK m \in Messages :
        /\ m = Lease!Message /\ m.kind = "request" /\ Said(m) /\ deckUp
        /\ toDeck' \in Seq(Messages) /\ \A i \in DOMAIN toDeck' : Said(toDeck'[i])
  BY TakeIs DEF Lease!TakeRequest
<1>3. m \in Requests /\ m.id \in Nat \ {0} /\ Asks(m)
  BY <1>2 DEF Messages, Requests, Activities, Frames, Said
<1>4. CASE deck.tracker = m.id
  <2>1. deck' = deck
    BY <1>2, <1>4 DEF Lease!TakeRequest
  <2> QED
    BY <1>1, <1>2, <2>1, SaysSame, OldSaid
<1>5. CASE deck.tracker # m.id
  <2> USE DEF LeaseInv
  <2>1. deck.tracker = 0 /\ deck.queue = <<>> /\ deck.result = Lease!NoResult
    BY <1>2, <1>5 DEF Lease!TakeRequest, Lease!Refuses, LinkHolds
  <2>2. deck' = [deck EXCEPT !.tracker = m.id, !.queue = Append(@, m)] /\ deck \in Decks
    BY <1>2, <1>5 DEF Lease!TakeRequest, LeaseTyped
  <2>3. PICK q \in Seq(Requests) : q = Append(deck.queue, m) /\ Len(q) = 1 /\ q[1] = m
    BY <1>3, <2>1, OneAppended
  <2>4. /\ deck' \in Decks /\ deck'.tracker = m.id /\ deck'.queue = q
        /\ deck'.published = deck.published /\ deck'.state = deck.state
        /\ deck'.result = deck.result /\ deck'.session = deck.session /\ deck'.lease = deck.lease
    <3>1. deck' = [deck EXCEPT !.tracker = m.id, !.queue = q]
      BY <2>2, <2>3 DEF Decks
    <3> QED
      BY <1>3, <2>2, <3>1 DEF Decks
  <2>5. LeaseTyped' /\ HeldHolds'
    BY <1>1, <1>2, <2>4 DEF LeaseTyped, HeldHolds
  <2>6. LinkHolds'
    BY <1>1, <1>2, <1>3, <2>1, <2>3, <2>4 DEF LinkHolds
  <2>7. MessagesHold'
    <3>1. \A x : (Said(x) => Said(x)') /\ (Asks(x) => Asks(x)')
      BY <1>1 DEF Said, Asks, Granted
    <3>2. \A i \in DOMAIN q : q[i] = m
      BY <2>3
    <3> QED
      BY <1>1, <1>2, <1>3, <2>4, <3>1, <3>2 DEF MessagesHold
  <2>8. ResultsHold'
    BY <1>1, <2>4 DEF ResultsHold, Linked, Answers, IsResult
  <2>9. Lease!Wire(deck)' = Lease!Wire(deck)
    BY <2>4 DEF Lease!Wire
  <2>10. ReportsHold' /\ GrantsHold' /\ UsbHolds'
    BY <1>1, <2>4, <2>9
       DEF ReportsHold, GrantsHold, UsbHolds, Served, IsState, IsResult, LastState, Gives
  <2>11. WebHolds'
    <3>1. ~Owed
      BY <2>1 DEF Owed
    <3>2. (OnItsWay => OnItsWay') /\ (Known => Known') /\ (TakenBack => TakenBack')
      BY <1>1, <2>4 DEF OnItsWay, Known, TakenBack, Names, ReportedSince, IsState, IsResult
    <3> QED
      BY <1>1, <2>4, <3>1, <3>2 DEF WebHolds, Served
  <2> QED
    BY <2>5, <2>6, <2>7, <2>8, <2>10, <2>11
<1> QED
  BY <1>4, <1>5

\* The request is of the session the Deck is in.
Fits(m) == deck.state # "disarmed" /\ m.session = deck.session

\* What the owner makes of the request it finds.
LEMMA OwnerMoves ==
  ASSUME LeaseInv, Lease!OwnerApplies
  PROVE  \E m \in Requests, r \in OwnerResults :
           /\ 1 \in DOMAIN deck.queue /\ deck.queue[1] = m /\ m.id = deck.tracker
           /\ deck.result = Lease!NoResult /\ deckUp
           /\ deck' \in Decks /\ deck'.queue = <<>> /\ deck'.result = r
           /\ deck'.tracker = deck.tracker /\ deck'.session = deck.session
           /\ r.id = m.id /\ r.session = Lease!Wire(deck)' /\ r.lease = deck'.lease
           /\ ((r.owner = "web") <=> (deck'.state = "web_tx"))
           /\ ((r.owner = "usb") <=> (deck'.state = "usb_tx"))
           /\ \/ /\ ~r.accepted /\ ~Fits(m) /\ deck'.state = deck.state
                 /\ deck'.lease = deck.lease /\ deck'.published = deck.published
                 /\ grants' = grants
              \/ /\ r.accepted /\ Fits(m) /\ m.enable /\ deck'.state = "web_tx"
                 /\ deck'.lease = Len(grants) + 1 /\ ~deck'.published
                 /\ grants' = Append(grants, m.client)
              \/ /\ r.accepted /\ Fits(m) /\ ~m.enable /\ deck'.state = "usb_tx"
                 /\ grants' = grants
                 /\ ~deck'.published \/ (deck.state = "usb_tx" /\ deck'.published = deck.published)
<1> USE DEF LeaseInv
<1>1. deck \in Decks /\ deck.queue \in Seq(Requests) /\ deck.queue # <<>> /\ Len(grants) \in Nat
  BY DeckFields DEF Lease!OwnerApplies, LeaseTyped
<1>2. PICK m \in Requests : m = Head(deck.queue) /\ 1 \in DOMAIN deck.queue /\ m = deck.queue[1]
  BY <1>1, Shifted
<1>3. /\ m.id = deck.tracker /\ deck.result = Lease!NoResult /\ deckUp /\ Len(deck.queue) = 1
  BY <1>1, <1>2 DEF LinkHolds
<1>4. Tail(deck.queue) = <<>> /\ <<>> \in Seq(Requests)
  BY <1>1, <1>3, OneTaken
<1>5. m.id \in Nat /\ m.enable \in BOOLEAN
  BY <1>2 DEF Requests
\* The deck before the result is put down.
<1> DEFINE Puts(after, ok) ==
      deck' = [after EXCEPT !.queue = Tail(@), !.result = Lease!Result(after, m, ok)]
<1>6. ASSUME NEW after \in Decks, after.queue = deck.queue, after.session = deck.session,
             after.tracker = deck.tracker, NEW ok \in BOOLEAN, Puts(after, ok)
      PROVE  \E r \in OwnerResults :
               /\ deck' \in Decks /\ deck'.queue = <<>> /\ deck'.result = r
               /\ deck'.tracker = deck.tracker /\ deck'.session = deck.session
               /\ deck'.state = after.state /\ deck'.lease = after.lease
               /\ deck'.published = after.published
               /\ r.id = m.id /\ r.session = Lease!Wire(deck)' /\ r.lease = deck'.lease
               /\ r.accepted = ok
               /\ ((r.owner = "web") <=> (deck'.state = "web_tx"))
               /\ ((r.owner = "usb") <=> (deck'.state = "usb_tx"))
  <2>1. /\ after.state \in TxStates /\ after.lease \in Nat /\ after.session \in Nat
        /\ Lease!Wire(after) \in Nat
    BY <1>6 DEF Decks, Lease!Wire
  <2>2. PICK r : r = Lease!Result(after, m, ok)
    OBVIOUS
  <2>3. PICK o \in Owners :
          /\ r = [id |-> m.id, accepted |-> ok, session |-> Lease!Wire(after),
                  lease |-> after.lease, owner |-> o]
          /\ ((o = "web") <=> (after.state = "web_tx"))
          /\ ((o = "usb") <=> (after.state = "usb_tx"))
    <3>1. CASE after.state = "usb_tx"
      BY <2>2, <3>1 DEF Lease!Result, Owners
    <3>2. CASE after.state = "web_tx"
      BY <2>2, <3>2 DEF Lease!Result, Owners
    <3>3. CASE after.state = "disarmed"
      BY <2>2, <3>3 DEF Lease!Result, Owners
    <3> QED
      BY <2>1, <3>1, <3>2, <3>3 DEF TxStates
  <2>4. /\ r \in OwnerResults /\ r.id = m.id /\ r.accepted = ok /\ r.lease = after.lease
        /\ r.session = Lease!Wire(after) /\ r.owner = o
    BY <1>5, <1>6, <2>1, <2>3 DEF OwnerResults
  <2>5. PICK q \in Seq(Requests) : q = <<>>
    BY <1>4
  <2>6. deck' = [after EXCEPT !.queue = q, !.result = r]
    BY <1>4, <1>6, <2>2, <2>5 DEF Decks
  <2>7. /\ deck' \in Decks /\ deck'.queue = q /\ deck'.result = r
        /\ deck'.tracker = after.tracker /\ deck'.session = after.session
        /\ deck'.state = after.state /\ deck'.lease = after.lease
        /\ deck'.published = after.published
    BY <1>6, <2>4, <2>6 DEF Decks
  <2>8. Lease!Wire(deck)' = Lease!Wire(after)
    BY <2>7 DEF Lease!Wire
  <2> QED
    BY <1>6, <2>3, <2>4, <2>5, <2>7, <2>8
<1>7. Fits(m) \in BOOLEAN
  BY DEF Fits
<1>8. CASE ~Fits(m)
  <2>1. Puts(deck, FALSE) /\ grants' = grants
    BY <1>2, <1>8 DEF Lease!OwnerApplies, Fits
  <2> QED
    BY <1>1, <1>2, <1>3, <1>6, <1>8, <2>1
<1>9. CASE Fits(m) /\ m.enable
  <2>1. PICK after : after = [deck EXCEPT !.state = "web_tx", !.lease = Len(grants) + 1,
                                          !.published = FALSE]
    OBVIOUS
  <2>2. /\ after \in Decks /\ after.state = "web_tx" /\ after.lease = Len(grants) + 1
        /\ after.published = FALSE /\ after.session = deck.session
        /\ after.tracker = deck.tracker /\ after.queue = deck.queue
    <3>1. PICK k \in Nat : k = Len(grants) + 1
      BY <1>1
    <3>2. after = [deck EXCEPT !.state = "web_tx", !.lease = k, !.published = FALSE]
      BY <2>1, <3>1
    <3>3. /\ after \in Decks /\ after.state = "web_tx" /\ after.lease = k
          /\ after.published = FALSE /\ after.session = deck.session
          /\ after.tracker = deck.tracker /\ after.queue = deck.queue
      BY <1>1, <3>2 DEF Decks, TxStates
    <3> QED
      BY <3>1, <3>3
  <2>3. Puts(after, TRUE) /\ grants' = Append(grants, m.client)
    BY <1>2, <1>9, <2>1 DEF Lease!OwnerApplies, Fits
  <2> QED
    BY <1>2, <1>3, <1>6, <1>9, <2>2, <2>3
<1>10. CASE Fits(m) /\ ~m.enable
  <2>1. Puts(Lease!ReturnToUSB(deck), TRUE) /\ grants' = grants
    BY <1>2, <1>10 DEF Lease!OwnerApplies, Fits
  <2>2. CASE deck.state = "web_tx"
    <3>1. PICK after \in Decks :
            /\ after = Lease!ReturnToUSB(deck) /\ after.state = "usb_tx"
            /\ after.published = FALSE /\ after.session = deck.session
            /\ after.tracker = deck.tracker /\ after.queue = deck.queue
      BY <1>1, <2>2, ReturnMoves
    <3>2. Puts(after, TRUE)
      BY <2>1, <3>1
    <3> QED
      BY <1>2, <1>3, <1>6, <1>10, <2>1, <3>1, <3>2
  <2>3. CASE deck.state # "web_tx"
    <3>1. Lease!ReturnToUSB(deck) = deck
      BY <2>3 DEF Lease!ReturnToUSB
    <3>2. Puts(deck, TRUE)
      BY <2>1, <3>1
    <3>3. deck.state = "usb_tx"
      BY <1>10, <2>3, DeckFields DEF Fits, TxStates
    <3> QED
      BY <1>1, <1>2, <1>3, <1>6, <1>10, <2>1, <3>2, <3>3
  <2> QED
    BY <2>2, <2>3
<1> QED
  BY <1>5, <1>7, <1>8, <1>9, <1>10

LEMMA OwnerStep == ASSUME LeaseInv, Lease!OwnerApplies PROVE LeaseInv'
<1> USE DEF LeaseInv
<1>1. UNCHANGED <<svc, lease, pending, nextID, outbox, conn, toDeck, toCompanion, deckUp, foreign>>
  BY DEF Lease!OwnerApplies, Lease!companion
<1>2. PICK m \in Requests, r \in OwnerResults :
           /\ 1 \in DOMAIN deck.queue /\ deck.queue[1] = m /\ m.id = deck.tracker
           /\ deck.result = Lease!NoResult /\ deckUp
           /\ deck' \in Decks /\ deck'.queue = <<>> /\ deck'.result = r
           /\ deck'.tracker = deck.tracker /\ deck'.session = deck.session
           /\ r.id = m.id /\ r.session = Lease!Wire(deck)' /\ r.lease = deck'.lease
           /\ ((r.owner = "web") <=> (deck'.state = "web_tx"))
           /\ ((r.owner = "usb") <=> (deck'.state = "usb_tx"))
           /\ \/ /\ ~r.accepted /\ ~Fits(m) /\ deck'.state = deck.state
                 /\ deck'.lease = deck.lease /\ deck'.published = deck.published
                 /\ grants' = grants
              \/ /\ r.accepted /\ Fits(m) /\ m.enable /\ deck'.state = "web_tx"
                 /\ deck'.lease = Len(grants) + 1 /\ ~deck'.published
                 /\ grants' = Append(grants, m.client)
              \/ /\ r.accepted /\ Fits(m) /\ ~m.enable /\ deck'.state = "usb_tx"
                 /\ grants' = grants
                 /\ ~deck'.published \/ (deck.state = "usb_tx" /\ deck'.published = deck.published)
  BY OwnerMoves
<1>3. /\ deck.session \in Nat /\ deck.tracker \in Nat /\ deck.state \in TxStates
      /\ m.id \in Nat \ {0} /\ m.client \in Holders /\ r.session \in Nat
      /\ deck'.state \in TxStates /\ m.id # 0 /\ deck.tracker # 0
  BY <1>2, DeckFields DEF Requests, OwnerResults, Decks
<1>4. /\ grants' \in Seq(Holders)
      /\ \A i \in DOMAIN grants : i \in DOMAIN grants' /\ grants'[i] = grants[i]
      /\ (r.accepted /\ m.enable) =>
           deck'.lease \in DOMAIN grants' /\ grants'[deck'.lease] = m.client
  <2>1. grants \in Seq(Holders)
    BY DEF LeaseTyped
  <2>2. CASE grants' = Append(grants, m.client) /\ deck'.lease = Len(grants) + 1
    BY <1>3, <2>1, <2>2, Appended
  <2>3. CASE grants' = grants /\ ~(r.accepted /\ m.enable)
    BY <2>1, <2>3
  <2> QED
    BY <1>2, <2>2, <2>3
<1>5. LeaseTyped'
  BY <1>1, <1>2, <1>4 DEF LeaseTyped
<1>6. LinkHolds'
  <2>1. r.session <= deck.session
    BY <1>2, <1>3 DEF Lease!Wire
  <2>2. deck'.state # "disarmed" => deck.session # 0
    BY <1>2 DEF LinkHolds, Fits
  <2> QED
    BY <1>1, <1>2, <1>3, <2>1, <2>2 DEF LinkHolds
<1>7. HeldHolds'
  BY <1>1, <1>4 DEF HeldHolds
<1>8. MessagesHold'
  <2>1. \A x : Said(x) => Said(x)'
    BY <1>1, <1>4 DEF Said, Asks, Granted
  <2>2. DOMAIN deck'.queue = {}
    BY <1>2
  <2> QED
    BY <1>1, <2>1, <2>2 DEF MessagesHold
<1>9. ResultsHold'
  <2>1. \A x : Answers(x) => Answers(x)'
    BY <1>1, <1>4 DEF Answers
  <2>2. Linked => Answers(r)'
    <3> SUFFICES ASSUME Linked PROVE Answers(r)'
      OBVIOUS
    <3>1. Asks(m)
      BY <1>2 DEF MessagesHold
    <3>2. r.id < nextID'
      BY <1>1, <1>2, <3>1 DEF Asks
    <3>3. (r.accepted /\ r.owner = "web") => r.lease \in DOMAIN grants'
      BY <1>2, <1>4
    <3>4. ASSUME r.id = pending.id, pending.id # 0
          PROVE  /\ (r.session # 0 /\ r.session = lease.session) => r.accepted
                 /\ (r.accepted /\ r.owner = "web") => grants'[r.lease] = lease.client
                 /\ r.accepted => r.owner = IF pending.enable THEN "web" ELSE "usb"
      <4>1. m.enable = pending.enable /\ m.session = lease.session /\ m.client = lease.client
        BY <1>2, <3>1, <3>4 DEF Asks
      <4>2. (r.session # 0 /\ r.session = lease.session) => r.accepted
        BY <1>2, <4>1 DEF Fits, Lease!Wire
      <4>3. (r.accepted /\ r.owner = "web") => grants'[r.lease] = lease.client
        BY <1>2, <1>4, <4>1
      <4>4. r.accepted => r.owner = IF pending.enable THEN "web" ELSE "usb"
        BY <1>2, <4>1
      <4> QED
        BY <4>2, <4>3, <4>4
    <3> QED
      BY <1>1, <3>2, <3>3, <3>4 DEF Answers
  <2> QED
    BY <1>1, <1>2, <2>1, <2>2 DEF ResultsHold, Linked, IsResult
<1>10. deck'.published =>
         deck'.state = deck.state /\ deck.published /\ Lease!Wire(deck)' = Lease!Wire(deck)
  BY <1>2 DEF Lease!Wire
<1>11. ReportsHold' /\ UsbHolds'
  BY <1>1, <1>10 DEF ReportsHold, UsbHolds, Served, IsState, LastState
<1>12. GrantsHold'
  <2>1. Gives(deck.result)' => deck'.state = "web_tx" /\ deck'.lease = r.lease
    BY <1>2 DEF Gives
  <2> QED
    BY <1>1, <1>2, <1>10, <2>1 DEF GrantsHold, Served, IsState, IsResult, Gives
<1>13. WebHolds'
  <2> SUFFICES ASSUME Served, deck'.state = "web_tx"
               PROVE  (Owed \/ OnItsWay \/ Known \/ TakenBack)'
    BY <1>1 DEF WebHolds, Served
  <2>1. CASE r.accepted
    <3>1. Owed'
      BY <1>2, <1>3, <2>1 DEF Owed, Names, Lease!Wire
    <3> QED
      BY <3>1
  <2>2. CASE ~r.accepted
    <3>1. /\ ~Fits(m) /\ deck.state = "web_tx" /\ deck'.lease = deck.lease
      BY <1>2, <2>2
    <3>2. ~Owed
      BY <1>2, <1>3, NoResultIs DEF Owed
    <3>3. OnItsWay => OnItsWay'
      BY <1>1, <1>2, <3>1 DEF OnItsWay, Names, ReportedSince, IsState, IsResult
    <3>4. Known => Known'
      BY <1>1, <1>2, <3>1 DEF Known, ReportedSince, IsState
    <3>5. ASSUME TakenBack PROVE TakenBack'
      <4>1. Asks(m)
        BY <1>2 DEF MessagesHold, Linked, Served
      <4>2. r.id # pending.id
        BY <1>2, <3>1, <3>5, <4>1 DEF Asks, Fits, TakenBack
      <4> QED
        BY <1>1, <1>2, <3>5, <4>2 DEF TakenBack, ReportedSince, IsState, IsResult
    <3> QED
      BY <3>1, <3>2, <3>3, <3>4, <3>5 DEF WebHolds
  <2> QED
    BY <2>1, <2>2
<1> QED
  BY <1>5, <1>6, <1>7, <1>8, <1>9, <1>11, <1>12, <1>13

\* Requests of the Companion.
LEMMA AskedStep ==
  ASSUME LeaseInv,
         UNCHANGED <<svc, outbox, conn, toDeck, toCompanion, deckUp, deck, grants, foreign>>,
         NEW b \in BOOLEAN, Lease!NextRequest(b),
         lease' \in [session : Nat, client : Holders, owner : Owners, id : Nat],
         lease'.owner = "transitioning",
         \/ ~b /\ lease'.session = lease.session
         \/ lease.owner # "web" /\ pending.id = 0
  PROVE  LeaseInv'
<1>1. /\ nextID' = nextID + 1 /\ nextID \in Nat
      /\ pending' = [id |-> nextID, enable |-> b, claimed |-> FALSE]
  BY DEF Lease!NextRequest, LeaseInv, LeaseTyped
<1>2. /\ pending' \in [id : Nat, enable : BOOLEAN, claimed : BOOLEAN]
      /\ pending'.id = nextID /\ pending'.enable = b
  BY <1>1
<1> QED
  BY <1>1, <1>2, AskStep

LEMMA TransitioningIs ==
  ASSUME LeaseInv, NEW l, l = Lease!Transitioning
  PROVE  /\ l \in [session : Nat, client : Holders, owner : Owners, id : Nat]
         /\ l.owner = "transitioning" /\ l.session = lease.session
<1>1. lease \in [session : Nat, client : Holders, owner : Owners, id : Nat]
  BY DEF LeaseInv, LeaseTyped
<1> QED
  BY <1>1 DEF Lease!Transitioning, Owners

LEMMA DisableStep ==
  ASSUME LeaseInv,
         UNCHANGED <<svc, outbox, conn, toDeck, toCompanion, deckUp, deck, grants, foreign>>,
         Lease!Disable(Lease!Transitioning)
  PROVE  LeaseInv'
<1>1. CASE UNCHANGED <<nextID, pending, lease>>
  BY <1>1, SaysSame, OldSaid
<1>2. CASE Lease!NextRequest(FALSE) /\ lease' = Lease!Transitioning
  <2>1. PICK b \in BOOLEAN : b = FALSE
    OBVIOUS
  <2> QED
    BY <1>2, <2>1, TransitioningIs, AskedStep
<1> QED
  BY <1>1, <1>2 DEF Lease!Disable

LEMMA AcquireStep == ASSUME LeaseInv, NEW c \in Clients, Lease!Acquire(c) PROVE LeaseInv'
<1>1. /\ UNCHANGED <<svc, outbox, conn, toDeck, toCompanion, deckUp, deck, grants, foreign>>
      /\ Lease!NextRequest(TRUE) /\ lease.owner # "web" /\ pending.id = 0
      /\ lease' = [Lease!NoLease(svc.session, "transitioning") EXCEPT !.client = c]
      /\ svc.session \in Nat
  BY DEF Lease!Acquire, LeaseInv, LeaseTyped
<1>2. /\ lease' \in [session : Nat, client : Holders, owner : Owners, id : Nat]
      /\ lease'.owner = "transitioning"
  BY <1>1 DEF Lease!NoLease, Holders, Owners
<1>3. PICK b \in BOOLEAN : b = TRUE
  OBVIOUS
<1> QED
  BY <1>1, <1>2, <1>3, AskedStep

LEMMA ReleaseStep == ASSUME LeaseInv, NEW c \in Clients, Lease!Release(c) PROVE LeaseInv'
  BY DisableStep DEF Lease!Release

LEMMA BrowserLeavesStep ==
  ASSUME LeaseInv, NEW c \in Clients, Lease!BrowserLeaves(c) PROVE LeaseInv'
<1>1. UNCHANGED <<svc, outbox, conn, toDeck, toCompanion, deckUp, deck, grants, foreign>>
  BY DEF Lease!BrowserLeaves
<1>2. CASE Lease!Disable(Lease!Transitioning)
  BY <1>1, <1>2, DisableStep
<1>3. CASE UNCHANGED <<nextID, pending, lease>>
  BY <1>1, <1>3, SaysSame, OldSaid
<1> QED
  BY <1>2, <1>3 DEF Lease!BrowserLeaves

LEMMA ExpireLeaseStep == ASSUME LeaseInv, Lease!ExpireLease PROVE LeaseInv'
<1>1. /\ UNCHANGED <<svc, outbox, conn, toDeck, toCompanion, deckUp, deck, grants, foreign>>
      /\ Lease!NextRequest(FALSE) /\ lease' = Lease!Transitioning
  BY DEF Lease!ExpireLease
<1>2. PICK b \in BOOLEAN : b = FALSE
  OBVIOUS
<1> QED
  BY <1>1, <1>2, TransitioningIs, AskedStep

Leases == [session : Nat, client : Holders, owner : Owners, id : Nat]
Pendings == [id : Nat, enable : BOOLEAN, claimed : BOOLEAN]
Services == [state : TxStates, session : Nat, sequence : Nat]

LEMMA NoLeaseIs ==
  ASSUME NEW s \in Nat, NEW o \in Owners, NEW l, l = Lease!NoLease(s, o)
  PROVE  l \in Leases /\ l.owner = o /\ l.session = s
  BY DEF Lease!NoLease, Leases, Holders

LEMMA NoRequestIs ==
  Lease!NoRequest \in Pendings /\ Lease!NoRequest.id = 0
  BY DEF Lease!NoRequest, Pendings

\* What a report leaves of the lease: all of it, or nothing asked and nobody's.
LEMMA ReconcileMoves ==
  ASSUME LeaseInv, NEW st \in TxStates, NEW s \in Nat, Lease!Reconcile(st, s)
  PROVE  /\ svc' \in Services /\ lease' \in Leases /\ pending' \in Pendings
         /\ svc'.session = IF st = "disarmed" THEN 0 ELSE s
         /\ \/ pending'.id = 0 /\ lease'.owner # "web"
            \/ /\ lease' = lease /\ pending' = pending
               /\ lease.owner = "web" => svc'.session = svc.session
         /\ st = "disarmed" => svc'.state = "disarmed" /\ lease'.owner # "web"
         /\ st = "web_tx" =>
              svc'.state = "web_tx" /\ (svc.session = s => lease' = lease /\ pending' = pending)
         /\ st = "usb_tx" =>
              pending'.id # 0 \/ (svc'.state = "usb_tx" /\ lease'.owner # "web")
<1>1. /\ svc \in Services /\ svc.session \in Nat /\ svc.sequence \in Nat /\ svc.state \in TxStates
      /\ lease \in Leases /\ pending \in Pendings
      /\ lease.owner = "web" =>
           pending.id = 0 /\ lease.session = svc.session /\ svc.session # 0
  BY DEF LeaseInv, LeaseTyped, HeldHolds, Leases, Pendings, Services
<1>2. CASE st = "disarmed"
  <2>1. /\ lease' = IF svc.session # 0 THEN Lease!Ended(svc.session) ELSE lease
        /\ pending' = IF svc.session # 0 /\ lease.session = svc.session
                       THEN Lease!NoRequest ELSE pending
        /\ svc' = [state |-> "disarmed", session |-> 0, sequence |-> 0]
    BY <1>2 DEF Lease!Reconcile
  <2>2. svc' \in Services /\ svc'.session = 0 /\ svc'.state = "disarmed"
    BY <2>1 DEF Services, TxStates
  <2>3. CASE svc.session # 0 /\ lease.session = svc.session
    <3>1. lease' = Lease!NoLease(0, "unavailable") /\ pending' = Lease!NoRequest
      BY <2>1, <2>3 DEF Lease!Ended
    <3>2. lease' \in Leases /\ lease'.owner = "unavailable"
      BY <3>1, NoLeaseIs DEF Owners
    <3> QED
      BY <1>2, <2>2, <3>1, <3>2, NoRequestIs
  <2>4. CASE ~(svc.session # 0 /\ lease.session = svc.session)
    <3>1. lease' = lease /\ pending' = pending
      BY <2>1, <2>4 DEF Lease!Ended
    <3> QED
      BY <1>1, <1>2, <2>2, <2>4, <3>1
  <2> QED
    BY <2>3, <2>4
<1>3. CASE st # "disarmed"
  <2> DEFINE moved == svc.session # s
             ended == svc.session # 0 /\ moved /\ lease.session = svc.session
             waits == ~moved /\ pending.id # 0
  <2>1. /\ svc' = [state |-> IF st = "usb_tx" /\ waits THEN svc.state ELSE st,
                   session |-> s, sequence |-> IF moved THEN 0 ELSE svc.sequence]
        /\ (st = "usb_tx" /\ ~waits) =>
             lease' = Lease!NoLease(s, "usb") /\ pending' = Lease!NoRequest
        /\ ~(st = "usb_tx" /\ ~waits) =>
             /\ lease' = IF ended THEN Lease!NoLease(0, "unavailable") ELSE lease
             /\ pending' = IF ended THEN Lease!NoRequest ELSE pending
    BY <1>3 DEF Lease!Reconcile
  <2>2. /\ svc' \in Services /\ svc'.session = s
        /\ svc'.state = IF st = "usb_tx" /\ waits THEN svc.state ELSE st
    <3>1. PICK t \in TxStates : t = IF st = "usb_tx" /\ waits THEN svc.state ELSE st
      BY <1>1
    <3>2. PICK k \in Nat : k = IF moved THEN 0 ELSE svc.sequence
      BY <1>1
    <3>3. svc' = [state |-> t, session |-> s, sequence |-> k]
      BY <2>1, <3>1, <3>2
    <3>4. svc' \in Services /\ svc'.session = s /\ svc'.state = t
      BY <3>3 DEF Services
    <3> QED
      BY <3>1, <3>4
  <2>3. CASE st = "usb_tx" /\ ~waits
    <3>1. lease' = Lease!NoLease(s, "usb") /\ pending' = Lease!NoRequest
      BY <2>1, <2>3
    <3>2. lease' \in Leases /\ lease'.owner = "usb"
      BY <3>1, NoLeaseIs DEF Owners
    <3> QED
      BY <1>3, <2>2, <2>3, <3>1, <3>2, NoRequestIs
  <2>4. CASE ~(st = "usb_tx" /\ ~waits) /\ ended
    <3>1. lease' = Lease!NoLease(0, "unavailable") /\ pending' = Lease!NoRequest
      BY <2>1, <2>4
    <3>2. lease' \in Leases /\ lease'.owner = "unavailable"
      BY <3>1, NoLeaseIs DEF Owners
    <3>3. st = "web_tx"
      BY <1>3, <2>4 DEF TxStates
    <3> QED
      BY <1>3, <2>2, <2>4, <3>1, <3>2, <3>3, NoRequestIs
  <2>5. CASE ~(st = "usb_tx" /\ ~waits) /\ ~ended
    <3>1. lease' = lease /\ pending' = pending
      BY <2>1, <2>5
    <3>2. lease.owner = "web" => svc'.session = svc.session
      BY <1>1, <2>2, <2>5
    <3>3. st = "usb_tx" => pending.id # 0
      BY <2>5
    <3>4. st = "web_tx" => svc'.state = "web_tx"
      BY <2>2
    <3> QED
      BY <1>1, <1>3, <2>2, <3>1, <3>2, <3>3, <3>4
  <2> QED
    BY <2>3, <2>4, <2>5
<1> QED
  BY <1>2, <1>3

\* The lease changes hands only with nothing asked of it: what was said stands.
LEMMA KeepsSaid ==
  ASSUME LeaseInv, UNCHANGED <<nextID, grants>>,
         pending'.id = 0 \/ (lease' = lease /\ pending' = pending)
  PROVE  /\ \A x \in Messages : Said(x) => Said(x)'
         /\ \A m \in Requests : Asks(m) => Asks(m)'
         /\ \A r : Answers(r) => Answers(r)'
<1>1. \A m \in Requests : m.id # 0
  BY DEF Requests
<1>2. \A m \in Requests : Asks(m) => Asks(m)'
  BY <1>1 DEF Asks
<1>3. \A x \in Messages : Said(x) => Said(x)'
  <2>1. \A x \in Messages : x.kind = "request" => x \in Requests
    BY DEF Messages, Activities, Frames
  <2> QED
    BY <1>2, <2>1 DEF Said, Granted
<1>4. \A r : Answers(r) => Answers(r)'
  BY DEF Answers
<1> QED
  BY <1>2, <1>3, <1>4

LEMMA KeepsMessages ==
  ASSUME LeaseInv, UNCHANGED <<nextID, grants, outbox, toDeck, foreign>>,
         deck'.queue = deck.queue, Linked' => Linked \/ deck.queue = <<>>,
         pending'.id = 0 \/ (lease' = lease /\ pending' = pending)
  PROVE  MessagesHold'
<1>1. /\ \A x \in outbox : x \in Messages
      /\ \A i \in DOMAIN toDeck : toDeck[i] \in Messages
      /\ \A i \in DOMAIN deck.queue : deck.queue[i] \in Requests
  <2>1. deck.queue \in Seq(Requests) /\ toDeck \in Seq(Messages) /\ outbox \subseteq Messages
    BY DeckFields DEF LeaseInv, LeaseTyped
  <2> QED
    BY <2>1
<1>2. deck.queue = <<>> => DOMAIN deck.queue = {}
  OBVIOUS
<1> QED
  BY <1>1, <1>2, KeepsSaid DEF LeaseInv, MessagesHold

\* The head of what the Companion hears is taken: the rest moves up.
LEMMA HeardOne ==
  ASSUME toCompanion \in Seq(Reports), toCompanion # <<>>, toCompanion' = Tail(toCompanion),
         deck' = deck
  PROVE  /\ \A i \in DOMAIN toCompanion' :
              i + 1 \in DOMAIN toCompanion /\ (LastState(i)' => LastState(i + 1))
         /\ \A i \in DOMAIN toCompanion' : IsResult(i)' => IsResult(i + 1)
         /\ \A i \in DOMAIN toCompanion' :
              (\A j \in DOMAIN toCompanion : j > i => ~IsState(j))'
                => \A j \in DOMAIN toCompanion : j > i + 1 => ~IsState(j)
         /\ \A i \in DOMAIN toCompanion' :
              Gives(toCompanion[i].result)' => Gives(toCompanion[i + 1].result)
<1>1. /\ \A i \in DOMAIN toCompanion' : /\ i + 1 \in DOMAIN toCompanion /\ i \in Nat /\ i > 0
                                        /\ toCompanion'[i] = toCompanion[i + 1]
      /\ \A i \in DOMAIN toCompanion :
           /\ i \in Nat
           /\ i = 1 \/ (i - 1 \in DOMAIN toCompanion' /\ toCompanion'[i - 1] = toCompanion[i])
  BY Shifted
<1>2. ASSUME NEW i \in DOMAIN toCompanion', (\A j \in DOMAIN toCompanion : j > i => ~IsState(j))',
             NEW j \in DOMAIN toCompanion, j > i + 1
      PROVE  ~IsState(j)
  <2>1. j \in Nat /\ i \in Nat /\ j # 1
    BY <1>1, <1>2
  <2>2. j - 1 \in DOMAIN toCompanion' /\ toCompanion'[j - 1] = toCompanion[j]
    BY <1>1, <2>1
  <2>3. j - 1 > i
    BY <1>2, <2>1
  <2>4. ~(toCompanion'[j - 1].kind = "state")
    BY <1>2, <2>2, <2>3 DEF IsState
  <2> QED
    BY <2>2, <2>4 DEF IsState
<1>3. \A i \in DOMAIN toCompanion' : IsState(i)' => IsState(i + 1)
  BY <1>1 DEF IsState
<1>4. \A i \in DOMAIN toCompanion' : IsResult(i)' => IsResult(i + 1)
  BY <1>1 DEF IsResult
<1>5. \A i \in DOMAIN toCompanion' : LastState(i)' => LastState(i + 1)
  BY <1>2, <1>3 DEF LastState
<1>6. ASSUME NEW i \in DOMAIN toCompanion', Gives(toCompanion[i].result)'
      PROVE  Gives(toCompanion[i + 1].result)
  BY <1>1, <1>6 DEF Gives
<1> QED
  BY <1>1, <1>2, <1>4, <1>5, <1>6

LEMMA ReceiveStateStep == ASSUME LeaseInv, Lease!ReceiveState PROVE LeaseInv'
<1> USE DEF LeaseInv
<1>1. /\ UNCHANGED <<nextID, outbox, conn, toDeck, deckUp, deck, grants, foreign>>
      /\ conn = "serving" /\ toCompanion # <<>> /\ toCompanion \in Seq(Reports)
      /\ toCompanion' = Tail(toCompanion) /\ nextID \in Nat \ {0}
  BY DEF Lease!ReceiveState, LeaseTyped
<1>2. /\ toCompanion' \in Seq(Reports) /\ 1 \in DOMAIN toCompanion
      /\ Head(toCompanion) = toCompanion[1] /\ toCompanion[1] \in Reports
      /\ \A i \in DOMAIN toCompanion' : /\ i + 1 \in DOMAIN toCompanion /\ i \in Nat /\ i > 0
                                        /\ toCompanion'[i] = toCompanion[i + 1]
      /\ \A i \in DOMAIN toCompanion :
           /\ i \in Nat
           /\ i = 1 \/ (i - 1 \in DOMAIN toCompanion' /\ toCompanion'[i - 1] = toCompanion[i])
  BY <1>1, Shifted
<1>3. PICK st \in TxStates, s \in Nat :
        /\ toCompanion[1].state = st /\ toCompanion[1].session = s
        /\ toCompanion[1].kind = "state" /\ Lease!Reconcile(st, s)
  <2>1. Head(toCompanion).kind = "state"
        /\ Lease!Reconcile(Head(toCompanion).state, Head(toCompanion).session)
    BY DEF Lease!ReceiveState
  <2>2. toCompanion[1] \in StateReports
    BY <1>2, <2>1 DEF Reports, ResultReports
  <2>3. toCompanion[1].state \in TxStates /\ toCompanion[1].session \in Nat
    BY <2>2 DEF StateReports
  <2> QED
    BY <1>2, <2>1, <2>3
<1>4. /\ svc' \in Services /\ lease' \in Leases /\ pending' \in Pendings
      /\ svc'.session = IF st = "disarmed" THEN 0 ELSE s
      /\ \/ pending'.id = 0 /\ lease'.owner # "web"
         \/ /\ lease' = lease /\ pending' = pending
            /\ lease.owner = "web" => svc'.session = svc.session
      /\ st = "disarmed" => svc'.state = "disarmed" /\ lease'.owner # "web"
      /\ st = "web_tx" =>
           svc'.state = "web_tx" /\ (svc.session = s => lease' = lease /\ pending' = pending)
      /\ st = "usb_tx" =>
           pending'.id # 0 \/ (svc'.state = "usb_tx" /\ lease'.owner # "web")
  BY <1>3, ReconcileMoves
<1>5. LeaseTyped' /\ LinkHolds'
  BY <1>1, <1>2, <1>4 DEF LeaseTyped, LinkHolds, Services, Leases, Pendings
<1>6. HeldHolds'
  BY <1>1, <1>4 DEF HeldHolds
<1>7. MessagesHold'
  BY <1>1, <1>4, KeepsMessages DEF Linked
<1>8. ResultsHold'
  <2>1. \A r : Answers(r) => Answers(r)'
    BY <1>1, <1>4, KeepsSaid
  <2> QED
    BY <1>1, <1>2, <2>1 DEF ResultsHold, Linked, IsResult
<1>9. \A i \in DOMAIN toCompanion' : i + 1 \in DOMAIN toCompanion /\ (LastState(i)' => LastState(i + 1))
  BY <1>1, HeardOne
<1>10. (\A i \in DOMAIN toCompanion : ~IsState(i))' => LastState(1)
  BY <1>2, <1>3 DEF LastState, IsState
<1>11. ReportsHold'
  BY <1>1, <1>2, <1>3, <1>4, <1>9, <1>10 DEF ReportsHold, Served, Lease!Wire
<1>12. GrantsHold'
  <2>1. Gives(deck.result)' => (deck.state = "web_tx" /\ deck.lease = deck.result.lease)'
    BY <1>1 DEF GrantsHold, Gives
  <2>2. ASSUME Served', deck'.published, NEW i \in DOMAIN toCompanion',
              IsResult(i)', Gives(toCompanion[i].result)',
              (\A j \in DOMAIN toCompanion : j > i => ~IsState(j))'
       PROVE  deck'.state = "web_tx"
    <3>1. Served /\ deck.published
      BY <1>1, <2>2 DEF Served
    <3>2. /\ i + 1 \in DOMAIN toCompanion /\ IsResult(i + 1) /\ Gives(toCompanion[i + 1].result)
            /\ \A j \in DOMAIN toCompanion : j > i + 1 => ~IsState(j)
      BY <1>1, <2>2, HeardOne
    <3> QED
      BY <1>1, <3>1, <3>2 DEF GrantsHold
  <2> QED
    BY <2>1, <2>2 DEF GrantsHold
<1>13. WebHolds'
  <2> SUFFICES ASSUME Served, deck.state = "web_tx"
               PROVE  (Owed \/ OnItsWay \/ Known \/ TakenBack)'
    BY <1>1 DEF WebHolds, Served
  <2>1. \A i \in Nat : ReportedSince(i + 1) => ReportedSince(i)'
    BY <1>1, <1>2 DEF ReportedSince, IsState
  <2>2. ReportedSince(0) => ReportedSince(0)' /\ st = "web_tx" /\ s = deck.session
    BY <1>1, <1>2, <1>3 DEF ReportedSince, IsState
  <2>3. Owed => Owed'
    BY <1>1 DEF Owed, Names
  <2>4. ASSUME OnItsWay PROVE OnItsWay'
    <3>1. PICK i \in DOMAIN toCompanion :
            IsResult(i) /\ Names(toCompanion[i].result) /\ ReportedSince(i)
      BY <2>4 DEF OnItsWay
    <3>2. PICK k \in DOMAIN toCompanion' : k + 1 = i /\ toCompanion'[k] = toCompanion[i] /\ k \in Nat
      BY <1>2, <1>3, <3>1 DEF IsResult
    <3>3. ReportedSince(k)'
      BY <2>1, <3>1, <3>2
    <3> QED
      BY <1>1, <3>1, <3>2, <3>3 DEF OnItsWay, Names, IsResult
  <2>5. Known => Known'
    BY <1>1, <1>4, <2>2 DEF Known
  <2>6. TakenBack => TakenBack'
    BY <1>1, <1>2, <1>4, <2>2 DEF TakenBack, IsResult
  <2> QED
    BY <2>3, <2>4, <2>5, <2>6 DEF WebHolds
<1>14. UsbHolds'
  <2> SUFFICES ASSUME Served, deck.published, deck.state # "web_tx", pending'.id = 0,
                      (\A i \in DOMAIN toCompanion : ~IsState(i))'
               PROVE  svc'.state = deck.state /\ lease'.owner # "web"
    BY <1>1 DEF UsbHolds, Served
  <2>1. st = deck.state
    BY <1>2, <1>3, <1>10 DEF ReportsHold
  <2> QED
    BY <1>4, <2>1 DEF TxStates
<1> QED
  BY <1>5, <1>6, <1>7, <1>8, <1>11, <1>12, <1>13, <1>14

LEMMA ConnectStep == ASSUME LeaseInv, Lease!Connect PROVE LeaseInv'
<1> USE DEF LeaseInv
<1>1. /\ UNCHANGED <<nextID, outbox, toDeck, toCompanion, grants, foreign>>
      /\ ~deckUp /\ conn = "none" /\ deckUp' = TRUE /\ conn' = "serving" /\ deck \in Decks
      /\ deck' = [deck EXCEPT !.published = TRUE] /\ nextID \in Nat \ {0}
      /\ Lease!Reconcile(deck.state, Lease!Wire(deck))
  BY DEF Lease!Connect, LeaseTyped
<1>2. /\ deck' \in Decks /\ deck'.state = deck.state /\ deck'.session = deck.session
      /\ deck'.lease = deck.lease /\ deck'.tracker = deck.tracker /\ deck'.queue = deck.queue
      /\ deck'.result = deck.result /\ deck'.published = TRUE
  BY <1>1 DEF Decks
<1>3. /\ toCompanion = <<>> /\ deck.tracker = 0 /\ deck.queue = <<>>
      /\ deck.result = Lease!NoResult /\ deck.state # "web_tx"
      /\ DOMAIN toCompanion = {}
  BY <1>1 DEF LinkHolds
<1>4. PICK st \in TxStates, s \in Nat :
        st = deck.state /\ s = Lease!Wire(deck) /\ Lease!Reconcile(st, s)
  BY <1>1, DeckFields DEF Lease!Wire
<1>5. /\ svc' \in Services /\ lease' \in Leases /\ pending' \in Pendings
      /\ svc'.session = IF st = "disarmed" THEN 0 ELSE s
      /\ \/ pending'.id = 0 /\ lease'.owner # "web"
         \/ /\ lease' = lease /\ pending' = pending
            /\ lease.owner = "web" => svc'.session = svc.session
      /\ st = "disarmed" => svc'.state = "disarmed" /\ lease'.owner # "web"
      /\ st = "usb_tx" =>
           pending'.id # 0 \/ (svc'.state = "usb_tx" /\ lease'.owner # "web")
  BY <1>4, ReconcileMoves
<1>6. LeaseTyped'
  <2>1. conn' \in {"none", "serving", "ending"}
    BY <1>1
  <2>2. deckUp' \in BOOLEAN
    BY <1>1
  <2> QED
    BY <1>1, <1>2, <1>5, <2>1, <2>2 DEF LeaseTyped, Services, Leases, Pendings
<1>7. LinkHolds' /\ HeldHolds'
  BY <1>1, <1>2, <1>3, <1>5 DEF LinkHolds, HeldHolds
<1>8. MessagesHold'
  BY <1>1, <1>2, <1>3, <1>5, KeepsMessages
<1>9. ResultsHold'
  <2>1. Answers(Lease!NoResult)'
    BY <1>1, NoResultIs DEF Answers
  <2> QED
    BY <1>1, <1>2, <1>3, <2>1 DEF ResultsHold
<1>10. ReportsHold'
  BY <1>1, <1>2, <1>3, <1>4, <1>5 DEF ReportsHold, Lease!Wire
<1>11. GrantsHold' /\ WebHolds'
  BY <1>1, <1>2, <1>3, NoResultIs DEF GrantsHold, WebHolds, Gives
<1>12. UsbHolds'
  BY <1>2, <1>3, <1>4, <1>5 DEF UsbHolds, TxStates
<1> QED
  BY <1>6, <1>7, <1>8, <1>9, <1>10, <1>11, <1>12

\* The Companion is about to lose the link, or has lost it.
LEMMA EndingStep ==
  ASSUME LeaseInv,
         UNCHANGED <<svc, lease, pending, nextID, outbox, toDeck, deckUp, deck, grants, foreign>>,
         conn # "none", conn' = "ending", toCompanion' \in Seq(Reports),
         \A i \in DOMAIN toCompanion' : \E j \in DOMAIN toCompanion : toCompanion'[i] = toCompanion[j]
  PROVE  LeaseInv'
<1> USE DEF LeaseInv
<1>1. LeaseTyped' /\ LinkHolds' /\ HeldHolds'
  BY DEF LeaseTyped, LinkHolds, HeldHolds
<1>2. MessagesHold'
  BY KeepsMessages DEF Linked
<1>3. ResultsHold'
  <2>1. \A r : Answers(r) => Answers(r)'
    BY KeepsSaid
  <2> QED
    BY <2>1 DEF ResultsHold, Linked, IsResult
<1>4. ReportsHold' /\ GrantsHold' /\ WebHolds' /\ UsbHolds'
  BY DEF ReportsHold, GrantsHold, WebHolds, UsbHolds, Served, Gives
<1> QED
  BY <1>1, <1>2, <1>3, <1>4

LEMMA HubDropsStep == ASSUME LeaseInv, Lease!HubDrops PROVE LeaseInv'
<1>1. /\ UNCHANGED <<svc, lease, pending, nextID, outbox, toDeck, toCompanion, deckUp, deck,
                     grants, foreign>>
      /\ conn = "serving" /\ conn' = "ending"
  BY DEF Lease!HubDrops, Lease!companion
<1> QED
  BY <1>1, EndingStep DEF LeaseInv, LeaseTyped

LEMMA ReceiveResultStep == ASSUME LeaseInv, Lease!ReceiveResult PROVE LeaseInv'
<1> USE DEF LeaseInv
<1>1. /\ UNCHANGED <<nextID, outbox, toDeck, deckUp, deck, grants, foreign>>
      /\ conn = "serving" /\ toCompanion # <<>> /\ toCompanion \in Seq(Reports)
      /\ toCompanion' = Tail(toCompanion) /\ nextID \in Nat \ {0}
  BY DEF Lease!ReceiveResult, LeaseTyped
<1>2. /\ toCompanion' \in Seq(Reports) /\ 1 \in DOMAIN toCompanion
      /\ Head(toCompanion) = toCompanion[1] /\ toCompanion[1] \in Reports
      /\ \A i \in DOMAIN toCompanion' : /\ i + 1 \in DOMAIN toCompanion /\ i \in Nat /\ i > 0
                                        /\ toCompanion'[i] = toCompanion[i + 1]
      /\ \A i \in DOMAIN toCompanion :
           /\ i \in Nat
           /\ i = 1 \/ (i - 1 \in DOMAIN toCompanion' /\ toCompanion'[i - 1] = toCompanion[i])
  BY <1>1, Shifted
<1>3. PICK r \in OwnerResults :
        /\ toCompanion[1].kind = "result" /\ toCompanion[1].result = r
        /\ r = Head(toCompanion).result
  <2>1. Head(toCompanion).kind = "result"
    BY DEF Lease!ReceiveResult
  <2>2. toCompanion[1] \in ResultReports
    BY <1>2, <2>1 DEF Reports, StateReports
  <2>3. toCompanion[1].result \in OwnerResults
    BY <2>2 DEF ResultReports
  <2> QED
    BY <1>2, <2>1, <2>3
<1>4. CASE ~Lease!Expected(r)
  <2>1. UNCHANGED <<svc, lease, pending>> /\ conn' = "ending"
    BY <1>3, <1>4 DEF Lease!ReceiveResult
  <2> QED
    BY <1>1, <1>2, <2>1, EndingStep
<1>5. CASE Lease!Expected(r)
  <2>1. /\ lease' = Lease!Applied(r) /\ pending' = Lease!NoRequest /\ conn' = conn
        /\ svc' = [svc EXCEPT !.state = CASE r.owner = "usb" -> "usb_tx"
                                          [] r.owner = "web" -> "web_tx"
                                          [] OTHER -> @]
    BY <1>3, <1>5 DEF Lease!ReceiveResult
  <2>2. /\ r.session # 0 /\ r.session = svc.session /\ r.session = lease.session
        /\ pending.id # 0 /\ r.id = pending.id /\ r.session \in Nat /\ r.lease \in Nat
        /\ svc \in Services /\ lease \in Leases /\ pending \in Pendings
    BY <1>5 DEF Lease!Expected, LeaseTyped, OwnerResults, Services, Leases, Pendings
  <2>3. Answers(r)
    BY <1>2, <1>3 DEF ResultsHold, IsResult
  <2>4. r.accepted /\ r.owner = IF pending.enable THEN "web" ELSE "usb"
    BY <2>2, <2>3 DEF Answers
  <2>5. pending' \in Pendings /\ pending'.id = 0
    BY <2>1, NoRequestIs
  <2>6. /\ svc' \in Services /\ svc'.session = svc.session /\ lease' \in Leases
        /\ \/ /\ r.owner = "web" /\ lease'.owner = "web" /\ lease'.id = r.lease
              /\ lease'.session = lease.session /\ lease'.client = lease.client
              /\ svc'.state = "web_tx" /\ r.lease \in DOMAIN grants
              /\ grants[r.lease] = lease.client
           \/ r.owner = "usb" /\ lease'.owner = "usb" /\ svc'.state = "usb_tx"
    <3>1. CASE pending.enable
      <4>1. r.owner = "web"
        BY <2>4, <3>1
      <4>2. svc' = [svc EXCEPT !.state = "web_tx"]
        BY <2>1, <4>1
      <4>3. svc' \in Services /\ svc'.session = svc.session /\ svc'.state = "web_tx"
        BY <2>2, <4>2 DEF Services, TxStates
      <4>4. lease' = [lease EXCEPT !.owner = "web", !.id = r.lease]
        BY <2>1, <2>4, <3>1 DEF Lease!Applied
      <4>5. /\ lease' \in Leases /\ lease'.owner = "web" /\ lease'.id = r.lease
            /\ lease'.session = lease.session /\ lease'.client = lease.client
        BY <2>2, <4>4 DEF Leases, Owners
      <4>6. r.lease \in DOMAIN grants /\ grants[r.lease] = lease.client
        BY <2>2, <2>3, <2>4, <4>1 DEF Answers
      <4> QED
        BY <4>1, <4>3, <4>5, <4>6
    <3>2. CASE ~pending.enable
      <4>1. r.owner = "usb" /\ r.lease = 0
        BY <1>5, <2>4, <3>2 DEF Lease!Expected
      <4>2. svc' = [svc EXCEPT !.state = "usb_tx"]
        BY <2>1, <4>1
      <4>3. svc' \in Services /\ svc'.session = svc.session /\ svc'.state = "usb_tx"
        BY <2>2, <4>2 DEF Services, TxStates
      <4>4. lease' = Lease!NoLease(r.session, "usb")
        BY <2>1, <3>2, <4>1 DEF Lease!Applied
      <4>5. lease' \in Leases /\ lease'.owner = "usb"
        BY <2>2, <4>4, NoLeaseIs DEF Owners
      <4> QED
        BY <4>1, <4>3, <4>5
    <3> QED
      BY <3>1, <3>2
  <2>7. LeaseTyped' /\ LinkHolds'
    BY <1>1, <1>2, <2>1, <2>5, <2>6 DEF LeaseTyped, LinkHolds, Services, Leases, Pendings
  <2>8. HeldHolds'
    <3>1. (pending.id < nextID)'
      BY <1>1, <2>5
    <3>2. CASE lease'.owner = "web"
      BY <1>1, <2>2, <2>5, <2>6, <3>1, <3>2 DEF HeldHolds
    <3>3. CASE lease'.owner # "web"
      BY <3>1, <3>3 DEF HeldHolds
    <3> QED
      BY <3>2, <3>3
  <2>9. MessagesHold'
    BY <1>1, <2>1, <2>5, KeepsMessages DEF Linked
  <2>10. ResultsHold'
    <3>1. \A x : Answers(x) => Answers(x)'
      BY <1>1, <2>5, KeepsSaid
    <3> QED
      BY <1>1, <1>2, <2>1, <3>1 DEF ResultsHold, Linked, IsResult
  <2>11. \A i \in DOMAIN toCompanion' : i + 1 \in DOMAIN toCompanion /\ (LastState(i)' => LastState(i + 1))
    BY <1>1, HeardOne
  <2>12. (\A i \in DOMAIN toCompanion : ~IsState(i))' => \A i \in DOMAIN toCompanion : ~IsState(i)
    BY <1>2, <1>3 DEF IsState
  <2>13. ReportsHold'
    BY <1>1, <1>2, <2>1, <2>6, <2>11, <2>12 DEF ReportsHold, Served
  <2>14. GrantsHold'
    <3>1. Gives(deck.result)' => (deck.state = "web_tx" /\ deck.lease = deck.result.lease)'
      BY <1>1 DEF GrantsHold, Gives
    <3>2. ASSUME Served', deck'.published, NEW i \in DOMAIN toCompanion',
                IsResult(i)', Gives(toCompanion[i].result)',
                (\A j \in DOMAIN toCompanion : j > i => ~IsState(j))'
         PROVE  deck'.state = "web_tx"
      <4>1. Served /\ deck.published
        BY <1>1, <2>1, <3>2 DEF Served
      <4>2. /\ i + 1 \in DOMAIN toCompanion /\ IsResult(i + 1) /\ Gives(toCompanion[i + 1].result)
              /\ \A j \in DOMAIN toCompanion : j > i + 1 => ~IsState(j)
        BY <1>1, <3>2, HeardOne
      <4> QED
        BY <1>1, <4>1, <4>2 DEF GrantsHold
    <3> QED
      BY <3>1, <3>2 DEF GrantsHold
  <2>15. WebHolds'
    <3> SUFFICES ASSUME Served, deck.state = "web_tx"
                 PROVE  (Owed \/ OnItsWay \/ Known \/ TakenBack)'
      BY <1>1, <2>1 DEF WebHolds, Served
    <3>1. \A i \in Nat : ReportedSince(i + 1) => ReportedSince(i)'
      BY <1>1, <1>2 DEF ReportedSince, IsState
    <3>2. Owed => Owed'
      BY <1>1 DEF Owed, Names
    <3>3. ASSUME OnItsWay PROVE (OnItsWay \/ Known)'
      <4>1. PICK i \in DOMAIN toCompanion :
              IsResult(i) /\ Names(toCompanion[i].result) /\ ReportedSince(i)
        BY <3>3 DEF OnItsWay
      <4>2. CASE i = 1
        <5>1. ReportedSince(0)'
          BY <3>1, <4>1, <4>2
        <5>2. Names(r)
          BY <1>3, <4>1, <4>2
        <5> QED
          BY <1>1, <2>2, <2>5, <2>6, <5>1, <5>2 DEF Known, Names
      <4>3. CASE i # 1
        <5>1. PICK k \in DOMAIN toCompanion' :
                k + 1 = i /\ toCompanion'[k] = toCompanion[i] /\ k \in Nat
          BY <1>2, <4>1, <4>3
        <5>2. ReportedSince(k)'
          BY <3>1, <4>1, <5>1
        <5> QED
          BY <1>1, <4>1, <5>1, <5>2 DEF OnItsWay, Names, IsResult
      <4> QED
        BY <4>2, <4>3
    <3>4. ~Known /\ ~TakenBack
      BY <1>2, <1>3, <2>2 DEF Known, TakenBack, IsResult
    <3> QED
      BY <3>2, <3>3, <3>4 DEF WebHolds
  <2>16. UsbHolds'
    <3> SUFFICES ASSUME Served, deck.published, deck.state # "web_tx",
                        (\A i \in DOMAIN toCompanion : ~IsState(i))'
                 PROVE  svc'.state = deck.state /\ lease'.owner # "web"
      BY <1>1, <2>1 DEF UsbHolds, Served
    <3>1. r.session = Lease!Wire(deck)
      BY <2>2, <2>12 DEF ReportsHold
    <3>2. deck.state = "usb_tx"
      BY <2>2, <3>1, DeckFields DEF Lease!Wire, TxStates
    <3>3. r.owner # "web"
      BY <1>2, <1>3, <2>2, <2>4, <2>12, <3>1 DEF GrantsHold, Gives, IsResult
    <3> QED
      BY <2>6, <3>2, <3>3
  <2> QED
    BY <2>7, <2>8, <2>9, <2>10, <2>13, <2>14, <2>15, <2>16
<1> QED
  BY <1>4, <1>5

\* Without a link at the Companion's end only what it says itself is left to keep.
LEMMA ApartHolds ==
  ASSUME LeaseInv, deck' = deck, LeaseTyped', LinkHolds', HeldHolds', conn' = "none", ~foreign',
         (\A x \in outbox : Said(x))', (\A i \in DOMAIN toDeck : Said(toDeck[i]))'
  PROVE  LeaseInv'
<1>1. toCompanion' = <<>> /\ DOMAIN toCompanion' = {} /\ ~Linked' /\ ~Served'
  BY DEF LinkHolds, Linked, Served
<1>2. MessagesHold' /\ ResultsHold'
  BY <1>1 DEF MessagesHold, ResultsHold
<1>3. GrantsHold'
  BY <1>1 DEF LeaseInv, GrantsHold, Gives
<1>4. ReportsHold' /\ WebHolds' /\ UsbHolds'
  BY <1>1 DEF ReportsHold, WebHolds, UsbHolds
<1> QED
  BY <1>2, <1>3, <1>4 DEF LeaseInv

LEMMA OnDisconnectStep == ASSUME LeaseInv, Lease!OnDisconnect PROVE LeaseInv'
<1>1. /\ UNCHANGED <<svc, outbox, toDeck, deckUp, deck, grants, foreign>>
      /\ conn' = "none" /\ toCompanion' = <<>>
  BY DEF Lease!OnDisconnect
<1>2. /\ LeaseTyped /\ LinkHolds /\ HeldHolds /\ ~foreign /\ outbox \subseteq Messages
      /\ toDeck \in Seq(Messages) /\ nextID \in Nat \ {0} /\ pending \in Pendings
      /\ lease \in Leases /\ svc.session \in Nat
      /\ \A x \in outbox : x \in Messages /\ Said(x)
      /\ \A i \in DOMAIN toDeck : toDeck[i] \in Messages /\ Said(toDeck[i])
  BY OldSaid DEF LeaseInv, LeaseTyped, Pendings, Leases
<1>3. LinkHolds'
  BY <1>1, <1>2 DEF LinkHolds
<1>4. toCompanion' \in Seq(Reports) /\ conn' \in {"none", "serving", "ending"}
  BY <1>1
<1>5. ASSUME UNCHANGED <<nextID, pending, lease>> PROVE LeaseInv'
  <2>1. LeaseTyped' /\ HeldHolds'
    BY <1>1, <1>2, <1>4, <1>5 DEF LeaseTyped, HeldHolds
  <2>2. \A x \in Messages : Said(x) => Said(x)'
    BY <1>1, <1>5, KeepsSaid
  <2> QED
    BY <1>1, <1>2, <1>3, <2>1, <2>2, ApartHolds
<1>6. ASSUME Lease!NextRequest(FALSE),
             lease' = [lease EXCEPT !.session = svc.session, !.id = 0, !.owner = "transitioning"]
      PROVE  LeaseInv'
  <2>1. lease' \in Leases /\ lease'.owner = "transitioning"
    BY <1>2, <1>6 DEF Leases, Owners
  <2>2. nextID' = nextID + 1 /\ pending' = [id |-> nextID, enable |-> FALSE, claimed |-> FALSE]
    BY <1>6 DEF Lease!NextRequest
  <2>3. pending' \in Pendings /\ pending'.id = nextID
    BY <1>2, <2>2 DEF Pendings
  <2>4. LeaseTyped' /\ HeldHolds'
    BY <1>1, <1>2, <1>4, <2>1, <2>2, <2>3 DEF LeaseTyped, HeldHolds, Leases, Pendings
  <2>5. \A m : (m.id \in Nat /\ Asks(m)) => Asks(m)'
    <3>1. nextID \in Nat /\ nextID' = nextID + 1 /\ pending'.id = nextID
      BY <1>2, <2>2, <2>3
    <3> QED
      BY <3>1 DEF Asks
  <2>6. \A x \in Messages : Said(x) => Said(x)'
    BY <1>1, <2>5 DEF Said, Messages, Requests, Activities, Frames, Granted
  <2> QED
    BY <1>1, <1>2, <1>3, <2>4, <2>6, ApartHolds
<1> QED
  BY <1>5, <1>6 DEF Lease!OnDisconnect

LEMMA RestartStep == ASSUME LeaseInv, Lease!Restart PROVE LeaseInv'
<1>1. /\ UNCHANGED <<deckUp, deck, grants, foreign>> /\ ~foreign
      /\ conn' = "none" /\ toCompanion' = <<>> /\ toDeck' = <<>> /\ outbox' = {} /\ nextID' = 1
      /\ svc' = [state |-> "disarmed", session |-> 0, sequence |-> 0]
      /\ lease' = Lease!NoLease(0, "unavailable") /\ pending' = Lease!NoRequest
  BY OldSaid DEF Lease!Restart
<1>2. /\ svc' \in Services /\ lease' \in Leases /\ lease'.owner = "unavailable"
      /\ pending' \in Pendings /\ pending'.id = 0
  BY <1>1, NoLeaseIs, NoRequestIs DEF Services, TxStates, Owners
<1>3. LeaseTyped'
  BY <1>1, <1>2 DEF LeaseInv, LeaseTyped, Services, Leases, Pendings
<1>4. LinkHolds'
  BY <1>1 DEF LeaseInv, LinkHolds
<1>5. HeldHolds'
  BY <1>1, <1>2 DEF HeldHolds
<1> QED
  BY <1>1, <1>3, <1>4, <1>5, ApartHolds

LEMMA LeaseStep == ASSUME LeaseInv, Lease!Next PROVE LeaseInv'
<1>1. ASSUME NEW c \in Clients,
             \/ Lease!Acquire(c) \/ Lease!Release(c) \/ Lease!BrowserOpens(c)
             \/ Lease!BrowserLeaves(c) \/ Lease!HeartbeatLease(c) \/ Lease!BuildWebFrame(c)
      PROVE  LeaseInv'
  BY <1>1, AcquireStep, ReleaseStep, BrowserOpensStep, BrowserLeavesStep, HeartbeatStep, BuildStep
<1>2. ASSUME NEW x \in outbox, Lease!Write(x) PROVE LeaseInv'
  BY <1>2, WriteStep
<1>3. ASSUME \/ Lease!ExpireLease \/ Lease!ClaimRequestAttempt \/ Lease!RetryDue
             \/ Lease!ReceiveState \/ Lease!ReceiveResult \/ Lease!HubDrops
             \/ Lease!OnDisconnect \/ Lease!Restart
      PROVE  LeaseInv'
  BY <1>3, ExpireLeaseStep, ClaimStep, RetryStep, ReceiveStateStep, ReceiveResultStep,
     HubDropsStep, OnDisconnectStep, RestartStep
<1>4. ASSUME \/ Lease!Enter \/ Lease!Exit \/ Lease!Expire \/ Lease!DeckDrops \/ Lease!Connect
             \/ Lease!PublishState \/ Lease!Refuse \/ Lease!TakeRequest \/ Lease!TakeActivity
             \/ Lease!TakeFrame \/ Lease!OwnerApplies \/ Lease!SendResult
      PROVE  LeaseInv'
  BY <1>4, EnterStep, ExitStep, ExpireStep, DropsStep, ConnectStep, PublishStateStep, TakeRequestStep,
     TakeActivityStep, TakeFrameStep, OwnerStep, SendStep
<1> QED
  BY <1>1, <1>2, <1>3, <1>4 DEF Lease!Next

LEMMA LeaseInitially == ASSUME Lease!Init PROVE LeaseInv
<1>1. /\ svc = [state |-> "disarmed", session |-> 0, sequence |-> 0]
      /\ lease = Lease!NoLease(0, "unavailable") /\ pending = Lease!NoRequest /\ nextID = 1
      /\ outbox = {} /\ conn = "none" /\ toDeck = <<>> /\ toCompanion = <<>>
      /\ deckUp = FALSE /\ grants = <<>> /\ foreign = FALSE
      /\ deck = [state |-> "disarmed", session |-> 0, lease |-> 0, tracker |-> 0,
                 queue |-> <<>>, result |-> Lease!NoResult, published |-> FALSE, order |-> 0]
  BY DEF Lease!Init
<1>2. /\ svc \in Services /\ lease \in Leases /\ lease.owner = "unavailable"
      /\ pending \in Pendings /\ pending.id = 0
  BY <1>1, NoLeaseIs, NoRequestIs DEF Services, TxStates, Owners
<1>3. deckUp \in BOOLEAN
  BY <1>1
<1>4. /\ deck \in Decks /\ deck.state = "disarmed" /\ deck.tracker = 0 /\ deck.queue = <<>>
      /\ deck.result = Lease!NoResult /\ deck.session = 0
  BY <1>1, NoResultIs DEF Decks, TxStates
<1>5. LeaseTyped
  BY <1>1, <1>2, <1>3, <1>4 DEF LeaseTyped, Services, Leases, Pendings
<1>6. LinkHolds /\ HeldHolds
  BY <1>1, <1>2, <1>4, NoResultIs DEF LinkHolds, HeldHolds
<1>7. ~Linked /\ ~Served /\ DOMAIN toCompanion = {}
  BY <1>1 DEF Linked, Served
<1>8. MessagesHold /\ ResultsHold
  BY <1>1, <1>7 DEF MessagesHold, ResultsHold
<1>9. GrantsHold
  BY <1>4, <1>7, NoResultIs DEF GrantsHold, Gives
<1>10. ReportsHold /\ WebHolds /\ UsbHolds
  BY <1>7 DEF ReportsHold, WebHolds, UsbHolds
<1> QED
  BY <1>5, <1>6, <1>8, <1>9, <1>10 DEF LeaseInv

LEMMA LeaseInvariant == MCSpec => []LeaseInv
<1>1. LeaseInv /\ [MCNext]_<<part, vars, hubVars, leaseVars, secretVars, installVars, ringVars>>
        => LeaseInv'
  <2> SUFFICES ASSUME LeaseInv, Lease!Next \/ UNCHANGED leaseVars PROVE LeaseInv'
    BY DEF MCNext
  <2>1. ASSUME UNCHANGED leaseVars PROVE LeaseInv'
    BY <2>1, SaysSame, OldSaid DEF leaseVars
  <2> QED
    BY <2>1, LeaseStep
<1>2. MCInit => LeaseInv
  BY LeaseInitially DEF MCInit
<1> QED
  BY <1>1, <1>2, PTL DEF MCSpec

\* With nothing under way the two ends agree: a Web target's result is neither
\* owed nor under way nor being taken back, so it is known.
LEMMA QuietAgrees == ASSUME LeaseInv, Lease!Quiet PROVE
  /\ svc.session = Lease!Wire(deck)
  /\ lease.owner = "web" <=> deck.state = "web_tx"
  /\ lease.owner = "web" => lease.id = deck.lease
  /\ svc.state = deck.state
<1> USE DEF LeaseInv
<1>1. /\ Served /\ deck.published /\ pending.id = 0 /\ deck.tracker = 0
      /\ toCompanion = <<>> /\ DOMAIN toCompanion = {}
  BY DEF Lease!Quiet, Served
<1>2. svc.session = Lease!Wire(deck)
  BY <1>1 DEF ReportsHold
<1>3. CASE deck.state = "web_tx"
  <2>1. Known
    BY <1>1, <1>3 DEF WebHolds, Owed, OnItsWay, TakenBack
  <2> QED
    BY <1>2, <1>3, <2>1 DEF Known
<1>4. CASE deck.state # "web_tx"
  <2>1. svc.state = deck.state /\ lease.owner # "web"
    BY <1>1, <1>4 DEF UsbHolds
  <2> QED
    BY <1>2, <1>4, <2>1
<1> QED
  BY <1>3, <1>4

\* A lease the Companion shows as held was granted by the Deck to the browser it
\* names, both ends agree on session, owner and lease once everything said has
\* been heard, and no input reaches the target from a browser without a grant:
\* for any number of browsers, requests, sessions, leases, messages under way,
\* lost links and Companion restarts (LeaseManager and Service of
\* companion/internal/serialhub, the observer handlers of runtime/serial_http.go,
\* and on the Deck handle_serial_control, the owner task and
\* send_pending_serial_owner_result).
THEOREM LeaseStaysAgreed == MCSpec => []LeaseIsAgreed
<1>1. LeaseInv => LeaseIsAgreed
  <2> SUFFICES ASSUME LeaseInv
               PROVE  Lease!HolderWasGranted /\ Lease!QuietMeansAgreed /\ Lease!StrangersAreSilent
    BY DEF LeaseIsAgreed
  <2>1. Lease!HolderWasGranted
    BY DEF LeaseInv, HeldHolds, Lease!HolderWasGranted
  <2>2. Lease!QuietMeansAgreed
    BY QuietAgrees DEF Lease!QuietMeansAgreed
  <2>3. Lease!StrangersAreSilent
    BY OldSaid DEF Lease!StrangersAreSilent
  <2> QED
    BY <2>1, <2>2, <2>3
<1> QED
  BY <1>1, LeaseInvariant, PTL

-----------------------------------------------------------------------------
\* The serial ring.

RingFrames == [ordinal : Nat, sequence : Nat, length : Nat]

\* Inductions over the frames of a ring go by the least number that would fail.
LEMMA LeastNumber ==
  ASSUME NEW T \in SUBSET Nat, T # {}
  PROVE  \E m \in T : \A k \in T : m <= k
<1> DEFINE R == OpToRel(<, Nat)
<1>1. IsWellFoundedOn(R, Nat)
  BY NatLessThanWellFounded
<1>2. \A x, y \in Nat : <<x, y>> \in R <=> x < y
  BY DEF OpToRel
<1> HIDE DEF R
<1>3. PICK m \in T : \A k \in T : ~(<<k, m>> \in R)
  BY <1>1, WFMin, Zenon
<1>4. ASSUME NEW k \in T PROVE m <= k
  <2>1. k \in Nat /\ m \in Nat
    OBVIOUS
  <2>2. ~(k < m)
    BY <1>2, <1>3, <2>1, Zenon
  <2> QED
    BY <2>1, <2>2
<1> QED
  BY <1>4

\* f gives the sums of the first frames of s, up to m of them.
SumsTo(f, s, m) ==
  /\ f \in [0..m -> Nat] /\ f[0] = 0
  /\ \A n \in 1..m : f[n] = f[n - 1] + s[n].length

\* The sums exist, so the recursion of Sums defines them.
LEMMA SumsExist ==
  ASSUME NEW s \in Seq(RingFrames), NEW m \in 0..Len(s)
  PROVE  \E f : SumsTo(f, s, m)
<1> DEFINE T == {k \in 0..Len(s) : ~\E f : SumsTo(f, s, k)}
<1> SUFFICES ASSUME T # {} PROVE FALSE
  OBVIOUS
<1>1. T \in SUBSET Nat /\ Len(s) \in Nat
  OBVIOUS
<1>2. PICK k \in T : \A j \in T : k <= j
  BY <1>1, LeastNumber
<1>3. k \in 0..Len(s) /\ ~\E f : SumsTo(f, s, k)
  BY <1>2
<1>4. k # 0
  <2>1. ASSUME k = 0 PROVE SumsTo([n \in 0..0 |-> 0], s, k)
    BY <2>1 DEF SumsTo
  <2> QED
    BY <1>3, <2>1
<1>5. k - 1 \in 0..Len(s) /\ k - 1 \notin T
  BY <1>1, <1>2, <1>3, <1>4
<1>6. PICK f : SumsTo(f, s, k - 1)
  BY <1>5
<1>7. s[k].length \in Nat /\ f[k - 1] \in Nat
  <2>1. s[k] \in RingFrames
    BY <1>1, <1>3, <1>4
  <2>2. k - 1 \in 0..(k - 1)
    BY <1>1, <1>3, <1>4
  <2> QED
    BY <1>6, <2>1, <2>2 DEF RingFrames, SumsTo
<1>8. PICK g : g = [n \in 0..k |-> IF n = k THEN f[k - 1] + s[k].length ELSE f[n]]
  OBVIOUS
<1>9. k \in Nat /\ k > 0
  BY <1>3, <1>4
<1>10. g \in [0..k -> Nat] /\ g[0] = 0
  BY <1>6, <1>7, <1>8, <1>9 DEF SumsTo
<1>11. ASSUME NEW n \in 1..k PROVE g[n] = g[n - 1] + s[n].length
  <2>1. n - 1 \in 0..k /\ n \in 0..k /\ n - 1 # k
    BY <1>9
  <2>2. g[n - 1] = f[n - 1]
    BY <1>8, <2>1
  <2>3. CASE n = k
    BY <1>8, <2>1, <2>2, <2>3
  <2>4. CASE n # k
    <3>1. n \in 1..(k - 1)
      BY <1>9, <2>4
    <3> QED
      BY <1>6, <1>8, <2>1, <2>2, <2>4, <3>1 DEF SumsTo
  <2> QED
    BY <2>3, <2>4
<1>12. SumsTo(g, s, k)
  BY <1>10, <1>11 DEF SumsTo
<1> QED
  BY <1>3, <1>12

LEMMA SumsAre ==
  ASSUME NEW s \in Seq(RingFrames)
  PROVE  SumsTo(Ring!Sums(s), s, Len(s))
<1> DEFINE D(f) == [n \in 0..Len(s) |-> IF n = 0 THEN 0 ELSE f[n - 1] + s[n].length]
<1>1. PICK f : SumsTo(f, s, Len(s))
  BY SumsExist
<1>2. f = D(f)
  BY <1>1 DEF SumsTo
<1>3. Ring!Sums(s) = CHOOSE g : g = D(g)
  BY DEF Ring!Sums
<1>4. Ring!Sums(s) = D(Ring!Sums(s))
  BY <1>2, <1>3
<1>5. PICK g : g = Ring!Sums(s)
  OBVIOUS
<1>6. g = D(g) /\ DOMAIN g = 0..Len(s) /\ Len(s) \in Nat
  BY <1>4, <1>5
<1> DEFINE T == {n \in 0..Len(s) : g[n] # f[n]}
<1>7. ASSUME T # {} PROVE FALSE
  <2>1. T \in SUBSET Nat
    BY <1>6
  <2>2. PICK n \in T : \A j \in T : n <= j
    BY <1>7, <2>1, LeastNumber
  <2>3. n # 0
    <3>1. f[0] = 0 /\ g[0] = 0
      BY <1>1, <1>6 DEF SumsTo
    <3> QED
      BY <2>2, <3>1
  <2>4. n \in 1..Len(s) /\ n - 1 \in 0..Len(s) /\ n - 1 \notin T
    <3>1. Len(s) \in Nat
      OBVIOUS
    <3> QED
      BY <2>2, <2>3, <3>1
  <2>5. g[n] = g[n - 1] + s[n].length
    <3>1. n \in 0..Len(s)
      BY <2>2
    <3>2. g[n] = D(g)[n]
      BY <1>6, Zenon
    <3>3. D(g)[n] = g[n - 1] + s[n].length
      BY <2>3, <3>1
    <3> QED
      BY <3>2, <3>3
  <2> QED
    BY <1>1, <2>2, <2>4, <2>5 DEF SumsTo
<1>8. g = f
  <2>1. g = [n \in 0..Len(s) |-> g[n]] /\ f = [n \in 0..Len(s) |-> f[n]]
    BY <1>1, <1>6 DEF SumsTo
  <2>2. \A n \in 0..Len(s) : g[n] = f[n]
    BY <1>7
  <2> QED
    BY <2>1, <2>2
<1> QED
  BY <1>1, <1>5, <1>8

\* The bytes of a run of frames are the difference of two sums.
LEMMA SumsMove ==
  ASSUME NEW s \in Seq(RingFrames), NEW t \in Seq(RingFrames), NEW a \in Nat, NEW m \in Nat,
         a + m <= Len(s), m <= Len(t), \A i \in 1..m : t[i].length = s[a + i].length
  PROVE  Ring!Sums(s)[a + m] = Ring!Sums(s)[a] + Ring!Sums(t)[m]
<1>1. PICK f, g : f = Ring!Sums(s) /\ g = Ring!Sums(t)
  OBVIOUS
<1>2. SumsTo(f, s, Len(s)) /\ SumsTo(g, t, Len(t)) /\ Len(s) \in Nat /\ Len(t) \in Nat
  BY <1>1, SumsAre
<1> DEFINE T == {n \in 0..m : f[a + n] # f[a] + g[n]}
<1>3. ASSUME T # {} PROVE FALSE
  <2>1. T \in SUBSET Nat
    OBVIOUS
  <2>2. PICK n \in T : \A j \in T : n <= j
    BY <1>3, <2>1, LeastNumber
  <2>3. n # 0
    <3>1. f[a] \in Nat /\ g[0] = 0
      BY <1>2 DEF SumsTo
    <3> QED
      BY <2>2, <3>1
  <2>4. n \in 1..m /\ n - 1 \in 0..m /\ n - 1 \notin T
    BY <2>2, <2>3
  <2>5. f[a + (n - 1)] = f[a] + g[n - 1]
    BY <2>4
  <2>6. a + n \in 1..Len(s) /\ n \in 1..Len(t) /\ (a + n) - 1 = a + (n - 1)
    BY <1>2, <2>4
  <2>7. f[a + n] = f[a + (n - 1)] + s[a + n].length /\ g[n] = g[n - 1] + t[n].length
    BY <1>2, <2>6 DEF SumsTo
  <2>8. /\ f[a] \in Nat /\ g[n - 1] \in Nat /\ s[a + n].length \in Nat
        /\ s[a + n].length = t[n].length
    <3>1. s[a + n] \in RingFrames
      BY <2>6
    <3>2. a \in 0..Len(s) /\ n - 1 \in 0..Len(t)
      BY <1>2, <2>4
    <3> QED
      BY <1>2, <2>4, <3>1, <3>2 DEF SumsTo, RingFrames
  <2>9. f[a + n] = f[a] + g[n]
    <3>1. PICK x \in Nat, y \in Nat, z \in Nat :
            x = f[a] /\ y = g[n - 1] /\ z = t[n].length
      BY <2>8
    <3>2. f[a + n] = (x + y) + z /\ g[n] = y + z
      BY <2>5, <2>7, <2>8, <3>1, Zenon
    <3>3. (x + y) + z = x + (y + z)
      OBVIOUS
    <3> QED
      BY <3>1, <3>2, <3>3, Zenon
  <2> QED
    BY <2>2, <2>9
<1>4. m \in 0..m
  OBVIOUS
<1> QED
  BY <1>1, <1>3, <1>4

LEMMA PartIs ==
  ASSUME NEW s \in Seq(RingFrames), NEW a \in Nat, NEW b \in Nat, a <= b, b <= Len(s),
         NEW t, t = SubSeq(s, a + 1, b)
  PROVE  t \in Seq(RingFrames) /\ Len(t) = b - a /\ \A i \in 1..(b - a) : t[i] = s[a + i]
  OBVIOUS

LEMMA BytesOfPart ==
  ASSUME NEW s \in Seq(RingFrames), NEW a \in Nat, NEW b \in Nat, a <= b, b <= Len(s)
  PROVE  /\ SubSeq(s, a + 1, b) \in Seq(RingFrames) /\ Len(SubSeq(s, a + 1, b)) = b - a
         /\ \A i \in 1..(b - a) : SubSeq(s, a + 1, b)[i] = s[a + i]
         /\ Ring!Sums(s)[a] \in Nat /\ Ring!Sums(s)[b] \in Nat
         /\ Ring!Bytes(SubSeq(s, a + 1, b)) \in Nat
         /\ Ring!Sums(s)[b] = Ring!Sums(s)[a] + Ring!Bytes(SubSeq(s, a + 1, b))
<1>1. PICK t : t = SubSeq(s, a + 1, b)
  OBVIOUS
<1>2. t \in Seq(RingFrames) /\ Len(t) = b - a /\ \A i \in 1..(b - a) : t[i] = s[a + i]
  BY <1>1, PartIs
<1>3. PICK m \in Nat : m = b - a /\ a + m = b
  OBVIOUS
<1>4. Ring!Sums(s)[b] = Ring!Sums(s)[a] + Ring!Sums(t)[m]
  <2>1. a + m <= Len(s) /\ m <= Len(t) /\ \A i \in 1..m : t[i].length = s[a + i].length
    BY <1>2, <1>3
  <2>2. Ring!Sums(s)[a + m] = Ring!Sums(s)[a] + Ring!Sums(t)[m]
    BY <1>2, <2>1, SumsMove
  <2> QED
    BY <1>3, <2>2
<1>5. Ring!Sums(s) \in [0..Len(s) -> Nat] /\ Ring!Sums(t) \in [0..Len(t) -> Nat]
  BY <1>2, SumsAre DEF SumsTo
<1> QED
  BY <1>1, <1>2, <1>3, <1>4, <1>5 DEF Ring!Bytes

\* What an observer is past is a prefix, and Seen finds it.
LEMMA SeenIs ==
  ASSUME NEW s \in Seq(RingFrames), NEW o, NEW k \in 0..Len(s),
         \A i \in 1..Len(s) : (o.next <= s[i].ordinal) <=> i > k
  PROVE  Ring!Seen(o, s) = k
<1>1. Len(s) \in Nat
  OBVIOUS
<1>2. \A i \in 1..Len(s) : Ring!Behind(o, s[i]) <=> i > k
  BY DEF Ring!Behind
<1>3. ASSUME NEW n \in 0..Len(s), \A i \in 1..Len(s) : Ring!Behind(o, s[i]) <=> i > n
      PROVE  n = k
  <2>1. \A i \in 1..Len(s) : i > n <=> i > k
    BY <1>2, <1>3
  <2>2. n < k => k \in 1..Len(s)
    BY <1>1
  <2>3. k < n => n \in 1..Len(s)
    BY <1>1
  <2> QED
    BY <1>1, <2>1, <2>2, <2>3
<1> QED
  BY <1>2, <1>3 DEF Ring!Seen

RingReaders ==
  [open : BOOLEAN, next : Nat, lost : Nat, session : Sessions \union {NoSession},
   owed : Nat, got : Nat]

RingTyped ==
  /\ records \in Seq(RingFrames) /\ nextOrdinal \in Nat \ {0}
  /\ session \in Sessions \union {NoSession}
  /\ observers \in [Observers -> RingReaders]

\* The frames retained are the last ones ingested, without a gap.
InOrder(s, after) == \A i \in 1..Len(s) : s[i].ordinal + Len(s) + 1 = after + i

\* An observer is past the first p of the frames s, and its bytes add up.
Accounted(o, s, after) ==
  \E p \in 0..Len(s) :
    /\ o.next + Len(s) = after + p
    /\ o.owed + Ring!Sums(s)[p] = o.got + o.lost + Ring!Bytes(s)

RingInv ==
  /\ RingTyped /\ InOrder(records, nextOrdinal)
  /\ \A x \in Observers : observers[x].open => Accounted(observers[x], records, nextOrdinal)

LEMMA PastIs ==
  ASSUME NEW s \in Seq(RingFrames), NEW after \in Nat, InOrder(s, after), NEW o,
         o.next \in Nat, NEW p \in 0..Len(s), o.next + Len(s) = after + p
  PROVE  Ring!Seen(o, s) = p
<1>1. Len(s) \in Nat
  OBVIOUS
<1>2. ASSUME NEW i \in 1..Len(s) PROVE (o.next <= s[i].ordinal) <=> i > p
  <2>1. s[i].ordinal \in Nat
    <3>1. s[i] \in RingFrames
      OBVIOUS
    <3> QED
      BY <3>1 DEF RingFrames
  <2>2. s[i].ordinal + Len(s) + 1 = after + i
    BY DEF InOrder
  <2> QED
    BY <1>1, <2>1, <2>2
<1> QED
  BY <1>2, SeenIs

LEMMA ClosedIs == Ring!Closed \in RingReaders /\ Ring!Closed.open = FALSE
  BY DEF Ring!Closed, RingReaders

\* Begin, End and Close leave no frame and no observer.
LEMMA ClearStep ==
  ASSUME RingInv, NEW s \in Sessions \union {NoSession}, Ring!ClearSession(s),
         nextOrdinal' = nextOrdinal
  PROVE  RingInv'
<1>1. /\ records' = <<>> /\ session' = s /\ observers' = [x \in Observers |-> Ring!Closed]
      /\ nextOrdinal \in Nat \ {0}
  BY DEF Ring!ClearSession, RingInv, RingTyped
<1>2. RingTyped'
  BY <1>1, ClosedIs DEF RingTyped
<1>3. InOrder(records, nextOrdinal)'
  BY <1>1 DEF InOrder
<1>4. \A x \in Observers : ~observers'[x].open
  BY <1>1, ClosedIs
<1> QED
  BY <1>2, <1>3, <1>4 DEF RingInv

LEMMA RingTypes ==
  ASSUME RingInv
  PROVE  /\ records \in Seq(RingFrames) /\ nextOrdinal \in Nat \ {0} /\ Len(records) \in Nat
         /\ session \in Sessions \union {NoSession}
         /\ observers \in [Observers -> RingReaders] /\ InOrder(records, nextOrdinal)
         /\ Ring!Sums(records) \in [0..Len(records) -> Nat] /\ Ring!Sums(records)[0] = 0
         /\ Ring!Bytes(records) \in Nat
<1>1. records \in Seq(RingFrames) /\ Len(records) \in Nat
  BY DEF RingInv, RingTyped
<1> QED
  BY <1>1, SumsAre DEF RingInv, RingTyped, SumsTo, Ring!Bytes

LEMMA OpenStep ==
  ASSUME RingInv, NEW x \in Observers, Ring!OpenObserver(x) PROVE RingInv'
<1>1. /\ UNCHANGED <<session, records, nextOrdinal>>
      /\ observers' = [observers EXCEPT ![x] =
           [open |-> TRUE, lost |-> 0, session |-> session,
            next |-> IF records = <<>> THEN nextOrdinal ELSE records[1].ordinal,
            owed |-> Ring!Bytes(records), got |-> 0]]
  BY DEF Ring!OpenObserver
<1>2. PICK n : n = IF records = <<>> THEN nextOrdinal ELSE records[1].ordinal
  OBVIOUS
<1>3. n \in Nat /\ n + Len(records) = nextOrdinal
  <2>1. CASE records = <<>>
    BY <1>2, <2>1, RingTypes
  <2>2. CASE records # <<>>
    <3>1. 1 \in 1..Len(records)
      BY <2>2, RingTypes
    <3>2. records[1] \in RingFrames /\ records[1].ordinal + Len(records) + 1 = nextOrdinal + 1
      BY <3>1, RingTypes DEF InOrder
    <3>3. records[1].ordinal \in Nat
      BY <3>2 DEF RingFrames
    <3> QED
      BY <1>2, <2>2, <3>2, <3>3, RingTypes
  <2> QED
    BY <2>1, <2>2
<1>4. PICK o : o = [open |-> TRUE, lost |-> 0, session |-> session, next |-> n,
                    owed |-> Ring!Bytes(records), got |-> 0]
  OBVIOUS
<1>5. o \in RingReaders
  BY <1>3, <1>4, RingTypes DEF RingReaders
<1>6. o.next = n /\ o.owed = Ring!Bytes(records) /\ o.got = 0 /\ o.lost = 0
  BY <1>4
<1>7. Accounted(o, records, nextOrdinal)
  <2>1. 0 \in 0..Len(records)
    BY RingTypes
  <2> QED
    BY <1>3, <1>6, <2>1, RingTypes DEF Accounted
<1>8. observers' = [observers EXCEPT ![x] = o]
  BY <1>1, <1>2, <1>4
<1>9. RingTyped'
  BY <1>1, <1>5, <1>8, RingTypes DEF RingTyped
<1>10. \A y \in Observers : observers'[y].open => Accounted(observers'[y], records, nextOrdinal)
  BY <1>7, <1>8, RingTypes DEF RingInv
<1> QED
  BY <1>1, <1>9, <1>10 DEF RingInv

LEMMA CloseObserverStep ==
  ASSUME RingInv, NEW x \in Observers, Ring!CloseObserver(x) PROVE RingInv'
<1>1. /\ UNCHANGED <<session, records, nextOrdinal>>
      /\ observers' = [observers EXCEPT ![x] = Ring!Closed]
  BY DEF Ring!CloseObserver
<1>2. RingTyped'
  BY <1>1, ClosedIs, RingTypes DEF RingTyped
<1>3. \A y \in Observers : observers'[y].open => Accounted(observers'[y], records, nextOrdinal)
  BY <1>1, ClosedIs, RingTypes DEF RingInv
<1> QED
  BY <1>1, <1>2, <1>3 DEF RingInv

\* What an observer reads is what it was behind by.
LEMMA ReadStep ==
  ASSUME RingInv, NEW x \in Observers, NEW b, NEW f, Ring!ReadObserver(x, b, f) PROVE RingInv'
<1>0. records \in Seq(RingFrames) /\ Len(records) \in Nat /\ nextOrdinal \in Nat
  BY RingTypes
<1>1. PICK o : o = observers[x]
  OBVIOUS
<1>2. o \in RingReaders /\ Accounted(o, records, nextOrdinal)
  BY <1>1, RingTypes DEF Ring!ReadObserver, RingInv
<1>3. PICK p \in 0..Len(records) :
        /\ o.next + Len(records) = nextOrdinal + p
        /\ o.owed + Ring!Sums(records)[p] = o.got + o.lost + Ring!Bytes(records)
  BY <1>2 DEF Accounted
<1>4. o.next \in Nat /\ o.owed \in Nat /\ o.got \in Nat /\ o.lost \in Nat /\ p \in Nat
  BY <1>2, RingTypes DEF RingReaders
<1>5. Ring!Unread(o) = SubSeq(records, p + 1, Len(records))
  BY <1>3, <1>4, PastIs, RingTypes DEF Ring!Unread
<1>6. PICK u : u = Ring!Unread(o)
  OBVIOUS
<1>7. /\ u \in Seq(RingFrames) /\ Len(u) = Len(records) - p
      /\ \A i \in 1..(Len(records) - p) : u[i] = records[p + i]
  <2>1. p <= Len(records) /\ Len(records) <= Len(records) /\ u = SubSeq(records, p + 1, Len(records))
    BY <1>0, <1>5, <1>6
  <2> QED
    BY <1>0, <1>4, <2>1, PartIs
<1>8. PICK n \in 1..Len(u) :
        /\ UNCHANGED <<session, records, nextOrdinal>>
        /\ observers' = [observers EXCEPT ![x].next = u[n].ordinal + 1,
                                          ![x].got = @ + Ring!Bytes(SubSeq(u, 1, n))]
  <2> DEFINE counts == {i \in 1..Len(u) : i <= f /\ Ring!Bytes(SubSeq(u, 1, i)) <= b}
  <2>1. /\ counts # {}
        /\ LET m == CHOOSE i \in counts : \A k \in counts : k <= i
           IN  observers' = [observers EXCEPT ![x].next = u[m].ordinal + 1,
                                              ![x].got = @ + Ring!Bytes(SubSeq(u, 1, m))]
    BY <1>1, <1>6 DEF Ring!ReadObserver
  <2>2. \E i \in counts : \A k \in counts : k <= i
    <3> DEFINE T == {j \in 0..Len(u) : Len(u) - j \in counts}
    <3>1. Len(u) \in Nat
      BY <1>7
    <3>2. PICK k \in counts : TRUE
      BY <2>1
    <3>3. Len(u) - k \in 0..Len(u) /\ Len(u) - (Len(u) - k) = k
      <4>1. k \in 1..Len(u)
        OBVIOUS
      <4> HIDE DEF counts
      <4> QED
        BY <3>1, <4>1
    <3>4. T \in SUBSET Nat
      BY <3>1
    <3>4a. Len(u) - k \in T
      BY <3>2, <3>3
    <3>5. PICK j \in T : \A i \in T : j <= i
      BY <3>4, <3>4a, LeastNumber
    <3>6. ASSUME NEW i \in counts PROVE i <= Len(u) - j
      <4>1. i \in 1..Len(u) /\ Len(u) - i \in 0..Len(u) /\ Len(u) - (Len(u) - i) = i
        BY <3>1
      <4>2. Len(u) - i \in T
        BY <4>1
      <4>3. j <= Len(u) - i /\ j \in 0..Len(u)
        BY <3>5, <4>2
      <4> QED
        BY <3>1, <4>1, <4>3
    <3> QED
      BY <3>5, <3>6
  <2>3. PICK n : n = CHOOSE i \in counts : \A k \in counts : k <= i
    OBVIOUS
  <2>4. n \in counts
    BY <2>2, <2>3
  <2>5. n \in 1..Len(u)
    BY <2>4
  <2>6. observers' = [observers EXCEPT ![x].next = u[n].ordinal + 1,
                                       ![x].got = @ + Ring!Bytes(SubSeq(u, 1, n))]
    BY <2>1, <2>3, Zenon
  <2>7. UNCHANGED <<session, records, nextOrdinal>>
    BY DEF Ring!ReadObserver
  <2> QED
    BY <2>5, <2>6, <2>7
<1>9. n \in Nat /\ n > 0 /\ n <= Len(records) - p /\ p + n \in 1..Len(records)
  BY <1>4, <1>7, RingTypes
<1>10. PICK q \in 0..Len(records) : q = p + n
  BY <1>9
<1>11. u[n] = records[q] /\ records[q] \in RingFrames /\ q \in 1..Len(records)
  BY <1>7, <1>9, <1>10, RingTypes
<1>12. PICK d : d = u[n].ordinal + 1
  OBVIOUS
<1>13. d \in Nat /\ d + Len(records) = nextOrdinal + q
  <2>1. records[q].ordinal \in Nat /\ records[q].ordinal + Len(records) + 1 = nextOrdinal + q
    BY <1>11, RingTypes DEF InOrder, RingFrames
  <2>2. d = records[q].ordinal + 1
    BY <1>11, <1>12
  <2>3. PICK i \in Nat, l \in Nat : i = records[q].ordinal /\ l = Len(records)
    BY <1>0, <2>1
  <2>4. i + l + 1 = nextOrdinal + q /\ d = i + 1 /\ q \in Nat /\ nextOrdinal \in Nat
    BY <1>0, <1>11, <2>1, <2>2, <2>3
  <2>5. d \in Nat /\ d + l = nextOrdinal + q
    BY <2>4
  <2> QED
    BY <2>3, <2>5
<1>14. PICK g : g = Ring!Bytes(SubSeq(u, 1, n))
  OBVIOUS
<1>15. g \in Nat /\ Ring!Sums(records)[q] = Ring!Sums(records)[p] + g
  <2>1. /\ SubSeq(u, 1, n) \in Seq(RingFrames) /\ Len(SubSeq(u, 1, n)) = n
        /\ \A i \in 1..n : SubSeq(u, 1, n)[i] = u[i]
    BY <1>7, <1>9
  <2>2. PICK t \in Seq(RingFrames) :
          t = SubSeq(u, 1, n) /\ Len(t) = n /\ \A i \in 1..n : t[i] = u[i]
    BY <2>1
  <2>3. p + n <= Len(records) /\ n <= Len(t) /\ \A i \in 1..n : t[i].length = records[p + i].length
    <3>1. p + n <= Len(records) /\ n <= Len(t)
      BY <1>0, <1>4, <1>9, <2>2
    <3>2. ASSUME NEW i \in 1..n PROVE t[i].length = records[p + i].length
      <4>1. i \in 1..(Len(records) - p)
        BY <1>0, <1>4, <1>9
      <4> QED
        BY <1>7, <2>2, <4>1
    <3> QED
      BY <3>1, <3>2
  <2>4. Ring!Sums(records)[p + n] = Ring!Sums(records)[p] + Ring!Sums(t)[n]
    <3>1. records \in Seq(RingFrames) /\ t \in Seq(RingFrames) /\ p \in Nat /\ n \in Nat
      BY <1>0, <1>4, <1>9
    <3> HIDE DEF Ring!Sums
    <3> QED
      BY <2>3, <3>1, SumsMove
  <2>5. Ring!Sums(t)[n] = g /\ Ring!Sums(t) \in [0..n -> Nat]
    BY <1>14, <2>2, SumsAre DEF Ring!Bytes, SumsTo
  <2> QED
    BY <1>9, <1>10, <2>4, <2>5
<1>16. PICK h \in Nat : h = o.got + g
  BY <1>4, <1>15
<1>16a. PICK r : r = [o EXCEPT !.next = d, !.got = h]
  OBVIOUS
<1>17. r \in RingReaders /\ r.next = d /\ r.got = h /\ r.owed = o.owed /\ r.lost = o.lost
  BY <1>2, <1>13, <1>16, <1>16a DEF RingReaders
<1>18. Accounted(r, records, nextOrdinal)
  <2>1. Ring!Sums(records)[p] \in Nat /\ Ring!Sums(records)[q] \in Nat /\ Ring!Bytes(records) \in Nat
    BY RingTypes
  <2>2. r.owed + Ring!Sums(records)[q] = r.got + r.lost + Ring!Bytes(records)
    <3>1. PICK P \in Nat, Q \in Nat, B \in Nat :
            /\ P = Ring!Sums(records)[p] /\ Q = Ring!Sums(records)[q] /\ B = Ring!Bytes(records)
      BY <2>1
    <3>2. o.owed + P = o.got + o.lost + B /\ Q = P + g /\ h = o.got + g
      BY <1>3, <1>15, <1>16, <3>1
    <3>3. o.owed + Q = h + o.lost + B
      <4>1. PICK w \in Nat, v \in Nat, l \in Nat : w = o.owed /\ v = o.got /\ l = o.lost
        BY <1>4
      <4>2. w + P = v + l + B /\ Q = P + g /\ h = v + g /\ g \in Nat
        BY <1>15, <3>2, <4>1
      <4>3. w + Q = h + l + B
        BY <4>2
      <4> QED
        BY <4>1, <4>3
    <3>4. r.owed = o.owed /\ r.got = h /\ r.lost = o.lost
      BY <1>17
    <3> QED
      BY <3>1, <3>3, <3>4
  <2> QED
    BY <1>13, <1>17, <2>2 DEF Accounted
<1>19. observers' = [observers EXCEPT ![x] = r]
  BY <1>1, <1>8, <1>12, <1>14, <1>16, <1>16a, RingTypes
<1>20. RingTyped'
  BY <1>8, <1>17, <1>19, RingTypes DEF RingTyped
<1>21. \A y \in Observers : observers'[y].open => Accounted(observers'[y], records, nextOrdinal)
  BY <1>18, <1>19, RingTypes DEF RingInv
<1> QED
  BY <1>8, <1>20, <1>21 DEF RingInv

\* The ring after an Ingest that evicts n frames: the rest, then the new one.
Pushed(s, n, frame) == Append(SubSeq(s, n + 1, Len(s)), frame)

LEMMA PushedIs ==
  ASSUME NEW s \in Seq(RingFrames), NEW n \in 0..Len(s), NEW frame \in RingFrames
  PROVE  /\ Len(s) - n \in Nat
         /\ Pushed(s, n, frame) \in Seq(RingFrames)
         /\ Len(Pushed(s, n, frame)) = Len(s) - n + 1
         /\ \A i \in 1..(Len(s) - n) : Pushed(s, n, frame)[i] = s[n + i]
         /\ Pushed(s, n, frame)[Len(s) - n + 1] = frame
<1>1. n \in Nat /\ Len(s) \in Nat /\ n <= Len(s) /\ Len(s) <= Len(s)
  OBVIOUS
<1>2. PICK k : k = SubSeq(s, n + 1, Len(s))
  OBVIOUS
<1>3. /\ k \in Seq(RingFrames) /\ Len(k) = Len(s) - n
      /\ \A i \in 1..(Len(s) - n) : k[i] = s[n + i]
  BY <1>1, <1>2, BytesOfPart
<1>4. Pushed(s, n, frame) = Append(k, frame)
  BY <1>2 DEF Pushed
<1> QED
  BY <1>1, <1>3, <1>4

LEMMA PushedInOrder ==
  ASSUME NEW s \in Seq(RingFrames), NEW n \in 0..Len(s), NEW frame \in RingFrames,
         NEW after \in Nat, InOrder(s, after), frame.ordinal = after
  PROVE  InOrder(Pushed(s, n, frame), after + 1)
<1>1. PICK t : t = Pushed(s, n, frame)
  OBVIOUS
<1>2. /\ Len(s) - n \in Nat /\ Len(t) = Len(s) - n + 1
      /\ \A i \in 1..(Len(s) - n) : t[i] = s[n + i]
      /\ t[Len(s) - n + 1] = frame
  BY <1>1, PushedIs
<1>3. n \in Nat /\ Len(s) \in Nat /\ n <= Len(s)
  OBVIOUS
<1>4. ASSUME NEW i \in 1..Len(t) PROVE t[i].ordinal + Len(t) + 1 = (after + 1) + i
  <2>1. CASE i = Len(s) - n + 1
    BY <1>2, <1>3, <2>1
  <2>2. CASE i # Len(s) - n + 1
    <3>1. i \in 1..(Len(s) - n) /\ n + i \in 1..Len(s)
      BY <1>2, <1>3, <2>2
    <3>2. t[i].ordinal = s[n + i].ordinal /\ s[n + i].ordinal + Len(s) + 1 = after + (n + i)
      BY <1>2, <3>1 DEF InOrder
    <3>3. s[n + i].ordinal \in Nat
      <4>1. s[n + i] \in RingFrames
        BY <3>1
      <4> QED
        BY <4>1 DEF RingFrames
    <3>4. PICK w \in Nat, l \in Nat : w = s[n + i].ordinal /\ l = Len(s)
      BY <1>3, <3>3
    <3>5. t[i].ordinal = w /\ w + l + 1 = after + (n + i) /\ Len(t) = l - n + 1 /\ i \in Nat
      BY <1>2, <3>2, <3>1, <3>4
    <3> QED
      BY <1>3, <3>5
  <2> QED
    BY <2>1, <2>2
<1> QED
  BY <1>1, <1>4 DEF InOrder

\* The sums of the frames that stay are the old ones less what was evicted.
LEMMA PushedSums ==
  ASSUME NEW s \in Seq(RingFrames), NEW n \in 0..Len(s), NEW frame \in RingFrames
  PROVE  /\ \A m \in 0..(Len(s) - n) :
              Ring!Sums(s)[n + m] = Ring!Sums(s)[n] + Ring!Sums(Pushed(s, n, frame))[m]
         /\ Ring!Bytes(s) + frame.length = Ring!Sums(s)[n] + Ring!Bytes(Pushed(s, n, frame))
         /\ Ring!Bytes(Pushed(s, n, frame)) \in Nat
         /\ Ring!Sums(Pushed(s, n, frame)) \in [0..(Len(s) - n + 1) -> Nat]
         /\ Ring!Sums(Pushed(s, n, frame))[0] = 0
<1>1. PICK t : t = Pushed(s, n, frame)
  OBVIOUS
<1>2. /\ Len(s) - n \in Nat /\ t \in Seq(RingFrames) /\ Len(t) = Len(s) - n + 1
      /\ \A i \in 1..(Len(s) - n) : t[i] = s[n + i]
      /\ t[Len(s) - n + 1] = frame
  BY <1>1, PushedIs
<1>3. n \in Nat /\ Len(s) \in Nat /\ n <= Len(s)
  OBVIOUS
<1>4. ASSUME NEW m \in 0..(Len(s) - n)
      PROVE  Ring!Sums(s)[n + m] = Ring!Sums(s)[n] + Ring!Sums(t)[m]
  <2>1. m \in Nat /\ n + m <= Len(s) /\ m <= Len(t)
    BY <1>2, <1>3
  <2>2. \A i \in 1..m : t[i].length = s[n + i].length
    BY <1>2, <1>3
  <2> QED
    BY <1>2, <1>3, <2>1, <2>2, SumsMove
<1>5. PICK f, g : f = Ring!Sums(s) /\ g = Ring!Sums(t)
  OBVIOUS
<1>6. SumsTo(f, s, Len(s)) /\ SumsTo(g, t, Len(t))
  BY <1>2, <1>5, SumsAre
<1>7. PICK d \in Nat : d = Len(s) - n
  BY <1>2
<1>8. /\ d + 1 = Len(t) /\ n + d = Len(s) /\ d \in 0..d /\ d + 1 \in 1..Len(t) /\ (d + 1) - 1 = d
      /\ d \in 0..Len(t) /\ t[d + 1] = frame
  BY <1>2, <1>3, <1>7
<1>9. f[n + d] = f[n] + g[d]
  BY <1>4, <1>5, <1>7, <1>8
<1>10. g[d + 1] = g[d] + frame.length
  BY <1>6, <1>8 DEF SumsTo
<1>11. f[n] \in Nat /\ g[d] \in Nat /\ g[d + 1] \in Nat /\ frame.length \in Nat
  <2>1. f \in [0..Len(s) -> Nat] /\ g \in [0..Len(t) -> Nat] /\ n \in 0..Len(s)
    BY <1>6 DEF SumsTo
  <2>2. d \in 0..Len(t) /\ d + 1 \in 0..Len(t)
    BY <1>8
  <2>3. frame.length \in Nat
    BY DEF RingFrames
  <2> QED
    BY <2>1, <2>2, <2>3
<1>12. f[Len(s)] + frame.length = f[n] + g[Len(t)]
  <2>1. PICK a \in Nat, b \in Nat, c \in Nat : a = f[n] /\ b = g[d] /\ c = frame.length
    BY <1>11
  <2>2. f[Len(s)] = a + b
    <3>1. f[n + d] = a + b
      BY <1>9, <2>1
    <3> QED
      BY <1>8, <3>1
  <2>3. g[Len(t)] = b + c
    <3>1. g[d + 1] = b + c
      BY <1>10, <2>1
    <3> QED
      BY <1>8, <3>1
  <2>4. (a + b) + c = a + (b + c)
    OBVIOUS
  <2> QED
    BY <2>1, <2>2, <2>3, <2>4, Zenon
<1>13. Ring!Bytes(s) = f[Len(s)] /\ Ring!Bytes(t) = g[Len(t)]
  BY <1>5 DEF Ring!Bytes
<1>14. g \in [0..(Len(s) - n + 1) -> Nat] /\ g[0] = 0
  BY <1>2, <1>6 DEF SumsTo
<1> QED
  BY <1>1, <1>4, <1>5, <1>8, <1>11, <1>12, <1>13, <1>14

\* The evicted frames, and how an observer past p of the ring stands to them.
LEMMA GoneIs ==
  ASSUME NEW s \in Seq(RingFrames), NEW after \in Nat, InOrder(s, after),
         NEW o \in RingReaders, NEW p \in 0..Len(s), o.next + Len(s) = after + p,
         NEW n \in 0..Len(s),
         NEW g, g = SubSeq(s, 1, n)
  PROVE  /\ g \in Seq(RingFrames) /\ Len(g) = n /\ \A i \in 1..n : g[i] = s[i]
         /\ \A i \in 1..n : (o.next <= g[i].ordinal) <=> i > p
<1>1. n \in Nat /\ p \in Nat /\ Len(s) \in Nat /\ n <= Len(s) /\ p <= Len(s) /\ o.next \in Nat
  BY DEF RingReaders
<1>3. g \in Seq(RingFrames) /\ Len(g) = n /\ \A i \in 1..n : g[i] = s[i]
  BY <1>1
<1>4. ASSUME NEW i \in 1..n PROVE (o.next <= g[i].ordinal) <=> i > p
  <2>1. i \in 1..Len(s) /\ s[i] \in RingFrames /\ g[i] = s[i]
    BY <1>1, <1>3
  <2>2. s[i].ordinal \in Nat
    BY <2>1 DEF RingFrames
  <2>3. s[i].ordinal + Len(s) + 1 = after + i
    BY <2>1 DEF InOrder
  <2>4. PICK k \in Nat, x \in Nat, l \in Nat : k = s[i].ordinal /\ x = o.next /\ l = Len(s)
    BY <1>1, <2>2
  <2>5. x + l = after + p /\ k + l + 1 = after + i /\ i \in Nat /\ p \in Nat
    BY <1>1, <2>3, <2>4
  <2>6. x <= k <=> i > p
    BY <2>5
  <2> QED
    BY <2>1, <2>4, <2>6
<1> QED
  BY <1>3, <1>4

\* An observer past all of them is left alone.
LEMMA AheadIs ==
  ASSUME NEW s \in Seq(RingFrames), NEW after \in Nat, InOrder(s, after),
         NEW o \in RingReaders, NEW p \in 0..Len(s), o.next + Len(s) = after + p,
         NEW n \in 0..Len(s),
         p >= n
  PROVE  Ring!Overtaken(o, SubSeq(s, 1, n)) = o
<1>1. n \in Nat /\ p \in Nat
  OBVIOUS
<1>2. PICK g : g = SubSeq(s, 1, n)
  OBVIOUS
<1>3. /\ g \in Seq(RingFrames) /\ Len(g) = n /\ \A i \in 1..n : g[i] = s[i]
      /\ \A i \in 1..n : (o.next <= g[i].ordinal) <=> i > p
  BY <1>2, GoneIs
<1>4. \A i \in 1..Len(g) : (o.next <= g[i].ordinal) <=> i > n
  BY <1>1, <1>3
<1>5. Ring!Seen(o, g) = n
  <2>1. n \in 0..Len(g)
    BY <1>1, <1>3
  <2> QED
    BY <1>3, <1>4, <2>1, SeenIs
<1> QED
  BY <1>2, <1>3, <1>5 DEF Ring!Overtaken

\* r is observer o after it was moved past the first n frames of s and told of
\* l bytes lost, those of the frames after the p it had read.
MovedPast(r, o, s, p, n, l) ==
  /\ Ring!Sums(s)[n] = Ring!Sums(s)[p] + l
  /\ Ring!Overtaken(o, SubSeq(s, 1, n)) = r
  /\ r.next = s[n].ordinal + 1 /\ r.lost = o.lost + l
  /\ r.owed = o.owed /\ r.got = o.got

\* One that was behind moves past them and pays for what it had not read.
LEMMA PassedIs ==
  ASSUME NEW s \in Seq(RingFrames), NEW after \in Nat, InOrder(s, after),
         NEW o \in RingReaders, NEW p \in 0..Len(s), o.next + Len(s) = after + p,
         NEW n \in 0..Len(s),
         p < n
  PROVE  \E l \in Nat, r \in RingReaders : MovedPast(r, o, s, p, n, l)
<1>1. n \in Nat /\ p \in Nat /\ Len(s) \in Nat /\ n <= Len(s) /\ p <= Len(s) /\ o.next \in Nat
  BY DEF RingReaders
<1>2. PICK g : g = SubSeq(s, 1, n)
  OBVIOUS
<1>3. /\ g \in Seq(RingFrames) /\ Len(g) = n /\ \A i \in 1..n : g[i] = s[i]
      /\ \A i \in 1..n : (o.next <= g[i].ordinal) <=> i > p
  BY <1>2, GoneIs
<1>4. Ring!Seen(o, g) = p
  <2>1. p \in 0..Len(g) /\ \A i \in 1..Len(g) : (o.next <= g[i].ordinal) <=> i > p
    BY <1>1, <1>3
  <2> QED
    BY <1>3, <2>1, SeenIs
<1>5. n # p /\ n \in 1..n
  BY <1>1
<1>6. g[n] = s[n]
  BY <1>3, <1>5
<1>7. Ring!Overtaken(o, g) =
        [o EXCEPT !.next = s[n].ordinal + 1, !.lost = @ + Ring!Bytes(SubSeq(g, p + 1, n))]
  BY <1>3, <1>4, <1>5, <1>6 DEF Ring!Overtaken
<1>8. PICK t : t = SubSeq(g, p + 1, n)
  OBVIOUS
<1>9. t \in Seq(RingFrames) /\ Len(t) = n - p /\ \A i \in 1..(n - p) : t[i] = g[p + i]
  <2>1. p <= n /\ n <= Len(g)
    BY <1>1, <1>3
  <2>2. g \in Seq(RingFrames) /\ p \in Nat /\ n \in Nat
    BY <1>1, <1>3
  <2> QED
    BY <1>8, <2>1, <2>2, PartIs
<1>10. PICK m \in Nat : m = n - p /\ p + m = n
  BY <1>1
<1>11. p + m <= Len(s) /\ m <= Len(t) /\ \A i \in 1..m : t[i].length = s[p + i].length
  <2>1. ASSUME NEW i \in 1..m PROVE t[i].length = s[p + i].length
    <3>1. i \in 1..(n - p) /\ p + i \in 1..n
      BY <1>1, <1>10
    <3> QED
      BY <1>3, <1>9, <3>1
  <2> QED
    BY <1>1, <1>9, <1>10, <2>1
<1>12. Ring!Sums(s)[p + m] = Ring!Sums(s)[p] + Ring!Sums(t)[m]
  <2>1. t \in Seq(RingFrames) /\ p \in Nat
    BY <1>1, <1>9
  <2> QED
    BY <1>11, <2>1, SumsMove
<1>13. Ring!Bytes(t) = Ring!Sums(t)[m] /\ Ring!Bytes(t) \in Nat
  <2>1. SumsTo(Ring!Sums(t), t, Len(t)) /\ Len(t) = m
    BY <1>9, <1>10, SumsAre
  <2> QED
    BY <2>1 DEF Ring!Bytes, SumsTo
<1>14. PICK l \in Nat : l = Ring!Bytes(t)
  BY <1>13
<1>15. Ring!Sums(s)[n] = Ring!Sums(s)[p] + l
  BY <1>10, <1>12, <1>13, <1>14
<1>16. Ring!Overtaken(o, g) = [o EXCEPT !.next = s[n].ordinal + 1, !.lost = @ + l]
  BY <1>7, <1>8, <1>14, Zenon
<1>17. s[n].ordinal + 1 \in Nat /\ o.lost + l \in Nat
  <2>1. s[n] \in RingFrames
    BY <1>1, <1>5
  <2>2. s[n].ordinal \in Nat /\ o.lost \in Nat
    BY <2>1 DEF RingFrames, RingReaders
  <2> QED
    BY <2>2
<1>18. PICK y \in Nat, z \in Nat : y = s[n].ordinal + 1 /\ z = o.lost + l
  BY <1>17
<1>19. PICK r : r = [o EXCEPT !.next = y, !.lost = z]
  OBVIOUS
<1>20. r \in RingReaders /\ r.next = y /\ r.lost = z /\ r.owed = o.owed /\ r.got = o.got
  BY <1>19 DEF RingReaders
<1>21. Ring!Overtaken(o, g) = r
  BY <1>16, <1>18, <1>19
<1>22. MovedPast(r, o, s, p, n, l)
  BY <1>2, <1>15, <1>18, <1>20, <1>21, Zenon DEF MovedPast
<1> QED
  BY <1>20, <1>22

\* A frame that comes in keeps an observer accounted for.
LEMMA PushedAccounts ==
  ASSUME NEW s \in Seq(RingFrames), NEW after \in Nat, InOrder(s, after),
         NEW o \in RingReaders, Accounted(o, s, after), NEW n \in 0..Len(s),
         NEW frame \in RingFrames, frame.ordinal = after
  PROVE  \E r \in RingReaders :
           /\ r = [Ring!Overtaken(o, SubSeq(s, 1, n)) EXCEPT !.owed = @ + frame.length]
           /\ Accounted(r, Pushed(s, n, frame), after + 1)
<1>1. PICK p \in 0..Len(s) :
        /\ o.next + Len(s) = after + p
        /\ o.owed + Ring!Sums(s)[p] = o.got + o.lost + Ring!Bytes(s)
  BY DEF Accounted
<1>2. PICK t : t = Pushed(s, n, frame)
  OBVIOUS
<1>3. Len(s) - n \in Nat /\ Len(t) = Len(s) - n + 1
  BY <1>2, PushedIs
<1>4. n \in Nat /\ p \in Nat /\ Len(s) \in Nat /\ n <= Len(s) /\ p <= Len(s)
  OBVIOUS
<1>5. /\ \A m \in 0..(Len(s) - n) : Ring!Sums(s)[n + m] = Ring!Sums(s)[n] + Ring!Sums(t)[m]
      /\ Ring!Bytes(s) + frame.length = Ring!Sums(s)[n] + Ring!Bytes(t)
      /\ Ring!Bytes(t) \in Nat
      /\ Ring!Sums(t) \in [0..(Len(s) - n + 1) -> Nat] /\ Ring!Sums(t)[0] = 0
  BY <1>2, PushedSums
<1>6. Ring!Sums(s) \in [0..Len(s) -> Nat] /\ Ring!Bytes(s) \in Nat
  <2>1. Ring!Sums(s) \in [0..Len(s) -> Nat] /\ Len(s) \in 0..Len(s)
    BY <1>4, SumsAre DEF SumsTo
  <2> QED
    BY <2>1 DEF Ring!Bytes
<1>7. PICK B \in Nat, T \in Nat : B = Ring!Bytes(s) /\ T = Ring!Bytes(t)
  BY <1>5, <1>6
<1>8. PICK N \in Nat, P \in Nat : N = Ring!Sums(s)[n] /\ P = Ring!Sums(s)[p]
  BY <1>6
<1>9. PICK c \in Nat : c = frame.length
  BY DEF RingFrames
<1>10. PICK w \in Nat, v \in Nat, k \in Nat, x \in Nat :
         w = o.owed /\ v = o.got /\ k = o.lost /\ x = o.next
  BY DEF RingReaders
<1>11. PICK L \in Nat : L = Len(s)
  OBVIOUS
<1>12. x + L = after + p /\ w + P = v + k + B /\ B + c = N + T /\ Len(t) = L - n + 1
  BY <1>1, <1>3, <1>5, <1>7, <1>8, <1>9, <1>10, <1>11
<1>13. ASSUME p >= n
       PROVE  \E r \in RingReaders :
                /\ r = [Ring!Overtaken(o, SubSeq(s, 1, n)) EXCEPT !.owed = @ + frame.length]
                /\ Accounted(r, t, after + 1)
  <2>1. Ring!Overtaken(o, SubSeq(s, 1, n)) = o
    <3>1. o.next + Len(s) = after + p
      BY <1>1
    <3> QED
      BY <1>13, <3>1, AheadIs
  <2>2. PICK e \in Nat : e = w + c
    OBVIOUS
  <2>3. PICK r : r = [o EXCEPT !.owed = e]
    OBVIOUS
  <2>3a. r = [Ring!Overtaken(o, SubSeq(s, 1, n)) EXCEPT !.owed = @ + frame.length]
    BY <1>9, <1>10, <2>1, <2>2, <2>3
  <2>4. r \in RingReaders /\ r.next = x /\ r.owed = e /\ r.got = v /\ r.lost = k
    BY <1>10, <2>2, <2>3 DEF RingReaders
  <2>5. PICK m \in Nat : m = p - n /\ n + m = p
    BY <1>4, <1>13
  <2>6. m \in 0..(Len(s) - n) /\ m \in 0..Len(t) /\ m \in 0..(Len(s) - n + 1)
    BY <1>3, <1>4, <2>5
  <2>7. PICK M \in Nat : M = Ring!Sums(t)[m]
    BY <1>5, <2>6
  <2>8. P = N + M
    BY <1>5, <1>8, <2>5, <2>6, <2>7
  <2>9. e + M = v + k + T
    BY <1>12, <2>2, <2>8
  <2>10. x + Len(t) = (after + 1) + m
    <3>1. x + (L - n + 1) = (after + 1) + m
      BY <1>4, <1>12, <2>5
    <3> QED
      BY <1>12, <3>1, Zenon
  <2>11. r.next + Len(t) = (after + 1) + m /\ r.owed + Ring!Sums(t)[m] = r.got + r.lost + Ring!Bytes(t)
    BY <1>7, <2>4, <2>7, <2>9, <2>10, Zenon
  <2> QED
    <3>1. Accounted(r, t, after + 1)
      BY <2>6, <2>11 DEF Accounted
    <3> QED
      BY <2>3a, <2>4, <3>1, Zenon
<1>14. ASSUME p < n
       PROVE  \E r \in RingReaders :
                /\ r = [Ring!Overtaken(o, SubSeq(s, 1, n)) EXCEPT !.owed = @ + frame.length]
                /\ Accounted(r, t, after + 1)
  <2>0. PICK l \in Nat, q \in RingReaders : MovedPast(q, o, s, p, n, l)
    <3>1. o.next + Len(s) = after + p
      BY <1>1
    <3> QED
      BY <1>14, <3>1, PassedIs
  <2>1. /\ Ring!Sums(s)[n] = Ring!Sums(s)[p] + l
        /\ Ring!Overtaken(o, SubSeq(s, 1, n)) = q
        /\ q.next = s[n].ordinal + 1 /\ q.lost = o.lost + l
        /\ q.owed = o.owed /\ q.got = o.got
    BY <2>0 DEF MovedPast
  <2>2. n \in 1..Len(s)
    BY <1>4, <1>14
  <2>3. s[n] \in RingFrames /\ s[n].ordinal + Len(s) + 1 = after + n
    BY <2>2 DEF InOrder
  <2>4. s[n].ordinal \in Nat
    BY <2>3 DEF RingFrames
  <2>4a. PICK i \in Nat : i = s[n].ordinal /\ i + L + 1 = after + n
    BY <1>11, <2>3, <2>4
  <2>5. PICK y \in Nat, z \in Nat, e \in Nat : y = i + 1 /\ z = k + l /\ e = w + c
    OBVIOUS
  <2>8. q \in RingReaders /\ q.next = y /\ q.lost = z /\ q.owed = w /\ q.got = v
    BY <1>10, <2>1, <2>4a, <2>5
  <2>9. PICK r : r = [q EXCEPT !.owed = e]
    OBVIOUS
  <2>9a. r = [Ring!Overtaken(o, SubSeq(s, 1, n)) EXCEPT !.owed = @ + frame.length]
    BY <1>9, <2>1, <2>5, <2>8, <2>9
  <2>10. r \in RingReaders /\ r.next = y /\ r.owed = e /\ r.got = v /\ r.lost = z
    BY <2>5, <2>8, <2>9 DEF RingReaders
  <2>11. N = P + l
    BY <1>8, <2>1
  <2>12. e + 0 = v + z + T
    BY <1>12, <2>5, <2>11
  <2>13. y + Len(t) = (after + 1) + 0
    <3>1. y + (L - n + 1) = (after + 1) + 0
      <4>1. n \in Nat /\ y = i + 1 /\ i + L + 1 = after + n
        BY <2>4a, <2>5
      <4> QED
        BY <4>1
    <3> QED
      BY <1>12, <3>1, Zenon
  <2>14. 0 \in 0..Len(t)
    BY <1>3
  <2>15. r.next + Len(t) = (after + 1) + 0 /\ r.owed + Ring!Sums(t)[0] = r.got + r.lost + Ring!Bytes(t)
    BY <1>5, <1>7, <2>10, <2>12, <2>13, Zenon
  <2> QED
    <3>1. Accounted(r, t, after + 1)
      BY <2>14, <2>15 DEF Accounted
    <3> QED
      BY <2>9a, <2>10, <3>1, Zenon
<1>15. p >= n \/ p < n
  BY <1>4
<1> QED
  BY <1>2, <1>13, <1>14, <1>15, Zenon

\* Evicting every frame would make room, so there is a least number that does.
LEMMA EvictedIs ==
  ASSUME RingInv, NEW length \in Nat, length <= Capacity
  PROVE  Ring!Evicted(length) \in 0..Len(records)
<1> DEFINE L == Len(records)
           T == {k \in 0..L : Ring!Fits(SubSeq(records, k + 1, L), length)}
<1>1. records \in Seq(RingFrames) /\ L \in Nat
  BY RingTypes
<1>2. L \in T
  <2>1. SubSeq(records, L + 1, L) = <<>>
    BY <1>1
  <2>2. <<>> \in Seq(RingFrames) /\ Len(<<>>) = 0
    OBVIOUS
  <2>3. SumsTo(Ring!Sums(<<>>), <<>>, Len(<<>>))
    BY <2>2, SumsAre
  <2>4. Ring!Bytes(<<>>) = 0
    BY <2>2, <2>3 DEF Ring!Bytes, SumsTo
  <2>5. Ring!Fits(<<>>, length)
    BY <2>2, <2>4, RingAssumption DEF Ring!Fits
  <2> QED
    <3>1. L \in 0..L
      BY <1>1
    <3>2. Ring!Fits(SubSeq(records, L + 1, L), length)
      BY <2>1, <2>5
    <3> QED
      BY <3>1, <3>2
<1>3. T \in SUBSET Nat
  BY <1>1
<1>4. PICK m \in T : \A k \in T : m <= k
  BY <1>2, <1>3, LeastNumber
<1>5. m \in 0..L /\ Ring!Fits(SubSeq(records, m + 1, L), length)
  BY <1>4
<1>6. ASSUME NEW k \in 0..(m - 1) PROVE ~Ring!Fits(SubSeq(records, k + 1, L), length)
  <2>1. k \in 0..L /\ ~(m <= k)
    BY <1>1, <1>5
  <2> QED
    BY <1>4, <2>1
<1> QED
  BY <1>5, <1>6 DEF Ring!Evicted

LEMMA IngestStep ==
  ASSUME RingInv, NEW q \in 1..(Modulus - 1), NEW c \in Lengths, Ring!Ingest(q, c)
  PROVE  RingInv'
<1>0. q \in Nat /\ c \in Nat /\ c <= Capacity
  BY RingAssumption DEF Ring!Ingest
<1>1. PICK n : n = Ring!Evicted(c)
  OBVIOUS
<1>2. n \in 0..Len(records)
  BY <1>0, <1>1, EvictedIs
<1>3. PICK frame : frame = [ordinal |-> nextOrdinal, sequence |-> q, length |-> c]
  OBVIOUS
<1>4. frame \in RingFrames /\ frame.ordinal = nextOrdinal /\ frame.length = c
  BY <1>0, <1>3, RingTypes DEF RingFrames
<1>5. /\ records' = Pushed(records, n, frame)
      /\ observers' = [x \in Observers |->
           IF observers[x].open
           THEN [Ring!Overtaken(observers[x], SubSeq(records, 1, n)) EXCEPT !.owed = @ + c]
           ELSE Ring!Closed]
      /\ nextOrdinal' = nextOrdinal + 1 /\ session' = session
  BY <1>1, <1>3 DEF Ring!Ingest, Pushed
<1>6. records \in Seq(RingFrames) /\ nextOrdinal \in Nat /\ InOrder(records, nextOrdinal)
  BY RingTypes
<1>7. records' \in Seq(RingFrames)
  BY <1>2, <1>4, <1>5, <1>6, PushedIs
<1>8. InOrder(records', nextOrdinal + 1)
  BY <1>2, <1>4, <1>5, <1>6, PushedInOrder
<1>9. ASSUME NEW x \in Observers
      PROVE  /\ observers'[x] \in RingReaders
             /\ observers'[x].open => Accounted(observers'[x], records', nextOrdinal + 1)
  <2>1. PICK o : o = observers[x]
    OBVIOUS
  <2>2. o \in RingReaders /\ (o.open => Accounted(o, records, nextOrdinal))
    BY <2>1, RingTypes DEF RingInv
  <2>3. CASE o.open
    <3>1. PICK r \in RingReaders :
            /\ r = [Ring!Overtaken(o, SubSeq(records, 1, n)) EXCEPT !.owed = @ + frame.length]
            /\ Accounted(r, Pushed(records, n, frame), nextOrdinal + 1)
      BY <1>2, <1>4, <1>6, <2>2, <2>3, PushedAccounts
    <3>2. observers'[x] = r
      BY <1>4, <1>5, <2>1, <2>3, <3>1
    <3> QED
      BY <1>5, <3>1, <3>2
  <2>4. CASE ~o.open
    <3>1. observers'[x] = Ring!Closed
      BY <1>5, <2>1, <2>4
    <3> QED
      BY <3>1, ClosedIs
  <2> QED
    BY <2>3, <2>4
<1>10. RingTyped'
  <2>1. observers' \in [Observers -> RingReaders]
    <3>1. DOMAIN observers' = Observers /\ observers' = [x \in Observers |-> observers'[x]]
      BY <1>5
    <3> QED
      BY <1>9, <3>1
  <2> QED
    BY <1>5, <1>7, <2>1, RingTypes DEF RingTyped
<1>11. InOrder(records, nextOrdinal)'
  BY <1>5, <1>8 DEF InOrder
<1>12. \A x \in Observers : observers'[x].open => Accounted(observers'[x], records', nextOrdinal')
  BY <1>5, <1>9
<1> QED
  BY <1>10, <1>11, <1>12 DEF RingInv

LEMMA RingInit == ASSUME Ring!Init PROVE RingInv
<1>1. records = <<>> /\ session = NoSession /\ nextOrdinal = 1
      /\ observers = [x \in Observers |-> Ring!Closed]
  BY DEF Ring!Init
<1>2. RingTyped
  BY <1>1, ClosedIs DEF RingTyped
<1>3. InOrder(records, nextOrdinal)
  BY <1>1 DEF InOrder
<1>4. \A x \in Observers : ~observers[x].open
  BY <1>1, ClosedIs
<1> QED
  BY <1>2, <1>3, <1>4 DEF RingInv

LEMMA RingStep == ASSUME RingInv, Ring!Next PROVE RingInv'
<1>1. ASSUME NEW s \in Sessions, Ring!Begin(s) PROVE RingInv'
  BY <1>1, ClearStep DEF Ring!Begin
<1>2. CASE Ring!End
  BY <1>2, ClearStep DEF Ring!End
<1>3. CASE Ring!Close
  BY <1>3, ClearStep DEF Ring!Close
<1>4. ASSUME NEW q \in 1..(Modulus - 1), NEW c \in Lengths, Ring!Ingest(q, c) PROVE RingInv'
  BY <1>4, IngestStep
<1>5. ASSUME NEW x \in Observers, Ring!OpenObserver(x) PROVE RingInv'
  BY <1>5, OpenStep
<1>6. ASSUME NEW x \in Observers, Ring!CloseObserver(x) PROVE RingInv'
  BY <1>6, CloseObserverStep
<1>7. ASSUME NEW x \in Observers, NEW b \in Lengths, NEW f \in 1..MaxFrames,
             Ring!ReadObserver(x, b, f)
      PROVE  RingInv'
  BY <1>7, ReadStep
<1> QED
  BY <1>1, <1>2, <1>3, <1>4, <1>5, <1>6, <1>7, Zenon DEF Ring!Next

LEMMA RingStays == ASSUME RingInv, UNCHANGED ringVars PROVE RingInv'
<1>1. /\ records' = records /\ session' = session /\ nextOrdinal' = nextOrdinal
      /\ observers' = observers
  BY DEF ringVars
<1>2. RingTyped'
  BY <1>1 DEF RingInv, RingTyped
<1>3. InOrder(records', nextOrdinal')
  BY <1>1 DEF RingInv
<1>4. \A x \in Observers : observers'[x].open => Accounted(observers'[x], records', nextOrdinal')
  BY <1>1 DEF RingInv
<1> QED
  BY <1>2, <1>3, <1>4 DEF RingInv

\* What an observer has yet to read is what the sums leave of the ring.
LEMMA RingCounts == ASSUME RingInv PROVE LossIsCounted
<1> SUFFICES ASSUME NEW x \in Observers, observers[x].open
             PROVE  observers[x].owed =
                      observers[x].got + observers[x].lost
                        + Ring!Bytes(Ring!Unread(observers[x]))
  BY DEF LossIsCounted, Ring!LossIsCounted, Ring!OpenIds
<1>1. PICK o : o = observers[x]
  OBVIOUS
<1>2. o \in RingReaders /\ Accounted(o, records, nextOrdinal)
  BY <1>1, RingTypes DEF RingInv
<1>3. PICK p \in 0..Len(records) :
        /\ o.next + Len(records) = nextOrdinal + p
        /\ o.owed + Ring!Sums(records)[p] = o.got + o.lost + Ring!Bytes(records)
  BY <1>2 DEF Accounted
<1>4. /\ records \in Seq(RingFrames) /\ Len(records) \in Nat /\ nextOrdinal \in Nat
      /\ p \in Nat /\ p <= Len(records) /\ Len(records) <= Len(records)
  BY RingTypes
<1>5. o.next \in Nat /\ o.owed \in Nat /\ o.got \in Nat /\ o.lost \in Nat
  BY <1>2 DEF RingReaders
<1>6. Ring!Unread(o) = SubSeq(records, p + 1, Len(records))
  BY <1>3, <1>4, <1>5, PastIs, RingTypes DEF Ring!Unread
<1>7. PICK B, P, U : /\ B = Ring!Bytes(records) /\ P = Ring!Sums(records)[p]
                     /\ U = Ring!Bytes(Ring!Unread(o))
  OBVIOUS
<1>8. P \in Nat /\ U \in Nat /\ B = P + U
  <2>1. Ring!Sums(records)[Len(records)] = B
    BY <1>7 DEF Ring!Bytes
  <2> QED
    <3>1. PICK t : t = SubSeq(records, p + 1, Len(records))
      OBVIOUS
    <3>2. /\ Ring!Sums(records)[p] \in Nat /\ Ring!Bytes(t) \in Nat
          /\ Ring!Sums(records)[Len(records)] = Ring!Sums(records)[p] + Ring!Bytes(t)
      BY <1>4, <3>1, BytesOfPart
    <3> QED
      BY <1>6, <1>7, <2>1, <3>1, <3>2
<1>9. PICK w, v, k : w = o.owed /\ v = o.got /\ k = o.lost
  OBVIOUS
<1>10. w \in Nat /\ v \in Nat /\ k \in Nat /\ w + P = v + k + B
  BY <1>3, <1>5, <1>7, <1>9
<1>11. w = v + k + U
  BY <1>8, <1>10
<1> QED
  BY <1>1, <1>7, <1>9, <1>11

LEMMA RingInvariant == MCSpec => []RingInv
<1>1. MCInit => RingInv
  BY RingInit DEF MCInit
<1>2. RingInv /\ [MCNext]_<<part, vars, hubVars, leaseVars, secretVars, installVars, ringVars>>
        => RingInv'
  <2> SUFFICES ASSUME RingInv,
                      [MCNext]_<<part, vars, hubVars, leaseVars, secretVars, installVars, ringVars>>
               PROVE  RingInv'
    OBVIOUS
  <2>1. Ring!Next \/ UNCHANGED ringVars
    BY DEF MCNext
  <2> QED
    BY <2>1, RingStep, RingStays
<1> QED
  BY <1>1, <1>2, PTL DEF MCSpec

\* ring.go: through Ingest, evictOldestLocked, OpenObserver, ReadObserver and
\* every new session, what an observer of the target's output has received,
\* what it was told it lost and what still waits for it add up to all there
\* was for it to read.
THEOREM LossStaysCounted == MCSpec => []LossIsCounted
<1>1. RingInv => LossIsCounted
  BY RingCounts
<1> QED
  BY <1>1, RingInvariant, PTL
=============================================================================
