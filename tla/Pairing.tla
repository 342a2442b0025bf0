-------------------------------- MODULE Pairing --------------------------------
(***************************************************************************)
(* The Companion's pairing service over its file store                     *)
(* (companion/internal/pairing): one-time codes, the trust each Deck got   *)
(* for one, rotation and revocation.  The store's update is one critical   *)
(* section: clone, mutate, validate, replace the file, and take the clone  *)
(* as the state in memory if the file was renamed, even when an error is   *)
(* reported.  The process may crash at any point and start again from the  *)
(* file.                                                                   *)
(*                                                                         *)
(* A code's verifier is its number under the pepper of the process that    *)
(* issued it; the pepper is drawn anew at every start.                     *)
(***************************************************************************)
EXTENDS Naturals, FiniteSets, ProtectedFile

CONSTANTS
    Devices, Identities,
    None,
    Numbers,        \* the six-digit code space
    CodeTTL,
    MaxActive,      \* maxActiveCodes
    MaxTrusts,      \* maxStoredTrusts
    MaxTime,        \* bound: clock
    MaxIssued,      \* bound: codes issued
    MaxTokens,      \* bound: tokens drawn
    MaxStarts       \* bound: process starts

ASSUME PairingAssumption ==
    /\ CodeTTL \in Nat \ {0} /\ MaxActive \in Nat \ {0} /\ MaxTrusts \in Nat \ {0}
    /\ None \notin Devices

VARIABLES
    now,            \* clock.Now()
    pepper,         \* the current process, 0 = not running
    starts,         \* process starts so far
    state,          \* FileStore.state
    file,           \* pairing.json
    issued,         \* codes issued so far: gives each its serial
    tokens,         \* tokens drawn so far: gives each its value
    granted,        \* serials of the codes whose redemption returned a credential
    twice,          \* some code returned a second credential
    dead            \* tokens a reported revocation or redemption has replaced

vars == <<now, pepper, starts, state, file, issued, tokens, granted, twice, dead>>

Codes == [serial : 1..MaxIssued, number : Numbers, pepper : 1..MaxStarts,
          device : Devices \union {None}, expires : 0..(MaxTime + CodeTTL)]
Trusts == [identity : Identities, token : 1..MaxTokens]
NoTrust == [identity |-> None, token |-> 0]

emptyFileStoreState == [codes |-> {}, trusts |-> [d \in Devices |-> NoTrust]]

Trusted(s) == {d \in Devices : s.trusts[d] # NoTrust}

\* A state fits the schema and the store's capacities, in memory and on disk.
validateFileStoreState(s) ==
    /\ s.codes \subseteq Codes
    /\ s.trusts \in [Devices -> Trusts \union {NoTrust}]
    /\ Cardinality(s.codes) <= MaxActive
    /\ Cardinality(Trusted(s)) <= MaxTrusts

Init ==
    /\ now = 0
    /\ pepper = 0 /\ starts = 0
    /\ state = emptyFileStoreState
    /\ file = File(emptyFileStoreState)
    /\ issued = 0 /\ tokens = 0
    /\ granted = {} /\ twice = FALSE /\ dead = {}

Running == pepper # 0

-----------------------------------------------------------------------------
\* FileStore.update with the state mutate produced; r is what Replace did.
Update(next, r) ==
    /\ validateFileStoreState(next)
    /\ r \in Replace(file, next)
    /\ file' = r.file
    /\ state' = IF r.committed THEN next ELSE state

\* The process starts: OpenFileStore reads the file, New draws a pepper.
Start ==
    /\ ~Running /\ starts < MaxStarts
    /\ starts' = starts + 1
    /\ pepper' = starts + 1
    /\ state' = file.now
    /\ UNCHANGED <<now, file, issued, tokens, granted, twice, dead>>

\* The process or the machine stops; an unsynced rename may be undone.
Crash ==
    /\ Running
    /\ pepper' = 0
    /\ state' = emptyFileStoreState
    /\ \E s \in file.crash : file' = File(s)
    /\ UNCHANGED <<now, starts, issued, tokens, granted, twice, dead>>

Tick ==
    /\ now < MaxTime
    /\ now' = now + 1
    /\ UNCHANGED <<pepper, starts, state, file, issued, tokens, granted, twice, dead>>

-----------------------------------------------------------------------------
Live(codes) == {c \in codes : now < c.expires}

\* issueCode with SaveCode (d = None) or SaveRotationCode (a trusted Deck).  A
\* number in use is drawn again, so a conflict leaves no trace here.
Issue(n, d) ==
    LET kept == Live(state.codes)
        code == [serial |-> issued + 1, number |-> n, pepper |-> pepper,
                 device |-> d, expires |-> now + CodeTTL]
    IN  /\ Running /\ issued < MaxIssued
        /\ d # None => d \in Trusted(state)
        /\ \A c \in kept : ~(c.number = n /\ c.pepper = pepper)
        /\ Cardinality(kept) < MaxActive
        /\ \E r \in Replace(file, [state EXCEPT !.codes = kept \union {code}]) :
               Update([state EXCEPT !.codes = kept \union {code}], r)
        /\ issued' = issued + 1
        /\ UNCHANGED <<now, pepper, starts, tokens, granted, twice, dead>>

Matches(c, n) == c.number = n /\ c.pepper = pepper

\* Mutant of Redeemable: a rotation code does not look at the identity.
RedeemableByAnyone(c, d, i) ==
    /\ now < c.expires
    /\ d \in Trusted(state) \/ Cardinality(Trusted(state)) < MaxTrusts
    /\ c.device # None => d = c.device /\ d \in Trusted(state)

\* ConsumeCode's checks for Deck d presenting identity i.
Redeemable(c, d, i) ==
    /\ now < c.expires
    /\ d \in Trusted(state) \/ Cardinality(Trusted(state)) < MaxTrusts
    /\ c.device # None => /\ d = c.device /\ d \in Trusted(state)
                          /\ state.trusts[d].identity = i

\* The state mutate leaves: the code gone, the Deck trusted with a new token.
Consumed(c, d, i) ==
    [codes |-> state.codes \ {c},
     trusts |-> [state.trusts EXCEPT ![d] = [identity |-> i, token |-> tokens + 1]]]

\* Redeem: the credential is returned only when update reported no error.  A
\* code that is missing, expired or bound to another Deck changes nothing (the
\* deletion of an expired one is discarded with the clone).
Redeem(n, d, i) ==
    /\ Running /\ tokens < MaxTokens
    /\ \E c \in state.codes :
          /\ Matches(c, n) /\ Redeemable(c, d, i)
          /\ \E r \in Replace(file, Consumed(c, d, i)) :
                /\ Update(Consumed(c, d, i), r)
                /\ IF r.ok
                   THEN /\ granted' = granted \union {c.serial}
                        /\ twice' = (twice \/ c.serial \in granted)
                        /\ dead' = dead \union ({state.trusts[d].token} \ {0})
                   ELSE UNCHANGED <<granted, twice, dead>>
    /\ tokens' = tokens + 1
    /\ UNCHANGED <<now, pepper, starts, issued>>

Revoke(d) ==
    /\ Running /\ d \in Trusted(state)
    /\ LET next == [state EXCEPT !.trusts[d] = NoTrust]
       IN  \E r \in Replace(file, next) :
              /\ Update(next, r)
              /\ dead' = IF r.ok THEN dead \union {state.trusts[d].token} ELSE dead
    /\ UNCHANGED <<now, pepper, starts, issued, tokens, granted, twice>>

\* Verify reads the state in memory.
Verify(d, t, i) == Running /\ state.trusts[d] = [identity |-> i, token |-> t]

Next ==
    \/ Start \/ Crash \/ Tick
    \/ \E n \in Numbers, d \in Devices \union {None} : Issue(n, d)
    \/ \E n \in Numbers, d \in Devices, i \in Identities : Redeem(n, d, i)
    \/ \E d \in Devices : Revoke(d)

Spec == Init /\ [][Next]_vars

-----------------------------------------------------------------------------
\* A pairing code buys at most one credential, through failed writes, lost
\* renames, crashes and restarts (ConsumeCode deletes the code and stores the
\* trust in one file replacement, and Redeem answers only after it).
CodeBuysOnce == ~twice

\* A token whose revocation or replacement was reported is never accepted
\* again, not even by the process that starts after a crash (RevokeTrust and
\* ConsumeCode report only what is synced).
DeadStaysDead ==
    \A d \in Devices, t \in dead, i \in Identities : ~Verify(d, t, i)

\* A Deck's identity changes under its device ID only when an open pairing code
\* is spent on it: a rotation code never moves the trust to another identity.
RotationKeepsIdentity ==
    [][\A d \in Devices :
          (/\ Running /\ Running'
           /\ d \in Trusted(state) /\ state'.trusts[d] # NoTrust
           /\ state.trusts[d].identity # state'.trusts[d].identity)
          => \E c \in state.codes \ state'.codes : c.device = None]_vars
=============================================================================
