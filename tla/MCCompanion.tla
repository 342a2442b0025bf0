------------------------------ MODULE MCCompanion ------------------------------
(***************************************************************************)
(* Six parts of the Companion that share no state, explored one beside the *)
(* other: a behaviour is one of the pairing store, one of the Device Link  *)
(* hub, one of the Web TX Lease, one of the provider definitions and their *)
(* credentials, one of the installation, or one of the serial ring.        *)
(***************************************************************************)
EXTENDS Pairing, TLC

CONSTANTS
    Conns, MaxRings, MaxPublish, MaxTrust,
    Clients, NoClient, MaxID, MaxSession, MaxLease, MaxTyped, MaxWire, MaxBreaks,
    Providers, Boot, MaxDefinitions, MaxPending, MaxRefs,
    Versions, NumFiles, Platforms, MaxEdits,
    Sessions, NoSession, Observers, Capacity, MaxFrames, MaxObservers, Lengths, Modulus,
    MaxIngest

\* A connection is a connection; a browser is neither the start-up task nor nobody.
ASSUME CompanionAssumption ==
    None \notin Conns /\ None \notin Clients /\ Boot \notin Clients

VARIABLES
    part,
    trust, hubClosed, added, sessions, disconnecting, signal, document, generation,
    expected, rings, unsignalled, phase, device, token, written, copy, view,
    svc, lease, pending, nextID, outbox, browser, conn, toDeck, toCompanion, deckUp, deck,
    grants, foreign, breaks,
    definitionFile, running, definitions, reserved, secrets, vaultLock, drawn, task, gambled,
    platform, root, reg, data, op, app, unsure,
    session, records, nextOrdinal, last, observers, closed

Hub == INSTANCE DeviceHub WITH closed <- hubClosed, pending <- unsignalled

hubVars ==
    <<trust, hubClosed, added, sessions, disconnecting, signal, document, generation,
      expected, rings, unsignalled, phase, device, token, written, copy, view>>

Lease == INSTANCE SerialLease

leaseVars ==
    <<svc, lease, pending, nextID, outbox, browser, conn, toDeck, toCompanion, deckUp, deck,
      grants, foreign, breaks>>

Secrets == INSTANCE ProviderSecrets WITH file <- definitionFile, state <- definitions

secretVars ==
    <<definitionFile, running, definitions, reserved, secrets, vaultLock, drawn, task, gambled>>

Install == INSTANCE Installation WITH gambled <- unsure

installVars == <<platform, root, reg, data, op, app, unsure>>

Ring == INSTANCE SerialRing

ringVars == <<session, records, nextOrdinal, last, observers, closed>>

\* What NewRing takes: room for a frame.  The payloads of a frame have a length.
ASSUME RingAssumption ==
    /\ Capacity \in Nat /\ MaxFrames \in Nat \ {0} /\ Modulus \in Nat \ {0}
    /\ Lengths \subseteq Nat

InstallStates == [version : Versions, enabled : BOOLEAN]
DataFiles == [Install!Files -> [edit : Nat, by : Versions \union {None}]]
Journals == [restore : BOOLEAN, reconfigure : BOOLEAN, prior : InstallStates \union {None},
             backup : DataFiles \union {None}, next : InstallStates]

\* None is told from what it stands in for.
ASSUME InstallAssumption ==
    /\ NumFiles \in Nat
    /\ None \notin Versions /\ None \notin InstallStates /\ None \notin Journals

MCInit ==
    /\ part \in {"pairing", "hub", "lease", "secrets", "installation", "ring"}
    /\ Init /\ Hub!Init /\ Lease!Init /\ Secrets!Init /\ Install!Init /\ Ring!Init
    /\ part # "installation" => platform = CHOOSE p \in Platforms : TRUE

MCNext ==
    /\ UNCHANGED part
    /\ \/ /\ part = "pairing" /\ Next
          /\ UNCHANGED <<hubVars, leaseVars, secretVars, installVars, ringVars>>
       \/ /\ part = "hub" /\ Hub!Next
          /\ UNCHANGED <<vars, leaseVars, secretVars, installVars, ringVars>>
       \/ /\ part = "lease" /\ Lease!Next
          /\ UNCHANGED <<vars, hubVars, secretVars, installVars, ringVars>>
       \/ /\ part = "secrets" /\ Secrets!Next
          /\ UNCHANGED <<vars, hubVars, leaseVars, installVars, ringVars>>
       \/ /\ part = "installation" /\ Install!Next
          /\ UNCHANGED <<vars, hubVars, leaseVars, secretVars, ringVars>>
       \/ /\ part = "ring" /\ Ring!Next
          /\ UNCHANGED <<vars, hubVars, leaseVars, secretVars, installVars>>

MCSpec ==
    MCInit /\ [][MCNext]_<<part, vars, hubVars, leaseVars, secretVars, installVars, ringVars>>

Symmetry == Permutations(Clients)

\* A code buys at most one credential, a dead token stays dead and a rotation
\* code moves no trust to another identity, through failed writes and crashes.
TrustIsEarned == []CodeBuysOnce /\ []DeadStaysDead /\ RotationKeepsIdentity

\* While a connection serves a Deck, the last the serial hub was told of that Deck
\* came from it, however the goodbye of an earlier connection was delayed.
ServedIsReported == Hub!ServedIsReported

\* A connection that sleeps with an older document has a token in its channel or
\* a publisher about to put one there.
NoLostWakeup == Hub!NoLostWakeup

\* A lease shown as held was granted to the browser shown as its holder, with
\* nothing under way the Companion and the Deck agree on it, and no input reaches
\* the target from a browser that was never granted one.
LeaseIsAgreed ==
    Lease!HolderWasGranted /\ Lease!QuietMeansAgreed /\ Lease!StrangersAreSilent

\* A definition never loses its credential, in memory or in what a restart may
\* find, unless one was deleted while the last rename was unsynced; and each
\* credential in the vault belongs to a definition or to the journal, whatever
\* content a crash leaves behind.
SecretsAreKept == Secrets!DefinitionsKeepSecrets /\ Secrets!NoSecretForgotten

\* Without a journal the registration is what the state says, and a rolled back
\* migration left every data file as it was.
InstallationIsWhole == Install!StateIsRegistered /\ Install!RollbackRestores

\* What an observer received, was told it lost and still has to read adds up.
LossIsCounted == Ring!LossIsCounted
=============================================================================
