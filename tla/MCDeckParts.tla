------------------------------ MODULE MCDeckParts ------------------------------
(***************************************************************************)
(* Three parts of the Deck that share no state, explored one beside the    *)
(* other: a behaviour is one of the AI snapshot store, one of the          *)
(* transaction store on honest storage, or one of Setup Mode.              *)
(***************************************************************************)
EXTENDS AiSnapshotStore, TLC

CONSTANTS
    Payload, MaxGeneration, None, Corrupt, Unsupported, Legacy, WriteFaults, MaxDamage,
    Credentials, QueueCapacity, Requests, MaxRequests, MaxSetupFaults, MaxEvents

VARIABLES
    part,
    flashCandidate, flashSlot, flashMarker, active, activeSlot, candidate, recordStatus,
    candidateStatus, storageFaulted, markerPresent, markerMatches, pc, staging, erased,
    staged, settled, prior, pending, clearTried, damage,
    svc, queue, handler, mode, confirmation, slots, wifi, net, radio, events, flags,
    notice, commits, requests, setup_faults

Store == INSTANCE TransactionStore

storeVars ==
    <<flashCandidate, flashSlot, flashMarker, active, activeSlot, candidate, recordStatus,
      candidateStatus, storageFaulted, markerPresent, markerMatches, pc, staging, erased,
      staged, settled, prior, pending, clearTried, damage>>

Setup == INSTANCE SetupService WITH MaxFaults <- MaxSetupFaults, faults <- setup_faults

setupVars ==
    <<svc, queue, handler, mode, confirmation, slots, wifi, net, radio, events, flags,
      notice, commits, requests, setup_faults>>

\* A request is not the absence of one.
ASSUME HandlerAssumption ==
    \A g \in 1..QueueCapacity : [type |-> "pair_companion", of |-> g] # None

\* Credentials are interchangeable: any one may be the committed network.
First == CHOOSE c \in Credentials : TRUE

SetupInit ==
    /\ Setup!Init /\ ~wifi.faulted
    /\ wifi.active \in {None, First} /\ wifi.candidate = None

MCInit ==
    /\ part \in {"snapshots", "store", "setup"}
    /\ Init /\ Store!Init /\ SetupInit
    /\ part # "store" => flashMarker = None
    /\ part # "setup" => wifi.active = None /\ wifi.status = "empty"

MCNext ==
    /\ UNCHANGED part
    /\ \/ part = "snapshots" /\ Next /\ UNCHANGED <<storeVars, setupVars>>
       \/ part = "store" /\ Store!Next /\ UNCHANGED <<vars, setupVars>>
       \/ part = "setup" /\ Setup!Next /\ UNCHANGED <<vars, storeVars>>

MCSpec == MCInit /\ [][MCNext]_<<part, vars, storeVars, setupVars>>

Symmetry == Permutations(Contents) \union Permutations(Payload)
              \union Permutations(Credentials)

\* The transaction store implements a register whose write takes effect once or
\* not at all, through power losses at any step (deck_transaction_store.cpp).
ImplementsRegister == Store!ImplementsRegister

\* Between commands the station is configured for the committed network, or
\* Setup Mode still remembers that it has to bring it back; and no slot of the
\* response barrier is lost for later pairs.
DebtsAreRemembered == Setup!StationFollowsRecord /\ Setup!SlotsAreOwed
=============================================================================
