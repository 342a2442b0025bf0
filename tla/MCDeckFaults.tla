----------------------------- MODULE MCDeckFaults -----------------------------
(***************************************************************************)
(* Three parts of the Deck under their faults, explored one beside the     *)
(* other: a behaviour is one of the transaction store on storage that      *)
(* loses, half applies, corrupts and rots what is written; one of an       *)
(* update (images of two blocks, two offers, two transports and a last     *)
(* block that may arrive damaged, holding what version 0 does); or one of  *)
(* the Companion link (two Companions, three transports, four edits, an    *)
(* event queue of two).                                                    *)
(***************************************************************************)
EXTENDS TransactionStore, CompanionLink, TLC

CONSTANTS
    NoTransaction, Length, Offers, Chunks, MaxVersion, CommandDepth, ResultDepth, MaxEpoch,
    MaxOffer

VARIABLES
    part,
    slot, running, boot, image, fence, requested, complete, commands, results,
    transaction, activeId, worker, command, outcome, dangling, link, guard, offers,
    cancelled, late

Ota == INSTANCE OtaService

otaVars ==
    <<slot, running, boot, image, fence, requested, complete, commands, results,
      transaction, activeId, worker, command, outcome, dangling, link, guard, offers,
      cancelled, late>>

MCOffers == {[version |-> 1, valid |-> TRUE]}

MCChunks ==
    {[offset |-> 0, size |-> 1, final |-> FALSE, version |-> 1],
     [offset |-> 1, size |-> 1, final |-> TRUE, version |-> 1],
     [offset |-> 1, size |-> 1, final |-> TRUE, version |-> 0]}

\* The offers and the chunks that arrive, and a transaction told from its absence.
Transactions ==
    [state : {"receiving", "failed", "ready"}, version : Nat, received : Nat,
     digest : Seq(Nat)]

ASSUME OtaAssumption ==
    /\ Length \in Nat /\ MaxVersion \in Nat /\ CommandDepth \in Nat \ {0}
    /\ Offers \subseteq [version : Nat, valid : BOOLEAN]
    /\ Chunks \subseteq [offset : Nat, size : Nat, final : BOOLEAN, version : Nat]
    /\ NoTransaction \notin Transactions

MCInit ==
    /\ part \in {"store", "update", "link"}
    /\ Init /\ Ota!Init /\ LinkInit
    /\ part # "store" => flashMarker = None

MCNext ==
    /\ UNCHANGED part
    /\ \/ part = "store" /\ Next /\ UNCHANGED <<otaVars, linkVars>>
       \/ part = "update" /\ Ota!Next /\ UNCHANGED <<vars, linkVars>>
       \/ part = "link" /\ LinkNext /\ UNCHANGED <<vars, otaVars>>

MCSpec == MCInit /\ [][MCNext]_<<part, vars, otaVars, linkVars>>

Symmetry == Permutations(Payload) \union Permutations(Profile)

\* Neither results nor commands cross from one transport of an update to the
\* next: the results waiting for the link are of its present transport, and only
\* commands of a transport that is gone are passed over.
TransportsAreApart == []Ota!ResultsAreCurrent /\ Ota!OnlyStaleIsDropped

\* A slot is selected for boot only with the whole image of a newer version and
\* never for an offer whose transport was aborted before its commit began; while
\* the running image waits for its confirmation there is one to roll back to; and
\* a destroyed transaction takes no offer and no chunk.
UpdateIsSafe ==
    /\ []Ota!RollbackPossible /\ []Ota!DestroyedIsUnused
    /\ Ota!AbortWins /\ Ota!SelectedIsWhole
=============================================================================
