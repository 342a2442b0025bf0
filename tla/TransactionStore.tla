-------------------------- MODULE TransactionStore --------------------------
(***************************************************************************)
(* The Deck's A/B transaction store                                        *)
(* (firmware/components/transaction_store).  A record is staged under the  *)
(* "candidate" key, copied by a commit into the slot that is not active,   *)
(* and published by rewriting one active marker.  Wi-Fi credentials,       *)
(* device settings, Companion Profiles and AI Snapshots all persist        *)
(* through this code.                                                      *)
(*                                                                         *)
(* Every access to NVS is one step, because the device can lose power      *)
(* between any two of them.  A record is abstracted to its generation and  *)
(* its payload; magic, length and CRC are abstracted to whether the bytes  *)
(* decode (a record), or fail to in one of the ways the decoder tells      *)
(* apart (Corrupt, Unsupported, Legacy).                                   *)
(***************************************************************************)
EXTENDS Naturals

CONSTANTS
  Payload,        \* the payloads validate_payload accepts
  MaxGeneration,  \* UINT32_MAX in the code; the generation after it is 1
  None,           \* an absent key, or an empty record in memory
  Corrupt,        \* bytes that fail the magic, length, CRC or payload checks
  Unsupported,    \* bytes of a newer schema
  Legacy,         \* bytes of an older schema, which no code migrates
  WriteFaults,    \* the ways a write may go wrong, a subset of Faults
  MaxDamage       \* how many stored values may rot (bound of the model)

Faults == {"lost", "applied", "corrupt"}
Bad == {Corrupt, Unsupported, Legacy}
Slot == {0, 1}
Generation == 1..MaxGeneration
Record == [gen : Generation, payload : Payload]
\* DecodedMarker: hasPrevious is prevGen # 0.
Marker == [slot : Slot, gen : Generation,
           prevSlot : Slot, prevGen : 0..MaxGeneration]

(***************************************************************************)
(* MaxGeneration >= 3 because a commit writes generation g+1 over the slot *)
(* that still holds g-1, and the two must differ.  That the slot holds no  *)
(* older generation rests on the callers' discipline: see CommitBegin.     *)
(***************************************************************************)
ASSUME StoreAssumption ==
  /\ MaxGeneration \in Nat /\ MaxGeneration >= 3
  /\ MaxDamage \in Nat
  /\ WriteFaults \subseteq Faults
  /\ None \notin Record \cup Marker \cup Bad
  /\ Bad \cap (Record \cup Marker) = {}
  /\ Corrupt # Unsupported /\ Corrupt # Legacy /\ Unsupported # Legacy

VARIABLES
  \* NVS, which survives a power loss
  flashCandidate, flashSlot, flashMarker,
  \* struct deck_transaction_store
  active, activeSlot, candidate, recordStatus, candidateStatus,
  storageFaulted, markerPresent, markerMatches,
  \* the operation in progress: pc is the next NVS access, "off" without power
  pc, staging, erased,
  \* the caller: it has staged since it last booted, committed or cleared
  staged,
  \* history: the record last acknowledged or loaded, the one it replaced, the
  \* record whose publication was attempted, whether a clear was, and rot
  settled, prior, pending, clearTried, damage

flash == <<flashCandidate, flashSlot, flashMarker>>
memory == <<active, activeSlot, candidate, recordStatus, candidateStatus,
            storageFaulted, markerPresent, markerMatches>>
history == <<settled, prior, pending, clearTried, damage>>
vars == <<flash, memory, pc, staging, erased, staged, history>>

Status == {"empty", "valid", "recovered_previous", "corrupt",
           "unsupported_schema", "migration_failed", "io_error"}

Steps == {"off", "idle", "stage_verify",
          "fix_marker", "fix_verify", "erase_marker",
          "slot_write", "slot_verify", "marker_write", "marker_verify",
          "rollback", "erase_candidate",
          "clear_marker", "clear_candidate", "clear_slot0", "clear_slot1",
          "clear_metadata"}

-----------------------------------------------------------------------------
(* uint32_t generation + 1, with 0 skipped. *)
NextGeneration(g) == IF g = MaxGeneration THEN 1 ELSE g + 1

StageGeneration == IF active = None THEN 1 ELSE NextGeneration(active.gen)

status_for_decode(bytes) ==
  CASE bytes = Unsupported -> "unsupported_schema"
    [] bytes = Legacy -> "migration_failed"
    [] OTHER -> "corrupt"

MarkerFor(slot, record, prevSlot, prev) ==
  [slot |-> slot, gen |-> record.gen,
   prevSlot |-> IF prev = None THEN 0 ELSE prevSlot,
   prevGen |-> IF prev = None THEN 0 ELSE prev.gen]

\* previous_marker of a commit: the active record, with no previous one.
ActiveMarker == MarkerFor(activeSlot, active, 0, None)

\* Mutant: the commit overwrites the active slot.
NextSlotInPlace == activeSlot

NextSlot == IF active = None THEN 0 ELSE 1 - activeSlot

(***************************************************************************)
(* What a marker selects.  A slot counts only if it decodes and carries    *)
(* the generation the marker names.                                        *)
(***************************************************************************)
Holds(slot, gen) == flashSlot[slot] \in Record /\ flashSlot[slot].gen = gen

slot_key(slot) == IF slot = 0 THEN "slot0" ELSE "slot1"

Selected(m, unreadable) ==
  /\ slot_key(m.slot) \notin unreadable
  /\ Holds(m.slot, m.gen)

Previous(m, unreadable) ==
  /\ m.prevGen # 0
  /\ slot_key(m.prevSlot) \notin unreadable
  /\ Holds(m.prevSlot, m.prevGen)

\* The record load_active makes active when the keys in unreadable give an
\* I/O error and the others read back what they hold.
ActiveAfterLoad(unreadable) ==
  IF "marker" \in unreadable \/ flashMarker \notin Marker THEN None
  ELSE IF Selected(flashMarker, unreadable) THEN flashSlot[flashMarker.slot]
  ELSE IF Previous(flashMarker, unreadable) THEN flashSlot[flashMarker.prevSlot]
  ELSE None

\* What a restart with readable storage would make active.
Recovered == ActiveAfterLoad({})

-----------------------------------------------------------------------------
(***************************************************************************)
(* The NVS adapter.  nvs_set_blob followed by nvs_commit replaces a value  *)
(* or leaves it alone, also across a power loss.  It may report failure    *)
(* without or with the new value in place ("lost", "applied"), and it may  *)
(* report success although the bytes do not read back ("corrupt").         *)
(***************************************************************************)
Written(new) == {new} \cup (IF "corrupt" \in WriteFaults THEN {Corrupt} ELSE {})

WriteFailed(old, new) ==
  (IF "lost" \in WriteFaults THEN {old} ELSE {})
    \cup (IF "applied" \in WriteFaults THEN {new} ELSE {})

\* nvs_erase_key then nvs_commit: a failure may or may not have erased.
EraseFailed(old) == WriteFailed(old, None)

\* A read used for verification may fail too; the caller then gives up.
ReadMayFail == "lost" \in WriteFaults

-----------------------------------------------------------------------------
Init ==
  /\ flashCandidate = None
  /\ flashSlot = [s \in Slot |-> None]
  /\ flashMarker \in {None, Unsupported, Legacy}
  /\ active = None /\ activeSlot = 0 /\ candidate = None
  /\ recordStatus = "empty" /\ candidateStatus = "empty"
  /\ storageFaulted = FALSE /\ markerPresent = FALSE /\ markerMatches = FALSE
  /\ pc = "off" /\ staging = None /\ erased = TRUE /\ staged = FALSE
  /\ settled = None /\ prior = None /\ pending = None
  /\ clearTried = FALSE /\ damage = 0

(***************************************************************************)
(* deck_transaction_store_create: load_candidate, then load_active.  The   *)
(* reads change nothing in NVS and nobody else writes, so they are one     *)
(* step; each key may give an I/O error on its own.                        *)
(***************************************************************************)
LoadCandidate(unreadable) ==
  /\ candidate' = IF "candidate" \notin unreadable /\ flashCandidate \in Record
                    THEN flashCandidate ELSE None
  /\ candidateStatus' =
       CASE "candidate" \in unreadable -> "io_error"
         [] "candidate" \notin unreadable /\ flashCandidate = None -> "empty"
         [] "candidate" \notin unreadable /\ flashCandidate \in Record -> "valid"
         [] OTHER -> status_for_decode(flashCandidate)

LoadStatus(unreadable) ==
  IF "marker" \in unreadable THEN "io_error"
  ELSE IF flashMarker = None THEN "empty"
  ELSE IF flashMarker \notin Marker THEN status_for_decode(flashMarker)
  ELSE IF Selected(flashMarker, unreadable) THEN "valid"
  ELSE IF Previous(flashMarker, unreadable) THEN "recovered_previous"
  ELSE IF \/ slot_key(flashMarker.slot) \in unreadable
          \/ flashMarker.prevGen # 0 /\ slot_key(flashMarker.prevSlot) \in unreadable
    THEN "io_error"
  ELSE IF flashSlot[flashMarker.slot] \in Bad
    THEN status_for_decode(flashSlot[flashMarker.slot])
  ELSE "corrupt"

\* storage_faulted after load_active: an unreadable marker or selected slot, or
\* an unreadable previous slot when it was needed.
LoadFaulted(unreadable) ==
  \/ "marker" \in unreadable
  \/ /\ flashMarker \in Marker
     /\ ~Selected(flashMarker, unreadable)
     /\ \/ slot_key(flashMarker.slot) \in unreadable
        \/ flashMarker.prevGen # 0 /\ slot_key(flashMarker.prevSlot) \in unreadable

Create(unreadable) ==
  /\ pc = "off"
  /\ LoadCandidate(unreadable)
  /\ active' = ActiveAfterLoad(unreadable)
  /\ activeSlot' =
       IF active' = None THEN 0
       ELSE IF Selected(flashMarker, unreadable) THEN flashMarker.slot
       ELSE flashMarker.prevSlot
  /\ recordStatus' = LoadStatus(unreadable)
  /\ storageFaulted' = ("candidate" \in unreadable \/ LoadFaulted(unreadable))
  /\ markerPresent' = ("marker" \notin unreadable /\ flashMarker # None)
  /\ markerMatches' = (recordStatus' = "valid")
  /\ pc' = "idle" /\ staging' = None /\ erased' = TRUE /\ staged' = FALSE
  /\ IF ~storageFaulted'
       THEN /\ settled' = active' /\ pending' = None /\ clearTried' = FALSE
            /\ prior' = IF active' = settled THEN prior ELSE settled
       ELSE UNCHANGED <<settled, prior, pending, clearTried>>
  /\ UNCHANGED <<flash, damage>>

\* Power loss (or deck_transaction_store_destroy): memory is gone.
PowerLoss ==
  /\ pc # "off"
  /\ pc' = "off"
  /\ active' = None /\ activeSlot' = 0 /\ candidate' = None
  /\ recordStatus' = "empty" /\ candidateStatus' = "empty"
  /\ storageFaulted' = FALSE /\ markerPresent' = FALSE /\ markerMatches' = FALSE
  /\ staging' = None /\ erased' = TRUE /\ staged' = FALSE
  /\ UNCHANGED <<flash, history>>

-----------------------------------------------------------------------------
(* Steps shared by the operations. *)

Fail ==
  /\ storageFaulted' = TRUE
  /\ pc' = "idle"
  /\ staging' = None
  /\ UNCHANGED <<active, activeSlot, candidate, recordStatus, candidateStatus,
                 markerPresent, markerMatches, erased, staged>>

Continue(step) ==
  /\ pc' = step
  /\ UNCHANGED <<memory, erased, staged>>

-----------------------------------------------------------------------------
(***************************************************************************)
(* deck_transaction_store_stage: write the candidate key, read it back.    *)
(***************************************************************************)
StageWrite(payload) ==
  LET new == [gen |-> StageGeneration, payload |-> payload] IN
  /\ pc = "idle" /\ ~storageFaulted
  /\ \/ /\ flashCandidate' \in Written(new)
        /\ Continue("stage_verify") /\ staging' = new
     \/ flashCandidate' \in WriteFailed(flashCandidate, new) /\ Fail
  /\ UNCHANGED <<flashSlot, flashMarker, history>>

StageVerify ==
  /\ pc = "stage_verify"
  /\ \/ /\ flashCandidate = staging
        /\ candidate' = staging /\ candidateStatus' = "valid"
        /\ pc' = "idle" /\ staging' = None /\ staged' = TRUE
        /\ UNCHANGED <<active, activeSlot, recordStatus, storageFaulted,
                       markerPresent, markerMatches, erased>>
     \/ (flashCandidate # staging \/ ReadMayFail) /\ Fail
  /\ UNCHANGED <<flash, history>>

-----------------------------------------------------------------------------
\* Mutant: the commit trusts the marker it finds.
CommitBeginUnrepaired ==
  /\ staged
  /\ pc = "idle" /\ candidate # None /\ ~storageFaulted
  /\ Continue("slot_write")
  /\ UNCHANGED <<flash, staging, history>>

(***************************************************************************)
(* deck_transaction_store_commit.  A marker that does not name the active  *)
(* record (it was recovered from the previous slot) is rewritten first,    *)
(* and a marker that selects nothing is erased first: otherwise the slot   *)
(* about to be written could satisfy the old marker before it is           *)
(* published.                                                              *)
(*                                                                         *)
(* The function accepts any candidate, also one loaded at boot.  Its four  *)
(* callers always commit what they staged in the same run (staged), so the *)
(* candidate is one generation ahead of the active record.                 *)
(***************************************************************************)
CommitBegin ==
  /\ staged
  /\ pc = "idle" /\ candidate # None /\ ~storageFaulted
  /\ Continue(IF active # None
                THEN IF markerMatches THEN "slot_write" ELSE "fix_marker"
                ELSE IF markerPresent THEN "erase_marker" ELSE "slot_write")
  /\ UNCHANGED <<flash, staging, history>>

FixMarkerWrite ==
  /\ pc = "fix_marker"
  /\ \/ /\ flashMarker' \in Written(ActiveMarker)
        /\ Continue("fix_verify") /\ UNCHANGED staging
     \/ flashMarker' \in WriteFailed(flashMarker, ActiveMarker) /\ Fail
  /\ UNCHANGED <<flashCandidate, flashSlot, history>>

FixMarkerVerify ==
  /\ pc = "fix_verify"
  /\ \/ /\ flashMarker = ActiveMarker
        /\ markerPresent' = TRUE /\ markerMatches' = TRUE
        /\ pc' = "slot_write"
        /\ UNCHANGED <<active, activeSlot, candidate, recordStatus,
                       candidateStatus, storageFaulted, staging, erased, staged>>
     \/ (flashMarker # ActiveMarker \/ ReadMayFail) /\ Fail
  /\ UNCHANGED <<flash, history>>

EraseStaleMarker ==
  /\ pc = "erase_marker"
  /\ \/ /\ flashMarker' = None
        /\ markerPresent' = FALSE
        /\ pc' = "slot_write"
        /\ UNCHANGED <<active, activeSlot, candidate, recordStatus,
                       candidateStatus, storageFaulted, markerMatches,
                       staging, erased, staged>>
     \/ flashMarker' \in EraseFailed(flashMarker) /\ Fail
  /\ UNCHANGED <<flashCandidate, flashSlot, history>>

SlotWrite ==
  /\ pc = "slot_write"
  /\ \/ /\ \E bytes \in Written(candidate) :
             flashSlot' = [flashSlot EXCEPT ![NextSlot] = bytes]
        /\ Continue("slot_verify") /\ UNCHANGED staging
     \/ /\ \E bytes \in WriteFailed(flashSlot[NextSlot], candidate) :
             flashSlot' = [flashSlot EXCEPT ![NextSlot] = bytes]
        /\ Fail
  /\ UNCHANGED <<flashCandidate, flashMarker, history>>

SlotVerify ==
  /\ pc = "slot_verify"
  /\ \/ /\ flashSlot[NextSlot] = candidate
        /\ Continue("marker_write") /\ UNCHANGED staging
     \/ (flashSlot[NextSlot] # candidate \/ ReadMayFail) /\ Fail
  /\ UNCHANGED <<flash, history>>

CandidateMarker == MarkerFor(NextSlot, candidate, activeSlot, active)

MarkerWrite ==
  /\ pc = "marker_write"
  /\ \/ /\ flashMarker' \in Written(CandidateMarker)
        /\ Continue("marker_verify")
     \/ /\ flashMarker' \in WriteFailed(flashMarker, CandidateMarker)
        /\ Continue("rollback")
  /\ pending' = candidate
  /\ UNCHANGED <<flashCandidate, flashSlot, staging,
                 settled, prior, clearTried, damage>>

\* Mutant: the marker is not read back.
MarkerVerifyTrusting ==
  /\ pc = "marker_verify"
  /\ active' = candidate /\ activeSlot' = NextSlot
  /\ recordStatus' = "valid"
  /\ markerPresent' = TRUE /\ markerMatches' = TRUE
  /\ pc' = "erase_candidate" /\ staged' = FALSE
  /\ settled' = candidate /\ prior' = active /\ pending' = None
  /\ UNCHANGED <<candidate, candidateStatus, storageFaulted, erased, clearTried,
                 damage, flash, staging>>

MarkerVerify ==
  /\ pc = "marker_verify"
  /\ \/ /\ flashMarker = CandidateMarker
        /\ active' = candidate /\ activeSlot' = NextSlot
        /\ recordStatus' = "valid"
        /\ markerPresent' = TRUE /\ markerMatches' = TRUE
        /\ pc' = "erase_candidate" /\ staged' = FALSE
        /\ settled' = candidate /\ prior' = active /\ pending' = None
        /\ UNCHANGED <<candidate, candidateStatus, storageFaulted, erased,
                       clearTried, damage>>
     \/ /\ flashMarker # CandidateMarker \/ ReadMayFail
        /\ Continue("rollback") /\ UNCHANGED history
  /\ UNCHANGED <<flash, staging>>

\* rollback_marker: best effort, its result is ignored.
RollbackMarker ==
  /\ pc = "rollback"
  /\ IF active # None
       THEN flashMarker' \in Written(ActiveMarker)
                               \cup WriteFailed(flashMarker, ActiveMarker)
       ELSE flashMarker' \in {None} \cup EraseFailed(flashMarker)
  /\ Fail
  /\ UNCHANGED <<flashCandidate, flashSlot, history>>

\* The last step of a commit that has already succeeded.
EraseCandidate ==
  /\ pc = "erase_candidate"
  /\ \/ flashCandidate' = None /\ candidate' = None /\ candidateStatus' = "empty"
     \/ /\ flashCandidate' \in EraseFailed(flashCandidate)
        /\ candidateStatus' = "io_error"
        /\ UNCHANGED candidate
  /\ pc' = "idle"
  /\ UNCHANGED <<flashSlot, flashMarker, active, activeSlot, recordStatus,
                 storageFaulted, markerPresent, markerMatches, staging, erased,
                 staged, history>>

-----------------------------------------------------------------------------
(***************************************************************************)
(* deck_transaction_store_clear: five erases, the marker first; each is    *)
(* tried even if an earlier one failed.  It is the one operation that runs *)
(* on a faulted store, and a full success lifts the fault.                 *)
(***************************************************************************)
ClearBegin ==
  /\ pc = "idle"
  /\ pc' = "clear_marker"
  /\ erased' = TRUE
  /\ clearTried' = TRUE
  /\ UNCHANGED <<flash, memory, staging, staged, settled, prior, pending, damage>>

\* One erase: new is what is left under the key that held old.
ClearStep(step, next, old, new) ==
  /\ pc = step
  /\ pc' = next
  /\ \/ new = None /\ UNCHANGED erased
     \/ new \in EraseFailed(old) /\ erased' = FALSE
  /\ UNCHANGED <<memory, staging, staged, history>>

ClearMarker ==
  /\ flashMarker' \in {None, flashMarker}
  /\ ClearStep("clear_marker", "clear_candidate", flashMarker, flashMarker')
  /\ UNCHANGED <<flashCandidate, flashSlot>>

ClearCandidate ==
  /\ flashCandidate' \in {None, flashCandidate}
  /\ ClearStep("clear_candidate", "clear_slot0", flashCandidate, flashCandidate')
  /\ UNCHANGED <<flashSlot, flashMarker>>

ClearSlot(s, step, next) ==
  /\ \E bytes \in {None, flashSlot[s]} :
       /\ ClearStep(step, next, flashSlot[s], bytes)
       /\ flashSlot' = [flashSlot EXCEPT ![s] = bytes]
  /\ UNCHANGED <<flashCandidate, flashMarker>>

\* The metadata key belongs to the component that uses the store; only whether
\* its erase succeeded matters here.
ClearFinish ==
  /\ pc = "clear_metadata"
  /\ \/ /\ erased
        /\ active' = None /\ activeSlot' = 0 /\ candidate' = None
        /\ recordStatus' = "empty" /\ candidateStatus' = "empty"
        /\ storageFaulted' = FALSE
        /\ markerPresent' = FALSE /\ markerMatches' = FALSE
        /\ pc' = "idle" /\ staging' = None /\ erased' = TRUE
        /\ staged' = FALSE
        /\ settled' = None /\ prior' = None /\ pending' = None
        /\ clearTried' = FALSE
     \/ /\ ~erased \/ EraseFailed(None) # {}
        /\ Fail /\ UNCHANGED <<settled, prior, pending, clearTried>>
  /\ UNCHANGED <<flash, damage>>

-----------------------------------------------------------------------------
(* Flash wear: a stored value stops decoding. *)
Rot ==
  /\ damage < MaxDamage
  /\ damage' = damage + 1
  /\ \/ /\ flashCandidate # None
        /\ flashCandidate' = Corrupt
        /\ UNCHANGED <<flashSlot, flashMarker>>
     \/ /\ flashMarker # None
        /\ flashMarker' = Corrupt
        /\ UNCHANGED <<flashCandidate, flashSlot>>
     \/ \E s \in Slot :
          /\ flashSlot[s] # None
          /\ flashSlot' = [flashSlot EXCEPT ![s] = Corrupt]
          /\ UNCHANGED <<flashCandidate, flashMarker>>
  /\ UNCHANGED <<memory, pc, staging, erased, staged, settled, prior, pending, clearTried>>

\* Keys and slots whose reads may fail at start-up.
ReadKey == {"candidate", "marker", "slot0", "slot1"}

Commit ==
  \/ CommitBegin \/ FixMarkerWrite \/ FixMarkerVerify \/ EraseStaleMarker
  \/ SlotWrite \/ SlotVerify \/ MarkerWrite \/ MarkerVerify
  \/ RollbackMarker \/ EraseCandidate

Clear ==
  \/ ClearBegin \/ ClearMarker \/ ClearCandidate
  \/ ClearSlot(0, "clear_slot0", "clear_slot1")
  \/ ClearSlot(1, "clear_slot1", "clear_metadata")
  \/ ClearFinish

Next ==
  \/ \E unreadable \in (IF "lost" \in WriteFaults THEN SUBSET ReadKey ELSE {{}}) :
       Create(unreadable)
  \/ PowerLoss
  \/ \E payload \in Payload : StageWrite(payload)
  \/ StageVerify
  \/ Commit
  \/ Clear
  \/ Rot

Spec == Init /\ [][Next]_vars

-----------------------------------------------------------------------------
(* Properties *)

OptionalRecord == Record \cup {None}

ValuesOK ==
  /\ flashCandidate \in OptionalRecord \cup {Corrupt}
  /\ flashSlot \in [Slot -> OptionalRecord \cup {Corrupt}]
  /\ flashMarker \in Marker \cup Bad \cup {None}
  /\ active \in OptionalRecord /\ candidate \in OptionalRecord
  /\ activeSlot \in Slot
  /\ recordStatus \in Status /\ candidateStatus \in Status
  /\ pc \in Steps /\ staging \in OptionalRecord
  /\ settled \in OptionalRecord /\ prior \in OptionalRecord
  /\ pending \in OptionalRecord /\ damage \in 0..MaxDamage

FlagsOK ==
  /\ storageFaulted \in BOOLEAN
  /\ markerPresent \in BOOLEAN /\ markerMatches \in BOOLEAN
  /\ erased \in BOOLEAN /\ staged \in BOOLEAN /\ clearTried \in BOOLEAN

\* Types of NVS, of the fields of deck_transaction_store and of the operation
\* in progress; a generation is never 0.
TypeOK == ValuesOK /\ FlagsOK

(***************************************************************************)
(* A power loss at any moment leaves the last committed record or the one  *)
(* whose marker was being written, never nothing, never an older one, as   *)
(* long as no stored value has rotted and the marker itself decodes:       *)
(* deck_transaction_store_commit is all or nothing.  A clear that was cut  *)
(* short may leave nothing; one whose erases partly failed, and which      *)
(* reported so, may even leave the previous record.                        *)
(***************************************************************************)
CommitIsAtomic ==
  damage = 0 /\ flashMarker # Corrupt =>
    Recovered \in {settled, pending} \cup (IF clearTried THEN {None, prior} ELSE {})

(***************************************************************************)
(* Whatever rots and whatever write fails, a record whose marker was never *)
(* written cannot become active on a restart: not a staged candidate, and  *)
(* not the content of a slot a failed or interrupted commit left behind.   *)
(***************************************************************************)
OnlyPublishedRecovers == Recovered \in {None, settled, prior, pending}

(***************************************************************************)
(* Between operations a store that reports no fault holds in memory what a *)
(* restart would load, so a caller that reads deck_transaction_store_      *)
(* snapshot never acts on a record that would vanish.                      *)
(***************************************************************************)
MemoryMatchesFlash ==
  pc = "idle" /\ ~storageFaulted /\ damage = 0 => active = Recovered

(***************************************************************************)
(* With storage that reports its failures honestly the store implements    *)
(* one durable value (DurableRegister): at no instant, between any two NVS *)
(* accesses, does a restart see anything but the acknowledged value or the *)
(* one being published.                                                    *)
(***************************************************************************)
Register == INSTANCE DurableRegister
              WITH value <- Recovered, wiping <- clearTried

ImplementsRegister == Register!Spec

=============================================================================
