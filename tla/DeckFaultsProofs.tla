-------------------------- MODULE DeckFaultsProofs --------------------------
(***************************************************************************)
(* Proofs about two parts of the Deck under their faults.  The transaction *)
(* store, for every set of payloads, every generation width and any number *)
(* of faults and rotted values; and over-the-air updates, for images of    *)
(* any length, any offers and chunks, queues of any depth and any number   *)
(* of aborts and restarts.                                                 *)
(***************************************************************************)
EXTENDS MCDeckFaults, TLAPS

-----------------------------------------------------------------------------
(* The inductive invariant *)

ClearSteps == {"clear_marker", "clear_candidate", "clear_slot0", "clear_slot1",
               "clear_metadata"}

\* The store works on a readable marker: every operation but clear may run.
Live == pc # "off" /\ ~storageFaulted /\ pc \notin ClearSteps

SelectedHolds == Holds(flashMarker.slot, flashMarker.gen)
PreviousHolds ==
  flashMarker.prevGen # 0 /\ Holds(flashMarker.prevSlot, flashMarker.prevGen)
SelectedRecord == flashSlot[flashMarker.slot]
PreviousRecord == flashSlot[flashMarker.prevSlot]

\* What NVS says, whatever happened to it: a marker selects the acknowledged
\* record or the one being published, and falls back to the one before it.
MarkerShape ==
  flashMarker \in Marker /\ flashMarker.prevGen # 0 =>
    /\ flashMarker.prevSlot # flashMarker.slot
    /\ flashMarker.gen = NextGeneration(flashMarker.prevGen)

SelectsPublished ==
  flashMarker \in Marker /\ SelectedHolds => SelectedRecord \in {settled, pending}

FallsBack ==
  flashMarker \in Marker /\ PreviousHolds =>
    /\ PreviousRecord \in {settled, prior}
    /\ SelectedHolds /\ SelectedRecord = settled => PreviousRecord = prior
    /\ SelectedHolds /\ SelectedRecord # settled => PreviousRecord = settled

PendingFollows ==
  pending # None =>
    pending.gen = IF settled = None THEN 1 ELSE NextGeneration(settled.gen)

FlashInv == MarkerShape /\ SelectsPublished /\ FallsBack /\ PendingFollows

\* What the store in memory knows of it.
NamesActive ==
  /\ active # None
  /\ flashMarker \in Marker
  /\ flashMarker.slot = activeSlot /\ flashMarker.gen = active.gen

MemoryInv ==
  Live =>
    /\ active = settled
    /\ active # None => flashSlot[activeSlot] \in {active, Corrupt}
    /\ pc \notin {"marker_verify", "rollback"} =>
         /\ markerMatches => active # None /\ (NamesActive \/ flashMarker = Corrupt)
         /\ ~markerPresent => flashMarker = None /\ active = None
         /\ pending = None
    /\ pc \in {"marker_verify", "rollback"} => pending = candidate

StepInv ==
  Live =>
    /\ staged => candidate # None /\ candidate.gen = StageGeneration
    /\ pc \in {"fix_marker", "fix_verify", "erase_marker", "slot_write",
               "slot_verify", "marker_write", "marker_verify", "rollback"} => staged
    /\ pc = "erase_candidate" => ~staged
    /\ pc = "stage_verify" => staging # None /\ staging.gen = StageGeneration
    /\ pc \in {"fix_marker", "fix_verify"} => active # None /\ ~markerMatches
    /\ pc = "erase_marker" => active = None /\ ~markerMatches
    /\ pc \in {"slot_write", "slot_verify", "marker_write"} =>
         IF active # None THEN markerMatches ELSE ~markerPresent
    /\ pc \in {"marker_write", "marker_verify"} =>
         flashSlot[NextSlot] \in {candidate, Corrupt}

ClearInv ==
  pc \in ClearSteps /\ pc # "clear_marker" /\ erased => flashMarker = None

\* What holds as long as no stored value has rotted: the settled record is found
\* (SettledFound), and the store in memory agrees with NVS (ActiveSound).
SettledFound ==
  damage = 0 /\ ~clearTried =>
    /\ settled = None => ~(flashMarker \in Marker /\ PreviousHolds)
    /\ settled # None /\ flashMarker # Corrupt =>
         /\ flashMarker \in Marker
         /\ SelectedHolds \/ (PreviousHolds /\ PreviousRecord = settled)

ActiveSound ==
  damage = 0 =>
    /\ pc \in ClearSteps => clearTried
    /\ Live =>
         /\ active # None => flashSlot[activeSlot] = active
         /\ pc \in {"marker_write", "marker_verify"} => flashSlot[NextSlot] = candidate
         /\ pc \in {"idle", "stage_verify", "erase_candidate"} => active = Recovered

Inv == TypeOK /\ FlashInv /\ MemoryInv /\ StepInv /\ ClearInv

-----------------------------------------------------------------------------
(* Generations *)

\* The generation after g is a generation, and two steps do not lead back to g.
LEMMA Generations ==
  /\ \A g \in Generation : NextGeneration(g) \in Generation
  /\ \A g \in Generation : NextGeneration(g) # g
  /\ \A g \in Generation : NextGeneration(NextGeneration(g)) # g
BY StoreAssumption DEF Generation, NextGeneration

\* A marker for a record of the store is well formed.
LEMMA MarkerForType ==
  ASSUME NEW s \in Slot, NEW record \in Record,
         NEW prevSlot \in Slot, NEW prev \in OptionalRecord
  PROVE  MarkerFor(s, record, prevSlot, prev) \in Marker
BY StoreAssumption DEF MarkerFor, Marker, Record, OptionalRecord, Slot, Generation

\* The candidate's generation is one, in every state.
LEMMA StageGenerationType ==
  ASSUME TypeOK PROVE StageGeneration \in Generation
<1>1. CASE active = None
  BY <1>1, StoreAssumption DEF StageGeneration, Generation
<1>2. CASE active # None
  <2>1. active.gen \in Generation
    BY <1>2 DEF TypeOK, ValuesOK, OptionalRecord, Record
  <2> QED BY <1>2, <2>1, Generations DEF StageGeneration
<1> QED BY <1>1, <1>2

\* Every write leaves the old value, the new one, or bytes that do not decode.
LEMMA WriteValue ==
  ASSUME NEW old, NEW new
  PROVE  /\ Written(new) \subseteq {new, Corrupt}
         /\ WriteFailed(old, new) \subseteq {old, new}
         /\ EraseFailed(old) \subseteq {old, None}
BY DEF Written, WriteFailed, EraseFailed

-----------------------------------------------------------------------------
(* Type correctness *)

CommitSteps == {"fix_marker", "fix_verify", "erase_marker", "slot_write",
                "slot_verify", "marker_write", "marker_verify", "rollback"}

\* The records a commit step writes exist.
PcInv ==
  /\ pc \in {"fix_marker", "fix_verify"} => active # None
  /\ pc \in CommitSteps => candidate # None /\ ~storageFaulted

TypeInv == TypeOK /\ PcInv

\* The markers a commit writes are well formed.
LEMMA MarkersType ==
  ASSUME TypeOK
  PROVE  /\ NextSlot \in Slot
         /\ active # None => ActiveMarker \in Marker
         /\ candidate # None => CandidateMarker \in Marker
<1>1. NextSlot \in Slot
  BY DEF TypeOK, ValuesOK, NextSlot, Slot
<1>2. ASSUME active # None PROVE ActiveMarker \in Marker
  <2>1. active \in Record /\ activeSlot \in Slot /\ 0 \in Slot /\ None \in OptionalRecord
    BY <1>2 DEF TypeOK, ValuesOK, OptionalRecord, Slot
  <2> QED BY <2>1, MarkerForType DEF ActiveMarker
<1>3. ASSUME candidate # None PROVE CandidateMarker \in Marker
  <2>1. candidate \in Record /\ activeSlot \in Slot /\ active \in OptionalRecord
    BY <1>3 DEF TypeOK, ValuesOK, OptionalRecord
  <2> QED BY <1>1, <2>1, MarkerForType DEF CandidateMarker
<1> QED BY <1>1, <1>2, <1>3

\* The initial state is well typed.
LEMMA TypeInit == Init => TypeInv
<1> SUFFICES ASSUME Init PROVE TypeInv
  OBVIOUS
<1>1. ValuesOK
  BY StoreAssumption DEF Init, ValuesOK, OptionalRecord, Bad, Slot, Status, Steps
<1>2. FlagsOK
  BY DEF Init, FlagsOK
<1>3. PcInv
  BY DEF Init, PcInv, CommitSteps
<1> QED BY <1>1, <1>2, <1>3 DEF TypeInv, TypeOK

\* The flags stay Boolean.
LEMMA FlagsNext == FlagsOK /\ [Next]_vars => FlagsOK'
<1> SUFFICES ASSUME FlagsOK, [Next]_vars PROVE FlagsOK'
  OBVIOUS
<1> USE DEF FlagsOK, Fail, Continue, ClearStep, memory, history
<1>1. ASSUME NEW u \in SUBSET ReadKey, Create(u) PROVE FlagsOK'
  BY <1>1, Zenon DEF Create, LoadFaulted
<1>2. CASE PowerLoss \/ (\E p \in Payload : StageWrite(p)) \/ StageVerify
  BY <1>2, Zenon DEF PowerLoss, StageWrite, StageVerify
<1>3. CASE CommitBegin \/ FixMarkerWrite \/ FixMarkerVerify \/ EraseStaleMarker
  BY <1>3, Zenon DEF CommitBegin, FixMarkerWrite, FixMarkerVerify, EraseStaleMarker
<1>4. CASE SlotWrite \/ SlotVerify \/ MarkerWrite \/ MarkerVerify
  BY <1>4, Zenon DEF SlotWrite, SlotVerify, MarkerWrite, MarkerVerify
<1>5. CASE RollbackMarker \/ EraseCandidate
  BY <1>5, Zenon DEF RollbackMarker, EraseCandidate
<1>6. CASE Clear
  BY <1>6, Zenon DEF Clear, ClearBegin, ClearMarker, ClearCandidate, ClearSlot, ClearFinish
<1>7. CASE Rot \/ UNCHANGED vars
  BY <1>7, Zenon DEF Rot, vars
<1> QED BY <1>1, <1>2, <1>3, <1>4, <1>5, <1>6, <1>7 DEF Next, Commit

\* Every step of the store keeps it well typed.
LEMMA TypeNext == TypeInv /\ [Next]_vars => TypeInv'
<1> SUFFICES ASSUME ValuesOK, PcInv, FlagsOK, [Next]_vars PROVE ValuesOK' /\ PcInv'
  BY FlagsNext DEF TypeInv, TypeOK
<1> USE DEF PcInv, CommitSteps, OptionalRecord
<1>m. /\ NextSlot \in Slot
      /\ active # None => ActiveMarker \in Marker
      /\ candidate # None => CandidateMarker \in Marker
  BY MarkersType DEF TypeOK
<1>1. ASSUME NEW u \in SUBSET ReadKey, Create(u) PROVE ValuesOK' /\ PcInv'
  <2>1. active' \in OptionalRecord
    BY <1>1 DEF Create, ActiveAfterLoad, Selected, Previous, Holds
  <2>2. activeSlot' \in Slot
    <3>1. CASE flashMarker \in Marker
      BY <1>1, <3>1 DEF Create, Marker, Slot
    <3>2. CASE flashMarker \notin Marker
      BY <1>1, <3>2 DEF Create, ActiveAfterLoad, Slot
    <3> QED BY <3>1, <3>2
  <2>3. candidate' \in OptionalRecord /\ candidateStatus' \in Status
    BY <1>1 DEF Create, LoadCandidate, Status, status_for_decode
  <2>4. recordStatus' \in Status
    BY <1>1 DEF Create, LoadStatus, Status, status_for_decode
  <2>6. settled' \in OptionalRecord /\ prior' \in OptionalRecord
        /\ pending' \in OptionalRecord
    BY <1>1, <2>1 DEF Create, ValuesOK
  <2> QED
    BY <1>1, <2>1, <2>2, <2>3, <2>4, <2>6 DEF Create, ValuesOK, flash, Steps
<1>2. CASE PowerLoss
  BY <1>2 DEF PowerLoss, ValuesOK, flash, history, Slot, Status, Steps
<1>3. ASSUME NEW p \in Payload, StageWrite(p) PROVE ValuesOK' /\ PcInv'
  <2> DEFINE new == [gen |-> StageGeneration, payload |-> p]
  <2>1. new \in Record
    BY StageGenerationType DEF Record, TypeOK
  <2>2. flashCandidate' \in OptionalRecord \cup {Corrupt}
    BY <1>3, <2>1, WriteValue DEF StageWrite, ValuesOK
  <2> QED
    BY <1>3, <2>1, <2>2
    DEF StageWrite, Continue, Fail, ValuesOK, memory, history, Steps
<1>4. CASE StageVerify
  BY <1>4 DEF StageVerify, Fail, ValuesOK, flash, history, Steps, Status
<1>5. CASE CommitBegin
  BY <1>5 DEF CommitBegin, Continue, ValuesOK, flash, memory, history, Steps
<1>6. CASE FixMarkerWrite
  <2>1. flashMarker' \in Marker \cup Bad \cup {None}
    BY <1>6, <1>m, WriteValue DEF FixMarkerWrite, ValuesOK, Bad
  <2> QED
    BY <1>6, <2>1 DEF FixMarkerWrite, Continue, Fail, ValuesOK, memory, history, Steps
<1>7. CASE FixMarkerVerify
  BY <1>7 DEF FixMarkerVerify, Fail, ValuesOK, flash, history, Steps
<1>8. CASE EraseStaleMarker
  <2>1. flashMarker' \in Marker \cup Bad \cup {None}
    BY <1>8, WriteValue DEF EraseStaleMarker, ValuesOK
  <2> QED
    BY <1>8, <2>1 DEF EraseStaleMarker, Fail, ValuesOK, history, Steps
<1>9. CASE SlotWrite
  <2>1. flashSlot' \in [Slot -> OptionalRecord \cup {Corrupt}]
    <3>1. PICK bytes \in Written(candidate) \cup WriteFailed(flashSlot[NextSlot], candidate) :
            flashSlot' = [flashSlot EXCEPT ![NextSlot] = bytes]
      BY <1>9, Zenon DEF SlotWrite
    <3>2. bytes \in OptionalRecord \cup {Corrupt}
      BY <1>9, <1>m, WriteValue DEF SlotWrite, ValuesOK
    <3> QED BY <3>1, <3>2 DEF ValuesOK
  <2> QED
    BY <1>9, <2>1 DEF SlotWrite, Continue, Fail, ValuesOK, memory, history, Steps
<1>10. CASE SlotVerify
  BY <1>10 DEF SlotVerify, Continue, Fail, ValuesOK, flash, memory, history, Steps
<1>11. CASE MarkerWrite
  <2>1. flashMarker' \in Marker \cup Bad \cup {None}
    <3>1. CandidateMarker \in Marker
      BY <1>11, <1>m DEF MarkerWrite
    <3>2. flashMarker' \in {flashMarker, CandidateMarker, Corrupt}
      BY <1>11, WriteValue DEF MarkerWrite
    <3> QED BY <3>1, <3>2 DEF ValuesOK, Bad
  <2> QED
    BY <1>11, <2>1 DEF MarkerWrite, Continue, ValuesOK, memory, Steps
<1>12. CASE MarkerVerify
  BY <1>12, <1>m DEF MarkerVerify, Continue, ValuesOK, flash, memory, history, Steps, Status
<1>13. CASE RollbackMarker
  <2>1. flashMarker' \in Marker \cup Bad \cup {None}
    BY <1>13, <1>m, WriteValue DEF RollbackMarker, ValuesOK, Bad
  <2> QED
    BY <1>13, <2>1 DEF RollbackMarker, Fail, ValuesOK, history, Steps
<1>14. CASE EraseCandidate
  <2>1. flashCandidate' \in OptionalRecord \cup {Corrupt}
    BY <1>14, WriteValue DEF EraseCandidate, ValuesOK
  <2> QED
    BY <1>14, <2>1 DEF EraseCandidate, ValuesOK, history, Steps, Status
<1>15. CASE ClearBegin
  BY <1>15 DEF ClearBegin, ValuesOK, flash, memory, Steps
<1>16. CASE ClearMarker
  BY <1>16 DEF ClearMarker, ClearStep, ValuesOK, memory, history, Steps
<1>17. CASE ClearCandidate
  BY <1>17 DEF ClearCandidate, ClearStep, ValuesOK, memory, history, Steps
<1>18. ASSUME NEW s \in Slot, NEW step \in Steps, NEW next \in Steps \ CommitSteps,
              ClearSlot(s, step, next)
       PROVE  ValuesOK' /\ PcInv'
  <2>1. flashSlot' \in [Slot -> OptionalRecord \cup {Corrupt}]
    BY <1>18 DEF ClearSlot, ValuesOK
  <2> QED
    BY <1>18, <2>1 DEF ClearSlot, ClearStep, ValuesOK, memory, history
<1>19. CASE ClearFinish
  BY <1>19 DEF ClearFinish, Fail, ValuesOK, flash, Steps, Status, Slot
<1>20. CASE Rot
  BY <1>20, StoreAssumption DEF Rot, ValuesOK, memory, Bad
<1>21. CASE UNCHANGED vars
  BY <1>21 DEF ValuesOK, vars, flash, memory, history
<1>22. CASE Clear
  <2>1. /\ 0 \in Slot /\ 1 \in Slot
        /\ {"clear_slot0", "clear_slot1", "clear_metadata"} \subseteq Steps \ CommitSteps
    BY DEF Slot, Steps
  <2> QED
    BY <1>15, <1>16, <1>17, <1>18, <1>19, <1>22, <2>1 DEF Clear
<1> QED
  BY <1>1, <1>2, <1>3, <1>4, <1>5, <1>6, <1>7, <1>8, <1>9, <1>10, <1>11, <1>12,
     <1>13, <1>14, <1>20, <1>21, <1>22
  DEF Next, Commit

\* NVS, the store in memory and the operation in progress stay within their
\* types, whatever writes fail: in particular a generation never becomes 0.
THEOREM TypeCorrect == Spec => []TypeOK
<1>1. TypeInv => TypeOK
  BY DEF TypeInv
<1> QED BY TypeInit, TypeNext, <1>1, PTL DEF Spec
-----------------------------------------------------------------------------
(* Only published records come back *)

\* The sentinels are neither records nor markers.
LEMMA Sentinels ==
  /\ None \notin Record /\ Corrupt \notin Record /\ None # Corrupt
  /\ None \notin Marker /\ Corrupt \notin Marker
BY StoreAssumption DEF Bad

\* A slot that is erased or rots cannot make a marker select more.
LEMMA LosingSlots ==
  ASSUME FlashInv, ValuesOK, ValuesOK', UNCHANGED <<flashMarker, settled, prior, pending>>,
         \A s \in Slot : flashSlot'[s] = flashSlot[s] \/ flashSlot'[s] \notin Record
  PROVE  FlashInv'
BY DEF FlashInv, MarkerShape, SelectsPublished, FallsBack, PendingFollows,
       SelectedHolds, PreviousHolds, SelectedRecord, PreviousRecord, Holds, ValuesOK, Marker

\* A marker that is erased or does not decode selects nothing.
LEMMA LosingMarker ==
  ASSUME FlashInv, flashMarker' \notin Marker, UNCHANGED <<settled, pending>>
  PROVE  FlashInv'
BY DEF FlashInv, MarkerShape, SelectsPublished, FallsBack, PendingFollows

\* Writing back a marker that names the active record alone.
LEMMA RestoringMarker ==
  ASSUME FlashInv, ValuesOK, active # None, active = settled,
         flashSlot[activeSlot] \in {active, Corrupt},
         flashMarker' = ActiveMarker, UNCHANGED <<flashSlot, settled, pending>>
  PROVE  FlashInv'
<1>1. /\ flashMarker'.slot = activeSlot /\ flashMarker'.gen = active.gen
      /\ flashMarker'.prevGen = 0
  BY DEF ActiveMarker, MarkerFor
<1>2. SelectsPublished'
  BY <1>1, Sentinels DEF SelectsPublished, SelectedHolds, SelectedRecord, Holds
<1> QED
  BY <1>1, <1>2 DEF FlashInv, MarkerShape, FallsBack, PreviousHolds, PendingFollows

\* Publishing the candidate over the active record.
LEMMA Publishing ==
  ASSUME FlashInv, ValuesOK, Live, MemoryInv, StepInv, pc = "marker_write",
         flashMarker' = CandidateMarker, pending' = candidate,
         UNCHANGED <<flashSlot, settled, prior>>
  PROVE  FlashInv'
<1>1. /\ active = settled /\ candidate # None /\ candidate.gen = StageGeneration
      /\ active # None => flashSlot[activeSlot] \in {active, Corrupt}
      /\ flashSlot[NextSlot] \in {candidate, Corrupt}
  BY DEF MemoryInv, StepInv
<1>2. /\ flashMarker'.slot = NextSlot /\ flashMarker'.gen = candidate.gen
      /\ active = None => flashMarker'.prevGen = 0
      /\ active # None =>
           flashMarker'.prevSlot = activeSlot /\ flashMarker'.prevGen = active.gen
  BY DEF CandidateMarker, MarkerFor
<1>3. active # None => NextSlot # activeSlot
  BY DEF NextSlot, ValuesOK, Slot
<1>4. active # None => candidate.gen = NextGeneration(active.gen)
  BY <1>1 DEF StageGeneration
<1>5. candidate # settled
  <2>1. active # None => active.gen \in Generation
    BY DEF ValuesOK, OptionalRecord, Record
  <2> QED BY <1>1, <1>4, <2>1, Generations
<1>6. MarkerShape' /\ SelectsPublished' /\ PendingFollows'
  BY <1>1, <1>2, <1>3, <1>4, Sentinels
  DEF MarkerShape, SelectsPublished, SelectedHolds, SelectedRecord, Holds,
      PendingFollows, StageGeneration
<1>7. FallsBack'
  BY <1>1, <1>2, <1>3, <1>5, Sentinels
  DEF FallsBack, SelectedHolds, PreviousHolds, SelectedRecord, PreviousRecord, Holds
<1> QED BY <1>6, <1>7 DEF FlashInv

\* Writing the slot that is not active: what the marker falls back to is an
\* older generation than the candidate's, so the marker cannot select it.
LEMMA FillingSlot ==
  ASSUME FlashInv, ValuesOK, Live, MemoryInv, StepInv, pc = "slot_write",
         NEW bytes \in {candidate, Corrupt, flashSlot[NextSlot]},
         flashSlot' = [flashSlot EXCEPT ![NextSlot] = bytes],
         UNCHANGED <<flashMarker, settled, prior, pending>>
  PROVE  FlashInv'
<1>1. CASE flashMarker \notin Marker
  BY <1>1 DEF FlashInv, MarkerShape, SelectsPublished, FallsBack, PendingFollows
<1>2. CASE flashMarker \in Marker
  <2>1. /\ active # None
        /\ flashMarker.slot = activeSlot /\ flashMarker.gen = active.gen
    BY <1>2, Sentinels DEF MemoryInv, StepInv, NamesActive
  <2>2. /\ NextSlot # activeSlot /\ NextSlot \in Slot /\ activeSlot \in Slot
        /\ flashSlot \in [Slot -> OptionalRecord \cup {Corrupt}]
    BY <2>1 DEF NextSlot, ValuesOK, Slot
  <2>3. flashSlot'[activeSlot] = flashSlot[activeSlot] /\ flashSlot'[NextSlot] = bytes
    BY <2>2
  <2>4. candidate.gen = NextGeneration(active.gen)
    BY <2>1 DEF StepInv, StageGeneration
  <2>5. CASE flashMarker.prevGen = 0
    BY <2>1, <2>3, <2>5
    DEF FlashInv, MarkerShape, SelectsPublished, FallsBack, PendingFollows,
        SelectedHolds, PreviousHolds, SelectedRecord, PreviousRecord, Holds
  <2>6. CASE flashMarker.prevGen # 0
    <3>1. /\ flashMarker.prevSlot = NextSlot
          /\ active.gen = NextGeneration(flashMarker.prevGen)
      BY <1>2, <2>1, <2>2, <2>6 DEF FlashInv, MarkerShape, Marker, Slot
    <3>2. flashMarker.prevGen \in Generation
      BY <1>2, <2>6, StoreAssumption DEF Marker, Generation
    <3>3. candidate.gen # flashMarker.prevGen
      BY <2>4, <3>1, <3>2, Generations
    <3>4. PreviousHolds' => bytes = flashSlot[NextSlot]
      BY <2>3, <3>1, <3>3, Sentinels DEF PreviousHolds, Holds
    <3> QED
      BY <2>1, <2>3, <3>1, <3>4
      DEF FlashInv, MarkerShape, SelectsPublished, FallsBack, PendingFollows,
          SelectedHolds, PreviousHolds, SelectedRecord, PreviousRecord, Holds
  <2> QED BY <2>5, <2>6
<1> QED BY <1>1, <1>2

\* A restart adopts what it finds: what the marker selected or fell back to is
\* the settled record from then on, and the one before it stays known.
LEMMA Restarting ==
  ASSUME FlashInv, ValuesOK, NEW u \in SUBSET ReadKey, Create(u)
  PROVE  FlashInv' /\ MemoryInv' /\ StepInv' /\ ClearInv'
<1> USE DEF flash
<1>1. UNCHANGED <<flashMarker, flashSlot>>
  BY DEF Create
<1>2. StepInv' /\ ClearInv'
  <2>1. pc' = "idle" /\ ~staged'
    BY DEF Create
  <2> QED BY <2>1 DEF StepInv, ClearInv, ClearSteps
<1>3. CASE storageFaulted'
  <2>1. UNCHANGED <<settled, prior, pending>>
    BY <1>3 DEF Create
  <2> QED
    BY <1>1, <1>2, <1>3, <2>1
    DEF FlashInv, MarkerShape, SelectsPublished, FallsBack, PendingFollows,
        SelectedHolds, PreviousHolds, SelectedRecord, PreviousRecord, Holds,
        MemoryInv, Live
<1>4. CASE ~storageFaulted'
  <2>1. /\ settled' = active' /\ pending' = None
        /\ prior' = IF active' = settled THEN prior ELSE settled
    BY <1>4 DEF Create
  <2>2. "marker" \notin u
    BY <1>4 DEF Create, LoadFaulted
  <2>3. CASE flashMarker \notin Marker
    <3>1. active' = None /\ markerMatches' = FALSE
          /\ (markerPresent' <=> flashMarker # None)
      BY <2>2, <2>3, Sentinels
      DEF Create, ActiveAfterLoad, LoadStatus, status_for_decode
    <3>2. FlashInv'
      BY <1>1, <2>1, <2>3
      DEF FlashInv, MarkerShape, SelectsPublished, FallsBack, PendingFollows
    <3> QED
      BY <1>1, <1>2, <2>1, <3>1, <3>2 DEF MemoryInv, Create
  <2>4. CASE flashMarker \in Marker /\ Selected(flashMarker, u)
    <3>1. active' = SelectedRecord /\ active' \in Record /\ activeSlot' = flashMarker.slot
      BY <2>2, <2>4, Sentinels
      DEF Create, ActiveAfterLoad, Selected, Holds, SelectedRecord
    <3>2. SelectedHolds /\ flashMarker.gen = active'.gen
      BY <2>4, <3>1 DEF Selected, SelectedHolds, SelectedRecord, Holds
    <3>3. FlashInv'
      BY <1>1, <2>1, <2>4, <3>1, <3>2, Sentinels
      DEF FlashInv, MarkerShape, SelectsPublished, FallsBack, PendingFollows,
          SelectedHolds, PreviousHolds, SelectedRecord, PreviousRecord, Holds
    <3>4. markerPresent' = TRUE /\ pc' = "idle"
      BY <2>2, <2>4, Sentinels DEF Create
    <3>5. MemoryInv'
      BY <1>1, <2>1, <2>4, <3>1, <3>2, <3>4, Sentinels
      DEF MemoryInv, NamesActive, SelectedRecord
    <3> QED BY <1>2, <3>3, <3>5
  <2>5. CASE flashMarker \in Marker /\ ~Selected(flashMarker, u)
    <3>1. ~SelectedHolds
      BY <1>4, <2>2, <2>5 DEF Create, LoadFaulted, Selected, SelectedHolds
    <3>2. markerPresent' = TRUE /\ markerMatches' = FALSE /\ pc' = "idle"
      BY <1>4, <2>2, <2>5, Sentinels
      DEF Create, LoadStatus, LoadFaulted, status_for_decode
    <3>3. CASE Previous(flashMarker, u)
      <4>1. /\ PreviousHolds /\ active' = PreviousRecord /\ active' \in Record
            /\ activeSlot' = flashMarker.prevSlot
        BY <2>2, <2>5, <3>3, Sentinels
        DEF Create, ActiveAfterLoad, Previous, PreviousHolds, PreviousRecord, Holds
      <4>2. FlashInv'
        BY <1>1, <2>1, <3>1, <4>1
        DEF FlashInv, MarkerShape, SelectsPublished, FallsBack, PendingFollows,
            SelectedHolds, PreviousHolds, SelectedRecord, PreviousRecord, Holds
      <4>3. MemoryInv'
        BY <1>1, <2>1, <3>2, <4>1 DEF MemoryInv, PreviousRecord
      <4> QED BY <1>2, <4>2, <4>3
    <3>4. CASE ~Previous(flashMarker, u)
      <4>1. active' = None /\ ~PreviousHolds
        BY <1>4, <2>2, <2>5, <3>4
        DEF Create, ActiveAfterLoad, Previous, PreviousHolds, LoadFaulted
      <4>2. FlashInv'
        BY <1>1, <2>1, <3>1, <4>1
        DEF FlashInv, MarkerShape, SelectsPublished, FallsBack, PendingFollows,
            SelectedHolds, PreviousHolds, SelectedRecord, PreviousRecord, Holds
      <4>3. MemoryInv'
        BY <2>1, <3>2, <4>1 DEF MemoryInv
      <4> QED BY <1>2, <4>2, <4>3
    <3> QED BY <3>3, <3>4
  <2> QED BY <2>3, <2>4, <2>5
<1> QED
  BY <1>2, <1>3, <1>4

\* The invariant holds of a blank device.
LEMMA InvInit == Init => FlashInv /\ MemoryInv /\ StepInv /\ ClearInv
BY StoreAssumption
DEF Init, FlashInv, MarkerShape, SelectsPublished, FallsBack, PendingFollows,
    MemoryInv, StepInv, ClearInv, ClearSteps, Live, Bad

\* A step that gives up leaves the store faulted, which only a clear or a
\* restart ends: nothing but NVS has to be accounted for.
LEMMA Failing == ASSUME Fail PROVE MemoryInv' /\ StepInv' /\ ClearInv'
BY DEF Fail, MemoryInv, StepInv, ClearInv, Live, ClearSteps

\* Every step of the store keeps the invariant.
LEMMA InvNext ==
  ASSUME FlashInv, MemoryInv, StepInv, ClearInv, TypeInv, TypeInv', [Next]_vars
  PROVE  FlashInv' /\ MemoryInv' /\ StepInv' /\ ClearInv'
<1> DEFINE Goal == FlashInv' /\ MemoryInv' /\ StepInv' /\ ClearInv'
<1> ValuesOK /\ ValuesOK' /\ PcInv /\ PcInv'
  BY DEF TypeInv, TypeOK
<1>u. ASSUME UNCHANGED <<flashMarker, flashSlot, settled, prior, pending>> PROVE FlashInv'
  BY <1>u
  DEF FlashInv, MarkerShape, SelectsPublished, FallsBack, PendingFollows,
      SelectedHolds, PreviousHolds, SelectedRecord, PreviousRecord, Holds
<1>1. ASSUME NEW u \in SUBSET ReadKey, Create(u) PROVE Goal
  BY <1>1, Restarting
<1>2. CASE PowerLoss
  BY <1>2, <1>u
  DEF PowerLoss, flash, history, MemoryInv, StepInv, ClearInv, Live, ClearSteps
<1>3. ASSUME NEW p \in Payload, StageWrite(p) PROVE Goal
  <2>1. FlashInv'
    BY <1>3, <1>u DEF StageWrite, history
  <2>2. CASE Fail
    BY <2>1, <2>2, Failing
  <2>3. CASE Continue("stage_verify") /\ staging' = [gen |-> StageGeneration, payload |-> p]
    <3>1. /\ UNCHANGED <<flashMarker, flashSlot, settled, pending, active, activeSlot,
                         candidate, storageFaulted, markerPresent, markerMatches, staged>>
          /\ pc = "idle" /\ pc' = "stage_verify"
      BY <1>3, <2>3 DEF StageWrite, Continue, memory, history
    <3>2. [gen |-> StageGeneration, payload |-> p] # None
      BY Sentinels, StageGenerationType DEF Record, TypeInv
    <3>3. MemoryInv'
      BY <3>1 DEF MemoryInv, Live, NamesActive, ClearSteps
    <3> QED
      BY <2>1, <2>3, <3>1, <3>2, <3>3
      DEF StepInv, Live, ClearInv, ClearSteps, StageGeneration
  <2> QED BY <1>3, <2>2, <2>3 DEF StageWrite
<1>4. CASE StageVerify
  <2>1. FlashInv'
    BY <1>4, <1>u DEF StageVerify, flash, history
  <2>2. CASE Fail
    BY <2>1, <2>2, Failing
  <2>3. CASE ~Fail
    <3>1. /\ UNCHANGED <<flashMarker, flashSlot, settled, pending, active, activeSlot,
                         storageFaulted, markerPresent, markerMatches>>
          /\ candidate' = staging /\ pc = "stage_verify" /\ pc' = "idle" /\ staged'
      BY <1>4, <2>3 DEF StageVerify, flash, history
    <3>2. MemoryInv'
      BY <3>1 DEF MemoryInv, Live, NamesActive, ClearSteps
    <3> QED
      BY <2>1, <3>1, <3>2 DEF StepInv, Live, ClearInv, ClearSteps, StageGeneration
  <2> QED BY <2>2, <2>3
<1>5. CASE CommitBegin
  <2>1. FlashInv'
    BY <1>5, <1>u DEF CommitBegin, flash, history
  <2>2. /\ UNCHANGED <<flashMarker, flashSlot, settled, pending, active, activeSlot,
                       candidate, storageFaulted, markerPresent, markerMatches, staged>>
        /\ pc = "idle" /\ staged
        /\ pc' = IF active # None
                   THEN IF markerMatches THEN "slot_write" ELSE "fix_marker"
                   ELSE IF markerPresent THEN "erase_marker" ELSE "slot_write"
    BY <1>5 DEF CommitBegin, Continue, flash, history, memory
  <2>3. MemoryInv'
    BY <2>2 DEF MemoryInv, Live, NamesActive, ClearSteps
  <2>4. StepInv'
    BY <2>2 DEF StepInv, MemoryInv, Live, ClearSteps, StageGeneration
  <2> QED
    BY <2>1, <2>2, <2>3, <2>4 DEF ClearInv, ClearSteps
<1>6. CASE FixMarkerWrite
  <2>0. Live
    BY <1>6 DEF FixMarkerWrite, Live, PcInv, CommitSteps, ClearSteps
  <2>1. FlashInv'
    <3>1. flashMarker' \in {flashMarker, ActiveMarker, Corrupt}
      BY <1>6, WriteValue DEF FixMarkerWrite
    <3>2. /\ UNCHANGED <<flashSlot, settled, prior, pending>>
          /\ active # None /\ active = settled
          /\ flashSlot[activeSlot] \in {active, Corrupt}
      BY <1>6, <2>0 DEF FixMarkerWrite, history, PcInv, MemoryInv
    <3> QED
      BY <3>1, <3>2, <1>u, RestoringMarker, LosingMarker, Sentinels
  <2>2. CASE Fail
    BY <2>1, <2>2, Failing
  <2>3. CASE Continue("fix_verify")
    <3>1. /\ UNCHANGED <<flashSlot, settled, pending, active, activeSlot,
                         candidate, storageFaulted, markerPresent, markerMatches, staged>>
          /\ pc = "fix_marker" /\ pc' = "fix_verify"
      BY <1>6, <2>3 DEF FixMarkerWrite, Continue, memory, history
    <3>2. MemoryInv'
      BY <2>0, <3>1 DEF MemoryInv, StepInv, Live, ClearSteps
    <3> QED
      BY <2>0, <2>1, <3>1, <3>2 DEF StepInv, ClearInv, ClearSteps, StageGeneration
  <2> QED BY <1>6, <2>2, <2>3 DEF FixMarkerWrite
<1>7. CASE FixMarkerVerify
  <2>0. Live
    BY <1>7 DEF FixMarkerVerify, Live, PcInv, CommitSteps, ClearSteps
  <2>1. FlashInv'
    BY <1>7, <1>u DEF FixMarkerVerify, flash, history
  <2>2. CASE Fail
    BY <2>1, <2>2, Failing
  <2>3. CASE ~Fail
    <3>1. /\ UNCHANGED <<flashMarker, flashSlot, settled, pending, active, activeSlot,
                         candidate, storageFaulted, staged>>
          /\ markerPresent' /\ markerMatches' /\ flashMarker = ActiveMarker
          /\ pc = "fix_verify" /\ pc' = "slot_write"
      BY <1>7, <2>3 DEF FixMarkerVerify, flash, history
    <3>2. NamesActive'
      <4>1. active # None
        BY <3>1 DEF PcInv
      <4>2. ActiveMarker \in Marker
        BY <4>1, MarkersType DEF TypeInv
      <4> QED
        BY <3>1, <4>1, <4>2 DEF NamesActive, ActiveMarker, MarkerFor
    <3>3. MemoryInv'
      BY <2>0, <3>1, <3>2 DEF MemoryInv, NamesActive
    <3> QED
      BY <2>0, <2>1, <3>1, <3>2, <3>3
      DEF StepInv, NamesActive, ClearInv, ClearSteps, StageGeneration
  <2> QED BY <2>2, <2>3
<1>8. CASE EraseStaleMarker
  <2>0. Live
    BY <1>8 DEF EraseStaleMarker, Live, PcInv, CommitSteps, ClearSteps
  <2>1. FlashInv'
    <3>1. /\ flashMarker' \in {flashMarker, None}
          /\ UNCHANGED <<flashSlot, settled, prior, pending>>
      BY <1>8, WriteValue DEF EraseStaleMarker, history
    <3> QED BY <3>1, <1>u, LosingMarker, Sentinels
  <2>2. CASE Fail
    BY <2>1, <2>2, Failing
  <2>3. CASE ~Fail
    <3>1. /\ UNCHANGED <<flashSlot, settled, pending, active, activeSlot,
                         candidate, storageFaulted, markerMatches, staged>>
          /\ ~markerPresent' /\ flashMarker' = None
          /\ pc = "erase_marker" /\ pc' = "slot_write"
      BY <1>8, <2>3 DEF EraseStaleMarker, history
    <3>2. MemoryInv'
      BY <2>0, <3>1 DEF MemoryInv, StepInv
    <3> QED
      BY <2>0, <2>1, <3>1, <3>2 DEF StepInv, ClearInv, ClearSteps, StageGeneration
  <2> QED BY <2>2, <2>3
<1>9. CASE SlotWrite
  <2>0. Live
    BY <1>9 DEF SlotWrite, Live, PcInv, CommitSteps, ClearSteps
  <2>1. PICK bytes \in {candidate, Corrupt, flashSlot[NextSlot]} :
          flashSlot' = [flashSlot EXCEPT ![NextSlot] = bytes]
    <3>1. \E bytes \in Written(candidate) \cup WriteFailed(flashSlot[NextSlot], candidate) :
            flashSlot' = [flashSlot EXCEPT ![NextSlot] = bytes]
      BY <1>9, Zenon DEF SlotWrite
    <3> QED BY <3>1, WriteValue
  <2>2. FlashInv'
    BY <1>9, <2>0, <2>1, FillingSlot DEF SlotWrite, history
  <2>3. CASE Fail
    BY <2>2, <2>3, Failing
  <2>4. CASE Continue("slot_verify")
    <3>1. /\ UNCHANGED <<flashMarker, settled, pending, active, activeSlot, candidate,
                         storageFaulted, markerPresent, markerMatches, staged>>
          /\ pc = "slot_write" /\ pc' = "slot_verify"
      BY <1>9, <2>4 DEF SlotWrite, Continue, memory, history
    <3>2. active # None => flashSlot'[activeSlot] = flashSlot[activeSlot]
      BY <2>1 DEF NextSlot, ValuesOK, Slot
    <3>3. MemoryInv'
      BY <2>0, <3>1, <3>2 DEF MemoryInv, NamesActive
    <3> QED
      BY <2>0, <2>2, <3>1, <3>3 DEF StepInv, ClearInv, ClearSteps, StageGeneration
  <2> QED BY <1>9, <2>3, <2>4 DEF SlotWrite
<1>10. CASE SlotVerify
  <2>0. Live
    BY <1>10 DEF SlotVerify, Live, PcInv, CommitSteps, ClearSteps
  <2>1. FlashInv'
    BY <1>10, <1>u DEF SlotVerify, flash, history
  <2>2. CASE Fail
    BY <2>1, <2>2, Failing
  <2>3. CASE ~Fail
    <3>1. /\ UNCHANGED <<flashMarker, flashSlot, settled, pending, active, activeSlot,
                         candidate, storageFaulted, markerPresent, markerMatches, staged>>
          /\ flashSlot[NextSlot] = candidate
          /\ pc = "slot_verify" /\ pc' = "marker_write"
      BY <1>10, <2>3 DEF SlotVerify, Continue, flash, memory, history
    <3>2. MemoryInv'
      BY <2>0, <3>1 DEF MemoryInv, NamesActive
    <3> QED
      BY <2>0, <2>1, <3>1, <3>2
      DEF StepInv, ClearInv, ClearSteps, StageGeneration, NextSlot
  <2> QED BY <2>2, <2>3
<1>11. CASE MarkerWrite
  <2>0. Live
    BY <1>11 DEF MarkerWrite, Live, PcInv, CommitSteps, ClearSteps
  <2>1. /\ UNCHANGED <<flashSlot, settled, prior, active, activeSlot, candidate,
                       storageFaulted, markerPresent, markerMatches, staged>>
        /\ pending' = candidate
        /\ pc = "marker_write" /\ pc' \in {"marker_verify", "rollback"}
    BY <1>11 DEF MarkerWrite, Continue, memory
  <2>2. flashMarker' \in {flashMarker, CandidateMarker, Corrupt}
    BY <1>11, WriteValue DEF MarkerWrite
  <2>3. FlashInv'
    <3>1. CASE flashMarker' = CandidateMarker
      BY <2>0, <2>1, <3>1, Publishing
    <3>2. PendingFollows'
      BY <2>0, <2>1 DEF PendingFollows, MemoryInv, StepInv, StageGeneration
    <3>3. CASE flashMarker' = Corrupt
      BY <3>2, <3>3, Sentinels
      DEF FlashInv, MarkerShape, SelectsPublished, FallsBack
    <3>4. CASE flashMarker' = flashMarker
      <4>1. pending = None
        BY <2>0, <2>1 DEF MemoryInv
      <4> QED
        BY <2>1, <3>2, <3>4, <4>1, Sentinels
        DEF FlashInv, MarkerShape, SelectsPublished, FallsBack,
            SelectedHolds, PreviousHolds, SelectedRecord, PreviousRecord, Holds
    <3> QED BY <2>2, <3>1, <3>3, <3>4
  <2>4. MemoryInv'
    BY <2>0, <2>1 DEF MemoryInv
  <2> QED
    BY <2>0, <2>1, <2>3, <2>4
    DEF StepInv, ClearInv, ClearSteps, StageGeneration, NextSlot
<1>12. CASE MarkerVerify
  <2>0. Live
    BY <1>12 DEF MarkerVerify, Live, PcInv, CommitSteps, ClearSteps
  <2>1. CASE pc' = "rollback"
    <3>1. /\ UNCHANGED <<flashMarker, flashSlot, settled, prior, pending, active,
                         activeSlot, candidate, storageFaulted, markerPresent,
                         markerMatches, staged>>
          /\ pc = "marker_verify"
      BY <1>12, <2>1 DEF MarkerVerify, Continue, flash, memory, history
    <3>2. FlashInv'
      BY <3>1, <1>u
    <3>3. MemoryInv'
      BY <2>0, <2>1, <3>1 DEF MemoryInv
    <3> QED
      BY <2>0, <2>1, <3>1, <3>2, <3>3
      DEF StepInv, ClearInv, ClearSteps, StageGeneration, NextSlot
  <2>2. CASE pc' # "rollback"
    <3>1. /\ UNCHANGED <<flashMarker, flashSlot, candidate, storageFaulted>>
          /\ flashMarker = CandidateMarker
          /\ active' = candidate /\ activeSlot' = NextSlot
          /\ settled' = candidate /\ prior' = active /\ pending' = None
          /\ markerPresent' /\ markerMatches' /\ ~staged'
          /\ pc = "marker_verify" /\ pc' = "erase_candidate"
      BY <1>12, <2>2 DEF MarkerVerify, Continue, flash
    <3>2. /\ candidate # None /\ candidate.gen = StageGeneration
          /\ active = settled /\ pending = candidate
          /\ flashSlot[NextSlot] \in {candidate, Corrupt}
          /\ active # None => flashSlot[activeSlot] \in {active, Corrupt}
      BY <2>0, <3>1 DEF StepInv, MemoryInv
    <3>3. /\ flashMarker.slot = NextSlot /\ flashMarker.gen = candidate.gen
          /\ active = None => flashMarker.prevGen = 0
          /\ active # None =>
               flashMarker.prevSlot = activeSlot /\ flashMarker.prevGen = active.gen
      BY <3>1 DEF CandidateMarker, MarkerFor
    <3>4. flashMarker \in Marker
      BY <3>1, <3>2, MarkersType DEF TypeInv
    <3>5. FlashInv'
      BY <3>1, <3>2, <3>3, Sentinels
      DEF FlashInv, MarkerShape, SelectsPublished, FallsBack, PendingFollows,
          SelectedHolds, PreviousHolds, SelectedRecord, PreviousRecord, Holds
    <3>6. MemoryInv'
      BY <3>1, <3>2, <3>3, <3>4 DEF MemoryInv, NamesActive
    <3> QED
      BY <3>1, <3>5, <3>6 DEF StepInv, ClearInv, ClearSteps
  <2> QED BY <2>1, <2>2
<1>13. CASE RollbackMarker
  <2>0. Live
    BY <1>13 DEF RollbackMarker, Live, PcInv, CommitSteps, ClearSteps
  <2>1. /\ UNCHANGED <<flashSlot, settled, prior, pending>> /\ Fail
        /\ active = settled
        /\ active # None => flashSlot[activeSlot] \in {active, Corrupt}
    BY <1>13, <2>0 DEF RollbackMarker, history, MemoryInv
  <2>2. \/ flashMarker' \in {flashMarker, None, Corrupt}
        \/ active # None /\ flashMarker' = ActiveMarker
    BY <1>13, WriteValue DEF RollbackMarker
  <2>3. FlashInv'
    BY <2>1, <2>2, <1>u, RestoringMarker, LosingMarker, Sentinels
  <2> QED BY <2>1, <2>3, Failing
<1>14. CASE EraseCandidate
  <2>1. /\ UNCHANGED <<flashMarker, flashSlot, settled, prior, pending, active,
                       activeSlot, storageFaulted, markerPresent, markerMatches, staged>>
        /\ pc = "erase_candidate" /\ pc' = "idle" /\ candidate' \in {candidate, None}
    BY <1>14 DEF EraseCandidate, history
  <2>2. FlashInv'
    BY <2>1, <1>u
  <2>3. MemoryInv'
    BY <2>1 DEF MemoryInv, Live, NamesActive, ClearSteps
  <2> QED BY <2>1, <2>2, <2>3 DEF StepInv, Live, ClearInv, ClearSteps
<1>15. CASE ClearBegin
  <2>1. FlashInv'
    BY <1>15, <1>u DEF ClearBegin, flash
  <2> QED
    BY <1>15, <2>1 DEF ClearBegin, MemoryInv, StepInv, ClearInv, Live, ClearSteps
<1>16. CASE ClearMarker
  <2>1. FlashInv'
    <3>1. /\ flashMarker' \in {flashMarker, None}
          /\ UNCHANGED <<flashSlot, settled, prior, pending>>
      BY <1>16 DEF ClearMarker, ClearStep, history
    <3> QED BY <3>1, <1>u, LosingMarker, Sentinels
  <2>2. /\ pc' = "clear_candidate"
        /\ erased' => flashMarker' = None
    <3>1. CASE flashMarker' = None
      BY <1>16, <3>1 DEF ClearMarker, ClearStep
    <3>2. CASE flashMarker' # None
      BY <1>16, <3>2 DEF ClearMarker, ClearStep
    <3> QED BY <3>1, <3>2
  <2> QED
    BY <2>1, <2>2 DEF MemoryInv, StepInv, ClearInv, Live, ClearSteps
<1>17. CASE ClearCandidate
  <2>1. FlashInv'
    BY <1>17, <1>u DEF ClearCandidate, ClearStep, history
  <2> QED
    BY <1>17, <2>1
    DEF ClearCandidate, ClearStep, MemoryInv, StepInv, ClearInv, Live, ClearSteps
<1>18. ASSUME NEW s \in Slot, NEW step \in ClearSteps \ {"clear_marker"},
              NEW next \in ClearSteps, ClearSlot(s, step, next)
       PROVE  Goal
  <2>1. FlashInv'
    <3>1. /\ \A t \in Slot : flashSlot'[t] = flashSlot[t] \/ flashSlot'[t] = None
          /\ UNCHANGED <<flashMarker, settled, prior, pending>>
      BY <1>18 DEF ClearSlot, ClearStep, history, ValuesOK
    <3> QED BY <3>1, LosingSlots, Sentinels
  <2> QED
    BY <1>18, <2>1
    DEF ClearSlot, ClearStep, MemoryInv, StepInv, ClearInv, Live, ClearSteps
<1>19. CASE ClearFinish
  <2>1. CASE Fail /\ UNCHANGED <<settled, prior, pending>>
    BY <1>19, <2>1, <1>u, Failing DEF ClearFinish, flash
  <2>2. CASE ~(Fail /\ UNCHANGED <<settled, prior, pending>>)
    <3>1. /\ UNCHANGED <<flashMarker, flashSlot>>
          /\ erased /\ pc = "clear_metadata" /\ pc' = "idle"
          /\ active' = None /\ settled' = None /\ pending' = None
          /\ ~markerPresent' /\ ~markerMatches' /\ ~staged'
      BY <1>19, <2>2 DEF ClearFinish, flash
    <3>2. flashMarker' = None
      BY <3>1 DEF ClearInv, ClearSteps
    <3>3. FlashInv'
      BY <3>1, <3>2, Sentinels
      DEF FlashInv, MarkerShape, SelectsPublished, FallsBack, PendingFollows
    <3> QED
      BY <3>1, <3>2, <3>3 DEF MemoryInv, StepInv, ClearInv, ClearSteps
  <2> QED BY <2>1, <2>2
<1>20. CASE Rot
  <2>1. /\ UNCHANGED <<settled, prior, pending, active, activeSlot, candidate, staging,
                       storageFaulted, markerPresent, markerMatches, staged, erased, pc>>
        /\ \A t \in Slot : flashSlot'[t] \in {flashSlot[t], Corrupt}
        /\ flashMarker' = flashMarker \/ (flashMarker # None /\ flashMarker' = Corrupt)
        /\ UNCHANGED flashSlot \/ UNCHANGED flashMarker
    BY <1>20 DEF Rot, memory, ValuesOK
  <2>2. FlashInv'
    <3>1. CASE flashMarker' = flashMarker
      BY <2>1, <3>1, LosingSlots, Sentinels
    <3>2. CASE flashMarker' = Corrupt
      BY <2>1, <3>2, LosingMarker, Sentinels
    <3> QED BY <2>1, <3>1, <3>2
  <2>3. MemoryInv'
    BY <2>1 DEF MemoryInv, Live, NamesActive, ValuesOK, ClearSteps
  <2>4. StepInv'
    <3>1. NextSlot' = NextSlot /\ NextSlot \in Slot /\ StageGeneration' = StageGeneration
      BY <2>1, MarkersType DEF NextSlot, StageGeneration, TypeInv
    <3> QED
      BY <2>1, <3>1 DEF StepInv, Live, ClearSteps
  <2> QED
    BY <2>1, <2>2, <2>3, <2>4 DEF ClearInv, ClearSteps
<1>21. CASE UNCHANGED vars
  BY <1>21, <1>u
  DEF vars, flash, memory, history, MemoryInv, StepInv, ClearInv, Live, NamesActive,
      StageGeneration, NextSlot
<1>22. CASE Clear
  <2>1. /\ 0 \in Slot /\ 1 \in Slot
        /\ {"clear_slot0", "clear_slot1"} \subseteq ClearSteps \ {"clear_marker"}
        /\ "clear_metadata" \in ClearSteps
    BY DEF Slot, ClearSteps
  <2>2. CASE ClearSlot(0, "clear_slot0", "clear_slot1")
    BY <1>18, <2>1, <2>2
  <2>3. CASE ClearSlot(1, "clear_slot1", "clear_metadata")
    BY <1>18, <2>1, <2>3
  <2> QED
    BY <1>15, <1>16, <1>17, <1>19, <1>22, <2>2, <2>3 DEF Clear
<1> QED
  BY <1>1, <1>2, <1>3, <1>4, <1>5, <1>6, <1>7, <1>8, <1>9, <1>10, <1>11, <1>12,
     <1>13, <1>14, <1>20, <1>21, <1>22
  DEF Next, Commit

\* The inductive invariant holds in every reachable state.
LEMMA Invariant == Spec => []Inv
<1> DEFINE I == TypeInv /\ FlashInv /\ MemoryInv /\ StepInv /\ ClearInv
<1>1. Init => I
  BY TypeInit, InvInit
<1>2. I /\ [Next]_vars => I'
  BY TypeNext, InvNext
<1>3. I => Inv
  BY DEF Inv, TypeInv
<1> QED BY <1>1, <1>2, <1>3, PTL DEF Spec

\* Whatever rots and whatever write fails, however often power is lost, only a
\* record whose publication was attempted can become active on a restart.
THEOREM OnlyPublished == Spec => []OnlyPublishedRecovers
<1>1. Inv => OnlyPublishedRecovers
  BY DEF Inv, FlashInv, SelectsPublished, FallsBack, OnlyPublishedRecovers, Recovered,
         ActiveAfterLoad, Selected, Previous, SelectedHolds, PreviousHolds,
         SelectedRecord, PreviousRecord
<1> QED BY <1>1, Invariant, PTL
-----------------------------------------------------------------------------
(* A commit is all or nothing *)

\* The selected record comes first, the previous one second.
LEMMA RecoveredIs ==
  ASSUME flashMarker \in Marker
  PROVE  /\ SelectedHolds => Recovered = SelectedRecord
         /\ ~SelectedHolds /\ PreviousHolds => Recovered = PreviousRecord
         /\ ~SelectedHolds /\ ~PreviousHolds => Recovered = None
BY DEF Recovered, ActiveAfterLoad, Selected, Previous, SelectedHolds, PreviousHolds,
       SelectedRecord, PreviousRecord

\* Nothing that matters to a restart has changed.
LEMMA StillFound ==
  ASSUME SettledFound, UNCHANGED <<flashMarker, flashSlot, settled, clearTried, damage>>
  PROVE  SettledFound' /\ Recovered' = Recovered
BY DEF SettledFound, SelectedHolds, PreviousHolds, SelectedRecord, PreviousRecord,
       Holds, Recovered, ActiveAfterLoad, Selected, Previous

\* A store that gave up, or has no power, says nothing of the active record.
LEMMA FailingSound ==
  ASSUME Fail \/ pc' = "off" PROVE ActiveSound'
BY DEF Fail, ActiveSound, Live, ClearSteps

\* A restart settles for what it finds.
LEMMA RestartingSound ==
  ASSUME SettledFound, ValuesOK, NEW u \in SUBSET ReadKey, Create(u)
  PROVE  SettledFound' /\ ActiveSound'
<1>1. UNCHANGED <<flashMarker, flashSlot, damage>> /\ pc' = "idle"
  BY DEF Create, flash
<1>2. CASE storageFaulted'
  <2>1. UNCHANGED <<settled, clearTried>>
    BY <1>2 DEF Create
  <2> QED BY <1>1, <1>2, <2>1, StillFound DEF ActiveSound, Live, ClearSteps
<1>3. CASE ~storageFaulted'
  <2>1. settled' = active' /\ "marker" \notin u
    BY <1>3 DEF Create, LoadFaulted
  <2>2. CASE flashMarker \notin Marker
    <3>1. active' = None /\ Recovered' = None
      BY <1>1, <2>2 DEF Create, ActiveAfterLoad, Recovered
    <3> QED BY <1>1, <2>1, <2>2, <3>1 DEF SettledFound, ActiveSound, ClearSteps
  <2>3. CASE flashMarker \in Marker
    <3>0. /\ SelectedHolds' = SelectedHolds /\ PreviousHolds' = PreviousHolds
          /\ SelectedRecord' = SelectedRecord /\ PreviousRecord' = PreviousRecord
      BY <1>1 DEF SelectedHolds, PreviousHolds, SelectedRecord, PreviousRecord, Holds
    <3>1. Recovered' = Recovered
      BY <1>1 DEF Recovered, ActiveAfterLoad, Selected, Previous, Holds
    <3>2. CASE Selected(flashMarker, u)
      <4>1. SelectedHolds /\ active' = SelectedRecord /\ activeSlot' = flashMarker.slot
            /\ active' # None
        BY <2>1, <2>3, <3>2, Sentinels
        DEF Create, ActiveAfterLoad, Selected, SelectedHolds, SelectedRecord, Holds
      <4> QED
        BY <1>1, <2>1, <2>3, <3>0, <3>1, <4>1, RecoveredIs
        DEF SettledFound, ActiveSound, SelectedRecord, ClearSteps
    <3>3. CASE ~Selected(flashMarker, u)
      <4>1. ~SelectedHolds
        BY <1>3, <2>1, <2>3, <3>3 DEF Create, LoadFaulted, Selected, SelectedHolds
      <4>2. CASE Previous(flashMarker, u)
        <5>1. PreviousHolds /\ active' = PreviousRecord /\ active' # None
              /\ activeSlot' = flashMarker.prevSlot
          BY <2>1, <2>3, <3>3, <4>2, Sentinels
          DEF Create, ActiveAfterLoad, Previous, PreviousHolds, PreviousRecord, Holds
        <5> QED
          BY <1>1, <2>1, <2>3, <3>0, <3>1, <4>1, <5>1, RecoveredIs
          DEF SettledFound, ActiveSound, PreviousRecord, ClearSteps
      <4>3. CASE ~Previous(flashMarker, u)
        <5>1. active' = None /\ ~PreviousHolds
          BY <1>3, <2>1, <2>3, <3>3, <4>3
          DEF Create, ActiveAfterLoad, Previous, PreviousHolds, LoadFaulted
        <5> QED
          BY <1>1, <2>1, <2>3, <3>0, <3>1, <4>1, <5>1, RecoveredIs
          DEF SettledFound, ActiveSound, ClearSteps
      <4> QED BY <4>2, <4>3
    <3> QED BY <3>2, <3>3
  <2> QED BY <2>2, <2>3
<1> QED BY <1>2, <1>3

\* Writing back the active record's own marker leaves it selected.
LEMMA RestoringSound ==
  ASSUME TypeOK, SettledFound, active # None, active = settled,
         damage = 0 => flashSlot[activeSlot] = active,
         flashMarker' \in {flashMarker, ActiveMarker, Corrupt},
         UNCHANGED <<flashSlot, settled, clearTried, damage>>
  PROVE  SettledFound'
<1>1. CASE flashMarker' = ActiveMarker
  <2>1. flashMarker' \in Marker /\ flashMarker'.slot = activeSlot
        /\ flashMarker'.gen = active.gen
    BY <1>1, MarkersType DEF ActiveMarker, MarkerFor
  <2>2. active \in Record
    BY DEF TypeOK, ValuesOK, OptionalRecord
  <2> QED BY <2>1, <2>2 DEF SettledFound, SelectedHolds, Holds
<1>2. CASE flashMarker' = Corrupt
  BY <1>2 DEF SettledFound
<1>3. CASE flashMarker' = flashMarker
  BY <1>3, StillFound
<1> QED BY <1>1, <1>2, <1>3

\* Erasing a marker when nothing is settled uncovers nothing.
LEMMA ErasingSound ==
  ASSUME SettledFound, settled = None, flashMarker' \in {flashMarker, None, Corrupt},
         UNCHANGED <<flashSlot, settled, clearTried, damage>>
  PROVE  SettledFound'
<1>1. CASE flashMarker' = flashMarker
  BY <1>1, StillFound
<1>2. CASE flashMarker' # flashMarker
  BY <1>2, Sentinels DEF SettledFound
<1> QED BY <1>1, <1>2

\* Every step keeps the settled record where a restart finds it.
LEMMA SoundNext ==
  ASSUME FlashInv, MemoryInv, StepInv, ClearInv, TypeInv, SettledFound, ActiveSound,
         [Next]_vars
  PROVE  SettledFound' /\ ActiveSound'
<1> DEFINE Goal == SettledFound' /\ ActiveSound'
<1> ValuesOK /\ PcInv /\ TypeOK
  BY DEF TypeInv, TypeOK
<1>1. ASSUME NEW u \in SUBSET ReadKey, Create(u) PROVE Goal
  BY <1>1, RestartingSound
<1>2. CASE PowerLoss
  BY <1>2, StillFound, FailingSound DEF PowerLoss, flash, history
<1>3. ASSUME NEW p \in Payload, StageWrite(p) PROVE Goal
  <2>1. SettledFound' /\ Recovered' = Recovered
    BY <1>3, StillFound DEF StageWrite, history
  <2>2. CASE Continue("stage_verify")
    BY <1>3, <2>1, <2>2
    DEF StageWrite, Continue, memory, history, ActiveSound, Live, ClearSteps
  <2> QED BY <1>3, <2>1, <2>2, FailingSound DEF StageWrite
<1>4. CASE StageVerify
  <2>1. SettledFound' /\ Recovered' = Recovered
    BY <1>4, StillFound DEF StageVerify, flash, history
  <2>2. CASE ~Fail
    BY <1>4, <2>1, <2>2
    DEF StageVerify, flash, history, ActiveSound, Live, ClearSteps
  <2> QED BY <2>1, <2>2, FailingSound
<1>5. CASE CommitBegin
  <2>1. SettledFound'
    BY <1>5, StillFound DEF CommitBegin, flash, history
  <2>2. /\ UNCHANGED <<flashSlot, active, activeSlot, damage>> /\ Live
        /\ pc' \in {"slot_write", "fix_marker", "erase_marker"}
    BY <1>5 DEF CommitBegin, Continue, memory, flash, history, Live, ClearSteps
  <2> QED BY <2>1, <2>2 DEF ActiveSound, ClearSteps
<1>6. CASE FixMarkerWrite
  <2>1. /\ active # None /\ active = settled
        /\ damage = 0 => flashSlot[activeSlot] = active
        /\ UNCHANGED <<flashSlot, settled, clearTried, damage>>
        /\ pc = "fix_marker"
    BY <1>6
    DEF FixMarkerWrite, history, PcInv, MemoryInv, ActiveSound, Live, CommitSteps, ClearSteps
  <2>2. SettledFound'
    <3>1. flashMarker' \in {flashMarker, ActiveMarker, Corrupt}
      BY <1>6, WriteValue DEF FixMarkerWrite
    <3> QED BY <2>1, <3>1, RestoringSound
  <2>3. CASE Continue("fix_verify")
    BY <2>1, <2>2, <2>3 DEF Continue, memory, ActiveSound, ClearSteps
  <2> QED BY <1>6, <2>2, <2>3, FailingSound DEF FixMarkerWrite
<1>7. CASE FixMarkerVerify
  <2>1. SettledFound'
    BY <1>7, StillFound DEF FixMarkerVerify, flash, history
  <2>2. CASE ~Fail
    <3>1. /\ UNCHANGED <<flashSlot, active, activeSlot, damage>> /\ Live
          /\ pc' = "slot_write"
      BY <1>7, <2>2
      DEF FixMarkerVerify, flash, history, Live, PcInv, CommitSteps, ClearSteps
    <3> QED BY <2>1, <3>1 DEF ActiveSound, ClearSteps
  <2> QED BY <2>1, <2>2, FailingSound
<1>8. CASE EraseStaleMarker
  <2>1. Live /\ active = None /\ settled = None
    BY <1>8
    DEF EraseStaleMarker, Live, PcInv, CommitSteps, ClearSteps, StepInv, MemoryInv
  <2>2. /\ flashMarker' \in {flashMarker, None}
        /\ UNCHANGED <<flashSlot, settled, clearTried, damage>>
    BY <1>8, WriteValue DEF EraseStaleMarker, history
  <2>3. SettledFound'
    BY <2>1, <2>2, ErasingSound
  <2>4. CASE ~Fail
    <3>1. UNCHANGED active /\ pc' = "slot_write"
      BY <1>8, <2>4 DEF EraseStaleMarker
    <3> QED BY <2>1, <2>3, <3>1 DEF ActiveSound, ClearSteps
  <2> QED BY <2>3, <2>4, FailingSound
<1>9. CASE SlotWrite
  <2>1. Live /\ pc = "slot_write" /\ active = settled
    BY <1>9 DEF SlotWrite, Live, PcInv, CommitSteps, ClearSteps, MemoryInv
  <2>2. UNCHANGED <<flashMarker, settled, clearTried, damage, active, activeSlot>>
    BY <1>9 DEF SlotWrite, Continue, Fail, memory, history
  <2>3. active # None => flashSlot'[activeSlot] = flashSlot[activeSlot]
    BY <1>9 DEF SlotWrite, NextSlot, ValuesOK, Slot
  <2>4. CASE active = None
    <3>1. flashMarker = None
      BY <2>1, <2>4 DEF MemoryInv, StepInv
    <3>2. SettledFound'
      BY <2>1, <2>2, <2>4, <3>1, Sentinels DEF SettledFound
    <3>3. CASE Continue("slot_verify")
      BY <2>2, <2>4, <3>2, <3>3 DEF Continue, ActiveSound, ClearSteps
    <3> QED BY <1>9, <3>2, <3>3, FailingSound DEF SlotWrite
  <2>5. CASE active # None
    <3>1. flashMarker = Corrupt \/ NamesActive
      BY <2>1, <2>5 DEF MemoryInv, StepInv
    <3>2. damage = 0 => flashSlot'[activeSlot] = active
      BY <2>1, <2>3, <2>5 DEF ActiveSound
    <3>3. active \in Record
      BY <2>5 DEF ValuesOK, OptionalRecord
    <3>4. SettledFound'
      BY <2>1, <2>2, <2>5, <3>1, <3>2, <3>3
      DEF SettledFound, NamesActive, SelectedHolds, Holds
    <3>5. CASE Continue("slot_verify")
      BY <2>2, <3>2, <3>4, <3>5 DEF Continue, ActiveSound, ClearSteps
    <3> QED BY <1>9, <3>4, <3>5, FailingSound DEF SlotWrite
  <2> QED BY <2>4, <2>5
<1>10. CASE SlotVerify
  <2>1. SettledFound'
    BY <1>10, StillFound DEF SlotVerify, flash, history
  <2>2. CASE ~Fail
    <3>1. /\ UNCHANGED <<flashSlot, active, activeSlot, candidate, damage>> /\ Live
          /\ flashSlot[NextSlot] = candidate /\ pc' = "marker_write"
      BY <1>10, <2>2
      DEF SlotVerify, Continue, flash, memory, history, Live, PcInv, CommitSteps, ClearSteps
    <3> QED BY <2>1, <3>1 DEF ActiveSound, ClearSteps, NextSlot
  <2> QED BY <2>1, <2>2, FailingSound
<1>11. CASE MarkerWrite
  <2>1. /\ Live /\ pc = "marker_write" /\ active = settled /\ candidate # None
        /\ candidate \in Record
    BY <1>11
    DEF MarkerWrite, Live, PcInv, CommitSteps, ClearSteps, MemoryInv, ValuesOK, OptionalRecord
  <2>2. /\ UNCHANGED <<flashSlot, settled, clearTried, damage, active, activeSlot, candidate>>
        /\ pc' \in {"marker_verify", "rollback"}
        /\ flashMarker' \in {flashMarker, CandidateMarker, Corrupt}
    BY <1>11, WriteValue DEF MarkerWrite, Continue, memory
  <2>3. SettledFound'
    <3>1. CASE flashMarker' = CandidateMarker
      <4>1. /\ flashMarker' \in Marker
            /\ flashMarker'.slot = NextSlot /\ flashMarker'.gen = candidate.gen
            /\ active = None => flashMarker'.prevGen = 0
        BY <2>1, <3>1, MarkersType DEF CandidateMarker, MarkerFor
      <4>2. damage = 0 => flashSlot[NextSlot] = candidate
        BY <2>1 DEF ActiveSound
      <4> QED
        BY <2>1, <2>2, <4>1, <4>2 DEF SettledFound, SelectedHolds, PreviousHolds, Holds
    <3>2. CASE flashMarker' = Corrupt
      BY <3>2, Sentinels DEF SettledFound
    <3>3. CASE flashMarker' = flashMarker
      BY <2>2, <3>3, StillFound
    <3> QED BY <2>2, <3>1, <3>2, <3>3
  <2> QED BY <2>1, <2>2, <2>3 DEF ActiveSound, ClearSteps, NextSlot
<1>12. CASE MarkerVerify
  <2>0. Live /\ pc = "marker_verify" /\ candidate # None /\ candidate \in Record
    BY <1>12
    DEF MarkerVerify, Live, PcInv, CommitSteps, ClearSteps, ValuesOK, OptionalRecord
  <2>1. CASE pc' = "rollback"
    <3>1. UNCHANGED <<flashMarker, flashSlot, settled, clearTried, damage, active, activeSlot>>
      BY <1>12, <2>1 DEF MarkerVerify, Continue, flash, memory, history
    <3> QED BY <2>0, <2>1, <3>1, StillFound DEF ActiveSound, ClearSteps
  <2>2. CASE pc' # "rollback"
    <3>1. /\ UNCHANGED <<flashMarker, flashSlot, damage, clearTried>>
          /\ flashMarker = CandidateMarker
          /\ active' = candidate /\ activeSlot' = NextSlot /\ settled' = candidate
          /\ pc' = "erase_candidate"
      BY <1>12, <2>2 DEF MarkerVerify, Continue, flash
    <3>2. /\ flashMarker \in Marker
          /\ flashMarker.slot = NextSlot /\ flashMarker.gen = candidate.gen
      BY <2>0, <3>1, MarkersType DEF CandidateMarker, MarkerFor
    <3>3. damage = 0 => flashSlot[NextSlot] = candidate
      BY <2>0 DEF ActiveSound
    <3>4. damage = 0 => SelectedHolds /\ SelectedRecord = candidate
      BY <2>0, <3>2, <3>3 DEF SelectedHolds, SelectedRecord, Holds
    <3>5. damage = 0 => Recovered' = candidate
      <4>1. Recovered' = Recovered
        BY <3>1 DEF Recovered, ActiveAfterLoad, Selected, Previous, Holds
      <4> QED BY <3>2, <3>4, <4>1, RecoveredIs
    <3>6. SettledFound'
      BY <2>0, <3>1, <3>2, <3>4 DEF SettledFound, SelectedHolds, Holds
    <3> QED BY <3>1, <3>3, <3>5, <3>6 DEF ActiveSound, ClearSteps
  <2> QED BY <2>1, <2>2
<1>13. CASE RollbackMarker
  <2>1. /\ Live /\ active = settled /\ Fail
        /\ UNCHANGED <<flashSlot, settled, clearTried, damage>>
    BY <1>13
    DEF RollbackMarker, Live, PcInv, CommitSteps, ClearSteps, MemoryInv, history
  <2>2. CASE active # None
    <3>1. /\ flashMarker' \in {flashMarker, ActiveMarker, Corrupt}
          /\ damage = 0 => flashSlot[activeSlot] = active
      BY <1>13, <2>1, <2>2, WriteValue DEF RollbackMarker, ActiveSound
    <3> QED BY <2>1, <2>2, <3>1, RestoringSound, FailingSound
  <2>3. CASE active = None
    <3>1. flashMarker' \in {flashMarker, None}
      BY <1>13, <2>3, WriteValue DEF RollbackMarker
    <3> QED BY <2>1, <2>3, <3>1, ErasingSound, FailingSound
  <2> QED BY <2>2, <2>3
<1>14. CASE EraseCandidate
  <2>1. SettledFound' /\ Recovered' = Recovered
    BY <1>14, StillFound DEF EraseCandidate, history
  <2> QED
    BY <1>14, <2>1 DEF EraseCandidate, history, ActiveSound, Live, ClearSteps
<1>15. CASE Clear
  <2>1. CASE ClearBegin
    BY <2>1 DEF ClearBegin, SettledFound, ActiveSound, Live, ClearSteps
  <2>2. CASE ClearMarker \/ ClearCandidate \/ ClearSlot(0, "clear_slot0", "clear_slot1")
             \/ ClearSlot(1, "clear_slot1", "clear_metadata")
    <3>1. pc \in ClearSteps /\ pc' \in ClearSteps /\ UNCHANGED <<clearTried, damage>>
      BY <2>2
      DEF ClearMarker, ClearCandidate, ClearSlot, ClearStep, ClearSteps, history
    <3> QED BY <3>1 DEF SettledFound, ActiveSound, Live
  <2>3. CASE ClearFinish
    <3>1. CASE Fail /\ UNCHANGED clearTried
      <4>1. pc \in ClearSteps /\ UNCHANGED damage
        BY <2>3 DEF ClearFinish, ClearSteps
      <4> QED BY <3>1, <4>1, FailingSound DEF SettledFound, ActiveSound
    <3>2. CASE ~(Fail /\ UNCHANGED clearTried)
      <4>1. /\ UNCHANGED <<flashMarker, flashSlot>>
            /\ erased /\ pc = "clear_metadata" /\ pc' = "idle"
            /\ active' = None /\ settled' = None
        BY <2>3, <3>2 DEF ClearFinish, flash
      <4>2. flashMarker' = None
        BY <4>1 DEF ClearInv, ClearSteps
      <4>3. Recovered' = None
        BY <4>2, Sentinels DEF Recovered, ActiveAfterLoad
      <4> QED
        BY <4>1, <4>2, <4>3, Sentinels DEF SettledFound, ActiveSound, ClearSteps
    <3> QED BY <3>1, <3>2
  <2> QED BY <1>15, <2>1, <2>2, <2>3 DEF Clear
<1>16. CASE Rot
  <2>1. damage' # 0
    BY <1>16 DEF Rot, ValuesOK
  <2> QED BY <2>1 DEF SettledFound, ActiveSound
<1>17. CASE UNCHANGED vars
  BY <1>17, StillFound
  DEF vars, flash, memory, history, ActiveSound, Live, NextSlot
<1> QED
  BY <1>1, <1>2, <1>3, <1>4, <1>5, <1>6, <1>7, <1>8, <1>9, <1>10, <1>11, <1>12,
     <1>13, <1>14, <1>15, <1>16, <1>17
  DEF Next, Commit

\* The settled record is where a restart finds it, in every reachable state.
LEMMA SoundInvariant == Spec => [](Inv /\ SettledFound /\ ActiveSound)
<1> DEFINE I == /\ TypeInv /\ FlashInv /\ MemoryInv /\ StepInv /\ ClearInv
                /\ SettledFound /\ ActiveSound
<1>1. Init => I
  <2>1. Init => SettledFound /\ ActiveSound
    BY StoreAssumption DEF Init, SettledFound, ActiveSound, ClearSteps, Live, Bad
  <2> QED BY <2>1, TypeInit, InvInit
<1>2. I /\ [Next]_vars => I'
  BY TypeNext, InvNext, SoundNext
<1>3. I => Inv /\ SettledFound /\ ActiveSound
  BY DEF Inv, TypeInv
<1> QED BY <1>1, <1>2, <1>3, PTL DEF Spec

\* deck_transaction_store_commit is all or nothing: power lost between any two
\* NVS accesses leaves the settled record or the one being published.
THEOREM Atomic == Spec => []CommitIsAtomic
<1>1. Inv /\ SettledFound => CommitIsAtomic
  <2> SUFFICES ASSUME Inv, SettledFound, damage = 0, flashMarker # Corrupt
               PROVE  Recovered \in {settled, pending}
                                      \cup (IF clearTried THEN {None, prior} ELSE {})
    BY DEF CommitIsAtomic
  <2>1. CASE flashMarker \notin Marker
    <3>1. Recovered = None
      BY <2>1 DEF Recovered, ActiveAfterLoad
    <3> QED BY <2>1, <3>1 DEF SettledFound
  <2>2. CASE flashMarker \in Marker
    BY <2>2, RecoveredIs DEF Inv, FlashInv, SelectsPublished, FallsBack, SettledFound
  <2> QED BY <2>1, <2>2
<1> QED BY <1>1, SoundInvariant, PTL

\* A store that reports no fault holds in memory what a restart would load.
THEOREM MemoryMatches == Spec => []MemoryMatchesFlash
<1>1. ActiveSound => MemoryMatchesFlash
  BY DEF ActiveSound, MemoryMatchesFlash, Live, ClearSteps
<1> QED BY <1>1, SoundInvariant, PTL

-----------------------------------------------------------------------------
(* The store implements one durable value *)

\* Storage that reports its failures: a write is lost or applied, and what was
\* written reads back.
Honest == MaxDamage = 0 /\ "corrupt" \notin WriteFaults

Sound == /\ TypeInv /\ FlashInv /\ MemoryInv /\ StepInv /\ ClearInv
         /\ SettledFound /\ ActiveSound

\* On such storage the store in memory holds the durable value at every step but
\* between the write of the marker and its verification or withdrawal.
Faithful ==
  /\ flashMarker # Corrupt
  /\ Live => ~clearTried
  /\ Live /\ pc \notin {"marker_verify", "rollback"} => active = Recovered

LEMMA HonestWrites ==
  ASSUME Honest, NEW old, NEW new
  PROVE  /\ Written(new) = {new}
         /\ WriteFailed(old, new) \subseteq {old, new}
         /\ EraseFailed(old) \subseteq {old, None}
BY DEF Honest, Written, WriteFailed, EraseFailed

LEMMA SameRecovered ==
  ASSUME UNCHANGED <<flashMarker, flashSlot>> PROVE Recovered' = Recovered
BY DEF Recovered, ActiveAfterLoad, Selected, Previous, Holds

\* The record the new marker names is the new value.
LEMMA NewlySelected ==
  ASSUME flashMarker' \in Marker, flashSlot'[flashMarker'.slot] \in Record,
         flashSlot'[flashMarker'.slot].gen = flashMarker'.gen
  PROVE  Recovered' = flashSlot'[flashMarker'.slot]
BY DEF Recovered, ActiveAfterLoad, Selected, Holds

LEMMA NothingSelected ==
  ASSUME flashMarker' \notin Marker PROVE Recovered' = None
BY DEF Recovered, ActiveAfterLoad

\* The value the register may hold while a publication is under way.
LEMMA PublishedValue ==
  ASSUME Sound, Faithful, Honest, ~clearTried
  PROVE  Recovered \in {settled, pending}
<1>1. damage = 0
  BY DEF Sound, TypeInv, TypeOK, ValuesOK, Honest
<1>2. CASE flashMarker \notin Marker
  <2>1. Recovered = None
    BY <1>2 DEF Recovered, ActiveAfterLoad
  <2> QED BY <1>1, <1>2, <2>1 DEF Sound, Faithful, SettledFound
<1>3. CASE flashMarker \in Marker
  BY <1>1, <1>3, RecoveredIs
  DEF Sound, Faithful, FlashInv, SelectsPublished, FallsBack, SettledFound
<1> QED BY <1>2, <1>3

\* One step of the register, or none.
Stepped == [Register!Next]_(Register!vars)

LEMMA Stutters ==
  ASSUME UNCHANGED <<flashMarker, flashSlot, settled, prior, pending, clearTried>>
  PROVE  Stepped /\ Recovered' = Recovered
BY SameRecovered DEF Stepped, Register!vars

\* A step that keeps the marker, the slots and the history, and either gives up
\* or goes on in memory.
LEMMA QuietStep ==
  ASSUME Faithful, UNCHANGED <<flashMarker, flashSlot, settled, prior, pending, clearTried>>,
         \/ Fail \/ pc' = "off"
         \/ /\ Live /\ active' = active
            /\ (pc' \in {"marker_verify", "rollback"} \/ pc \notin {"marker_verify", "rollback"})
  PROVE  Faithful' /\ Stepped
<1>1. Stepped /\ Recovered' = Recovered
  BY Stutters
<1> QED BY <1>1 DEF Faithful, Fail, Live

\* An erased slot leaves the value, uncovers the one it replaced, or takes back
\* one that was never acknowledged; while a wipe runs the register allows it.
LEMMA ErasedSlot ==
  ASSUME Sound, Faithful, clearTried, NEW s \in Slot,
         NEW bytes \in {None, flashSlot[s]},
         flashSlot' = [flashSlot EXCEPT ![s] = bytes],
         UNCHANGED <<flashMarker, settled, prior, pending, clearTried>>
  PROVE  Stepped
<1>1. flashSlot \in [Slot -> OptionalRecord \cup {Corrupt}]
  BY DEF Sound, TypeInv, TypeOK, ValuesOK
<1>2. CASE bytes = flashSlot[s]
  <2>1. flashSlot' = flashSlot
    BY <1>1, <1>2
  <2> QED BY <2>1, Stutters
<1>3. CASE bytes = None
  <2>1. /\ flashSlot'[s] = None
        /\ \A r \in Slot : r # s => flashSlot'[r] = flashSlot[r]
    BY <1>1, <1>3
  <2>2. CASE flashMarker \notin Marker
    <3>1. Recovered' = Recovered
      BY <2>2 DEF Recovered, ActiveAfterLoad
    <3> QED BY <3>1 DEF Stepped, Register!vars
  <2>3. CASE flashMarker \in Marker
    <3>1. /\ flashMarker.slot \in Slot /\ flashMarker.prevSlot \in Slot
          /\ flashMarker.prevGen # 0 => flashMarker.prevSlot # flashMarker.slot
      BY <2>3 DEF Sound, FlashInv, MarkerShape, Marker
    <3>2. CASE s = flashMarker.slot /\ SelectedHolds
      <4>1. Recovered = SelectedRecord
        BY <2>3, <3>2, RecoveredIs
      <4>2. ~Holds(flashMarker.slot, flashMarker.gen)'
        BY <2>1, <3>2, Sentinels DEF Holds
      <4>3. CASE PreviousHolds
        <5>1. Recovered' = PreviousRecord
          BY <2>1, <2>3, <3>1, <3>2, <4>2, <4>3
          DEF Recovered, ActiveAfterLoad, Selected, Previous, PreviousHolds,
              PreviousRecord, Holds
        <5>2. CASE SelectedRecord = settled
          <6>1. Recovered' = prior
            BY <2>3, <3>2, <4>3, <5>1, <5>2 DEF Sound, FlashInv, FallsBack
          <6>2. Register!WipeStep
            BY <6>1 DEF Register!WipeStep
          <6> QED BY <6>2 DEF Stepped, Register!Next
        <5>3. CASE SelectedRecord # settled
          <6>1. Recovered' = settled /\ Recovered = pending
            BY <2>3, <3>2, <4>1, <4>3, <5>1, <5>3
            DEF Sound, FlashInv, FallsBack, SelectsPublished
          <6>2. pending # None
            BY <3>2, <4>1, <6>1, Sentinels DEF SelectedHolds, SelectedRecord, Holds
          <6>3. Register!Withdraw
            BY <6>1, <6>2 DEF Register!Withdraw
          <6> QED BY <6>3 DEF Stepped, Register!Next
        <5> QED BY <5>2, <5>3
      <4>4. CASE ~PreviousHolds
        <5>1. Recovered' = None
          BY <2>1, <2>3, <3>1, <3>2, <4>2, <4>4
          DEF Recovered, ActiveAfterLoad, Selected, Previous, PreviousHolds, Holds
        <5>2. Register!WipeStep
          BY <5>1 DEF Register!WipeStep
        <5> QED BY <5>2 DEF Stepped, Register!Next
      <4> QED BY <4>3, <4>4
    <3>3. CASE ~(s = flashMarker.slot /\ SelectedHolds)
      <4>1. Recovered' \in {Recovered, None}
        BY <2>1, <2>3, <3>1, <3>3, Sentinels
        DEF Recovered, ActiveAfterLoad, Selected, Previous, SelectedHolds, Holds
      <4>2. CASE Recovered' = Recovered
        BY <4>2 DEF Stepped, Register!vars
      <4>3. CASE Recovered' = None
        <5>1. Register!WipeStep
          BY <4>3 DEF Register!WipeStep
        <5> QED BY <5>1 DEF Stepped, Register!Next
      <4> QED BY <4>1, <4>2, <4>3
    <3> QED BY <3>2, <3>3
  <2> QED BY <2>2, <2>3
<1> QED BY <1>2, <1>3

\* Every step of the store on honest storage is one step of the register, or
\* none: the step of the marker's write publishes, that of its verification
\* acknowledges, the rollback withdraws.
LEMMA RegisterStep ==
  ASSUME Honest, Sound, Sound', Faithful, [Next]_vars
  PROVE  Faithful' /\ Stepped
<1> USE DEF Sound
<1> DEFINE Goal == Faithful' /\ Stepped
<1>0. /\ damage = 0 /\ damage' = 0 /\ TypeOK /\ ValuesOK /\ PcInv
      /\ ClearInv /\ ActiveSound /\ ActiveSound' /\ MemoryInv /\ StepInv
  BY DEF TypeInv, TypeOK, ValuesOK, Honest
<1>1. ASSUME NEW u \in SUBSET ReadKey, Create(u) PROVE Goal
  <2>1. UNCHANGED <<flashMarker, flashSlot>> /\ Recovered' = Recovered /\ pc' = "idle"
    BY <1>1, SameRecovered DEF Create, flash
  <2>2. CASE storageFaulted'
    <3>1. Stepped
      BY <1>1, <2>1, <2>2, Stutters DEF Create
    <3> QED BY <2>1, <2>2, <3>1 DEF Faithful, Live
  <2>3. CASE ~storageFaulted'
    <3>1. active' = Recovered'
      BY <1>0, <2>1, <2>3 DEF ActiveSound, Live, ClearSteps
    <3>2. /\ settled' = Recovered /\ pending' = None /\ clearTried' = FALSE
          /\ prior' = IF Recovered = settled THEN prior ELSE settled
      BY <1>1, <2>1, <2>3, <3>1 DEF Create
    <3>3. Register!Restart
      BY <2>1, <3>2 DEF Register!Restart
    <3> QED BY <2>1, <3>1, <3>2, <3>3 DEF Faithful, Stepped, Register!Next
  <2> QED BY <2>2, <2>3
<1>2. CASE PowerLoss
  BY <1>2, QuietStep DEF PowerLoss, flash, history
<1>3. ASSUME NEW p \in Payload, StageWrite(p) PROVE Goal
  <2>1. UNCHANGED <<flashMarker, flashSlot, settled, prior, pending, clearTried>>
    BY <1>3 DEF StageWrite, history
  <2>2. \/ Fail
        \/ Live /\ active' = active /\ pc = "idle"
    BY <1>3 DEF StageWrite, Continue, memory, Live, ClearSteps
  <2> QED BY <2>1, <2>2, QuietStep
<1>4. CASE StageVerify
  <2>1. UNCHANGED <<flashMarker, flashSlot, settled, prior, pending, clearTried>>
    BY <1>4 DEF StageVerify, flash, history
  <2>2. \/ Fail
        \/ /\ active' = active /\ pc = "stage_verify" /\ pc' = "idle"
           /\ storageFaulted' = storageFaulted
    BY <1>4 DEF StageVerify
  <2>3. Stepped /\ Recovered' = Recovered
    BY <2>1, Stutters
  <2> QED BY <2>1, <2>2, <2>3 DEF Live, ClearSteps, Faithful, Fail
<1>5. CASE CommitBegin
  <2>1. UNCHANGED <<flashMarker, flashSlot, settled, prior, pending, clearTried>>
    BY <1>5 DEF CommitBegin, flash, history
  <2>2. Live /\ active' = active /\ pc = "idle"
    BY <1>5 DEF CommitBegin, Continue, memory, Live, ClearSteps
  <2> QED BY <2>1, <2>2, QuietStep
<1>6. CASE FixMarkerWrite
  <2>1. /\ pc = "fix_marker" /\ Live /\ active # None /\ active \in Record
        /\ flashSlot[activeSlot] = active /\ active = Recovered /\ ~clearTried
        /\ UNCHANGED <<flashSlot, settled, prior, pending, clearTried>>
        /\ active' = active
    BY <1>0, <1>6
    DEF FixMarkerWrite, history, PcInv, ActiveSound, Live, CommitSteps, ClearSteps,
        Faithful, ValuesOK, OptionalRecord, Continue, Fail, memory
  <2>2. flashMarker' \in {flashMarker, ActiveMarker}
    BY <1>6, HonestWrites DEF FixMarkerWrite
  <2>3. ActiveMarker \in Marker /\ ActiveMarker.slot = activeSlot /\ ActiveMarker.gen = active.gen
    BY <1>0, <2>1, MarkersType DEF ActiveMarker, MarkerFor
  <2>4. Recovered' = Recovered /\ flashMarker' # Corrupt
    <3>1. CASE flashMarker' = flashMarker
      BY <2>1, <3>1, SameRecovered DEF Faithful
    <3>2. CASE flashMarker' = ActiveMarker
      BY <2>1, <2>3, <3>2, NewlySelected, Sentinels
    <3> QED BY <2>2, <3>1, <3>2
  <2>5. Stepped
    BY <2>1, <2>4 DEF Stepped, Register!vars
  <2> QED BY <2>1, <2>4, <2>5 DEF Faithful
<1>7. CASE FixMarkerVerify
  <2>1. UNCHANGED <<flashMarker, flashSlot, settled, prior, pending, clearTried>>
    BY <1>7 DEF FixMarkerVerify, flash, history
  <2>2. \/ Fail
        \/ active' = active /\ pc = "fix_verify" /\ Live
    BY <1>0, <1>7 DEF FixMarkerVerify, PcInv, CommitSteps, Live, ClearSteps
  <2> QED BY <2>1, <2>2, QuietStep
<1>8. CASE EraseStaleMarker
  <2>1. /\ pc = "erase_marker" /\ Live /\ active = None /\ Recovered = None /\ ~clearTried
        /\ UNCHANGED <<flashSlot, settled, prior, pending, clearTried>>
        /\ active' = active
    BY <1>0, <1>8
    DEF EraseStaleMarker, history, PcInv, StepInv, Live, CommitSteps, ClearSteps,
        Faithful, Fail
  <2>2. flashMarker' \in {flashMarker, None}
    BY <1>8, HonestWrites DEF EraseStaleMarker
  <2>3. Recovered' = Recovered /\ flashMarker' # Corrupt
    <3>1. CASE flashMarker' = flashMarker
      BY <2>1, <3>1, SameRecovered DEF Faithful
    <3>2. CASE flashMarker' = None
      BY <2>1, <3>2, NothingSelected, Sentinels
    <3> QED BY <2>2, <3>1, <3>2
  <2>4. Stepped
    BY <2>1, <2>3 DEF Stepped, Register!vars
  <2> QED BY <2>1, <2>3, <2>4 DEF Faithful
<1>9. CASE SlotWrite
  <2>1. /\ pc = "slot_write" /\ Live /\ active = Recovered /\ ~clearTried
        /\ UNCHANGED <<flashMarker, settled, prior, pending, clearTried, active>>
    BY <1>0, <1>9
    DEF SlotWrite, history, PcInv, Live, CommitSteps, ClearSteps, Faithful, Fail,
        Continue, memory
  <2>2. Recovered' = Recovered
    <3>1. CASE active = None
      <4>1. flashMarker' = None
        BY <1>0, <2>1, <3>1 DEF MemoryInv, StepInv
      <4> QED BY <2>1, <3>1, <4>1, NothingSelected, Sentinels
    <3>2. CASE active # None
      <4>1. /\ flashMarker \in Marker /\ flashMarker.slot = activeSlot
            /\ flashMarker.gen = active.gen /\ flashSlot[activeSlot] = active
        BY <1>0, <2>1, <3>2 DEF MemoryInv, StepInv, NamesActive, Faithful, ActiveSound
      <4>2. flashSlot'[activeSlot] = flashSlot[activeSlot]
        BY <1>0, <1>9, <3>2 DEF SlotWrite, NextSlot, ValuesOK, Slot
      <4>3. active \in Record
        BY <1>0, <3>2 DEF ValuesOK, OptionalRecord
      <4> QED BY <2>1, <4>1, <4>2, <4>3, NewlySelected
    <3> QED BY <3>1, <3>2
  <2>3. Stepped
    BY <2>1, <2>2 DEF Stepped, Register!vars
  <2> QED BY <2>1, <2>2, <2>3 DEF Faithful
<1>10. CASE SlotVerify
  <2>1. UNCHANGED <<flashMarker, flashSlot, settled, prior, pending, clearTried>>
    BY <1>10 DEF SlotVerify, flash, history
  <2>2. \/ Fail
        \/ active' = active /\ pc = "slot_verify" /\ Live
    BY <1>0, <1>10
    DEF SlotVerify, PcInv, CommitSteps, Live, ClearSteps, Continue, memory
  <2> QED BY <2>1, <2>2, QuietStep
<1>11. CASE MarkerWrite
  <2>1. /\ pc = "marker_write" /\ Live /\ ~clearTried
        /\ candidate \in Record /\ flashSlot[NextSlot] = candidate
        /\ UNCHANGED <<flashSlot, settled, prior, clearTried>>
        /\ pending' = candidate /\ pc' \in {"marker_verify", "rollback"}
    BY <1>0, <1>11
    DEF MarkerWrite, PcInv, ActiveSound, Live, CommitSteps, ClearSteps,
        Faithful, ValuesOK, OptionalRecord, Continue
  <2>2. flashMarker' \in {flashMarker, CandidateMarker}
    <3>1. /\ Written(CandidateMarker) = {CandidateMarker}
          /\ WriteFailed(flashMarker, CandidateMarker) \subseteq {flashMarker, CandidateMarker}
      BY HonestWrites
    <3> QED BY <1>11, <3>1 DEF MarkerWrite
  <2>3. /\ CandidateMarker \in Marker /\ CandidateMarker.slot = NextSlot
        /\ CandidateMarker.gen = candidate.gen
    BY <1>0, <2>1, MarkersType, Sentinels DEF CandidateMarker, MarkerFor
  <2>4. Recovered' \in {Recovered, candidate} /\ flashMarker' # Corrupt
    <3>1. CASE flashMarker' = flashMarker
      BY <2>1, <3>1, SameRecovered DEF Faithful
    <3>2. CASE flashMarker' = CandidateMarker
      BY <2>1, <2>3, <3>2, NewlySelected, Sentinels
    <3> QED BY <2>2, <3>1, <3>2
  <2>5. Register!Publish(candidate)
    BY <2>1, <2>4 DEF Register!Publish
  <2>6. Stepped
    BY <2>1, <2>5 DEF Stepped, Register!Next
  <2> QED BY <2>1, <2>4, <2>6 DEF Faithful
<1>12. CASE MarkerVerify
  <2>1. /\ pc = "marker_verify" /\ Live /\ ~clearTried /\ UNCHANGED <<flashMarker, flashSlot>>
        /\ active = settled /\ pending = candidate /\ candidate \in Record
        /\ flashSlot[NextSlot] = candidate
    BY <1>0, <1>12
    DEF MarkerVerify, flash, PcInv, MemoryInv, ActiveSound, Live, CommitSteps, ClearSteps,
        Faithful, ValuesOK, OptionalRecord
  <2>2. CASE Continue("rollback") /\ UNCHANGED history
    <3>1. Stepped
      BY <2>1, <2>2, Stutters DEF history
    <3> QED BY <2>1, <2>2, <3>1 DEF Faithful, Continue, history
  <2>3. CASE /\ flashMarker = CandidateMarker /\ active' = candidate
             /\ settled' = candidate /\ prior' = active /\ pending' = None
             /\ UNCHANGED clearTried
    <3>1. /\ CandidateMarker \in Marker /\ CandidateMarker.slot = NextSlot
          /\ CandidateMarker.gen = candidate.gen
      BY <1>0, <2>1, MarkersType, Sentinels DEF CandidateMarker, MarkerFor
    <3>2. Recovered' = candidate
      BY <2>1, <2>3, <3>1, NewlySelected
    <3>3. Recovered' = Recovered
      BY <2>1, SameRecovered
    <3>4. Register!Acknowledge
      BY <2>1, <2>3, <3>2, <3>3, Sentinels DEF Register!Acknowledge
    <3>5. Stepped
      BY <3>4 DEF Stepped, Register!Next
    <3> QED BY <2>1, <2>3, <3>2, <3>5 DEF Faithful
  <2> QED BY <1>12, <2>2, <2>3 DEF MarkerVerify
<1>13. CASE RollbackMarker
  <2>1. /\ pc = "rollback" /\ Live /\ ~clearTried /\ Fail
        /\ UNCHANGED <<flashSlot, settled, prior, pending, clearTried>>
        /\ active = settled /\ pending = candidate /\ candidate \in Record
    BY <1>0, <1>13
    DEF RollbackMarker, history, PcInv, MemoryInv, Live, CommitSteps, ClearSteps,
        Faithful, ValuesOK, OptionalRecord
  <2>2. Recovered' \in {Recovered, settled} /\ flashMarker' # Corrupt
    <3>1. CASE flashMarker' = flashMarker
      BY <2>1, <3>1, SameRecovered DEF Faithful
    <3>2. CASE active = None /\ flashMarker' = None
      BY <2>1, <3>2, NothingSelected, Sentinels
    <3>3. CASE active # None /\ flashMarker' = ActiveMarker
      <4>1. active \in Record /\ flashSlot[activeSlot] = active
        BY <1>0, <2>1, <3>3 DEF ActiveSound, ValuesOK, OptionalRecord
      <4>2. /\ ActiveMarker \in Marker /\ ActiveMarker.slot = activeSlot
            /\ ActiveMarker.gen = active.gen
        BY <1>0, <3>3, MarkersType DEF ActiveMarker, MarkerFor
      <4> QED BY <2>1, <3>3, <4>1, <4>2, NewlySelected, Sentinels
    <3> QED
      BY <1>13, <3>1, <3>2, <3>3, HonestWrites DEF RollbackMarker
  <2>3. Recovered \in {settled, pending}
    BY <2>1, PublishedValue
  <2>4. CASE Recovered' = Recovered
    BY <2>1, <2>2, <2>4 DEF Faithful, Fail, Live, Stepped, Register!vars
  <2>5. CASE Recovered' # Recovered
    <3>1. Register!Withdraw
      BY <2>1, <2>2, <2>3, <2>5, Sentinels DEF Register!Withdraw
    <3> QED BY <2>1, <2>2, <3>1 DEF Faithful, Fail, Live, Stepped, Register!Next
  <2> QED BY <2>4, <2>5
<1>14. CASE EraseCandidate
  <2>1. UNCHANGED <<flashMarker, flashSlot, settled, prior, pending, clearTried>>
    BY <1>14 DEF EraseCandidate, history
  <2>2. Stepped /\ Recovered' = Recovered
    BY <2>1, Stutters
  <2> QED
    BY <1>14, <2>1, <2>2 DEF EraseCandidate, Faithful, Live, ClearSteps

<1>15. CASE Clear
  <2>1. CASE ClearBegin
    <3>1. UNCHANGED <<flashMarker, flashSlot, settled, prior, pending>> /\ clearTried' = TRUE
      BY <2>1 DEF ClearBegin, flash
    <3>2. Register!WipeBegin
      BY <3>1, SameRecovered DEF Register!WipeBegin
    <3> QED
      BY <2>1, <3>1, <3>2
      DEF ClearBegin, Faithful, Live, ClearSteps, Stepped, Register!Next
  <2>2. ASSUME pc \in ClearSteps, pc' \in ClearSteps, Stepped,
               flashMarker' \in {flashMarker, None}
        PROVE  Goal
    BY <2>2, Sentinels DEF Faithful, Live
  <2>3. CASE ClearMarker
    <3>1. /\ pc \in ClearSteps /\ pc' \in ClearSteps /\ clearTried
          /\ UNCHANGED <<flashSlot, settled, prior, pending, clearTried>>
          /\ flashMarker' \in {flashMarker, None}
      BY <1>0, <2>3 DEF ClearMarker, ClearStep, ClearSteps, history, ActiveSound
    <3>2. CASE flashMarker' = flashMarker
      BY <2>2, <3>1, <3>2, Stutters
    <3>3. CASE flashMarker' = None
      <4>1. Recovered' = None
        BY <3>3, NothingSelected, Sentinels
      <4>2. Register!WipeStep
        BY <3>1, <4>1 DEF Register!WipeStep
      <4>3. Stepped
        BY <4>2 DEF Stepped, Register!Next
      <4> QED BY <2>2, <3>1, <4>3
    <3> QED BY <3>1, <3>2, <3>3
  <2>4. CASE ClearCandidate
    <3>1. /\ pc \in ClearSteps /\ pc' \in ClearSteps
          /\ UNCHANGED <<flashMarker, flashSlot, settled, prior, pending, clearTried>>
      BY <2>4 DEF ClearCandidate, ClearStep, ClearSteps, history
    <3> QED BY <2>2, <3>1, Stutters
  <2>5. ASSUME NEW s \in Slot, NEW step \in ClearSteps, NEW next \in ClearSteps,
               ClearSlot(s, step, next)
        PROVE  Goal
    <3>1. PICK bytes \in {None, flashSlot[s]} :
            /\ ClearStep(step, next, flashSlot[s], bytes)
            /\ flashSlot' = [flashSlot EXCEPT ![s] = bytes]
      BY <2>5 DEF ClearSlot
    <3>2. /\ pc \in ClearSteps /\ pc' \in ClearSteps /\ clearTried
          /\ UNCHANGED <<flashMarker, settled, prior, pending, clearTried>>
      BY <1>0, <2>5, <3>1 DEF ClearSlot, ClearStep, history, ActiveSound
    <3>3. Stepped
      BY <3>1, <3>2, ErasedSlot
    <3> QED BY <2>2, <3>2, <3>3
  <2>6. CASE ClearFinish
    <3>1. pc = "clear_metadata" /\ clearTried /\ UNCHANGED <<flashMarker, flashSlot>>
      BY <1>0, <2>6 DEF ClearFinish, flash, ClearSteps, ActiveSound
    <3>2. CASE Fail /\ UNCHANGED <<settled, prior, pending, clearTried>>
      BY <3>1, <3>2, QuietStep
    <3>3. CASE /\ erased /\ active' = None /\ settled' = None /\ prior' = None
               /\ pending' = None /\ clearTried' = FALSE
      <4>1. flashMarker = None
        BY <1>0, <3>1, <3>3 DEF ClearInv, ClearSteps
      <4>2. Recovered = None /\ Recovered' = None
        BY <3>1, <4>1, NothingSelected, SameRecovered, Sentinels
      <4>3. Register!WipeDone
        BY <3>1, <3>3, <4>2 DEF Register!WipeDone
      <4>4. Stepped
        BY <4>3 DEF Stepped, Register!Next
      <4> QED BY <3>1, <3>3, <4>2, <4>4 DEF Faithful
    <3> QED BY <2>6, <3>2, <3>3 DEF ClearFinish
  <2>7. /\ 0 \in Slot /\ 1 \in Slot
        /\ {"clear_slot0", "clear_slot1", "clear_metadata"} \subseteq ClearSteps
    BY DEF Slot, ClearSteps
  <2> QED BY <1>15, <2>1, <2>3, <2>4, <2>5, <2>6, <2>7 DEF Clear
<1>16. CASE Rot
  BY <1>0, <1>16 DEF Rot, Honest
<1>17. CASE UNCHANGED vars
  <2>1. /\ UNCHANGED <<flashMarker, flashSlot, settled, prior, pending, clearTried>>
        /\ pc' = pc /\ storageFaulted' = storageFaulted /\ active' = active
    BY <1>17 DEF vars, flash, memory, history
  <2>2. Stepped /\ Recovered' = Recovered
    BY <2>1, Stutters
  <2> QED BY <2>1, <2>2 DEF Faithful, Live
<1> QED
  BY <1>1, <1>2, <1>3, <1>4, <1>5, <1>6, <1>7, <1>8, <1>9, <1>10, <1>11, <1>12,
     <1>13, <1>14, <1>15, <1>16, <1>17
  DEF Next, Commit

\* On storage that reports its failures the store is one durable value: between
\* any two NVS accesses of deck_transaction_store_stage, _commit and _clear a
\* restart finds the acknowledged value, the one being published or, while a
\* clear runs, nothing or the value before.
THEOREM StoreIsRegister ==
  ASSUME Honest
  PROVE  Spec => ImplementsRegister
<1>1. Init => Sound /\ Faithful /\ Register!Init
  <2>1. Init => SettledFound /\ ActiveSound /\ Faithful
    BY StoreAssumption DEF Init, SettledFound, ActiveSound, Faithful, ClearSteps, Live, Bad
  <2>2. Init => Register!Init
    BY StoreAssumption DEF Init, Register!Init, Recovered, ActiveAfterLoad, Bad
  <2> QED BY <2>1, <2>2, TypeInit, InvInit DEF Sound
<1>2. Sound /\ [Next]_vars => Sound'
  BY TypeNext, InvNext, SoundNext DEF Sound
<1>3. Sound /\ Sound' /\ Faithful /\ [Next]_vars => Faithful' /\ [Register!Next]_(Register!vars)
  BY RegisterStep DEF Stepped
<1> QED
  BY <1>1, <1>2, <1>3, PTL DEF Spec, ImplementsRegister, Register!Spec

-----------------------------------------------------------------------------
(* Over-the-air updates *)

\* The records of the update service.
OtaCommands ==
  [kind : {"none", "offer", "chunk", "abort_transport", "stop"}, epoch : Nat, id : Nat,
   version : Nat, valid : BOOLEAN, offset : Nat, size : Nat, final : BOOLEAN]
Outcomes ==
  [id : Nat, epoch : Nat, state : {"none", "receiving", "failed", "ready"}, ok : BOOLEAN,
   ends : BOOLEAN]
LinkPlaces == {"loop", "request", "wake", "wait", "stopping"}

OtaTyped ==
  /\ slot \in [{0, 1} -> Seq(Nat)] /\ running \in {0, 1} /\ boot \in {0, 1}
  /\ image \in {"valid", "new", "pending"}
  /\ fence \in [epoch : Nat \ {0}, state : Ota!FenceStates]
  /\ requested \in BOOLEAN /\ complete \in BOOLEAN /\ dangling \in BOOLEAN /\ late \in BOOLEAN
  /\ commands \in Seq(OtaCommands) /\ results \in Seq(Outcomes)
  /\ transaction = NoTransaction \/ transaction \in Transactions
  /\ worker \in Ota!Places /\ command \in OtaCommands /\ outcome \in Outcomes
  /\ link \in LinkPlaces
  /\ activeId \in Nat /\ offers \in Nat /\ cancelled \in SUBSET Nat

\* The slots: the running image is whole, and so is the one to roll back to
\* while the running one waits for its confirmation.
ImagesHold ==
  /\ Ota!Bootable(running)
  /\ image = "new" => boot = 1 - running
  /\ image = "pending" => boot = running /\ Ota!Bootable(1 - running)

Begun == transaction # NoTransaction

\* The slot being written holds what the digest has covered.
ImageGrows ==
  /\ (Begun /\ transaction.state = "receiving") =>
       /\ slot[1 - running] = transaction.digest
       /\ Ota!StrictlyNewer(transaction.version)
       /\ image # "pending"
  /\ worker \in {"commit", "select"} =>
       /\ Begun /\ transaction.state = "receiving"
       /\ transaction.digest = Ota!Whole(transaction.version)
  /\ (Begun /\ transaction.state # "receiving") =>
       activeId = 0 \/ (worker \in {"committed", "publish", "send", "end"} /\ outcome.ends)
  /\ worker \in {"begin", "open"} => ~Begun

\* An abort the worker has not begun to carry out.
AbortOwed == requested \/ link = "request"

FenceHolds ==
  /\ fence.state = "committing" <=> worker \in {"select", "committed"}
  /\ fence.state = "aborting" => AbortOwed \/ worker \in {"drain", "reopen"}
  /\ fence.state = "active" =>
       \/ Begun \/ worker \in {"open", "drain", "reopen", "stopped"}
       \/ worker \in {"publish", "send", "end"} /\ outcome.ends
  /\ (fence.state = "active" /\ activeId # 0) => activeId \notin cancelled
  /\ worker = "commit" => activeId # 0
  /\ worker = "select" => activeId \notin cancelled

\* A command of the present transport.
IsRequest(c) == c.kind \in {"offer", "chunk"}
Current(c) == IsRequest(c) /\ c.epoch = fence.epoch

\* Where the worker has yet to look for an abort it may already have been asked for.
Receives ==
  worker = "receive" \/ (worker \in {"drain", "reopen", "report"} /\ command.kind = "none")

\* Commands are of this transport or an earlier one, and an abort is seen before
\* any command of the transport that follows it.
QueueHolds ==
  /\ \A i \in DOMAIN commands :
       IsRequest(commands[i]) => commands[i].epoch <= fence.epoch /\ commands[i].id # 0
  /\ IsRequest(command) => command.epoch <= fence.epoch /\ command.id # 0
  /\ link \in {"request", "wake", "wait"} =>
       ~Current(command) /\ \A i \in DOMAIN commands : ~Current(commands[i])
  /\ (requested /\ link \notin {"request", "wake"} /\ Receives) =>
       commands # <<>> /\ ~Current(commands[1])

WorkerHolds ==
  /\ (AbortOwed /\ worker \in {"check", "dispatch", "begin"}) => ~Current(command)
  /\ worker \in {"drain", "reopen", "report"} => ~Current(command)
  /\ worker = "begin" =>
       /\ command.kind = "offer"
       /\ Current(command) => fence.state = "idle"
       /\ ~Current(command) => AbortOwed
  /\ worker \in {"top", "receive", "committed", "publish", "send", "end"} =>
       command = Ota!NoCommand
  /\ dangling => worker \in {"begin", "drain"} \/ AbortOwed

\* Offers are taken in the order they came.
Fresh(n) == n > activeId /\ \A c \in cancelled : n > c

OffersInOrder ==
  /\ \A i, j \in DOMAIN commands :
       (i < j /\ commands[i].kind = "offer" /\ commands[j].kind = "offer")
         => commands[i].id < commands[j].id
  /\ \A i \in DOMAIN commands : commands[i].kind = "offer" =>
       /\ commands[i].id <= offers /\ Fresh(commands[i].id)
       /\ command.kind = "offer" => command.id < commands[i].id
  /\ command.kind = "offer" =>
       /\ command.id <= offers
       /\ IF worker = "open" THEN command.id = activeId ELSE Fresh(command.id)
  /\ activeId <= offers /\ \A c \in cancelled : c <= offers

\* No abort is under way that the worker has not answered.
Answered == complete \/ fence.epoch = 1

ResultsHold ==
  /\ Answered =>
       /\ \A i \in DOMAIN results : results[i].epoch = fence.epoch
       /\ worker \in {"open", "commit", "select"} => command.epoch = fence.epoch
       /\ worker \in {"committed", "publish", "send", "end"} => outcome.epoch = fence.epoch
  /\ worker \in {"reopen", "report"} => results = <<>>
  /\ (link = "loop" /\ ~late) => Answered

OtaInv ==
  OtaTyped /\ ImagesHold /\ ImageGrows /\ FenceHolds /\ QueueHolds /\ WorkerHolds
  /\ OffersInOrder /\ ResultsHold

\* What a command, a signal and a result are made of.
LEMMA OffersAreCommands ==
  ASSUME OtaTyped, NEW n \in Nat, NEW o \in Offers
  PROVE  /\ Ota!Offer(n, o) \in OtaCommands /\ Ota!Offer(n, o).kind = "offer"
         /\ Ota!Offer(n, o).id = n /\ Ota!Offer(n, o).epoch = fence.epoch
<1>1. o \in [version : Nat, valid : BOOLEAN] /\ fence.epoch \in Nat
  BY OtaAssumption DEF OtaTyped
<1> QED
  BY <1>1 DEF Ota!Offer, Ota!Command, OtaCommands

LEMMA ChunksAreCommands ==
  ASSUME OtaTyped, NEW n \in Nat, NEW c \in Chunks
  PROVE  /\ Ota!Chunk(n, c) \in OtaCommands /\ Ota!Chunk(n, c).kind = "chunk"
         /\ Ota!Chunk(n, c).id = n /\ Ota!Chunk(n, c).epoch = fence.epoch
<1>1. c \in [offset : Nat, size : Nat, final : BOOLEAN, version : Nat] /\ fence.epoch \in Nat
  BY OtaAssumption DEF OtaTyped
<1> QED
  BY <1>1 DEF Ota!Chunk, Ota!Command, OtaCommands

LEMMA SignalsAreCommands ==
  ASSUME NEW k \in {"none", "abort_transport", "stop"}
  PROVE  Ota!Signal(k) \in OtaCommands /\ Ota!Signal(k).kind = k
  BY DEF Ota!Signal, Ota!Command, OtaCommands

LEMMA NothingTyped ==
  /\ Ota!NoCommand \in OtaCommands /\ Ota!NoCommand.kind = "none"
  /\ Ota!NoOutcome \in Outcomes /\ Ota!NoOutcome.state = "none"
<1>1. Ota!NoCommand \in OtaCommands /\ Ota!NoCommand.kind = "none"
  BY SignalsAreCommands DEF Ota!NoCommand
<1> QED
  BY <1>1 DEF Ota!NoOutcome, Outcomes

LEMMA OutcomesAreTyped ==
  ASSUME command \in OtaCommands, NEW s \in {"receiving", "failed", "ready"},
         NEW b \in BOOLEAN, NEW e \in BOOLEAN
  PROVE  /\ Ota!Outcome(s, b, e) \in Outcomes
         /\ Ota!Outcome(s, b, e).epoch = command.epoch /\ Ota!Outcome(s, b, e).ends = e
         /\ Ota!Outcome(s, b, e).state = s /\ Ota!Outcome(s, b, e).ok = b
  BY DEF Ota!Outcome, Outcomes, OtaCommands

\* Answer: the command is gone, its result is to be published.
LEMMA AnswerMoves ==
  ASSUME OtaTyped, NEW s \in {"receiving", "failed", "ready"},
         NEW b \in BOOLEAN, NEW e \in BOOLEAN, Ota!Answer(s, b, e)
  PROVE  /\ outcome' \in Outcomes /\ outcome'.epoch = command.epoch /\ outcome'.ends = e
         /\ outcome'.state = s /\ outcome' # Ota!NoOutcome
         /\ command' = Ota!NoCommand /\ command' \in OtaCommands /\ command'.kind = "none"
         /\ worker' = "publish"
<1>1. outcome' = Ota!Outcome(s, b, e) /\ command' = Ota!NoCommand /\ worker' = "publish"
  BY DEF Ota!Answer, Ota!Go
<1>2. /\ outcome' \in Outcomes /\ outcome'.epoch = command.epoch /\ outcome'.ends = e
      /\ outcome'.state = s
  BY <1>1, OutcomesAreTyped DEF OtaTyped
<1> QED
  BY <1>1, <1>2, NothingTyped

LEMMA ContinueMoves ==
  ASSUME Ota!Continue
  PROVE  /\ worker' = "top" /\ command' = Ota!NoCommand /\ outcome' = Ota!NoOutcome
         /\ command' \in OtaCommands /\ command'.kind = "none" /\ outcome' \in Outcomes
  BY NothingTyped DEF Ota!Continue, Ota!Go

LEMMA QueueIsTyped ==
  ASSUME OtaTyped, NEW i \in DOMAIN commands
  PROVE  commands[i] \in OtaCommands /\ commands[i].id \in Nat /\ commands[i].epoch \in Nat
<1>1. commands[i] \in OtaCommands
  BY DEF OtaTyped
<1> QED
  BY <1>1 DEF OtaCommands

\* Nothing but the flash survives a restart.
LEMMA RestartClears ==
  ASSUME OtaTyped, Ota!ServiceStart, slot' = slot, running' \in {0, 1}, boot' \in {0, 1},
         image' \in {"valid", "new", "pending"}
  PROVE  /\ OtaTyped' /\ ImageGrows' /\ FenceHolds' /\ QueueHolds' /\ WorkerHolds'
         /\ OffersInOrder' /\ ResultsHold'
<1>1. /\ fence' \in [epoch : Nat \ {0}, state : Ota!FenceStates] /\ fence'.epoch = 1
      /\ fence'.state = "idle"
  BY DEF Ota!ServiceStart, Ota!Fence0, Ota!FenceStates
<1>2. /\ requested' = FALSE /\ complete' = FALSE /\ commands' = <<>> /\ results' = <<>>
      /\ transaction' = NoTransaction /\ activeId' = 0 /\ dangling' = FALSE /\ worker' = "top"
      /\ command' = Ota!NoCommand /\ outcome' = Ota!NoOutcome /\ link' = "loop" /\ offers' = 0
      /\ cancelled' = {} /\ late' = FALSE
  BY DEF Ota!ServiceStart
<1>3. /\ command' \in OtaCommands /\ command'.kind = "none" /\ outcome' \in Outcomes
  BY <1>2, NothingTyped
<1>4. OtaTyped'
  <2>1. commands' \in Seq(OtaCommands) /\ results' \in Seq(Outcomes)
    BY <1>2
  <2>2. (requested \in BOOLEAN /\ complete \in BOOLEAN /\ dangling \in BOOLEAN /\ late \in BOOLEAN)'
    BY <1>2
  <2>3. /\ slot' \in [{0, 1} -> Seq(Nat)] /\ worker' \in Ota!Places /\ link' \in LinkPlaces
        /\ activeId' \in Nat /\ offers' \in Nat /\ cancelled' \in SUBSET Nat
    BY <1>2 DEF OtaTyped, Ota!Places, LinkPlaces
  <2> QED
    BY <1>1, <1>2, <1>3, <2>1, <2>2, <2>3 DEF OtaTyped
<1>5. ImageGrows'
  BY <1>2 DEF ImageGrows, Begun
<1>6. FenceHolds'
  BY <1>1, <1>2 DEF FenceHolds
<1>7. QueueHolds' /\ WorkerHolds'
  BY <1>2, <1>3 DEF QueueHolds, WorkerHolds, IsRequest, Current
<1>8. OffersInOrder'
  BY <1>2, <1>3 DEF OffersInOrder
<1>9. ResultsHold'
  BY <1>1, <1>2 DEF ResultsHold, Answered
<1> QED
  BY <1>4, <1>5, <1>6, <1>7, <1>8, <1>9

LEMMA OtaWorkerTopStep ==
  ASSUME OtaInv, Ota!WorkerTop
  PROVE  OtaInv'
<1> USE DEF OtaInv
<1>1. UNCHANGED <<slot, running, boot, image, fence, complete, commands, results, transaction,
              activeId, command, outcome, dangling, link, offers, cancelled, late>>
  BY DEF Ota!WorkerTop, Ota!Kept, Ota!flash, Ota!client
<1>2. worker = "top" /\ requested' = FALSE /\ worker' = IF requested THEN "drain" ELSE "receive"
  BY DEF Ota!WorkerTop, Ota!Exchange, Ota!Go
<1>3. command.kind = "none"
  BY <1>2, NothingTyped DEF WorkerHolds
<1>4. OtaTyped'
  BY <1>1, <1>2, <1>3 DEF OtaTyped, Ota!Places
<1>5. ImagesHold'
  BY <1>1 DEF ImagesHold, Ota!Bootable
<1>6. ImageGrows'
  BY <1>1, <1>2, <1>3 DEF ImageGrows, Begun, Ota!StrictlyNewer
<1>7. FenceHolds'
  BY <1>1, <1>2, <1>3 DEF FenceHolds, AbortOwed, Begun
<1>8. QueueHolds'
  BY <1>1, <1>2, <1>3 DEF QueueHolds, IsRequest, Current, Receives
<1>9. WorkerHolds'
  BY <1>1, <1>2, <1>3 DEF WorkerHolds, AbortOwed, IsRequest, Current
<1>10. OffersInOrder'
  BY <1>1, <1>2, <1>3 DEF OffersInOrder, Fresh
<1>11. ResultsHold'
  BY <1>1, <1>2, <1>3 DEF ResultsHold, Answered
<1> QED
  BY <1>4, <1>5, <1>6, <1>7, <1>8, <1>9, <1>10, <1>11

LEMMA OtaAbortReopenStep ==
  ASSUME OtaInv, Ota!AbortReopen
  PROVE  OtaInv'
<1> USE DEF OtaInv
<1>1. UNCHANGED <<slot, running, boot, image, requested, complete, commands, results,
              transaction, activeId, command, outcome, dangling, link, offers, cancelled, late>>
  BY DEF Ota!AbortReopen, Ota!Kept, Ota!flash, Ota!client
<1>2. worker = "reopen" /\ worker' = "report" /\ fence' = [fence EXCEPT !.state = "idle"]
  BY DEF Ota!AbortReopen, Ota!Go, Ota!Reopened
<1>3. /\ fence'.epoch = fence.epoch /\ fence'.state = "idle"
      /\ fence' \in [epoch : Nat \ {0}, state : Ota!FenceStates]
  BY <1>2 DEF OtaTyped, Ota!FenceStates
<1>4. OtaTyped'
  BY <1>1, <1>2, <1>3 DEF OtaTyped, Ota!Places
<1>5. ImagesHold'
  BY <1>1 DEF ImagesHold, Ota!Bootable
<1>6. ImageGrows'
  BY <1>1, <1>2, <1>3 DEF ImageGrows, Begun, Ota!StrictlyNewer
<1>7. FenceHolds'
  BY <1>1, <1>2, <1>3 DEF FenceHolds, AbortOwed, Begun
<1>8. QueueHolds'
  BY <1>1, <1>2, <1>3 DEF QueueHolds, IsRequest, Current, Receives
<1>9. WorkerHolds'
  BY <1>1, <1>2, <1>3 DEF WorkerHolds, AbortOwed, IsRequest, Current
<1>10. OffersInOrder'
  BY <1>1, <1>2, <1>3 DEF OffersInOrder, Fresh
<1>11. ResultsHold'
  BY <1>1, <1>2, <1>3 DEF ResultsHold, Answered
<1> QED
  BY <1>4, <1>5, <1>6, <1>7, <1>8, <1>9, <1>10, <1>11

LEMMA OtaWorkerCheckStep ==
  ASSUME OtaInv, Ota!WorkerCheck
  PROVE  OtaInv'
<1> USE DEF OtaInv
<1>1. UNCHANGED <<slot, running, boot, image, fence, complete, commands, results, transaction,
              activeId, command, outcome, dangling, link, offers, cancelled, late>>
  BY DEF Ota!WorkerCheck, Ota!Kept, Ota!flash, Ota!client
<1>2. worker = "check" /\ requested' = FALSE /\ worker' = IF requested THEN "drain" ELSE "dispatch"
  BY DEF Ota!WorkerCheck, Ota!Exchange, Ota!Go
<1>3. OtaTyped'
  BY <1>1, <1>2 DEF OtaTyped, Ota!Places
<1>4. ImagesHold'
  BY <1>1 DEF ImagesHold, Ota!Bootable
<1>5. ImageGrows'
  BY <1>1, <1>2 DEF ImageGrows, Begun, Ota!StrictlyNewer
<1>6. FenceHolds'
  BY <1>1, <1>2 DEF FenceHolds, AbortOwed, Begun
<1>7. QueueHolds'
  BY <1>1, <1>2 DEF QueueHolds, IsRequest, Current, Receives
<1>8. WorkerHolds'
  BY <1>1, <1>2 DEF WorkerHolds, AbortOwed, IsRequest, Current
<1>9. OffersInOrder'
  BY <1>1, <1>2 DEF OffersInOrder, Fresh
<1>10. ResultsHold'
  BY <1>1, <1>2 DEF ResultsHold, Answered
<1> QED
  BY <1>3, <1>4, <1>5, <1>6, <1>7, <1>8, <1>9, <1>10

LEMMA OtaDispatchAbortStep ==
  ASSUME OtaInv, Ota!DispatchAbort
  PROVE  OtaInv'
<1> USE DEF OtaInv
<1>1. UNCHANGED <<slot, running, boot, image, fence, requested, complete, commands, results,
              transaction, activeId, command, outcome, dangling, link, offers, cancelled, late>>
  BY DEF Ota!DispatchAbort, Ota!Kept, Ota!flash, Ota!client, Ota!shared
<1>2. worker = "dispatch" /\ worker' = "drain" /\ command.kind = "abort_transport"
  BY DEF Ota!DispatchAbort, Ota!Go
<1>3. OtaTyped'
  BY <1>1, <1>2 DEF OtaTyped, Ota!Places
<1>4. ImagesHold'
  BY <1>1 DEF ImagesHold, Ota!Bootable
<1>5. ImageGrows'
  BY <1>1, <1>2 DEF ImageGrows, Begun, Ota!StrictlyNewer
<1>6. FenceHolds'
  BY <1>1, <1>2 DEF FenceHolds, AbortOwed, Begun
<1>7. QueueHolds'
  BY <1>1, <1>2 DEF QueueHolds, IsRequest, Current, Receives
<1>8. WorkerHolds'
  BY <1>1, <1>2 DEF WorkerHolds, AbortOwed, IsRequest, Current
<1>9. OffersInOrder'
  BY <1>1, <1>2 DEF OffersInOrder, Fresh
<1>10. ResultsHold'
  BY <1>1, <1>2 DEF ResultsHold, Answered
<1> QED
  BY <1>3, <1>4, <1>5, <1>6, <1>7, <1>8, <1>9, <1>10

LEMMA OtaPublishStep ==
  ASSUME OtaInv, Ota!Publish
  PROVE  OtaInv'
<1> USE DEF OtaInv
<1>1. UNCHANGED <<slot, running, boot, image, fence, requested, complete, commands, results,
              transaction, activeId, command, outcome, dangling, link, offers, cancelled, late>>
  BY DEF Ota!Publish, Ota!Kept, Ota!flash, Ota!client, Ota!shared
<1>2. worker = "publish" /\ worker' \in {"end", "send"}
  BY DEF Ota!Publish, Ota!Go
<1>3. OtaTyped'
  BY <1>1, <1>2 DEF OtaTyped, Ota!Places
<1>4. ImagesHold'
  BY <1>1 DEF ImagesHold, Ota!Bootable
<1>5. ImageGrows'
  BY <1>1, <1>2 DEF ImageGrows, Begun, Ota!StrictlyNewer
<1>6. FenceHolds'
  BY <1>1, <1>2 DEF FenceHolds, AbortOwed, Begun
<1>7. QueueHolds'
  BY <1>1, <1>2 DEF QueueHolds, IsRequest, Current, Receives
<1>8. WorkerHolds'
  BY <1>1, <1>2 DEF WorkerHolds, AbortOwed, IsRequest, Current
<1>9. OffersInOrder'
  BY <1>1, <1>2 DEF OffersInOrder, Fresh
<1>10. ResultsHold'
  BY <1>1, <1>2 DEF ResultsHold, Answered
<1> QED
  BY <1>3, <1>4, <1>5, <1>6, <1>7, <1>8, <1>9, <1>10

LEMMA OtaAbortRequestStep ==
  ASSUME OtaInv, Ota!AbortRequest
  PROVE  OtaInv'
<1> USE DEF OtaInv
<1>1. UNCHANGED <<slot, running, boot, image, fence, complete, commands, results, transaction,
              activeId, worker, command, outcome, dangling, offers, cancelled, late>>
  BY DEF Ota!AbortRequest, Ota!task, Ota!flash
<1>2. link = "request" /\ link' = "wake" /\ requested' = TRUE
  BY DEF Ota!AbortRequest
<1>3. OtaTyped'
  BY <1>1, <1>2 DEF OtaTyped, LinkPlaces
<1>4. ImagesHold'
  BY <1>1 DEF ImagesHold, Ota!Bootable
<1>5. ImageGrows'
  BY <1>1 DEF ImageGrows, Begun, Ota!StrictlyNewer
<1>6. FenceHolds'
  BY <1>1, <1>2 DEF FenceHolds, AbortOwed, Begun
<1>7. QueueHolds'
  BY <1>1, <1>2 DEF QueueHolds, IsRequest, Current, Receives
<1>8. WorkerHolds'
  BY <1>1, <1>2 DEF WorkerHolds, AbortOwed, IsRequest, Current
<1>9. OffersInOrder'
  BY <1>1 DEF OffersInOrder, Fresh
<1>10. ResultsHold'
  BY <1>1, <1>2 DEF ResultsHold, Answered
<1> QED
  BY <1>3, <1>4, <1>5, <1>6, <1>7, <1>8, <1>9, <1>10

LEMMA OtaAbortReturnStep ==
  ASSUME OtaInv, Ota!AbortReturn
  PROVE  OtaInv'
<1> USE DEF OtaInv
<1>1. UNCHANGED <<slot, running, boot, image, fence, requested, complete, commands, results,
              transaction, activeId, worker, command, outcome, dangling, offers, cancelled>>
  BY DEF Ota!AbortReturn, Ota!task, Ota!flash, Ota!shared
<1>2. link = "wait" /\ link' = "loop" /\ late' = ~complete
  BY DEF Ota!AbortReturn
<1>3. OtaTyped'
  BY <1>1, <1>2 DEF OtaTyped, LinkPlaces
<1>4. ImagesHold'
  BY <1>1 DEF ImagesHold, Ota!Bootable
<1>5. ImageGrows'
  BY <1>1 DEF ImageGrows, Begun, Ota!StrictlyNewer
<1>6. FenceHolds'
  BY <1>1, <1>2 DEF FenceHolds, AbortOwed, Begun
<1>7. QueueHolds'
  BY <1>1, <1>2 DEF QueueHolds, IsRequest, Current, Receives
<1>8. WorkerHolds'
  BY <1>1, <1>2 DEF WorkerHolds, AbortOwed, IsRequest, Current
<1>9. OffersInOrder'
  BY <1>1 DEF OffersInOrder, Fresh
<1>10. ResultsHold'
  BY <1>1, <1>2 DEF ResultsHold, Answered
<1> QED
  BY <1>3, <1>4, <1>5, <1>6, <1>7, <1>8, <1>9, <1>10

LEMMA OtaAbortReportStep ==
  ASSUME OtaInv, Ota!AbortReport
  PROVE  OtaInv'
<1> USE DEF OtaInv
<1>1. UNCHANGED <<slot, running, boot, image, fence, requested, commands, results, transaction,
              activeId, dangling, link, offers, cancelled, late>>
  BY DEF Ota!AbortReport, Ota!Kept, Ota!flash, Ota!client
<1>2. /\ worker = "report" /\ complete' = TRUE
      /\ \/ worker' = "dispatch" /\ command' = command /\ outcome' = outcome /\ command.kind = "stop"
         \/ /\ worker' = "receive" /\ command' = command /\ outcome' = outcome
            /\ command = Ota!NoCommand
         \/ Ota!Continue
  BY DEF Ota!AbortReport, Ota!Go
<1>3. /\ command' \in OtaCommands /\ outcome' \in Outcomes
      /\ \/ worker' = "dispatch" /\ command' = command /\ command.kind = "stop"
         \/ worker' = "receive" /\ command' = command /\ command = Ota!NoCommand
         \/ worker' = "top" /\ command' = Ota!NoCommand
  BY <1>2, ContinueMoves DEF OtaTyped
<1>4. Ota!NoCommand.kind = "none"
  BY NothingTyped
<1>5. OtaTyped'
  BY <1>1, <1>2, <1>3, <1>4 DEF OtaTyped, Ota!Places
<1>6. ImagesHold'
  BY <1>1 DEF ImagesHold, Ota!Bootable
<1>7. ImageGrows'
  BY <1>1, <1>2, <1>3, <1>4 DEF ImageGrows, Begun, Ota!StrictlyNewer
<1>8. FenceHolds'
  BY <1>1, <1>2, <1>3, <1>4 DEF FenceHolds, AbortOwed, Begun
<1>9. QueueHolds'
  BY <1>1, <1>2, <1>3, <1>4 DEF QueueHolds, IsRequest, Current, Receives
<1>10. WorkerHolds'
  BY <1>1, <1>2, <1>3, <1>4 DEF WorkerHolds, AbortOwed, IsRequest, Current
<1>11. OffersInOrder'
  BY <1>1, <1>2, <1>3, <1>4 DEF OffersInOrder, Fresh
<1>12. ResultsHold'
  BY <1>1, <1>2, <1>3, <1>4 DEF ResultsHold, Answered
<1> QED
  BY <1>5, <1>6, <1>7, <1>8, <1>9, <1>10, <1>11, <1>12

LEMMA OtaWorkerReceiveStep ==
  ASSUME OtaInv, Ota!WorkerReceive
  PROVE  OtaInv'
<1> USE DEF OtaInv
<1>1. UNCHANGED <<slot, running, boot, image, fence, requested, complete, results, transaction,
              activeId, outcome, dangling, link, offers, cancelled, late>>
  BY DEF Ota!WorkerReceive, Ota!Kept, Ota!flash, Ota!client
<1>2. /\ worker = "receive" /\ worker' = "check" /\ commands # <<>>
      /\ command' = Head(commands) /\ commands' = Tail(commands)
  BY DEF Ota!WorkerReceive, Ota!Go
<1>3. /\ command' = commands[1] /\ 1 \in DOMAIN commands /\ command' \in OtaCommands
      /\ commands' \in Seq(OtaCommands)
  BY <1>2 DEF OtaTyped
<1>4. \A i \in DOMAIN commands' : /\ i + 1 \in DOMAIN commands /\ commands'[i] = commands[i + 1]
                                   /\ i \in Nat /\ i > 0
  BY <1>2 DEF OtaTyped
<1>5. command = Ota!NoCommand /\ command.kind = "none"
  BY <1>2, NothingTyped DEF WorkerHolds
<1>6. OtaTyped'
  BY <1>1, <1>2, <1>3, <1>4, <1>5 DEF OtaTyped, Ota!Places
<1>7. ImagesHold'
  BY <1>1 DEF ImagesHold, Ota!Bootable
<1>8. ImageGrows'
  BY <1>1, <1>2, <1>3, <1>4, <1>5 DEF ImageGrows, Begun, Ota!StrictlyNewer
<1>9. FenceHolds'
  BY <1>1, <1>2, <1>3, <1>4, <1>5 DEF FenceHolds, AbortOwed, Begun
<1>10. QueueHolds'
  BY <1>1, <1>2, <1>3, <1>4, <1>5 DEF QueueHolds, IsRequest, Current, Receives
<1>11. WorkerHolds'
  <2>1. AbortOwed => ~Current(commands[1])
    BY <1>2, <1>3 DEF QueueHolds, AbortOwed, Receives, OtaTyped, LinkPlaces
  <2> QED
    BY <1>1, <1>2, <1>3, <1>4, <1>5, <2>1 DEF WorkerHolds, AbortOwed, IsRequest, Current
<1>12. OffersInOrder'
  BY <1>1, <1>2, <1>3, <1>4, <1>5 DEF OffersInOrder, Fresh
<1>13. ResultsHold'
  BY <1>1, <1>2, <1>3, <1>4, <1>5 DEF ResultsHold, Answered
<1> QED
  BY <1>6, <1>7, <1>8, <1>9, <1>10, <1>11, <1>12, <1>13

LEMMA OtaWorkerTickStep ==
  ASSUME OtaInv, Ota!WorkerTick
  PROVE  OtaInv'
<1> USE DEF OtaInv
<1>1. UNCHANGED <<slot, running, boot, image, fence, requested, complete, commands, results,
              activeId, dangling, link, offers, cancelled, late>>
  BY DEF Ota!WorkerTick, Ota!Kept, Ota!flash, Ota!client, Ota!shared
<1>2. /\ worker = "receive"
      /\ \/ Ota!Continue /\ transaction' = transaction
         \/ /\ Begun /\ transaction.state = "receiving"
            /\ transaction' = [transaction EXCEPT !.state = "failed"]
            /\ outcome' = [id |-> activeId, epoch |-> fence.epoch, state |-> "failed",
                           ok |-> FALSE, ends |-> TRUE]
            /\ worker' = "publish" /\ command' = command
  BY DEF Ota!WorkerTick, Ota!Go, Begun
<1>3. command = Ota!NoCommand
  BY <1>2 DEF WorkerHolds
<1>4. /\ command' = Ota!NoCommand /\ command' \in OtaCommands /\ outcome' \in Outcomes
      /\ transaction' = NoTransaction \/ transaction' \in Transactions
      /\ \/ worker' = "top" /\ transaction' = transaction
         \/ /\ worker' = "publish" /\ transaction' \in Transactions
            /\ transaction'.state = "failed" /\ outcome'.ends = TRUE /\ outcome'.epoch = fence.epoch
  <2>1. CASE Ota!Continue /\ transaction' = transaction
    BY <2>1, ContinueMoves DEF OtaTyped
  <2>2. CASE /\ Begun /\ transaction.state = "receiving"
             /\ transaction' = [transaction EXCEPT !.state = "failed"]
             /\ outcome' = [id |-> activeId, epoch |-> fence.epoch, state |-> "failed",
                            ok |-> FALSE, ends |-> TRUE]
             /\ worker' = "publish" /\ command' = command
    <3>1. transaction' \in Transactions /\ transaction'.state = "failed"
      BY <2>2 DEF OtaTyped, Transactions, Begun
    <3>2. outcome' \in Outcomes /\ outcome'.ends = TRUE /\ outcome'.epoch = fence.epoch
      BY <2>2 DEF OtaTyped, Outcomes
    <3> QED
      BY <1>3, <2>2, <3>1, <3>2 DEF OtaTyped
  <2> QED
    BY <1>2, <2>1, <2>2
<1>5. Ota!NoCommand.kind = "none" /\ NoTransaction \notin Transactions
  BY NothingTyped, OtaAssumption
<1>6. command.kind = "none"
  BY <1>3, <1>5
<1>7. OtaTyped'
  BY <1>1, <1>4 DEF OtaTyped, Ota!Places
<1>8. ImagesHold'
  BY <1>1 DEF ImagesHold, Ota!Bootable
<1>9. ImageGrows'
  BY <1>1, <1>2, <1>4, <1>5 DEF ImageGrows, Begun, Ota!StrictlyNewer
<1>10. FenceHolds'
  BY <1>1, <1>2, <1>4, <1>5 DEF FenceHolds, AbortOwed, Begun
<1>11. QueueHolds'
  BY <1>1, <1>2, <1>4, <1>5, <1>6 DEF QueueHolds, IsRequest, Current, Receives
<1>12. WorkerHolds'
  BY <1>1, <1>2, <1>4, <1>5, <1>6 DEF WorkerHolds, AbortOwed, IsRequest, Current
<1>13. OffersInOrder'
  BY <1>1, <1>2, <1>4, <1>5, <1>6 DEF OffersInOrder, Fresh
<1>14. ResultsHold'
  BY <1>1, <1>2, <1>4, <1>5 DEF ResultsHold, Answered
<1> QED
  BY <1>7, <1>8, <1>9, <1>10, <1>11, <1>12, <1>13, <1>14

LEMMA OtaDispatchStaleStep ==
  ASSUME OtaInv, Ota!DispatchStale
  PROVE  OtaInv'
<1> USE DEF OtaInv
<1>1. UNCHANGED <<slot, running, boot, image, fence, requested, complete, commands, results,
              transaction, activeId, dangling, link, offers, cancelled, late>>
  BY DEF Ota!DispatchStale, Ota!Kept, Ota!flash, Ota!client, Ota!shared
<1>2. worker = "dispatch" /\ IsRequest(command) /\ Ota!Continue
  BY DEF Ota!DispatchStale, IsRequest
<1>3. /\ worker' = "top" /\ command' = Ota!NoCommand /\ command' \in OtaCommands
      /\ command'.kind = "none" /\ outcome' \in Outcomes
  BY <1>2, ContinueMoves
<1>4. OtaTyped'
  BY <1>1, <1>2, <1>3 DEF OtaTyped, Ota!Places
<1>5. ImagesHold'
  BY <1>1 DEF ImagesHold, Ota!Bootable
<1>6. ImageGrows'
  BY <1>1, <1>2, <1>3 DEF ImageGrows, Begun, Ota!StrictlyNewer
<1>7. FenceHolds'
  BY <1>1, <1>2, <1>3 DEF FenceHolds, AbortOwed, Begun
<1>8. QueueHolds'
  BY <1>1, <1>2, <1>3 DEF QueueHolds, IsRequest, Current, Receives
<1>9. WorkerHolds'
  BY <1>1, <1>2, <1>3 DEF WorkerHolds, AbortOwed, IsRequest, Current
<1>10. OffersInOrder'
  BY <1>1, <1>2, <1>3 DEF OffersInOrder, Fresh
<1>11. ResultsHold'
  BY <1>1, <1>2, <1>3 DEF ResultsHold, Answered
<1> QED
  BY <1>4, <1>5, <1>6, <1>7, <1>8, <1>9, <1>10, <1>11

LEMMA OtaPublishSendStep ==
  ASSUME OtaInv, Ota!PublishSend
  PROVE  OtaInv'
<1> USE DEF OtaInv
<1>1. UNCHANGED <<slot, running, boot, image, fence, requested, complete, commands, transaction,
              activeId, command, outcome, dangling, link, offers, cancelled, late>>
  BY DEF Ota!PublishSend, Ota!Kept, Ota!flash, Ota!client
<1>2. /\ worker = "send" /\ worker' = "end"
      /\ results' = results \/ results' = Append(results, outcome)
  BY DEF Ota!PublishSend, Ota!Go
<1>3. /\ results' \in Seq(Outcomes)
      /\ \A i \in DOMAIN results' :
           (i \in DOMAIN results /\ results'[i] = results[i]) \/ results'[i] = outcome
  <2>1. CASE results' = Append(results, outcome)
    BY <2>1 DEF OtaTyped
  <2> QED
    BY <1>2, <2>1 DEF OtaTyped
<1>4. OtaTyped'
  BY <1>1, <1>2, <1>3 DEF OtaTyped, Ota!Places
<1>5. ImagesHold'
  BY <1>1 DEF ImagesHold, Ota!Bootable
<1>6. ImageGrows'
  BY <1>1, <1>2, <1>3 DEF ImageGrows, Begun, Ota!StrictlyNewer
<1>7. FenceHolds'
  BY <1>1, <1>2, <1>3 DEF FenceHolds, AbortOwed, Begun
<1>8. QueueHolds'
  BY <1>1, <1>2, <1>3 DEF QueueHolds, IsRequest, Current, Receives
<1>9. WorkerHolds'
  BY <1>1, <1>2, <1>3 DEF WorkerHolds, AbortOwed, IsRequest, Current
<1>10. OffersInOrder'
  BY <1>1, <1>2, <1>3 DEF OffersInOrder, Fresh
<1>11. ResultsHold'
  BY <1>1, <1>2, <1>3 DEF ResultsHold, Answered
<1> QED
  BY <1>4, <1>5, <1>6, <1>7, <1>8, <1>9, <1>10, <1>11

LEMMA OtaPublishEndStep ==
  ASSUME OtaInv, Ota!PublishEnd
  PROVE  OtaInv'
<1> USE DEF OtaInv
<1>1. UNCHANGED <<slot, running, boot, image, requested, complete, commands, results,
              transaction, dangling, link, offers, cancelled, late>>
  BY DEF Ota!PublishEnd, Ota!Kept, Ota!flash, Ota!client
<1>2. /\ worker = "end" /\ Ota!Continue
      /\ fence' = IF outcome.ends THEN Ota!EndTransaction(fence) ELSE fence
      /\ activeId' = IF outcome.ends THEN 0 ELSE activeId
  BY DEF Ota!PublishEnd
<1>3. /\ worker' = "top" /\ command' = Ota!NoCommand /\ command' \in OtaCommands
      /\ command'.kind = "none" /\ outcome' \in Outcomes
  BY <1>2, ContinueMoves
<1>4. command = Ota!NoCommand /\ command.kind = "none"
  BY <1>2, NothingTyped DEF WorkerHolds
<1>5. /\ fence' \in [epoch : Nat \ {0}, state : Ota!FenceStates] /\ fence'.epoch = fence.epoch
      /\ \/ fence'.state = fence.state /\ (fence.state = "active" => ~outcome.ends)
         \/ fence'.state = "idle" 
  BY <1>2 DEF OtaTyped, Ota!EndTransaction, Ota!FenceStates
<1>6. activeId' \in Nat /\ activeId' <= activeId
  BY <1>2 DEF OtaTyped
<1>7. OtaTyped'
  BY <1>1, <1>2, <1>3, <1>4, <1>5, <1>6 DEF OtaTyped, Ota!Places
<1>8. ImagesHold'
  BY <1>1 DEF ImagesHold, Ota!Bootable
<1>9. ImageGrows'
  BY <1>1, <1>2, <1>3, <1>4, <1>5, <1>6 DEF ImageGrows, Begun, Ota!StrictlyNewer
<1>10. FenceHolds'
  BY <1>1, <1>2, <1>3, <1>4, <1>5, <1>6 DEF FenceHolds, AbortOwed, Begun
<1>11. QueueHolds'
  BY <1>1, <1>2, <1>3, <1>4, <1>5, <1>6 DEF QueueHolds, IsRequest, Current, Receives
<1>12. WorkerHolds'
  BY <1>1, <1>2, <1>3, <1>4, <1>5, <1>6 DEF WorkerHolds, AbortOwed, IsRequest, Current
<1>13. OffersInOrder'
  <2>1. \A i \in DOMAIN commands : commands[i].id \in Nat
    BY QueueIsTyped
  <2>2. \A n \in Nat : Fresh(n) => Fresh(n)'
    <3>1. activeId \in Nat
      BY DEF OtaTyped
    <3>2. \A n \in Nat : n > activeId => n > activeId'
      BY <1>6, <3>1
    <3> QED
      BY <1>1, <3>2 DEF Fresh
  <2>3. activeId' <= offers
    BY <1>6 DEF OffersInOrder, OtaTyped
  <2> QED
    BY <1>1, <1>2, <1>3, <1>4, <2>1, <2>2, <2>3 DEF OffersInOrder
<1>14. ResultsHold'
  BY <1>1, <1>2, <1>3, <1>4, <1>5, <1>6 DEF ResultsHold, Answered
<1> QED
  BY <1>7, <1>8, <1>9, <1>10, <1>11, <1>12, <1>13, <1>14

LEMMA OtaCommitFinishStep ==
  ASSUME OtaInv, Ota!CommitFinish
  PROVE  OtaInv'
<1> USE DEF OtaInv
<1>1. UNCHANGED <<slot, running, boot, image, requested, complete, commands, results,
              transaction, activeId, command, outcome, dangling, link, offers, cancelled, late>>
  BY DEF Ota!CommitFinish, Ota!Kept, Ota!flash, Ota!client
<1>2. /\ worker = "committed" /\ worker' = "publish"
      /\ fence' = IF fence.state = "committing" THEN [fence EXCEPT !.state = "idle"] ELSE fence
  BY DEF Ota!CommitFinish, Ota!Go
<1>3. fence.state = "committing"
  BY <1>2 DEF FenceHolds
<1>4. /\ fence' \in [epoch : Nat \ {0}, state : Ota!FenceStates] /\ fence'.epoch = fence.epoch
      /\ fence'.state = "idle"
  BY <1>2, <1>3 DEF OtaTyped, Ota!FenceStates
<1>5. OtaTyped'
  BY <1>1, <1>2, <1>3, <1>4 DEF OtaTyped, Ota!Places
<1>6. ImagesHold'
  BY <1>1 DEF ImagesHold, Ota!Bootable
<1>7. ImageGrows'
  BY <1>1, <1>2, <1>3, <1>4 DEF ImageGrows, Begun, Ota!StrictlyNewer
<1>8. FenceHolds'
  BY <1>1, <1>2, <1>3, <1>4 DEF FenceHolds, AbortOwed, Begun
<1>9. QueueHolds'
  BY <1>1, <1>2, <1>3, <1>4 DEF QueueHolds, IsRequest, Current, Receives
<1>10. WorkerHolds'
  BY <1>1, <1>2, <1>3, <1>4 DEF WorkerHolds, AbortOwed, IsRequest, Current
<1>11. OffersInOrder'
  BY <1>1, <1>2, <1>3, <1>4 DEF OffersInOrder, Fresh
<1>12. ResultsHold'
  BY <1>1, <1>2, <1>3, <1>4 DEF ResultsHold, Answered
<1> QED
  BY <1>5, <1>6, <1>7, <1>8, <1>9, <1>10, <1>11, <1>12

LEMMA OtaAbortDrainStep ==
  ASSUME OtaInv, Ota!AbortDrain, ~Ota!Restarted
  PROVE  OtaInv'
<1> USE DEF OtaInv
<1>1. UNCHANGED <<slot, running, boot, image, fence, requested, complete, commands, command,
              outcome, link, offers, cancelled, late>>
  BY DEF Ota!AbortDrain, Ota!Kept, Ota!flash, Ota!client, Ota!Undefined, Ota!Reboot
<1>2. /\ worker = "drain" /\ worker' = "reopen" /\ transaction' = NoTransaction
      /\ dangling' = FALSE /\ activeId' = 0 /\ results' = <<>>
  BY DEF Ota!AbortDrain, Ota!Go, Ota!Drain, Ota!Undefined, Ota!Reboot
<1>3. results' \in Seq(Outcomes)
  BY <1>2
<1>4. \A i \in DOMAIN commands : commands[i].id \in Nat
  BY QueueIsTyped
<1>5. command.id \in Nat /\ offers \in Nat /\ activeId \in Nat
  BY DEF OtaTyped, OtaCommands
<1>6. OtaTyped'
  BY <1>1, <1>2, <1>3, <1>4, <1>5 DEF OtaTyped, Ota!Places
<1>7. ImagesHold'
  BY <1>1 DEF ImagesHold, Ota!Bootable
<1>8. ImageGrows'
  BY <1>1, <1>2, <1>3, <1>4, <1>5 DEF ImageGrows, Begun, Ota!StrictlyNewer
<1>9. FenceHolds'
  BY <1>1, <1>2, <1>3, <1>4, <1>5 DEF FenceHolds, AbortOwed, Begun
<1>10. QueueHolds'
  BY <1>1, <1>2, <1>3, <1>4, <1>5 DEF QueueHolds, IsRequest, Current, Receives
<1>11. WorkerHolds'
  BY <1>1, <1>2, <1>3, <1>4, <1>5 DEF WorkerHolds, AbortOwed, IsRequest, Current
<1>12. OffersInOrder'
  <2>1. \A n \in Nat : Fresh(n) => Fresh(n)'
    BY <1>1, <1>2, <1>5 DEF Fresh
  <2> QED
    BY <1>1, <1>2, <1>4, <1>5, <2>1 DEF OffersInOrder
<1>13. ResultsHold'
  BY <1>1, <1>2, <1>3, <1>4, <1>5 DEF ResultsHold, Answered
<1> QED
  BY <1>6, <1>7, <1>8, <1>9, <1>10, <1>11, <1>12, <1>13

LEMMA OtaStoppingStep ==
  ASSUME OtaInv, Ota!Stopping, ~Ota!Restarted
  PROVE  OtaInv'
<1> USE DEF OtaInv
<1>1. UNCHANGED <<slot, running, boot, image, fence, requested, complete, commands, results,
              activeId, command, outcome, link, offers, cancelled, late>>
  BY DEF Ota!Stopping, Ota!Kept, Ota!flash, Ota!client, Ota!Undefined, Ota!Reboot, Ota!shared
<1>2. /\ worker = "dispatch" /\ worker' = "stopped" /\ transaction' = NoTransaction
      /\ dangling' = FALSE /\ command.kind = "stop" 
  BY DEF Ota!Stopping, Ota!Go, Ota!Undefined, Ota!Reboot
<1>3. OtaTyped'
  BY <1>1, <1>2 DEF OtaTyped, Ota!Places
<1>4. ImagesHold'
  BY <1>1 DEF ImagesHold, Ota!Bootable
<1>5. ImageGrows'
  BY <1>1, <1>2 DEF ImageGrows, Begun, Ota!StrictlyNewer
<1>6. FenceHolds'
  BY <1>1, <1>2 DEF FenceHolds, AbortOwed, Begun
<1>7. QueueHolds'
  BY <1>1, <1>2 DEF QueueHolds, IsRequest, Current, Receives
<1>8. WorkerHolds'
  BY <1>1, <1>2 DEF WorkerHolds, AbortOwed, IsRequest, Current
<1>9. OffersInOrder'
  BY <1>1, <1>2 DEF OffersInOrder, Fresh
<1>10. ResultsHold'
  BY <1>1, <1>2 DEF ResultsHold, Answered
<1> QED
  BY <1>3, <1>4, <1>5, <1>6, <1>7, <1>8, <1>9, <1>10

LEMMA OtaDispatchOfferStep ==
  ASSUME OtaInv, Ota!DispatchOffer
  PROVE  OtaInv'
<1> USE DEF OtaInv
<1>1. UNCHANGED <<slot, running, boot, image, requested, complete, commands, results, activeId,
              link, offers, cancelled, late>>
  BY DEF Ota!DispatchOffer, Ota!Kept, Ota!flash, Ota!client
<1>2. /\ worker = "dispatch" /\ command.kind = "offer" /\ Current(command) /\ command.id # 0
  BY DEF Ota!DispatchOffer, Ota!Accepts, Current, IsRequest, QueueHolds
<1>3. ~AbortOwed /\ fence.state \in {"idle", "active"}
  BY <1>2 DEF WorkerHolds, FenceHolds, OtaTyped, Ota!FenceStates
<1>4. \/ /\ worker' = "begin" /\ ~Begun
         /\ UNCHANGED <<transaction, dangling, fence, command, outcome>>
      \/ /\ Begun /\ transaction.state = "receiving" /\ Ota!Answer("failed", FALSE, FALSE)
         /\ UNCHANGED <<transaction, dangling, fence>>
      \/ /\ worker' = "begin" /\ transaction' = NoTransaction /\ dangling' = TRUE
         /\ fence' = Ota!EndTransaction(fence) /\ UNCHANGED <<command, outcome>>
  BY DEF Ota!DispatchOffer, Ota!Go, Ota!Reject, Begun
<1>5. /\ fence' \in [epoch : Nat \ {0}, state : Ota!FenceStates] /\ fence'.epoch = fence.epoch
      /\ fence'.state = fence.state \/ fence'.state = "idle"
  BY <1>4 DEF OtaTyped, Ota!EndTransaction, Ota!FenceStates
<1>6. \/ /\ worker' = "begin" /\ transaction' = NoTransaction /\ fence'.state = "idle"
         /\ dangling' \in BOOLEAN /\ UNCHANGED <<command, outcome>>
      \/ /\ worker' = "publish" /\ Begun /\ transaction.state = "receiving"
         /\ command' = Ota!NoCommand /\ outcome'.epoch = command.epoch
         /\ command'.kind = "none" /\ UNCHANGED <<transaction, dangling, fence>>
  <2>1. CASE worker' = "begin" /\ ~Begun /\ UNCHANGED <<transaction, dangling, fence, command, outcome>>
    BY <1>2, <1>3, <2>1 DEF Begun, FenceHolds, OtaTyped
  <2>2. CASE /\ Begun /\ transaction.state = "receiving" /\ Ota!Answer("failed", FALSE, FALSE)
             /\ UNCHANGED <<transaction, dangling, fence>>
    BY <2>2, AnswerMoves
  <2>3. CASE /\ worker' = "begin" /\ transaction' = NoTransaction /\ dangling' = TRUE
             /\ fence' = Ota!EndTransaction(fence) /\ UNCHANGED <<command, outcome>>
    <3>1. fence'.state = "idle"
      BY <1>3, <2>3 DEF Ota!EndTransaction, OtaTyped
    <3> QED
      BY <2>3, <3>1
  <2> QED
    BY <1>4, <2>1, <2>2, <2>3
<1>7. /\ command' \in OtaCommands /\ outcome' \in Outcomes /\ dangling' \in BOOLEAN
      /\ worker' \in Ota!Places /\ (transaction' = NoTransaction \/ transaction' \in Transactions)
  <2>1. CASE Ota!Answer("failed", FALSE, FALSE) /\ UNCHANGED <<transaction, dangling>>
    BY <2>1, AnswerMoves DEF OtaTyped, Ota!Places
  <2> QED
    BY <1>4, <2>1 DEF OtaTyped, Ota!Places
<1>8. OtaTyped'
  BY <1>1, <1>5, <1>7 DEF OtaTyped
<1>9. ImagesHold'
  BY <1>1 DEF ImagesHold, Ota!Bootable
<1>10. ImageGrows'
  BY <1>1, <1>2, <1>6 DEF ImageGrows, Begun, Ota!StrictlyNewer
<1>11. FenceHolds'
  BY <1>1, <1>2, <1>3, <1>5, <1>6 DEF FenceHolds, AbortOwed, Begun
<1>12. QueueHolds'
  BY <1>1, <1>2, <1>3, <1>5, <1>6 DEF QueueHolds, AbortOwed, IsRequest, Current, Receives
<1>13. WorkerHolds'
  BY <1>1, <1>2, <1>3, <1>5, <1>6 DEF WorkerHolds, AbortOwed, IsRequest, Current
<1>14. OffersInOrder'
  BY <1>1, <1>2, <1>6 DEF OffersInOrder, Fresh
<1>15. ResultsHold'
  BY <1>1, <1>2, <1>5, <1>6 DEF ResultsHold, Answered, Current
<1> QED
  BY <1>8, <1>9, <1>10, <1>11, <1>12, <1>13, <1>14, <1>15

LEMMA OtaOfferBeginStep ==
  ASSUME OtaInv, Ota!OfferBegin
  PROVE  OtaInv'
<1> USE DEF OtaInv
<1>1. UNCHANGED <<slot, running, boot, image, requested, complete, commands, results,
              transaction, link, offers, cancelled, late>>
  BY DEF Ota!OfferBegin, Ota!Kept, Ota!flash, Ota!client
<1>2. /\ worker = "begin" /\ command.kind = "offer" /\ ~Begun
      /\ (Current(command) => (fence.state = "idle" /\ ~AbortOwed))
      /\ (~Current(command) => AbortOwed)
  BY DEF Ota!OfferBegin, WorkerHolds, ImageGrows
<1>3. Current(command) <=> Ota!MayBegin(fence, command.epoch)
  BY <1>2 DEF Ota!MayBegin, Current, IsRequest
<1>4. \/ /\ Current(command) /\ fence' = [fence EXCEPT !.state = "active"] /\ activeId' = command.id
         /\ dangling' = FALSE /\ worker' = "open" /\ UNCHANGED <<command, outcome>>
      \/ ~Current(command) /\ Ota!Continue /\ UNCHANGED <<fence, activeId, dangling>>
  BY <1>3 DEF Ota!OfferBegin, Ota!Go
<1>5. command.id \in Nat /\ command.id # 0 /\ Fresh(command.id) /\ command.id <= offers
  BY <1>2 DEF OtaTyped, OtaCommands, QueueHolds, IsRequest, OffersInOrder
<1>6. /\ fence' \in [epoch : Nat \ {0}, state : Ota!FenceStates] /\ fence'.epoch = fence.epoch
      /\ (Current(command) => fence'.state = "active")
  BY <1>4 DEF OtaTyped, Ota!FenceStates
<1>7. \/ /\ Current(command) /\ activeId' = command.id
         /\ dangling' = FALSE /\ worker' = "open" /\ UNCHANGED <<command, outcome>>
      \/ /\ ~Current(command) /\ worker' = "top" /\ command' = Ota!NoCommand
         /\ command'.kind = "none" /\ UNCHANGED <<fence, activeId, dangling>>
  BY <1>4, ContinueMoves
<1>8. /\ command' \in OtaCommands /\ outcome' \in Outcomes /\ dangling' \in BOOLEAN
      /\ worker' \in Ota!Places /\ activeId' \in Nat
  BY <1>4, <1>5, ContinueMoves DEF OtaTyped, Ota!Places
<1>9. OtaTyped'
  BY <1>1, <1>6, <1>8 DEF OtaTyped
<1>10. ImagesHold'
  BY <1>1 DEF ImagesHold, Ota!Bootable
<1>11. ImageGrows'
  BY <1>1, <1>2, <1>7 DEF ImageGrows, Begun, Ota!StrictlyNewer
<1>12. FenceHolds'
  <2>1. command.id \notin cancelled
    BY <1>5 DEF Fresh
  <2> QED
    BY <1>1, <1>2, <1>6, <1>7, <2>1 DEF FenceHolds, AbortOwed, Begun
<1>13. QueueHolds'
  BY <1>1, <1>2, <1>6, <1>7 DEF QueueHolds, AbortOwed, IsRequest, Current, Receives
<1>14. WorkerHolds'
  BY <1>1, <1>2, <1>6, <1>7 DEF WorkerHolds, AbortOwed, IsRequest, Current
<1>15. OffersInOrder'
  BY <1>1, <1>2, <1>5, <1>7 DEF OffersInOrder, Fresh
<1>16. ResultsHold'
  BY <1>1, <1>2, <1>6, <1>7 DEF ResultsHold, Answered, Current
<1> QED
  BY <1>9, <1>10, <1>11, <1>12, <1>13, <1>14, <1>15, <1>16

LEMMA OtaOfferOpenStep ==
  ASSUME OtaInv, Ota!OfferOpen
  PROVE  OtaInv'
<1> USE DEF OtaInv
<1>1. UNCHANGED <<running, boot, image, fence, requested, complete, commands, results, activeId,
              dangling, link, offers, cancelled, late>>
  BY DEF Ota!OfferOpen, Ota!Kept, Ota!flash, Ota!client, Ota!shared
<1>2. worker = "open" /\ ~Begun /\ fence.state # "committing"
  BY DEF Ota!OfferOpen, ImageGrows, FenceHolds
<1>3. /\ Ota!Transaction("failed") \in Transactions /\ Ota!Transaction("failed").state = "failed"
      /\ Ota!Transaction("receiving") \in Transactions
      /\ Ota!Transaction("receiving").state = "receiving"
      /\ Ota!Transaction("receiving").digest = <<>>
      /\ Ota!Transaction("receiving").version = command.version
  <2>1. command.version \in Nat
    BY DEF OtaTyped, OtaCommands
  <2> QED
    BY <2>1 DEF Ota!Transaction, Transactions
<1>4. \/ /\ transaction' \in {Ota!Transaction("failed"), NoTransaction}
         /\ Ota!Answer("failed", FALSE, TRUE) /\ slot' = slot
      \/ /\ Ota!StrictlyNewer(command.version) /\ image # "pending"
         /\ transaction' = Ota!Transaction("receiving")
         /\ slot' = [slot EXCEPT ![1 - running] = <<>>] /\ Ota!Answer("receiving", TRUE, FALSE)
  BY DEF Ota!OfferOpen, Ota!ManifestAccepted, Ota!FlashBegin, Ota!UpdateSlot
<1>5. /\ outcome' \in Outcomes /\ outcome'.epoch = command.epoch /\ command' = Ota!NoCommand
      /\ command' \in OtaCommands /\ command'.kind = "none" /\ worker' = "publish"
  BY <1>4, AnswerMoves
<1>6. /\ transaction' = NoTransaction \/ transaction' \in Transactions
      /\ \/ outcome'.ends = TRUE /\ slot' = slot
            /\ (transaction' = NoTransaction \/ transaction'.state = "failed")
         \/ /\ transaction' \in Transactions /\ transaction'.state = "receiving" /\ transaction'.digest = <<>>
            /\ transaction'.version = command.version /\ Ota!StrictlyNewer(command.version)
            /\ image # "pending"
            /\ slot' = [slot EXCEPT ![1 - running] = <<>>]
  BY <1>3, <1>4, AnswerMoves
<1>7. /\ slot' \in [{0, 1} -> Seq(Nat)] /\ slot'[running] = slot[running]
      /\ slot' = slot \/ (slot'[1 - running] = <<>> /\ image # "pending")
  <2>1. CASE slot' = [slot EXCEPT ![1 - running] = <<>>]
    BY <1>6, <2>1 DEF OtaTyped
  <2> QED
    BY <1>6, <2>1 DEF OtaTyped
<1>8. NoTransaction \notin Transactions
  BY OtaAssumption
<1>9. OtaTyped'
  BY <1>1, <1>5, <1>6, <1>7 DEF OtaTyped, Ota!Places
<1>10. ImagesHold'
  BY <1>1, <1>7 DEF ImagesHold, Ota!Bootable
<1>11. ImageGrows'
  <2>1. Ota!StrictlyNewer(command.version) => \A v \in 0..MaxVersion :
                                      slot'[running] = Ota!Whole(v) => command.version > v
    BY <1>7 DEF Ota!StrictlyNewer
  <2>2. CASE outcome'.ends = TRUE /\ (transaction' = NoTransaction \/ transaction'.state = "failed")
    BY <1>5, <2>2 DEF ImageGrows, Begun
  <2>3. CASE /\ transaction'.state = "receiving" /\ transaction'.digest = <<>>
             /\ transaction'.version = command.version /\ Ota!StrictlyNewer(command.version)
            /\ image # "pending"
             /\ slot' = [slot EXCEPT ![1 - running] = <<>>]
    <3>1. slot'[1 - running] = <<>>
      BY <2>3 DEF OtaTyped
    <3> QED
      BY <1>1, <1>5, <2>1, <2>3, <3>1 DEF ImageGrows, Begun, Ota!StrictlyNewer
  <2> QED
    BY <1>6, <2>2, <2>3
<1>12. FenceHolds'
  BY <1>1, <1>2, <1>5, <1>6, <1>8 DEF FenceHolds, AbortOwed, Begun
<1>13. QueueHolds'
  BY <1>1, <1>2, <1>5 DEF QueueHolds, IsRequest, Current, Receives
<1>14. WorkerHolds'
  BY <1>1, <1>2, <1>5 DEF WorkerHolds, AbortOwed, IsRequest, Current
<1>15. OffersInOrder'
  BY <1>1, <1>2, <1>5 DEF OffersInOrder, Fresh
<1>16. ResultsHold'
  BY <1>1, <1>2, <1>5 DEF ResultsHold, Answered
<1> QED
  BY <1>9, <1>10, <1>11, <1>12, <1>13, <1>14, <1>15, <1>16

LEMMA OtaWriteRejectedStep ==
  ASSUME OtaInv, Ota!WriteRejected
  PROVE  OtaInv'
<1> USE DEF OtaInv
<1>1. UNCHANGED <<slot, running, boot, image, fence, requested, complete, commands, results,
              transaction, activeId, dangling, link, offers, cancelled, late>>
  BY DEF Ota!WriteRejected, Ota!Kept, Ota!flash, Ota!client, Ota!shared
<1>2. worker = "dispatch" /\ Current(command) /\ Ota!Answer("failed", FALSE, FALSE)
  BY DEF Ota!WriteRejected, Ota!Write, Ota!Accepts, Ota!Reject, Current, IsRequest
<1>3. /\ outcome' \in Outcomes /\ outcome'.epoch = command.epoch /\ command' = Ota!NoCommand
      /\ command' \in OtaCommands /\ command'.kind = "none" /\ worker' = "publish"
  BY <1>2, AnswerMoves
<1>4. OtaTyped'
  BY <1>1, <1>2, <1>3 DEF OtaTyped, Ota!Places
<1>5. ImagesHold'
  BY <1>1 DEF ImagesHold, Ota!Bootable
<1>6. ImageGrows'
  BY <1>1, <1>2, <1>3 DEF ImageGrows, Begun, Ota!StrictlyNewer
<1>7. FenceHolds'
  BY <1>1, <1>2, <1>3 DEF FenceHolds, AbortOwed, Begun
<1>8. QueueHolds'
  BY <1>1, <1>2, <1>3 DEF QueueHolds, IsRequest, Current, Receives
<1>9. WorkerHolds'
  BY <1>1, <1>2, <1>3 DEF WorkerHolds, AbortOwed, IsRequest, Current
<1>10. OffersInOrder'
  BY <1>1, <1>2, <1>3 DEF OffersInOrder, Fresh
<1>11. ResultsHold'
  BY <1>1, <1>2, <1>3 DEF ResultsHold, Answered, Current
<1> QED
  BY <1>4, <1>5, <1>6, <1>7, <1>8, <1>9, <1>10, <1>11

LEMMA OtaWriteFailsStep ==
  ASSUME OtaInv, Ota!WriteFails
  PROVE  OtaInv'
<1> USE DEF OtaInv
<1>1. UNCHANGED <<slot, running, boot, image, fence, requested, complete, commands, results,
              activeId, dangling, link, offers, cancelled, late>>
  BY DEF Ota!WriteFails, Ota!Kept, Ota!flash, Ota!client, Ota!shared
<1>2. /\ worker = "dispatch" /\ Current(command) /\ Ota!Answer("failed", FALSE, TRUE) /\ Begun
      /\ transaction' = [transaction EXCEPT !.state = "failed"]
  BY DEF Ota!WriteFails, Ota!Write, Ota!Accepts, Ota!Mine, Current, IsRequest, Begun
<1>3. /\ outcome' \in Outcomes /\ outcome'.epoch = command.epoch /\ command' = Ota!NoCommand
      /\ command' \in OtaCommands /\ command'.kind = "none" /\ worker' = "publish"
      /\ outcome'.ends = TRUE
  BY <1>2, AnswerMoves
<1>4. transaction' \in Transactions /\ transaction'.state = "failed"
  BY <1>2 DEF OtaTyped, Transactions, Begun
<1>5. OtaTyped'
  BY <1>1, <1>2, <1>3, <1>4 DEF OtaTyped, Ota!Places
<1>6. ImagesHold'
  BY <1>1 DEF ImagesHold, Ota!Bootable
<1>7. ImageGrows'
  BY <1>1, <1>2, <1>3, <1>4 DEF ImageGrows, Begun, Ota!StrictlyNewer
<1>8. FenceHolds'
  BY <1>1, <1>2, <1>3, <1>4 DEF FenceHolds, AbortOwed, Begun
<1>9. QueueHolds'
  BY <1>1, <1>2, <1>3, <1>4 DEF QueueHolds, IsRequest, Current, Receives
<1>10. WorkerHolds'
  BY <1>1, <1>2, <1>3, <1>4 DEF WorkerHolds, AbortOwed, IsRequest, Current
<1>11. OffersInOrder'
  BY <1>1, <1>2, <1>3, <1>4 DEF OffersInOrder, Fresh
<1>12. ResultsHold'
  BY <1>1, <1>2, <1>3, <1>4 DEF ResultsHold, Answered, Current
<1> QED
  BY <1>5, <1>6, <1>7, <1>8, <1>9, <1>10, <1>11, <1>12

LEMMA OtaWriteAcceptedStep ==
  ASSUME OtaInv, Ota!WriteAccepted
  PROVE  OtaInv'
<1> USE DEF OtaInv
<1>1. UNCHANGED <<running, boot, image, fence, requested, complete, commands, results, activeId,
              dangling, link, offers, cancelled, late>>
  BY DEF Ota!WriteAccepted, Ota!Kept, Ota!flash, Ota!client, Ota!shared
<1>2. /\ worker = "dispatch" /\ Current(command) /\ command.kind = "chunk" /\ Begun
      /\ activeId = command.id /\ command.id # 0
      /\ transaction \in Transactions /\ transaction.state = "receiving"
  <2>1. /\ worker = "dispatch" /\ Current(command) /\ command.kind = "chunk" /\ Begun
        /\ activeId = command.id
    BY DEF Ota!WriteAccepted, Ota!Write, Ota!Accepts, Ota!Mine, Current, IsRequest, Begun
  <2>2. command.id # 0
    BY <2>1 DEF Current, QueueHolds
  <2>3. transaction.state = "receiving"
    BY <2>1, <2>2 DEF ImageGrows
  <2> QED
    BY <2>1, <2>2, <2>3 DEF OtaTyped, Begun
<1>3. /\ slot' = [slot EXCEPT ![1 - running] = @ \o Ota!BlocksOf(command)]
      /\ \/ transaction' = Ota!Written /\ Ota!Answer("receiving", TRUE, FALSE)
         \/ /\ Ota!Written.digest = Ota!Whole(Ota!Written.version) /\ transaction' = Ota!Written
            /\ worker' = "commit" /\ UNCHANGED <<command, outcome>>
         \/ /\ transaction' = [Ota!Written EXCEPT !.state = "failed"]
            /\ Ota!Answer("failed", FALSE, TRUE)
  BY DEF Ota!WriteAccepted, Ota!DigestMatches, Ota!Go, Ota!UpdateSlot
<1>4. Ota!BlocksOf(command) \in Seq(Nat)
  <2>1. command.size \in Nat /\ command.version \in Nat
    BY DEF OtaTyped, OtaCommands
  <2> QED
    BY <2>1 DEF Ota!BlocksOf
<1>5. /\ Ota!Written \in Transactions /\ Ota!Written.state = "receiving"
      /\ Ota!Written.version = transaction.version
      /\ Ota!Written.digest = transaction.digest \o Ota!BlocksOf(command)
  <2> DEFINE d == transaction.digest \o Ota!BlocksOf(command)
             n == transaction.received + command.size
  <2>1. n \in Nat
    <3>1. command.size \in Nat
      BY DEF OtaTyped, OtaCommands
    <3> QED
      BY <1>2, <3>1 DEF Transactions
  <2>2. d \in Seq(Nat)
    BY <1>2, <1>4 DEF Transactions
  <2>3. Ota!Written = [transaction EXCEPT !.received = n, !.digest = d]
    BY <1>2 DEF Ota!Written, Transactions
  <2> HIDE DEF d, n
  <2>4. /\ Ota!Written \in Transactions /\ Ota!Written.state = "receiving"
        /\ Ota!Written.version = transaction.version /\ Ota!Written.digest = d
    BY <1>2, <2>1, <2>2, <2>3 DEF Transactions
  <2> QED
    BY <2>4 DEF d
<1>6. /\ slot' \in [{0, 1} -> Seq(Nat)] /\ slot'[running] = slot[running]
      /\ slot'[1 - running] = slot[1 - running] \o Ota!BlocksOf(command)
  <2>1. slot[1 - running] \o Ota!BlocksOf(command) \in Seq(Nat)
    BY <1>4 DEF OtaTyped
  <2>2. ASSUME NEW b \in Seq(Nat), slot' = [slot EXCEPT ![1 - running] = b]
        PROVE  /\ slot' \in [{0, 1} -> Seq(Nat)] /\ slot'[running] = slot[running]
               /\ slot'[1 - running] = b
    BY <2>2 DEF OtaTyped
  <2> QED
    BY <1>3, <2>1, <2>2
<1>7. /\ slot[1 - running] = transaction.digest /\ image # "pending"
      /\ \A v \in 0..MaxVersion : slot'[running] = Ota!Whole(v) => transaction.version > v
  BY <1>2, <1>6 DEF ImageGrows, Ota!StrictlyNewer
<1>8. /\ command' \in OtaCommands /\ outcome' \in Outcomes /\ transaction' \in Transactions
      /\ \/ /\ worker' = "publish" /\ command' = Ota!NoCommand /\ command'.kind = "none"
            /\ outcome'.epoch = command.epoch
            /\ \/ transaction' = Ota!Written
               \/ transaction'.state = "failed" /\ outcome'.ends = TRUE
         \/ /\ worker' = "commit" /\ transaction' = Ota!Written /\ UNCHANGED <<command, outcome>>
            /\ Ota!Written.digest = Ota!Whole(Ota!Written.version)
  <2>1. CASE transaction' = Ota!Written /\ Ota!Answer("receiving", TRUE, FALSE)
    BY <1>5, <2>1, AnswerMoves
  <2>2. CASE /\ Ota!Written.digest = Ota!Whole(Ota!Written.version) /\ transaction' = Ota!Written
             /\ worker' = "commit" /\ UNCHANGED <<command, outcome>>
    BY <1>5, <2>2 DEF OtaTyped
  <2>3. CASE /\ transaction' = [Ota!Written EXCEPT !.state = "failed"]
             /\ Ota!Answer("failed", FALSE, TRUE)
    <3>1. transaction' \in Transactions /\ transaction'.state = "failed"
      BY <1>5, <2>3 DEF Transactions
    <3> QED
      BY <2>3, <3>1, AnswerMoves
  <2> QED
    BY <1>3, <2>1, <2>2, <2>3
<1>9. NoTransaction \notin Transactions
  BY OtaAssumption
<1>10. OtaTyped'
  BY <1>1, <1>6, <1>8 DEF OtaTyped, Ota!Places
<1>11. ImagesHold'
  BY <1>1, <1>6, <1>7 DEF ImagesHold, Ota!Bootable
<1>12. ImageGrows'
  BY <1>1, <1>2, <1>5, <1>6, <1>7, <1>8, <1>9 DEF ImageGrows, Begun, Ota!StrictlyNewer
<1>13. FenceHolds'
  BY <1>1, <1>2, <1>8, <1>9 DEF FenceHolds, AbortOwed, Begun
<1>14. QueueHolds'
  BY <1>1, <1>2, <1>8 DEF QueueHolds, IsRequest, Current, Receives
<1>15. WorkerHolds'
  BY <1>1, <1>2, <1>8 DEF WorkerHolds, AbortOwed, IsRequest, Current
<1>16. OffersInOrder'
  BY <1>1, <1>2, <1>8 DEF OffersInOrder, Fresh
<1>17. ResultsHold'
  BY <1>1, <1>2, <1>8 DEF ResultsHold, Answered, Current
<1> QED
  BY <1>10, <1>11, <1>12, <1>13, <1>14, <1>15, <1>16, <1>17

LEMMA OtaCommitBeginStep ==
  ASSUME OtaInv, Ota!CommitBegin
  PROVE  OtaInv'
<1> USE DEF OtaInv
<1>1. UNCHANGED <<slot, running, boot, image, requested, complete, commands, results, activeId,
              dangling, link, offers, cancelled, late>>
  BY DEF Ota!CommitBegin, Ota!Kept, Ota!flash, Ota!client
<1>2. /\ worker = "commit" /\ Begun /\ transaction \in Transactions /\ activeId # 0
      /\ transaction.state = "receiving"
  BY DEF Ota!CommitBegin, ImageGrows, OtaTyped, Begun, FenceHolds
<1>3. \/ /\ fence.state = "active" /\ fence' = [fence EXCEPT !.state = "committing"]
         /\ worker' = "select" /\ UNCHANGED <<transaction, command, outcome>>
      \/ /\ transaction' = [transaction EXCEPT !.state = "failed"]
         /\ Ota!Answer("failed", FALSE, TRUE) /\ fence.state # "active" /\ UNCHANGED fence
  BY DEF Ota!CommitBegin, Ota!MayCommit, Ota!Go
<1>4. \/ /\ fence.state = "active" /\ fence'.state = "committing" /\ fence'.epoch = fence.epoch
         /\ fence' \in [epoch : Nat \ {0}, state : Ota!FenceStates]
         /\ worker' = "select" /\ UNCHANGED <<transaction, command, outcome>>
      \/ /\ transaction' \in Transactions /\ transaction'.state = "failed" /\ worker' = "publish"
         /\ command' = Ota!NoCommand /\ command' \in OtaCommands /\ command'.kind = "none"
         /\ outcome' \in Outcomes /\ outcome'.epoch = command.epoch /\ outcome'.ends = TRUE
         /\ fence.state # "active" /\ UNCHANGED fence
  <2>1. CASE /\ fence.state = "active" /\ fence' = [fence EXCEPT !.state = "committing"]
             /\ worker' = "select" /\ UNCHANGED <<transaction, command, outcome>>
    BY <2>1 DEF OtaTyped, Ota!FenceStates
  <2>2. CASE /\ transaction' = [transaction EXCEPT !.state = "failed"]
             /\ Ota!Answer("failed", FALSE, TRUE) /\ fence.state # "active" /\ UNCHANGED fence
    <3>1. transaction' \in Transactions /\ transaction'.state = "failed"
      BY <1>2, <2>2 DEF Transactions
    <3> QED
      BY <2>2, <3>1, AnswerMoves
  <2> QED
    BY <1>3, <2>1, <2>2
<1>5. OtaTyped'
  BY <1>1, <1>2, <1>4 DEF OtaTyped, Ota!Places
<1>6. ImagesHold'
  BY <1>1 DEF ImagesHold, Ota!Bootable
<1>7. ImageGrows'
  BY <1>1, <1>2, <1>4 DEF ImageGrows, Begun, Ota!StrictlyNewer
<1>8. FenceHolds'
  BY <1>1, <1>2, <1>4 DEF FenceHolds, AbortOwed, Begun
<1>9. QueueHolds'
  BY <1>1, <1>2, <1>4 DEF QueueHolds, IsRequest, Current, Receives
<1>10. WorkerHolds'
  BY <1>1, <1>2, <1>4 DEF WorkerHolds, AbortOwed, IsRequest, Current
<1>11. OffersInOrder'
  BY <1>1, <1>2, <1>4 DEF OffersInOrder, Fresh
<1>12. ResultsHold'
  BY <1>1, <1>2, <1>4 DEF ResultsHold, Answered
<1> QED
  BY <1>5, <1>6, <1>7, <1>8, <1>9, <1>10, <1>11, <1>12

LEMMA OtaCommitSelectStep ==
  ASSUME OtaInv, Ota!CommitSelect
  PROVE  OtaInv'
<1> USE DEF OtaInv
<1>1. UNCHANGED <<slot, running, fence, requested, complete, commands, results, activeId,
              dangling, link, offers, cancelled, late>>
  BY DEF Ota!CommitSelect, Ota!Kept, Ota!flash, Ota!client, Ota!shared
<1>2. /\ worker = "select" /\ worker' = "committed" /\ command' = Ota!NoCommand
      /\ \/ /\ boot' = 1 - running /\ image' = "new"
            /\ transaction' = [transaction EXCEPT !.state = "ready"]
            /\ outcome' = Ota!Outcome("ready", TRUE, TRUE)
         \/ /\ transaction' = [transaction EXCEPT !.state = "failed"]
            /\ outcome' = Ota!Outcome("failed", FALSE, TRUE) /\ UNCHANGED <<boot, image>>
  BY DEF Ota!CommitSelect, Ota!Go, Ota!UpdateSlot
<1>3. Begun /\ transaction \in Transactions
  BY <1>2 DEF ImageGrows, OtaTyped, Begun
<1>4. transaction' \in Transactions /\ transaction'.state # "receiving"
  <2>1. \E s \in {"ready", "failed"} : transaction' = [transaction EXCEPT !.state = s]
    BY <1>2
  <2> QED
    BY <1>3, <2>1 DEF Transactions
<1>5. outcome' \in Outcomes /\ outcome'.epoch = command.epoch /\ outcome'.ends = TRUE
  <2>1. CASE outcome' = Ota!Outcome("ready", TRUE, TRUE)
    BY <2>1, OutcomesAreTyped DEF OtaTyped
  <2>2. CASE outcome' = Ota!Outcome("failed", FALSE, TRUE)
    BY <2>2, OutcomesAreTyped DEF OtaTyped
  <2> QED
    BY <1>2, <2>1, <2>2
<1>6. command' \in OtaCommands /\ command'.kind = "none"
  BY <1>2, NothingTyped
<1>7. /\ worker = "select" /\ worker' = "committed" /\ command' = Ota!NoCommand
      /\ (boot' = 1 - running /\ image' = "new") \/ UNCHANGED <<boot, image>>
  BY <1>2
<1>8. OtaTyped'
  BY <1>1, <1>4, <1>5, <1>6, <1>7 DEF OtaTyped, Ota!Places
<1>9. ImagesHold'
  BY <1>1, <1>4, <1>5, <1>6, <1>7 DEF ImagesHold, Ota!Bootable
<1>10. ImageGrows'
  BY <1>1, <1>4, <1>5, <1>6, <1>7, OtaAssumption DEF ImageGrows, Begun, Ota!StrictlyNewer
<1>11. FenceHolds'
  BY <1>1, <1>4, <1>5, <1>6, <1>7 DEF FenceHolds, AbortOwed, Begun
<1>12. QueueHolds'
  BY <1>1, <1>4, <1>5, <1>6, <1>7 DEF QueueHolds, IsRequest, Current, Receives
<1>13. WorkerHolds'
  BY <1>1, <1>4, <1>5, <1>6, <1>7 DEF WorkerHolds, AbortOwed, IsRequest, Current
<1>14. OffersInOrder'
  BY <1>1, <1>4, <1>5, <1>6, <1>7 DEF OffersInOrder, Fresh
<1>15. ResultsHold'
  BY <1>1, <1>4, <1>5, <1>6, <1>7 DEF ResultsHold, Answered
<1> QED
  BY <1>8, <1>9, <1>10, <1>11, <1>12, <1>13, <1>14, <1>15

LEMMA OtaSendOfferStep ==
  ASSUME OtaInv, Ota!SendOffer
  PROVE  OtaInv'
<1> USE DEF OtaInv
<1>1. UNCHANGED <<slot, running, boot, image, fence, requested, complete, results, transaction,
              activeId, worker, command, outcome, dangling, link, cancelled, late>>
  BY DEF Ota!SendOffer, Ota!Quiet, Ota!flash, Ota!task
<1>2. link = "loop" /\ offers' = offers + 1 /\ offers \in Nat
  BY DEF Ota!SendOffer, OtaTyped
<1>3. PICK o \in Offers : commands' = Append(commands, Ota!Offer(offers + 1, o))
  BY DEF Ota!SendOffer
<1>4. PICK c \in OtaCommands : /\ c.kind = "offer" /\ c.id = offers + 1 /\ c.epoch = fence.epoch
                                 /\ commands' = Append(commands, c)
  <2>1. offers + 1 \in Nat
    BY <1>2
  <2>2. /\ Ota!Offer(offers + 1, o) \in OtaCommands /\ Ota!Offer(offers + 1, o).kind = "offer"
        /\ Ota!Offer(offers + 1, o).id = offers + 1
        /\ Ota!Offer(offers + 1, o).epoch = fence.epoch
    BY <2>1, OffersAreCommands
  <2> QED
    BY <1>3, <2>2
<1>5. /\ commands' \in Seq(OtaCommands)
      /\ \A i \in DOMAIN commands' :
           \/ i \in DOMAIN commands /\ commands'[i] = commands[i] /\ i < Len(commands) + 1
           \/ i = Len(commands) + 1 /\ commands'[i] = c
      /\ (commands # <<>> => (commands' # <<>> /\ commands'[1] = commands[1]))
  BY <1>4 DEF OtaTyped
<1>6. \A i \in DOMAIN commands : commands[i].id \in Nat /\ i \in Nat
  BY QueueIsTyped DEF OtaTyped
<1>7. command.id \in Nat /\ activeId \in Nat /\ cancelled \in SUBSET Nat /\ fence.epoch \in Nat
  BY DEF OtaTyped, OtaCommands
<1>8. OtaTyped'
  BY <1>1, <1>2, <1>5 DEF OtaTyped
<1>9. ImagesHold'
  BY <1>1 DEF ImagesHold, Ota!Bootable
<1>10. ImageGrows'
  BY <1>1 DEF ImageGrows, Begun, Ota!StrictlyNewer
<1>11. FenceHolds'
  BY <1>1 DEF FenceHolds, AbortOwed, Begun
<1>12. QueueHolds'
  BY <1>1, <1>2, <1>4, <1>5, <1>7 DEF QueueHolds, IsRequest, Current, Receives
<1>13. WorkerHolds'
  BY <1>1 DEF WorkerHolds, AbortOwed, IsRequest, Current
<1>14. OffersInOrder'
  <2>1. Fresh(offers + 1)
    BY <1>2, <1>7 DEF OffersInOrder, Fresh
  <2>2. \A n : Fresh(n)' <=> Fresh(n)
    BY <1>1 DEF Fresh
  <2>3. \A i \in DOMAIN commands : commands[i].kind = "offer" => commands[i].id < offers + 1
    BY <1>2, <1>6 DEF OffersInOrder
  <2>4. command.kind = "offer" => command.id < offers + 1
    BY <1>2, <1>7 DEF OffersInOrder
  <2>5. \A i, j \in DOMAIN commands' :
          (i < j /\ commands'[i].kind = "offer" /\ commands'[j].kind = "offer")
            => commands'[i].id < commands'[j].id
    BY <1>4, <1>5, <1>6, <2>3 DEF OffersInOrder
  <2>6. \A i \in DOMAIN commands' : commands'[i].kind = "offer" =>
          /\ commands'[i].id <= offers' /\ Fresh(commands'[i].id)
          /\ (command.kind = "offer" => command.id < commands'[i].id)
    BY <1>2, <1>4, <1>5, <1>6, <2>1, <2>4 DEF OffersInOrder
  <2>7. /\ command.kind = "offer" => command.id <= offers'
        /\ activeId <= offers' /\ \A k \in cancelled : k <= offers'
    BY <1>2, <1>7 DEF OffersInOrder
  <2> QED
    BY <1>1, <2>2, <2>5, <2>6, <2>7 DEF OffersInOrder
<1>15. ResultsHold'
  BY <1>1 DEF ResultsHold, Answered
<1> QED
  BY <1>8, <1>9, <1>10, <1>11, <1>12, <1>13, <1>14, <1>15

LEMMA OtaSendChunkStep ==
  ASSUME OtaInv, Ota!SendChunk
  PROVE  OtaInv'
<1> USE DEF OtaInv
<1>1. UNCHANGED <<slot, running, boot, image, fence, requested, complete, results, transaction,
              activeId, worker, command, outcome, dangling, link, offers, cancelled, late>>
  BY DEF Ota!SendChunk, Ota!Quiet, Ota!flash, Ota!task
<1>2. link = "loop" /\ offers \in Nat
  BY DEF Ota!SendChunk, OtaTyped
<1>3. PICK n \in 1..offers, k \in Chunks : commands' = Append(commands, Ota!Chunk(n, k))
  BY DEF Ota!SendChunk
<1>4. PICK c \in OtaCommands : /\ c.kind = "chunk" /\ c.id # 0 /\ c.epoch = fence.epoch
                                 /\ commands' = Append(commands, c)
  <2>1. n \in Nat /\ n # 0
    BY <1>2
  <2>2. /\ Ota!Chunk(n, k) \in OtaCommands /\ Ota!Chunk(n, k).kind = "chunk"
        /\ Ota!Chunk(n, k).id # 0 /\ Ota!Chunk(n, k).epoch = fence.epoch
    BY <2>1, ChunksAreCommands
  <2> QED
    BY <1>3, <2>2
<1>5. /\ commands' \in Seq(OtaCommands)
      /\ \A i \in DOMAIN commands' :
           \/ i \in DOMAIN commands /\ commands'[i] = commands[i] /\ i < Len(commands) + 1
           \/ i = Len(commands) + 1 /\ commands'[i] = c
      /\ (commands # <<>> => (commands' # <<>> /\ commands'[1] = commands[1]))
  <2>1. commands \in Seq(OtaCommands) /\ Len(commands) \in Nat
    BY DEF OtaTyped
  <2>2. Append(commands, c) \in Seq(OtaCommands)
    BY <2>1
  <2>3. DOMAIN Append(commands, c) = 1..(Len(commands) + 1) /\ DOMAIN commands = 1..Len(commands)
    BY <2>1
  <2>4. \A i \in 1..Len(commands) : Append(commands, c)[i] = commands[i]
    BY <2>1
  <2>5. Append(commands, c)[Len(commands) + 1] = c
    BY <2>1
  <2>6. commands # <<>> => 1 \in 1..Len(commands)
    BY <2>1
  <2> QED
    BY <1>4, <2>1, <2>2, <2>3, <2>4, <2>5, <2>6
<1>6. fence.epoch \in Nat
  BY DEF OtaTyped
<1>7. OtaTyped'
  BY <1>1, <1>5 DEF OtaTyped
<1>8. ImagesHold'
  BY <1>1 DEF ImagesHold, Ota!Bootable
<1>9. ImageGrows'
  BY <1>1 DEF ImageGrows, Begun, Ota!StrictlyNewer
<1>10. FenceHolds'
  BY <1>1 DEF FenceHolds, AbortOwed, Begun
<1>11. QueueHolds'
  BY <1>1, <1>2, <1>4, <1>5, <1>6 DEF QueueHolds, IsRequest, Current, Receives
<1>12. WorkerHolds'
  BY <1>1 DEF WorkerHolds, AbortOwed, IsRequest, Current
<1>13. OffersInOrder'
  BY <1>1, <1>4, <1>5 DEF OffersInOrder, Fresh
<1>14. ResultsHold'
  BY <1>1 DEF ResultsHold, Answered
<1> QED
  BY <1>7, <1>8, <1>9, <1>10, <1>11, <1>12, <1>13, <1>14

LEMMA OtaPollResultStep ==
  ASSUME OtaInv, Ota!PollResult, ~Ota!Restarted
  PROVE  OtaInv'
<1> USE DEF OtaInv
<1>1. UNCHANGED <<slot, running, boot, image, fence, requested, complete, commands, transaction,
              activeId, worker, command, outcome, dangling, link, offers, cancelled, late>>
  BY DEF Ota!PollResult, Ota!flash, Ota!task, Ota!client
<1>2. results # <<>> /\ results' = Tail(results)
  BY DEF Ota!PollResult
<1>3. /\ results' \in Seq(Outcomes)
      /\ \A i \in DOMAIN results' : i + 1 \in DOMAIN results /\ results'[i] = results[i + 1]
  BY <1>2 DEF OtaTyped
<1>4. OtaTyped'
  BY <1>1, <1>2, <1>3 DEF OtaTyped, Ota!Places
<1>5. ImagesHold'
  BY <1>1 DEF ImagesHold, Ota!Bootable
<1>6. ImageGrows'
  BY <1>1 DEF ImageGrows, Begun, Ota!StrictlyNewer
<1>7. FenceHolds'
  BY <1>1 DEF FenceHolds, AbortOwed, Begun
<1>8. QueueHolds'
  BY <1>1 DEF QueueHolds, IsRequest, Current, Receives
<1>9. WorkerHolds'
  BY <1>1 DEF WorkerHolds, AbortOwed, IsRequest, Current
<1>10. OffersInOrder'
  BY <1>1 DEF OffersInOrder, Fresh
<1>11. ResultsHold'
  <2>1. ~(worker \in {"reopen", "report"})
    BY <1>2 DEF ResultsHold
  <2> QED
    BY <1>1, <1>2, <1>3, <2>1 DEF ResultsHold, Answered
<1> QED
  BY <1>4, <1>5, <1>6, <1>7, <1>8, <1>9, <1>10, <1>11

LEMMA OtaAbortBeginStep ==
  ASSUME OtaInv, Ota!AbortBegin
  PROVE  OtaInv'
<1> USE DEF OtaInv
<1>1. UNCHANGED <<slot, running, boot, image, requested, commands, results, transaction,
              activeId, worker, command, outcome, dangling, offers, late>>
  BY DEF Ota!AbortBegin, Ota!flash, Ota!task
<1>2. /\ link = "loop" /\ link' = "request" /\ complete' = FALSE
      /\ cancelled' = (IF fence.state = "active" THEN cancelled \cup {activeId} ELSE cancelled)
  BY DEF Ota!AbortBegin
<1>3. /\ fence' \in [epoch : Nat \ {0}, state : Ota!FenceStates] /\ fence'.epoch = fence.epoch + 1
      /\ fence'.state = (IF fence.state = "committing" THEN "committing" ELSE "aborting")
      /\ fence.epoch \in Nat \ {0}
  BY DEF Ota!AbortBegin, Ota!BeginAbort, OtaTyped, Ota!FenceStates
<1>4. /\ (IsRequest(command) => command.epoch < fence'.epoch)
      /\ \A i \in DOMAIN commands : IsRequest(commands[i]) => commands[i].epoch < fence'.epoch
  <2>1. command.epoch \in Nat
    BY DEF OtaTyped, OtaCommands
  <2> QED
    BY <1>3, <2>1, QueueIsTyped DEF QueueHolds
<1>5. command.epoch \in Nat /\ (\A i \in DOMAIN commands : commands[i].epoch \in Nat /\ commands[i].id \in Nat)
  <2>1. command.epoch \in Nat
    BY DEF OtaTyped, OtaCommands
  <2> QED
    BY <2>1, QueueIsTyped
<1>6. cancelled' \in SUBSET Nat /\ \A k \in cancelled' : k \in cancelled \/ k = activeId
  BY <1>2 DEF OtaTyped
<1>7. OtaTyped'
  BY <1>1, <1>2, <1>3, <1>6 DEF OtaTyped, LinkPlaces
<1>8. ImagesHold'
  BY <1>1 DEF ImagesHold, Ota!Bootable
<1>9. ImageGrows'
  BY <1>1 DEF ImageGrows, Begun, Ota!StrictlyNewer
<1>10. FenceHolds'
  BY <1>1, <1>2, <1>3, <1>4, <1>5, <1>6 DEF FenceHolds, AbortOwed, Begun
<1>11. QueueHolds'
  BY <1>1, <1>2, <1>3, <1>4, <1>5 DEF QueueHolds, IsRequest, Current, Receives
<1>12. WorkerHolds'
  BY <1>1, <1>2, <1>3, <1>4, <1>5 DEF WorkerHolds, AbortOwed, IsRequest, Current
<1>13. OffersInOrder'
  <2>1. \A n : Fresh(n) => Fresh(n)'
    BY <1>1, <1>6 DEF Fresh
  <2>2. \A k \in cancelled' : k <= offers
    BY <1>6 DEF OffersInOrder
  <2> QED
    BY <1>1, <2>1, <2>2 DEF OffersInOrder
<1>14. ResultsHold'
  BY <1>1, <1>2, <1>3 DEF ResultsHold, Answered
<1> QED
  BY <1>7, <1>8, <1>9, <1>10, <1>11, <1>12, <1>13, <1>14

LEMMA OtaStopStep ==
  ASSUME OtaInv, Ota!Stop
  PROVE  OtaInv'
<1> USE DEF OtaInv
<1>1. UNCHANGED <<slot, running, boot, image, fence, requested, complete, results, transaction,
              activeId, worker, command, outcome, dangling, offers, cancelled, late>>
  BY DEF Ota!Stop, Ota!Quiet, Ota!flash, Ota!task
<1>2. link = "loop" /\ link' = "stopping"
  BY DEF Ota!Stop
<1>3. PICK c \in OtaCommands : c.kind = "stop" /\ commands' = <<c>> \o commands
  BY SignalsAreCommands DEF Ota!Stop
<1>4. /\ commands' \in Seq(OtaCommands)
      /\ \A i \in DOMAIN commands' :
           \/ i = 1 /\ commands'[i] = c
           \/ i - 1 \in DOMAIN commands /\ commands'[i] = commands[i - 1]
      /\ commands' # <<>> /\ commands'[1] = c /\ DOMAIN commands' \subseteq Nat \ {0}
  BY <1>3 DEF OtaTyped
<1>5. OtaTyped'
  BY <1>1, <1>2, <1>4 DEF OtaTyped, LinkPlaces
<1>6. ImagesHold'
  BY <1>1 DEF ImagesHold, Ota!Bootable
<1>7. ImageGrows'
  BY <1>1 DEF ImageGrows, Begun, Ota!StrictlyNewer
<1>8. FenceHolds'
  BY <1>1, <1>2, <1>3, <1>4 DEF FenceHolds, AbortOwed, Begun
<1>9. QueueHolds'
  BY <1>1, <1>2, <1>3, <1>4 DEF QueueHolds, IsRequest, Current, Receives
<1>10. WorkerHolds'
  BY <1>1, <1>2, <1>3, <1>4 DEF WorkerHolds, AbortOwed, IsRequest, Current
<1>11. OffersInOrder'
  BY <1>1, <1>3, <1>4 DEF OffersInOrder, Fresh
<1>12. ResultsHold'
  BY <1>1, <1>2, <1>3, <1>4 DEF ResultsHold, Answered
<1> QED
  BY <1>5, <1>6, <1>7, <1>8, <1>9, <1>10, <1>11, <1>12

LEMMA OtaAbortWakeStep == ASSUME OtaInv, Ota!AbortWake PROVE OtaInv'
<1> USE DEF OtaInv
<1>1. UNCHANGED <<slot, running, boot, image, fence, requested, complete, results, transaction,
                  activeId, worker, command, outcome, dangling, offers, cancelled, late>>
  BY DEF Ota!AbortWake, Ota!Quiet, Ota!flash, Ota!task
<1>2. /\ link = "wake" /\ link' = "wait" /\ ~Current(command)
      /\ \A i \in DOMAIN commands : ~Current(commands[i])
  BY DEF Ota!AbortWake, QueueHolds
<1>3. /\ ImagesHold' /\ ImageGrows' /\ FenceHolds' /\ WorkerHolds' /\ ResultsHold'
  <2>1. ImagesHold' /\ ImageGrows'
    BY <1>1 DEF ImagesHold, Ota!Bootable, ImageGrows, Begun, Ota!StrictlyNewer
  <2>2. FenceHolds' /\ WorkerHolds'
    BY <1>1, <1>2 DEF FenceHolds, AbortOwed, Begun, WorkerHolds, IsRequest, Current
  <2>3. ResultsHold'
    BY <1>1, <1>2 DEF ResultsHold, Answered
  <2> QED
    BY <2>1, <2>2, <2>3
<1>4. CASE commands' = <<Ota!Signal("abort_transport")>> \o commands
  <2>1. PICK c \in OtaCommands : c.kind = "abort_transport" /\ commands' = <<c>> \o commands
    BY <1>4, SignalsAreCommands
  <2>2. /\ commands' \in Seq(OtaCommands)
        /\ \A i \in DOMAIN commands' :
             \/ i = 1 /\ commands'[i] = c
             \/ i - 1 \in DOMAIN commands /\ commands'[i] = commands[i - 1]
        /\ commands' # <<>> /\ commands'[1] = c /\ DOMAIN commands' \subseteq Nat \ {0}
    BY <2>1 DEF OtaTyped
  <2>3. OtaTyped'
    BY <1>1, <1>2, <2>2 DEF OtaTyped, LinkPlaces
  <2>4. QueueHolds'
    BY <1>1, <1>2, <2>1, <2>2 DEF QueueHolds, IsRequest, Current, Receives
  <2>5. OffersInOrder'
    BY <1>1, <2>1, <2>2 DEF OffersInOrder, Fresh
  <2> QED
    BY <1>3, <2>3, <2>4, <2>5
<1>5. CASE commands' = commands /\ ~(Len(commands) < CommandDepth)
  <2>1. commands # <<>> /\ 1 \in DOMAIN commands
    BY <1>5, OtaAssumption DEF OtaTyped
  <2>2. OtaTyped'
    BY <1>1, <1>2, <1>5 DEF OtaTyped, LinkPlaces
  <2>3. QueueHolds'
    BY <1>1, <1>2, <1>5, <2>1 DEF QueueHolds, IsRequest, Current, Receives
  <2>4. OffersInOrder'
    BY <1>1, <1>5 DEF OffersInOrder, Fresh
  <2> QED
    BY <1>3, <2>2, <2>3, <2>4
<1> QED
  BY <1>4, <1>5 DEF Ota!AbortWake, Ota!Room

\* Boots: the flash decides.
LEMMA OtaRestartStep == ASSUME OtaInv, Ota!Restarted PROVE OtaInv'
<1> USE DEF OtaInv
<1>1. /\ slot' = slot /\ running' = Ota!BootSlot /\ boot' = Ota!BootSlot /\ image' = Ota!BootImage
      /\ Ota!ServiceStart
  BY DEF Ota!Restarted
<1>2. /\ running \in {0, 1} /\ boot \in {0, 1} /\ image \in {"valid", "new", "pending"}
  BY DEF OtaTyped
<1>3. Ota!BootSlot \in {0, 1} /\ Ota!BootImage \in {"valid", "pending"}
  BY <1>2 DEF Ota!BootSlot, Ota!BootImage
<1>4. /\ OtaTyped' /\ ImageGrows' /\ FenceHolds' /\ QueueHolds' /\ WorkerHolds'
      /\ OffersInOrder' /\ ResultsHold'
  BY <1>1, <1>3, RestartClears
<1>5. Ota!Bootable(Ota!BootSlot)
  <2>1. CASE image = "pending"
    BY <1>2, <2>1 DEF ImagesHold, Ota!BootSlot
  <2>2. CASE image # "pending" /\ ~Ota!Bootable(boot)
    <3>1. boot # running
      BY <2>2 DEF ImagesHold
    <3>2. 1 - boot = running
      BY <1>2, <3>1
    <3> QED
      BY <2>2, <3>2 DEF ImagesHold, Ota!BootSlot
  <2>3. CASE image # "pending" /\ Ota!Bootable(boot)
    BY <2>3 DEF Ota!BootSlot
  <2> QED
    BY <2>1, <2>2, <2>3
<1>6. Ota!BootImage = "pending" => Ota!Bootable(1 - Ota!BootSlot)
  <2> SUFFICES ASSUME Ota!BootImage = "pending" PROVE Ota!Bootable(1 - Ota!BootSlot)
    OBVIOUS
  <2>1. Ota!BootSlot = boot /\ image = "new"
    BY DEF Ota!BootImage
  <2>2. 1 - boot = running
    BY <1>2, <2>1 DEF ImagesHold
  <2> QED
    BY <2>1, <2>2 DEF ImagesHold
<1>7. ImagesHold'
  <2>1. \A s : Ota!Bootable(s) => \E v \in 0..MaxVersion : slot'[s] = Ota!Whole(v)
    BY <1>1 DEF Ota!Bootable
  <2> QED
    BY <1>1, <1>3, <1>5, <1>6, <2>1 DEF ImagesHold, Ota!Bootable
<1> QED
  BY <1>4, <1>7

LEMMA OtaStays ==
  ASSUME OtaInv,
         UNCHANGED <<slot, running, boot, fence, requested, complete, commands, results,
                     transaction, activeId, worker, command, outcome, dangling, link, offers,
                     cancelled, late>>,
         image' = image \/ image' = "valid"
  PROVE  OtaInv'
<1> USE DEF OtaInv
<1>1. OtaTyped'
  BY DEF OtaTyped
<1>2. ImagesHold' /\ ImageGrows'
  BY DEF ImagesHold, Ota!Bootable, ImageGrows, Begun, Ota!StrictlyNewer
<1>3. FenceHolds' /\ QueueHolds' /\ WorkerHolds'
  BY DEF FenceHolds, AbortOwed, Begun, QueueHolds, WorkerHolds, IsRequest, Current, Receives
<1>4. OffersInOrder' /\ ResultsHold'
  BY DEF OffersInOrder, Fresh, ResultsHold, Answered
<1> QED
  BY <1>1, <1>2, <1>3, <1>4

LEMMA OtaRollbackStep == ASSUME OtaInv, Ota!Rollback PROVE OtaInv'
<1> USE DEF OtaInv
<1>1. CASE Ota!Bootable(1 - running)
  <2>1. /\ running' = 1 - running /\ boot' = 1 - running /\ image' = "valid" /\ slot' = slot
        /\ Ota!ServiceStart
    BY <1>1 DEF Ota!Rollback
  <2>2. 1 - running \in {0, 1}
    BY DEF OtaTyped
  <2>3. /\ OtaTyped' /\ ImageGrows' /\ FenceHolds' /\ QueueHolds' /\ WorkerHolds'
        /\ OffersInOrder' /\ ResultsHold'
    BY <2>1, <2>2, RestartClears
  <2>4. ImagesHold'
    BY <1>1, <2>1 DEF ImagesHold, Ota!Bootable
  <2> QED
    BY <2>3, <2>4
<1>2. CASE ~Ota!Bootable(1 - running)
  BY <1>2, OtaStays DEF Ota!Rollback, Ota!shared, Ota!task, Ota!client
<1> QED
  BY <1>1, <1>2

LEMMA OtaStep == ASSUME OtaInv, Ota!Next PROVE OtaInv'
<1>1. CASE Ota!Reboot \/ Ota!GuardExpires
  BY <1>1, OtaRestartStep, OtaRollbackStep DEF Ota!Reboot, Ota!GuardExpires
<1>2. CASE Ota!Confirm
  BY <1>2, OtaStays DEF Ota!Confirm, Ota!shared, Ota!task, Ota!client
<1>3. CASE Ota!GuardConfirmed
  BY <1>3, OtaStays, OtaRollbackStep DEF Ota!GuardConfirmed, Ota!shared, Ota!task, Ota!client
<1>4. CASE Ota!Link
  <2>1. CASE Ota!PollResult
    <3>1. CASE Ota!Restarted
      BY <3>1, OtaRestartStep
    <3>2. CASE ~Ota!Restarted
      BY <2>1, <3>2, OtaPollResultStep
    <3> QED
      BY <3>1, <3>2
  <2> QED
    BY <1>4, <2>1, OtaSendOfferStep, OtaSendChunkStep, OtaAbortBeginStep, OtaAbortRequestStep,
       OtaAbortWakeStep, OtaAbortReturnStep, OtaStopStep
       DEF Ota!Link
<1>5. CASE Ota!Worker
  <2>1. CASE Ota!Restarted
    BY <2>1, OtaRestartStep
  <2>2. CASE ~Ota!Restarted
    BY <1>5, <2>2, OtaWorkerTopStep, OtaAbortDrainStep, OtaAbortReopenStep, OtaAbortReportStep,
       OtaWorkerReceiveStep, OtaWorkerTickStep, OtaWorkerCheckStep, OtaStoppingStep,
       OtaDispatchAbortStep, OtaDispatchStaleStep, OtaDispatchOfferStep, OtaOfferBeginStep,
       OtaOfferOpenStep, OtaWriteRejectedStep, OtaWriteFailsStep, OtaWriteAcceptedStep,
       OtaCommitBeginStep, OtaCommitSelectStep, OtaCommitFinishStep, OtaPublishStep,
       OtaPublishSendStep, OtaPublishEndStep
       DEF Ota!Worker
  <2> QED
    BY <2>1, <2>2
<1> QED
  BY <1>1, <1>2, <1>3, <1>4, <1>5 DEF Ota!Next

\* Between two commands there is no result to publish.
OutcomeHolds ==
  worker \in {"committed", "publish", "send", "end"} \/ outcome = Ota!NoOutcome

LEMMA OutcomeStep == ASSUME OutcomeHolds, Ota!Next PROVE OutcomeHolds'
<1> USE DEF OutcomeHolds, Ota!Go
<1>1. CASE Ota!Restarted
  BY <1>1 DEF Ota!Restarted, Ota!ServiceStart
<1>2. ASSUME Ota!Rollback PROVE OutcomeHolds'
  BY <1>2 DEF Ota!Rollback, Ota!ServiceStart, Ota!task
<1>3. CASE Ota!Reboot \/ Ota!GuardExpires \/ Ota!Confirm \/ Ota!GuardConfirmed
  BY <1>1, <1>2, <1>3 DEF Ota!Reboot, Ota!GuardExpires, Ota!Confirm, Ota!GuardConfirmed, Ota!task
<1>4. CASE Ota!Link
  BY <1>1, <1>4 DEF Ota!Link, Ota!SendOffer, Ota!SendChunk, Ota!PollResult, Ota!AbortBegin,
     Ota!AbortRequest, Ota!AbortWake, Ota!AbortReturn, Ota!Stop, Ota!Quiet, Ota!task
<1>5. CASE Ota!WorkerTop \/ Ota!AbortReopen \/ Ota!WorkerReceive \/ Ota!WorkerCheck \/ Ota!DispatchAbort
  BY <1>5 DEF Ota!WorkerTop, Ota!AbortReopen, Ota!WorkerReceive, Ota!WorkerCheck, Ota!DispatchAbort
<1>6. CASE Ota!AbortDrain \/ Ota!Stopping
  BY <1>1, <1>6 DEF Ota!AbortDrain, Ota!Stopping, Ota!Undefined, Ota!Reboot
<1>7. CASE Ota!AbortReport \/ Ota!WorkerTick \/ Ota!DispatchStale \/ Ota!PublishEnd
  BY <1>7 DEF Ota!AbortReport, Ota!WorkerTick, Ota!DispatchStale, Ota!PublishEnd, Ota!Continue
<1>8. CASE Ota!DispatchOffer \/ Ota!OfferBegin \/ Ota!OfferOpen
  BY <1>8 DEF Ota!DispatchOffer, Ota!OfferBegin, Ota!OfferOpen, Ota!Continue, Ota!Answer, Ota!Reject
<1>9. CASE Ota!WriteRejected \/ Ota!WriteFails \/ Ota!WriteAccepted
  BY <1>9 DEF Ota!WriteRejected, Ota!WriteFails, Ota!WriteAccepted, Ota!Write, Ota!Answer, Ota!Reject
<1>10. CASE Ota!CommitBegin \/ Ota!CommitSelect \/ Ota!CommitFinish
  BY <1>10 DEF Ota!CommitBegin, Ota!CommitSelect, Ota!CommitFinish, Ota!Answer
<1>11. CASE Ota!Publish \/ Ota!PublishSend
  BY <1>11 DEF Ota!Publish, Ota!PublishSend
<1> QED
  BY <1>3, <1>4, <1>5, <1>6, <1>7, <1>8, <1>9, <1>10, <1>11 DEF Ota!Next, Ota!Worker

LEMMA OtaInitially == MCInit => OtaInv /\ OutcomeHolds
<1> SUFFICES ASSUME Ota!Init PROVE OtaInv /\ OutcomeHolds
  BY DEF MCInit
<1>1. /\ fence = [epoch |-> 1, state |-> "idle"] /\ requested = FALSE /\ complete = FALSE
      /\ commands = <<>> /\ results = <<>> /\ transaction = NoTransaction /\ activeId = 0
      /\ dangling = FALSE /\ worker = "top" /\ command = Ota!NoCommand
      /\ outcome = Ota!NoOutcome /\ link = "loop" /\ offers = 0 /\ cancelled = {} /\ late = FALSE
      /\ running = 0 /\ boot = 0 /\ image = "valid"
  BY DEF Ota!Init, Ota!Fence0
<1>2. slot \in [{0, 1} -> Seq(Nat)] /\ slot[0] = Ota!Whole(0)
  <2>1. Ota!Whole(0) \in Seq(Nat) /\ <<>> \in Seq(Nat)
    BY OtaAssumption DEF Ota!Whole
  <2> QED
    BY <2>1 DEF Ota!Init, Ota!Slot
<1>3. /\ fence \in [epoch : Nat \ {0}, state : Ota!FenceStates] /\ fence.epoch = 1
      /\ fence.state = "idle"
  BY <1>1 DEF Ota!FenceStates
<1>4. command \in OtaCommands /\ command.kind = "none" /\ outcome \in Outcomes
  BY <1>1, NothingTyped
<1>5. OtaTyped
  <2>1. commands \in Seq(OtaCommands) /\ results \in Seq(Outcomes)
    BY <1>1
  <2>2. requested \in BOOLEAN /\ complete \in BOOLEAN /\ dangling \in BOOLEAN /\ late \in BOOLEAN
    BY <1>1
  <2>3. /\ worker \in Ota!Places /\ link \in LinkPlaces /\ running \in {0, 1} /\ boot \in {0, 1}
        /\ activeId \in Nat /\ offers \in Nat /\ cancelled \in SUBSET Nat
        /\ image \in {"valid", "new", "pending"} /\ transaction = NoTransaction
    BY <1>1 DEF Ota!Places, LinkPlaces
  <2> QED
    BY <1>2, <1>3, <1>4, <2>1, <2>2, <2>3 DEF OtaTyped
<1>6. ImagesHold
  BY <1>1, <1>2, OtaAssumption DEF ImagesHold, Ota!Bootable
<1>7. ImageGrows
  BY <1>1 DEF ImageGrows, Begun
<1>8. FenceHolds
  BY <1>1, <1>3 DEF FenceHolds
<1>9. QueueHolds /\ WorkerHolds
  BY <1>1, <1>4 DEF QueueHolds, WorkerHolds, IsRequest, Current
<1>10. OffersInOrder
  BY <1>1, <1>4 DEF OffersInOrder
<1>11. ResultsHold
  BY <1>1, <1>3 DEF ResultsHold, Answered
<1> QED
  BY <1>1, <1>5, <1>6, <1>7, <1>8, <1>9, <1>10, <1>11 DEF OtaInv, OutcomeHolds

LEMMA OtaVarsStay == ASSUME UNCHANGED otaVars PROVE UNCHANGED Ota!vars
  BY DEF otaVars, Ota!vars, Ota!flash, Ota!shared, Ota!task, Ota!client

LEMMA OtaVarsAre ==
  ASSUME UNCHANGED Ota!vars
  PROVE  UNCHANGED <<slot, running, boot, image, fence, requested, complete, commands, results,
                     transaction, activeId, worker, command, outcome, dangling, link, offers,
                     cancelled, late>>
  BY DEF Ota!vars, Ota!flash, Ota!shared, Ota!task, Ota!client

LEMMA OtaSteps == MCNext => [Ota!Next]_(Ota!vars)
  BY OtaVarsStay DEF MCNext

LEMMA OtaInvariant == MCSpec => [](OtaInv /\ OutcomeHolds)
<1>1. OtaInv /\ OutcomeHolds /\ [MCNext]_<<part, vars, otaVars, linkVars>> => (OtaInv /\ OutcomeHolds)'
  <2> SUFFICES ASSUME OtaInv, OutcomeHolds, [MCNext]_<<part, vars, otaVars, linkVars>>
               PROVE  (OtaInv /\ OutcomeHolds)'
    OBVIOUS
  <2>1. CASE Ota!Next
    BY <2>1, OtaStep, OutcomeStep
  <2>2. CASE UNCHANGED Ota!vars
    BY <2>2, OtaVarsAre, OtaStays DEF OutcomeHolds
  <2> QED
    BY <2>1, <2>2, OtaSteps, OtaVarsStay
<1> QED
  BY <1>1, OtaInitially, PTL DEF MCSpec

\* What the invariant says of the flash, of a destroyed transaction and of the results.
LEMMA OtaStatesAreSafe ==
  ASSUME OtaInv
  PROVE  Ota!RollbackPossible /\ Ota!DestroyedIsUnused /\ Ota!ResultsAreCurrent
<1> USE DEF OtaInv
<1>1. Ota!RollbackPossible
  BY DEF ImagesHold, Ota!RollbackPossible
<1>2. Ota!DestroyedIsUnused
  BY DEF WorkerHolds, IsRequest, Current, Ota!DestroyedIsUnused, Ota!Accepts
<1>3. Ota!ResultsAreCurrent
  BY DEF ResultsHold, Ota!ResultsAreCurrent
<1> QED
  BY <1>1, <1>2, <1>3

\* Only the selection of the boot slot makes the selected image new.
LEMMA SelectionMakesNew ==
  ASSUME OtaInv, Ota!Next, image' = "new", image # "new" \/ boot' # boot
  PROVE  Ota!CommitSelect
<1>1. ~Ota!Restarted
  BY DEF Ota!Restarted, Ota!BootImage
<1>2. ~Ota!Rollback
  BY DEF Ota!Rollback
<1>3. ~(Ota!Reboot \/ Ota!GuardExpires \/ Ota!Confirm \/ Ota!GuardConfirmed)
  BY <1>1, <1>2 DEF Ota!Reboot, Ota!GuardExpires, Ota!Confirm, Ota!GuardConfirmed
<1>4. ~Ota!Link
  BY <1>1 DEF Ota!Link, Ota!SendOffer, Ota!SendChunk, Ota!PollResult, Ota!AbortBegin,
     Ota!AbortRequest, Ota!AbortWake, Ota!AbortReturn, Ota!Stop, Ota!Quiet, Ota!flash
<1>5. ~(Ota!WorkerTop \/ Ota!AbortReopen \/ Ota!WorkerReceive \/ Ota!WorkerCheck \/ Ota!DispatchAbort)
  BY DEF Ota!WorkerTop, Ota!AbortReopen, Ota!WorkerReceive, Ota!WorkerCheck, Ota!DispatchAbort,
     Ota!Kept, Ota!flash
<1>6. ~(Ota!AbortDrain \/ Ota!Stopping)
  BY <1>1 DEF Ota!AbortDrain, Ota!Stopping, Ota!Undefined, Ota!Reboot, Ota!Kept, Ota!flash
<1>7. ~(Ota!AbortReport \/ Ota!WorkerTick \/ Ota!DispatchStale \/ Ota!PublishEnd)
  BY DEF Ota!AbortReport, Ota!WorkerTick, Ota!DispatchStale, Ota!PublishEnd, Ota!Kept, Ota!flash
<1>8. ~(Ota!DispatchOffer \/ Ota!OfferBegin \/ Ota!OfferOpen)
  BY DEF Ota!DispatchOffer, Ota!OfferBegin, Ota!OfferOpen, Ota!Kept, Ota!flash
<1>9. ~(Ota!WriteRejected \/ Ota!WriteFails \/ Ota!WriteAccepted)
  BY DEF Ota!WriteRejected, Ota!WriteFails, Ota!WriteAccepted, Ota!Kept, Ota!flash
<1>10. ~(Ota!CommitBegin \/ Ota!CommitFinish \/ Ota!Publish \/ Ota!PublishSend)
  BY DEF Ota!CommitBegin, Ota!CommitFinish, Ota!Publish, Ota!PublishSend, Ota!Kept, Ota!flash
<1> QED
  BY <1>3, <1>4, <1>5, <1>6, <1>7, <1>8, <1>9, <1>10 DEF Ota!Next, Ota!Worker

\* A worker about to select has nothing to publish, and only its selection gives it that.
LEMMA SelectionSucceeds ==
  ASSUME OtaInv, OutcomeHolds, Ota!Next, worker = "select", outcome'.ok
  PROVE  Ota!CommitSelect /\ boot' = 1 - running
<1>1. ~Ota!NoOutcome.ok
  BY DEF Ota!NoOutcome
<1>2. outcome' # Ota!NoOutcome /\ outcome' # outcome
  BY <1>1 DEF OutcomeHolds
<1>3. ~Ota!Restarted /\ ~Ota!Rollback
  BY <1>2 DEF Ota!Restarted, Ota!Rollback, Ota!ServiceStart, Ota!task
<1>4. ~(Ota!Reboot \/ Ota!GuardExpires \/ Ota!Confirm \/ Ota!GuardConfirmed)
  BY <1>2, <1>3 DEF Ota!Reboot, Ota!GuardExpires, Ota!Confirm, Ota!GuardConfirmed, Ota!task
<1>5. ~Ota!Link
  BY <1>2, <1>3 DEF Ota!Link, Ota!SendOffer, Ota!SendChunk, Ota!PollResult, Ota!AbortBegin,
     Ota!AbortRequest, Ota!AbortWake, Ota!AbortReturn, Ota!Stop, Ota!Quiet, Ota!task
<1>6. Ota!CommitSelect
  BY <1>4, <1>5 DEF Ota!Next, Ota!Worker, Ota!WorkerTop, Ota!AbortReopen, Ota!WorkerReceive,
     Ota!WorkerCheck, Ota!DispatchAbort, Ota!AbortDrain, Ota!Stopping, Ota!AbortReport,
     Ota!WorkerTick, Ota!DispatchStale, Ota!PublishEnd, Ota!DispatchOffer, Ota!OfferBegin,
     Ota!OfferOpen, Ota!WriteRejected, Ota!WriteFails, Ota!WriteAccepted, Ota!Write,
     Ota!CommitBegin, Ota!CommitFinish, Ota!Publish, Ota!PublishSend
<1>7. outcome' # Ota!Outcome("failed", FALSE, TRUE)
  BY DEF Ota!Outcome
<1> QED
  BY <1>6, <1>7 DEF Ota!CommitSelect, Ota!UpdateSlot

LEMMA SelectedWhole ==
  ASSUME OtaInv, OutcomeHolds, Ota!Next, worker = "select", outcome'.ok
  PROVE  /\ boot' # running /\ slot[boot'] = Ota!Whole(transaction.version)
         /\ Ota!StrictlyNewer(transaction.version)
<1>1. boot' = 1 - running /\ running \in {0, 1}
  BY SelectionSucceeds DEF OtaInv, OtaTyped
<1>2. /\ slot[1 - running] = transaction.digest /\ Ota!StrictlyNewer(transaction.version)
      /\ transaction.digest = Ota!Whole(transaction.version)
  BY DEF OtaInv, ImageGrows
<1> QED
  BY <1>1, <1>2

\* A command that goes without a result is not of the present transport.
LEMMA DroppedIsStale ==
  ASSUME OtaInv, OutcomeHolds, Ota!Next, command.kind \in {"offer", "chunk"},
         command' = Ota!NoCommand, outcome' = Ota!NoOutcome
  PROVE  command.epoch # fence.epoch \/ offers' = 0
<1> SUFFICES ASSUME Current(command) PROVE offers' = 0
  BY DEF IsRequest, Current
<1>1. command # Ota!NoCommand /\ command' # command
  BY NothingTyped
<1>2. \A s \in {"receiving", "failed", "ready"}, b \in BOOLEAN, e \in BOOLEAN :
         ~Ota!Answer(s, b, e)
  BY AnswerMoves DEF OtaInv
<1>3. CASE Ota!Restarted
  BY <1>3 DEF Ota!Restarted, Ota!ServiceStart
<1>4. ASSUME Ota!Rollback PROVE offers' = 0
  BY <1>1, <1>4 DEF Ota!Rollback, Ota!ServiceStart, Ota!task
<1>5. CASE Ota!Reboot \/ Ota!GuardExpires \/ Ota!Confirm \/ Ota!GuardConfirmed
  BY <1>1, <1>3, <1>4, <1>5 DEF Ota!Reboot, Ota!GuardExpires, Ota!Confirm, Ota!GuardConfirmed,
     Ota!task
<1>6. CASE Ota!Link
  BY <1>1, <1>3, <1>6 DEF Ota!Link, Ota!SendOffer, Ota!SendChunk, Ota!PollResult, Ota!AbortBegin,
     Ota!AbortRequest, Ota!AbortWake, Ota!AbortReturn, Ota!Stop, Ota!Quiet, Ota!task
<1>7. CASE Ota!WorkerTop \/ Ota!AbortReopen \/ Ota!WorkerCheck \/ Ota!DispatchAbort
  BY <1>1, <1>7 DEF Ota!WorkerTop, Ota!AbortReopen, Ota!WorkerCheck, Ota!DispatchAbort
<1>8. CASE Ota!WorkerReceive \/ Ota!WorkerTick \/ Ota!PublishEnd
  BY <1>1, <1>8 DEF Ota!WorkerReceive, Ota!WorkerTick, Ota!PublishEnd, OtaInv, WorkerHolds
<1>9. CASE Ota!AbortDrain \/ Ota!Stopping
  BY <1>1, <1>3, <1>9 DEF Ota!AbortDrain, Ota!Stopping, Ota!Undefined, Ota!Reboot
<1>10. CASE Ota!AbortReport
  BY <1>10 DEF Ota!AbortReport, OtaInv, WorkerHolds
<1>11. CASE Ota!DispatchStale
  BY <1>11 DEF Ota!DispatchStale, Current, Ota!Accepts
<1>12. CASE Ota!DispatchOffer
  BY <1>1, <1>2, <1>12 DEF Ota!DispatchOffer, Ota!Reject
<1>13. CASE Ota!OfferBegin
  BY <1>1, <1>13 DEF Ota!OfferBegin, Ota!MayBegin, OtaInv, WorkerHolds, Current
<1>14. CASE Ota!OfferOpen \/ Ota!WriteRejected \/ Ota!WriteFails \/ Ota!WriteAccepted
  BY <1>1, <1>2, <1>14 DEF Ota!OfferOpen, Ota!WriteRejected, Ota!WriteFails, Ota!WriteAccepted,
     Ota!Reject
<1>15. CASE Ota!CommitBegin
  BY <1>1, <1>2, <1>15 DEF Ota!CommitBegin
<1>16. CASE Ota!CommitSelect
  <2>1. \A s \in {"receiving", "failed", "ready"}, b \in BOOLEAN, e \in BOOLEAN :
           Ota!Outcome(s, b, e) # Ota!NoOutcome
    BY OutcomesAreTyped, NothingTyped DEF OtaInv, OtaTyped
  <2> QED
    BY <1>16, <2>1 DEF Ota!CommitSelect
<1>17. CASE Ota!CommitFinish \/ Ota!Publish \/ Ota!PublishSend
  BY <1>1, <1>17 DEF Ota!CommitFinish, Ota!Publish, Ota!PublishSend
<1> QED
  BY <1>5, <1>6, <1>7, <1>8, <1>9, <1>10, <1>11, <1>12, <1>13, <1>14, <1>15, <1>16, <1>17
     DEF Ota!Next, Ota!Worker

\* Over-the-air updates (components/ota_service, deck_ota_service.cpp): whatever the
\* link task and the worker do between two looks at the words they share, and at
\* whatever step the Deck restarts, flash_select_boot selects only a whole image of
\* a newer version and never one whose transport was aborted before its commit
\* began, an unconfirmed image has one to roll back to, and the transaction that
\* begin_transaction left behind is not used.
THEOREM UpdateStaysSafe == MCSpec => UpdateIsSafe
<1>1. OtaInv /\ OutcomeHolds => Ota!RollbackPossible /\ Ota!DestroyedIsUnused
  BY OtaStatesAreSafe
<1>2. OtaInv /\ OutcomeHolds /\ [MCNext]_<<part, vars, otaVars, linkVars>> =>
        [(image' = "new" /\ (image # "new" \/ boot' # boot)) => activeId \notin cancelled]_(Ota!vars)
  <2> SUFFICES ASSUME OtaInv, Ota!Next, image' = "new", image # "new" \/ boot' # boot
               PROVE  activeId \notin cancelled
    BY OtaSteps, OtaVarsStay
  <2>1. worker = "select"
    BY SelectionMakesNew DEF Ota!CommitSelect
  <2> QED
    BY <2>1 DEF OtaInv, FenceHolds
<1>3. OtaInv /\ OutcomeHolds /\ [MCNext]_<<part, vars, otaVars, linkVars>> =>
        [(worker = "select" /\ outcome'.ok)
           => /\ boot' # running
              /\ slot[boot'] = Ota!Whole(transaction.version)
              /\ Ota!StrictlyNewer(transaction.version)]_(Ota!vars)
  <2> SUFFICES ASSUME OtaInv, OutcomeHolds, Ota!Next, worker = "select", outcome'.ok
               PROVE  /\ boot' # running
                      /\ slot[boot'] = Ota!Whole(transaction.version)
                      /\ Ota!StrictlyNewer(transaction.version)
    BY OtaSteps, OtaVarsStay
  <2> QED
    BY SelectedWhole
<1> QED
  BY <1>1, <1>2, <1>3, OtaInvariant, PTL
     DEF MCSpec, UpdateIsSafe, Ota!AbortWins, Ota!SelectedIsWhole

\* Aborts of the transport (deck_ota_service_abort_transport and the worker's
\* abort_transport_transaction): results waiting for the link are of its present
\* transport, and the worker passes over no command of the present transport,
\* however the abort and the commands around it are interleaved.
THEOREM TransportsStayApart == MCSpec => TransportsAreApart
<1>1. OtaInv /\ OutcomeHolds => Ota!ResultsAreCurrent
  BY OtaStatesAreSafe
<1>2. OtaInv /\ OutcomeHolds /\ [MCNext]_<<part, vars, otaVars, linkVars>> =>
        [(command.kind \in {"offer", "chunk"} /\ command' = Ota!NoCommand
            /\ outcome' = Ota!NoOutcome)
           => (command.epoch # fence.epoch \/ offers' = 0)]_(Ota!vars)
  <2> SUFFICES ASSUME OtaInv, OutcomeHolds, Ota!Next, command.kind \in {"offer", "chunk"},
                      command' = Ota!NoCommand, outcome' = Ota!NoOutcome
               PROVE  command.epoch # fence.epoch \/ offers' = 0
    BY OtaSteps, OtaVarsStay
  <2> QED
    BY DroppedIsStale
<1> QED
  BY <1>1, <1>2, OtaInvariant, PTL DEF MCSpec, TransportsAreApart, Ota!OnlyStaleIsDropped
=============================================================================
