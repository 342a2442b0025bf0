---------------------------- MODULE AiSnapshotStore ----------------------------
(***************************************************************************)
(* The Deck's cache of the AI snapshot.  The Companion link applies        *)
(* documents to memory and never waits for flash; a private worker opens   *)
(* the storage, brings back what a restart left there and writes           *)
(* checkpoints of the document it is handed.  A flash attempt is recorded  *)
(* before it is made, so that a restart does not repeat it too soon.       *)
(*                                                                         *)
(* A document is the time it was generated and its content.  Times are     *)
(* trusted UTC, 0 standing for none.  The transaction store is its         *)
(* abstract register (DurableRegister): a commit that fails leaves the old *)
(* record or the new one, and nothing more is read from it until it is     *)
(* opened again.                                                           *)
(***************************************************************************)
EXTENDS Naturals

CONSTANTS
    Contents,
    FlashInterval,   \* DECK_AI_SNAPSHOT_FLASH_INTERVAL_MS
    OfflineLimit,    \* DECK_AI_SNAPSHOT_OFFLINE_LIMIT_MS
    MaxTime,         \* bound: the last moment of a behaviour
    MaxFaults,       \* bound: storage calls that fail
    MaxSetBacks,     \* bound: times the trusted clock is set back
    MaxRestarts      \* bound: restarts of the Deck

ASSUME SnapshotBounds ==
    /\ {FlashInterval, OfflineLimit, MaxTime} \subseteq Nat \ {0}
    /\ {MaxFaults, MaxSetBacks, MaxRestarts} \subseteq Nat

VARIABLES
    memory,      \* the document shown, generated = 0 when there is none
    store,       \* the fields under the mutex besides the document
    worker,      \* the worker's place, and what it took with it
    flash,       \* the committed document, the candidate and the attempt record
    shown,       \* what the display has: its clock and the moment of its document
    utc,         \* the trusted time the callers bring
    attempts,    \* history: the times of the last two flash attempts
    faults, restarts, set_backs

vars == <<memory, store, worker, flash, shown, utc, attempts,
          faults, restarts, set_backs>>

Times == 1..MaxTime
Documents == [generated: Times, content: Contents]
NoDocument == [generated |-> 0]
Unknown == MaxTime + 1           \* an attempt record that cannot be read

Fault == faults < MaxFaults /\ faults' = faults + 1
NoFault == UNCHANGED faults

ElapsedAtLeast(newer, older, interval) == newer >= older /\ newer - older >= interval

-----------------------------------------------------------------------------
\* When a checkpoint may be queued.

\* The interval counts from the last attempt; when that is unknown, from the
\* first document applied since.  The document itself must have moved on too.
PersistenceDue(s, generated, now) ==
    /\ s.ready \/ s.needs_reopen
    /\ s.bootstrapped /\ ~s.pending /\ ~s.busy
    /\ s.watermark_unknown =>
         /\ s.unknown_since # 0
         /\ ElapsedAtLeast(now, s.unknown_since, FlashInterval)
    /\ s.last_attempt # 0 => ElapsedAtLeast(now, s.last_attempt, FlashInterval)
    /\ s.persisted # 0 => ElapsedAtLeast(generated, s.persisted, FlashInterval)

\* queue_current_checkpoint_locked: the attempt counts from here on.
QueueCheckpoint(s, document) ==
    IF document.generated # 0 /\ PersistenceDue(s, document.generated, s.latest_apply)
    THEN [s EXCEPT !.pending = TRUE, !.checkpoint = document,
                   !.attempt = s.latest_apply, !.last_attempt = s.latest_apply,
                   !.watermark_unknown = FALSE, !.unknown_since = 0]
    ELSE s

MarkFailure(s) == [s EXCEPT !.faulted = TRUE, !.unreported = TRUE, !.needs_reopen = TRUE]

-----------------------------------------------------------------------------
\* What the storage holds when it is opened.

\* How opening it ends: lost is what could not be read, or the storage itself.
Openings == {{"storage"}} \union SUBSET {"active", "candidate", "attempt"}
Opened(lost) == "storage" \notin lost

\* open_worker_storage
Opens(lost) == lost \in Openings /\ IF lost = {} THEN NoFault ELSE Fault

\* load_persisted_snapshot: the committed document; a candidate is never shown.
Recovered(lost) == IF lost \intersect {"storage", "active"} = {} THEN flash.active ELSE NoDocument

RecoveredCandidate(lost) == IF "candidate" \in lost THEN NoDocument ELSE flash.candidate

\* load_attempt_record: without a readable record of the last attempt its time
\* is unknown; a candidate proves an attempt at least as late as itself.
RecoveredUnknown(lost) ==
    \/ "attempt" \in lost \/ flash.attempt = Unknown
    \/ flash.attempt = 0 /\ {Recovered(lost), RecoveredCandidate(lost)} # {NoDocument}

\* Mutant of RecoveredAttempt: the first checkpoint after a restart is always due.
RecoveredAttemptForgotten(lost) == 0

RecoveredAttempt(lost) ==
    IF RecoveredUnknown(lost) THEN 0
    ELSE IF RecoveredCandidate(lost).generated > flash.attempt
         THEN RecoveredCandidate(lost).generated
    ELSE flash.attempt

\* storage_faulted of what was recovered: it is to be opened again.
RecoveredFaulted(lost) == lost # {} \/ flash.attempt = Unknown

\* The recovered document takes memory's place when it is newer, or of the
\* same moment and different.
RecoveredIsAuthoritative(lost) ==
    /\ Recovered(lost) # NoDocument
    /\ \/ Recovered(lost).generated > memory.generated
       \/ Recovered(lost).generated = memory.generated /\ Recovered(lost) # memory

\* publish_recovered_locked
PublishRecovered(s, lost) ==
    IF Opened(lost)
    THEN [s EXCEPT !.bootstrapped = TRUE, !.ready = TRUE,
                   !.persisted = Recovered(lost).generated,
                   !.last_attempt = RecoveredAttempt(lost),
                   !.watermark_unknown = RecoveredUnknown(lost),
                   !.unknown_since = IF RecoveredUnknown(lost) THEN s.latest_apply ELSE 0,
                   !.faulted = RecoveredFaulted(lost),
                   !.needs_reopen = RecoveredFaulted(lost),
                   !.unreported = @ \/ RecoveredFaulted(lost)]
    ELSE [MarkFailure(s) EXCEPT !.bootstrapped = TRUE, !.ready = FALSE,
                                !.watermark_unknown = TRUE,
                                !.unknown_since = s.latest_apply]

Published(lost) ==
    memory' = IF RecoveredIsAuthoritative(lost) THEN Recovered(lost) ELSE memory

-----------------------------------------------------------------------------
\* The worker.

Bootstrap ==
    /\ worker.pc = "bootstrap"
    /\ \E lost \in Openings :
          /\ Opens(lost) /\ Published(lost)
          /\ store' = QueueCheckpoint(
                        [PublishRecovered(store, lost) EXCEPT !.busy = FALSE], memory')
    /\ worker' = [worker EXCEPT !.pc = "wait"]
    /\ UNCHANGED <<flash, shown, utc, attempts, restarts, set_backs>>

TakeCheckpoint ==
    /\ worker.pc = "wait" /\ store.pending
    /\ worker' = [pc |-> IF store.needs_reopen THEN "reopen" ELSE "attempt",
                  checkpoint |-> store.checkpoint, attempt |-> store.attempt]
    /\ store' = [store EXCEPT !.pending = FALSE, !.busy = TRUE,
                              !.checkpoint = NoDocument, !.attempt = 0]
    /\ UNCHANGED <<memory, flash, shown, utc, attempts, faults, restarts, set_backs>>

\* Mutant of Obsolete: what was taken before the storage was lost is written.
ObsoleteNever(lost) == FALSE

\* The checkpoint is dropped when storage or memory has gone past it.
Obsolete(lost) ==
    \/ Recovered(lost) # NoDocument
       /\ Recovered(lost).generated >= worker.checkpoint.generated
    \/ memory'.generated > worker.checkpoint.generated
    \/ memory'.generated = worker.checkpoint.generated /\ memory' # worker.checkpoint

\* A transaction store that could not read its records refuses to be written.
Refused(lost) == lost \intersect {"active", "candidate"} # {}

Resting == [pc |-> "wait", checkpoint |-> NoDocument, attempt |-> 0]

Reopen ==
    /\ worker.pc = "reopen"
    /\ \E lost \in Openings :
          /\ Opens(lost) /\ Published(lost)
          /\ IF Obsolete(lost)
             THEN /\ store' = QueueCheckpoint(
                         [PublishRecovered(store, lost) EXCEPT !.busy = FALSE], memory')
                  /\ worker' = Resting
             ELSE /\ store' = PublishRecovered(store, lost)
                  /\ worker' = [worker EXCEPT !.pc = CASE ~Opened(lost) -> "failed"
                                                       [] Refused(lost) -> "refused"
                                                       [] OTHER -> "attempt"]
    /\ UNCHANGED <<flash, shown, utc, attempts, restarts, set_backs>>

\* A failed write may have reached the flash, spoilt the record or done nothing.
\* The attempt is recorded even when the transaction store will refuse it.
WriteAttempt ==
    /\ worker.pc \in {"attempt", "refused"}
    /\ attempts' = <<attempts[2], worker.attempt>>
    /\ \/ /\ NoFault
          /\ flash' = [flash EXCEPT !.attempt = worker.attempt]
          /\ worker' = [worker EXCEPT !.pc = IF @ = "attempt" THEN "commit" ELSE "failed"]
       \/ /\ Fault
          /\ \E record \in {flash.attempt, worker.attempt, Unknown} :
                flash' = [flash EXCEPT !.attempt = record]
          /\ worker' = [worker EXCEPT !.pc = "failed"]
    /\ UNCHANGED <<memory, store, shown, utc, restarts, set_backs>>

Commit ==
    /\ worker.pc = "commit"
    /\ \/ /\ NoFault
          /\ flash' = [flash EXCEPT !.active = worker.checkpoint, !.candidate = NoDocument]
          /\ worker' = [worker EXCEPT !.pc = "done"]
       \/ /\ Fault
          /\ flash' \in {flash, [flash EXCEPT !.candidate = worker.checkpoint],
                         [flash EXCEPT !.active = worker.checkpoint,
                                       !.candidate = worker.checkpoint]}
          /\ worker' = [worker EXCEPT !.pc = "failed"]
    /\ UNCHANGED <<memory, store, shown, utc, attempts, restarts, set_backs>>

Finish ==
    /\ worker.pc \in {"done", "failed"}
    /\ store' = IF worker.pc = "done"
                THEN [store EXCEPT !.persisted = worker.checkpoint.generated,
                                   !.last_attempt = worker.attempt,
                                   !.faulted = FALSE, !.needs_reopen = FALSE,
                                   !.watermark_unknown = FALSE, !.unknown_since = 0,
                                   !.busy = FALSE]
                ELSE [MarkFailure(store) EXCEPT !.busy = FALSE]
    /\ worker' = Resting
    /\ UNCHANGED <<memory, flash, shown, utc, attempts, faults, restarts, set_backs>>

\* destroy: what is queued is still written before the worker leaves.
Stop ==
    /\ worker.pc = "wait" /\ ~store.pending
    /\ worker' = [worker EXCEPT !.pc = "exited"]
    /\ store' = [store EXCEPT !.ready = FALSE, !.busy = FALSE]
    /\ UNCHANGED <<memory, flash, shown, utc, attempts, faults, restarts, set_backs>>

-----------------------------------------------------------------------------
\* The link and the display.

\* observe_clock: a trusted time before the latest one is refused and remembered.
Rollback(clock) == clock.high # 0 /\ utc < clock.high
Observed(clock) ==
    IF Rollback(clock) THEN [clock EXCEPT !.rolled_back = TRUE]
    ELSE [high |-> utc, rolled_back |-> FALSE]

Apply(document) ==
    /\ worker.pc # "exited"
    /\ LET seen == [store EXCEPT !.apply_clock = Observed(@)]
           applied == [seen EXCEPT !.latest_apply = utc,
                                   !.unknown_since =
                                      IF store.watermark_unknown /\ @ = 0 THEN utc ELSE @]
           accepted == /\ ~Rollback(store.apply_clock)
                       /\ document.generated <= utc
                       /\ document.generated > memory.generated
       IN IF accepted
          THEN memory' = document /\ store' = QueueCheckpoint(applied, document)
          ELSE store' = seen /\ UNCHANGED memory
    /\ UNCHANGED <<worker, flash, shown, utc, attempts, faults, restarts, set_backs>>

\* A document is handed out only while no clock is known to have gone back and
\* it is younger than the offline limit.
Copy ==
    /\ memory # NoDocument
    /\ LET clock == Observed(shown.clock)
           visible == /\ ~clock.rolled_back /\ ~store.apply_clock.rolled_back
                      /\ utc >= memory.generated
                      /\ utc - memory.generated < OfflineLimit
       IN shown' = [clock |-> clock, generated |-> IF visible THEN memory.generated ELSE 0]
    /\ UNCHANGED <<memory, store, worker, flash, utc, attempts,
                   faults, restarts, set_backs>>

TakeStorageFailure ==
    /\ store.unreported
    /\ store' = [store EXCEPT !.unreported = FALSE]
    /\ UNCHANGED <<memory, worker, flash, shown, utc, attempts, faults, restarts, set_backs>>

NoClock == [high |-> 0, rolled_back |-> FALSE]
Nothing == [clock |-> NoClock, generated |-> 0]

NewStore ==
    [ready |-> FALSE, needs_reopen |-> FALSE, bootstrapped |-> FALSE, pending |-> FALSE,
     busy |-> TRUE, faulted |-> FALSE, unreported |-> FALSE, watermark_unknown |-> FALSE,
     unknown_since |-> 0, last_attempt |-> 0, persisted |-> 0, latest_apply |-> 0,
     checkpoint |-> NoDocument, attempt |-> 0, apply_clock |-> NoClock]

\* Power is lost and comes back: what was not in flash is gone.
Restart ==
    /\ restarts < MaxRestarts /\ restarts' = restarts + 1
    /\ memory' = NoDocument /\ store' = NewStore /\ shown' = Nothing
    /\ worker' = [Resting EXCEPT !.pc = "bootstrap"]
    /\ UNCHANGED <<flash, utc, attempts, faults, set_backs>>

\* Time passes; or the clock is corrected backwards.
Advance ==
    /\ utc < MaxTime /\ utc' = utc + 1
    /\ UNCHANGED <<memory, store, worker, flash, shown, attempts,
                   faults, restarts, set_backs>>

SetBack ==
    /\ set_backs < MaxSetBacks /\ set_backs' = set_backs + 1
    /\ utc' \in 1..(utc - 1)
    /\ UNCHANGED <<memory, store, worker, flash, shown, attempts,
                   faults, restarts>>

Init ==
    /\ memory = NoDocument /\ store = NewStore /\ shown = Nothing
    /\ worker = [Resting EXCEPT !.pc = "bootstrap"]
    /\ flash = [active |-> NoDocument, candidate |-> NoDocument, attempt |-> 0]
    /\ utc = 1 /\ attempts = <<0, 0>>
    /\ faults = 0 /\ restarts = 0 /\ set_backs = 0

Next ==
    \/ Bootstrap \/ TakeCheckpoint \/ Reopen \/ WriteAttempt \/ Commit \/ Finish \/ Stop
    \/ \E d \in Documents : Apply(d)
    \/ Copy \/ TakeStorageFailure \/ Restart \/ Advance \/ SetBack

Spec == Init /\ [][Next]_vars

-----------------------------------------------------------------------------
\* Neither the document shown nor the one in flash is ever replaced by an older
\* one, whichever of the link and the worker brings the next one and whatever
\* was queued while the storage was out of reach; in flash not even by another
\* one of the same moment.
NeverOlder ==
    [][/\ restarts' = restarts => memory'.generated >= memory.generated
       /\ flash'.active # flash.active
            => flash'.active.generated > flash.active.generated]_vars

\* Two attempts to write the flash, failed ones included, are an interval of
\* trusted time apart, unless the clock was set back in between.
AttemptsAreLimited ==
    (set_backs = 0 /\ attempts[1] # 0) => attempts[2] - attempts[1] >= FlashInterval

\* So they are while storage obeys, wherever restarts fall.
FlashIsSpared == faults = 0 => AttemptsAreLimited
=============================================================================
