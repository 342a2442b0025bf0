--------------------------- MODULE DeckPartsProofs ---------------------------
(***************************************************************************)
(* Proofs about the parts of the Deck that MCDeckParts explores.           *)
(*                                                                         *)
(* The AI snapshot store: neither memory nor flash goes back to an older   *)
(* document, and flash attempts are an interval apart.  The inductive      *)
(* invariant follows a checkpoint from the moment it is queued to the end  *)
(* of its commit: it stays newer than what is in flash, because nothing    *)
(* else can be queued while the worker is busy, and because storage that   *)
(* failed is opened again before anything is written.                      *)
(*                                                                         *)
(* Setup Mode: the station's debt to the committed network and the slots   *)
(* of the response barrier.  The inductive invariant follows the service   *)
(* task into stop_network and start_network: only the very first session   *)
(* may find the station unconfigured, and there nothing can fail before    *)
(* start_network notes the debt.                                           *)
(***************************************************************************)
EXTENDS MCDeckParts, Sequences, TLAPS

Docs    == Documents \cup {NoDocument}
Moments == 0..MaxTime
Places  == {"bootstrap", "wait", "reopen", "attempt", "refused", "commit", "done", "failed",
            "exited"}

Stores ==
  [ready : BOOLEAN, needs_reopen : BOOLEAN, bootstrapped : BOOLEAN, pending : BOOLEAN,
   busy : BOOLEAN, faulted : BOOLEAN, unreported : BOOLEAN, watermark_unknown : BOOLEAN,
   unknown_since : Nat, last_attempt : Nat, persisted : Nat, latest_apply : Moments,
   checkpoint : Docs, attempt : Moments,
   apply_clock : [high : Nat, rolled_back : BOOLEAN]]

Typed ==
  /\ memory \in Docs
  /\ store \in Stores
  /\ worker \in [pc : Places, checkpoint : Docs, attempt : Moments]
  /\ flash \in [active : Docs, candidate : Docs, attempt : Nat]
  /\ utc \in Times
  /\ attempts \in Moments \X Moments
  /\ faults \in Nat

(* The worker's place and the flags under the mutex agree. *)
Handover ==
  /\ store.bootstrapped <=> (worker.pc # "bootstrap")
  /\ store.busy <=> (worker.pc \notin {"wait", "exited"})
  /\ store.pending => worker.pc = "wait"

(* While storage is trusted, persisted is what it holds; what is queued,   *)
(* and what the worker is about to write, is newer.                        *)
Newer ==
  /\ (store.bootstrapped /\ ~store.needs_reopen /\ worker.pc \notin {"done", "failed"})
       => store.persisted = flash.active.generated
  /\ store.pending => store.checkpoint.generated > 0
  /\ worker.pc = "reopen" => worker.checkpoint.generated > 0
  /\ (store.pending /\ ~store.needs_reopen) =>
       store.checkpoint.generated > flash.active.generated
  /\ worker.pc \in {"attempt", "commit"} =>
       worker.checkpoint.generated > flash.active.generated
  /\ worker.pc = "done" => flash.active = worker.checkpoint

SnapshotInv == Typed /\ Handover /\ Newer

(* An attempt at moment x is an interval after the last one. *)
Gap(x) == attempts[2] # 0 => (x >= attempts[2] /\ x - attempts[2] >= FlashInterval)

(* While storage obeys, the record in flash is that of the last attempt,   *)
(* and so is that of a store that rests with nothing queued.               *)
Recorded ==
  faults = 0 =>
    /\ flash.attempt = attempts[2] /\ flash.candidate = NoDocument
    /\ ~store.needs_reopen /\ worker.pc \notin {"reopen", "refused", "failed"}
    /\ (~store.pending /\ worker.pc \in {"wait", "exited"})
         => store.last_attempt = attempts[2]
    /\ store.pending => Gap(store.attempt)
    /\ worker.pc = "attempt" => Gap(worker.attempt)
    /\ worker.pc \in {"commit", "done"} => worker.attempt = attempts[2]
    /\ attempts[1] # 0 =>
         attempts[2] >= attempts[1] /\ attempts[2] - attempts[1] >= FlashInterval
-----------------------------------------------------------------------------
LEMMA DocFacts ==
  /\ NoDocument \in Docs /\ NoDocument.generated = 0
  /\ \A d \in Docs : d.generated \in Nat /\ d.generated \in Moments
  /\ \A d \in Documents : d.generated > 0 /\ d \in Docs
<1>1. MaxTime \in Nat \ {0}
  BY SnapshotBounds
<1>2. NoDocument \in Docs /\ NoDocument.generated = 0
  BY DEF Docs, NoDocument
<1>3. \A d \in Documents : d.generated \in 1..MaxTime /\ d \in Docs
  BY DEF Documents, Docs, Times
<1> QED
  BY <1>1, <1>2, <1>3 DEF Docs, Moments

(* queue_current_checkpoint_locked: the store is left alone, or the        *)
(* document is queued and the attempt counts from now on.                  *)
Queues(s, d, q) ==
  /\ d.generated # 0 /\ PersistenceDue(s, d.generated, s.latest_apply)
  /\ q.pending /\ q.checkpoint = d /\ q.attempt = s.latest_apply
  /\ q.last_attempt = s.latest_apply
  /\ q.needs_reopen = s.needs_reopen /\ q.bootstrapped = s.bootstrapped
  /\ q.busy = s.busy /\ q.persisted = s.persisted

LEMMA QueueFacts ==
  ASSUME NEW s \in Stores, NEW d \in Docs
  PROVE  /\ QueueCheckpoint(s, d) \in Stores
         /\ QueueCheckpoint(s, d) = s \/ Queues(s, d, QueueCheckpoint(s, d))
<1> DEFINE q == [s EXCEPT !.pending = TRUE, !.checkpoint = d,
                          !.attempt = s.latest_apply, !.last_attempt = s.latest_apply,
                          !.watermark_unknown = FALSE, !.unknown_since = 0]
<1>1. s.latest_apply \in Moments /\ s.latest_apply \in Nat
  BY SnapshotBounds DEF Stores, Moments
<1>2. q \in Stores
  BY <1>1 DEF Stores
<1>3. /\ q.pending = TRUE /\ q.checkpoint = d /\ q.attempt = s.latest_apply
      /\ q.last_attempt = s.latest_apply
      /\ q.needs_reopen = s.needs_reopen /\ q.bootstrapped = s.bootstrapped
      /\ q.busy = s.busy /\ q.persisted = s.persisted
  BY DEF Stores
<1>4. \/ QueueCheckpoint(s, d) = s
      \/ /\ d.generated # 0 /\ PersistenceDue(s, d.generated, s.latest_apply)
         /\ QueueCheckpoint(s, d) = q
  BY DEF QueueCheckpoint
<1> HIDE DEF q
<1> QED
  BY <1>2, <1>3, <1>4 DEF Queues

Idle(s) == [s EXCEPT !.busy = FALSE]

(* publish_recovered_locked, for storage that opened and for one that did  *)
(* not.                                                                    *)
Brings(lost, s, q) ==
  /\ s \in Stores /\ q \in Stores /\ q.busy = FALSE /\ s.busy = store.busy
  /\ s.pending = store.pending /\ q.pending = store.pending
  /\ s.bootstrapped = TRUE /\ q.bootstrapped = TRUE
  /\ q.needs_reopen = s.needs_reopen /\ q.persisted = s.persisted
  /\ q.last_attempt = s.last_attempt /\ q.latest_apply = store.latest_apply
  /\ s.checkpoint = store.checkpoint /\ s.attempt = store.attempt
  /\ lost = {} => /\ s.persisted = flash.active.generated
                  /\ s.last_attempt = RecoveredAttempt(lost)
                  /\ s.needs_reopen = (flash.attempt = Unknown)
  /\ lost # {} => s.needs_reopen = TRUE

LEMMA PublishFacts ==
  ASSUME Typed, NEW lost \in Openings
  PROVE  Brings(lost, PublishRecovered(store, lost), Idle(PublishRecovered(store, lost)))
<1> SUFFICES ASSUME NEW s, s = PublishRecovered(store, lost), NEW q, q = Idle(s)
             PROVE  Brings(lost, s, q)
  OBVIOUS
<1>1. /\ flash.active \in Docs /\ flash.candidate \in Docs /\ flash.attempt \in Nat
      /\ store \in Stores
  BY DEF Typed
<1>2. /\ Recovered(lost).generated \in Nat /\ (lost = {} => Recovered(lost) = flash.active)
      /\ RecoveredAttempt(lost) \in Nat /\ RecoveredUnknown(lost) \in BOOLEAN
  <2>1. /\ Recovered(lost) \in {flash.active, NoDocument}
        /\ RecoveredCandidate(lost) \in {flash.candidate, NoDocument}
        /\ lost = {} => Recovered(lost) = flash.active
    BY DEF Recovered, RecoveredCandidate
  <2>2. Recovered(lost).generated \in Nat /\ RecoveredCandidate(lost).generated \in Nat
    BY <1>1, <2>1, DocFacts
  <2>3. RecoveredUnknown(lost) \in BOOLEAN
    BY DEF RecoveredUnknown
  <2>4. RecoveredAttempt(lost) \in Nat
    BY <1>1, <2>2 DEF RecoveredAttempt
  <2> QED
    BY <2>1, <2>2, <2>3, <2>4
<1>3. store.latest_apply \in Nat
  BY <1>1, SnapshotBounds DEF Stores, Moments
<1>4. CASE Opened(lost)
  <2> DEFINE r == RecoveredUnknown(lost)
             a == RecoveredAttempt(lost)
             g == Recovered(lost).generated
             u == RecoveredFaulted(lost)
             v == IF r THEN store.latest_apply ELSE 0
             w == store.unreported \/ u
  <2>1. s = [store EXCEPT !.bootstrapped = TRUE, !.ready = TRUE, !.persisted = g,
                          !.last_attempt = a, !.watermark_unknown = r, !.unknown_since = v,
                          !.faulted = u, !.needs_reopen = u, !.unreported = w]
    BY <1>4 DEF PublishRecovered
  <2>2. g \in Nat /\ a \in Nat /\ r \in BOOLEAN /\ u \in BOOLEAN /\ v \in Nat /\ w \in BOOLEAN
    BY <1>1, <1>2, <1>3 DEF RecoveredFaulted
  <2> HIDE DEF r, a, g, u, v, w
  <2>3. /\ s \in Stores /\ s.busy = store.busy /\ s.pending = store.pending
        /\ s.bootstrapped = TRUE /\ s.persisted = g /\ s.last_attempt = a
        /\ s.needs_reopen = u /\ s.latest_apply = store.latest_apply
        /\ s.checkpoint = store.checkpoint /\ s.attempt = store.attempt
    BY <1>1, <2>1, <2>2 DEF Stores
  <2>4. /\ q \in Stores /\ q.busy = FALSE /\ q.pending = s.pending
        /\ q.bootstrapped = s.bootstrapped /\ q.needs_reopen = s.needs_reopen
        /\ q.persisted = s.persisted
        /\ q.last_attempt = s.last_attempt /\ q.latest_apply = s.latest_apply
    BY <2>3 DEF Stores, Idle
  <2> QED
    BY <1>2, <1>4, <2>3, <2>4 DEF g, a, u, Brings, RecoveredFaulted
<1>5. CASE ~Opened(lost)
  <2> DEFINE v == store.latest_apply
             m == MarkFailure(store)
  <2>1. s = [m EXCEPT !.bootstrapped = TRUE, !.ready = FALSE,
                      !.watermark_unknown = TRUE, !.unknown_since = v]
    BY <1>5 DEF PublishRecovered
  <2>2. /\ m \in Stores /\ m.needs_reopen = TRUE /\ m.busy = store.busy
        /\ m.pending = store.pending /\ m.latest_apply = store.latest_apply
        /\ m.checkpoint = store.checkpoint /\ m.attempt = store.attempt
    BY <1>1 DEF Stores, MarkFailure
  <2>3. v \in Nat
    BY <1>3
  <2> HIDE DEF v, m
  <2>4. /\ s \in Stores /\ s.busy = m.busy /\ s.pending = m.pending
        /\ s.bootstrapped = TRUE /\ s.needs_reopen = TRUE /\ s.latest_apply = m.latest_apply
        /\ s.checkpoint = m.checkpoint /\ s.attempt = m.attempt
    BY <2>1, <2>2, <2>3 DEF Stores
  <2>5. /\ q \in Stores /\ q.busy = FALSE /\ q.pending = s.pending
        /\ q.bootstrapped = s.bootstrapped /\ q.needs_reopen = s.needs_reopen
        /\ q.persisted = s.persisted
        /\ q.last_attempt = s.last_attempt /\ q.latest_apply = s.latest_apply
    BY <2>4 DEF Stores, Idle
  <2> QED
    BY <1>5, <2>2, <2>4, <2>5 DEF Brings, Opened
<1> QED
  BY <1>4, <1>5

(* What is queued is newer than what persisted says is in flash, and an    *)
(* interval after the last attempt the store knows of.                     *)
LEMMA QueuedIsDue ==
  ASSUME Typed, NEW s \in Stores, NEW d \in Docs, NEW q, Queues(s, d, q)
  PROVE  /\ ~s.pending /\ ~s.busy /\ s.bootstrapped
         /\ q.checkpoint.generated > 0
         /\ s.persisted = flash.active.generated =>
              q.checkpoint.generated > flash.active.generated
         /\ s.last_attempt = attempts[2] => Gap(q.attempt)
<1>1. /\ d.generated \in Nat /\ d.generated # 0 /\ flash.active \in Docs
      /\ flash.active.generated \in Nat /\ FlashInterval \in Nat \ {0}
  BY DocFacts, SnapshotBounds DEF Typed, Queues
<1>2. /\ ~s.pending /\ ~s.busy /\ s.bootstrapped
      /\ s.last_attempt # 0 => ElapsedAtLeast(s.latest_apply, s.last_attempt, FlashInterval)
      /\ s.persisted # 0 => ElapsedAtLeast(d.generated, s.persisted, FlashInterval)
  BY DEF Queues, PersistenceDue
<1>3. q.checkpoint = d /\ q.attempt = s.latest_apply
  BY DEF Queues
<1>4. s.persisted = flash.active.generated => q.checkpoint.generated > flash.active.generated
  BY <1>1, <1>2, <1>3 DEF ElapsedAtLeast
<1>5. s.last_attempt = attempts[2] => Gap(q.attempt)
  BY <1>2, <1>3 DEF ElapsedAtLeast, Gap
<1> QED
  BY <1>1, <1>2, <1>3, <1>4, <1>5

(* While storage obeys, the record found at start-up is that of the last   *)
(* attempt.                                                                *)
LEMMA RecoveredIsLast ==
  ASSUME Typed, Recorded, faults = 0
  PROVE  RecoveredAttempt({}) = attempts[2] /\ flash.attempt # Unknown
<1>1. attempts[2] \in Nat /\ attempts[2] # Unknown
  BY SnapshotBounds DEF Typed, Moments, Unknown
<1>2. flash.attempt = attempts[2] /\ flash.candidate.generated = 0
  BY DocFacts DEF Recorded
<1> QED
  BY <1>1, <1>2 DEF RecoveredAttempt, RecoveredUnknown, RecoveredCandidate

Inv == SnapshotInv /\ Recorded

LEMMA InitSnapshots == Init => Inv
<1> SUFFICES ASSUME Init PROVE Inv
  OBVIOUS
<1> USE DEF Init
<1>1. 0 \in Moments /\ 0 \in Nat /\ 1 \in Times
  BY SnapshotBounds DEF Moments, Times
<1>2. store \in Stores
  BY <1>1, DocFacts DEF Stores, NewStore, NoClock
<1>3. worker \in [pc : Places, checkpoint : Docs, attempt : Moments] /\ worker.pc = "bootstrap"
  BY <1>1, DocFacts DEF Resting, Places
<1>4. flash \in [active : Docs, candidate : Docs, attempt : Nat]
  BY <1>1, DocFacts
<1>5. Typed
  BY <1>1, <1>2, <1>3, <1>4, DocFacts DEF Typed
<1>6. Handover /\ Newer
  BY <1>3 DEF Handover, Newer, NewStore
<1>7. Recorded
  BY <1>3 DEF Recorded, NewStore
<1> QED
  BY <1>5, <1>6, <1>7 DEF Inv, SnapshotInv

(* Published leaves a document, never an older one. *)
LEMMA PublishedFacts ==
  ASSUME Typed, NEW lost \in Openings, Published(lost)
  PROVE  memory' \in Docs /\ memory'.generated >= memory.generated
<1>1. memory \in Docs /\ flash.active \in Docs
  BY DEF Typed
<1> QED
  BY <1>1, DocFacts DEF Published, RecoveredIsAuthoritative, Recovered

(* The worker's first step: it brings back what storage holds. *)
LEMMA BootstrapKeeps ==
  ASSUME Inv, Bootstrap
  PROVE  Inv' /\ memory'.generated >= memory.generated
<1> USE DEF Inv, SnapshotInv
<1>1. PICK lost \in Openings :
        /\ Opens(lost) /\ Published(lost)
        /\ store' = QueueCheckpoint(
                      [PublishRecovered(store, lost) EXCEPT !.busy = FALSE], memory')
  BY DEF Bootstrap
<1>2. /\ worker.pc = "bootstrap" /\ worker' = [worker EXCEPT !.pc = "wait"]
      /\ UNCHANGED <<flash, utc, attempts>>
  BY DEF Bootstrap
<1>3. memory' \in Docs /\ memory'.generated >= memory.generated
  BY <1>1, PublishedFacts
<1> DEFINE s == PublishRecovered(store, lost)
           q == Idle(s)
<1>20. s = PublishRecovered(store, lost) /\ q = Idle(s)
  OBVIOUS
<1>21. Brings(lost, s, q)
  BY PublishFacts
<1> HIDE DEF s, q
<1>4. /\ s \in Stores /\ q \in Stores /\ q.busy = FALSE
      /\ q.pending = store.pending /\ q.bootstrapped = TRUE
      /\ q.needs_reopen = s.needs_reopen /\ q.persisted = s.persisted
      /\ q.last_attempt = s.last_attempt
      /\ lost = {} => /\ s.persisted = flash.active.generated
                      /\ s.last_attempt = RecoveredAttempt(lost)
                      /\ s.needs_reopen = (flash.attempt = Unknown)
      /\ lost # {} => s.needs_reopen = TRUE
  BY <1>21 DEF Brings
<1>5. store' = QueueCheckpoint(q, memory')
  BY <1>1, <1>20 DEF Idle
<1>6. store' \in Stores /\ (store' = q \/ Queues(q, memory', store'))
  BY <1>3, <1>4, <1>5, QueueFacts
<1>7. worker' \in [pc : Places, checkpoint : Docs, attempt : Moments] /\ worker'.pc = "wait"
  BY <1>2 DEF Typed, Places
<1>8. ~q.pending
  BY <1>2, <1>4 DEF Handover
<1>9. faults' \in Nat /\ (faults' = 0 => lost = {} /\ faults = 0)
  BY <1>1 DEF Opens, Fault, NoFault, Typed
<1>10. Typed'
  BY <1>2, <1>3, <1>6, <1>7, <1>9 DEF Typed
<1>11. /\ store'.bootstrapped = TRUE /\ store'.busy = FALSE
       /\ store'.needs_reopen = q.needs_reopen /\ store'.persisted = q.persisted
  BY <1>4, <1>6 DEF Queues
<1>12. ~q.needs_reopen => q.persisted = flash.active.generated
  BY <1>4
<1>13. /\ store'.pending => store'.checkpoint.generated > 0
       /\ (store'.pending /\ ~q.needs_reopen) => store'.checkpoint.generated > flash.active.generated
  BY <1>3, <1>4, <1>6, <1>8, <1>12, QueuedIsDue
<1>14. Handover'
  BY <1>7, <1>11 DEF Handover
<1>15. Newer'
  BY <1>2, <1>7, <1>11, <1>12, <1>13 DEF Newer
<1>16. Recorded'
  <2> SUFFICES ASSUME faults' = 0 PROVE Recorded'
    BY DEF Recorded
  <2>1. lost = {} /\ RecoveredAttempt(lost) = attempts[2] /\ flash.attempt # Unknown
    BY <1>9, RecoveredIsLast
  <2>2. q.last_attempt = attempts[2] /\ ~q.needs_reopen
    BY <1>4, <2>1
  <2>3. store'.pending => Gap(store'.attempt)
    BY <1>3, <1>4, <1>6, <1>8, <2>2, QueuedIsDue
  <2>4. ~store'.pending => store'.last_attempt = attempts[2]
    BY <1>6, <2>2 DEF Queues
  <2> QED
    BY <1>2, <1>7, <1>9, <1>11, <2>2, <2>3, <2>4 DEF Recorded, Gap
<1> QED
  BY <1>3, <1>10, <1>14, <1>15, <1>16

(* The worker takes what is queued; storage that failed is opened first. *)
LEMMA TakeKeeps ==
  ASSUME Inv, TakeCheckpoint
  PROVE  Inv'
<1> USE DEF Inv, SnapshotInv
<1>1. /\ worker.pc = "wait" /\ store.pending
      /\ worker' = [pc |-> IF store.needs_reopen THEN "reopen" ELSE "attempt",
                    checkpoint |-> store.checkpoint, attempt |-> store.attempt]
      /\ store' = [store EXCEPT !.pending = FALSE, !.busy = TRUE,
                                !.checkpoint = NoDocument, !.attempt = 0]
      /\ UNCHANGED <<memory, flash, utc, attempts, faults>>
  BY DEF TakeCheckpoint
<1>2. 0 \in Moments
  BY SnapshotBounds DEF Moments
<1>3. /\ store' \in Stores /\ store'.pending = FALSE /\ store'.busy = TRUE
      /\ store'.needs_reopen = store.needs_reopen /\ store'.bootstrapped = store.bootstrapped
      /\ store'.persisted = store.persisted /\ store'.last_attempt = store.last_attempt
  BY <1>1, <1>2, DocFacts DEF Typed, Stores
<1>4. /\ worker' \in [pc : Places, checkpoint : Docs, attempt : Moments]
      /\ worker'.pc = (IF store.needs_reopen THEN "reopen" ELSE "attempt")
      /\ worker'.checkpoint = store.checkpoint /\ worker'.attempt = store.attempt
  <2>1. store.checkpoint \in Docs /\ store.attempt \in Moments
    BY DEF Typed, Stores
  <2> QED
    BY <1>1, <2>1 DEF Places
<1>5. Typed'
  BY <1>1, <1>3, <1>4 DEF Typed
<1>6. Handover'
  BY <1>1, <1>3, <1>4 DEF Handover
<1>7. Newer'
  BY <1>1, <1>3, <1>4 DEF Newer
<1>8. Recorded'
  BY <1>1, <1>3, <1>4 DEF Recorded, Gap
<1> QED
  BY <1>5, <1>6, <1>7, <1>8

(* Storage is opened again: the checkpoint is dropped or still newer. *)
LEMMA ReopenKeeps ==
  ASSUME Inv, Reopen
  PROVE  Inv' /\ memory'.generated >= memory.generated
<1> USE DEF Inv, SnapshotInv
<1> DEFINE Onward(lost) == CASE ~Opened(lost) -> "failed" [] Refused(lost) -> "refused"
                             [] OTHER -> "attempt"
<1>1. PICK lost \in Openings :
        /\ Opens(lost) /\ Published(lost)
        /\ IF Obsolete(lost)
           THEN /\ store' = QueueCheckpoint(
                       [PublishRecovered(store, lost) EXCEPT !.busy = FALSE], memory')
                /\ worker' = Resting
           ELSE /\ store' = PublishRecovered(store, lost)
                /\ worker' = [worker EXCEPT !.pc = Onward(lost)]
  BY DEF Reopen
<1>2. worker.pc = "reopen" /\ UNCHANGED <<flash, utc, attempts>>
  BY DEF Reopen
<1>3. memory' \in Docs /\ memory'.generated >= memory.generated
  BY <1>1, PublishedFacts
<1> DEFINE s == PublishRecovered(store, lost)
           q == Idle(s)
<1>20. s = PublishRecovered(store, lost) /\ q = Idle(s)
  OBVIOUS
<1>21. Brings(lost, s, q)
  BY PublishFacts
<1> HIDE DEF s, q
<1>4. /\ s \in Stores /\ q \in Stores /\ q.busy = FALSE /\ s.busy = store.busy
      /\ q.pending = store.pending /\ s.pending = store.pending
      /\ q.bootstrapped = TRUE /\ s.bootstrapped = TRUE
      /\ q.needs_reopen = s.needs_reopen /\ q.persisted = s.persisted
      /\ lost = {} => s.persisted = flash.active.generated
      /\ lost # {} => s.needs_reopen = TRUE
  BY <1>21 DEF Brings
<1>5. /\ Obsolete(lost) => store' = QueueCheckpoint(q, memory') /\ worker' = Resting
      /\ ~Obsolete(lost) =>
           /\ store' = s
           /\ worker' = [worker EXCEPT !.pc = Onward(lost)]
  BY <1>1, <1>20 DEF Idle
<1>6. ~store.pending /\ store.busy /\ faults # 0
  BY <1>2 DEF Handover, Recorded
<1>7. faults' \in Nat /\ faults' # 0
  BY <1>1, <1>6 DEF Opens, Fault, NoFault, Typed
<1>8. Recorded'
  BY <1>7 DEF Recorded
<1>9. CASE Obsolete(lost)
  <2>1. store' \in Stores /\ (store' = q \/ Queues(q, memory', store'))
    BY <1>3, <1>4, <1>5, <1>9, QueueFacts
  <2>2. worker' \in [pc : Places, checkpoint : Docs, attempt : Moments] /\ worker'.pc = "wait"
    BY <1>5, <1>9, DocFacts, SnapshotBounds DEF Resting, Places, Moments
  <2>3. /\ store'.bootstrapped = TRUE /\ store'.busy = FALSE
        /\ store'.needs_reopen = q.needs_reopen /\ store'.persisted = q.persisted
    BY <1>4, <2>1 DEF Queues
  <2>4. /\ store'.pending => store'.checkpoint.generated > 0
        /\ (store'.pending /\ ~q.needs_reopen) => store'.checkpoint.generated > flash.active.generated
    BY <1>3, <1>4, <1>6, <2>1, QueuedIsDue
  <2>5. Typed'
    BY <1>2, <1>3, <1>7, <2>1, <2>2 DEF Typed
  <2>6. Handover' /\ Newer'
    BY <1>2, <1>4, <2>2, <2>3, <2>4 DEF Handover, Newer
  <2> QED
    BY <1>3, <1>8, <2>5, <2>6
<1>10. CASE ~Obsolete(lost)
  <2>1. /\ worker' \in [pc : Places, checkpoint : Docs, attempt : Moments]
        /\ worker'.pc \in {"failed", "refused", "attempt"}
        /\ worker'.pc = "attempt" => Opened(lost) /\ ~Refused(lost)
        /\ worker'.checkpoint = worker.checkpoint
    <3>1. /\ Onward(lost) \in {"failed", "refused", "attempt"}
          /\ Onward(lost) = "attempt" => Opened(lost) /\ ~Refused(lost)
      OBVIOUS
    <3> HIDE DEF Onward
    <3> QED
      BY <1>5, <1>10, <3>1 DEF Typed, Places
  <2>2. worker'.pc = "attempt" => worker.checkpoint.generated > flash.active.generated
    <3>1. /\ worker.checkpoint \in Docs /\ flash.active \in Docs
      BY DEF Typed
    <3>2. worker.checkpoint.generated \in Nat /\ flash.active.generated \in Nat
      BY <3>1, DocFacts
    <3>3. worker.checkpoint.generated > 0
      BY <1>2 DEF Newer
    <3> QED
      BY <1>10, <2>1, <3>1, <3>2, <3>3, DocFacts DEF Obsolete, Recovered, Opened, Refused
  <2>3. Typed'
    BY <1>2, <1>3, <1>4, <1>5, <1>7, <1>10, <2>1 DEF Typed
  <2>4. Handover' /\ Newer'
    BY <1>2, <1>4, <1>5, <1>6, <1>10, <2>1, <2>2 DEF Handover, Newer
  <2> QED
    BY <1>3, <1>8, <2>3, <2>4
<1> QED
  BY <1>9, <1>10

(* The worker writes its attempt record, well or badly. *)
LEMMA WriteAttemptKeeps ==
  ASSUME Inv, WriteAttempt
  PROVE  Inv' /\ flash'.active = flash.active
<1> USE DEF Inv, SnapshotInv
<1>1. /\ worker.pc \in {"attempt", "refused"} /\ attempts' = <<attempts[2], worker.attempt>>
      /\ UNCHANGED <<memory, store, utc>>
  BY DEF WriteAttempt
<1>2. /\ worker.attempt \in Moments /\ worker.attempt \in Nat /\ Unknown \in Nat
      /\ attempts[2] \in Moments /\ flash.attempt \in Nat
  BY SnapshotBounds DEF Typed, Moments, Unknown
<1>3. /\ attempts' \in Moments \X Moments
      /\ attempts'[1] = attempts[2] /\ attempts'[2] = worker.attempt
  BY <1>1, <1>2
<1>4. PICK record \in {flash.attempt, worker.attempt, Unknown} :
        /\ flash' = [flash EXCEPT !.attempt = record]
        /\ \/ faults' = faults /\ record = worker.attempt /\ worker.pc = "attempt"
              /\ worker' = [worker EXCEPT !.pc = "commit"]
           \/ faults' = faults /\ worker.pc = "refused"
              /\ worker' = [worker EXCEPT !.pc = "failed"]
           \/ Fault /\ worker' = [worker EXCEPT !.pc = "failed"]
  BY <1>1 DEF WriteAttempt, NoFault, Typed
<1>5. record \in Nat
  BY <1>2, <1>4
<1>6. /\ flash' \in [active : Docs, candidate : Docs, attempt : Nat]
      /\ flash'.active = flash.active /\ flash'.candidate = flash.candidate
      /\ flash'.attempt = record
  BY <1>4, <1>5 DEF Typed
<1>7. /\ worker' \in [pc : Places, checkpoint : Docs, attempt : Moments]
      /\ worker'.checkpoint = worker.checkpoint /\ worker'.attempt = worker.attempt
      /\ worker'.pc \in {"commit", "failed"}
      /\ worker'.pc = "commit" => worker.pc = "attempt"
  BY <1>4 DEF Typed, Places
<1>8. /\ faults' \in Nat
      /\ faults' = 0 => faults = 0 /\ record = worker.attempt /\ worker'.pc = "commit"
  BY <1>4 DEF Fault, Typed, Recorded
<1>9. Typed'
  BY <1>1, <1>3, <1>6, <1>7, <1>8 DEF Typed
<1>10. Handover' /\ Newer'
  BY <1>1, <1>6, <1>7 DEF Handover, Newer
<1>11. Recorded'
  <2> SUFFICES ASSUME faults' = 0 PROVE Recorded'
    BY DEF Recorded
  <2>1. faults = 0 /\ record = worker.attempt /\ worker'.pc = "commit" /\ ~store.pending
    BY <1>1, <1>8 DEF Handover
  <2>2. Gap(worker.attempt) /\ flash.candidate = NoDocument /\ ~store.needs_reopen
    BY <1>7, <2>1 DEF Recorded
  <2> QED
    BY <1>1, <1>3, <1>6, <1>7, <2>1, <2>2 DEF Recorded, Gap
<1> QED
  BY <1>6, <1>9, <1>10, <1>11

(* What a commit leaves in flash, whether it succeeded or not, is what was *)
(* there or the newer checkpoint.                                          *)
LEMMA CommitKeeps ==
  ASSUME Inv, Commit
  PROVE  /\ Inv'
         /\ flash'.active # flash.active
              => flash'.active.generated > flash.active.generated
<1> USE DEF Inv, SnapshotInv
<1>1. worker.pc = "commit" /\ UNCHANGED <<memory, store, utc, attempts>>
  BY DEF Commit
<1>2. worker.checkpoint \in Docs
  BY DEF Typed
<1>3. /\ flash' \in [active : Docs, candidate : Docs, attempt : Nat]
      /\ flash'.active \in {flash.active, worker.checkpoint}
      /\ flash'.attempt = flash.attempt
      /\ worker' \in [pc : Places, checkpoint : Docs, attempt : Moments]
      /\ worker'.checkpoint = worker.checkpoint /\ worker'.attempt = worker.attempt
      /\ \/ faults' = faults /\ flash'.active = worker.checkpoint
            /\ flash'.candidate = NoDocument /\ worker'.pc = "done"
         \/ Fault /\ worker'.pc = "failed"
  <2>1. CASE /\ faults' = faults
             /\ flash' = [flash EXCEPT !.active = worker.checkpoint, !.candidate = NoDocument]
             /\ worker' = [worker EXCEPT !.pc = "done"]
    BY <1>2, <2>1, DocFacts DEF Typed, Places
  <2>2. CASE /\ Fault
             /\ flash' \in {flash, [flash EXCEPT !.candidate = worker.checkpoint],
                            [flash EXCEPT !.active = worker.checkpoint,
                                          !.candidate = worker.checkpoint]}
             /\ worker' = [worker EXCEPT !.pc = "failed"]
    BY <1>2, <2>2 DEF Typed, Places
  <2> QED
    BY <2>1, <2>2 DEF Commit, NoFault
<1>4. flash'.active # flash.active => flash'.active.generated > flash.active.generated
  BY <1>1, <1>3 DEF Newer
<1>5. /\ faults' \in Nat
      /\ faults' = 0 => /\ faults = 0 /\ flash'.candidate = NoDocument
                        /\ worker'.pc = "done"
  BY <1>3 DEF Fault, Typed
<1>6. Typed'
  BY <1>1, <1>3, <1>5 DEF Typed
<1>7. Handover' /\ Newer'
  BY <1>1, <1>3 DEF Handover, Newer
<1>8. Recorded'
  BY <1>1, <1>3, <1>5 DEF Recorded, Gap, Handover
<1> QED
  BY <1>4, <1>6, <1>7, <1>8

(* The worker reports: persisted is what it committed, or storage is to be *)
(* opened again.                                                           *)
LEMMA FinishKeeps ==
  ASSUME Inv, Finish
  PROVE  Inv'
<1> USE DEF Inv, SnapshotInv
<1>1. /\ worker.pc \in {"done", "failed"} /\ worker' = Resting
      /\ UNCHANGED <<memory, flash, utc, attempts, faults>>
  BY DEF Finish
<1>2. ~store.pending /\ store.bootstrapped
  BY <1>1 DEF Handover
<1>3. /\ worker' \in [pc : Places, checkpoint : Docs, attempt : Moments]
      /\ worker'.pc = "wait"
  BY <1>1, DocFacts, SnapshotBounds DEF Resting, Places, Moments
<1>4. CASE worker.pc = "done"
  <2> DEFINE g == worker.checkpoint.generated
             a == worker.attempt
  <2>1. store' = [store EXCEPT !.persisted = g, !.last_attempt = a,
                               !.faulted = FALSE, !.needs_reopen = FALSE,
                               !.watermark_unknown = FALSE, !.unknown_since = 0,
                               !.busy = FALSE]
    BY <1>4 DEF Finish
  <2>2. g \in Nat /\ a \in Nat
    BY DocFacts, SnapshotBounds DEF Typed, Moments
  <2>3. g = flash.active.generated /\ (faults = 0 => a = attempts[2])
    BY <1>4 DEF Newer, Recorded
  <2> HIDE DEF g, a
  <2>4. /\ store' \in Stores /\ store'.persisted = g /\ store'.last_attempt = a
        /\ store'.needs_reopen = FALSE /\ store'.busy = FALSE
        /\ store'.pending = store.pending /\ store'.bootstrapped = store.bootstrapped
    BY <2>1, <2>2 DEF Typed, Stores
  <2>5. Typed'
    BY <1>1, <1>3, <2>4 DEF Typed
  <2>6. Handover' /\ Newer'
    BY <1>1, <1>2, <1>3, <2>3, <2>4 DEF Handover, Newer
  <2>7. Recorded'
    BY <1>1, <1>2, <1>3, <2>3, <2>4 DEF Recorded, Gap
  <2> QED
    BY <2>5, <2>6, <2>7
<1>5. CASE worker.pc = "failed"
  <2>1. store' = Idle(MarkFailure(store))
    BY <1>5 DEF Finish, Idle
  <2>2. /\ store' \in Stores /\ store'.needs_reopen = TRUE /\ store'.busy = FALSE
        /\ store'.pending = store.pending /\ store'.bootstrapped = store.bootstrapped
    BY <2>1 DEF Typed, Stores, Idle, MarkFailure
  <2>3. Typed'
    BY <1>1, <1>3, <2>2 DEF Typed
  <2>4. Handover' /\ Newer'
    BY <1>1, <1>2, <1>3, <2>2 DEF Handover, Newer
  <2>5. Recorded'
    BY <1>1, <1>5 DEF Recorded
  <2> QED
    BY <2>3, <2>4, <2>5
<1> QED
  BY <1>1, <1>4, <1>5

(* The worker leaves; nothing is queued any more. *)
LEMMA StopKeeps ==
  ASSUME Inv, Stop
  PROVE  Inv'
<1> USE DEF Inv, SnapshotInv
<1>1. /\ worker.pc = "wait" /\ ~store.pending
      /\ worker' = [worker EXCEPT !.pc = "exited"]
      /\ store' = [store EXCEPT !.ready = FALSE, !.busy = FALSE]
      /\ UNCHANGED <<memory, flash, utc, attempts, faults>>
  BY DEF Stop
<1>2. /\ store' \in Stores /\ store'.busy = FALSE /\ store'.pending = store.pending
      /\ store'.bootstrapped = store.bootstrapped /\ store'.persisted = store.persisted
      /\ store'.needs_reopen = store.needs_reopen
      /\ store'.last_attempt = store.last_attempt
  BY <1>1 DEF Typed, Stores
<1>3. /\ worker' \in [pc : Places, checkpoint : Docs, attempt : Moments]
      /\ worker'.pc = "exited"
  BY <1>1 DEF Typed, Places
<1>4. Typed'
  BY <1>1, <1>2, <1>3 DEF Typed
<1>5. Handover' /\ Newer'
  BY <1>1, <1>2, <1>3 DEF Handover, Newer
<1>6. Recorded'
  BY <1>1, <1>2, <1>3 DEF Recorded, Gap
<1> QED
  BY <1>4, <1>5, <1>6

(* Two stores that agree on everything the invariant speaks of. *)
Alike(s, t) ==
  /\ t.pending = s.pending /\ t.busy = s.busy /\ t.bootstrapped = s.bootstrapped
  /\ t.needs_reopen = s.needs_reopen /\ t.persisted = s.persisted
  /\ t.last_attempt = s.last_attempt
  /\ t.checkpoint = s.checkpoint /\ t.attempt = s.attempt

LEMMA AlikeKeeps ==
  ASSUME Inv, Typed', Alike(store, store'), UNCHANGED <<worker, flash, attempts, faults>>
  PROVE  Inv'
<1> USE DEF Inv, SnapshotInv
<1>1. Handover' /\ Newer'
  BY DEF Handover, Newer, Alike
<1>2. Recorded'
  BY DEF Recorded, Gap, Alike
<1> QED
  BY <1>1, <1>2

LEMMA ObservedFacts ==
  ASSUME Typed, NEW clock \in [high : Nat, rolled_back : BOOLEAN]
  PROVE  Observed(clock) \in [high : Nat, rolled_back : BOOLEAN]
<1>1. utc \in Nat
  BY SnapshotBounds DEF Typed, Times
<1> QED
  BY <1>1 DEF Observed

(* What Apply hands to queue_current_checkpoint_locked: only the apply     *)
(* clock and the two times that count from this document have moved.       *)
Watched == [store EXCEPT !.apply_clock = Observed(@)]

Applied ==
  [Watched EXCEPT !.latest_apply = utc,
                  !.unknown_since = IF store.watermark_unknown /\ @ = 0 THEN utc ELSE @]

LEMMA WatchedFacts ==
  ASSUME Typed
  PROVE  /\ Watched \in Stores /\ Alike(store, Watched)
         /\ Applied \in Stores /\ Alike(store, Applied)
<1>1. store \in Stores /\ utc \in Moments /\ utc \in Nat
  BY SnapshotBounds DEF Typed, Times, Moments
<1> DEFINE c == Observed(store.apply_clock)
<1>2. c \in [high : Nat, rolled_back : BOOLEAN]
  BY <1>1, ObservedFacts DEF Stores
<1>3. Watched = [store EXCEPT !.apply_clock = c]
  BY <1>1 DEF Watched, Stores
<1> HIDE DEF c
<1>4. Watched \in Stores /\ Alike(store, Watched) /\ Watched.unknown_since \in Nat
  BY <1>1, <1>2, <1>3 DEF Stores, Alike
<1> DEFINE v == IF store.watermark_unknown /\ Watched.unknown_since = 0 THEN utc
                ELSE Watched.unknown_since
<1>5. v \in Nat
  BY <1>1, <1>4
<1>6. Applied = [Watched EXCEPT !.latest_apply = utc, !.unknown_since = v]
  BY <1>4 DEF Applied, Stores
<1> HIDE DEF v
<1>7. Applied \in Stores /\ Alike(Watched, Applied)
  BY <1>1, <1>4, <1>5, <1>6 DEF Stores, Alike
<1> QED
  BY <1>4, <1>7 DEF Alike

(* The link applies a document.  It is queued only while the worker rests, *)
(* so it cannot get in the way of what the worker is writing.              *)
LEMMA ApplyKeeps ==
  ASSUME Inv, NEW document \in Documents, Apply(document)
  PROVE  Inv' /\ memory'.generated >= memory.generated
<1> USE DEF Inv, SnapshotInv
<1>1. worker.pc # "exited" /\ UNCHANGED <<worker, flash, utc, attempts, faults>>
  BY DEF Apply
<1>2. \/ /\ memory' = document /\ store' = QueueCheckpoint(Applied, document)
         /\ document.generated > memory.generated
      \/ store' = Watched /\ memory' = memory
  BY DEF Apply, Applied, Watched
<1>3. memory \in Docs /\ memory.generated \in Nat /\ document \in Docs
      /\ document.generated \in Nat
  BY DocFacts DEF Typed
<1>4. memory' \in Docs /\ memory'.generated >= memory.generated
  BY <1>2, <1>3
<1>5. store' \in Stores /\ (Alike(store, store') \/ Queues(Applied, document, store'))
  <2>1. CASE store' = Watched
    BY <2>1, WatchedFacts
  <2>2. CASE store' = QueueCheckpoint(Applied, document)
    <3>1. QueueCheckpoint(Applied, document) \in Stores
          /\ (QueueCheckpoint(Applied, document) = Applied
              \/ Queues(Applied, document, QueueCheckpoint(Applied, document)))
      BY <1>3, WatchedFacts, QueueFacts
    <3> QED
      BY <2>2, <3>1, WatchedFacts
  <2> QED
    BY <1>2, <2>1, <2>2
<1>6. Typed'
  BY <1>1, <1>4, <1>5 DEF Typed
<1>7. CASE Alike(store, store')
  BY <1>1, <1>4, <1>6, <1>7, AlikeKeeps
<1>8. CASE Queues(Applied, document, store')
  <2>1. Applied \in Stores /\ Alike(store, Applied)
    BY WatchedFacts
  <2>2. /\ ~Applied.pending /\ ~Applied.busy /\ Applied.bootstrapped
        /\ store'.checkpoint.generated > 0
        /\ Applied.persisted = flash.active.generated =>
             store'.checkpoint.generated > flash.active.generated
        /\ Applied.last_attempt = attempts[2] => Gap(store'.attempt)
    BY <1>3, <1>8, <2>1, QueuedIsDue
  <2>3. /\ ~store.pending /\ ~store.busy /\ store.bootstrapped
        /\ store'.busy = store.busy /\ store'.bootstrapped = store.bootstrapped
        /\ store'.needs_reopen = store.needs_reopen /\ store'.persisted = store.persisted
        /\ store'.pending
        /\ Applied.persisted = store.persisted /\ Applied.last_attempt = store.last_attempt
    BY <1>8, <2>1, <2>2 DEF Queues, Alike
  <2>4. worker.pc = "wait"
    BY <1>1, <2>3 DEF Handover
  <2>5. Handover'
    BY <1>1, <2>3, <2>4 DEF Handover
  <2>6. Newer'
    BY <1>1, <2>2, <2>3, <2>4 DEF Newer
  <2>7. Recorded'
    BY <1>1, <2>2, <2>3, <2>4 DEF Recorded, Gap
  <2> QED
    BY <1>4, <1>6, <2>5, <2>6, <2>7
<1> QED
  BY <1>5, <1>7, <1>8

(* A power loss takes memory and leaves flash and its attempts. *)
LEMMA RestartKeeps ==
  ASSUME Inv, Restart
  PROVE  Inv'
<1> USE DEF Inv, SnapshotInv
<1>1. /\ memory' = NoDocument /\ store' = NewStore
      /\ worker' = [Resting EXCEPT !.pc = "bootstrap"]
      /\ UNCHANGED <<flash, utc, attempts, faults>>
  BY DEF Restart
<1>2. 0 \in Moments
  BY SnapshotBounds DEF Moments
<1>3. /\ store' \in Stores /\ store'.busy = TRUE /\ store'.pending = FALSE
      /\ store'.bootstrapped = FALSE /\ store'.needs_reopen = FALSE
  BY <1>1, <1>2, DocFacts DEF Stores, NewStore, NoClock
<1>4. /\ worker' \in [pc : Places, checkpoint : Docs, attempt : Moments]
      /\ worker'.pc = "bootstrap"
  BY <1>1, <1>2, DocFacts DEF Resting, Places
<1>5. Typed'
  BY <1>1, <1>3, <1>4, DocFacts DEF Typed
<1>6. Handover' /\ Newer'
  BY <1>3, <1>4 DEF Handover, Newer
<1>7. Recorded'
  BY <1>1, <1>3, <1>4 DEF Recorded, Gap
<1> QED
  BY <1>5, <1>6, <1>7

(* Steps that move nothing the invariant relates. *)
LEMMA OtherKeeps ==
  ASSUME Inv, Copy \/ TakeStorageFailure \/ Advance \/ SetBack \/ UNCHANGED vars
  PROVE  Inv' /\ memory' = memory /\ flash' = flash
<1> USE DEF Inv, SnapshotInv
<1>1. /\ UNCHANGED <<memory, worker, flash, attempts, faults>>
      /\ store' = store \/ store' = [store EXCEPT !.unreported = FALSE]
      /\ utc' = utc \/ (utc < MaxTime /\ utc' = utc + 1) \/ utc' \in 1..(utc - 1)
  BY DEF Copy, TakeStorageFailure, Advance, SetBack, vars
<1>2. utc' \in Times
  BY <1>1, SnapshotBounds DEF Typed, Times
<1>3. store' \in Stores /\ Alike(store, store')
  BY <1>1 DEF Typed, Stores, Alike
<1>4. Typed'
  BY <1>1, <1>2, <1>3 DEF Typed
<1> QED
  BY <1>1, <1>3, <1>4, AlikeKeeps

Counted == restarts \in Nat

LEMMA CountedKeeps == (Init => Counted) /\ (Counted /\ [Next]_vars => Counted')
<1>1. Init => Counted
  BY DEF Init, Counted
<1>2. ASSUME Counted, [Next]_vars PROVE restarts' = restarts \/ restarts' = restarts + 1
  BY <1>2 DEF Next, vars, Bootstrap, TakeCheckpoint, Reopen, WriteAttempt, Commit, Finish,
              Stop, Apply, Copy, TakeStorageFailure, Restart, Advance, SetBack
<1> QED
  BY <1>1, <1>2 DEF Counted

(* One step of the link, the display, the worker, the clock or the power. *)
LEMMA NextSnapshots ==
  ASSUME Inv, Counted, [Next]_vars
  PROVE  /\ Inv'
         /\ restarts' = restarts => memory'.generated >= memory.generated
         /\ flash'.active # flash.active
              => flash'.active.generated > flash.active.generated
<1>0. memory.generated \in Nat
  BY DocFacts DEF Inv, SnapshotInv, Typed
<1>1. CASE Bootstrap
  BY <1>1, BootstrapKeeps DEF Bootstrap
<1>2. CASE TakeCheckpoint
  BY <1>0, <1>2, TakeKeeps DEF TakeCheckpoint
<1>3. CASE Reopen
  BY <1>3, ReopenKeeps DEF Reopen
<1>4. CASE WriteAttempt
  BY <1>0, <1>4, WriteAttemptKeeps DEF WriteAttempt
<1>5. CASE Commit
  BY <1>0, <1>5, CommitKeeps DEF Commit
<1>6. CASE Finish
  BY <1>0, <1>6, FinishKeeps DEF Finish
<1>7. CASE Stop
  BY <1>0, <1>7, StopKeeps DEF Stop
<1>8. ASSUME NEW d \in Documents, Apply(d)
      PROVE  /\ Inv'
             /\ restarts' = restarts => memory'.generated >= memory.generated
             /\ flash'.active # flash.active
                  => flash'.active.generated > flash.active.generated
  BY <1>8, ApplyKeeps DEF Apply
<1>9. CASE Restart
  <2>1. restarts' # restarts /\ flash' = flash
    BY <1>9 DEF Restart, Counted
  <2> QED
    BY <1>9, <2>1, RestartKeeps
<1>10. CASE Copy \/ TakeStorageFailure \/ Advance \/ SetBack \/ UNCHANGED vars
  BY <1>0, <1>10, OtherKeeps
<1> QED
  BY <1>1, <1>2, <1>3, <1>4, <1>5, <1>6, <1>7, <1>8, <1>9, <1>10 DEF Next

(* Neither memory nor flash is ever replaced by an older document: a       *)
(* checkpoint taken before storage was lost, a recovery that finds         *)
(* something else in flash and documents applied meanwhile never undo one  *)
(* another (apply, worker_main, publish_recovered_locked).                 *)
THEOREM DocumentsMoveForward == Spec => NeverOlder
<1>1. Inv /\ Counted /\ [Next]_vars =>
        [/\ restarts' = restarts => memory'.generated >= memory.generated
         /\ flash'.active # flash.active
              => flash'.active.generated > flash.active.generated]_vars
  BY NextSnapshots
<1>2. Inv /\ Counted /\ [Next]_vars => Inv'
  BY NextSnapshots
<1> QED
  BY <1>1, <1>2, InitSnapshots, CountedKeeps, PTL DEF Spec, NeverOlder

(* While storage obeys, two flash attempts are an interval apart, wherever *)
(* restarts fall and whatever the clock does in between: the record in     *)
(* flash is always that of the last attempt, and nothing is queued without *)
(* the interval since it.                                                  *)
THEOREM FlashIsRested == Spec => []FlashIsSpared
<1>1. Inv => FlashIsSpared
  BY DEF Inv, Recorded, FlashIsSpared, AttemptsAreLimited
<1>2. Inv /\ Counted /\ [Next]_vars => Inv'
  BY NextSnapshots
<1> QED
  BY <1>1, <1>2, InitSnapshots, CountedKeeps, PTL DEF Spec
-----------------------------------------------------------------------------
\* Setup Mode: the types of its records.

Ofs == Credentials \union {None} \union 1..QueueCapacity
CommandTypes == {"boot", "submit_wifi", "temperature", "clear_wifi", "pair_companion",
                 "edit_companion", "scan", "connected", "auth_failed", "connection_failed"}
SetupCommands == [type : CommandTypes, of : Ofs]
SetupEvents == [kind : {"got_ip", "auth", "lost"}, by : Ofs]

StopChain == {"stop", "stop_radio", "stop_wait", "restore"}
TaskPlaces == StopChain \union {"boot", "dead", "boot_wait", "poll", "tick", "pair", "pair_wait",
                              "start", "start_wait"}
SetupTasks == [pc : TaskPlaces,
               then : {"end", "notify", "enter", "fail"}, back : {"poll", "tick", "accept"},
               error : BOOLEAN, pair : Ofs]
WifiRecords == [state : Setup!ConfigStates, active : Ofs, candidate : Ofs,
                status : {"empty", "valid", "recovered"}, faulted : BOOLEAN]
Nets == [active : BOOLEAN, stop_requested : BOOLEAN, stop_keeps_wifi : BOOLEAN,
         wifi_started : BOOLEAN, http_server : BOOLEAN, restore_pending : BOOLEAN,
         shutdown_pending : BOOLEAN]
Radios == [station : {"idle", "connecting", "connected"}, credentials : Ofs,
           ap : {"down", "starting", "up", "stopping"}]

SetupTyped ==
    /\ svc \in SetupTasks /\ wifi \in WifiRecords /\ net \in Nets /\ radio \in Radios
    /\ mode \in BOOLEAN
    /\ queue \in Seq(SetupCommands) /\ events \in Seq(SetupEvents)
    /\ handler = None \/ handler \in SetupCommands

\* Who owes the slot of pair g: the task that carries the pair out, the handler
\* about to queue it, or the queue.
Queued(g) == \E i \in DOMAIN queue : queue[i].type = "pair_companion" /\ queue[i].of = g

Owed(g) ==
    \/ svc.pc \in {"pair", "pair_wait"} /\ svc.pair = g
    \/ handler # None /\ handler.type = "pair_companion" /\ handler.of = g
    \/ Queued(g)

SlotsInv == \A g \in DOMAIN slots : Owed(g)

\* The stop_network of the first session, which finds nothing to stop.
FirstStop == svc.pc \in StopChain /\ svc.then = "enter" /\ svc.back = "accept"

\* The station is for the committed network or to be brought back to it.
StationIsOwed ==
    (wifi.active # None /\ ~net.restore_pending /\ commits = "sound")
        => radio.credentials = wifi.active

StationInv ==
    /\ (svc.pc \in {"boot", "boot_wait"} \/ FirstStop) =>
         /\ ~mode /\ ~net.active /\ ~net.http_server /\ ~net.restore_pending
         /\ ~svc.error /\ svc.pc # "stop_wait"
    /\ \/ svc.pc \in {"boot", "dead"} \/ FirstStop
       \/ svc.pc = "start" /\ svc.back = "accept"
       \/ StationIsOwed
    /\ (svc.pc \in {"poll", "tick", "pair", "pair_wait", "start", "start_wait"} /\ mode)
         => ~net.shutdown_pending
    /\ (svc.pc \in {"poll", "tick", "pair", "pair_wait", "start_wait"} /\ mode /\ wifi.active # None)
         => net.restore_pending
    /\ (svc.pc \in StopChain /\ svc.then \in {"notify", "end"}) => ~mode

SetupInv == SetupTyped /\ SlotsInv /\ StationInv

\* How the task moves on.
SameCall == svc'.then = svc.then /\ svc'.back = svc.back /\ svc'.error = svc.error

LEMMA GoMoves ==
  ASSUME svc \in SetupTasks, NEW p \in TaskPlaces, Setup!Go(p)
  PROVE  svc' \in SetupTasks /\ svc'.pc = p /\ SameCall /\ svc'.pair = svc.pair
  BY DEF SetupTasks, Setup!Go, SameCall

LEMMA RejoinMoves ==
  ASSUME NEW p \in TaskPlaces, Setup!Rejoin(p)
  PROVE  svc' \in SetupTasks /\ svc'.pc = p /\ svc'.then = "end" /\ svc'.back = "poll"
  BY DEF SetupTasks, Setup!Rejoin, Setup!Idle, Ofs

LEMMA CallStopMoves ==
  ASSUME svc \in SetupTasks, NEW t \in {"end", "notify", "fail"}, Setup!CallStop(t)
  PROVE  /\ svc' \in SetupTasks /\ svc'.pc = "stop" /\ svc'.then = t /\ svc'.back = svc.back
         /\ svc'.error = FALSE
  BY DEF SetupTasks, Setup!CallStop, TaskPlaces, StopChain

LEMMA EnterSessionMoves ==
  ASSUME svc \in SetupTasks, NEW b \in {"poll", "tick", "accept"}, Setup!EnterSession(b)
  PROVE  /\ svc' \in SetupTasks /\ svc'.pc = "stop" /\ svc'.then = "enter" /\ svc'.back = b
         /\ svc'.error = FALSE
  BY DEF SetupTasks, Setup!EnterSession, TaskPlaces, StopChain

LEMMA LoopEndMoves ==
  ASSUME svc \in SetupTasks, NEW s, Setup!LoopEnd(s)
  PROVE  /\ svc' \in SetupTasks
         /\ \/ svc'.pc = "poll" /\ svc'.back = "poll"
            \/ svc'.pc = "stop" /\ svc'.then = "enter" /\ svc'.back = "poll" /\ svc'.error = FALSE
  BY RejoinMoves, EnterSessionMoves DEF Setup!LoopEnd, TaskPlaces, StopChain

LEMMA ReturnMoves ==
  ASSUME svc \in SetupTasks, NEW b, Setup!Return(b)
  PROVE  svc' \in SetupTasks /\ svc'.pc \in {"poll", "tick"} /\ svc'.back = "poll"
  BY RejoinMoves DEF Setup!Return, SetupTasks, TaskPlaces, StopChain

\* The events of the driver, and what the service makes of them.
LEMMA EventsGrow ==
  ASSUME radio \in Radios, events \in Seq(SetupEvents)
  PROVE  /\ Setup!Dropped \in Seq(SetupEvents)
         /\ \A k \in {"got_ip", "auth", "lost"} : Setup!Post(k) \in Seq(SetupEvents)
<1>1. \A k \in {"got_ip", "auth", "lost"} :
        [kind |-> k, by |-> radio.credentials] \in SetupEvents
  BY DEF Radios, SetupEvents
<1> QED
  BY <1>1 DEF Setup!Dropped, Setup!Post

\* The command queue.
LEMMA Enqueues ==
  ASSUME queue \in Seq(SetupCommands), NEW c \in SetupCommands, Setup!EnqueueCommand(c)
  PROVE  /\ queue' \in Seq(SetupCommands)
         /\ \A g : Queued(g) => Queued(g)'
         /\ (Len(queue) # QueueCapacity /\ c.type = "pair_companion") => Queued(c.of)'
<1>1. CASE queue' = Append(queue, c)
  <2>1. queue' \in Seq(SetupCommands)
    BY <1>1
  <2>2. \A i \in DOMAIN queue : i \in DOMAIN queue' /\ queue'[i] = queue[i]
    BY <1>1
  <2>3. Len(queue) + 1 \in DOMAIN queue' /\ queue'[Len(queue) + 1] = c
    BY <1>1
  <2> QED
    BY <2>1, <2>2, <2>3 DEF Queued
<1>2. CASE queue' = queue /\ Len(queue) = QueueCapacity
  BY <1>2 DEF Queued
<1> QED
  BY <1>1, <1>2 DEF Setup!EnqueueCommand

LEMMA Dequeues ==
  ASSUME queue \in Seq(SetupCommands), NEW t, Setup!TryReceive(t), Setup!Received
  PROVE  /\ queue' \in Seq(SetupCommands) /\ Head(queue) \in SetupCommands
         /\ Head(queue).type = t
         /\ \A g : Queued(g) => (Queued(g)' \/ (t = "pair_companion" /\ Head(queue).of = g))
<1>1. queue # <<>> /\ queue' = Tail(queue) /\ Head(queue).type = t
  BY DEF Setup!TryReceive, Setup!Received
<1>2. queue' \in Seq(SetupCommands) /\ Head(queue) \in SetupCommands /\ Head(queue) = queue[1]
  BY <1>1
<1>3. \A i \in DOMAIN queue : i = 1 \/ (i - 1 \in DOMAIN queue' /\ queue'[i - 1] = queue[i])
  BY <1>1
<1>4. ASSUME NEW g, Queued(g) PROVE Queued(g)' \/ (t = "pair_companion" /\ Head(queue).of = g)
  <2>1. PICK i \in DOMAIN queue : queue[i].type = "pair_companion" /\ queue[i].of = g
    BY <1>4 DEF Queued
  <2> QED
    BY <1>1, <1>2, <1>3, <2>1 DEF Queued
<1> QED
  BY <1>1, <1>2, <1>4

\* What most steps leave of the slots, and of the station.
LEMMA SlotsStay ==
  ASSUME SlotsInv, \A g : Queued(g) => Queued(g)', handler' = handler, DOMAIN slots' = DOMAIN slots,
         svc' = svc \/ svc.pc \notin {"pair", "pair_wait"}
  PROVE  SlotsInv'
  BY DEF SlotsInv, Owed

LEMMA QueueStays == ASSUME queue' = queue PROVE \A g : Queued(g) => Queued(g)'
  BY DEF Queued

LEMMA StationStays ==
  ASSUME StationInv, wifi'.active = wifi.active, radio'.credentials = radio.credentials,
         UNCHANGED <<svc, mode, net, commits>>
  PROVE  StationInv'
  BY DEF StationInv, StationIsOwed, FirstStop

LEMMA StationLoops ==
  ASSUME StationInv, wifi'.active = wifi.active, radio'.credentials = radio.credentials,
         UNCHANGED <<mode, net, commits>>,
         svc.pc \in {"poll", "tick", "pair", "pair_wait"},
         svc'.pc \in {"poll", "tick", "pair", "pair_wait"}
  PROVE  StationInv'
  BY DEF StationInv, StationIsOwed, FirstStop, StopChain

LEMMA DriverSteps ==
  ASSUME SetupInv, Setup!DriverStep \/ Setup!AccessPointMoves
  PROVE  SetupInv'
<1> USE DEF SetupInv
<1>1. UNCHANGED <<svc, queue, handler, slots, mode, wifi, net, commits>>
  BY DEF Setup!DriverStep, Setup!StationConnects, Setup!StationFails, Setup!AccessPointMoves,
         Setup!hmi
<1>2. radio' \in Radios /\ radio'.credentials = radio.credentials
  BY DEF SetupTyped, Radios, Setup!DriverStep, Setup!StationConnects, Setup!StationFails,
         Setup!AccessPointMoves
<1>3. events' \in Seq(SetupEvents)
  BY EventsGrow DEF SetupTyped, Setup!DriverStep, Setup!StationConnects, Setup!StationFails,
         Setup!AccessPointMoves
<1>4. SetupTyped'
  BY <1>1, <1>2, <1>3 DEF SetupTyped
<1> QED
  BY <1>1, <1>2, <1>4, SlotsStay, QueueStays, StationStays

LEMMA DeliverStep == ASSUME SetupInv, Setup!Deliver PROVE SetupInv'
<1> USE DEF SetupInv
<1>1. UNCHANGED <<svc, handler, slots, mode, wifi, net, radio, commits>>
  BY DEF Setup!Deliver, Setup!hmi
<1>2. events # <<>> /\ events' = Tail(events)
  BY DEF Setup!Deliver
<1>3. events' \in Seq(SetupEvents) /\ Head(events) \in SetupEvents
  BY <1>2 DEF SetupTyped
<1> DEFINE event == Head(events)
           command == [type |-> CASE event.kind = "got_ip" -> "connected"
                                  [] event.kind = "auth" -> "auth_failed"
                                  [] event.kind = "lost" -> "connection_failed",
                       of |-> event.by]
<1>4. command \in SetupCommands
  BY <1>3 DEF SetupEvents, SetupCommands, CommandTypes
<1>5. queue' = queue \/ Setup!EnqueueCommand(command)
  BY DEF Setup!Deliver
<1> HIDE DEF command
<1>6. queue' \in Seq(SetupCommands) /\ \A g : Queued(g) => Queued(g)'
  BY <1>4, <1>5, Enqueues, QueueStays DEF SetupTyped
<1>7. SetupTyped'
  BY <1>1, <1>3, <1>6 DEF SetupTyped
<1> QED
  BY <1>1, <1>6, <1>7, SlotsStay, StationStays

LEMMA ClientSteps == ASSUME SetupInv, Setup!ClientStep PROVE SetupInv'
<1> USE DEF SetupInv
<1>1. UNCHANGED <<svc, mode, wifi, net, radio, events, commits>>
  BY DEF Setup!ClientStep, Setup!PressBoot, Setup!WifiHandler, Setup!TemperatureHandler,
         Setup!ProfileHandler, Setup!EditHandler, Setup!ScanHandler, Setup!WifiClearRequestHandler,
         Setup!ConfirmationExpires, Setup!WifiClearConfirmHandler, Setup!CompanionPairHandler,
         Setup!CompanionPairAckHandler, Setup!Handles
<1>2. StationInv'
  BY <1>1, StationStays
<1>3. CASE Setup!PressBoot
  <2>1. [type |-> "boot", of |-> None] \in SetupCommands
    BY DEF SetupCommands, CommandTypes, Ofs
  <2>2. queue' \in Seq(SetupCommands) /\ \A g : Queued(g) => Queued(g)'
    BY <1>3, <2>1, Enqueues DEF Setup!PressBoot, SetupTyped
  <2>3. handler' = handler /\ slots' = slots
    BY <1>3 DEF Setup!PressBoot
  <2>4. SetupTyped'
    BY <1>1, <2>2, <2>3 DEF SetupTyped
  <2> QED
    BY <1>1, <1>2, <2>2, <2>3, <2>4, SlotsStay
<1>4. ASSUME NEW t \in CommandTypes, NEW o \in Ofs, Setup!Handles(t, o), slots' = slots
      PROVE  SetupInv'
  <2>1. queue' = queue /\ handler = None /\ handler' \in SetupCommands
    BY <1>4 DEF Setup!Handles, Setup!Serving, SetupCommands
  <2>2. SetupTyped'
    BY <1>1, <2>1 DEF SetupTyped
  <2>3. SlotsInv'
    BY <1>1, <1>4, <2>1, QueueStays DEF SlotsInv, Owed
  <2> QED
    BY <1>2, <2>2, <2>3
<1>5. CASE Setup!CompanionPairHandler
  <2>1. PICK g \in (1..QueueCapacity) \ DOMAIN slots :
           slots' = Setup!Issued(g) /\ Setup!Handles("pair_companion", g)
    BY <1>5 DEF Setup!CompanionPairHandler
  <2>2. /\ queue' = queue /\ handler = None
        /\ handler' = [type |-> "pair_companion", of |-> g]
    BY <2>1 DEF Setup!Handles, Setup!Serving
  <2>3. handler' \in SetupCommands /\ handler' # None
    BY <2>2, HandlerAssumption DEF SetupCommands, CommandTypes, Ofs
  <2>4. DOMAIN slots' = DOMAIN slots \union {g}
    BY <2>1 DEF Setup!Issued
  <2>5. SetupTyped'
    BY <1>1, <2>2, <2>3 DEF SetupTyped
  <2>6. Owed(g)'
    BY <2>2, <2>3 DEF Owed
  <2>7. \A h \in DOMAIN slots : Owed(h)'
    BY <1>1, <2>2, QueueStays DEF SlotsInv, Owed
  <2> QED
    BY <1>2, <2>4, <2>5, <2>6, <2>7 DEF SlotsInv
<1>6. ASSUME queue' = queue, handler' = handler, DOMAIN slots' = DOMAIN slots PROVE SetupInv'
  <2>1. SetupTyped'
    BY <1>1, <1>6 DEF SetupTyped
  <2> QED
    BY <1>1, <1>2, <1>6, <2>1, SlotsStay, QueueStays
<1>7. CASE Setup!CompanionPairAckHandler
  <2>1. DOMAIN slots' = DOMAIN slots /\ queue' = queue /\ handler' = handler
    BY <1>7 DEF Setup!CompanionPairAckHandler, Setup!Acknowledge, Setup!hmi
  <2> QED
    BY <1>6, <2>1
<1>8. CASE Setup!WifiClearRequestHandler \/ Setup!ConfirmationExpires
  BY <1>6, <1>8 DEF Setup!WifiClearRequestHandler, Setup!ConfirmationExpires
<1>9. CASE Setup!WifiHandler
  BY <1>4, <1>9 DEF Setup!WifiHandler, Ofs, CommandTypes
<1>10. CASE Setup!TemperatureHandler \/ Setup!ProfileHandler \/ Setup!ScanHandler
            \/ Setup!WifiClearConfirmHandler
  BY <1>4, <1>10 DEF Setup!TemperatureHandler, Setup!ProfileHandler, Setup!EditHandler,
                     Setup!ScanHandler, Setup!WifiClearConfirmHandler, Ofs,
                     CommandTypes
<1> QED
  BY <1>3, <1>5, <1>7, <1>8, <1>9, <1>10 DEF Setup!ClientStep

LEMMA EndRequestStep == ASSUME SetupInv, Setup!EndRequest PROVE SetupInv'
<1> USE DEF SetupInv
<1>1. /\ handler # None /\ handler' = None
      /\ UNCHANGED <<svc, mode, wifi, net, radio, events, commits>>
  BY DEF Setup!EndRequest
<1>2. handler \in SetupCommands
  BY <1>1 DEF SetupTyped
<1>3. StationInv'
  BY <1>1, StationStays
<1>4. CASE handler.type = "scan"
  <2>1. queue' = queue /\ slots' = slots
    BY <1>4 DEF Setup!EndRequest
  <2>2. SlotsInv'
    BY <1>1, <1>4, <2>1, QueueStays DEF SlotsInv, Owed
  <2> QED
    BY <1>1, <1>3, <2>1, <2>2 DEF SetupTyped
<1>5. CASE handler.type # "scan"
  <2>1. /\ Setup!EnqueueCommand(handler)
        /\ slots' = IF Setup!SlotReturned THEN Setup!Without(handler.of) ELSE slots
    BY <1>5 DEF Setup!EndRequest
  <2>2. /\ queue' \in Seq(SetupCommands)
        /\ \A g : Queued(g) => Queued(g)'
        /\ \A g : (Len(queue) # QueueCapacity /\ handler.type = "pair_companion" /\ handler.of = g)
                     => Queued(g)'
    <3>1. PICK c \in SetupCommands : c = handler
      BY <1>2
    <3> QED
      BY <2>1, <3>1, Enqueues DEF SetupTyped
  <2>3. SetupTyped'
    BY <1>1, <2>2 DEF SetupTyped
  <2>4. ASSUME NEW g \in DOMAIN slots' PROVE Owed(g)'
    <3>1. g \in DOMAIN slots /\ (Setup!SlotReturned => g # handler.of)
      BY <2>1, <2>4 DEF Setup!Without
    <3> QED
      BY <1>1, <2>2, <3>1 DEF SlotsInv, Owed, Setup!SlotReturned
  <2> QED
    BY <1>3, <2>3, <2>4 DEF SlotsInv
<1> QED
  BY <1>4, <1>5

\* What the configuration's operations make of a record.
LEMMA ConfigOperations ==
  ASSUME NEW c \in WifiRecords
  PROVE  /\ Setup!StorageFailure(c) \in WifiRecords /\ Setup!StorageFailure(c).active = c.active
         /\ Setup!Committed(c) \in WifiRecords /\ Setup!Committed(c).active = c.candidate
         /\ Setup!Cleared(c) \in WifiRecords /\ Setup!Cleared(c).active = None
         /\ \A how \in {"auth_failed", "timed_out", "connection_failed"} :
              /\ Setup!ValidationFailed(c, how) \in WifiRecords
              /\ Setup!ValidationFailed(c, how).active = c.active
         /\ \A b : /\ Setup!ActiveConnection(c, b) \in WifiRecords
                   /\ Setup!ActiveConnection(c, b).active = c.active
         /\ \A o \in Ofs, b \in BOOLEAN :
              /\ Setup!ValidationBegun(Setup!Staged(c, o), b) \in WifiRecords
              /\ Setup!ValidationBegun(Setup!Staged(c, o), b).active = c.active
<1>1. Setup!StorageFailure(c) \in WifiRecords /\ Setup!StorageFailure(c).active = c.active
  BY DEF WifiRecords, Setup!ConfigStates, Setup!StorageFailure
<1>2. Setup!Committed(c) \in WifiRecords /\ Setup!Committed(c).active = c.candidate
  BY DEF WifiRecords, Setup!ConfigStates, Setup!Committed, Ofs
<1>3. Setup!Cleared(c) \in WifiRecords /\ Setup!Cleared(c).active = None
  BY DEF WifiRecords, Setup!ConfigStates, Setup!Cleared, Ofs
<1>4. ASSUME NEW how \in {"auth_failed", "timed_out", "connection_failed"}
      PROVE  /\ Setup!ValidationFailed(c, how) \in WifiRecords
             /\ Setup!ValidationFailed(c, how).active = c.active
  BY DEF WifiRecords, Setup!ConfigStates, Setup!ValidationFailed
<1>5. ASSUME NEW b
      PROVE  /\ Setup!ActiveConnection(c, b) \in WifiRecords
             /\ Setup!ActiveConnection(c, b).active = c.active
  BY DEF WifiRecords, Setup!ConfigStates, Setup!ActiveConnection
<1>6. ASSUME NEW o \in Ofs, NEW b \in BOOLEAN
      PROVE  /\ Setup!ValidationBegun(Setup!Staged(c, o), b) \in WifiRecords
             /\ Setup!ValidationBegun(Setup!Staged(c, o), b).active = c.active
  BY DEF WifiRecords, Setup!ConfigStates, Setup!ValidationBegun, Setup!Staged
<1> QED
  BY <1>1, <1>2, <1>3, <1>4, <1>5, <1>6

LEMMA TakesCommand ==
  ASSUME SetupInv, NEW t \in CommandTypes \ {"pair_companion"}, Setup!TryReceive(t), Setup!Received,
         handler' = handler, slots' = slots
  PROVE  /\ svc.pc = "poll" /\ svc \in SetupTasks /\ Head(queue) \in SetupCommands
         /\ queue' \in Seq(SetupCommands) /\ SlotsInv'
<1>1. svc.pc = "poll"
  BY DEF Setup!TryReceive
<1>2. /\ queue' \in Seq(SetupCommands) /\ Head(queue) \in SetupCommands
      /\ \A g : Queued(g) => Queued(g)'
  BY Dequeues DEF SetupInv, SetupTyped
<1> QED
  BY <1>1, <1>2, SlotsStay DEF SetupInv, SetupTyped

LEMMA SlotsAlone ==
  ASSUME SetupInv, svc.pc \notin {"pair", "pair_wait"}, UNCHANGED <<queue, handler, slots>>
  PROVE  SlotsInv' /\ queue' \in Seq(SetupCommands) /\ (handler = None \/ handler \in SetupCommands)'
  BY SlotsStay, QueueStays DEF SetupInv, SetupTyped

LEMMA SetupInitially == MCInit => SetupInv
<1> SUFFICES ASSUME Setup!Init PROVE SetupInv
  BY DEF MCInit, SetupInit
<1>1. svc = [pc |-> "boot", then |-> "end", back |-> "poll", error |-> FALSE, pair |-> None]
  BY DEF Setup!Init, Setup!Idle
<1>2. svc \in SetupTasks /\ svc.pc = "boot" /\ svc.error = FALSE
  BY <1>1 DEF SetupTasks, TaskPlaces, Ofs
<1>3. wifi \in WifiRecords
  BY DEF Setup!Init, Setup!InitialConfigs, Setup!Configs, WifiRecords, Ofs
<1>4. /\ net \in Nets /\ net.active = FALSE /\ net.http_server = FALSE
      /\ net.restore_pending = FALSE
  BY DEF Setup!Init, Nets
<1>5. radio \in Radios
  BY DEF Setup!Init, Radios, Ofs
<1>6. queue \in Seq(SetupCommands) /\ events \in Seq(SetupEvents) /\ handler = None /\ mode = FALSE
  BY DEF Setup!Init
<1>7. DOMAIN slots = {}
  BY DEF Setup!Init
<1>8. SetupTyped
  BY <1>2, <1>3, <1>4, <1>5, <1>6 DEF SetupTyped
<1>9. StationInv
  BY <1>2, <1>4, <1>6 DEF StationInv, StopChain
<1> QED
  BY <1>7, <1>8, <1>9 DEF SetupInv, SlotsInv

LEMMA BootSteps ==
  ASSUME SetupInv, Setup!InitializeFails \/ Setup!Boot \/ Setup!BootFails \/ Setup!BootWait
  PROVE  SetupInv'
<1>1. /\ UNCHANGED <<queue, handler, slots, mode, events, commits>>
      /\ svc.pc \in {"boot", "boot_wait"}
  BY DEF Setup!InitializeFails, Setup!Boot, Setup!BootFails, Setup!BootWait, Setup!hmi
<1>2. SlotsInv' /\ queue' \in Seq(SetupCommands) /\ (handler = None \/ handler \in SetupCommands)'
  BY <1>1, SlotsAlone
<1>3. /\ svc \in SetupTasks /\ wifi \in WifiRecords /\ net \in Nets /\ radio \in Radios
      /\ mode' \in BOOLEAN /\ events' \in Seq(SetupEvents)
  BY <1>1 DEF SetupInv, SetupTyped
<1>4. /\ ~mode /\ ~net.active /\ ~net.http_server /\ ~net.restore_pending
      /\ svc.pc = "boot_wait" => StationIsOwed
  BY <1>1 DEF SetupInv, StationInv, FirstStop, StopChain
<1>5. CASE Setup!InitializeFails
  <2>1. svc' \in SetupTasks /\ svc'.pc = "dead" /\ UNCHANGED <<wifi, net, radio>>
    BY <1>3, <1>5, GoMoves DEF Setup!InitializeFails, TaskPlaces
  <2>2. StationInv'
    BY <2>1 DEF StationInv, FirstStop, StopChain
  <2> QED
    BY <1>2, <1>3, <2>1, <2>2 DEF SetupInv, SetupTyped
<1>6. ASSUME Setup!EnterSession("accept"), wifi'.active = wifi.active, wifi' \in WifiRecords,
             radio' \in Radios, net' \in Nets, net'.active = net.active,
             net'.http_server = net.http_server, net'.restore_pending = net.restore_pending
      PROVE  SetupInv'
  <2>1. /\ svc' \in SetupTasks /\ svc'.pc = "stop" /\ svc'.then = "enter" /\ svc'.back = "accept"
        /\ svc'.error = FALSE
    BY <1>3, <1>6, EnterSessionMoves
  <2>2. StationInv'
    BY <1>1, <1>4, <1>6, <2>1 DEF StationInv, FirstStop, StopChain
  <2> QED
    BY <1>2, <1>3, <1>6, <2>1, <2>2 DEF SetupInv, SetupTyped
<1>7. ASSUME svc.pc = "boot", Setup!Go("boot_wait"), wifi' = wifi,
             radio' = Setup!Station("connecting", wifi.active),
             net' = [net EXCEPT !.wifi_started = TRUE]
      PROVE  SetupInv'
  <2>1. svc' \in SetupTasks /\ svc'.pc = "boot_wait" /\ svc'.error = svc.error
    BY <1>3, <1>7, GoMoves DEF TaskPlaces, SameCall
  <2>2. ~svc.error
    BY <1>7 DEF SetupInv, StationInv
  <2>3. radio' \in Radios /\ radio'.credentials = wifi.active
    BY <1>3, <1>7 DEF Radios, Setup!Station, WifiRecords
  <2>4. /\ net' \in Nets /\ net'.active = net.active /\ net'.http_server = net.http_server
        /\ net'.restore_pending = net.restore_pending
    BY <1>3, <1>7 DEF Nets
  <2>5. StationInv'
    BY <1>1, <1>4, <1>7, <2>1, <2>2, <2>3, <2>4 DEF StationInv, FirstStop, StopChain, StationIsOwed
  <2> QED
    BY <1>2, <1>3, <1>7, <2>1, <2>3, <2>4, <2>5 DEF SetupInv, SetupTyped
<1>8. CASE Setup!Boot
  BY <1>3, <1>6, <1>7, <1>8 DEF Setup!Boot
<1>9. CASE Setup!BootWait
  <2>1. wifi' \in WifiRecords /\ wifi'.active = wifi.active /\ UNCHANGED <<net, radio>>
        /\ svc.pc = "boot_wait"
    BY <1>3, <1>9, ConfigOperations DEF Setup!BootWait
  <2>2. CASE Setup!Go("poll")
    <3>1. svc' \in SetupTasks /\ svc'.pc = "poll"
      BY <1>3, <2>2, GoMoves DEF TaskPlaces
    <3>2. StationInv'
      BY <1>1, <1>4, <2>1, <3>1 DEF StationInv, FirstStop, StopChain, StationIsOwed
    <3> QED
      BY <1>2, <1>3, <2>1, <3>1, <3>2 DEF SetupInv, SetupTyped
  <2> QED
    BY <1>3, <1>6, <1>9, <2>1, <2>2 DEF Setup!BootWait
<1>10. CASE Setup!BootFails
  <2>1. PICK started, configured \in BOOLEAN :
          /\ radio' = IF configured THEN Setup!Station("idle", wifi.active) ELSE radio
          /\ net' = [net EXCEPT !.wifi_started = started]
    BY <1>10 DEF Setup!BootFails
  <2>2. radio' \in Radios
    BY <1>3, <2>1 DEF Radios, Setup!Station, WifiRecords
  <2>3. /\ net' \in Nets /\ net'.active = net.active /\ net'.http_server = net.http_server
        /\ net'.restore_pending = net.restore_pending
    BY <1>3, <2>1 DEF Nets
  <2>4. wifi' \in WifiRecords /\ wifi'.active = wifi.active /\ Setup!EnterSession("accept")
    BY <1>3, <1>10, ConfigOperations DEF Setup!BootFails
  <2> QED
    BY <1>6, <2>2, <2>3, <2>4
<1> QED
  BY <1>5, <1>8, <1>9, <1>10

\* A step of the loop that leaves the station's network, the session and the
\* radio's bookkeeping alone.
LEMMA LoopStep ==
  ASSUME SetupInv, svc.pc \in {"poll", "tick", "pair", "pair_wait"},
         svc' \in SetupTasks, svc'.pc \in {"poll", "tick", "pair", "pair_wait"},
         wifi' \in WifiRecords, wifi'.active = wifi.active,
         radio' \in Radios, radio'.credentials = radio.credentials, events' \in Seq(SetupEvents),
         queue' \in Seq(SetupCommands), handler' = handler, SlotsInv', UNCHANGED <<mode, net, commits>>
  PROVE  SetupInv'
  BY StationLoops DEF SetupInv, SetupTyped

LEMMA SimpleSteps ==
  ASSUME SetupInv, Setup!PollTimesOut \/ Setup!HandleBoot \/ Setup!HandleRejected
                     \/ Setup!HandleTemperature \/ Setup!HandleProfileEdit
  PROVE  SetupInv'
<1>1. UNCHANGED <<handler, slots, mode, net, radio, events, commits>> /\ Setup!Go("tick")
  BY DEF Setup!PollTimesOut, Setup!HandleBoot, Setup!HandleRejected, Setup!HandleTemperature,
         Setup!HandleProfileEdit, Setup!HandleEdit, Setup!hmi
<1>2. /\ svc \in SetupTasks /\ wifi \in WifiRecords
      /\ radio' \in Radios /\ events' \in Seq(SetupEvents) /\ radio'.credentials = radio.credentials
  BY <1>1 DEF SetupInv, SetupTyped
<1>3. svc' \in SetupTasks /\ svc'.pc = "tick"
  BY <1>1, <1>2, GoMoves DEF TaskPlaces
<1>4. CASE Setup!PollTimesOut
  <2>1. svc.pc = "poll" /\ queue' = queue /\ wifi' = wifi
    BY <1>4 DEF Setup!PollTimesOut
  <2> QED
    BY <1>1, <1>2, <1>3, <2>1, SlotsAlone, LoopStep
<1>5. ASSUME NEW t \in CommandTypes \ {"pair_companion"}, Setup!TryReceive(t), Setup!Received,
             wifi' \in WifiRecords, wifi'.active = wifi.active
      PROVE  SetupInv'
  BY <1>1, <1>2, <1>3, <1>5, TakesCommand, LoopStep
<1>6. CASE Setup!HandleBoot \/ Setup!HandleTemperature \/ Setup!HandleProfileEdit
  BY <1>2, <1>5, <1>6 DEF Setup!HandleBoot, Setup!HandleTemperature, Setup!HandleProfileEdit,
     Setup!HandleEdit, CommandTypes
<1>7. CASE Setup!HandleRejected
  <2>1. PICK how \in {"auth_failed", "connection_failed"} :
          /\ Setup!TryReceive(how) /\ Setup!Received
          /\ wifi' = Setup!ValidationFailed(wifi, how)
    BY <1>7 DEF Setup!HandleRejected
  <2>2. wifi' \in WifiRecords /\ wifi'.active = wifi.active
    BY <1>2, <2>1, ConfigOperations
  <2> QED
    BY <1>5, <2>1, <2>2 DEF CommandTypes
<1> QED
  BY <1>4, <1>6, <1>7

LEMMA HandleSubmitStep == ASSUME SetupInv, Setup!HandleSubmit PROVE SetupInv'
<1>1. /\ UNCHANGED <<handler, slots, mode, net, commits>> /\ Setup!Go("tick")
      /\ Setup!TryReceive("submit_wifi") /\ Setup!Received
  BY DEF Setup!HandleSubmit, Setup!hmi
<1>2. /\ svc.pc = "poll" /\ Head(queue) \in SetupCommands
      /\ queue' \in Seq(SetupCommands) /\ SlotsInv'
  BY <1>1, TakesCommand DEF CommandTypes
<1>3. /\ svc \in SetupTasks /\ wifi \in WifiRecords /\ radio \in Radios /\ events \in Seq(SetupEvents)
      /\ Head(queue).of \in Ofs
  BY <1>2 DEF SetupInv, SetupTyped, SetupCommands
<1>4. svc' \in SetupTasks /\ svc'.pc = "tick"
  BY <1>1, <1>3, GoMoves DEF TaskPlaces
<1>5. ASSUME wifi' \in WifiRecords, wifi'.active = wifi.active, UNCHANGED <<radio, events>>
      PROVE  SetupInv'
  BY <1>1, <1>2, <1>3, <1>4, <1>5, LoopStep
<1>6. ASSUME mode, NEW begun \in BOOLEAN,
             \/ Setup!BeginsValidation(Head(queue).of)
             \/ Setup!BeginningFails(Head(queue).of),
             wifi' = Setup!ValidationBegun(Setup!Staged(wifi, Head(queue).of), begun)
      PROVE  SetupInv'
  <2>1. wifi' \in WifiRecords /\ wifi'.active = wifi.active
    BY <1>3, <1>6, ConfigOperations
  <2>2. radio' \in Radios /\ events' \in Seq(SetupEvents)
    BY <1>3, <1>6, EventsGrow
       DEF Setup!BeginsValidation, Setup!BeginningFails, Setup!Station, Radios
  <2>3. StationInv'
    BY <1>1, <1>2, <1>4, <1>6, <2>1 DEF SetupInv, StationInv, StationIsOwed, FirstStop, StopChain
  <2> QED
    BY <1>1, <1>2, <1>4, <2>1, <2>2, <2>3 DEF SetupInv, SetupTyped
<1>7. \/ wifi' = wifi /\ UNCHANGED <<radio, events>>
      \/ /\ mode /\ Setup!BeginsValidation(Head(queue).of)
         /\ wifi' = Setup!ValidationBegun(Setup!Staged(wifi, Head(queue).of), TRUE)
      \/ /\ mode /\ Setup!BeginningFails(Head(queue).of)
         /\ wifi' = Setup!ValidationBegun(Setup!Staged(wifi, Head(queue).of), FALSE)
      \/ wifi' = Setup!StorageFailure(wifi) /\ UNCHANGED <<radio, events>>
  BY DEF Setup!HandleSubmit
<1> QED
  BY <1>3, <1>5, <1>6, <1>7, ConfigOperations

LEMMA HandleValidatedStep == ASSUME SetupInv, Setup!HandleValidated PROVE SetupInv'
<1>1. /\ UNCHANGED <<handler, slots, radio, events>>
      /\ Setup!TryReceive("connected") /\ Setup!Received
  BY DEF Setup!HandleValidated, Setup!hmi
<1>2. svc.pc = "poll" /\ queue' \in Seq(SetupCommands) /\ SlotsInv'
  BY <1>1, TakesCommand DEF CommandTypes
<1>3. svc \in SetupTasks /\ wifi \in WifiRecords /\ radio' \in Radios /\ events' \in Seq(SetupEvents)
      /\ net \in Nets
  BY <1>1 DEF SetupInv, SetupTyped
<1>4. ASSUME wifi' = Setup!StorageFailure(wifi), Setup!Go("tick"), UNCHANGED <<mode, net, commits>>
      PROVE  SetupInv'
  <2>1. svc' \in SetupTasks /\ svc'.pc = "tick"
    BY <1>3, <1>4, GoMoves DEF TaskPlaces
  <2> QED
    BY <1>1, <1>2, <1>3, <1>4, <2>1, ConfigOperations, LoopStep
<1>5. ASSUME wifi' = Setup!Committed(wifi), Setup!StopMode, Setup!CallStop("notify"),
             net' = [net EXCEPT !.restore_pending = FALSE],
             commits' = CASE Head(queue).of # wifi.candidate -> "blind"
                          [] commits = "sound" /\ radio.credentials # wifi.candidate -> "left"
                          [] OTHER -> commits
      PROVE  SetupInv'
  <2>1. wifi' \in WifiRecords /\ wifi'.active = wifi.candidate
    BY <1>3, <1>5, ConfigOperations
  <2>2. net' \in Nets /\ mode' = FALSE
    BY <1>3, <1>5 DEF Nets, Setup!StopMode
  <2>3. svc' \in SetupTasks /\ svc'.pc = "stop" /\ svc'.then = "notify"
    BY <1>3, <1>5, CallStopMoves
  <2>4. commits' = "sound" => radio'.credentials = wifi.candidate
    BY <1>1, <1>5
  <2>5. StationInv'
    BY <2>1, <2>2, <2>3, <2>4 DEF StationInv, StationIsOwed, FirstStop, StopChain
  <2> QED
    BY <1>1, <1>2, <1>3, <2>1, <2>2, <2>3, <2>5 DEF SetupInv, SetupTyped
<1> QED
  BY <1>4, <1>5 DEF Setup!HandleValidated

LEMMA HandleRuntimeStep == ASSUME SetupInv, Setup!HandleRuntime PROVE SetupInv'
<1>1. PICK t \in {"connected", "auth_failed", "connection_failed"} :
         /\ Setup!TryReceive(t) /\ Setup!Received
         /\ \/ Setup!Go("tick") /\ wifi' = wifi
            \/ /\ wifi' = Setup!ActiveConnection(wifi, t = "connected")
               /\ Setup!Go("tick") \/ (~mode /\ Setup!EnterSession("tick"))
  BY DEF Setup!HandleRuntime
<1>2. UNCHANGED <<handler, slots, mode, net, radio, events, commits>>
  BY DEF Setup!HandleRuntime, Setup!hmi
<1>3. svc.pc = "poll" /\ queue' \in Seq(SetupCommands) /\ SlotsInv'
  BY <1>1, <1>2, TakesCommand DEF CommandTypes
<1>4. /\ svc \in SetupTasks /\ wifi \in WifiRecords /\ radio' \in Radios
      /\ events' \in Seq(SetupEvents) /\ radio'.credentials = radio.credentials
  BY <1>2 DEF SetupInv, SetupTyped
<1>5. wifi' \in WifiRecords /\ wifi'.active = wifi.active
  BY <1>1, <1>4 DEF Setup!ActiveConnection, WifiRecords, Setup!ConfigStates
<1>6. CASE Setup!Go("tick")
  <2>1. svc' \in SetupTasks /\ svc'.pc = "tick"
    BY <1>4, <1>6, GoMoves DEF TaskPlaces
  <2> QED
    BY <1>2, <1>3, <1>4, <1>5, <2>1, LoopStep
<1>7. CASE ~mode /\ Setup!EnterSession("tick")
  <2>1. /\ svc' \in SetupTasks /\ svc'.pc = "stop" /\ svc'.then = "enter" /\ svc'.back = "tick"
    BY <1>4, <1>7, EnterSessionMoves
  <2>2. StationInv'
    BY <1>2, <1>3, <1>5, <1>7, <2>1 DEF SetupInv, StationInv, StationIsOwed, FirstStop, StopChain
  <2> QED
    BY <1>2, <1>3, <1>4, <1>5, <2>1, <2>2 DEF SetupInv, SetupTyped
<1> QED
  BY <1>1, <1>6, <1>7

LEMMA HandleClearStep == ASSUME SetupInv, Setup!HandleClear PROVE SetupInv'
<1>1. /\ UNCHANGED <<handler, slots, mode, commits>> /\ Setup!Go("tick")
      /\ Setup!TryReceive("clear_wifi") /\ Setup!Received
  BY DEF Setup!HandleClear, Setup!hmi
<1>2. svc.pc = "poll" /\ queue' \in Seq(SetupCommands) /\ SlotsInv'
  BY <1>1, TakesCommand DEF CommandTypes
<1>3. /\ svc \in SetupTasks /\ wifi \in WifiRecords /\ radio \in Radios /\ events \in Seq(SetupEvents)
      /\ net \in Nets
  BY DEF SetupInv, SetupTyped
<1>4. svc' \in SetupTasks /\ svc'.pc = "tick"
  BY <1>1, <1>3, GoMoves DEF TaskPlaces
<1>5. /\ radio' \in Radios /\ radio'.credentials = radio.credentials /\ events' \in Seq(SetupEvents)
  BY <1>3, EventsGrow DEF Setup!HandleClear, Setup!Cancels, Radios
<1>6. ASSUME wifi' = Setup!Cleared(wifi), net' = [net EXCEPT !.restore_pending = FALSE]
      PROVE  SetupInv'
  <2>1. wifi' \in WifiRecords /\ wifi'.active = None
    BY <1>3, <1>6, ConfigOperations
  <2>2. net' \in Nets /\ net'.shutdown_pending = net.shutdown_pending
    BY <1>3, <1>6 DEF Nets
  <2>3. StationInv'
    BY <1>1, <1>2, <1>4, <2>1, <2>2 DEF SetupInv, StationInv, StationIsOwed, FirstStop, StopChain
  <2> QED
    BY <1>1, <1>2, <1>4, <1>5, <2>1, <2>2, <2>3 DEF SetupInv, SetupTyped
<1>7. ASSUME wifi' \in {wifi, Setup!StorageFailure(wifi)}, net' = net PROVE SetupInv'
  <2>1. wifi' \in WifiRecords /\ wifi'.active = wifi.active
    BY <1>3, <1>7, ConfigOperations
  <2> QED
    BY <1>1, <1>2, <1>4, <1>5, <1>7, <2>1, LoopStep
<1> QED
  BY <1>6, <1>7 DEF Setup!HandleClear

LEMMA PairSteps ==
  ASSUME SetupInv,
         Setup!HandlePair \/ Setup!PairRedeems \/ Setup!PairAnswered \/ Setup!PairUnanswered
  PROVE  SetupInv'
<1>1. UNCHANGED <<handler, wifi, net, radio, events, commits>>
  BY DEF Setup!HandlePair, Setup!PairRedeems, Setup!PairAnswered, Setup!PairUnanswered, Setup!hmi
<1>2. /\ svc \in SetupTasks /\ wifi' \in WifiRecords /\ radio' \in Radios
      /\ events' \in Seq(SetupEvents) /\ net' \in Nets /\ queue \in Seq(SetupCommands)
      /\ SlotsInv
  BY <1>1 DEF SetupInv, SetupTyped
<1>3. CASE Setup!HandlePair
  <2> DEFINE g == Head(queue).of
  <2>1. /\ Setup!TryReceive("pair_companion") /\ Setup!Received /\ mode' = mode
        /\ \/ svc' = [svc EXCEPT !.pc = "pair", !.pair = g] /\ slots' = slots
           \/ Setup!Go("tick") /\ slots' = Setup!Without(g)
    BY <1>3 DEF Setup!HandlePair
  <2>2. /\ queue' \in Seq(SetupCommands) /\ g \in Ofs /\ svc.pc = "poll"
        /\ \A h : Queued(h) => (Queued(h)' \/ g = h)
    BY <1>2, <2>1, Dequeues DEF SetupCommands, Setup!TryReceive
  <2> HIDE DEF g
  <2>3. CASE svc' = [svc EXCEPT !.pc = "pair", !.pair = g] /\ slots' = slots
    <3>1. svc' \in SetupTasks /\ svc'.pc = "pair" /\ svc'.pair = g
      BY <1>2, <2>2, <2>3 DEF SetupTasks, TaskPlaces
    <3>2. SlotsInv'
      BY <1>1, <1>2, <2>2, <2>3, <3>1 DEF SlotsInv, Owed
    <3> QED
      BY <1>1, <1>2, <2>1, <2>2, <3>1, <3>2, LoopStep
  <2>4. CASE Setup!Go("tick") /\ slots' = Setup!Without(g)
    <3>1. svc' \in SetupTasks /\ svc'.pc = "tick"
      BY <1>2, <2>4, GoMoves DEF TaskPlaces
    <3>2. DOMAIN slots' = DOMAIN slots \ {g}
      BY <2>4 DEF Setup!Without
    <3>3. SlotsInv'
      BY <1>1, <1>2, <2>2, <3>1, <3>2 DEF SlotsInv, Owed
    <3> QED
      BY <1>1, <1>2, <2>1, <2>2, <3>1, <3>3, LoopStep
  <2> QED
    BY <2>1, <2>3, <2>4
<1>4. ASSUME svc.pc \in {"pair", "pair_wait"}, queue' = queue, slots' = Setup!Without(svc.pair)
      PROVE  SlotsInv'
  <2>1. DOMAIN slots' = DOMAIN slots \ {svc.pair}
    BY <1>4 DEF Setup!Without
  <2> QED
    BY <1>1, <1>2, <1>4, <2>1, QueueStays DEF SlotsInv, Owed
<1>5. ASSUME svc.pc \in {"pair", "pair_wait"}, queue' = queue, slots' = Setup!Without(svc.pair),
             mode' = mode, svc' = [svc EXCEPT !.pc = "tick", !.pair = None]
      PROVE  SetupInv'
  <2>1. svc' \in SetupTasks /\ svc'.pc = "tick"
    BY <1>2, <1>5 DEF SetupTasks, TaskPlaces, Ofs
  <2> QED
    BY <1>1, <1>2, <1>4, <1>5, <2>1, LoopStep
<1>6. ASSUME svc.pc = "pair", Setup!Go("pair_wait"), UNCHANGED <<queue, slots, mode>>
      PROVE  SetupInv'
  <2>1. svc' \in SetupTasks /\ svc'.pc = "pair_wait" /\ svc'.pair = svc.pair
    BY <1>2, <1>6, GoMoves DEF TaskPlaces
  <2>2. SlotsInv'
    BY <1>1, <1>2, <1>6, <2>1, QueueStays DEF SlotsInv, Owed
  <2> QED
    BY <1>1, <1>2, <1>6, <2>1, <2>2, LoopStep
<1>7. CASE Setup!PairRedeems \/ Setup!PairUnanswered
  BY <1>5, <1>6, <1>7 DEF Setup!PairRedeems, Setup!PairUnanswered
<1>8. CASE Setup!PairAnswered
  <2>1. /\ svc.pc = "pair_wait" /\ queue' = queue /\ slots' = Setup!Without(svc.pair) /\ mode' = FALSE
        /\ svc' = [svc EXCEPT !.pc = "stop", !.then = "notify", !.error = FALSE, !.pair = None]
    BY <1>8 DEF Setup!PairAnswered, Setup!StopMode
  <2>2. svc' \in SetupTasks /\ svc'.pc = "stop" /\ svc'.then = "notify"
    BY <1>2, <2>1 DEF SetupTasks, TaskPlaces, StopChain, Ofs
  <2>3. StationInv'
    BY <1>1, <2>1, <2>2 DEF SetupInv, StationInv, StationIsOwed, FirstStop, StopChain
  <2> QED
    BY <1>1, <1>2, <1>4, <2>1, <2>2, <2>3 DEF SetupInv, SetupTyped
<1> QED
  BY <1>3, <1>7, <1>8

LEMMA TickSteps == ASSUME SetupInv, Setup!Tick \/ Setup!TickTimesOut PROVE SetupInv'
<1>1. UNCHANGED <<queue, handler, slots, net, commits>> /\ svc.pc = "tick"
  BY DEF Setup!Tick, Setup!TickTimesOut, Setup!hmi
<1>2. SlotsInv' /\ queue' \in Seq(SetupCommands) /\ (handler = None \/ handler \in SetupCommands)'
  BY <1>1, SlotsAlone
<1>3. /\ svc \in SetupTasks /\ wifi \in WifiRecords /\ radio \in Radios /\ events \in Seq(SetupEvents)
      /\ net' \in Nets /\ mode \in BOOLEAN
  BY <1>1 DEF SetupInv, SetupTyped
<1>4. wifi' \in WifiRecords /\ wifi'.active = wifi.active
  BY <1>3, ConfigOperations DEF Setup!Tick, Setup!TickTimesOut
<1>5. radio' \in Radios /\ radio'.credentials = radio.credentials /\ events' \in Seq(SetupEvents)
  BY <1>3, EventsGrow DEF Setup!Tick, Setup!TickTimesOut, Radios
<1>6. \/ mode' = mode /\ Setup!LoopEnd(FALSE)
      \/ mode' = FALSE /\ Setup!CallStop("end")
      \/ mode' = mode /\ net.shutdown_pending /\ Setup!CallStop("end")
  BY DEF Setup!Tick, Setup!TickTimesOut, Setup!StopMode, Setup!StopWanted
<1>7. mode' \in BOOLEAN
  BY <1>3, <1>6
<1>8. CASE mode' = mode /\ Setup!LoopEnd(FALSE)
  <2>1. /\ svc' \in SetupTasks
        /\ \/ svc'.pc = "poll" /\ svc'.back = "poll"
           \/ svc'.pc = "stop" /\ svc'.then = "enter" /\ svc'.back = "poll" /\ svc'.error = FALSE
    BY <1>3, <1>8, LoopEndMoves
  <2>2. StationInv'
    BY <1>1, <1>4, <1>5, <1>8, <2>1 DEF SetupInv, StationInv, StationIsOwed, FirstStop, StopChain
  <2> QED
    BY <1>2, <1>3, <1>4, <1>5, <1>7, <2>1, <2>2 DEF SetupInv, SetupTyped
<1>9. CASE ~mode' /\ Setup!CallStop("end")
  <2>1. svc' \in SetupTasks /\ svc'.pc = "stop" /\ svc'.then = "end"
    BY <1>3, <1>9, CallStopMoves
  <2>2. StationInv'
    BY <1>1, <1>4, <1>5, <1>9, <2>1 DEF SetupInv, StationInv, StationIsOwed, FirstStop, StopChain
  <2> QED
    BY <1>2, <1>3, <1>4, <1>5, <1>7, <2>1, <2>2 DEF SetupInv, SetupTyped
<1>10. ASSUME mode' = mode, net.shutdown_pending PROVE ~mode'
  BY <1>1, <1>10 DEF SetupInv, StationInv
<1> QED
  BY <1>6, <1>8, <1>9, <1>10

LEMMA StopHttpStep == ASSUME SetupInv, Setup!StopHttp PROVE SetupInv'
<1>1. UNCHANGED <<queue, handler, slots, mode, radio, events, commits>> /\ svc.pc = "stop"
  BY DEF Setup!StopHttp, Setup!hmi
<1>2. SlotsInv' /\ queue' \in Seq(SetupCommands) /\ (handler = None \/ handler \in SetupCommands)'
  BY <1>1, SlotsAlone
<1>3. /\ svc \in SetupTasks /\ wifi \in WifiRecords /\ radio' \in Radios /\ net \in Nets
      /\ mode' \in BOOLEAN /\ events' \in Seq(SetupEvents)
  BY <1>1 DEF SetupInv, SetupTyped
<1>4. wifi' \in WifiRecords /\ wifi'.active = wifi.active
  BY <1>3, ConfigOperations DEF Setup!StopHttp
<1>5. /\ net' \in Nets /\ net'.active = net.active /\ net'.restore_pending = net.restore_pending
      /\ net'.shutdown_pending = net.shutdown_pending
      /\ ~net.http_server => ~net'.http_server
  BY <1>3 DEF Setup!StopHttp, Nets
<1>6. /\ svc' \in SetupTasks /\ svc'.pc = "stop_radio" /\ svc'.then = svc.then
      /\ svc'.back = svc.back
  BY <1>3 DEF Setup!StopHttp, Setup!Go, SetupTasks, TaskPlaces, StopChain
<1>7. ~net.http_server => svc'.error = svc.error
  BY <1>3 DEF Setup!StopHttp, Setup!Go, SetupTasks
<1>8. FirstStop' = FirstStop
  BY <1>1, <1>6 DEF FirstStop, StopChain
<1>9. StationInv'
  BY <1>1, <1>4, <1>5, <1>6, <1>7, <1>8 DEF SetupInv, StationInv, StationIsOwed, StopChain
<1> QED
  BY <1>2, <1>3, <1>4, <1>5, <1>6, <1>9 DEF SetupInv, SetupTyped

LEMMA StopRadioSteps == ASSUME SetupInv, Setup!StopRadio \/ Setup!StopWait PROVE SetupInv'
<1>1. /\ UNCHANGED <<queue, handler, slots, mode, wifi, commits>>
      /\ svc.pc \in {"stop_radio", "stop_wait"}
  BY DEF Setup!StopRadio, Setup!StopWait, Setup!hmi
<1>2. SlotsInv' /\ queue' \in Seq(SetupCommands) /\ (handler = None \/ handler \in SetupCommands)'
  BY <1>1, SlotsAlone
<1>3. /\ svc \in SetupTasks /\ wifi' \in WifiRecords /\ radio \in Radios /\ net \in Nets
      /\ mode' \in BOOLEAN /\ events \in Seq(SetupEvents)
  BY <1>1 DEF SetupInv, SetupTyped
<1>4. radio' \in Radios /\ radio'.credentials = radio.credentials /\ events' \in Seq(SetupEvents)
  BY <1>3, EventsGrow DEF Setup!StopRadio, Setup!StopWait, Radios
<1>5. /\ net' \in Nets /\ net'.restore_pending = net.restore_pending
      /\ net'.shutdown_pending = net.shutdown_pending /\ net'.http_server = net.http_server
      /\ ~net.active => ~net'.active
  <2>1. (wifi.active # None) \in BOOLEAN
    OBVIOUS
  <2> QED
    BY <1>3, <2>1 DEF Setup!StopRadio, Setup!StopWait, Nets
<1>6. /\ svc' \in SetupTasks /\ svc'.pc \in {"stop_wait", "restore"} /\ svc'.then = svc.then
      /\ svc'.back = svc.back /\ (~net.active => svc'.pc = "restore")
  BY <1>3 DEF Setup!StopRadio, Setup!StopWait, Setup!Go, SetupTasks, TaskPlaces, StopChain
<1>7. FirstStop' = FirstStop
  BY <1>1, <1>6 DEF FirstStop, StopChain
<1>8. FirstStop => (svc.pc = "stop_radio" /\ svc'.error = svc.error)
  BY <1>1, <1>3 DEF SetupInv, StationInv, Setup!StopRadio, Setup!StopWait, Setup!Go, SetupTasks
<1>9. StationInv'
  BY <1>1, <1>4, <1>5, <1>6, <1>7, <1>8 DEF SetupInv, StationInv, StationIsOwed, StopChain
<1> QED
  BY <1>2, <1>3, <1>4, <1>5, <1>6, <1>9 DEF SetupInv, SetupTyped

\* stop_network is done: its caller is back in the loop with the session over,
\* or a new session begins, which nothing has failed on the way to.
LEMMA StoppedMoves ==
  ASSUME SetupInv, svc.pc = "restore", NEW f \in BOOLEAN, Setup!Stopped(f)
  PROVE  /\ svc' \in SetupTasks
         /\ \/ mode' = FALSE /\ svc'.pc \in {"poll", "tick"}
            \/ /\ mode' = FALSE /\ svc'.pc = "stop" /\ svc'.then = "enter" /\ svc'.back = "poll"
               /\ svc'.error = FALSE
            \/ mode' = TRUE /\ svc'.pc = "start" /\ svc'.back = svc.back /\ svc.then = "enter" /\ ~f
         /\ (svc.then = "enter" /\ ~f) => (svc'.pc = "start" /\ svc'.back = svc.back)
<1>1. svc \in SetupTasks /\ mode \in BOOLEAN
  BY DEF SetupInv, SetupTyped
<1>2. CASE svc.then = "notify"
  <2>1. Setup!Rejoin("tick") /\ mode' = mode
    BY <1>2 DEF Setup!Stopped
  <2>2. ~mode
    BY <1>2 DEF SetupInv, StationInv, StopChain
  <2> QED
    BY <1>1, <1>2, <2>1, <2>2, RejoinMoves DEF TaskPlaces
<1>3. CASE svc.then = "end"
  <2>1. Setup!LoopEnd(f) /\ mode' = mode
    BY <1>3 DEF Setup!Stopped
  <2>2. ~mode
    BY <1>3 DEF SetupInv, StationInv, StopChain
  <2> QED
    BY <1>1, <1>3, <2>1, <2>2, LoopEndMoves
<1>4. ASSUME NEW b, Setup!FailSession, Setup!Return(b)
      PROVE  svc' \in SetupTasks /\ mode' = FALSE /\ svc'.pc \in {"poll", "tick"}
  BY <1>1, <1>4, ReturnMoves DEF Setup!FailSession, Setup!StopMode
<1>5. CASE svc.then = "enter" /\ f
  BY <1>4, <1>5 DEF Setup!Stopped
<1>6. CASE svc.then = "enter" /\ ~f
  <2>1. Setup!Go("start") /\ mode' = TRUE
    BY <1>6 DEF Setup!Stopped, Setup!EnterMode
  <2> QED
    BY <1>1, <1>6, <2>1, GoMoves DEF TaskPlaces, SameCall
<1>7. CASE svc.then = "fail"
  BY <1>4, <1>7 DEF Setup!Stopped
<1> QED
  BY <1>1, <1>2, <1>3, <1>5, <1>6, <1>7 DEF SetupTasks

LEMMA StopRestoreStep == ASSUME SetupInv, Setup!StopRestore PROVE SetupInv'
<1>1. UNCHANGED <<queue, handler, slots, wifi, commits>> /\ svc.pc = "restore"
  BY DEF Setup!StopRestore
<1>2. SlotsInv' /\ queue' \in Seq(SetupCommands) /\ (handler = None \/ handler \in SetupCommands)'
  BY <1>1, SlotsAlone
<1>3. /\ svc \in SetupTasks /\ wifi \in WifiRecords /\ wifi' \in WifiRecords /\ radio \in Radios
      /\ net \in Nets /\ mode \in BOOLEAN /\ events \in Seq(SetupEvents) /\ svc.error \in BOOLEAN
  BY <1>1 DEF SetupInv, SetupTyped, SetupTasks
<1>4. \/ /\ net' = [net EXCEPT !.shutdown_pending = svc.error] /\ Setup!Stopped(svc.error)
         /\ UNCHANGED <<radio, events>>
      \/ /\ net' = [net EXCEPT !.shutdown_pending = svc.error, !.restore_pending = FALSE,
                               !.wifi_started = TRUE]
         /\ events' = Setup!Dropped /\ radio' = Setup!Station("connecting", wifi.active)
         /\ Setup!Stopped(svc.error)
      \/ /\ net.restore_pending /\ net' = [net EXCEPT !.shutdown_pending = TRUE]
         /\ Setup!Stopped(TRUE) /\ UNCHANGED <<radio, events>>
  BY DEF Setup!StopRestore
<1>5. radio' \in Radios /\ events' \in Seq(SetupEvents)
  BY <1>3, <1>4, EventsGrow DEF Setup!Station, Radios, WifiRecords
<1>6. \/ radio'.credentials = wifi.active
      \/ radio'.credentials = radio.credentials /\ net'.restore_pending = net.restore_pending
  BY <1>3, <1>4 DEF Setup!Station, Radios, Nets
<1>7. \E f \in BOOLEAN : Setup!Stopped(f) /\ net' \in Nets /\ net'.shutdown_pending = f
                         /\ (FirstStop => ~f)
  <2>1. FirstStop => (~svc.error /\ ~net.restore_pending)
    BY DEF SetupInv, StationInv
  <2>2. CASE /\ net' = [net EXCEPT !.shutdown_pending = svc.error] /\ Setup!Stopped(svc.error)
    BY <1>3, <2>1, <2>2 DEF Nets
  <2>3. CASE /\ net' = [net EXCEPT !.shutdown_pending = svc.error, !.restore_pending = FALSE,
                               !.wifi_started = TRUE]
             /\ Setup!Stopped(svc.error)
    BY <1>3, <2>1, <2>3 DEF Nets
  <2>4. CASE /\ net.restore_pending /\ net' = [net EXCEPT !.shutdown_pending = TRUE]
             /\ Setup!Stopped(TRUE)
    BY <1>3, <2>1, <2>4 DEF Nets
  <2> QED
    BY <1>4, <2>2, <2>3, <2>4
<1>8. PICK f \in BOOLEAN : Setup!Stopped(f) /\ net' \in Nets /\ net'.shutdown_pending = f
                           /\ (FirstStop => ~f)
  BY <1>7
<1>9. /\ svc' \in SetupTasks
      /\ \/ mode' = FALSE /\ svc'.pc \in {"poll", "tick"}
         \/ /\ mode' = FALSE /\ svc'.pc = "stop" /\ svc'.then = "enter" /\ svc'.back = "poll"
            /\ svc'.error = FALSE
         \/ mode' = TRUE /\ svc'.pc = "start" /\ svc'.back = svc.back /\ svc.then = "enter" /\ ~f
      /\ (svc.then = "enter" /\ ~f) => (svc'.pc = "start" /\ svc'.back = svc.back)
  BY <1>1, <1>8, StoppedMoves
<1>10. StationIsOwed \/ FirstStop
  BY <1>1 DEF SetupInv, StationInv, StopChain
<1>11. StationIsOwed => StationIsOwed'
  BY <1>1, <1>6 DEF StationIsOwed
<1>12. FirstStop => (svc'.pc = "start" /\ svc'.back = "accept")
  BY <1>8, <1>9 DEF FirstStop
<1>13. StationInv'
  <2>1. CASE ~FirstStop
    <3>1. StationIsOwed'
      BY <1>10, <1>11, <2>1
    <3>2. ~FirstStop'
      BY <1>9 DEF FirstStop, StopChain
    <3> QED
      BY <1>8, <1>9, <3>1, <3>2 DEF StationInv, StopChain
  <2>2. CASE FirstStop
    BY <1>8, <1>9, <1>12, <2>2 DEF StationInv, FirstStop, StopChain
  <2> QED
    BY <2>1, <2>2
<1>14. mode' \in BOOLEAN
  BY <1>9
<1> QED
  BY <1>2, <1>3, <1>5, <1>8, <1>9, <1>13, <1>14 DEF SetupInv, SetupTyped

LEMMA StartRadioStep == ASSUME SetupInv, Setup!StartRadio PROVE SetupInv'
<1>1. UNCHANGED <<queue, handler, slots, commits>> /\ svc.pc = "start"
  BY DEF Setup!StartRadio, Setup!hmi
<1>2. SlotsInv' /\ queue' \in Seq(SetupCommands) /\ (handler = None \/ handler \in SetupCommands)'
  BY <1>1, SlotsAlone
<1>3. /\ svc \in SetupTasks /\ wifi \in WifiRecords /\ radio \in Radios /\ net \in Nets
      /\ mode \in BOOLEAN /\ events \in Seq(SetupEvents)
  BY <1>1 DEF SetupInv, SetupTyped
<1>4. wifi' \in WifiRecords /\ wifi'.active = wifi.active
  BY <1>3, ConfigOperations DEF Setup!StartRadio
<1>5. radio' \in Radios /\ events' \in Seq(SetupEvents)
  BY <1>3, EventsGrow DEF Setup!StartRadio, Radios
<1>6. /\ net' \in Nets /\ net'.shutdown_pending = net.shutdown_pending
      /\ net'.restore_pending = (wifi.active # None)
  <2>1. (wifi.active # None) \in BOOLEAN
    OBVIOUS
  <2> QED
    BY <1>3, <2>1 DEF Setup!StartRadio, Setup!StationDisplaced, Nets
<1>7. \/ Setup!Go("start_wait") /\ mode' = mode
      \/ Setup!FailSession /\ Setup!Return(FALSE)
  BY DEF Setup!StartRadio
<1>8. /\ svc' \in SetupTasks /\ mode' \in BOOLEAN
      /\ \/ svc'.pc = "start_wait" /\ mode' = mode
         \/ svc'.pc \in {"poll", "tick"} /\ mode' = FALSE
  <2>1. CASE Setup!Go("start_wait") /\ mode' = mode
    BY <1>3, <2>1, GoMoves DEF TaskPlaces
  <2>2. CASE Setup!FailSession /\ Setup!Return(FALSE)
    BY <1>3, <2>2, ReturnMoves DEF Setup!FailSession, Setup!StopMode
  <2> QED
    BY <1>7, <2>1, <2>2
<1>9. StationIsOwed' /\ ~FirstStop'
  BY <1>4, <1>6, <1>8 DEF StationIsOwed, FirstStop, StopChain
<1>10. mode => ~net.shutdown_pending
  BY <1>1 DEF SetupInv, StationInv
<1>11. StationInv'
  BY <1>4, <1>6, <1>8, <1>9, <1>10 DEF StationInv, StopChain
<1> QED
  BY <1>2, <1>4, <1>5, <1>6, <1>8, <1>11 DEF SetupInv, SetupTyped

LEMMA StartWaitStep == ASSUME SetupInv, Setup!StartWait PROVE SetupInv'
<1>1. /\ UNCHANGED <<queue, handler, slots, mode, wifi, radio, events, commits>>
      /\ svc.pc = "start_wait"
  BY DEF Setup!StartWait, Setup!hmi
<1>2. SlotsInv' /\ queue' \in Seq(SetupCommands) /\ (handler = None \/ handler \in SetupCommands)'
  BY <1>1, SlotsAlone
<1>3. /\ svc \in SetupTasks /\ wifi' \in WifiRecords /\ radio' \in Radios /\ net \in Nets
      /\ mode' \in BOOLEAN /\ events' \in Seq(SetupEvents)
  BY <1>1 DEF SetupInv, SetupTyped
<1>4. StationIsOwed /\ ((mode /\ wifi.active # None) => net.restore_pending)
  BY <1>1 DEF SetupInv, StationInv, FirstStop, StopChain
<1>5. \/ net' = Setup!HttpStarted /\ Setup!Return(FALSE)
      \/ net' = net /\ Setup!CallStop("fail")
  BY DEF Setup!StartWait
<1>6. /\ net' \in Nets /\ net'.restore_pending = net.restore_pending
      /\ net' = net \/ net'.shutdown_pending = FALSE
  BY <1>3, <1>5 DEF Setup!HttpStarted, Nets
<1>7. CASE net' = Setup!HttpStarted /\ Setup!Return(FALSE)
  <2>1. svc' \in SetupTasks /\ svc'.pc \in {"poll", "tick"}
    BY <1>3, <1>7, ReturnMoves
  <2>2. net'.shutdown_pending = FALSE
    BY <1>3, <1>7 DEF Setup!HttpStarted, Nets
  <2>3. StationInv'
    BY <1>1, <1>4, <1>6, <2>1, <2>2 DEF StationInv, StationIsOwed, FirstStop, StopChain
  <2> QED
    BY <1>2, <1>3, <1>6, <2>1, <2>3 DEF SetupInv, SetupTyped
<1>8. CASE net' = net /\ Setup!CallStop("fail")
  <2>1. svc' \in SetupTasks /\ svc'.pc = "stop" /\ svc'.then = "fail"
    BY <1>3, <1>8, CallStopMoves
  <2>2. StationInv'
    BY <1>1, <1>4, <1>6, <2>1 DEF StationInv, StationIsOwed, FirstStop, StopChain
  <2> QED
    BY <1>2, <1>3, <1>6, <2>1, <2>2 DEF SetupInv, SetupTyped
<1> QED
  BY <1>5, <1>7, <1>8

LEMMA SetupStays == ASSUME SetupInv, UNCHANGED setupVars PROVE SetupInv'
<1>1. UNCHANGED <<svc, queue, handler, mode, slots, wifi, net, radio, events, commits>>
  BY DEF setupVars
<1>2. SetupTyped'
  BY <1>1 DEF SetupInv, SetupTyped
<1>3. SlotsInv' /\ StationInv'
  BY <1>1, SlotsStay, QueueStays, StationStays DEF SetupInv
<1> QED
  BY <1>2, <1>3 DEF SetupInv

\* What the service task owes at each of its places, to the committed network and
\* to the pairs it has taken, holds through every step (deck_setup_service.cpp).
LEMMA SetupInvariant == MCSpec => []SetupInv
<1>1. SetupInv /\ [MCNext]_<<part, vars, storeVars, setupVars>> => SetupInv'
  <2> SUFFICES ASSUME SetupInv, Setup!Next \/ UNCHANGED setupVars
               PROVE  SetupInv'
    BY DEF MCNext
  <2>1. CASE Setup!ServiceStep
    BY <2>1, BootSteps, SimpleSteps, HandleSubmitStep, HandleValidatedStep, HandleRuntimeStep,
       HandleClearStep, PairSteps, TickSteps, StopHttpStep, StopRadioSteps, StopRestoreStep,
       StartRadioStep, StartWaitStep
       DEF Setup!ServiceStep
  <2> QED
    BY <2>1, BootSteps, TickSteps, ClientSteps, EndRequestStep, DeliverStep, DriverSteps, SetupStays
       DEF Setup!Next
<1> QED
  BY <1>1, SetupInitially, PTL DEF MCSpec

\* Between two commands of the service task the station is configured for the
\* committed network or the service remembers to bring it back, and no slot of
\* the response barrier is lost, whatever calls fail on the way and however
\* many requests, events and credentials there are (deck_setup_service.cpp).
THEOREM DebtsStayRemembered == MCSpec => []DebtsAreRemembered
<1>1. SetupInv => DebtsAreRemembered
  <2> SUFFICES ASSUME SetupInv PROVE DebtsAreRemembered
    OBVIOUS
  <2>1. Setup!StationFollowsRecord
    BY DEF SetupInv, StationInv, StationIsOwed, FirstStop, StopChain, Setup!StationFollowsRecord
  <2>2. Setup!SlotsAreOwed
    BY DEF SetupInv, SlotsInv, Owed, Queued, Setup!SlotsAreOwed
  <2> QED
    BY <2>1, <2>2 DEF DebtsAreRemembered
<1> QED
  BY <1>1, SetupInvariant, PTL
=============================================================================
