----------------------------- MODULE OtaService -----------------------------
(***************************************************************************)
(* Over-the-air updates on the Deck (components/ota_service): the worker   *)
(* task that streams an image into the inactive slot, the link task that   *)
(* sends it commands and aborts it when the transport goes, the CAS word   *)
(* that decides between an abort and the selection of the boot slot, and   *)
(* the guard that confirms or rolls back the first boot.                   *)
(*                                                                         *)
(* One action of the worker is what it does up to its next access to a     *)
(* word, queue or flag it shares with the link task.  An image is Length   *)
(* blocks of its version; a digest is the sequence of blocks it covers.    *)
(***************************************************************************)
EXTENDS Naturals, Sequences

CONSTANTS NoTransaction,
          Length,            \* blocks of an image
          Offers,            \* manifests that arrive: version, and whether valid
          Chunks,            \* chunks that arrive: offset, size, final, what they hold
          MaxVersion,        \* bound on versions; the Deck starts at version 0
          CommandDepth, ResultDepth,
          MaxEpoch,          \* bound on aborts between two boots
          MaxOffer           \* bound on offers between two boots

VARIABLES
  \* flash: survives a reboot
  slot,          \* what each OTA slot holds
  running,       \* the slot this boot runs from
  boot,          \* the slot otadata selects
  image,         \* otadata's state of the selected image
  \* DeckOtaTransportFence, and the rest of struct deck_ota_service
  fence, requested, complete, commands, results, transaction, activeId,
  \* the worker task: where it is, its command, the result it is to publish
  worker, command, outcome,
  \* service->transaction points to a transaction already destroyed
  dangling,
  \* the link task in deck_ota_service_abort_transport
  link,
  guard,         \* deck_ota_boot_guard
  \* history: offers so far; those an abort forestalled; the last abort timed out
  offers, cancelled, late

flash   == <<slot, running, boot, image, guard>>
shared  == <<fence, requested, complete, commands, results>>
task    == <<transaction, activeId, worker, command, outcome, dangling>>
client  == <<link, offers, cancelled, late>>
vars    == <<flash, shared, task, client>>

Slot    == {0, 1}
Whole(v) == [i \in 1..Length |-> v]

Bootable(s) == \E v \in 0..MaxVersion : slot[s] = Whole(v)
StrictlyNewer(version) == \A v \in 0..MaxVersion : slot[running] = Whole(v) => version > v

FenceStates == {"idle", "active", "committing", "aborting"}
Places == {"top", "drain", "reopen", "report", "receive", "check", "dispatch", "begin",
           "open", "commit", "select", "committed", "publish", "send", "end",
           "stopped"}

(* A command as it is queued, stamped with the epoch of its transport. *)
Command(kind, epoch, id, version) ==
  [kind |-> kind, epoch |-> epoch, id |-> id, version |-> version, valid |-> TRUE,
   offset |-> 0, size |-> 0, final |-> FALSE]

Offer(id, o) == [Command("offer", fence.epoch, id, o.version) EXCEPT !.valid = o.valid]

Chunk(id, c) ==
  [Command("chunk", fence.epoch, id, c.version)
     EXCEPT !.offset = c.offset, !.size = c.size, !.final = c.final]

Signal(kind) == Command(kind, 0, 0, 0)

NoCommand == Signal("none")

(* state and ok of the result; ends: the transaction is over with it;      *)
(* epoch: the transport that made the request.                             *)
Outcome(state, ok, ends) ==
  [id |-> command.id, epoch |-> command.epoch, state |-> state, ok |-> ok, ends |-> ends]

NoOutcome == [id |-> 0, epoch |-> 0, state |-> "none", ok |-> FALSE, ends |-> FALSE]

TypeOK ==
  /\ \A s \in Slot : slot[s] \in Seq(0..MaxVersion) /\ Len(slot[s]) <= Length
  /\ running \in Slot /\ boot \in Slot
  /\ image \in {"valid", "new", "pending"} /\ guard \in {"none", "waiting", "confirmed"}
  /\ fence \in [epoch : 1..MaxEpoch, state : FenceStates]
  /\ requested \in BOOLEAN /\ complete \in BOOLEAN /\ dangling \in BOOLEAN
  /\ Len(commands) <= CommandDepth /\ Len(results) <= ResultDepth
  /\ transaction # NoTransaction =>
       /\ transaction.state \in {"receiving", "failed", "ready"}
       /\ transaction.received \in 0..Length
  /\ activeId \in 0..MaxOffer /\ worker \in Places
  /\ link \in {"loop", "request", "wake", "wait", "stopping"}

Fence0 == [epoch |-> 1, state |-> "idle"]

Init ==
  /\ slot = [s \in Slot |-> IF s = 0 THEN Whole(0) ELSE << >>]
  /\ running = 0 /\ boot = 0 /\ image = "valid" /\ guard = "none"
  /\ fence = Fence0 /\ requested = FALSE /\ complete = FALSE
  /\ commands = << >> /\ results = << >>
  /\ transaction = NoTransaction /\ activeId = 0 /\ dangling = FALSE
  /\ worker = "top" /\ command = NoCommand /\ outcome = NoOutcome
  /\ link = "loop" /\ offers = 0 /\ cancelled = {} /\ late = FALSE
-----------------------------------------------------------------------------
(* The boot loader with rollback enabled: an image seen for the first time *)
(* is pending; one still pending, or one that does not verify, is passed   *)
(* over for the other slot.                                                *)
BootSlot == IF image = "pending" \/ ~Bootable(boot) THEN 1 - boot ELSE boot

BootImage == IF BootSlot = boot /\ image = "new" THEN "pending" ELSE "valid"

(* deck_ota_boot_guard_start, called early in app_main. *)
GuardStart(pending) == IF pending THEN "waiting" ELSE "none"

(* Nothing but the flash survives. *)
ServiceStart ==
  /\ fence' = Fence0 /\ requested' = FALSE /\ complete' = FALSE
  /\ commands' = << >> /\ results' = << >>
  /\ transaction' = NoTransaction /\ activeId' = 0 /\ dangling' = FALSE
  /\ worker' = "top" /\ command' = NoCommand /\ outcome' = NoOutcome
  /\ link' = "loop" /\ offers' = 0 /\ cancelled' = {} /\ late' = FALSE

Restarted ==
  /\ running' = BootSlot /\ boot' = BootSlot /\ image' = BootImage
  /\ guard' = GuardStart(BootImage = "pending")
  /\ slot' = slot
  /\ ServiceStart

Reboot == Restarted

(* The guard could not be allocated, or its time is up, or the confirmation *)
(* could not be written: the image is marked invalid and the Deck restarts  *)
(* from the other slot, if that one is bootable.                            *)
Rollback ==
  IF Bootable(1 - running)
  THEN /\ running' = 1 - running /\ boot' = 1 - running /\ image' = "valid"
       /\ guard' = "none" /\ slot' = slot
       /\ ServiceStart
  ELSE guard' = "none" /\ UNCHANGED <<slot, running, boot, image, shared, task, client>>

GuardExpires == guard = "waiting" /\ Rollback

(* deck_ota_boot_guard_confirm: app_main saw the display, the peripherals, *)
(* Wi-Fi and an online Companion.                                          *)
Confirm ==
  /\ guard = "waiting" /\ guard' = "confirmed"
  /\ UNCHANGED <<slot, running, boot, image, shared, task, client>>

GuardConfirmed ==
  /\ guard = "confirmed"
  /\ \/ /\ image' = "valid" /\ guard' = "none"
        /\ UNCHANGED <<slot, running, boot, shared, task, client>>
     \/ Rollback
-----------------------------------------------------------------------------
(* The link task.  A command that finds no room for two seconds makes the  *)
(* link drop the transport, which is AbortBegin.                           *)
Quiet == UNCHANGED <<flash, requested, complete, results, task, cancelled, late>>

Room == Len(commands) < CommandDepth

SendOffer ==
  /\ link = "loop" /\ Room /\ offers < MaxOffer
  /\ offers' = offers + 1
  /\ \E o \in Offers : commands' = Append(commands, Offer(offers + 1, o))
  /\ Quiet /\ UNCHANGED <<fence, link>>

SendChunk ==
  /\ link = "loop" /\ Room
  /\ \E id \in 1..offers, c \in Chunks : commands' = Append(commands, Chunk(id, c))
  /\ Quiet /\ UNCHANGED <<fence, link, offers>>

(* A result sent is forgotten, and a Deck ready for it restarts; one that  *)
(* cannot be sent makes the link drop the transport.                       *)
PollResult ==
  /\ link = "loop" /\ results # << >>
  /\ \/ /\ Head(results).state = "ready"
        /\ Restarted
     \/ /\ results' = Tail(results)
        /\ UNCHANGED <<flash, fence, requested, complete, commands, task, client>>

(* deck_ota_service_abort_transport.  The transaction in progress is       *)
(* forestalled unless its commit has begun.                                *)
BeginAbort(f) ==
  [epoch |-> f.epoch + 1,
   state |-> IF f.state = "committing" THEN "committing" ELSE "aborting"]

AbortBegin ==
  /\ link = "loop" /\ fence.epoch < MaxEpoch
  /\ complete' = FALSE
  /\ fence' = BeginAbort(fence)
  /\ cancelled' = IF fence.state = "active" THEN cancelled \cup {activeId} ELSE cancelled
  /\ link' = "request"
  /\ UNCHANGED <<flash, requested, commands, results, task, offers, late>>

AbortRequest ==
  /\ link = "request" /\ requested' = TRUE /\ link' = "wake"
  /\ UNCHANGED <<flash, fence, complete, commands, results, task, offers, cancelled, late>>

AbortWake ==
  /\ link = "wake" /\ link' = "wait"
  /\ commands' = IF Room THEN <<Signal("abort_transport")>> \o commands ELSE commands
  /\ Quiet /\ UNCHANGED <<fence, offers>>

AbortReturn ==
  /\ link = "wait" /\ link' = "loop" /\ late' = ~complete
  /\ UNCHANGED <<flash, shared, task, offers, cancelled>>

(* deck_ota_service_stop, after the link task has ended. *)
Stop ==
  /\ link = "loop" /\ Room /\ link' = "stopping"
  /\ commands' = <<Signal("stop")>> \o commands
  /\ Quiet /\ UNCHANGED <<fence, offers>>
-----------------------------------------------------------------------------
(* The worker.  Go(p) moves it on; what else changes is up to the action.  *)
Go(place) == worker' = place

Kept == UNCHANGED <<flash, client>>

Continue == Go("top") /\ command' = NoCommand /\ outcome' = NoOutcome

(* deck_ota_transaction_destroy of what service->transaction points to.    *)
(* If that is gone already the heap is damaged: the Deck panics, or not.   *)
Undefined == dangling /\ Reboot

ExchangeKeeps == requested' = requested

Exchange == requested' = FALSE

WorkerTop ==
  /\ worker = "top"
  /\ Exchange /\ Go(IF requested THEN "drain" ELSE "receive")
  /\ UNCHANGED <<fence, complete, commands, results, transaction, activeId, command,
                 outcome, dangling>>
  /\ Kept

(* abort_transport_transaction: its accesses to shared state in order. *)
Drain == results' = << >>

AbortDrain ==
  /\ worker = "drain"
  /\ \/ Undefined
     \/ /\ transaction' = NoTransaction /\ dangling' = FALSE /\ activeId' = 0
        /\ Drain /\ Go("reopen")
        /\ UNCHANGED <<fence, requested, complete, commands, command, outcome>>
        /\ Kept

Reopened(f) == [f EXCEPT !.state = "idle"]

AbortReopen ==
  /\ worker = "reopen" /\ Go("report")
  /\ fence' = Reopened(fence)
  /\ UNCHANGED <<requested, complete, commands, results, transaction, activeId, command,
                 outcome, dangling>>
  /\ Kept

AbortReport ==
  /\ worker = "report" /\ complete' = TRUE
  /\ IF command.kind = "stop" THEN Go("dispatch") /\ UNCHANGED <<command, outcome>>
     ELSE IF command = NoCommand THEN Go("receive") /\ UNCHANGED <<command, outcome>>
     ELSE Continue
  /\ UNCHANGED <<fence, requested, commands, results, transaction, activeId, dangling>>
  /\ Kept

WorkerReceive ==
  /\ worker = "receive" /\ commands # << >>
  /\ command' = Head(commands) /\ commands' = Tail(commands)
  /\ Go("check")
  /\ UNCHANGED <<fence, requested, complete, results, transaction, activeId, outcome,
                 dangling>>
  /\ Kept

(* 250 ms without a command: the transaction may have timed out. *)
WorkerTick ==
  /\ worker = "receive" /\ commands = << >>
  /\ \/ /\ Continue
        /\ UNCHANGED <<transaction, dangling>>
     \/ /\ transaction # NoTransaction /\ transaction.state = "receiving"
        /\ transaction' = [transaction EXCEPT !.state = "failed"]
        /\ outcome' = [id |-> activeId, epoch |-> fence.epoch, state |-> "failed",
                       ok |-> FALSE, ends |-> TRUE]
        /\ Go("publish")
        /\ UNCHANGED <<command, dangling>>
  /\ UNCHANGED <<shared, activeId>>
  /\ Kept

WorkerCheck ==
  /\ worker = "check"
  /\ Exchange
  /\ Go(IF requested THEN "drain" ELSE "dispatch")
  /\ UNCHANGED <<fence, complete, commands, results, transaction, activeId, command,
                 outcome, dangling>>
  /\ Kept
-----------------------------------------------------------------------------
Accepts(c) == c.epoch = fence.epoch

Stopping ==
  /\ worker = "dispatch" /\ command.kind = "stop"
  /\ \/ Undefined
     \/ /\ transaction' = NoTransaction /\ dangling' = FALSE /\ Go("stopped")
        /\ UNCHANGED <<shared, activeId, command, outcome>>
        /\ Kept

DispatchAbort ==
  /\ worker = "dispatch" /\ command.kind = "abort_transport"
  /\ Go("drain")
  /\ UNCHANGED <<shared, transaction, activeId, command, outcome, dangling>>
  /\ Kept

DispatchStale ==
  /\ worker = "dispatch" /\ command.kind \in {"offer", "chunk"} /\ ~Accepts(command)
  /\ Continue
  /\ UNCHANGED <<shared, transaction, activeId, dangling>>
  /\ Kept

(* The command is answered: what is left of it is the result to publish. *)
Answer(state, ok, ends) ==
  outcome' = Outcome(state, ok, ends) /\ command' = NoCommand /\ Go("publish")

Reject == Answer("failed", FALSE, FALSE)

(* end_transaction: an active fence is idle again, any other state stays.  *)
EndTransaction(f) == IF f.state = "active" THEN [f EXCEPT !.state = "idle"] ELSE f

(* A terminal transaction makes way for the new one; one still receiving   *)
(* does not.                                                               *)
DispatchOffer ==
  /\ worker = "dispatch" /\ command.kind = "offer" /\ Accepts(command)
  /\ IF transaction = NoTransaction
     THEN Go("begin") /\ UNCHANGED <<transaction, dangling, fence, command, outcome>>
     ELSE IF transaction.state = "receiving"
     THEN Reject /\ UNCHANGED <<transaction, dangling, fence>>
     ELSE /\ Go("begin")
          /\ transaction' = NoTransaction /\ dangling' = TRUE
          /\ fence' = EndTransaction(fence)
          /\ UNCHANGED <<command, outcome>>
  /\ UNCHANGED <<requested, complete, commands, results, activeId>>
  /\ Kept

(* begin_transaction.  On failure service->transaction keeps its value.    *)
MayBegin(f, epoch) == f.epoch = epoch /\ f.state = "idle"

OfferBegin ==
  /\ worker = "begin"
  /\ IF MayBegin(fence, command.epoch)
     THEN /\ fence' = [fence EXCEPT !.state = "active"]
          /\ activeId' = command.id /\ dangling' = FALSE
          /\ Go("open")
          /\ UNCHANGED <<command, outcome>>
     ELSE Continue /\ UNCHANGED <<fence, activeId, dangling>>
  /\ UNCHANGED <<requested, complete, commands, results, transaction>>
  /\ Kept

(* deck_ota_transaction_offer: the manifest's checks.  esp_ota_begin       *)
(* refuses while the running image is not confirmed, and erases the slot.  *)
ManifestAccepted(c) == c.valid /\ StrictlyNewer(c.version)

UpdateSlot == 1 - running

FlashBegin == image # "pending"

Transaction(state) ==
  [state |-> state, version |-> command.version, received |-> 0, digest |-> << >>]

OfferOpen ==
  /\ worker = "open"
  /\ \/ /\ transaction' \in {Transaction("failed"), NoTransaction}
        /\ Answer("failed", FALSE, TRUE)
        /\ UNCHANGED slot
     \/ /\ ManifestAccepted(command) /\ FlashBegin
        /\ transaction' = Transaction("receiving")
        /\ slot' = [slot EXCEPT ![UpdateSlot] = << >>]
        /\ Answer("receiving", TRUE, FALSE)
  /\ UNCHANGED <<running, boot, image, guard, shared, activeId, dangling, client>>
-----------------------------------------------------------------------------
(* deck_ota_transaction_write *)
Remaining == Length - transaction.received

InOrder(c) ==
  /\ c.offset = transaction.received
  /\ c.size <= Remaining
  /\ c.final <=> c.size = Remaining

BlocksOf(c) == [i \in 1..c.size |-> c.version]

(* The active id is cleared with the end of its transaction, so the        *)
(* transaction it names is receiving.                                      *)
Mine(c) == transaction # NoTransaction /\ activeId = c.id

Write == worker = "dispatch" /\ command.kind = "chunk" /\ Accepts(command)

WriteRejected ==
  /\ Write /\ ~Mine(command)
  /\ Reject
  /\ UNCHANGED <<shared, transaction, activeId, dangling>>
  /\ Kept

(* Timed out, out of order, or refused by the hash or the flash. *)
WriteFails ==
  /\ Write /\ Mine(command)
  /\ transaction' = [transaction EXCEPT !.state = "failed"]
  /\ Answer("failed", FALSE, TRUE)
  /\ UNCHANGED <<shared, activeId, dangling>>
  /\ Kept

DigestMatches(digest, version) == digest = Whole(version)

Written ==
  [transaction EXCEPT !.received = @ + command.size, !.digest = @ \o BlocksOf(command)]

WriteAccepted ==
  /\ Write /\ Mine(command) /\ InOrder(command)
  /\ slot' = [slot EXCEPT ![UpdateSlot] = @ \o BlocksOf(command)]
  /\ \/ /\ ~command.final
        /\ transaction' = Written
        /\ Answer("receiving", TRUE, FALSE)
     \/ /\ command.final /\ DigestMatches(Written.digest, Written.version)
        /\ transaction' = Written /\ Go("commit")
        /\ UNCHANGED <<command, outcome>>
     \/ /\ command.final       \* the digest differs, or esp_ota_end refuses
        /\ transaction' = [Written EXCEPT !.state = "failed"]
        /\ Answer("failed", FALSE, TRUE)
  /\ UNCHANGED <<running, boot, image, guard, shared, activeId, dangling, client>>

(* flash_select_boot: the commit must win against an abort. *)
CommitAlways(f) == TRUE

MayCommit(f) == f.state = "active"

CommitBegin ==
  /\ worker = "commit"
  /\ IF MayCommit(fence)
     THEN /\ fence' = [fence EXCEPT !.state = "committing"] /\ Go("select")
          /\ UNCHANGED <<transaction, command, outcome>>
     ELSE /\ transaction' = [transaction EXCEPT !.state = "failed"]
          /\ Answer("failed", FALSE, TRUE)
          /\ UNCHANGED fence
  /\ UNCHANGED <<requested, complete, commands, results, activeId, dangling>>
  /\ Kept

CommitSelect ==
  /\ worker = "select" /\ Go("committed") /\ command' = NoCommand
  /\ \/ /\ boot' = UpdateSlot /\ image' = "new"
        /\ transaction' = [transaction EXCEPT !.state = "ready"]
        /\ outcome' = Outcome("ready", TRUE, TRUE)
     \/ /\ transaction' = [transaction EXCEPT !.state = "failed"]
        /\ outcome' = Outcome("failed", FALSE, TRUE)
        /\ UNCHANGED <<boot, image>>
  /\ UNCHANGED <<slot, running, guard, shared, activeId, dangling, client>>

CommitFinish ==
  /\ worker = "committed" /\ Go("publish")
  /\ fence' = IF fence.state = "committing" THEN [fence EXCEPT !.state = "idle"] ELSE fence
  /\ UNCHANGED <<requested, complete, commands, results, transaction, activeId, command,
                 outcome, dangling>>
  /\ Kept
-----------------------------------------------------------------------------
(* publish_result and publish_rejection: nothing once an abort was asked   *)
(* for; else the queue has room, or has none for two seconds.              *)
Publish ==
  /\ worker = "publish"
  /\ Go(IF requested THEN "end" ELSE "send")
  /\ UNCHANGED <<shared, transaction, activeId, command, outcome, dangling>>
  /\ Kept

PublishSend ==
  /\ worker = "send" /\ Go("end")
  /\ results' = IF Len(results) < ResultDepth THEN Append(results, outcome) ELSE results
  /\ UNCHANGED <<fence, requested, complete, commands, transaction, activeId, command,
                 outcome, dangling>>
  /\ Kept

PublishEnd ==
  /\ worker = "end" /\ Continue
  /\ fence' = IF outcome.ends THEN EndTransaction(fence) ELSE fence
  /\ activeId' = IF outcome.ends THEN 0 ELSE activeId
  /\ UNCHANGED <<requested, complete, commands, results, transaction, dangling>>
  /\ Kept

Worker ==
  \/ WorkerTop \/ AbortDrain \/ AbortReopen \/ AbortReport
  \/ WorkerReceive \/ WorkerTick \/ WorkerCheck
  \/ Stopping \/ DispatchAbort \/ DispatchStale \/ DispatchOffer \/ OfferBegin \/ OfferOpen
  \/ WriteRejected \/ WriteFails \/ WriteAccepted
  \/ CommitBegin \/ CommitSelect \/ CommitFinish
  \/ Publish \/ PublishSend \/ PublishEnd

Link ==
  \/ SendOffer \/ SendChunk \/ PollResult
  \/ AbortBegin \/ AbortRequest \/ AbortWake \/ AbortReturn \/ Stop

Next ==
  \/ Worker \/ Link
  \/ Reboot \/ Confirm \/ GuardExpires \/ GuardConfirmed

Spec == Init /\ [][Next]_vars
-----------------------------------------------------------------------------
(* Selecting the boot slot and an abort of the transport exclude each      *)
(* other: an offer whose transport was aborted before its commit began is  *)
(* never selected, however late the worker learns of the abort.            *)
AbortWins ==
  [][image' = "new" /\ (image # "new" \/ boot' # boot) => activeId \notin cancelled]_vars

(* A slot is selected only when it holds the whole image the accepted      *)
(* manifest describes, of a version newer than the running one, whatever   *)
(* chunks were repeated, reordered or meant for another offer.             *)
SelectedIsWhole ==
  [][worker = "select" /\ outcome'.ok
     => /\ boot' # running
        /\ slot[boot'] = Whole(transaction.version)
        /\ StrictlyNewer(transaction.version)]_vars

(* While the running image waits for its confirmation, the other slot      *)
(* holds a whole image to roll back to, and that image did run before.     *)
RollbackPossible == image = "pending" /\ boot = running => Bootable(1 - running)

(* A command of the present transport is never dropped without an answer:  *)
(* the worker passes over a command only if the transport it came from is  *)
(* gone, even when the abort itself had timed out.                         *)
OnlyStaleIsDropped ==
  [][command.kind \in {"offer", "chunk"} /\ command' = NoCommand /\ outcome' = NoOutcome
     => command.epoch # fence.epoch \/ offers' = 0]_vars

(* Between two aborts the results waiting for the link are of its present  *)
(* transport, unless the last abort gave up waiting for the worker.        *)
ResultsAreCurrent ==
  link = "loop" /\ ~late => \A i \in DOMAIN results : results[i].epoch = fence.epoch

(* A transaction that was destroyed is never used again but to be destroyed *)
(* once more: no offer and no chunk meets the pointer begin_transaction     *)
(* left behind when it found the transport aborted.                         *)
DestroyedIsUnused ==
  dangling /\ worker = "dispatch" => ~(command.kind \in {"offer", "chunk"} /\ Accepts(command))

=============================================================================
