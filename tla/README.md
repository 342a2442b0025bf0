# S3 RLCD Deck: TLA+ specifications

The repository holds the firmware of a desk display (an ESP32-S3, C++, under
`firmware/components/`) and the *Companion*, a Go program on the user's
computer (`companion/internal/`).  The Deck shows the state of AI tools that a
paired Companion reports over a WebSocket, bridges a serial target to USB and
to the Companion's Web page, keeps its configuration in NVS flash, and is
updated over the air.  These modules specify the parts where tasks, callbacks,
power losses and failing drivers meet; TLC checks them on small instances and
TLAPS proves the most important invariants for every size.

## 1. Inventory

### Firmware

| Part | State | Operations | What is hard | What makes it correct |
|---|---|---|---|---|
| Transaction store | candidate key, two slots, one marker in NVS; their decoded copy in memory | create, stage, commit, clear | power loss between any two NVS accesses; writes that fail, report the wrong result, or rot; generation wrap | a commit is all or nothing; only published records come back |
| Companion profiles | the stored set: profiles, priorities, the active one, a generation | pair, select, revoke, prioritise, activate on heartbeat | edited from the recovery page while the link task uses a copy | an activation fenced by the generation it was decided on |
| Failover policy | phase, target, profiles attempted, offline stamp | profiles observed, heartbeat, transport failed, tick, retry | rounds interrupted by edits and by Companions that come and go | each profile once per round; the active one sticky; a reachable one is reached |
| Companion link | WebSocket client, event queue, authority, snapshot | the task's loop, callbacks, UI copies | callbacks of an earlier connection; a full queue; locks released between steps | authority, document and state belong to the present connection |
| Serial session and owner task | owner, lease, two epochs, command and input queues, UART, TX pin | KEY, BOOT, Web request/activity/disconnect/revoke, stop, USB and Web input | priorities and full queues; input authorised before an owner change; a driver that will not uninstall | one owner of the target's TX; nothing stale reaches it; BOOT always wins |
| Serial transport fence | fence flag, pending and completed revocation epoch | attach, detach, disconnect, ensure, revoke | a handshake of two tasks over a bounded queue | the old connection's lease is gone before the next one opens; the wait ends |
| Serial router and history | a pool of blocks shared by three sinks, the four tasks of a session's data path, the link's replay position | submit, take, copy, start and stop of the path | slow sinks; a stop that times out with tasks still running; replay overtaken by live output | no block lost, shared or returned twice; a path is freed after its tasks; no hole that is not reported |
| Wi-Fi configuration, device settings | committed and candidate credentials, the state shown | stage, validate, commit, reject, clear | results of a connection that is gone; reboot between stage and commit | a bad credential never replaces a good one |
| OTA | transfer, digest, fence, boot health | begin, chunk, finish, confirm | transport lost mid-transfer; reboot; late results | only a complete verified image is booted; an unhealthy one rolls back |
| AI snapshot store | the document shown, a checkpoint in hand, the attempt record, both clocks | apply, copy, bootstrap, reopen, checkpoint | the worker writes while documents arrive; storage that fails and is opened again; a clock set back | nothing older replaces what is newer; flash is written once per interval |
| Setup mode | session, command queue, access point and station, confirmation, response barrier | HTTP handlers, Wi-Fi events, BOOT, the service task | driver and server calls that fail half-way; a full queue; the answer sent before the network goes away | the session closes, the committed network comes back, validations end |
| Application, UI task, peripherals | the handles of the start, one model, five one-place mailboxes, the handled press counts | start and its undoing, presses, callbacks, publishing | a start that fails at any step with callbacks already running; presses against a full command queue | the screen shows whether TX is armed; BOOT revokes older KEY presses |
| Display and panel | two frames, transfer state, DMA, the completion interrupt | flush, submit, poll, completion | a completion that comes after its time-out, a transfer that does not start | a frame is not written while it is read; no completion is lost |
| Diagnostics | a ring of counters and log lines | | | |

### Companion

| Part | State | What is hard | What makes it correct |
|---|---|---|---|
| Device link hub | one connection per device, pending requests | replacement of a live connection, slow consumers | an answer reaches the request it belongs to |
| Serial hub | browsers, the Web lease, replay ring | several browsers, reconnects | one browser writes; replay has no silent gap |
| Pairing | codes, trusted devices, their file | concurrent redemption, persistence failing | a code works once; memory equals the file |
| Backup, installation, structured providers, secret store | files changed together | one of several steps failing, a crash between them | all or nothing, rollback restores |
| OTA service | transfer state per device | Deck offline mid-transfer | progress is the Deck's own |
| History, collectors, runtime, platform glue | databases, child processes, HTTP | mostly I/O | |

How they meet: the recovery page and the link task share the profiles under
one mutex, and every profile change is a transaction of the store.  The link
task asks the failover policy what to do and carries out its answer.  Callbacks
of the WebSocket client put events in a queue of four that the link task
drains.  The link sends commands to the serial owner task through a queue shared
with the buttons, and learns of the result from two values the owner publishes:
the latest result and the last completed revocation epoch.

`PROJECT.json` lists every component with its status, and under `hazards` each
place where the above can go wrong, with its line and its properties.

## 2. The modules

| Module | Models | Composition |
|---|---|---|
| `TransactionStore` | `transaction_store/*.cpp` | |
| `DurableRegister` | what the store promises its clients: one durable value | refined by `TransactionStore` |
| `CompanionProfiles` | the profile set and its edits, as operators | used by the next three |
| `FailoverPolicy` | `deck_companion_failover.cpp`, as a function of event and snapshot | extends `CompanionProfiles` |
| `CompanionFailover` | the policy in a closed loop with Companions, user and clock | extends `FailoverPolicy` |
| `CompanionLink` | `deck_companion_link.cpp`, `deck_companion_transport_authority.cpp` with the policy and the profiles | extends `FailoverPolicy` |
| `SerialSession` | `deck_serial_session.cpp`, as operators on one record | used by the next two |
| `SerialService` | `deck_serial_service.cpp`, host input of `deck_serial_usb_bridge.cpp` | extends `SerialSession` |
| `TransportFence` | the link's half and the owner task's half of the revocation handshake | extends `SerialSession` |
| `OtaService` | `ota_service/*.cpp`: worker task, transaction, transport fence, boot guard | |
| `DeviceHub` | `devicelink/hub.go` and its connections: the Companion's end of the links | |
| `ProtectedFile` | `protectedfile/`: one file replaced by write, sync, rename, sync | |
| `Pairing` | `pairing/`: codes, trusts and their file | extends `ProtectedFile` |
| `SerialRing` | `serialhub/ring.go` | |
| `SerialLease` | `serialhub/lease.go`, `service.go`, `runtime/serial_http.go` with the Deck's link and owner at the other end | |
| `ProviderSecrets` | `structuredprovider/definition_store.go`, `secret_transaction.go`, `secretstore/store.go`, the import of `backup/service.go` | extends `ProtectedFile` |
| `Installation` | `installation/`: journal, state, startup registration, migrated data, with the commands of `cmd/s3deck-companion/installation.go` | |
| `SerialRouter` | `deck_serial_router.cpp`, as operators on one router value | used by the next |
| `SerialDataPath` | target output: the data path of `deck_serial_service.cpp`, the pump of `deck_serial_usb_bridge.cpp`, stream and replay of `deck_companion_link.cpp` | extends `SerialRouter` |
| `WifiConfig` | `deck_wifi_config.cpp`, as operators on one configuration | used by the next |
| `SetupService` | `setup_mode/*.cpp`: service task, HTTP handlers, Wi-Fi events, confirmation, response barrier | extends `WifiConfig` |
| `AiSnapshotStore` | `deck_ai_snapshot_store.cpp` and the time handling of `deck_ai_snapshot.cpp` | |
| `Application` | `main/app_main.cpp` with the tasks it ties together | |
| `DisplayService` | `deck_display_service.cpp`, `deck_rlcd_panel.cpp`, the flush of `deck_application_ui.cpp` | |
| `TransportFenceProofs`, `CompanionFailoverProofs`, `CompanionLinkProofs` | theorems | extend their subjects |
| `FailoverPolicyProofs` | lemmas on the profile set and on the policy as a function | extends `FailoverPolicy`; used by the last two above |
| `DeckControlProofs` | theorems on the serial service, the display, the application and the target's output | extends `MCDeckControl` |
| `DeckFaultsProofs` | theorems on the transaction store and on OTA | extends `MCDeckFaults` |
| `DeckPartsProofs` | theorems on the AI snapshot store and on Setup Mode | extends `MCDeckParts` |
| `CompanionProofs` | theorems on the Companion's pairing, hub, credentials, installation, Web TX Lease and serial ring | extends `MCCompanion` |
| `MCDeckFaults`, `MCDeckParts`, `MCDeckControl`, `MCDeckProgress`, `MCCompanion` | parts that share no state, side by side: `part` says which one a behaviour is of | extend one part (`MCDeckFaults` two), INSTANCE the others |
| other `MC*` | values of the constants for TLC | |

### TransactionStore

Each NVS access is an action and `pc` names the next one, so that `PowerLoss` can
fall between any two.  `flashCandidate`, `flashSlot` and `flashMarker` are the
NVS keys, the variables grouped as `memory` the fields of `struct
deck_transaction_store`.  A record is its generation and payload; magic,
lengths and CRC are reduced to the verdicts of the decoder.  A write may be
lost, may be reported as failed although it was applied, or may store bytes that
do not decode (`WriteFaults`), and `MaxDamage` stored values may rot later.
`Create` is `deck_transaction_store_create`, with any subset of the keys
unreadable; `StageWrite`/`StageVerify` are `stage`; `CommitBegin` to
`EraseCandidate` are `commit` with its repair of a stale marker and its rollback;
`ClearBegin` to `ClearFinish` are `clear`.

The callers commit only what they staged since their last boot, commit or
clear (`staged`).  This is how every client of the store uses it, and the store
needs it: a candidate that survived a power loss after its own publication would
otherwise be published a second time under the generation its slot already has.

### CompanionProfiles, FailoverPolicy, CompanionFailover

A profile set is `[generation, list, active]`; `Pair`, `SelectActive`, `Revoke`,
`SetPriority` and `MarkActive` return the set the transaction publishes.  `Advance` is
`deck_companion_failover_advance`.  In `CompanionFailover` the user edits, the
clock advances (`Elapse`, relative to the policy's stamp), Companions become
reachable or not (`Reach`), and connections succeed (`FirstHeartbeat`) or fail.

### CompanionLink

One action is what the link task does between two lock operations.  The
connection is `client` (its transport generation, its peer, its phase),
`authority` is `transport_authority`, `queue` the events with the generation they
were stamped with.  `accept_heartbeat` is three steps: the commit (`FirstHeartbeat`), the snapshot
after the profiles' lock was released, which may fail, with the authority that follows it
(`HeartbeatObserve`, `HeartbeatObserveFails`), and the ONLINE state, published in a critical
section of its own (`HeartbeatOnline`).  `CopyBegin`/`CopyEnd` are the two
checks around the copy in `deck_companion_link_copy_ai_snapshot`.  Deadlines may
have passed at any loop, which is the clock's only effect here.

### SerialSession, SerialService, TransportFence

The session is a record and its operations return the next one.  `PressEnter`
and `EnqueueEnter` are the two halves of `enqueue` for KEY (the stop flag is tested
before the command is stamped and sent), `StopRequest`/`StopSend` those of
`deck_serial_service_stop`.  `Owner*` actions are one iteration of the owner task
on one command, on the session after its tick.  Input blocks carry the stamp the
code gives them; a block may take several writes (`SendUsb`, `SendWeb` with or
without a rest).  The driver may refuse to install or to uninstall.
`TransportFence` keeps of the session what the handshake changes, adds the link
task's places between its critical sections, and lets commands of other
producers fill the queue.  `Attach` comes from the application wherever the link task is;
its history variable `exposed` is the connection that may be opened behind a fence
raised over a revocation.

### OtaService

The worker task, the link task and the boot loader.  A worker iteration is split
wherever it touches what the link shares: the fence (an atomic word compared and
exchanged: `OfferBegin`, `CommitBegin`, `CommitFinish`, `AbortReopen`), the abort flag,
the command queue and the result queue.  `Abort*` of the link are the steps of
`deck_ota_service_abort_transport`, those of the worker the steps of
`abort_transport_transaction`; the guard's actions are those of the first boot of a
new image (`GuardExpires` rolls back, `GuardConfirmed` keeps it).  An image is a
version and the blocks written, a digest the blocks it covers; the signature is a
verdict of the offer.  The boot loader and `esp_ota` are external: modelled
from the calls made.  `dangling` says that the service points at a transaction it
destroyed; destroying it again is undefined, so the Deck may then reboot or carry
on.

### DeviceHub

Each connection's goroutine (`phase` is its place in `ServeHTTP` and
`serveConnection`) and the calls from outside: publish, revoke, rotate, close.
`sessions` and `disconnecting` are the maps of the hub; a connection that ends
holds its place until `OnDisconnect` has returned.  The snapshot signal is a
channel of capacity one (`signal`), filled after the lock is released (`pending`),
which is where a wakeup could be lost.

### ProtectedFile, Pairing

`File` is the set of contents a crash may leave: until the directory is synced the old
one is still possible.  `Replace` ends with one of the outcomes the code can
report, each with its content.  `Pairing` keeps memory (`Running`), the file, and the
codes and trusts as records of verifiers, devices and times.  Each operation is
one critical section of the store including its write; crash, restart and the
clock are actions of their own.  The verifier's pepper belongs to a process,
so a code issued before a restart matches nothing after it.

### SerialRing, SerialLease

`SerialRing`: a payload is its length, sequence numbers are modulo `Modulus` (for
2^64), each observer has ghosts counting what it was owed and what it got.
`SerialLease` runs the lease from browser to target: a handler decides under the
service's lock and writes after it, so `outbox` holds what was decided and is not
yet on the wire.  A request may be written again at any time after its first
attempt, answered or not.  On the Deck the owner generation is reduced to
`published`, whether it is still the one last reported: every change of owner
advances it.  A lease of ten minutes does not expire before its own result is
written (`Expire`), which is the only timing assumed.  The report in the hello
and the hub's handling of it are one step.

### ProviderSecrets

A definition is the set of its secret references.  A request's place is `task`:
it draws and reserves references in the vault (`Reserve`, under the vault's own
lock), journals them for deletion (`Stage`), writes each credential, publishes
the definition, and then deletes what was replaced or not used (`Remove`,
`CompleteCleanup`).  `Save` is the definition form, `Import` the backup's, which
replaces every definition.  The vault may refuse any call, the file may fail in any
way of `ProtectedFile`, and a crash keeps one of the contents the file may have.
`Reconcile` is what runs at the start and on retry.  The ghost `gambled` records
that a credential was deleted while the last rename was not synced; the code does
this knowingly when a commit reports an error after its rename.

### Installation

`root` holds the two files of the installation root and the contents a power
loss may leave, since `os.Remove` is never synced.  `op` is the command that holds
the root's lock, with its next step; an error after the journal is confirmed enters
`rollback`, which remembers errors and goes on, as the code does.  The two platform
adapters give the sets of states their partial failures leave: a LaunchAgent is
taken out before its template is replaced, a scheduled task is created before its
marker is written.  `Kill` may end a command at any step; the registration and the
data files survive it and a power loss as they are.  The Companion runs beside
(`app`) unless a command holds the single-instance lock.  The ghost `gambled`
records that a recovery acted on a journal which a power loss could still undo.

### SerialRouter, SerialDataPath

A block is its sequence number, the pool a set; `overwritten` keeps the numbers
of the blocks a sink lost, which the code counts.  The owner builds a path
(`Prepare`, `InstallDrivers`, `CreateTask`, `Start`, `PublishEntered`) and takes it
down (`RequestStop`, `Join`, `Remove`; `AbortJoin` and `AbortRemove` when the building
failed); each of these may fail or time out, and what is left stays for the next
attempt.  The router's mutex makes `submit`, `take` and `copy_after` one step each, but
a task takes a block in one step and uses it in another.  `Announce`, `HistoryRequest`,
`Replay`, `ReplayDone` and `TakeLive` are the link's end; `sent` is the last block on the
wire.

### WifiConfig, SetupService

`svc.pc` is the place of the service task: `Handle*` take one command from the queue,
`Tick` looks at the clocks, `Stop*` and `Start*` are `stop_network` and `start_network`,
each driver or server call a step that may fail.  The HTTP task admits a request
(`*Handler`) and queues its command (`EndRequest`), so the session may end in between.
The driver posts events that a task of its own turns into commands (`Deliver`), which is
where results get out of step with attempts.  `commits` is history: it records that a
candidate was committed on an address it did not get (`"blind"`), or after the
station had moved on (`"left"`).  A pair waits for its answer to be acknowledged before
the access point goes; the barrier's slots are the domain of `slots`.  A call that fails
keeps what its steps have done: `BootFails` may have configured or started the radio, and a
validation that does not begin may have cut the station off (`BeginningFails`).

### AiSnapshotStore

The link's `Apply` and the worker's steps share the fields under the mutex (`store`).
`Bootstrap` opens the storage first; `TakeCheckpoint`, `WriteAttempt`, `Commit` and
`Finish` are one round of the worker, `Reopen` what it does first after a failure.  The
flash is what `DurableRegister` promises: a commit that fails leaves the old record
or the new one.  `Restart` keeps `flash` only.  `attempts` is history.  How an opening ends is the
set `lost` of what could not be read: the storage, the active record, the candidate or the
record of the last attempt.  Without one of the first two records the
transaction store then refuses to be written, which the attempt finds out after it was
recorded (`Refused`).

### Application, DisplayService

`at` is the place of `app_main`, `have` the handles it has set; each step of the start
may fail and runs the undoing the code has for it, while callbacks of what was started
already run.  `Press` is the input task, `Receive` to `EnterSetup` the publisher
task, in the order the code looks at the buttons (`Order`); `commands` is the serial
service's queue reduced to what the application puts in, and a refused command is a
queue filled by others.  The ghosts number the presses: `revoked` is the newest BOOT
press whose exit was queued, `refused` the presses whose command was refused at first.

`DisplayService` has the UI task in its flush, the SPI engine (`dma`), its completion
interrupt in two steps (`InterruptTakes`, `InterruptCalls`) and the poll that may declare
a transfer late.  `glass` is the set of frames the panel may be showing: everything
until the first whole frame.

## 3. Runs

A run of several parts explores each of them from the initial states of all:
they share no variable, so nothing is gained or lost against separate runs
but one start of TLC.

| Run | Shows |
|---|---|
| `deck_faults` | *Store*, with every write fault, unreadable keys, one rotted value and generations that wrap: a power loss inside a commit leaves the old or the new record (`CommitIsAtomic`), only records some commit tried to publish are recovered (`OnlyPublishedRecovers`), memory agrees with what a boot would find (`MemoryMatchesFlash`). *Update*, with a damaged block among the chunks, aborts at every step of the worker, failing flash, reboots at any moment and the boot guard: only a whole, newer image whose transport was not aborted before its commit is selected, an unconfirmed image has one to roll back to, and a destroyed transaction takes no offer and no chunk (`UpdateIsSafe`); results and dropped commands never cross from one transport to the next (`TransportsAreApart`). *Link*, with edits of the profiles between any two of its lock sections: authority was given by a heartbeat of the connection that has it (`AuthorityIsHeard`); a heartbeat never overrides a user's later choice (`HeartbeatRespectsUser`); the UI never shows a document of an earlier connection as fresh (`FreshIsLive`). |
| `deck_parts` | *AI snapshots*: neither memory nor flash goes back to an older document (`NeverOlder`); attempts to write are an interval apart while storage obeys (`FlashIsSpared`). *Store*, with storage that fails but does not corrupt: it implements `DurableRegister` (`ImplementsRegister`). *Setup Mode*: between commands the station is on the committed network or the service remembers to bring it back, and no slot of the response barrier is lost (`DebtsAreRemembered`). |
| `deck_control` | *Serial service*: an authorised block belongs to the present owner (`AuthorisedIsOwner`), the pin is driven exactly while there is one (`PinFollowsOwner`), after a revocation nothing of the old transport is sent (`RevokedIsSilent`), an entry overtaken by BOOT never arms the target (`BootWins`), an expired lease is not revived (`ExpiredLeaseEnds`). *Application*: the same for presses, end to end (`BootRevokesKeys`); with nothing under way the screen shows whether TX is armed and the newest offset is used (`NewestIsShown`); no failed start leaves a callback into something that is gone (`CallbacksAreSafe`). *Display*: a frame is not written while it is read, no completion is lost, what is not marked for sending is on the panel (`FramesAreWhole`). *Serial output*: blocks are conserved and a path is released only when no task can reach it (`OutputIsSafe`); nothing is left out or repeated between replay and live output, after a failed write or over USB, but what the sink overwrote (`NoSilentHole`). |
| `deck_progress` | *Fence*: while a connection is open the lease is that connection's, but for one connection after the service was attached over a revocation (`LeaseOutlivesOnce`); a lowered fence rises whatever fills the queue (`FenceRises`). *Setup Mode*: a session that ended takes its access point down (`SetupCloses`), a BOOT press that was queued opens a session or ends in a visible error (`BootIsHonoured`), a validation ends (`ValidationEnds`). |
| `failover_reaches` | No profile is tried twice in a round and the order is the stored one (`RoundInOrder`); the active profile is left only after the offline window (`Sticky`); if one paired Companion stays the only reachable one, the Deck gets online with it (`EventuallyOnline`). |
| `device_hub` | A revoked or rotated trust ends its connection (`RevokedEnds`), closing drains (`CloseDrains`). |
| `companion` | *Pairing*: a code buys at most one trust through write failures and crashes, what was revoked or spent and reported so stays so, rotation never changes whose trust it is (`TrustIsEarned`). *Hub*, with two connections of two Decks: the serial hub last heard of a Deck through the connection that serves it (`ServedIsReported`), a publication never leaves a connection asleep with an older snapshot (`NoLostWakeup`). *Lease*, with retries, late results, expiry, a lost link or a restart: the holder shown is the browser the Deck's lease was granted for, when nothing is under way both ends agree, and no input reaches the target from a browser that was never granted a lease (`LeaseIsAgreed`). *Credentials*: a definition in memory or in what a restart may find has its credentials, and every credential in the vault is known to a definition or to the journal (`SecretsAreKept`). *Installation*: whenever a restart would find no journal, the registration is what the state says, and a rollback gives up its journal only when every data file is back (`InstallationIsWhole`). *Ring*: every lost byte is counted (`LossIsCounted`). |
| `link_edit_in_handover`, `flash_rate`, `setup_stale_result`, `installation_retry`, `attach_in_disconnect` | **Violations**, see findings. |

The `TypeOK`s of the store and of the serial service are proved; those of the
other modules document the variables and can be added to a cfg.

Every property of a passing run has a mutant in `PROJECT.json`: a plausible
mistake in one definition (defined next to it, named for the mistake) under
which TLC finds the property violated.

### Bounds

- Store: two payloads tell "old" from "new"; generations 1..3 wrap within two
  commits, so the wrapped case is the common one; one rotted value is as much
  as an A/B store can survive.
- OTA: two blocks, so that a transfer can stop in the middle and a last block
  can be repeated, early or damaged; two offers, one replacing the other; two
  transports, one abort between two boots; queues one deep so that they fill.
  One version above the installed one: an update, its first boot, and the same
  version offered again.
- Serial output: two sessions, so that a path may meet what the last one left; a
  pool of two blocks, a history of two over sinks of one, so that sinks overwrite
  while the history still holds the block; one failing call.
- AI snapshots: two contents, so that equal times differ; interval and offline limit
  two, three moments; one failing call, one restart, one clock set back.  A refused write
  takes two unreadable openings, so it is left to `DocumentsMoveForward` and `FlashIsRested`,
  which hold for any number of failures.
- Setup Mode: two networks, one committed and one submitted, a queue of two, two
  requests, one failing call and one undelivered event in `deck_parts`; for liveness one
  network and a queue of one, so that a command finds it full.
- Failover: three profiles are needed for a round that passes over one candidate
  and tries another; window 2 separates "not yet", "just" and "after".  Generations
  to 2 and a single heartbeat time, so that priorities and pairing order alone rank
  the candidates, since the behaviours are infinite.
- Link: two profiles (one to hand over from, one to), a queue of two instead of
  four so that it overflows, three transports and four generations: a handover
  with a stale event and two edits; four transports in `link_edit_in_handover`.
- Serial: two commands, one input block per queue, two sessions, two epochs, two
  requests, one revocation: every queue fills, every stamp can be one behind.
- Application: two presses or callbacks and one refused call: a KEY and a BOOT press in
  either order with the command of one of them refused, and each step of the start
  failing.
- Display: two areas, three flushes, two transfers that do not start: a recovery that
  itself fails.
- Fence: three transports, so that a lease can belong to the one before the
  last; four epochs; two foreign commands, enough to fill the queue of two.
- Hub: two connections and two snapshots; of one Deck with two versions of its trust in
  `device_hub`, of two Decks whose trust stays in `companion`.
  Decks meet only in the diagnostics rings, of which one is kept.
- Pairing: two devices, two code numbers, a clock of three instants with codes that
  last one, two codes, two starts, one trust as the limit.
- Ring: payloads of one and two bytes in a ring of four bytes and three frames, so
  that a frame may evict none, one or two; one observer at a time, so that the limit
  of observers is met; `Modulus` 6 wraps within the five frames.
- Credentials: one provider, so that every request replaces what another one
  wrote; two requests at once besides the start-up task; two references, each
  drawn once; a journal of one.
- Installation: two versions (a first installation and an upgrade), two data files
  (a migration or a restoration that stops half-way), one edit by the Companion;
  LaunchAgent in `companion`, the Task Scheduler in `installation_retry`, either in
  `InstallationStaysWhole`.
- Lease: two browsers, two request IDs, one lease granted, one session of the Deck, one
  lost link or restart, one message on the wire per direction; a second copy of a
  request waits in `outbox`.  One lease is enough for a late answer to meet the
  other browser's request, which after a restart has the same ID; that a second
  lease changes nothing is left to `LeaseStaysAgreed`.

Bounds on counters are guards of the actions that advance them, so the system
may stop at the bound: these runs do not check deadlock (`failover_reaches`, which
has no such end, does).  Profiles, payloads, contents, networks and browsers are
symmetric in the safety runs (nothing orders them but their position and
priority) and not in the runs that check liveness.

### Fairness

- `CompanionFailover`: weak fairness of the retry, of time and of the policy's
  tick (the link task's loop runs forever and its retry timer is armed while it
  is offline), weak fairness of the failure of a connection to a Companion that is
  away (the WebSocket client reports an error within its timeout), and strong
  fairness of the first heartbeat: a network that drops connections may do so any
  number of times, but not before the heartbeat every single time.  The user and
  the Companions' reachability have no fairness.
- `TransportFence`: weak fairness of the owner task (it drains its queue for as
  long as it runs) and of the link task's step inside a call; strong fairness of
  entering `ensure_serial_transport_revoked`, because the loop calls it in every
  iteration without a client even though another disconnect may come in between.
- `SetupService`: weak fairness of the service task, of the HTTP task once it has
  admitted a request, of the event task, and of the driver where it owes an event
  (the access point starting or stopping, a station that is connecting).  Strong
  fairness of the time-out of a validation: the task looks at the clock in every
  iteration, but commands may come in between.  Clients and BOOT have none.
- `DeviceHub`: weak fairness of each goroutine's step, strong fairness of each
  case of a `select`: Go picks among ready cases at random.  Devices, publishers
  and the user have none.

## 4. Findings and observations

Finding: *an edit inside a handover is not noticed* (`link_edit_in_handover`).
`accept_heartbeat` marks the profile active under the profiles' lock and takes
its snapshot after releasing it.  A pairing or revocation in between looks like
the result of the link's own commit, so the link takes the new generation as
its own and gives the transport the authority although its credential was
replaced or removed.  ADR 0022 says an edit cancels an in-flight decision.  The
link stays on the old credential until the transport ends.

Finding: *a network committed on another one's address* (`setup_stale_result`).
The event that the station got an address carries no name of the attempt.  One
that waits in the command queue while the next network is staged commits that
network, which was never tried; `firmware/README.md` and ADR 0004 say a network
becomes active only after it was validated.

Finding: *a failed attempt is forgotten* (`flash_rate`).  On reopening, the
store takes the time of the last attempt back from flash while a checkpoint of
a newer attempt is in hand.  If recording that attempt then fails, the next document
is written at once; `firmware/README.md` promises one attempt, failed ones
included, per 30 minutes.  `FlashIsSpared` shows that it takes a failure.

Finding: *a rollback that can never succeed* (`installation_retry`).  On Windows
`Remove` deletes the scheduled task first and its marker second, and a failing
deletion is an error whenever the marker exists.  If the marker outlives the task
(its removal fails, the command is killed in between, or `Configure` deletes the
task again over an existing marker), no later `Remove` can succeed: the rollback of a
first installation keeps its journal and every later command fails.  ADR 0025
says the journal stays "for an idempotent retry".

Finding: *attaching the serial service inside a disconnect* (`attach_in_disconnect`).
`disconnect_transport` lowers the fence and asks for the revocation in two critical
sections.  `app_main` starts the link first and attaches the serial service to it later;
`deck_companion_link_attach_serial` between the two raises the fence, and the revocation
leaves its epoch pending behind it.  The next connection may be granted a lease; its
disconnect finds a revocation pending and asks for none, the acknowledgement of the old one
is taken for it, and a new connection opens while the lease holds.  ADR 0022 says that
a disconnect waits for the revocation before the replacement is opened.
`LeaseOutlivesOnce` bounds it: the disconnect after that asks again.

Observations made while modelling; none is the subject of a run of the project.

- *A transaction destroyed twice* (`dangling` in `OtaService`).  When an offer replaces a
  finished transaction, the worker destroys the old one before it begins the new
  one.  If an abort makes the beginning fail, the service still points to the destroyed
  transaction and the abort destroys it again.  `UpdateIsSafe` bounds the damage: a
  destroyed transaction takes no offer and no chunk.
- *A failed retry leaves a half-written slot selected* (`OtaService`).  An update is
  selected, its result is lost to an abort, the Deck does not restart; a second
  offer erases the selected slot and then fails.  The boot loader then passes over the
  damaged slot, which is why `RollbackPossible` holds all the same.
- *Input of an earlier holder under a later lease* (`InputIsHolders` in `SerialLease`, which
  TLC refutes with two leases and three request IDs).  A Web frame names no lease and is
  written after the lock that checked it; delayed past the end of its lease and a new grant,
  it is submitted under the new one.  ADR 0020 says that raw Web input is accepted only from
  the exact lease holder.  What does hold is `StrangersAreSilent`: the sender once had a lease.
- *A refused KEY press outlives BOOT* (`OlderKeysAreRejected` in `Application`, which TLC
  refutes with two presses and one refusal).  An entry that a full queue refused is retried
  with the control epoch of the day, so it can arm the target after a later BOOT exit;
  `firmware/README.md` says an exit rejects any older KEY entry.  `BootRevokesKeys` states
  what holds: an entry that was not refused is rejected.
- *A flag that sticks* (`requested` in `Application`).  After an installation that failed,
  `application_serial_requested` may stay set: KEY and BOOT long presses are
  swallowed until a BOOT short press.  The converse also happens: an entry is in
  the queue while the flag is clear, and Setup Mode is entered.
- *An exit that is not retried* (`QueueExit` in `Application`).  If the queue refuses an exit
  and another BOOT event follows, only the newer one is handled; the control epoch is
  then ahead of the session's, and KEY entries are stale until the next BOOT
  short press.
- *A station that is not brought back* (`SetupService`).  When `start_network` fails early,
  the station stays without its network and nothing retries, unless a session
  is opened again.  An overflow of the command queue may drop the disconnect of the
  committed network, with the same effect.
- *A pair closes the session of a validation* (`SetupService`).  A pair that completes while
  a validation runs ends the session; the validation goes on without a page, and its
  success is published after the access point is gone.
- *A clear that outlives its session* (`SetupService`).  The confirmation is bound to a
  session, the command that was queued for it is not.
- *A block before its session* (`SerialDataPath`).  The link may send a block of a new
  session before it has announced it; `firmware/README.md` describes the announcement
  first.
- *A recovery reverts what was saved since* (`Installation`).  The Companion does not look
  at the journal when it starts.  After an interrupted installation it may run and
  save; the next command, `--uninstall` included, first recovers and puts the older
  files back.
- *Retired credentials deleted after an unconfirmed commit* (`gambled` in
  `ProviderSecrets`).  When the replacement of the definitions reports an error after
  the rename, the import still deletes the credentials it retired; a power loss that
  undoes the rename brings back a definition without its credential.
- *A recovery without memory* (`AiSnapshotStore`, not modelled).  When the buffer for the
  recovered document cannot be allocated, `load_persisted_snapshot` returns without reading
  anything, so neither the committed document nor the time of the last attempt is known.
  If that happens at an opening and again when the storage is reopened, a checkpoint
  older than the document in flash could replace it.
- *A journal that failed and is acted upon* (`gambled` in `Installation`).  A journal
  whose write reported an error after its rename is left in place, and the next
  command rolls back from it; a power loss during that rollback may lose it.

## 5. Proofs

Every theorem is proved for every value of the constants that the `ASSUME`s allow, so
for any depth, number of connections, restarts, faults and so on; the bounds of
section 3 only serve TLC.  Each inductive invariant was run through TLC before it
was proved.

`DeckFaultsProofs`, about the store (assumption: `StoreAssumption`, which fixes nothing but
that the markers for absent and undecodable values are distinct from records and
that at least three generations exist):

- `TypeCorrect`: `Spec => []TypeOK`.
- `OnlyPublished`, `Atomic`, `MemoryMatches`: the invariants of `deck_faults`.
- `StoreIsRegister`: the refinement of `DurableRegister`, on storage that does
  not rot and does not report success for bytes that do not read back (`Honest`:
  `MaxDamage = 0`, no `"corrupt"` in `WriteFaults`).  `MCDeckParts` checks the same
  refinement on a small instance with the same two constants.

None of the three invariants is inductive.  What a boot would recover depends on the
generations of both slots and of the marker, so the invariant says at each `pc`
which slot the marker names, which generation each slot may hold, and how these
follow from the memory of the store: while a commit writes the slot that is not
active, no marker of that generation exists; when the marker is written, the slot
has been read back; the slot being overwritten never carries the new generation.
The proof has one lemma per action; the facts about `Selected` and
`Previous` (what `load` picks) are lemmas about operators and leave the
state out.  The refinement adds `Faithful`: memory is what a boot would find at
every step but between the write of the marker and its verification or withdrawal.

About OTA (assumption `OtaAssumption`: lengths, versions and offsets are natural numbers,
the command queue has room for one, the marker of no transaction is not one):

- `UpdateStaysSafe`: `UpdateIsSafe`, two invariants and two action properties.
- `TransportsStayApart`: `TransportsAreApart`.

Neither is inductive: what the worker may do next rests on words the link task writes.
`OtaInv` says, for each step of the worker and of the link: the slot being written holds what the
digest has covered and the transaction has a newer version (`ImageGrows`); the fence is
committing exactly while the boot slot is being selected, and an aborting fence has an abort
the worker still owes or is carrying out (`FenceHolds`); commands are of the present transport
or of an earlier one, and the worker meets a pending abort before any command of the
transport after it (`QueueHolds`, `WorkerHolds`); offers are taken in the order they came, so
that an ID that was cancelled never becomes active again (`OffersInOrder`); and once an abort
was answered no result of an earlier transport is left (`ResultsHold`).

`DeckControlProofs`, about the serial service (assumptions `LeaseAssumption` and
`ServiceAssumption`: the bounds are natural numbers, a lease lasts):

- `TypeCorrect`: the types and the queue's limit.
- `OneOwner`: `AuthorisedIsOwner`.  It is inductive only together with the
  typing and the next one: the generation of ownership advances on each change
  of owner, and each change clears the block being sent.
- `PinSafe`: `PinFollowsOwner`.
- `RevocationIsFinal`: `RevokedIsSilent`.  The invariant `Ordered` follows the queue:
  `Order` says that no exit or stop stands behind an entry and that an entry that was
  overtaken has an exit of a newer epoch ahead of it or has lost to one already
  obeyed; `Revocations` that a request that waits was made under the newest
  revocation queued before it; `LeaseIsAsked` that the lease was asked for under
  the revocation the owner acknowledged last.
- `ExitBeatsEntry`: the action property `BootWins`, from the same invariant.
- `DeadlineHolds`: the action property `ExpiredLeaseEnds`.

About the display (no assumption on `Areas`):

- `FramesStayWhole`: `FramesAreWhole`.  The invariant says that a transfer is in exactly
  one of four places (read by the engine, its interrupt raised, its callback taken,
  its completion reported) and which buffer the panel shows in each.

About the application (assumption `MailboxAssumption`: an empty mailbox is told from a
message):

- `CallbacksStaySafe`: `CallbacksAreSafe`, from `AppPhases`: which tasks run, and on which
  handles, at each step of the start.
- `ScreenCatchesUp`: `NewestIsShown`.  The invariant says it for the moments in between:
  the newest model is shown, waits in the UI's mailbox, or somebody is about to publish it
  (`ModelShown`); what the owner reported last is in the view's mailbox, in the view's
  hand, or in the model (`OwnerTold`); the monitor has the newest offset, or
  Setup Mode's callback is on its way with it (`OffsetKept`).
- `BootStaysRevoking`: `BootRevokesKeys`.  Two arguments meet in the invariant `PressInv`.
  The snapshots in view (the monitor's, the one in the mailbox, the publisher's) are a
  line (`Lineage`): a KEY press that an older one does not have came after every press it
  has.  So when the publisher queues an exit, a KEY press it has not asked for is newer
  than that BOOT press, or was refused (`Stage`, `AskersUnrevoked`).  And the owner's
  queue is in line (`InLine`): exits before entries, entries in the order of their
  presses, none of them taken before (`EntriesServed`); an entry that was revoked has an
  epoch older than the owner's, or than that of an exit still in front of it
  (`EntriesRevoked`), so the owner finds it stale.

About the target's output (assumption `OutputAssumption`: the pool and the sinks are
finite, every sink holds at least one block and none more than the history, and the
history fits into the pool, which is what `register_sink` checks and what the sizes in
`register_data_sinks` and `prepare_data_path` give):

- `OutputStaysSafe`: `OutputIsSafe`.  Counting references is not inductive by itself: the
  invariant `RouterInv` says that every sink's queue is the end of the history's
  (`Suffixes`), that the history holds the newest blocks without a gap (`Numbered`), that
  a block's count is the number of sinks that hold it and it is free exactly when that
  is none (`Counted`), and that what left the history was overwritten in it
  (`Remembered`).  A block is then twice in no queue, so a drop takes away one reference
  per sink; and a history with room holds fewer blocks than the pool, so once
  `MakeRoom` is done one is free and `submit` never fails for want of a block.
  `OutputPhases` adds what is left of a path at each step of its owner.
- `OutputHasNoHole`: the action property `NoSilentHole`.  `Position` is the number of the
  newest block gone from a sink.  Between the last block sent and the `Position` of the
  link's sink everything was overwritten there, once the replay has ended
  (`LiveFollows`), and likewise for the block USB is writing (`UsbFollows`); a replay's
  cursor is the last block sent (`SentKept`), and a router left over from a start that
  was aborted has no output that could be taken for that of the next session
  (`SessionKept`).

`TransportFenceProofs`:

- `LeaseFollowsTransport`: `LeaseOutlivesOnce`, from no assumption.  Once the exposed
  connection has been replaced, or if there was none (`Settled`), behind a raised fence the
  lease, and every request that waits with the present epoch, are of a connection that may
  hold it (`Raised`, `MayHold`), and while a revocation is under way no such request waits and
  the lease is gone once it is acknowledged (`Revoking`).  Until then the service was attached
  only just now, so every request is of the exposed connection (`Connected`), and when that
  is gone the fence rises with nothing left pending (`Exposed`): the next disconnect asks again.

`DeckPartsProofs`, about the snapshots (assumption: `SnapshotBounds`, the intervals are positive):

- `DocumentsMoveForward`: the action property `NeverOlder`.
- `FlashIsRested`: `FlashIsSpared`.

The invariant follows a checkpoint from the queue to the end of its commit: what is
queued, or in the worker's hand, is newer than what flash holds, since nothing else can
be queued while the worker is busy and storage that failed is opened again before
anything is written (`Handover`, `Newer`).  `Recorded` adds that without
faults the record in flash is that of the last attempt and that nothing is queued
without an interval since it.

About Setup Mode (assumption `HandlerAssumption`: a request is told from the absence of one):

- `DebtsStayRemembered`: `DebtsAreRemembered`, on the instance of `MCDeckParts`, whose Setup
  Mode starts on sound storage without a candidate.  `SetupInv` says at each place of the
  task, in the middle of a stop or of a start too, that the station is for the committed network
  or `restore_pending` is set, except before the first connection, on a dead task and during the
  first session's stop, which finds nothing to stop; and that whoever took a slot of the
  response barrier (handler, queue, task) still has its pair.

`CompanionProofs`, about the hub (assumption `CompanionAssumption`: no connection is called
`None`; a browser is neither the start-up task nor nobody):

- `ReportsAreOrdered`: `ServedIsReported`.
- `WakeupsAreKept`: `NoLostWakeup`.

The invariant ties each phase of a connection to the hub's maps: who holds a Deck is in
`sessions`, who says goodbye is in `disconnecting`, and no Deck is in both; a connection
whose document is not the latest, or will not be when its write is done, has a
token or is on the list of a publisher.

About pairing (assumption `PairingAssumption`: the limits are positive, no Deck is called
`None`):

- `TrustStaysEarned`: `TrustIsEarned`.  A crash may bring back any content the file may hold,
  so `PairInv` says of each of them, not only of memory, that its codes and tokens are told
  apart, that none of its codes has bought a credential and that none of its tokens is dead.

About the credentials (the same `CompanionAssumption`):

- `SecretsStayKept`: `SecretsAreKept`.  `SecretsInv` says of every content a crash may leave that
  the journal and the definitions name different references and that each credential in the
  vault, or about to be written, is in one of them (`DocIsSound`); of each edit that what it
  will publish was in what it read or was written by itself (`EditIsSound`), that nobody else has
  drawn or cleans its references (`Apart`), and of each cleanup that what it is about to delete
  is in no definition (`CleanIsSound`).

About the installation (assumption `InstallAssumption`: `None` is no version, state or
journal; `NumFiles` is a natural number):

- `InstallationStaysWhole`: `InstallationIsWhole`.  `InstallInv` says at each step of a
  transaction, forward and back, what it has achieved (`Achieved`) and that every content a power
  loss may leave holds its journal (`JournalIsKept`); a content without a journal tells the
  registration (`ContentIsSound`), and data goes back file by file before anything else does,
  with the Companion fenced off (`DataGoesBack`, `OpIsSound`).  What concerns the registration
  holds unless a recovery acted on a journal that was never synced (`unsure`), as in the
  property.

About the Web TX Lease (no assumption):

- `LeaseStaysAgreed`: `LeaseIsAgreed`.  That the two ends agree when nothing is under way says
  nothing of the moments in between, so `LeaseInv` follows what is under way.  A
  request, wherever it is, is of this process and the pending one asks what the lease says
  (`MessagesHold`); an answer to it was granted to the lease's browser and has the owner asked for
  (`ResultsHold`); the last state report under way, or the last one heard, is the Deck's
  present state (`ReportsHold`); a grant stands until a report follows it (`GrantsHold`).
  While the target is the browser's, the result that names the lease is owed by the Deck, under
  way, or known, or the Companion has asked for the target back and has not been answered
  (`WebHolds`); without it and with nothing asked the Companion shows what was reported
  (`UsbHolds`).  IDs start again with a new process: what the Deck still has of the old one is
  covered by the link, which the restart has cut (`Linked`, `Served`).

About the serial ring (assumption `RingAssumption`: what `NewRing` insists on, room for a
frame, and lengths that are natural numbers):

- `LossStaysCounted`: `LossIsCounted`.  `RingInv` says that the frames retained are the last ones
  ingested, without a gap (`InOrder`), so that what an observer is past is a prefix of them,
  and that what was owed to it is what it got, what it was told it lost and the bytes after
  that prefix (`Accounted`).  Eviction, a read and a new frame each move the prefix; that the
  sums then agree (`SumsMove`) is an induction over the frames, made from the least number of
  frames for which it would fail (`LeastNumber`), since the induction theorems of the library take
  an operator.  Ordinals are natural numbers here: the code's would wrap after 2^64 frames,
  which no session reaches.

`FailoverPolicyProofs` has no theorem of its own: it proves what the edits of
`CompanionProfiles` and each branch of `Advance` return, for lists of any length
(`WindowAssumption`, `ProfilesAssumption`).

`CompanionFailoverProofs` (also `FailoverAssumption`):

- `RoundsKeepTheOrder`: `RoundInOrder`.  The invariant adds that every candidate
  tried is marked as attempted and preferred to all that are not.
- `LinkIsSticky`: the action property `Sticky`.

`CompanionLinkProofs` (the same assumptions on profiles and window; the runs have `OfflineWindow = 0`,
the abstraction of time in `CompanionLink`, where a tick may always be the one that ends the window):

- `AuthorityIsEarned`: `AuthorityIsHeard`.
- `UserIsRespected`: the action property `HeartbeatRespectsUser`.
- `FreshnessIsLive`: the action property `FreshIsLive`.

`Wire` ties the transport in place to its client, its credential and the events queued
for it: one of the present generation comes from the client in place.  `Policy`
orders the three views of the profiles: the target's generation is at most the
observed one, that at most the stored one, equal generations mean equal contents,
and whenever a heartbeat could commit, the credential in use is the target's.

Only model-checked:

- all liveness properties (`FenceRises`, `SetupCloses`, `BootIsHonoured`, `ValidationEnds`,
  `EventuallyOnline` and the others under fairness): fairness and the enabledness it
  rests on are out of the prover's reach.

`ImplementsRegister` is checked by `MCDeckParts` beside other parts; `StoreIsRegister` states it for
the store alone.

## 6. Plan

Done: the store and its abstract register; profiles, failover, link; serial
session, owner task, data path, fence; OTA on the Deck; Wi-Fi configuration and Setup
Mode; AI snapshot store; application and display; the Companion's hub, pairing, serial
ring and lease, provider credentials and installation; the theorems of section 5.
Every safety property a passing run checks is also a theorem.

### Not modelled

- The formatting of pages, fonts and layouts, the parsers of the AI documents and of
  other tools' output, JSON and HTTP surfaces, archives and their encryption: data
  formats without protocol state.
- Diagnostics: counters and a ring behind one lock, which a unit test reaches.
- The Companion's OTA sender: `OtaService` takes chunks repeated, in any order and mixed
  between offers, so it assumes nothing of who sends them.
- The Companion's history: retention and aggregation are SQL transactions.
- Runtime wiring, trays, keychains, drivers, the debouncing of buttons: calls into an
  operating system or into hardware.
- Blocking times: a lock section is one step, so the seconds for which pairing holds
  the profiles' mutex over the network do not appear.
