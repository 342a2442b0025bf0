---------------------------- MODULE SerialDataPath ----------------------------
(***************************************************************************)
(* Target output on the Deck, from the UART to the wire.  The serial owner *)
(* builds a data path for each session and takes it down again; four tasks *)
(* run on it: one reads the UART into ingress blocks, one routes them, two *)
(* serve USB (the one for input only has its lifetime here; what it does   *)
(* is in SerialService).  The Companion link takes blocks from the WSS     *)
(* sink, or replays the retained history when the Companion asks.          *)
(*                                                                         *)
(* The path goes away in steps that may each time out or fail; what is     *)
(* left is kept for the next attempt.                                      *)
(***************************************************************************)
EXTENDS SerialRouter

CONSTANTS
    Ingress,       \* kInputBlockCount
    BlockWrites,   \* writes a block takes to go out over USB
    MaxSessions,   \* bound: sessions entered
    MaxBlocks,     \* bound: blocks routed in a session
    MaxFailures    \* bound: calls and waits that fail

\* The readers' sinks are registered beside the history.
PathBounds ==
    /\ RouterBounds /\ {"usb", "wss"} \subseteq Sinks \ {Retained}
    /\ Ingress \in Nat

VARIABLES
    owner,      \* where the serial owner is, and whether it is entering
    snapshot,   \* the session the service reports, 0 when disarmed
    latest,     \* the last session entered
    path,       \* stop_requested, the start bit and the drivers
    task,       \* each task: none, created, running, stopped
    router,     \* the router, or NoRouter
    ingress,    \* free and filled ingress blocks, and the one being routed
    usb,        \* the bridge's pending block, its writes so far, the last one out
    link,       \* the link: the session it announced, its gate and its replay
    sent,       \* the last block it sent: its session and sequence
    failures

vars == <<owner, snapshot, latest, path, task, router, ingress, usb, link, sent, failures>>

NoRouter == [session |-> 0]
Tasks == {"rx", "router", "usb_out", "usb_in"}
Alive == {t \in Tasks : task[t] # "none"}

NoPath == [stop |-> FALSE, start |-> FALSE, uart |-> FALSE, usb |-> FALSE]
NoTasks == [t \in Tasks |-> "none"]
NoIngress == [free |-> 0, filled |-> 0, hand |-> 0]
NoUsb == [block |-> 0, writes |-> 0, out |-> 0]

Fails == failures < MaxFailures /\ failures' = failures + 1
Succeeds == UNCHANGED failures

KeepOwner == UNCHANGED <<owner, snapshot, latest, path>>

-----------------------------------------------------------------------------
\* The owner builds a data path.

Goes(pc) == owner' = [owner EXCEPT !.pc = pc]
KeepPath == UNCHANGED <<path, task, router, ingress, usb>>

\* enter: what an earlier session left behind is taken down first.
Enter ==
    /\ owner.pc = "idle" /\ snapshot = 0 /\ latest < MaxSessions
    /\ owner' = [owner EXCEPT !.pc = IF owner.installed THEN "stop" ELSE "prepare",
                              !.entering = TRUE]
    /\ KeepPath /\ UNCHANGED <<snapshot, latest, link, sent, failures>>

\* An installation that fails is cleaned up like a session that ends.
Fall == owner' = [owner EXCEPT !.pc = "stop", !.entering = FALSE]

\* prepare_data_path: nothing may be left of an earlier path.
Prepare ==
    /\ owner.pc = "prepare"
    /\ LET clean == router = NoRouter /\ Alive = {} IN
       \/ /\ clean /\ Succeeds
          /\ router' = NewRouter(latest + 1)
          /\ ingress' = [NoIngress EXCEPT !.free = Ingress]
          /\ path' = NoPath /\ usb' = NoUsb
          /\ Goes("drivers")
       \/ /\ IF clean THEN Fails ELSE Succeeds
          /\ Fall /\ UNCHANGED <<router, ingress, path, usb>>
    /\ UNCHANGED <<snapshot, latest, task, link, sent>>

InstallDrivers ==
    /\ owner.pc = "drivers"
    /\ \/ Succeeds /\ path' = [path EXCEPT !.uart = TRUE, !.usb = TRUE] /\ Goes("create")
       \/ /\ Fails /\ Goes("abort")
          /\ \E uart \in BOOLEAN : path' = [path EXCEPT !.uart = uart]
    /\ UNCHANGED <<snapshot, latest, task, router, ingress, usb, link, sent>>

CreationOrder == <<"router", "rx", "usb_out", "usb_in">>
NextTask == LET missing == {i \in 1..4 : task[CreationOrder[i]] = "none"}
            IN CreationOrder[CHOOSE i \in missing : \A j \in missing : i <= j]

CreateTask ==
    /\ owner.pc = "create" /\ Alive # Tasks
    /\ \/ Succeeds /\ task' = [task EXCEPT ![NextTask] = "created"] /\ UNCHANGED owner
       \/ Fails /\ Goes("abort") /\ UNCHANGED task
    /\ UNCHANGED <<snapshot, latest, path, router, ingress, usb, link, sent>>

\* Every task has reported that it waits for the start bit, or the wait for
\* that times out.
Start ==
    /\ owner.pc = "create" /\ Alive = Tasks
    /\ \/ /\ Succeeds
          /\ path' = [path EXCEPT !.start = TRUE]
          /\ Goes("entered")
       \/ Fails /\ Goes("abort") /\ UNCHANGED path
    /\ UNCHANGED <<snapshot, latest, task, router, ingress, usb, link, sent>>

\* The service reports the session only after its path runs.
PublishEntered ==
    /\ owner.pc = "entered"
    /\ owner' = [pc |-> "idle", entering |-> FALSE, installed |-> TRUE]
    /\ latest' = latest + 1 /\ snapshot' = latest + 1
    /\ KeepPath /\ UNCHANGED <<link, sent, failures>>

-----------------------------------------------------------------------------
\* The owner takes a data path down.

Exit ==
    /\ owner.pc = "idle" /\ owner.installed
    /\ Goes("stop")
    /\ KeepPath /\ UNCHANGED <<snapshot, latest, link, sent, failures>>

\* stop_data_path_tasks asks every task to stop and waits for all of them.
RequestStop ==
    /\ owner.pc \in {"stop", "abort"}
    /\ path' = [path EXCEPT !.stop = TRUE]
    /\ Goes(IF owner.pc = "stop" THEN "join" ELSE "abort_join")
    /\ UNCHANGED <<snapshot, latest, task, router, ingress, usb, link, sent, failures>>

AllStopped == \A t \in Alive : task[t] = "stopped"

\* The session has been left: what could not be taken down stays installed.
Left(uninstalled) ==
    /\ owner' = [owner EXCEPT !.pc = IF uninstalled /\ owner.entering THEN "prepare" ELSE "idle",
                              !.entering = @ /\ uninstalled,
                              !.installed = ~uninstalled]
    /\ snapshot' = 0

\* Mutant of Join: the wait's timeout is ignored.
JoinImpatient ==
    /\ owner.pc = "join" /\ Goes("remove")
    /\ IF AllStopped THEN Succeeds /\ task' = NoTasks ELSE Fails /\ UNCHANGED task
    /\ UNCHANGED <<snapshot, latest, path, router, ingress, usb, link, sent>>

\* A task that does not stop in time keeps the whole path.
Join ==
    /\ owner.pc = "join"
    /\ \/ AllStopped /\ Succeeds /\ task' = NoTasks /\ Goes("remove") /\ UNCHANGED snapshot
       \/ ~AllStopped /\ Fails /\ Left(FALSE) /\ UNCHANGED task
    /\ UNCHANGED <<latest, path, router, ingress, usb, link, sent>>

\* While starting, a task that has not stopped has not seen the start bit and
\* is deleted.
AbortJoin ==
    /\ owner.pc = "abort_join"
    /\ IF AllStopped THEN Succeeds ELSE Fails
    /\ task' = NoTasks /\ Goes("abort_remove")
    /\ UNCHANGED <<snapshot, latest, path, router, ingress, usb, link, sent>>

\* The USB driver goes first, then the UART driver, then the allocations.
DriverStays ==
    /\ Fails
    /\ \/ path.usb /\ UNCHANGED path
       \/ path.uart /\ path' = [path EXCEPT !.usb = FALSE]

Released == /\ router' = NoRouter /\ path' = NoPath
            /\ ingress' = NoIngress /\ usb' = NoUsb

Remove ==
    /\ owner.pc = "remove"
    /\ \/ Released /\ Succeeds /\ Left(TRUE)
       \/ Released /\ Fails /\ Left(FALSE)          \* the pin was not given up
       \/ /\ \/ DriverStays
             \/ Fails /\ path' = [path EXCEPT !.usb = FALSE, !.uart = FALSE]
          /\ Left(FALSE) /\ UNCHANGED <<router, ingress, usb>>
    /\ UNCHANGED <<latest, task, link, sent>>

AbortRemove ==
    /\ owner.pc = "abort_remove"
    /\ \/ Released /\ Succeeds
       \/ DriverStays /\ UNCHANGED <<router, ingress, usb>>
    /\ Fall
    /\ UNCHANGED <<snapshot, latest, task, link, sent>>

-----------------------------------------------------------------------------
\* The tasks.

Running(t) == task[t] = "running" /\ ~path.stop

TaskStarts(t) ==
    /\ task[t] = "created" /\ path.start /\ ~path.stop
    /\ task' = [task EXCEPT ![t] = "running"]
    /\ KeepOwner /\ UNCHANGED <<router, ingress, usb, link, sent, failures>>

TaskStops(t) ==
    /\ task[t] \in {"created", "running"} /\ path.stop
    /\ t = "router" => ingress.hand = 0
    /\ task' = [task EXCEPT ![t] = "stopped"]
    /\ KeepOwner /\ UNCHANGED <<router, ingress, usb, link, sent, failures>>

\* receive_uart_data; without a free block the bytes are read and dropped.
Receive ==
    /\ Running("rx") /\ ingress.free > 0
    /\ ingress' = [ingress EXCEPT !.free = @ - 1, !.filled = @ + 1]
    /\ KeepOwner /\ UNCHANGED <<task, router, usb, link, sent, failures>>

TakeFilled ==
    /\ Running("router") /\ ingress.hand = 0 /\ ingress.filled > 0
    /\ ingress' = [ingress EXCEPT !.filled = @ - 1, !.hand = 1]
    /\ KeepOwner /\ UNCHANGED <<task, router, usb, link, sent, failures>>

ReturnInputBlock == ingress' = [ingress EXCEPT !.hand = 0, !.free = @ + 1]

Submit ==
    /\ task["router"] = "running" /\ ingress.hand = 1
    /\ router.last < MaxBlocks
    /\ router' = Submitted(router)
    /\ ReturnInputBlock
    /\ KeepOwner /\ UNCHANGED <<task, usb, link, sent, failures>>

\* install_target_uart holds the router's semaphore while it builds the path.
RouterHeld == owner.pc \in {"prepare", "drivers", "create", "abort", "abort_join", "abort_remove"}
Available == router # NoRouter /\ ~RouterHeld

\* pump_output: a block is taken and written piece by piece; what is left of it
\* waits while the host does not read or is gone.
UsbTake ==
    /\ Running("usb_out") /\ usb.block = 0
    /\ Available /\ ~IsEmpty(router, "usb")
    /\ usb' = [usb EXCEPT !.block = Front(router, "usb")]
    /\ router' = Taken(router, "usb")
    /\ KeepOwner /\ UNCHANGED <<task, ingress, link, sent, failures>>

UsbWrite ==
    /\ task["usb_out"] = "running" /\ usb.block # 0
    /\ usb' = IF usb.writes + 1 < BlockWrites THEN [usb EXCEPT !.writes = @ + 1]
              ELSE [block |-> 0, writes |-> 0, out |-> usb.block]
    /\ KeepOwner /\ UNCHANGED <<task, router, ingress, link, sent, failures>>

-----------------------------------------------------------------------------
\* The Companion link.

Offline == [online |-> FALSE, announced |-> 0, ready |-> FALSE, active |-> FALSE,
            replayed |-> 0, cursor |-> 0]
NothingSent == [session |-> 0, sequence |-> 0]
KeepDeck == KeepPath /\ UNCHANGED <<owner, snapshot, latest, failures>>

\* send_hello announces the session; live output flows at once only when there
\* is none.
Announced == [Offline EXCEPT !.online = TRUE, !.announced = snapshot, !.ready = snapshot = 0]

Connect ==
    /\ ~link.online /\ link' = Announced
    /\ KeepDeck /\ UNCHANGED sent

Close ==
    /\ link.online /\ link' = Offline
    /\ KeepDeck /\ UNCHANGED sent

\* send_serial_state_if_changed
Announce ==
    /\ link.online /\ link.announced # snapshot
    /\ link' = Announced
    /\ sent' = IF snapshot = 0 THEN NothingSent ELSE sent
    /\ KeepDeck

\* serial.history.request: the Companion asks for what follows its newest block
\* of the session announced to it; a session that is gone closes the link.
HistoryRequest ==
    /\ link.online /\ snapshot # 0 /\ link.announced = snapshot
    /\ \E after \in 0..(IF sent.session = snapshot THEN sent.sequence ELSE 0) :
          /\ link' = [link EXCEPT !.ready = TRUE, !.active = TRUE,
                                  !.replayed = snapshot, !.cursor = after]
          /\ sent' = [session |-> snapshot, sequence |-> after]
    /\ KeepDeck

Streaming == link.online /\ link.ready
Send(block) == sent' = [session |-> router.session, sequence |-> block]

\* A replay ends where the history does; it fails when the session is another.
ReplayDone ==
    /\ Streaming /\ link.active /\ Available
    /\ CopyAfter(router, link.cursor) = 0
    /\ link' = [link EXCEPT !.active = FALSE]
    /\ KeepDeck /\ UNCHANGED sent

Replay ==
    /\ Streaming /\ link.active /\ Available
    /\ router.session = link.replayed
    /\ LET block == CopyAfter(router, link.cursor) IN
          /\ block # 0
          /\ Send(block) /\ link' = [link EXCEPT !.cursor = block]
    /\ KeepDeck

\* A live block that was replayed already is dropped; one whose sending fails
\* is gone from the sink and closes the link.
TakeLive ==
    /\ Streaming /\ ~link.active /\ Available /\ ~IsEmpty(router, "wss")
    /\ LET block == Front(router, "wss")
           old == sent.session = router.session /\ block <= sent.sequence
       IN \/ old /\ Succeeds /\ UNCHANGED <<link, sent>>
          \/ ~old /\ Succeeds /\ Send(block) /\ UNCHANGED link
          \/ ~old /\ Fails /\ link' = Offline /\ UNCHANGED sent
    /\ router' = Taken(router, "wss")
    /\ KeepOwner /\ UNCHANGED <<task, ingress, usb>>

-----------------------------------------------------------------------------
Init ==
    /\ owner = [pc |-> "idle", entering |-> FALSE, installed |-> FALSE]
    /\ snapshot = 0 /\ latest = 0
    /\ path = NoPath /\ task = NoTasks /\ router = NoRouter
    /\ ingress = NoIngress /\ usb = NoUsb
    /\ link = Offline /\ sent = NothingSent /\ failures = 0

Owner ==
    \/ Enter \/ Prepare \/ InstallDrivers \/ CreateTask \/ Start \/ PublishEntered
    \/ Exit \/ RequestStop \/ Join \/ AbortJoin \/ Remove \/ AbortRemove

Task ==
    \/ \E t \in Tasks : TaskStarts(t) \/ TaskStops(t)
    \/ Receive \/ TakeFilled \/ Submit \/ UsbTake \/ UsbWrite

Link == Connect \/ Close \/ Announce \/ HistoryRequest \/ ReplayDone \/ Replay \/ TakeLive

Next == Owner \/ Task \/ Link

Spec == Init /\ [][Next]_vars

-----------------------------------------------------------------------------
TypeOK ==
    /\ owner \in [pc: {"idle", "prepare", "drivers", "create", "entered", "stop", "join",
                       "remove", "abort", "abort_join", "abort_remove"},
                  entering: BOOLEAN, installed: BOOLEAN]
    /\ {snapshot, latest} \subseteq 0..MaxSessions
    /\ path \in [stop: BOOLEAN, start: BOOLEAN, uart: BOOLEAN, usb: BOOLEAN]
    /\ task \in [Tasks -> {"none", "created", "running", "stopped"}]
    /\ ingress \in [free: 0..Ingress, filled: 0..Ingress, hand: {0, 1}]
    /\ usb \in [block: 0..MaxBlocks, writes: 0..BlockWrites, out: 0..MaxBlocks]

\* No block of the pool or of the ingress set is lost, shared unawares or
\* returned twice, whatever order the tasks, the link and the sinks' limits
\* come in; so a pool as large as the history is enough, and a slow sink never
\* makes the router refuse a block (deck_serial_router.cpp, return_input_block).
BlocksAreConserved ==
    router # NoRouter =>
        /\ Conserved(router) /\ ~router.exhausted
        /\ ingress.free + ingress.filled + ingress.hand = Ingress

\* A data path is released only once no task can reach it, through failed
\* starts, late tasks and drivers that will not go.
PathOutlivesTasks ==
    \A t \in Tasks : task[t] = "running"
        => router # NoRouter /\ (owner.pc = "idle" => owner.installed)

\* What a reader skips was overwritten in the sink it reads, and what it has
\* passed comes again only when the Companion asks: no block is left out or
\* repeated between replay and live output of the announced session, after a
\* failed write or over USB.
SkippedOnly(from, to, lost) == \A n \in (from + 1)..(to - 1) : n \in lost

NoSilentHole ==
    [][/\ sent'.session = sent.session /\ sent.session = link.announced =>
            /\ sent'.sequence > sent.sequence =>
                  SkippedOnly(sent.sequence, sent'.sequence,
                              router.overwritten[IF link.active THEN Retained ELSE "wss"])
            /\ sent'.sequence < sent.sequence => link'.active /\ link'.cursor = sent'.sequence
       /\ usb'.out > usb.out =>
            SkippedOnly(usb.out, usb'.out, router.overwritten["usb"])]_vars
=============================================================================
