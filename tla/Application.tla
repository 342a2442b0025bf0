----------------------------- MODULE Application -----------------------------
(***************************************************************************)
(* The Deck's application (firmware/main/app_main.cpp): its start, and the *)
(* tasks it ties together.  The input task reads the buttons, the          *)
(* publisher task turns presses into commands, the serial owner reports    *)
(* through a mailbox to the serial view task, Setup Mode calls back with   *)
(* its state and the settings, the AI page task fills the page, and all of *)
(* them write one model, which the UI task shows.  Every mailbox holds one *)
(* message and the newest overwrites.                                      *)
(*                                                                         *)
(* A stretch under application_model_mutex is one step.  The serial owner  *)
(* is reduced to entering and leaving sessions (SerialService has it in    *)
(* full); a command queue filled by others is a command that is refused.   *)
(* Presses are numbered in the order they happened.                        *)
(***************************************************************************)
EXTENDS Naturals, Sequences

CONSTANTS
    Offsets,        \* temperature offsets a setting may have
    Default,        \* the offset before the settings are read
    Empty,          \* an empty mailbox
    MaxInputs,      \* bound: presses, callbacks of Setup Mode and AI snapshots
    MaxRefusals     \* bound: calls that fail or are refused

VARIABLES
    at,             \* where app_main is
    have,           \* the application_* handles that are set
    stopping,       \* the serial service was asked to stop and did not
    ui,             \* the UI task: its state, its mailbox and what it shows
    model,          \* application_model
    offset,         \* application_temperature_offset_tenths_c
    monitor,        \* the peripheral monitor's snapshot
    snapshots,      \* peripherals->snapshot_queue
    publisher,      \* the publisher task in peripheral_snapshot
    handled,        \* handled_*_press_count
    requested,      \* application_serial_requested
    control,        \* service->control_epoch
    commands,       \* service->commands
    owner,          \* the serial owner: session, its epoch, the press it is due to
    latest,         \* service->latest_snapshot
    mail,           \* the serial view's mailbox
    view,           \* the serial view task
    setup,          \* Setup Mode's task in setup_event
    ai,             \* the AI page task
    revoked,        \* the newest BOOT press whose exit was queued
    refused,        \* presses whose command was refused at first
    inputs, refusals

app     == <<at, have, stopping>>
buttons == <<monitor, snapshots>>
serial  == <<control, commands, owner, latest, mail>>
ghosts  == <<revoked, refused>>
bounds  == <<inputs, refusals>>
vars    == <<app, ui, model, offset, buttons, publisher, handled, requested, serial,
             view, setup, ai, ghosts, bounds>>

Kinds == {"none", "short", "long"}
NoPress == [kind |-> "none", count |-> 0, number |-> 0]

\* Something happens outside.
Input == inputs < MaxInputs /\ inputs' = inputs + 1

\* A call that may fail.
Succeeds == UNCHANGED refusals
Refused == refusals < MaxRefusals /\ refusals' = refusals + 1

\* application_model: what Setup Mode, the serial view, the AI page and the
\* buttons put into it.
Models == [setup : {"UNAVAILABLE", "ACTIVE", "IDLE"}, armed : BOOLEAN, active : BOOLEAN,
           hint : BOOLEAN]

InitialModel == [setup |-> "UNAVAILABLE", armed |-> FALSE, active |-> FALSE, hint |-> FALSE]

Init ==
    /\ at = "display" /\ have = {} /\ stopping = FALSE
    /\ ui = [state |-> "off", updates |-> Empty, shown |-> InitialModel]
    /\ model = InitialModel /\ offset = Default
    /\ monitor = [key |-> NoPress, boot |-> NoPress, offset |-> Default]
    /\ snapshots = Empty
    /\ publisher = [at |-> "wait", snapshot |-> Empty, active |-> FALSE, todo |-> {}]
    /\ handled = [keyShort |-> 0, keyLong |-> 0, bootShort |-> 0, bootLong |-> 0]
    /\ requested = FALSE
    /\ control = 1 /\ commands = << >>
    /\ owner = [at |-> "off", armed |-> FALSE, epoch |-> 1, by |-> 0]
    /\ latest = FALSE /\ mail = Empty
    /\ view = [at |-> "off", event |-> FALSE]
    /\ setup = [at |-> "off", offset |-> Default, update |-> FALSE]
    /\ ai = "off"
    /\ revoked = 0 /\ refused = {} /\ inputs = 0 /\ refusals = 0

-----------------------------------------------------------------------------
(* The UI task *)

\* deck_application_ui_update: the newest model overwrites, while the UI runs.
Updated(m) == IF ui.state \in {"starting", "ready"} THEN [ui EXCEPT !.updates = m] ELSE ui

\* publish_application_model
Publish == ui' = IF "mutex" \in have THEN Updated(model) ELSE ui

UiReceives ==
    /\ ui.state = "ready" /\ ui.updates # Empty
    /\ ui' = [ui EXCEPT !.updates = Empty, !.shown = ui.updates]
    /\ UNCHANGED <<app, model, offset, buttons, publisher, handled, requested, serial, view,
                   setup, ai, ghosts, bounds>>

\* The first completed frame is the READY event app_main waits for.
UiReady ==
    /\ ui.state = "starting"
    /\ ui' = [ui EXCEPT !.state = "ready"]
    /\ UNCHANGED <<app, model, offset, buttons, publisher, handled, requested, serial, view,
                   setup, ai, ghosts, bounds>>

\* release_display_resources: the display goes last, once neither the serial
\* service nor the link is left to draw on it.
Released(handles) ==
    IF handles \intersect {"serial", "view", "ai", "link"} # {}
    THEN handles ELSE handles \ {"display", "panel"}

\* LVGL could not be initialised: the UI task releases the display itself
\* before it reports.
UiFails ==
    /\ ui.state = "starting" /\ Refused
    /\ have' = Released(have)
    /\ ui' = [ui EXCEPT !.state = "gone", !.updates = Empty]
    /\ UNCHANGED <<at, stopping, model, offset, buttons, publisher, handled, requested,
                   serial, view, setup, ai, ghosts, inputs>>

-----------------------------------------------------------------------------
(* app_main *)

Idle == UNCHANGED <<model, offset, buttons, publisher, handled, requested, control, commands,
                    latest, mail, ghosts, inputs>>

\* The panel, the display service, the mutex and the UI, in this order; without
\* all of them the Deck stops here and releases what it made.
StartDisplay ==
    /\ at = "display"
    /\ \/ /\ Succeeds /\ at' = "ui" /\ have' = {"panel", "display", "mutex", "lifecycle"}
          /\ ui' = [ui EXCEPT !.state = "starting"]
       \/ Refused /\ at' = "ended" /\ UNCHANGED <<have, ui>>
    /\ Idle /\ UNCHANGED <<stopping, owner, view, setup, ai>>

WaitForUi ==
    /\ at = "ui" /\ Succeeds
    /\ \/ ui.state = "ready" /\ at' = "setup" /\ UNCHANGED have
       \/ ui.state = "gone" /\ at' = "ended" /\ have' = have \ {"mutex"}
    /\ Idle /\ UNCHANGED <<stopping, ui, owner, view, setup, ai>>

\* start_setup_after_ui_ready: Setup Mode, the link once its profiles are there,
\* the AI page task on the link; each without the next if that fails.
StartSetup ==
    /\ at = "setup" /\ at' = "serial"
    /\ \/ Refused /\ UNCHANGED <<have, setup, ai>>
       \/ /\ setup' = [setup EXCEPT !.at = "wait"]
          /\ \/ Refused /\ have' = have \union {"setup"} /\ UNCHANGED ai
             \/ Refused /\ have' = have \union {"setup", "link"} /\ UNCHANGED ai
             \/ Succeeds /\ have' = have \union {"setup", "link", "ai"} /\ ai' = "poll"
    /\ Idle /\ UNCHANGED <<stopping, ui, owner, view>>

\* start_serial_view_task and deck_serial_service_start: the service is given
\* the view's mailbox, so the view comes first and goes last.
StartSerial ==
    /\ at = "serial"
    /\ \/ Refused /\ at' = "peripherals" /\ UNCHANGED <<have, view, owner>>
       \/ /\ Succeeds /\ at' = "attach" /\ have' = have \union {"view", "serial"}
          /\ view' = [view EXCEPT !.at = "wait"] /\ owner' = [owner EXCEPT !.at = "publish"]
       \/ /\ Refused /\ at' = "stop view" /\ have' = have \union {"view"}
          /\ view' = [view EXCEPT !.at = "wait"] /\ UNCHANGED owner
    /\ Idle /\ UNCHANGED <<stopping, ui, setup, ai>>

\* deck_companion_link_attach_serial; without it the service is stopped, and
\* keeps running when it does not stop in time.
ServiceStops ==
    \/ Succeeds /\ have' = have \ {"serial"} /\ owner' = [owner EXCEPT !.at = "off"]
       /\ UNCHANGED stopping
    \/ Refused /\ stopping' = TRUE /\ UNCHANGED <<have, owner>>

AttachSerial ==
    /\ at = "attach" /\ owner.at # "publish"
    /\ \/ Succeeds /\ at' = "peripherals" /\ UNCHANGED <<have, owner, stopping>>
       \/ "link" \in have /\ ServiceStops /\ at' = "stop view"
    /\ Idle /\ UNCHANGED <<ui, view, setup, ai>>

\* Mutant of MayStopView: whether the service stopped is not looked at.
MayStopViewAlways == TRUE

\* The view is stopped only when there is no service to fill its mailbox.
MayStopView == "serial" \notin have

StopView ==
    /\ at = "stop view" /\ at' = "peripherals"
    /\ \/ /\ MayStopView /\ view.at = "wait" /\ Succeeds
          /\ have' = have \ {"view"} /\ view' = [view EXCEPT !.at = "off"]
       \/ MayStopView /\ Refused /\ UNCHANGED <<have, view>>
       \/ ~MayStopView /\ Succeeds /\ UNCHANGED <<have, view>>
    /\ Idle /\ UNCHANGED <<stopping, ui, owner, setup, ai>>

\* deck_peripherals_start, under the mutex: the offset it starts with is the one
\* of the last callback, and the next callback finds the handle.
StartingOffset == offset

StartPeripherals ==
    /\ at = "peripherals" /\ at' = "up"
    /\ \/ /\ Succeeds /\ have' = have \union {"peripherals"}
          /\ monitor' = [monitor EXCEPT !.offset = StartingOffset]
       \/ Refused /\ UNCHANGED <<have, monitor>>
    /\ UNCHANGED <<stopping, ui, model, offset, snapshots, publisher, handled, requested,
                   serial, view, setup, ai, ghosts, inputs>>

-----------------------------------------------------------------------------
(* The input and measurement tasks *)

KeepInputs ==
    UNCHANGED <<app, ui, model, offset, publisher, handled, requested, serial, view, setup,
                ai, ghosts, refusals>>

\* deck_peripheral_monitor_sample_inputs: a press is the newest event of its
\* button, and queue_snapshot_locked replaces the snapshot that waits.
Number == monitor.key.count + monitor.boot.count + 1

Press(button, kind) ==
    /\ "peripherals" \in have /\ Input
    /\ LET pressed == [kind |-> kind, count |-> monitor[button].count + 1, number |-> Number]
       IN monitor' = [monitor EXCEPT ![button] = pressed]
    /\ snapshots' = monitor'
    /\ KeepInputs

\* i2c_task measures every second and queues the snapshot again.
Measure ==
    /\ "peripherals" \in have /\ snapshots = Empty
    /\ snapshots' = monitor
    /\ UNCHANGED <<monitor, inputs>> /\ KeepInputs

-----------------------------------------------------------------------------
(* The publisher task: peripheral_snapshot *)

KeepPublisher == UNCHANGED <<app, offset, monitor, view, setup, ai, inputs>>

\* Whether a session is active is read first: the flag, or the service's
\* snapshot, whose lock may not be had.
Receive ==
    /\ publisher.at = "wait" /\ snapshots # Empty
    /\ snapshots' = Empty
    /\ \E seen \in {latest, FALSE} :
        publisher' = [at |-> "decide", snapshot |-> snapshots, todo |-> {},
                      active |-> requested \/ ("serial" \in have /\ seen)]
    /\ UNCHANGED <<ui, model, handled, requested, serial, ghosts, refusals>> /\ KeepPublisher

New(press, kind, count) == press.kind = kind /\ press.count > count

\* The decisions, under the mutex: a press is handled at once when there is
\* nothing to ask for, otherwise when it has been asked for.
Decide ==
    LET key     == publisher.snapshot.key
        boot    == publisher.snapshot.boot
        turns   == New(key, "short", handled.keyShort)
        enters  == New(key, "long", handled.keyLong)
        leaves  == New(boot, "short", handled.bootShort)
        sets_up == New(boot, "long", handled.bootLong)
        inSetup == model.setup = "ACTIVE"
        todo    == {t \in {"enter", "exit", "setup"} :
                      CASE t = "enter" -> enters /\ "serial" \in have
                                            /\ ~publisher.active /\ ~inSetup
                        [] t = "exit"  -> leaves /\ "serial" \in have
                        [] t = "setup" -> sets_up /\ ~publisher.active}
    IN /\ publisher.at = "decide"
       /\ model' = IF turns /\ ~publisher.active /\ model.active /\ ~inSetup
                   THEN [model EXCEPT !.hint = ~@] ELSE model
       /\ handled' =
            [keyShort  |-> IF turns THEN key.count ELSE handled.keyShort,
             keyLong   |-> IF enters /\ "enter" \notin todo THEN key.count ELSE handled.keyLong,
             bootShort |-> IF leaves /\ "exit" \notin todo THEN boot.count
                                                           ELSE handled.bootShort,
             bootLong  |-> IF sets_up /\ "setup" \notin todo THEN boot.count
                                                             ELSE handled.bootLong]
       /\ publisher' = [publisher EXCEPT !.at = "publish", !.todo = todo]
       /\ UNCHANGED <<ui, snapshots, requested, serial, ghosts, refusals>> /\ KeepPublisher

\* Mutant of Order: the exit is queued before the entry.
OrderSwapped == <<"publish", "exit", "enter", "setup">>

\* The model is published, then the session is entered, left, and Setup Mode
\* entered, whichever was decided.
Order == <<"publish", "enter", "exit", "setup">>

\* What comes after a step: the next of the order that was decided.
After(step) ==
    LET here  == CHOOSE i \in DOMAIN Order : Order[i] = step
        later == {i \in DOMAIN Order : i > here /\ Order[i] \in publisher.todo}
    IN IF later = {} THEN "wait" ELSE Order[CHOOSE i \in later : \A j \in later : i <= j]

Then(step) ==
    publisher' = IF After(step) = "wait"
                 THEN [at |-> "wait", snapshot |-> Empty, active |-> FALSE, todo |-> {}]
                 ELSE [publisher EXCEPT !.at = After(step)]

PublishModel ==
    /\ publisher.at = "publish" /\ Publish /\ Then("publish")
    /\ UNCHANGED <<model, snapshots, handled, requested, serial, ghosts, refusals>>
    /\ KeepPublisher

\* deck_serial_service_enter queues the entry with the present epoch, and the
\* flag is set after it; a refused one is tried again with the next snapshot.
EntryQueued ==
    commands' = Append(commands, [kind |-> "enter", epoch |-> control,
                                  press |-> publisher.snapshot.key.number])

QueueEntry ==
    /\ publisher.at = "enter"
    /\ \/ /\ Succeeds /\ ~stopping /\ EntryQueued
          /\ publisher' = [publisher EXCEPT !.at = "entered"]
          /\ UNCHANGED refused
       \/ /\ IF stopping THEN Succeeds ELSE Refused
          /\ refused' = refused \union {publisher.snapshot.key.number}
          /\ Then("enter") /\ UNCHANGED commands
    /\ UNCHANGED <<ui, model, snapshots, handled, requested, control, owner, latest, mail,
                   revoked>>
    /\ KeepPublisher

Entered ==
    /\ publisher.at = "entered"
    /\ requested' = TRUE
    /\ handled' = [handled EXCEPT !.keyLong = publisher.snapshot.key.count]
    /\ Then("enter")
    /\ UNCHANGED <<ui, model, snapshots, serial, ghosts, refusals>> /\ KeepPublisher

\* deck_serial_service_exit advances the epoch, whether or not there is room,
\* and puts the exit before everything that waits.
ExitQueued ==
    commands' = <<[kind |-> "exit", epoch |-> control + 1,
                   press |-> publisher.snapshot.boot.number]>> \o commands

QueueExit ==
    /\ publisher.at = "exit"
    /\ \/ stopping /\ Succeeds /\ Then("exit") /\ UNCHANGED <<control, commands, revoked>>
       \/ /\ ~stopping /\ control' = control + 1
          /\ \/ /\ Succeeds /\ ExitQueued
                /\ publisher' = [publisher EXCEPT !.at = "left"]
                /\ revoked' = publisher.snapshot.boot.number
             \/ Refused /\ Then("exit") /\ UNCHANGED <<commands, revoked>>
    /\ UNCHANGED <<ui, model, snapshots, handled, requested, owner, latest, mail, refused>>
    /\ KeepPublisher

Left ==
    /\ publisher.at = "left"
    /\ requested' = FALSE
    /\ handled' = [handled EXCEPT !.bootShort = publisher.snapshot.boot.count]
    /\ Then("exit")
    /\ UNCHANGED <<ui, model, snapshots, serial, ghosts, refusals>> /\ KeepPublisher

\* deck_setup_service_enter_from_boot
EnterSetup ==
    /\ publisher.at = "setup"
    /\ \/ /\ "setup" \in have /\ Succeeds
          /\ handled' = [handled EXCEPT !.bootLong = publisher.snapshot.boot.count]
       \/ /\ IF "setup" \in have THEN Refused ELSE Succeeds
          /\ UNCHANGED handled
    /\ Then("setup")
    /\ UNCHANGED <<ui, model, snapshots, requested, serial, ghosts>> /\ KeepPublisher

-----------------------------------------------------------------------------
(* The serial owner and the serial view *)

KeepOwner == UNCHANGED <<app, ui, model, offset, buttons, publisher, handled, setup, ai,
                         ghosts, inputs>>

\* An entry of another epoch is stale; one in time installs the UART, or fails.
OwnerEnters(command) ==
    IF command.epoch # owner.epoch \/ owner.armed
    THEN Succeeds /\ owner' = [owner EXCEPT !.at = "publish"]
    ELSE \/ /\ Succeeds
            /\ owner' = [owner EXCEPT !.at = "publish", !.armed = TRUE, !.by = command.press]
         \/ Refused /\ owner' = [owner EXCEPT !.at = "publish"]

OwnerLeaves(command) ==
    /\ Succeeds
    /\ owner' = IF command.epoch < owner.epoch THEN [owner EXCEPT !.at = "publish"]
                ELSE [owner EXCEPT !.at = "publish", !.armed = FALSE, !.epoch = command.epoch]

OwnerTakes ==
    /\ owner.at = "loop" /\ commands # << >>
    /\ commands' = Tail(commands)
    /\ IF Head(commands).kind = "enter" THEN OwnerEnters(Head(commands))
                                        ELSE OwnerLeaves(Head(commands))
    /\ UNCHANGED <<control, latest, mail, requested, view>> /\ KeepOwner

\* Mutant of Mailed: a full mailbox keeps what it has.
MailedIfEmpty(event) == mail' = IF mail = Empty THEN event ELSE mail

\* publish: the service's snapshot, then serial_event, which overwrites.
Mailed(event) == mail' = event

OwnerPublishes ==
    /\ owner.at = "publish"
    /\ latest' = owner.armed /\ Mailed(owner.armed)
    /\ owner' = [owner EXCEPT !.at = "loop"]
    /\ UNCHANGED <<control, commands, requested, view, refusals>> /\ KeepOwner

KeepView == UNCHANGED <<app, offset, buttons, publisher, handled, control, commands, owner,
                        latest, setup, ai, ghosts, bounds>>

\* serial_view_task and apply_serial_event: the flag, then the model.
ViewReceives ==
    /\ view.at = "wait" /\ mail # Empty
    /\ view' = [at |-> "store", event |-> mail] /\ mail' = Empty
    /\ UNCHANGED <<ui, model, requested>> /\ KeepView

ViewStores ==
    /\ view.at = "store"
    /\ requested' = view.event
    /\ view' = [view EXCEPT !.at = "apply"]
    /\ UNCHANGED <<ui, model, mail>> /\ KeepView

ViewApplies ==
    /\ view.at = "apply"
    /\ model' = [model EXCEPT !.armed = view.event]
    /\ ui' = Updated(model')
    /\ view' = [view EXCEPT !.at = "wait"]
    /\ UNCHANGED <<requested, mail>> /\ KeepView

-----------------------------------------------------------------------------
(* Setup Mode's callback and the AI page task *)

KeepSetup == UNCHANGED <<app, publisher, handled, requested, serial, view, ai, ghosts,
                         refusals>>

\* setup_event: the model and the offset under the mutex, with the handle ...
SetupEvent ==
    /\ setup.at = "wait" /\ Input
    /\ \E state \in {"ACTIVE", "IDLE", "UNAVAILABLE"}, value \in Offsets :
        /\ model' = [model EXCEPT !.setup = state]
        /\ offset' = value
        /\ setup' = [at |-> "offset", offset |-> value, update |-> "peripherals" \in have]
    /\ UNCHANGED <<ui, buttons>> /\ KeepSetup

\* ... the monitor's offset outside it, which queues a snapshot ...
SetOffset ==
    /\ setup.at = "offset"
    /\ setup' = [setup EXCEPT !.at = "publish"]
    /\ IF setup.update
       THEN /\ monitor' = [monitor EXCEPT !.offset = setup.offset] /\ snapshots' = monitor'
       ELSE UNCHANGED buttons
    /\ UNCHANGED <<ui, model, offset, inputs>> /\ KeepSetup

\* ... and the model is published.
SetupPublishes ==
    /\ setup.at = "publish" /\ Publish
    /\ setup' = [setup EXCEPT !.at = "wait"]
    /\ UNCHANGED <<model, offset, buttons, inputs>> /\ KeepSetup

KeepPage == UNCHANGED <<app, offset, buttons, publisher, handled, requested, serial, view,
                        setup, ghosts, refusals>>

\* ai_page_task: the page is active once there is a snapshot to show.
AiPageProjects ==
    /\ ai = "poll" /\ ~model.active /\ Input
    /\ model' = [model EXCEPT !.active = TRUE] /\ ai' = "publish"
    /\ UNCHANGED ui /\ KeepPage

AiPagePublishes ==
    /\ ai = "publish" /\ Publish /\ ai' = "poll"
    /\ UNCHANGED <<model, inputs>> /\ KeepPage

Next ==
    \/ StartDisplay \/ WaitForUi \/ StartSetup \/ StartSerial \/ AttachSerial \/ StopView
    \/ StartPeripherals
    \/ UiReady \/ UiFails \/ UiReceives
    \/ \E button \in {"key", "boot"}, kind \in {"short", "long"} : Press(button, kind)
    \/ Measure \/ Receive \/ Decide \/ PublishModel \/ QueueEntry \/ Entered \/ QueueExit
    \/ Left \/ EnterSetup
    \/ OwnerTakes \/ OwnerPublishes \/ ViewReceives \/ ViewStores \/ ViewApplies
    \/ SetupEvent \/ SetOffset \/ SetupPublishes \/ AiPageProjects \/ AiPagePublishes

Spec == Init /\ [][Next]_vars

-----------------------------------------------------------------------------
TypeOK ==
    /\ at \in {"display", "ui", "setup", "serial", "attach", "stop view", "peripherals",
               "up", "ended"}
    /\ have \subseteq {"panel", "display", "mutex", "lifecycle", "setup", "link", "ai",
                       "view", "serial", "peripherals"}
    /\ ui.state \in {"off", "starting", "ready", "gone"} /\ model \in Models
    /\ offset \in Offsets /\ monitor.offset \in Offsets
    /\ {monitor.key.kind, monitor.boot.kind} \subseteq Kinds
    /\ publisher.at \in {"wait", "decide", "publish", "enter", "entered", "exit", "left",
                         "setup"}
    /\ owner.at \in {"off", "publish", "loop"} /\ owner.armed \in BOOLEAN
    /\ view.at \in {"off", "wait", "store", "apply"}
    /\ setup.at \in {"off", "wait", "offset", "publish"} /\ ai \in {"off", "poll", "publish"}

\* A session is entered by a KEY press that has not entered one before and is
\* newer than every BOOT press whose exit was queued, but for one whose entry was
\* refused at first: that press is tried again with the epoch of the day
\* (peripheral_snapshot, deck_serial_service_enter, deck_serial_service_exit).
BootRevokesKeys ==
    [][owner'.armed /\ ~owner.armed =>
          owner'.by # owner.by /\ (owner'.by > revoked \/ owner'.by \in refused)]_vars

\* No KEY press arms the target after a later BOOT press whose exit was queued
\* (peripheral_snapshot).  The code does not keep this when the entry was refused
\* at first: no run checks it, see README.md.
OlderKeysAreRejected ==
    [][owner'.armed /\ ~owner.armed => owner'.by > revoked]_vars

\* With nothing under way the screen shows whether the target's TX is armed, and
\* the temperature is corrected with the offset of the newest settings, whatever
\* was overwritten in the mailboxes on the way and whenever the callbacks came.
Quiet ==
    /\ owner.at = "loop" /\ mail = Empty /\ view.at = "wait"
    /\ publisher.at = "wait" /\ setup.at \in {"off", "wait"} /\ ai # "publish"
    /\ ui.state = "ready" /\ ui.updates = Empty

NewestIsShown ==
    /\ Quiet => ui.shown = model /\ ui.shown.armed = owner.armed
    /\ ("peripherals" \in have /\ setup.at # "offset") => monitor.offset = offset

\* Whatever of the start fails, no task is left with a callback into something
\* that is gone: the owner with a view, everyone with the model's mutex, the
\* UI with a display; and an armed target is always visible.
CallbacksAreSafe ==
    /\ owner.at # "off" => "view" \in have
    /\ (owner.at # "off" \/ view.at # "off" \/ setup.at # "off" \/ "peripherals" \in have)
          => "mutex" \in have
    /\ ui.state \in {"starting", "ready"} => {"panel", "display"} \subseteq have
    /\ owner.armed => ui.state = "ready"
=============================================================================
