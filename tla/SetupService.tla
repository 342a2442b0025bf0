----------------------------- MODULE SetupService -----------------------------
(***************************************************************************)
(* Setup Mode: the temporary access point on which the Deck is given its   *)
(* Wi-Fi network and its Companions.  One service task owns the radio and  *)
(* the configuration and takes commands from a bounded queue; the HTTP     *)
(* handlers, the Wi-Fi driver's event callbacks and the BOOT button only   *)
(* put commands into it.  The task never stops: receive a command, carry   *)
(* it out, look at the clocks, retry what is unfinished.                   *)
(*                                                                         *)
(* Time is abstract: a session nobody uses may end at any look at the      *)
(* clock, a wait may time out at any moment.  Session numbers only matter  *)
(* for whether a confirmation belongs to the present session.              *)
(***************************************************************************)
EXTENDS WifiConfig, Naturals, Sequences

CONSTANTS
    QueueCapacity,  \* DECK_SETUP_COMMAND_QUEUE_CAPACITY, also the barrier's slots
    Requests,       \* the kinds of request a client makes of this Setup page
    MaxRequests,    \* bound: requests made in a behaviour, BOOT presses included
    MaxFaults,      \* bound: failures of driver, HTTP server and store calls
    MaxEvents       \* bound: events the driver has posted and not delivered

\* What the constants must be; the modules that check Setup Mode assume it.
SetupBounds ==
    /\ None \notin Credentials
    /\ QueueCapacity \in Nat \ {0}
    /\ {MaxRequests, MaxFaults} \subseteq Nat /\ MaxEvents \in Nat \ {0}
    /\ Requests \subseteq {"boot", "submit_wifi", "temperature", "clear_wifi",
                           "pair_companion", "edit_companion", "scan"}

VARIABLES
    svc,          \* the task: where it is, what it does after stop_network and after
                  \* enter_session, whether a stage failed, the pair it waits for
    queue,        \* the command queue
    handler,      \* the request the HTTP task is in the middle of, or None
    mode,         \* Setup Mode: is a session active
    confirmation, \* the token to clear Wi-Fi: none, of this session or of an older one
    slots,        \* response barrier: pair generation -> was its answer acknowledged
    wifi,         \* the Wi-Fi configuration
    net,          \* what the task believes of the radio and the HTTP server
    radio,        \* the driver: the station, the network it was given, the AP
    events,       \* events the driver has posted for the event task
    flags,        \* the atomics and the task's boot_enter_pending
    notice,       \* the newest state handed to the publisher
    commits,      \* history: "blind" once another network's address committed a
                  \* candidate, "left" once the station had gone on by then
    requests, faults

vars == <<svc, queue, handler, mode, confirmation, slots, wifi, net, radio, events,
          flags, notice, commits, requests, faults>>
hmi == <<handler, confirmation, requests>>

-----------------------------------------------------------------------------
\* The Wi-Fi driver, as the service uses it.

Post(kind) == Append(events, [kind |-> kind, by |-> radio.credentials])

\* The station leaves the network it has or looks for; the driver tells.
Dropped == IF radio.station = "idle" THEN events ELSE Post("lost")

Station(phase, credentials) ==
    [radio EXCEPT !.station = phase, !.credentials = credentials]

\* A connect is refused while the station is still looking for a network.
Connectable == radio.station # "connecting"

Fault == faults < MaxFaults /\ faults' = faults + 1
NoFault == UNCHANGED faults
Roomy == Len(events) < MaxEvents

StationConnects ==
    /\ radio.station = "connecting" /\ Roomy
    /\ radio' = [radio EXCEPT !.station = "connected"]
    /\ events' = Post("got_ip")
    /\ UNCHANGED <<svc, queue, hmi, mode, slots, wifi, net, flags, notice, commits, faults>>

StationFails ==
    /\ radio.station # "idle" /\ Roomy
    /\ radio' = [radio EXCEPT !.station = "idle"]
    /\ \E kind \in {"auth", "lost"} : events' = Post(kind)
    /\ UNCHANGED <<svc, queue, hmi, mode, slots, wifi, net, flags, notice, commits, faults>>

AccessPointMoves ==
    /\ radio.ap \in {"starting", "stopping"}
    /\ radio' = [radio EXCEPT !.ap = IF @ = "starting" THEN "up" ELSE "down"]
    /\ UNCHANGED <<svc, queue, hmi, mode, slots, wifi, net, events, flags, notice,
                   commits, faults>>

-----------------------------------------------------------------------------
\* The command queue and who fills it.

TryReceive(type) == svc.pc = "poll" /\ queue # <<>> /\ Head(queue).type = type

EnqueueCommand(command) ==
    IF Len(queue) = QueueCapacity
    THEN UNCHANGED queue /\ flags' = [flags EXCEPT !.overflow = TRUE]
    ELSE queue' = Append(queue, command) /\ UNCHANGED flags

\* wifi_event and ip_event.  One disconnect the service asked for itself is
\* swallowed; before the task takes commands the events only set bits.
Deliver ==
    /\ events # <<>>
    /\ events' = Tail(events)
    /\ LET event == Head(events)
           command ==
             [type |-> CASE event.kind = "got_ip" -> "connected"
                         [] event.kind = "auth" -> "auth_failed"
                         [] event.kind = "lost" -> "connection_failed",
              of |-> event.by]
       IN CASE ~flags.accepting -> UNCHANGED <<queue, flags>>
            [] flags.accepting /\ event.kind # "got_ip" /\ flags.suppress ->
                 flags' = [flags EXCEPT !.suppress = FALSE] /\ UNCHANGED queue
            [] OTHER -> EnqueueCommand(command)
    /\ UNCHANGED <<svc, hmi, mode, slots, wifi, net, radio, notice, commits,
                   faults>>

NewRequest(type) ==
    type \in Requests /\ requests < MaxRequests /\ requests' = requests + 1

\* deck_setup_service_enter_from_boot, on a long press.
PressBoot ==
    /\ NewRequest("boot") /\ flags.accepting
    /\ EnqueueCommand([type |-> "boot", of |-> None])
    /\ UNCHANGED <<svc, handler, mode, confirmation, slots, wifi, net, radio, events,
                   notice, commits, faults>>

\* A handler first makes sure that a session is active and takes what it needs
\* for its command; it lets go of the lock before it enqueues.
Serving == net.http_server /\ handler = None /\ mode

\* The service takes requests of its API once the task takes commands.
Admitted == flags.accepting

Handles(type, of) ==
    /\ NewRequest(type) /\ Serving
    /\ handler' = [type |-> type, of |-> of]
    /\ UNCHANGED <<svc, queue, mode, wifi, net, radio, events, flags, notice, commits, faults>>

WifiHandler ==
    /\ Admitted /\ \E c \in Credentials : Handles("submit_wifi", c)
    /\ UNCHANGED <<confirmation, slots>>

EditHandler(type) == Admitted /\ Handles(type, None) /\ UNCHANGED <<confirmation, slots>>

TemperatureHandler == EditHandler("temperature")
ProfileHandler == EditHandler("edit_companion")

\* The token of this session is spent with the request.
WifiClearConfirmHandler ==
    /\ Admitted /\ Handles("clear_wifi", None)
    /\ confirmation = "current" /\ confirmation' = "none"
    /\ UNCHANGED slots

Issued(g) == [h \in DOMAIN slots \union {g} |-> IF h = g THEN FALSE ELSE slots[h]]

\* A pair takes a slot of the barrier for the answer to its answer.
CompanionPairHandler ==
    /\ \E g \in (1..QueueCapacity) \ DOMAIN slots :
          /\ slots' = Issued(g)
          /\ Handles("pair_companion", g)
    /\ UNCHANGED confirmation

\* The scan keeps the network mutex until the driver has answered.
ScanHandler ==
    /\ svc.pc \notin {"stop_wait", "start_wait"}
    /\ Handles("scan", None)
    /\ UNCHANGED <<confirmation, slots>>

Without(g) == [h \in DOMAIN slots \ {g} |-> slots[h]]

\* Mutant of SlotReturned: the slot waits for an acknowledgement nobody sends.
SlotKept == FALSE

\* A pair that finds the queue full gives its slot back.
SlotReturned == handler.type = "pair_companion" /\ Len(queue) = QueueCapacity

\* The second half of a handler.
EndRequest ==
    /\ handler # None
    /\ handler' = None
    /\ IF handler.type = "scan" THEN UNCHANGED <<queue, flags, slots>>
       ELSE /\ EnqueueCommand(handler)
            /\ slots' = IF SlotReturned THEN Without(handler.of) ELSE slots
    /\ UNCHANGED <<svc, mode, confirmation, wifi, net, radio, events, notice, commits, requests, faults>>

IssueToken == confirmation' = "current"

\* A new token takes the old one's place.
WifiClearRequestHandler ==
    /\ "clear_wifi" \in Requests /\ requests < MaxRequests
    /\ Serving /\ Admitted /\ confirmation # "current"
    /\ IssueToken
    /\ UNCHANGED <<svc, queue, handler, mode, slots, wifi, net, radio, events, flags,
                   notice, commits, requests, faults>>

\* A confirmation that comes after 60 seconds only voids the token.
ConfirmationExpires ==
    /\ Serving /\ Admitted /\ confirmation # "none"
    /\ confirmation' = "none"
    /\ UNCHANGED <<svc, queue, handler, mode, slots, wifi, net, radio, events, flags,
                   notice, commits, requests, faults>>

Acknowledge(g) == ~slots[g] /\ slots' = [slots EXCEPT ![g] = TRUE]

\* The client that was answered returns the capability it was given.
CompanionPairAckHandler ==
    /\ Serving /\ \E g \in DOMAIN slots : Acknowledge(g)
    /\ UNCHANGED <<svc, queue, hmi, mode, wifi, net, radio, events, flags, notice,
                   commits, faults>>

-----------------------------------------------------------------------------
\* The service task.

Go(pc) == svc' = [svc EXCEPT !.pc = pc]

\* Back in the loop, with nothing left of the call.
Idle == [pc |-> "poll", then |-> "end", back |-> "poll", error |-> FALSE, pair |-> None]
Rejoin(pc) == svc' = [Idle EXCEPT !.pc = pc]
Scanning == handler # None /\ handler.type = "scan"

\* stop_network is called from several places; then says what its caller does.
CallStop(then) == svc' = [svc EXCEPT !.pc = "stop", !.then = then, !.error = FALSE]

\* enter_session begins with stop_network; back is where its own caller goes on.
EnterSession(back) ==
    svc' = [svc EXCEPT !.pc = "stop", !.then = "enter", !.back = back, !.error = FALSE]

\* notify: the newest state is handed to the publisher, which tells the display.
Notify(state) == notice' = state

Shown == IF mode THEN "active" ELSE "inactive"

\* deck_setup_mode_enter: a session with credentials and a number of its own.
EnterMode ==
    /\ mode' = TRUE
    /\ confirmation' = IF confirmation = "current" THEN "stale" ELSE confirmation

StopMode == mode' = FALSE

Received == queue' = Tail(queue)

InitializeFails ==
    /\ svc.pc = "boot" /\ Fault
    /\ Go("dead") /\ Notify("error")
    /\ UNCHANGED <<queue, hmi, mode, slots, wifi, net, radio, events, flags, commits>>

Boot ==
    /\ svc.pc = "boot"
    /\ \/ /\ RecoveryRequired(wifi) /\ NoFault
          /\ EnterSession("accept") /\ UNCHANGED <<radio, net>>
       \/ /\ ~RecoveryRequired(wifi) /\ NoFault
          /\ Go("boot_wait")
          /\ radio' = Station("connecting", wifi.active)
          /\ net' = [net EXCEPT !.wifi_started = TRUE]
    /\ UNCHANGED <<queue, hmi, mode, slots, wifi, events, flags, notice, commits>>

\* A call of connect_active_station fails before the driver runs, or the
\* connect itself does.
BootFails ==
    /\ svc.pc = "boot" /\ ~RecoveryRequired(wifi) /\ Fault
    /\ \E started, configured \in BOOLEAN :
          /\ started => configured
          /\ radio' = IF configured THEN Station("idle", wifi.active) ELSE radio
          /\ net' = [net EXCEPT !.wifi_started = started]
    /\ wifi' = ActiveConnection(wifi, FALSE)
    /\ EnterSession("accept")
    /\ UNCHANGED <<queue, hmi, mode, slots, events, flags, notice, commits>>

\* connect_active_station waits for an address for as long as a validation may take.
BootWait ==
    /\ svc.pc = "boot_wait"
    /\ LET connected == radio.station = "connected"
       IN /\ wifi' = ActiveConnection(wifi, connected)
          /\ IF connected
             THEN /\ Go("poll") /\ Notify("inactive")
                  /\ flags' = [flags EXCEPT !.accepting = TRUE]
             ELSE EnterSession("accept") /\ UNCHANGED <<notice, flags>>
    /\ UNCHANGED <<queue, hmi, mode, slots, net, radio, events, commits, faults>>

PollTimesOut ==
    /\ svc.pc = "poll" /\ queue = <<>> /\ Go("tick")
    /\ UNCHANGED <<queue, hmi, mode, slots, wifi, net, radio, events, flags, notice,
                   commits, faults>>

HandleBoot ==
    /\ TryReceive("boot") /\ Received /\ Go("tick")
    /\ flags' = [flags EXCEPT !.boot_pending = TRUE]
    /\ UNCHANGED <<hmi, mode, slots, wifi, net, radio, events, notice, commits,
                   faults>>

\* begin_wifi_validation: the disconnect it causes itself is to be swallowed,
\* one that finds no connection causes none.
BeginsValidation(credentials) ==
    /\ ~Scanning /\ Roomy
    /\ radio' = Station("connecting", credentials)
    /\ events' = Dropped
    /\ flags' = [flags EXCEPT !.suppress = radio.station # "idle"]

\* One that fails may have disconnected the station and configured the candidate.
BeginningFails(credentials) ==
    \/ UNCHANGED <<radio, events, flags>>
    \/ /\ ~Scanning /\ Roomy
       /\ radio' \in {Station("idle", radio.credentials), Station("idle", credentials)}
       /\ events' = Dropped
       /\ flags' = [flags EXCEPT !.suppress = radio.station # "idle"]

HandleSubmit ==
    /\ TryReceive("submit_wifi") /\ Received /\ Go("tick")
    /\ Notify(Shown)
    /\ LET credentials == Head(queue).of
       IN \/ /\ ~mode \/ wifi.faulted \/ wifi.state = "validating"
             /\ UNCHANGED <<wifi, radio, events, flags, faults>>
          \/ /\ mode /\ ~wifi.faulted /\ wifi.state # "validating"
             /\ \/ /\ net.wifi_started /\ NoFault
                   /\ BeginsValidation(credentials)
                   /\ wifi' = ValidationBegun(Staged(wifi, credentials), TRUE)
                \/ /\ Fault
                   /\ wifi' = StorageFailure(wifi)
                   /\ UNCHANGED <<radio, events, flags>>
                \/ /\ Fault
                   /\ wifi' = ValidationBegun(Staged(wifi, credentials), FALSE)
                   /\ BeginningFails(credentials)
    /\ UNCHANGED <<hmi, mode, slots, net, commits>>

\* A result while a validation runs decides the candidate.
HandleValidated ==
    /\ TryReceive("connected") /\ Received
    /\ wifi.state = "validating"
    /\ \/ /\ NoFault
          /\ wifi' = Committed(wifi)
          /\ commits' = CASE Head(queue).of # wifi.candidate -> "blind"
                          [] commits = "sound" /\ radio.credentials # wifi.candidate -> "left"
                          [] OTHER -> commits
          /\ StopMode
          /\ net' = [net EXCEPT !.restore_pending = FALSE]
          /\ CallStop("notify") /\ UNCHANGED notice
       \/ /\ Fault
          /\ wifi' = StorageFailure(wifi)
          /\ Notify("error") /\ Go("tick")
          /\ UNCHANGED <<mode, net, commits>>
    /\ UNCHANGED <<hmi, slots, radio, events, flags>>

HandleRejected ==
    \E how \in {"auth_failed", "connection_failed"} :
       /\ TryReceive(how) /\ Received /\ Go("tick")
       /\ wifi.state = "validating"
       /\ wifi' = ValidationFailed(wifi, how)
       /\ Notify("active")
       /\ UNCHANGED <<hmi, mode, slots, net, radio, events, flags, commits,
                      faults>>

\* Otherwise it is news of the committed network: losing it outside a session
\* opens one.
HandleRuntime ==
    \E type \in {"connected", "auth_failed", "connection_failed"} :
       /\ TryReceive(type) /\ Received
       /\ wifi.state # "validating"
       /\ IF wifi.state = "storage_error"
          THEN Notify("error") /\ Go("tick") /\ UNCHANGED wifi
          ELSE /\ wifi' = ActiveConnection(wifi, type = "connected")
               /\ IF RuntimeTracked(wifi) /\ type # "connected" /\ ~mode
                  THEN EnterSession("tick") /\ UNCHANGED notice
                  ELSE /\ Go("tick")
                       /\ IF RuntimeTracked(wifi) THEN Notify(Shown) ELSE UNCHANGED notice
       /\ UNCHANGED <<hmi, mode, slots, net, radio, events, flags, commits,
                      faults>>

\* The temperature calibration and the edits of a Companion profile change
\* stores of their own; the session only decides whether they are carried out.
HandleEdit(type) ==
    /\ TryReceive(type) /\ Received /\ Go("tick")
    /\ \/ /\ mode /\ NoFault
          /\ Notify("active")
       \/ /\ IF mode THEN Fault ELSE NoFault
          /\ Notify("error")
    /\ UNCHANGED <<hmi, mode, slots, wifi, net, radio, events, flags, commits>>

HandleTemperature == HandleEdit("temperature")
HandleProfileEdit == HandleEdit("edit_companion")

\* cancel_wifi_validation.  Called a second time it finds no connection and
\* no longer expects the disconnect that the first call caused.
Cancels(twice) ==
    /\ ~Scanning /\ Roomy
    /\ events' = Dropped
    /\ radio' = [radio EXCEPT !.station = "idle"]
    /\ flags' = [flags EXCEPT !.suppress = radio.station # "idle" /\ ~twice]

HandleClear ==
    /\ TryReceive("clear_wifi") /\ Received /\ Go("tick")
    /\ \/ /\ mode /\ NoFault
          /\ wifi' = Cleared(wifi)
          /\ net' = [net EXCEPT !.restore_pending = FALSE]
          /\ Cancels(wifi.state = "validating")
          /\ Notify("active")
       \/ /\ mode /\ Fault
          /\ wifi' = StorageFailure(wifi)
          /\ IF wifi.state = "validating" THEN Cancels(FALSE)
             ELSE UNCHANGED <<events, radio, flags>>
          /\ Notify("error") /\ UNCHANGED net
       \/ /\ ~mode /\ NoFault
          /\ Notify("error")
          /\ UNCHANGED <<wifi, net, events, radio, flags>>
    /\ UNCHANGED <<hmi, mode, slots, commits>>

\* The redemption of the code runs without a lock while requests come in.
HandlePair ==
    /\ TryReceive("pair_companion") /\ Received
    /\ IF mode
       THEN /\ svc' = [svc EXCEPT !.pc = "pair", !.pair = Head(queue).of]
            /\ UNCHANGED <<slots, notice>>
       ELSE Go("tick") /\ slots' = Without(Head(queue).of) /\ Notify("error")
    /\ UNCHANGED <<hmi, mode, wifi, net, radio, events, flags, commits, faults>>

PairRedeems ==
    /\ svc.pc = "pair"
    /\ \/ Go("pair_wait") /\ UNCHANGED <<slots, notice>>
       \/ /\ svc' = [svc EXCEPT !.pc = "tick", !.pair = None]
          /\ slots' = Without(svc.pair)
          /\ \E state \in {"error", "active"} : Notify(state)
    /\ UNCHANGED <<queue, hmi, mode, wifi, net, radio, events, flags, commits,
                   faults>>

\* wait_for_pair_response: the session closes when the client has its answer,
\* and stays open when two seconds pass without a word from it.
Complete(g) == slots[g]

PairAnswered ==
    /\ svc.pc = "pair_wait" /\ Complete(svc.pair)
    /\ slots' = Without(svc.pair)
    /\ StopMode
    /\ svc' = [svc EXCEPT !.pc = "stop", !.then = "notify", !.error = FALSE,
                          !.pair = None]
    /\ UNCHANGED <<queue, hmi, wifi, net, radio, events, flags, notice, commits,
                   faults>>

PairUnanswered ==
    /\ svc.pc = "pair_wait" /\ ~Complete(svc.pair)
    /\ slots' = Without(svc.pair)
    /\ svc' = [svc EXCEPT !.pc = "tick", !.pair = None]
    /\ Notify("error")
    /\ UNCHANGED <<queue, hmi, mode, wifi, net, radio, events, flags, commits,
                   faults>>

-----------------------------------------------------------------------------
\* The clocks: a validation keeps the session alive until it ends.

\* Mutant of LoopEnd: a BOOT press that had to wait is forgotten.
LoopEndForgetful(shutdownPending) == Rejoin("poll")

\* What the loop does last: a BOOT press waits until the radio is down.
LoopEnd(shutdownPending) ==
    IF flags.boot_pending /\ ~shutdownPending THEN EnterSession("poll") ELSE Rejoin("poll")

\* Mutant of StopWanted: a shutdown that failed is not tried again.
StopOnceWanted(unused) == unused

\* The session has just ended, or a shutdown is still unfinished.
StopWanted(unused) == unused \/ net.shutdown_pending

\* Mutant of TimesOut: only a session that is active looks at the clock.
TimesOutInSession == mode /\ wifi.state = "validating"

TimesOut == wifi.state = "validating"

\* deck_setup_mode_tick may find that nobody used the session for its time.
UnusedTooLong == IF mode /\ wifi.state # "validating" THEN BOOLEAN ELSE {FALSE}

Tick ==
    /\ svc.pc = "tick"
    /\ \E unused \in UnusedTooLong :
          /\ IF unused THEN StopMode ELSE UNCHANGED mode
          /\ IF StopWanted(unused) THEN CallStop("end") ELSE LoopEnd(FALSE)
    /\ IF flags.overflow THEN Notify("error") ELSE UNCHANGED notice
    /\ flags' = [flags EXCEPT !.overflow = FALSE]
    /\ UNCHANGED <<queue, hmi, slots, wifi, net, radio, events, commits, faults>>

\* The validation's time is up: the station is called back.
TickTimesOut ==
    /\ svc.pc = "tick" /\ TimesOut
    /\ wifi' = ValidationFailed(wifi, "timed_out")
    /\ ~Scanning /\ Roomy
    /\ events' = Dropped
    /\ radio' = [radio EXCEPT !.station = "idle"]
    /\ flags' = [flags EXCEPT !.suppress = (radio.station # "idle"), !.overflow = FALSE]
    /\ Notify("active")
    /\ IF StopWanted(FALSE) THEN CallStop("end") ELSE LoopEnd(FALSE)
    /\ UNCHANGED <<queue, hmi, mode, slots, net, commits, faults>>

-----------------------------------------------------------------------------
\* stop_network, in the order of its waits.

\* The HTTP server is stopped before the network mutex is taken: it waits for
\* the handler in progress, which may be a scan that holds that mutex.
StopHttp ==
    /\ svc.pc = "stop"
    /\ wifi' = IF net.restore_pending THEN ActiveConnection(wifi, FALSE) ELSE wifi
    /\ \/ /\ net.http_server => handler = None
          /\ NoFault
          /\ net' = [net EXCEPT !.http_server = FALSE] /\ Go("stop_radio")
       \/ /\ net.http_server /\ Fault
          /\ svc' = [svc EXCEPT !.pc = "stop_radio", !.error = TRUE] /\ UNCHANGED net
    /\ UNCHANGED <<queue, hmi, mode, slots, radio, events, flags, notice, commits>>

\* The AP is asked down once; a retry only waits for it again.
StopRadio ==
    /\ svc.pc = "stop_radio" /\ ~Scanning /\ Roomy
    /\ \/ /\ ~net.active /\ Go("restore")
          /\ UNCHANGED <<net, radio, events, faults>>
       \/ /\ net.active /\ net.stop_requested /\ Go("stop_wait")
          /\ UNCHANGED <<net, radio, events, faults>>
       \/ /\ net.active /\ ~net.stop_requested /\ NoFault
          /\ net' = [net EXCEPT !.stop_requested = TRUE,
                                !.stop_keeps_wifi = wifi.active # None]
          /\ Go("stop_wait")
          /\ IF wifi.active # None
             THEN radio' = [radio EXCEPT !.ap = "stopping"] /\ UNCHANGED events
             ELSE /\ radio' = [radio EXCEPT !.ap = "stopping", !.station = "idle"]
                  /\ events' = Dropped
       \/ /\ net.active /\ ~net.stop_requested /\ Fault
          /\ svc' = [svc EXCEPT !.pc = "restore", !.error = TRUE]
          /\ UNCHANGED <<net, radio, events>>
    /\ UNCHANGED <<queue, hmi, mode, slots, wifi, flags, notice, commits>>

StopWait ==
    /\ svc.pc = "stop_wait"
    /\ \/ /\ radio.ap = "down" /\ NoFault
          /\ net' = [net EXCEPT !.active = FALSE, !.stop_requested = FALSE,
                                !.wifi_started = net.stop_keeps_wifi,
                                !.stop_keeps_wifi = FALSE]
          /\ Go("restore")
       \/ /\ radio.ap # "down" /\ Fault
          /\ svc' = [svc EXCEPT !.pc = "restore", !.error = TRUE] /\ UNCHANGED net
    /\ UNCHANGED <<queue, hmi, mode, slots, wifi, radio, events, flags, notice, commits>>

\* fail_session, and where enter_session's caller goes on.
FailSession == StopMode /\ Notify("error")

Return(bootPending) ==
    /\ Rejoin(IF svc.back = "accept" THEN "poll" ELSE svc.back)
    /\ flags' = [flags EXCEPT !.accepting = TRUE,
                              !.boot_pending = IF svc.back = "poll" THEN bootPending
                                               ELSE @]

\* What stop_network's caller does with its result.
Stopped(failed) ==
    CASE svc.then = "notify" ->
           /\ Rejoin("tick") /\ Notify(IF failed THEN "error" ELSE "inactive")
           /\ UNCHANGED <<mode, flags, confirmation>>
      [] svc.then = "end" ->
           /\ LoopEnd(failed) /\ Notify(IF failed THEN "error" ELSE "inactive")
           /\ UNCHANGED <<mode, flags, confirmation>>
      [] svc.then = "enter" /\ failed ->
           FailSession /\ Return(TRUE) /\ UNCHANGED confirmation
      [] svc.then = "enter" /\ ~failed ->
           /\ Go("start") /\ EnterMode
           /\ UNCHANGED <<notice, flags>>
      [] svc.then = "fail" ->
           FailSession /\ Return(FALSE) /\ UNCHANGED confirmation

StopRestore ==
    /\ svc.pc = "restore"
    /\ LET wanted == ~net.active /\ net.restore_pending
       IN \/ /\ ~wanted /\ NoFault
             /\ net' = [net EXCEPT !.shutdown_pending = svc.error]
             /\ Stopped(svc.error)
             /\ UNCHANGED <<radio, events>>
          \/ /\ wanted /\ Connectable /\ Roomy /\ wifi.active # None /\ NoFault
             /\ net' = [net EXCEPT !.shutdown_pending = svc.error,
                                   !.restore_pending = FALSE, !.wifi_started = TRUE]
             /\ events' = Dropped
             /\ radio' = Station("connecting", wifi.active)
             /\ Stopped(svc.error)
          \/ /\ wanted
             /\ IF Connectable /\ wifi.active # None THEN Fault ELSE NoFault
             /\ net' = [net EXCEPT !.shutdown_pending = TRUE]
             /\ Stopped(TRUE)
             /\ UNCHANGED <<radio, events>>
    /\ UNCHANGED <<queue, handler, slots, wifi, commits, requests>>

-----------------------------------------------------------------------------
\* start_network: the station gives way to the access point.

\* The committed network's station has to come back when the session is over.
StationDisplaced == wifi.active # None

StartRadio ==
    /\ svc.pc = "start" /\ ~Scanning /\ Roomy
    /\ wifi' = ActiveConnection(wifi, FALSE)
    /\ \/ /\ NoFault
          /\ net' = [net EXCEPT !.restore_pending = StationDisplaced,
                                !.wifi_started = TRUE, !.active = TRUE,
                                !.stop_requested = FALSE]
          /\ radio' = [radio EXCEPT !.station = "idle", !.ap = "starting"]
          /\ events' = Dropped
          /\ Go("start_wait") /\ UNCHANGED <<mode, notice, flags>>
       \/ \* a call before the driver runs as an access point fails
          /\ Fault
          /\ \E stopped \in BOOLEAN :
                /\ net' = [net EXCEPT !.restore_pending = StationDisplaced,
                                      !.wifi_started = @ /\ ~stopped]
                /\ radio' = IF stopped THEN [radio EXCEPT !.station = "idle"] ELSE radio
                /\ events' = IF stopped THEN Dropped ELSE events
          /\ FailSession /\ Return(FALSE)
    /\ UNCHANGED <<queue, hmi, slots, commits>>

HttpStarted == [net EXCEPT !.http_server = TRUE, !.shutdown_pending = FALSE]

StartWait ==
    /\ svc.pc = "start_wait"
    /\ \/ /\ radio.ap = "up" /\ NoFault
          /\ net' = HttpStarted /\ Notify("active") /\ Return(FALSE)
       \/ /\ Fault /\ CallStop("fail")
          /\ UNCHANGED <<net, notice, flags>>
    /\ UNCHANGED <<queue, hmi, mode, slots, wifi, radio, events, commits>>

-----------------------------------------------------------------------------
Init ==
    /\ wifi \in InitialConfigs
    /\ svc = [Idle EXCEPT !.pc = "boot"]
    /\ queue = <<>> /\ handler = None /\ mode = FALSE /\ confirmation = "none"
    /\ slots = <<>> /\ events = <<>> /\ notice = "none"
    /\ net = [active |-> FALSE, stop_requested |-> FALSE, stop_keeps_wifi |-> FALSE,
              wifi_started |-> FALSE, http_server |-> FALSE, restore_pending |-> FALSE,
              shutdown_pending |-> FALSE]
    /\ radio = [station |-> "idle", credentials |-> None, ap |-> "down"]
    /\ flags = [accepting |-> FALSE, suppress |-> FALSE, overflow |-> FALSE,
                boot_pending |-> FALSE]
    /\ commits = "sound" /\ requests = 0 /\ faults = 0

ServiceStep ==
    \/ Boot \/ BootFails \/ BootWait \/ PollTimesOut
    \/ HandleBoot \/ HandleSubmit \/ HandleValidated \/ HandleRejected
    \/ HandleRuntime \/ HandleTemperature \/ HandleProfileEdit \/ HandleClear
    \/ HandlePair
    \/ PairRedeems \/ PairAnswered \/ PairUnanswered
    \/ Tick \/ StopHttp \/ StopRadio \/ StopWait \/ StopRestore
    \/ StartRadio \/ StartWait

ClientStep ==
    \/ PressBoot \/ WifiHandler \/ TemperatureHandler \/ ProfileHandler \/ ScanHandler
    \/ WifiClearRequestHandler \/ ConfirmationExpires \/ WifiClearConfirmHandler
    \/ CompanionPairHandler \/ CompanionPairAckHandler

DriverStep == StationConnects \/ StationFails

Next ==
    \/ InitializeFails \/ ServiceStep \/ TickTimesOut
    \/ ClientStep \/ EndRequest \/ Deliver \/ DriverStep \/ AccessPointMoves

Spec == Init /\ [][Next]_vars

\* The task runs whenever it can; its polls eventually see a validation's time
\* is up; the HTTP task, the event task and the driver finish what they began.
Fairness ==
    /\ WF_vars(ServiceStep) /\ SF_vars(TickTimesOut)
    /\ WF_vars(EndRequest) /\ WF_vars(Deliver)
    /\ WF_vars(AccessPointMoves)
    /\ WF_vars(radio.station = "connecting" /\ DriverStep)

FairSpec == Spec /\ Fairness

-----------------------------------------------------------------------------
TypeOK ==
    /\ wifi \in Configs /\ mode \in BOOLEAN /\ commits \in {"sound", "blind", "left"}
    /\ confirmation \in {"none", "current", "stale"}
    /\ notice \in {"none", "active", "inactive", "error"}
    /\ Len(queue) <= QueueCapacity /\ Len(events) <= MaxEvents
    /\ DOMAIN slots \subseteq 1..QueueCapacity
    /\ radio \in [station: {"idle", "connecting", "connected"},
                  credentials: Credentials \union {None},
                  ap: {"down", "starting", "up", "stopping"}]
    /\ net \in [{"active", "stop_requested", "stop_keeps_wifi", "wifi_started",
                "http_server", "restore_pending", "shutdown_pending"} -> BOOLEAN]
    /\ flags \in [{"accepting", "suppress", "overflow", "boot_pending"} -> BOOLEAN]

\* The credentials a validation commits are the ones the station got an address
\* with: a result carries no name, so one that belongs to an earlier attempt
\* must not decide a later candidate.
CommittedWasValidated == commits # "blind"

\* Between commands the station is configured for the committed network, or the
\* service still remembers that it has to bring it back.
StationFollowsRecord ==
    (svc.pc = "poll" /\ wifi.active # None /\ ~net.restore_pending /\ commits = "sound")
        => radio.credentials = wifi.active

\* A slot of the response barrier belongs to a pair request that is being
\* queued, waits in the queue or is carried out: none is lost for later pairs.
SlotsAreOwed ==
    \A g \in DOMAIN slots :
        \/ svc.pair = g
        \/ handler # None /\ handler.type = "pair_companion" /\ handler.of = g
        \/ \E i \in DOMAIN queue : queue[i].type = "pair_companion" /\ queue[i].of = g

\* A session that has ended takes its access point down, whatever call failed
\* on the way.
SetupCloses == (~mode /\ net.active) ~> (~net.active \/ mode)

\* A BOOT press the queue took opens a session or ends in an error the user sees.
BootIsHonoured == flags.boot_pending ~> (mode \/ notice = "error")

\* A validation ends, whatever happens to the session it was started in.
ValidationEnds == (wifi.state = "validating") ~> (wifi.state # "validating")
=============================================================================
