---------------------------- MODULE SerialService ----------------------------
(***************************************************************************)
(* The serial service of the Deck                                          *)
(* (components/serial_service/deck_serial_service.cpp): one owner task     *)
(* that alone changes the session and writes the target's UART, and the    *)
(* tasks that send it commands and input: buttons, the Companion link, the *)
(* USB input task and the application that stops it.                       *)
(*                                                                         *)
(* Bytes are blocks stamped as the code stamps them; a block may take      *)
(* several writes.  Every iteration of the owner task first ticks the      *)
(* session, so each of its actions below acts on the ticked session.       *)
(***************************************************************************)
EXTENDS SerialSession, Sequences

CONSTANTS NoBlock,
          CommandDepth,      \* kCommandQueueDepth
          InputDepth,        \* depth of each host -> target queue
          MaxEpoch,          \* bound on BOOT and stop epochs
          MaxRevoke,         \* bound on revocations of the Web transport
          MaxSession,        \* bound on sessions
          MaxRequest         \* bound on Web requests

ASSUME ServiceAssumption ==
  {CommandDepth, InputDepth, MaxEpoch, MaxRevoke, MaxSession, MaxRequest} \subseteq Nat

VARIABLES session,           \* service->session
          commands,          \* service->commands
          control,           \* service->control_epoch
          web,               \* service->web_transport_epoch
          completed,         \* service->completed_web_revoke_epoch
          authority,         \* service->usb_input_authority_generation
          snapshot,          \* service->latest_snapshot
          usbTask,           \* the generation the USB task read before reading bytes
          usbQueue, webQueue,
          pendingUsb,        \* block being sent, and whether it was authorised
          pendingWeb,
          pin,               \* GPIO17: "uart" or "high_impedance"
          asked,             \* the Web epoch of each request id the link used
          key,               \* a KEY entry has passed the stop test
          stop,              \* of deck_serial_service_stop: see Stops
          stopped

host  == <<usbTask, asked, key>>
input == <<usbQueue, webQueue, pendingUsb, pendingWeb>>
vars  == <<session, commands, control, web, completed, authority, snapshot, host,
           input, pin, stop, stopped>>

(* Not asked for; asked for, with stop_requested set and the epoch advanced; *)
(* accepted by the command queue.                                            *)
Stops == {"no", "asked", "accepted"}

stop_requested == stop # "no"

NoUsb == [owner |-> 0, authorised |-> FALSE]

Kinds == {"enter", "exit", "request_web", "web_activity", "web_disconnect",
          "revoke_web_transport", "stop"}

(* void marks a command that a later BOOT exit was queued ahead of. *)
Command(kind, epoch) ==
  [kind |-> kind, epoch |-> epoch, session |-> 0, id |-> 0, enable |-> FALSE, void |-> FALSE]

Voided(queue) == [i \in DOMAIN queue |-> [queue[i] EXCEPT !.void = TRUE]]

View(s) == [state |-> s.state, session |-> s.session, lease |-> s.lease,
            installed |-> s.installed]

Commands ==
  [kind : Kinds, epoch : Nat, session : Nat, id : Nat, enable : BOOLEAN, void : BOOLEAN]

Views == [state : Owners, session : Nat, lease : Nat, installed : BOOLEAN]

WebStamps == [session : Nat, lease : Nat]

TypeOK ==
  /\ session \in Sessions /\ snapshot \in Views
  /\ commands \in Seq(Commands) /\ Len(commands) <= CommandDepth
  /\ control \in Nat /\ web \in Nat /\ completed \in Nat /\ authority \in Nat
  /\ usbTask \in Nat /\ asked \in Seq(Nat) /\ key \in BOOLEAN
  /\ usbQueue \in Seq(Nat) /\ webQueue \in Seq(WebStamps)
  /\ pendingUsb \in [owner : Nat, authorised : BOOLEAN]
  /\ pendingWeb \in WebStamps \cup {NoBlock}
  /\ pin \in {"uart", "high_impedance"}
  /\ stop \in Stops /\ stopped \in BOOLEAN

Init ==
  /\ session = NewSession /\ snapshot = View(NewSession)
  /\ commands = << >>
  /\ control = 0 /\ web = 0 /\ completed = 0
  /\ authority = 0
  /\ usbTask = 0 /\ asked = << >> /\ key = FALSE
  /\ usbQueue = << >> /\ webQueue = << >>
  /\ pendingUsb = NoUsb /\ pendingWeb = NoBlock
  /\ pin = "high_impedance"
  /\ stop = "no" /\ stopped = FALSE
-----------------------------------------------------------------------------
(* Producers of commands. *)
Room == Len(commands) < CommandDepth

Apart == UNCHANGED <<session, completed, authority, snapshot, input, pin, stopped>>

Producing == ~stop_requested /\ Apart /\ UNCHANGED <<key, stop>>

SendBack(command) == Room /\ commands' = Append(commands, command)

SendFront(command) == Room /\ commands' = <<command>> \o commands

(* KEY: enqueue tests the stop flag, then stamps the entry with the control *)
(* epoch and sends it; it is lost when there is no room.                    *)
PressEnter ==
  /\ ~stop_requested /\ ~key
  /\ key' = TRUE
  /\ Apart /\ UNCHANGED <<commands, control, web, usbTask, asked, stop>>

EnqueueEnter ==
  /\ key
  /\ key' = FALSE
  /\ SendBack(Command("enter", control)) \/ (~Room /\ UNCHANGED commands)
  /\ Apart /\ UNCHANGED <<control, web, usbTask, asked, stop>>

(* BOOT: the epoch advances whether or not the exit finds room.  The task  *)
(* of the buttons sends both, so no entry is under way.                    *)
PressExit ==
  /\ Producing /\ ~key
  /\ control < MaxEpoch
  /\ control' = control + 1
  /\ \/ Room /\ commands' = <<Command("exit", control')>> \o Voided(commands)
     \/ ~Room /\ UNCHANGED commands
  /\ UNCHANGED <<web, usbTask, asked>>

(* The link, for the Companion. *)
RequestWeb ==
  /\ Producing
  /\ Len(asked) < MaxRequest
  /\ snapshot.state # "DISARMED"
  /\ asked' = Append(asked, web)
  /\ \E on \in BOOLEAN :
       SendBack([Command("request_web", web) EXCEPT
                   !.session = snapshot.session, !.id = Len(asked'), !.enable = on])
  /\ UNCHANGED <<control, web, usbTask>>

WebLease(kind) ==
  /\ Producing
  /\ snapshot.state = "WEB_TX"
  /\ SendBack([Command(kind, control) EXCEPT !.session = snapshot.session,
                                              !.id = snapshot.lease])
  /\ UNCHANGED <<control, web, usbTask, asked>>

WebActivity == WebLease("web_activity")

WebDisconnect == WebLease("web_disconnect")

RevokeWebTransport ==
  /\ Producing
  /\ web < MaxRevoke
  /\ web' = web + 1
  /\ SendFront(Command("revoke_web_transport", web')) \/ (~Room /\ UNCHANGED commands)
  /\ UNCHANGED <<control, usbTask, asked>>

(* deck_serial_service_stop: no producer that has yet to test the flag     *)
(* gets through any more.  A first stop that does not fit takes the flag   *)
(* back, with the epoch advanced; one the owner did not complete in time   *)
(* is sent again under the epoch in place.                                 *)
StopRequest ==
  /\ ~stop_requested /\ control < MaxEpoch
  /\ control' = control + 1 /\ stop' = "asked"
  /\ Apart /\ UNCHANGED <<commands, web, host>>

StopSend ==
  /\ stop_requested /\ ~stopped
  /\ \/ SendFront(Command("stop", control)) /\ stop' = "accepted"
     \/ ~Room /\ stop' = (IF stop = "asked" THEN "no" ELSE stop) /\ UNCHANGED commands
  /\ Apart /\ UNCHANGED <<control, web, host>>
-----------------------------------------------------------------------------
(* Producers of input: the USB task reads the authority, then the bytes,   *)
(* then submits; the link submits for the lease of its latest snapshot.    *)
UsbRead ==
  /\ session.installed /\ usbTask = 0 /\ authority # 0
  /\ usbTask' = authority
  /\ UNCHANGED <<session, commands, control, web, completed, authority, snapshot,
                 asked, key, input, pin, stop, stopped>>

UsbSubmit ==
  /\ session.installed /\ usbTask # 0
  /\ usbTask' = 0
  /\ \/ ~stop_requested /\ Len(usbQueue) < InputDepth /\ usbQueue' = Append(usbQueue, usbTask)
     \/ (stop_requested \/ Len(usbQueue) = InputDepth) /\ UNCHANGED usbQueue
  /\ UNCHANGED <<session, commands, control, web, completed, authority, snapshot,
                 asked, key, webQueue, pendingUsb, pendingWeb, pin, stop, stopped>>

SubmitWeb ==
  /\ ~stop_requested /\ session.installed
  /\ snapshot.state = "WEB_TX" /\ snapshot.installed
  /\ Len(webQueue) < InputDepth
  /\ webQueue' = Append(webQueue, [session |-> snapshot.session, lease |-> snapshot.lease])
  /\ UNCHANGED <<session, commands, control, web, completed, authority, snapshot,
                 host, usbQueue, pendingUsb, pendingWeb, pin, stop, stopped>>
-----------------------------------------------------------------------------
(* The owner task. *)
TickedNever == session

Ticked == ExpireWebLease(session)

(* sync_usb_input_authority and publish, at the end of every command. *)
AuthorityOf(s) == IF s.state = "USB_TX" /\ s.installed THEN s.owner ELSE 0

Published(s) == session' = s /\ authority' = AuthorityOf(s) /\ snapshot' = View(s)

ClearUsbQueueOnly == usbQueue' = << >> /\ UNCHANGED pendingUsb

ClearUsb == usbQueue' = << >> /\ pendingUsb' = NoUsb

ClearWeb == webQueue' = << >> /\ pendingWeb' = NoBlock

KeepUsb == UNCHANGED <<usbQueue, pendingUsb>>

(* An expiry on the way to a command ends the lease and its input. *)
KeepWeb == IF LeaseExpired(session) THEN ClearWeb ELSE UNCHANGED <<webQueue, pendingWeb>>

(* Uninstalling the UART joins the USB task and frees the queues. *)
TaskJoined(gone) == usbTask' = IF gone THEN 0 ELSE usbTask

Take(kind) ==
  /\ ~stopped /\ commands # << >> /\ Head(commands).kind = kind
  /\ commands' = Tail(commands)

(* The owner ticks without a command: an expired lease returns to USB. *)
OwnerTick ==
  /\ ~stopped /\ LeaseExpired(session)
  /\ Published(Ticked)
  /\ KeepUsb /\ ClearWeb
  /\ UNCHANGED <<commands, control, web, completed, host, pin, stop, stopped>>

OwnerEnter ==
  /\ Take("enter")
  /\ LET c == Head(commands) IN
     \/ /\ ~EnterAdmitted(Ticked, c.epoch)
        /\ Published(Ticked)
        /\ KeepUsb /\ KeepWeb /\ TaskJoined(FALSE) /\ UNCHANGED pin
     \/ \E uninstalled, installed, cleaned \in BOOLEAN :
          /\ EnterAdmitted(Ticked, c.epoch)
          /\ session.session < MaxSession
          /\ \/ /\ session.installed /\ ~uninstalled
                /\ Published(Ticked) /\ pin' = "high_impedance"
                /\ KeepUsb /\ KeepWeb /\ TaskJoined(FALSE)
             \/ /\ ~session.installed \/ uninstalled
                /\ \/ installed /\ Published(Entered(Ticked)) /\ pin' = "uart"
                   \/ /\ ~installed
                      /\ Published([Ticked EXCEPT !.installed = ~cleaned])
                      /\ pin' = "high_impedance"
                /\ ClearUsb /\ ClearWeb /\ TaskJoined(TRUE)
  /\ UNCHANGED <<control, web, completed, asked, key, stop, stopped>>

(* disarm revokes, clears both sources, uninstalls and releases the pin. *)
OwnerExits(kind) ==
  /\ Take(kind)
  /\ LET c == Head(commands) IN
     \/ /\ ~ExitAdmitted(Ticked, c.epoch)
        /\ Published(Ticked)
        /\ KeepUsb /\ KeepWeb /\ TaskJoined(FALSE) /\ UNCHANGED pin
     \/ \E uninstalled \in BOOLEAN :
          /\ ExitAdmitted(Ticked, c.epoch)
          /\ Published(Exited(Ticked, c.epoch, uninstalled))
          /\ ClearUsb /\ ClearWeb
          /\ TaskJoined(uninstalled)
          /\ pin' = "high_impedance"
  /\ UNCHANGED <<control, web, completed, asked, key, stop>>

OwnerExit == OwnerExits("exit") /\ UNCHANGED stopped

OwnerStop == OwnerExits("stop") /\ stopped' = ~session'.installed

(* A request counts only if its Web transport is still the latest one. *)
OwnerRequest ==
  /\ Take("request_web")
  /\ LET c == Head(commands)
         admitted == c.epoch = web /\ RequestAdmitted(Ticked, c.epoch, c.session, c.id)
     IN  \/ /\ admitted
            /\ Published(Requested(Ticked, c.id, c.enable))
            /\ IF c.enable /\ Ticked.state = "USB_TX" THEN ClearUsb ELSE KeepUsb
            /\ IF ~c.enable /\ Ticked.state = "WEB_TX" THEN ClearWeb ELSE KeepWeb
         \/ /\ ~admitted
            /\ Published(Ticked) /\ KeepUsb /\ KeepWeb
  /\ UNCHANGED <<control, web, completed, host, pin, stop, stopped>>

OwnerActivity ==
  /\ Take("web_activity")
  /\ LET c == Head(commands)
     IN  Published(IF HoldsLease(Ticked, c.session, c.id) THEN Renewed(Ticked) ELSE Ticked)
  /\ KeepUsb /\ KeepWeb
  /\ UNCHANGED <<control, web, completed, host, pin, stop, stopped>>

OwnerDisconnect ==
  /\ Take("web_disconnect")
  /\ LET c == Head(commands) IN
     \/ /\ HoldsLease(Ticked, c.session, c.id)
        /\ Published(ReturnToUsb(Ticked)) /\ KeepUsb /\ ClearWeb
     \/ /\ ~HoldsLease(Ticked, c.session, c.id)
        /\ Published(Ticked) /\ KeepUsb /\ KeepWeb
  /\ UNCHANGED <<control, web, completed, host, pin, stop, stopped>>

OwnerRevoke ==
  /\ Take("revoke_web_transport")
  /\ LET c == Head(commands) IN
     \/ /\ RevokeAdmitted(Ticked, c.epoch)
        /\ Published(Revoked(Ticked, c.epoch)) /\ KeepUsb /\ ClearWeb
     \/ /\ ~RevokeAdmitted(Ticked, c.epoch)
        /\ Published(Ticked) /\ KeepUsb /\ KeepWeb
  /\ completed' = Head(commands).epoch
  /\ UNCHANGED <<control, web, host, pin, stop, stopped>>

(* Input is drained only when no command waits: Web first, then USB.  A    *)
(* block may leave in parts; a USB block is authorised once.               *)
Draining == ~stopped /\ session.installed /\ commands = << >> /\ ~LeaseExpired(session)

Idle == UNCHANGED <<session, commands, control, web, completed, authority, snapshot,
                    host, pin, stop, stopped>>

WebBlock == IF pendingWeb = NoBlock THEN Head(webQueue) ELSE pendingWeb

WebAccepted == AcceptWebInput(session, WebBlock.session, WebBlock.lease)

DrainWeb(next) ==
  /\ Draining
  /\ pendingWeb # NoBlock \/ webQueue # << >>
  /\ webQueue' = IF pendingWeb = NoBlock THEN Tail(webQueue) ELSE webQueue
  /\ pendingWeb' = next
  /\ KeepUsb /\ Idle

SendWeb ==
  /\ pendingWeb # NoBlock \/ webQueue # << >>
  /\ \E next \in {NoBlock, WebBlock} : WebAccepted /\ DrainWeb(next)

RejectWeb == DrainWeb(NoBlock) /\ ~WebAccepted

UsbBlock == IF pendingUsb = NoUsb THEN [owner |-> Head(usbQueue), authorised |-> FALSE]
                                  ELSE pendingUsb

UsbAccepted == UsbBlock.authorised \/ AcceptUsbInput(session, UsbBlock.owner)

DrainUsb(next) ==
  /\ Draining
  /\ pendingUsb # NoUsb \/ usbQueue # << >>
  /\ usbQueue' = IF pendingUsb = NoUsb THEN Tail(usbQueue) ELSE usbQueue
  /\ pendingUsb' = next
  /\ UNCHANGED <<webQueue, pendingWeb>> /\ Idle

SendUsb ==
  /\ pendingUsb # NoUsb \/ usbQueue # << >>
  /\ \E next \in {NoUsb, [UsbBlock EXCEPT !.authorised = TRUE]} : UsbAccepted /\ DrainUsb(next)

RejectUsb == DrainUsb(NoUsb) /\ ~UsbAccepted

(* Time passes for a lease. *)
Elapse ==
  /\ session.state = "WEB_TX" /\ session.left > 0
  /\ session' = [session EXCEPT !.left = @ - 1]
  /\ UNCHANGED <<commands, control, web, completed, authority, snapshot, host, input, pin,
                 stop, stopped>>

Next ==
  \/ PressEnter \/ EnqueueEnter \/ PressExit \/ RequestWeb \/ WebActivity \/ WebDisconnect
  \/ RevokeWebTransport \/ StopRequest \/ StopSend
  \/ UsbRead \/ UsbSubmit \/ SubmitWeb
  \/ OwnerTick \/ OwnerEnter \/ OwnerExit \/ OwnerStop \/ OwnerRequest \/ OwnerActivity
  \/ OwnerDisconnect \/ OwnerRevoke
  \/ SendWeb \/ RejectWeb \/ SendUsb \/ RejectUsb \/ Elapse

Spec == Init /\ [][Next]_vars
-----------------------------------------------------------------------------
(* A USB block that was authorised once, and is then sent in parts without *)
(* being checked again, still belongs to the ownership it was read under:  *)
(* every transition that ends the ownership discards it.                   *)
AuthorisedIsOwner ==
  /\ pendingUsb.authorised =>
       session.state = "USB_TX" /\ session.installed /\ pendingUsb.owner = session.owner
  /\ authority # 0 => session.state = "USB_TX" /\ authority = session.owner

(* The target's TX pin is driven exactly while someone owns it, whatever   *)
(* the UART driver does on the way in or out.                              *)
PinFollowsOwner ==
  /\ session.state = "DISARMED" <=> pin = "high_impedance"
  /\ session.state # "DISARMED" => session.installed
  /\ stopped => pin = "high_impedance" /\ ~session.installed

(* BOOT wins: an entry that was queued before an accepted exit never arms  *)
(* the target, and no entry arms it while an exit or a stop is waiting.    *)
BootWins ==
  [][session.state = "DISARMED" /\ session'.state # "DISARMED"
     => /\ ~Head(commands).void
        /\ \A i \in DOMAIN commands : commands[i].kind \notin {"exit", "stop"}]_vars

(* A lease whose time is up is over with the next thing the owner does:    *)
(* activity that arrives at the deadline does not revive it.               *)
ExpiredLeaseEnds ==
  [][LeaseExpired(session) /\ session' # session
     => session'.state # "WEB_TX" \/ session'.lease # session.lease]_vars

(* Once the owner has acknowledged the latest revocation, the lease in     *)
(* place and every Web block it would still send come from a request made  *)
(* after it: nothing of the old transport, queued, granted or half sent,   *)
(* reaches the target.                                                     *)
WebBlocks == {webQueue[i] : i \in DOMAIN webQueue} \cup ({pendingWeb} \ {NoBlock})

RevokedIsSilent ==
  completed = web =>
    /\ session.state = "WEB_TX" => asked[session.lease] = web
    /\ \A b \in WebBlocks : AcceptWebInput(session, b.session, b.lease) => asked[b.lease] = web
=============================================================================
