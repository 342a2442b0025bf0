-------------------------- MODULE DeckControlProofs --------------------------
(***************************************************************************)
(* Proofs about the serial service, for every queue depth, lease timeout   *)
(* and number of sessions, requests and epochs; about the display, for any *)
(* set of areas; about the application, for any set of offsets and any     *)
(* number of presses, callbacks and failures; and about the target's       *)
(* output, for any pool, any sinks that fit into the history and any       *)
(* number of blocks, sessions and failures.                                *)
(***************************************************************************)
EXTENDS MCDeckControl, SequenceTheorems, FiniteSetTheorems, TLAPS

-----------------------------------------------------------------------------
(* What the operations on the session return. *)

LEMMA SessionParts ==
  ASSUME NEW s \in Sessions
  PROVE  /\ s.owner + 1 \in Nat /\ s.session + 1 \in Nat
         /\ LeaseTimeout \in 0..LeaseTimeout /\ 0 \in 0..LeaseTimeout /\ 0 \in Nat
         /\ s.state \in Owners /\ s.owner \in Nat /\ s.installed \in BOOLEAN
         /\ Owners = {"DISARMED", "USB_TX", "WEB_TX"}
BY LeaseAssumption DEF Sessions, Owners

LEMMA ReturnToUsbFacts ==
  ASSUME NEW s \in Sessions
  PROVE  /\ ReturnToUsb(s) \in Sessions
         /\ s.state # "WEB_TX" => ReturnToUsb(s) = s
         /\ s.state = "WEB_TX" => ReturnToUsb(s).state = "USB_TX"
         /\ ReturnToUsb(s).installed = s.installed
<1> DEFINE o == s.owner + 1
<1>1. o \in Nat /\ 0 \in Nat /\ 0 \in 0..LeaseTimeout /\ "USB_TX" \in Owners
  BY SessionParts
<1> HIDE DEF o
<1>2. [s EXCEPT !.state = "USB_TX", !.owner = o, !.lease = 0, !.left = 0] \in Sessions
  BY <1>1 DEF Sessions
<1>3. ReturnToUsb(s) \in Sessions
  BY <1>2 DEF ReturnToUsb, o
<1>4. /\ s.state = "WEB_TX" => ReturnToUsb(s).state = "USB_TX"
      /\ ReturnToUsb(s).installed = s.installed
  BY DEF ReturnToUsb, Sessions
<1> QED
  BY <1>3, <1>4 DEF ReturnToUsb

LEMMA TickedFacts ==
  ASSUME session \in Sessions
  PROVE  /\ Ticked \in Sessions
         /\ session.state # "WEB_TX" => Ticked = session
         /\ session.state = "WEB_TX" => Ticked.state \in {"USB_TX", "WEB_TX"}
         /\ ~LeaseExpired(session) => Ticked = session
         /\ Ticked.installed = session.installed
BY ReturnToUsbFacts DEF Ticked, ExpireWebLease, LeaseExpired

LEMMA DisarmFacts ==
  ASSUME NEW s \in Sessions, NEW u \in BOOLEAN
  PROVE  /\ Disarm(s, u) \in Sessions
         /\ Disarm(s, u).state = "DISARMED"
         /\ u => ~Disarm(s, u).installed
<1> DEFINE o == IF s.state = "DISARMED" THEN s.owner ELSE s.owner + 1
           i == s.installed /\ ~u
<1>1. o \in Nat /\ 0 \in Nat /\ 0 \in 0..LeaseTimeout /\ "DISARMED" \in Owners
  BY SessionParts
<1>2. i \in BOOLEAN
  OBVIOUS
<1> HIDE DEF o, i
<1>3. [s EXCEPT !.state = "DISARMED", !.lease = 0, !.left = 0, !.last = 0, !.owner = o,
                !.installed = i] \in Sessions
  BY <1>1, <1>2 DEF Sessions
<1>4. Disarm(s, u) \in Sessions
  BY <1>3 DEF Disarm, o, i
<1>5. Disarm(s, u).state = "DISARMED" /\ (u => ~Disarm(s, u).installed)
  BY DEF Disarm, Sessions
<1> QED
  BY <1>4, <1>5

LEMMA EnteredFacts ==
  ASSUME NEW s \in Sessions
  PROVE  Entered(s) \in Sessions /\ Entered(s).state = "USB_TX" /\ Entered(s).installed
<1> DEFINE o == s.owner + 1
           n == s.session + 1
<1>1. o \in Nat /\ n \in Nat /\ 0 \in Nat /\ 0 \in 0..LeaseTimeout /\ "USB_TX" \in Owners
  BY SessionParts
<1> HIDE DEF o, n
<1>2. [s EXCEPT !.state = "USB_TX", !.session = n, !.owner = o, !.installed = TRUE,
                !.lease = 0, !.left = 0, !.last = 0] \in Sessions
  BY <1>1 DEF Sessions
<1>3. Entered(s) \in Sessions
  BY <1>2 DEF Entered, o, n
<1>4. Entered(s).state = "USB_TX" /\ Entered(s).installed
  BY DEF Entered, Sessions
<1> QED
  BY <1>3, <1>4

LEMMA ExitedFacts ==
  ASSUME NEW s \in Sessions, NEW e \in Nat, NEW u \in BOOLEAN
  PROVE  Exited(s, e, u) \in Sessions /\ Exited(s, e, u).state = "DISARMED"
<1> DEFINE known == [s EXCEPT !.control = e]
<1>1. known \in Sessions /\ known.state = s.state
  BY DEF Sessions
<1> QED
  BY <1>1, DisarmFacts DEF Exited

LEMMA RequestedFacts ==
  ASSUME NEW s \in Sessions, NEW r \in Nat, NEW on \in BOOLEAN, s.state # "DISARMED"
  PROVE  /\ Requested(s, r, on) \in Sessions
         /\ Requested(s, r, on).installed = s.installed
         /\ Requested(s, r, on).state # "DISARMED"
         /\ on => Requested(s, r, on).state = "WEB_TX"
         /\ ~on /\ s.state = "USB_TX" =>
              Requested(s, r, on).state = "USB_TX" /\ Requested(s, r, on).owner = s.owner
<1>1. CASE on
  <2> DEFINE o == s.owner + 1
  <2>1. /\ o \in Nat /\ 0 \in Nat /\ "WEB_TX" \in Owners
        /\ LeaseTimeout \in 0..LeaseTimeout
    BY SessionParts
  <2> HIDE DEF o
  <2>2. [s EXCEPT !.state = "WEB_TX", !.owner = o, !.lease = r, !.left = LeaseTimeout,
                  !.last = r] \in Sessions
    BY <2>1 DEF Sessions
  <2>3. Requested(s, r, on) \in Sessions
    BY <1>1, <2>2 DEF Requested, o
  <2>4. Requested(s, r, on).installed = s.installed /\ Requested(s, r, on).state = "WEB_TX"
    BY <1>1 DEF Requested, Sessions
  <2> QED
    BY <1>1, <2>3, <2>4
<1>2. CASE ~on
  <2>1. ReturnToUsb(s) \in Sessions /\ ReturnToUsb(s).state \in {"USB_TX", "WEB_TX"}
    BY ReturnToUsbFacts DEF Sessions, Owners
  <2> QED
    BY <1>2, <2>1, ReturnToUsbFacts DEF Requested, Sessions, Owners
<1> QED
  BY <1>1, <1>2

LEMMA RevokedFacts ==
  ASSUME NEW s \in Sessions, NEW e \in Nat
  PROVE  /\ Revoked(s, e) \in Sessions
         /\ Revoked(s, e).installed = s.installed
         /\ s.state # "WEB_TX" => Revoked(s, e).state = s.state /\ Revoked(s, e).owner = s.owner
         /\ s.state = "WEB_TX" => Revoked(s, e).state = "USB_TX"
<1> DEFINE t == ReturnToUsb(s)
<1>1. /\ t \in Sessions /\ t.installed = s.installed
      /\ s.state # "WEB_TX" => t = s
      /\ s.state = "WEB_TX" => t.state = "USB_TX"
  BY ReturnToUsbFacts
<1> HIDE DEF t
<1>2. [t EXCEPT !.web = e, !.last = 0] \in Sessions
  BY <1>1, 0 \in Nat DEF Sessions
<1>3. /\ [t EXCEPT !.web = e, !.last = 0].state = t.state
      /\ [t EXCEPT !.web = e, !.last = 0].owner = t.owner
      /\ [t EXCEPT !.web = e, !.last = 0].installed = t.installed
  BY <1>1 DEF Sessions
<1> QED
  BY <1>1, <1>2, <1>3 DEF Revoked, t

LEMMA RenewedFacts ==
  ASSUME NEW s \in Sessions
  PROVE  /\ Renewed(s) \in Sessions
         /\ Renewed(s).state = s.state /\ Renewed(s).owner = s.owner
         /\ Renewed(s).installed = s.installed
BY LeaseAssumption DEF Renewed, Sessions, Owners

LEMMA PublishedFacts ==
  ASSUME NEW s \in Sessions, Published(s)
  PROVE  /\ session' \in Sessions /\ snapshot' \in Views /\ authority' \in Nat
         /\ session' = s
         /\ authority' # 0 => s.state = "USB_TX" /\ authority' = s.owner
BY DEF Published, Sessions, Views, View, AuthorityOf, Owners
-----------------------------------------------------------------------------
(* Type correctness *)

LEMMA CommandTyped ==
  ASSUME NEW k \in Kinds, NEW e \in Nat
  PROVE  Command(k, e) \in Commands
BY DEF Command, Commands

LEMMA Queued ==
  ASSUME TypeOK, NEW c \in Commands
  PROVE  /\ SendBack(c) => commands' \in Seq(Commands) /\ Len(commands') <= CommandDepth
         /\ SendFront(c) => commands' \in Seq(Commands) /\ Len(commands') <= CommandDepth
<1>1. CommandDepth \in Nat /\ commands \in Seq(Commands) /\ Len(commands) \in Nat
  BY ServiceAssumption DEF TypeOK
<1>2. ASSUME SendBack(c)
      PROVE  commands' \in Seq(Commands) /\ Len(commands') <= CommandDepth
  BY <1>1, <1>2 DEF SendBack, Room
<1>3. ASSUME SendFront(c)
      PROVE  commands' \in Seq(Commands) /\ Len(commands') <= CommandDepth
  <2>1. <<c>> \in Seq(Commands) /\ Len(<<c>>) = 1
    OBVIOUS
  <2>2. /\ <<c>> \o commands \in Seq(Commands)
        /\ Len(<<c>> \o commands) = 1 + Len(commands)
    BY <1>1, <2>1, ConcatProperties
  <2> QED
    BY <1>1, <1>3, <2>2 DEF SendFront, Room
<1> QED
  BY <1>2, <1>3

LEMMA VoidedTyped ==
  ASSUME NEW q \in Seq(Commands)
  PROVE  Voided(q) \in Seq(Commands) /\ Len(Voided(q)) = Len(q)
<1>1. ASSUME NEW i \in 1..Len(q)
      PROVE  [q[i] EXCEPT !.void = TRUE] \in Commands
  <2> DEFINE c == q[i]
  <2>1. c \in Commands
    OBVIOUS
  <2> HIDE DEF c
  <2>2. [c EXCEPT !.void = TRUE] \in Commands
    BY <2>1 DEF Commands
  <2> QED
    BY <2>2 DEF c
<1>2. Len(q) \in Nat /\ DOMAIN q = 1..Len(q)
  OBVIOUS
<1> QED
  BY <1>1, <1>2 DEF Voided

LEMMA PressExitTyped ==
  ASSUME TypeOK, PressExit
  PROVE  commands' \in Seq(Commands) /\ Len(commands') <= CommandDepth
<1> DEFINE c == Command("exit", control')
<1>1. CommandDepth \in Nat /\ commands \in Seq(Commands) /\ Len(commands) \in Nat
  BY ServiceAssumption DEF TypeOK
<1>2. c \in Commands
  <2>1. control' \in Nat
    BY DEF PressExit, TypeOK
  <2>2. "exit" \in Kinds
    BY DEF Kinds
  <2> QED
    BY <2>1, <2>2, CommandTyped
<1>3. /\ Voided(commands) \in Seq(Commands)
      /\ Len(Voided(commands)) = Len(commands)
  BY <1>1, VoidedTyped
<1>4. <<c>> \in Seq(Commands) /\ Len(<<c>>) = 1
  BY <1>2
<1>5. /\ <<c>> \o Voided(commands) \in Seq(Commands)
      /\ Len(<<c>> \o Voided(commands)) = 1 + Len(commands)
  BY <1>1, <1>3, <1>4, ConcatProperties
<1> HIDE DEF c
<1>6. CASE Room /\ commands' = <<c>> \o Voided(commands)
  BY <1>1, <1>5, <1>6 DEF Room
<1>7. CASE UNCHANGED commands
  BY <1>1, <1>7 DEF TypeOK
<1> QED
  BY <1>6, <1>7 DEF PressExit, c

(* A command the owner takes is a command, and the queue stays one. *)
LEMMA Taken ==
  ASSUME TypeOK, NEW k, Take(k)
  PROVE  /\ Head(commands) \in Commands /\ Head(commands).epoch \in Nat
         /\ Head(commands).session \in Nat /\ Head(commands).id \in Nat
         /\ Head(commands).enable \in BOOLEAN
         /\ commands' \in Seq(Commands) /\ Len(commands') <= CommandDepth
<1>1. /\ commands \in Seq(Commands) /\ commands # << >> /\ commands' = Tail(commands)
      /\ CommandDepth \in Nat /\ Len(commands) <= CommandDepth
  BY ServiceAssumption DEF Take, TypeOK
<1>2. Head(commands) \in Commands
  BY <1>1
<1>3. Tail(commands) \in Seq(Commands) /\ Len(Tail(commands)) = Len(commands) - 1
  BY <1>1
<1>4. Len(commands) \in Nat
  BY <1>1
<1>5. commands' \in Seq(Commands) /\ Len(commands') <= CommandDepth
  BY <1>1, <1>3, <1>4
<1> QED
  BY <1>2, <1>5 DEF Commands
-----------------------------------------------------------------------------
(* The inductive invariant: ownership, the pin and the driver in step.     *)
Safe == AuthorisedIsOwner /\ PinFollowsOwner

Inv == TypeOK /\ Safe

LEMMA QuietSafe ==
  ASSUME Inv, UNCHANGED <<session, authority, pendingUsb, pin, stopped>>
  PROVE  Safe'
BY DEF Inv, Safe, AuthorisedIsOwner, PinFollowsOwner

(* The producers of commands change the queue, the epochs and themselves. *)
LEMMA ProducersTyped ==
  ASSUME Inv, Apart,
         commands' \in Seq(Commands), Len(commands') <= CommandDepth,
         control' \in Nat, web' \in Nat, asked' \in Seq(Nat), key' \in BOOLEAN,
         stop' \in Stops, usbTask' = usbTask
  PROVE  Inv'
<1>1. TypeOK'
  BY DEF Inv, TypeOK, Apart, input
<1>2. Safe'
  BY QuietSafe DEF Apart, input
<1> QED
  BY <1>1, <1>2 DEF Inv

LEMMA ProducersStep ==
  ASSUME Inv,
         \/ PressEnter \/ EnqueueEnter \/ PressExit \/ RequestWeb \/ WebActivity
         \/ WebDisconnect \/ RevokeWebTransport \/ StopRequest \/ StopSend
  PROVE  Inv'
<1> USE DEF Inv
<1>0. /\ commands \in Seq(Commands) /\ Len(commands) <= CommandDepth
      /\ control \in Nat /\ web \in Nat /\ asked \in Seq(Nat) /\ key \in BOOLEAN
      /\ stop \in Stops /\ snapshot \in Views
  BY DEF TypeOK
<1>k. /\ "enter" \in Kinds /\ "request_web" \in Kinds /\ "web_activity" \in Kinds
      /\ "web_disconnect" \in Kinds /\ "revoke_web_transport" \in Kinds /\ "stop" \in Kinds
  BY DEF Kinds
<1>1. CASE PressEnter
  BY <1>0, <1>1, ProducersTyped DEF PressEnter
<1>2. CASE EnqueueEnter
  <2>1. Command("enter", control) \in Commands
    BY <1>0, <1>k, CommandTyped
  <2>2. commands' \in Seq(Commands) /\ Len(commands') <= CommandDepth
    BY <1>0, <1>2, <2>1, Queued DEF EnqueueEnter
  <2> QED
    BY <1>0, <1>2, <2>2, ProducersTyped DEF EnqueueEnter
<1>3. CASE PressExit
  <2>1. control' \in Nat
    BY <1>0, <1>3 DEF PressExit
  <2>2. Apart /\ UNCHANGED <<web, usbTask, asked, key, stop>>
    BY <1>3 DEF PressExit, Producing
  <2> QED
    BY <1>0, <1>3, <2>1, <2>2, PressExitTyped, ProducersTyped
<1>4. CASE RequestWeb
  <2>0. asked' = Append(asked, web)
    BY <1>4 DEF RequestWeb
  <2>1. asked' \in Seq(Nat) /\ Len(asked') \in Nat
    BY <1>0, <2>0
  <2>2. PICK on \in BOOLEAN :
          SendBack([Command("request_web", web) EXCEPT
                      !.session = snapshot.session, !.id = Len(asked'), !.enable = on])
    BY <1>4 DEF RequestWeb
  <2>3. Command("request_web", web) \in Commands /\ snapshot.session \in Nat
    BY <1>0, <1>k, CommandTyped DEF Views
  <2>4. [Command("request_web", web) EXCEPT
           !.session = snapshot.session, !.id = Len(asked'), !.enable = on] \in Commands
    BY <2>1, <2>3 DEF Commands
  <2>5. commands' \in Seq(Commands) /\ Len(commands') <= CommandDepth
    BY <2>2, <2>4, Queued
  <2>6. Apart /\ UNCHANGED <<control, web, usbTask, key, stop>>
    BY <1>4 DEF RequestWeb, Producing
  <2> QED
    BY <1>0, <2>1, <2>5, <2>6, ProducersTyped
<1>5. ASSUME NEW k \in Kinds, WebLease(k)
      PROVE  Inv'
  <2>1. Command(k, control) \in Commands /\ snapshot.session \in Nat /\ snapshot.lease \in Nat
    BY <1>0, CommandTyped DEF Views
  <2>2. [Command(k, control) EXCEPT !.session = snapshot.session, !.id = snapshot.lease]
          \in Commands
    BY <2>1 DEF Commands
  <2>3. commands' \in Seq(Commands) /\ Len(commands') <= CommandDepth
    BY <1>5, <2>2, Queued DEF WebLease
  <2>4. Apart /\ UNCHANGED <<control, web, usbTask, asked, key, stop>>
    BY <1>5 DEF WebLease, Producing
  <2> QED
    BY <1>0, <2>3, <2>4, ProducersTyped
<1>6. CASE RevokeWebTransport
  <2>1. web' \in Nat
    BY <1>0, <1>6 DEF RevokeWebTransport
  <2>2. Command("revoke_web_transport", web') \in Commands
    BY <1>k, <2>1, CommandTyped
  <2>3. commands' \in Seq(Commands) /\ Len(commands') <= CommandDepth
    BY <1>0, <1>6, <2>2, Queued DEF RevokeWebTransport
  <2>4. Apart /\ UNCHANGED <<control, usbTask, asked, key, stop>>
    BY <1>6 DEF RevokeWebTransport, Producing
  <2> QED
    BY <1>0, <2>1, <2>3, <2>4, ProducersTyped
<1>7. CASE StopRequest
  <2>1. control' \in Nat
    BY <1>0, <1>7 DEF StopRequest
  <2>2. stop' \in Stops
    BY <1>7 DEF StopRequest, Stops
  <2> QED
    BY <1>0, <1>7, <2>1, <2>2, ProducersTyped DEF StopRequest, host
<1>8. CASE StopSend
  <2>1. Command("stop", control) \in Commands
    BY <1>0, <1>k, CommandTyped
  <2>2. commands' \in Seq(Commands) /\ Len(commands') <= CommandDepth
    BY <1>0, <1>8, <2>1, Queued DEF StopSend
  <2>3. stop' \in Stops
    BY <1>0, <1>8 DEF StopSend, Stops
  <2> QED
    BY <1>0, <1>8, <2>2, <2>3, ProducersTyped DEF StopSend, host
<1> QED
  BY <1>1, <1>2, <1>3, <1>4, <1>5, <1>6, <1>7, <1>8, <1>k DEF WebActivity, WebDisconnect

(* The producers of input touch no ownership. *)
LEMMA InputStep ==
  ASSUME Inv, UsbRead \/ UsbSubmit \/ SubmitWeb
  PROVE  Inv'
<1> USE DEF Inv
<1>1. CASE UsbRead
  <2>1. TypeOK'
    BY <1>1 DEF UsbRead, TypeOK, input
  <2>2. Safe'
    BY <1>1, QuietSafe DEF UsbRead, input
  <2> QED
    BY <2>1, <2>2
<1>2. CASE UsbSubmit
  <2>1. usbTask' = 0 /\ usbTask' \in Nat
    BY <1>2 DEF UsbSubmit
  <2>0. usbQueue \in Seq(Nat) /\ usbTask \in Nat
    BY DEF TypeOK
  <2>2. usbQueue' \in Seq(Nat)
    <3>1. usbQueue' = Append(usbQueue, usbTask) \/ usbQueue' = usbQueue
      BY <1>2 DEF UsbSubmit
    <3> QED
      BY <2>0, <3>1
  <2>3. TypeOK'
    BY <1>2, <2>1, <2>2 DEF UsbSubmit, TypeOK
  <2>4. Safe'
    BY <1>2, QuietSafe DEF UsbSubmit
  <2> QED
    BY <2>3, <2>4
<1>3. CASE SubmitWeb
  <2>1. [session |-> snapshot.session, lease |-> snapshot.lease] \in WebStamps
    BY DEF TypeOK, Views, WebStamps
  <2>2. webQueue' \in Seq(WebStamps)
    BY <1>3, <2>1 DEF SubmitWeb, TypeOK
  <2>3. TypeOK'
    BY <1>3, <2>2 DEF SubmitWeb, TypeOK, host
  <2>4. Safe'
    BY <1>3, QuietSafe DEF SubmitWeb
  <2> QED
    BY <2>3, <2>4
<1> QED
  BY <1>1, <1>2, <1>3

(* Draining sends or rejects one block; a USB block is authorised only     *)
(* under the present ownership.                                            *)
LEMMA DrainStep ==
  ASSUME Inv, SendWeb \/ RejectWeb \/ SendUsb \/ RejectUsb \/ Elapse
  PROVE  Inv'
<1> USE DEF Inv
<1>1. ASSUME NEW b \in {NoBlock, WebBlock}, DrainWeb(b)
      PROVE  Inv'
  <2>1. webQueue' \in Seq(WebStamps) /\ pendingWeb' \in WebStamps \cup {NoBlock}
    BY <1>1 DEF DrainWeb, WebBlock, TypeOK
  <2>2. TypeOK'
    BY <1>1, <2>1 DEF DrainWeb, KeepUsb, Idle, host, TypeOK
  <2>3. Safe'
    BY <1>1, QuietSafe DEF DrainWeb, KeepUsb, Idle
  <2> QED
    BY <2>2, <2>3
<1>2. ASSUME NEW b, DrainUsb(b), b \in [owner : Nat, authorised : BOOLEAN],
             b.authorised => UsbAccepted /\ b.owner = UsbBlock.owner
      PROVE  Inv'
  <2>1. usbQueue' \in Seq(Nat) /\ pendingUsb' = b
    BY <1>2 DEF DrainUsb, TypeOK
  <2>2. TypeOK'
    BY <1>2, <2>1 DEF DrainUsb, Idle, host, TypeOK
  <2>3. /\ UNCHANGED <<session, authority, pin, stopped>>
        /\ session.installed
    BY <1>2 DEF DrainUsb, Idle, Draining
  <2>4. ASSUME b.authorised
        PROVE  session.state = "USB_TX" /\ b.owner = session.owner
    BY <1>2, <2>4 DEF UsbAccepted, UsbBlock, AcceptUsbInput, Safe, AuthorisedIsOwner, NoUsb
  <2>5. Safe'
    BY <2>1, <2>3, <2>4 DEF Safe, AuthorisedIsOwner, PinFollowsOwner
  <2> QED
    BY <2>2, <2>5
<1>3. NoUsb \in [owner : Nat, authorised : BOOLEAN] /\ ~NoUsb.authorised
  BY DEF NoUsb
<1>4. CASE SendUsb
  <2>1. pendingUsb # NoUsb \/ usbQueue # << >>
    BY <1>4 DEF SendUsb
  <2>2. UsbBlock \in [owner : Nat, authorised : BOOLEAN]
    BY <2>1 DEF UsbBlock, TypeOK
  <2>3. PICK b \in {NoUsb, [UsbBlock EXCEPT !.authorised = TRUE]} : UsbAccepted /\ DrainUsb(b)
    BY <1>4 DEF SendUsb
  <2>4. CASE b = NoUsb
    BY <1>2, <1>3, <2>3, <2>4
  <2>5. CASE b = [UsbBlock EXCEPT !.authorised = TRUE]
    <3>1. b \in [owner : Nat, authorised : BOOLEAN] /\ b.owner = UsbBlock.owner
      BY <2>2, <2>5
    <3> QED
      BY <1>2, <2>3, <3>1
  <2> QED
    BY <2>3, <2>4, <2>5
<1>5. CASE Elapse
  <2> DEFINE n == session.left - 1
  <2>0. session \in Sessions /\ session.left > 0
    BY <1>5 DEF Elapse, TypeOK
  <2>a. session.left \in 0..LeaseTimeout
    BY <2>0 DEF Sessions
  <2>1. session \in Sessions /\ n \in 0..LeaseTimeout
    BY <2>0, <2>a, LeaseAssumption
  <2> HIDE DEF n
  <2>2. /\ [session EXCEPT !.left = n] \in Sessions
        /\ [session EXCEPT !.left = n].state = session.state
        /\ [session EXCEPT !.left = n].owner = session.owner
        /\ [session EXCEPT !.left = n].installed = session.installed
    BY <2>1 DEF Sessions
  <2>3. session' = [session EXCEPT !.left = n]
    BY <1>5 DEF Elapse, n
  <2>4. TypeOK'
    BY <1>5, <2>2, <2>3 DEF Elapse, TypeOK, host, input
  <2>5. Safe'
    BY <1>5, <2>2, <2>3 DEF Elapse, Safe, AuthorisedIsOwner, PinFollowsOwner, input
  <2> QED
    BY <2>4, <2>5
<1> QED
  BY <1>1, <1>2, <1>3, <1>4, <1>5 DEF SendWeb, RejectWeb, RejectUsb

-----------------------------------------------------------------------------
(* The owner task *)

(* A step of the owner that publishes a session: what is left to show is   *)
(* that the authorised USB block and the pin follow it.                    *)
LEMMA OwnerPublishes ==
  ASSUME Inv, NEW s \in Sessions, Published(s),
         NEW k, Take(k),
         control' = control, web' = web, completed' \in Nat, asked' = asked, key' = key,
         stop' = stop, stopped' \in BOOLEAN, usbTask' \in Nat,
         usbQueue' \in Seq(Nat), pendingUsb' \in {pendingUsb, NoUsb},
         webQueue' \in Seq(WebStamps), pendingWeb' \in {pendingWeb, NoBlock},
         pin' \in {"uart", "high_impedance"},
         pendingUsb' = NoUsb
           \/ (s.state = session.state /\ s.owner = session.owner /\ s.installed = session.installed)
           \/ session.state # "USB_TX",
         s.state = "DISARMED" <=> pin' = "high_impedance",
         s.state # "DISARMED" => s.installed,
         stopped' => s.state = "DISARMED" /\ ~s.installed
  PROVE  Inv'
<1>1. /\ session' \in Sessions /\ snapshot' \in Views /\ authority' \in Nat
      /\ session' = s
      /\ authority' # 0 => s.state = "USB_TX" /\ authority' = s.owner
  BY PublishedFacts
<1>2. commands' \in Seq(Commands) /\ Len(commands') <= CommandDepth
  BY Taken DEF Inv
<1>0. /\ pendingUsb \in [owner : Nat, authorised : BOOLEAN]
      /\ pendingWeb \in WebStamps \cup {NoBlock}
  BY DEF Inv, TypeOK
<1>n. NoUsb \in [owner : Nat, authorised : BOOLEAN]
  BY DEF NoUsb
<1>3. /\ pendingUsb' \in [owner : Nat, authorised : BOOLEAN]
      /\ pendingWeb' \in WebStamps \cup {NoBlock}
  BY <1>0, <1>n
<1>4. TypeOK'
  BY <1>1, <1>2, <1>3 DEF Inv, TypeOK
<1>5. ASSUME pendingUsb'.authorised
      PROVE  s.state = "USB_TX" /\ s.installed /\ pendingUsb'.owner = s.owner
  <2>1. pendingUsb' = pendingUsb /\ pendingUsb.authorised
    BY <1>5 DEF NoUsb
  <2>2. session.state = "USB_TX" /\ session.installed /\ pendingUsb.owner = session.owner
    BY <2>1 DEF Inv, Safe, AuthorisedIsOwner
  <2>3. pendingUsb' # NoUsb
    BY <1>5 DEF NoUsb
  <2> QED
    BY <2>1, <2>2, <2>3
<1>6. AuthorisedIsOwner'
  BY <1>1, <1>5 DEF AuthorisedIsOwner
<1>7. PinFollowsOwner'
  BY <1>1 DEF PinFollowsOwner
<1> QED
  BY <1>4, <1>6, <1>7 DEF Inv, Safe

(* The input the owner keeps or clears on the way. *)
LEMMA InputKept ==
  ASSUME Inv
  PROVE  /\ KeepUsb => usbQueue' \in Seq(Nat) /\ pendingUsb' = pendingUsb
         /\ ClearUsb => usbQueue' \in Seq(Nat) /\ pendingUsb' = NoUsb
         /\ ClearWeb => webQueue' \in Seq(WebStamps) /\ pendingWeb' = NoBlock
         /\ KeepWeb => webQueue' \in Seq(WebStamps) /\ pendingWeb' \in {pendingWeb, NoBlock}
         /\ \A gone \in BOOLEAN : TaskJoined(gone) => usbTask' \in Nat
<1>1. /\ usbQueue \in Seq(Nat) /\ webQueue \in Seq(WebStamps) /\ usbTask \in Nat
      /\ << >> \in Seq(Nat) /\ << >> \in Seq(WebStamps)
  BY DEF Inv, TypeOK
<1>2. KeepUsb => usbQueue' \in Seq(Nat) /\ pendingUsb' = pendingUsb
  BY <1>1 DEF KeepUsb
<1>3. ClearUsb => usbQueue' \in Seq(Nat) /\ pendingUsb' = NoUsb
  BY <1>1 DEF ClearUsb
<1>4. ClearWeb => webQueue' \in Seq(WebStamps) /\ pendingWeb' = NoBlock
  BY <1>1 DEF ClearWeb
<1>5. KeepWeb => webQueue' \in Seq(WebStamps) /\ pendingWeb' \in {pendingWeb, NoBlock}
  BY <1>1, <1>4 DEF KeepWeb
<1>6. \A gone \in BOOLEAN : TaskJoined(gone) => usbTask' \in Nat
  BY <1>1 DEF TaskJoined
<1> QED
  BY <1>2, <1>3, <1>4, <1>5, <1>6

(* The tick alone. *)
LEMMA TickedSafe ==
  ASSUME Inv
  PROVE  /\ session \in Sessions /\ Ticked \in Sessions
         /\ Ticked = session \/ session.state # "USB_TX"
         /\ Ticked.state = "DISARMED" <=> session.state = "DISARMED"
         /\ Ticked.state = "DISARMED" => Ticked = session
         /\ Ticked.state = "DISARMED" <=> pin = "high_impedance"
         /\ Ticked.state # "DISARMED" => Ticked.installed
         /\ Ticked.installed = session.installed
         /\ stopped => Ticked.state = "DISARMED" /\ ~Ticked.installed
<1>1. session \in Sessions
  BY DEF Inv, TypeOK
<1> QED
  BY <1>1, TickedFacts DEF Inv, Safe, PinFollowsOwner

LEMMA OwnerExitsStep ==
  ASSUME Inv, NEW k, OwnerExits(k), stopped' \in BOOLEAN,
         stopped' = stopped \/ stopped' = ~session'.installed
  PROVE  Inv'
<1> DEFINE c == Head(commands)
<1>1. ~stopped /\ Take(k) /\ c.epoch \in Nat
  BY Taken DEF OwnerExits, Take, Inv
<1>2. UNCHANGED <<control, web, completed, asked, key, stop>> /\ completed \in Nat
  BY DEF OwnerExits, Inv, TypeOK
<1>3. CASE /\ Published(Ticked)
           /\ KeepUsb /\ KeepWeb /\ TaskJoined(FALSE) /\ UNCHANGED pin
  <2>1. session' = Ticked
    BY <1>3 DEF Published
  <2>2. pin' \in {"uart", "high_impedance"}
    BY <1>3 DEF Inv, TypeOK
  <2>3. stopped' => Ticked.state = "DISARMED" /\ ~Ticked.installed
    BY <1>1, <2>1, TickedSafe
  <2> QED
    BY <1>1, <1>2, <1>3, <2>2, <2>3, InputKept, TickedSafe, OwnerPublishes
<1>4. ASSUME NEW u \in BOOLEAN,
             Published(Exited(Ticked, c.epoch, u)),
             ClearUsb, ClearWeb, TaskJoined(u), pin' = "high_impedance"
      PROVE  Inv'
  <2> DEFINE s == Exited(Ticked, c.epoch, u)
  <2>1. s \in Sessions /\ s.state = "DISARMED"
    BY <1>1, TickedSafe, ExitedFacts
  <2> HIDE DEF s
  <2>2. session' = s
    BY <1>4 DEF Published, s
  <2>3. stopped' => ~s.installed
    BY <1>1, <2>2
  <2>4. Published(s)
    BY <1>4 DEF s
  <2> QED
    BY <1>1, <1>2, <1>4, <2>1, <2>3, <2>4, InputKept, OwnerPublishes
<1> QED
  BY <1>3, <1>4 DEF OwnerExits

LEMMA OwnerStep ==
  ASSUME Inv,
         \/ OwnerTick \/ OwnerEnter \/ OwnerExit \/ OwnerStop \/ OwnerRequest
         \/ OwnerActivity \/ OwnerDisconnect \/ OwnerRevoke
  PROVE  Inv'
<1> DEFINE c == Head(commands)
<1>0. /\ completed \in Nat /\ usbTask \in Nat /\ stopped \in BOOLEAN
      /\ pin \in {"uart", "high_impedance"}
  BY DEF Inv, TypeOK
<1>1. CASE OwnerTick
  <2>1. Published(Ticked) /\ Ticked \in Sessions
    BY <1>1, TickedSafe DEF OwnerTick
  <2>2. /\ session' \in Sessions /\ snapshot' \in Views /\ authority' \in Nat
        /\ session' = Ticked
        /\ authority' # 0 => Ticked.state = "USB_TX" /\ authority' = Ticked.owner
    BY <2>1, PublishedFacts
  <2>3. /\ usbQueue' = usbQueue /\ pendingUsb' = pendingUsb
        /\ webQueue' = << >> /\ pendingWeb' = NoBlock
    BY <1>1 DEF OwnerTick, KeepUsb, ClearWeb
  <2>4. << >> \in Seq(WebStamps)
    OBVIOUS
  <2>5. TypeOK'
    BY <1>1, <2>2, <2>3, <2>4 DEF OwnerTick, host, Inv, TypeOK
  <2>6. session.state = "WEB_TX" /\ ~pendingUsb.authorised
    BY <1>1 DEF OwnerTick, LeaseExpired, Inv, Safe, AuthorisedIsOwner
  <2>7. pin' = pin /\ stopped' = stopped
    BY <1>1 DEF OwnerTick
  <2>8. Safe'
    BY <2>2, <2>3, <2>6, <2>7, TickedSafe DEF Safe, AuthorisedIsOwner, PinFollowsOwner
  <2> QED
    BY <2>5, <2>8 DEF Inv
<1>2. CASE OwnerEnter
  <2>1. ~stopped /\ Take("enter") /\ c.epoch \in Nat
    BY <1>2, Taken DEF OwnerEnter, Take, Inv
  <2>2. UNCHANGED <<control, web, completed, asked, key, stop, stopped>>
    BY <1>2 DEF OwnerEnter
  <2>3. CASE /\ Published(Ticked)
             /\ KeepUsb /\ KeepWeb /\ TaskJoined(FALSE) /\ UNCHANGED pin
    BY <1>0, <2>1, <2>2, <2>3, InputKept, TickedSafe, OwnerPublishes
  <2>4. CASE /\ EnterAdmitted(Ticked, c.epoch)
             /\ Published(Ticked) /\ pin' = "high_impedance"
             /\ KeepUsb /\ KeepWeb /\ TaskJoined(FALSE)
    <3>1. Ticked.state = "DISARMED"
      BY <2>4 DEF EnterAdmitted
    <3> QED
      BY <1>0, <2>1, <2>2, <2>4, <3>1, InputKept, TickedSafe, OwnerPublishes
  <2>5. CASE /\ Published(Entered(Ticked)) /\ pin' = "uart"
             /\ ClearUsb /\ ClearWeb /\ TaskJoined(TRUE)
    BY <1>0, <2>1, <2>2, <2>5, InputKept, TickedSafe, EnteredFacts, OwnerPublishes
  <2>6. ASSUME NEW i \in BOOLEAN, EnterAdmitted(Ticked, c.epoch),
               Published([Ticked EXCEPT !.installed = i]), pin' = "high_impedance",
               ClearUsb, ClearWeb, TaskJoined(TRUE)
        PROVE  Inv'
    <3> DEFINE t == Ticked
               s == [t EXCEPT !.installed = i]
    <3>1. t \in Sessions /\ t.state = "DISARMED"
      BY <2>6, TickedSafe DEF EnterAdmitted
    <3> HIDE DEF t
    <3>2. s \in Sessions /\ s.state = "DISARMED"
      BY <3>1 DEF Sessions
    <3>3. Published(s)
      BY <2>6 DEF t
    <3> HIDE DEF s
    <3> QED
      BY <1>0, <2>1, <2>2, <2>6, <3>2, <3>3, InputKept, OwnerPublishes
  <2>7. \/ /\ Published(Ticked)
           /\ KeepUsb /\ KeepWeb /\ TaskJoined(FALSE) /\ UNCHANGED pin
        \/ /\ EnterAdmitted(Ticked, c.epoch)
           /\ Published(Ticked) /\ pin' = "high_impedance"
           /\ KeepUsb /\ KeepWeb /\ TaskJoined(FALSE)
        \/ /\ Published(Entered(Ticked)) /\ pin' = "uart"
           /\ ClearUsb /\ ClearWeb /\ TaskJoined(TRUE)
        \/ \E i \in BOOLEAN :
             /\ EnterAdmitted(Ticked, c.epoch)
             /\ Published([Ticked EXCEPT !.installed = i]) /\ pin' = "high_impedance"
             /\ ClearUsb /\ ClearWeb /\ TaskJoined(TRUE)
    BY <1>2 DEF OwnerEnter
  <2> QED
    BY <2>3, <2>4, <2>5, <2>6, <2>7
<1>3. CASE OwnerExit
  BY <1>0, <1>3, OwnerExitsStep DEF OwnerExit
<1>4. CASE OwnerStop
  <2>1. stopped' \in BOOLEAN
    BY <1>4 DEF OwnerStop
  <2> QED
    BY <1>4, <2>1, OwnerExitsStep DEF OwnerStop
<1>5. CASE OwnerRequest
  <2>1. /\ Take("request_web") /\ c.epoch \in Nat /\ c.id \in Nat /\ c.enable \in BOOLEAN
    BY <1>5, Taken DEF OwnerRequest, Inv
  <2>2. /\ UNCHANGED <<control, web, completed, asked, key, stop, stopped>>
        /\ usbTask' = usbTask /\ pin' = pin
    BY <1>5 DEF OwnerRequest, host
  <2>3. CASE Published(Ticked) /\ KeepUsb /\ KeepWeb
    BY <1>0, <2>1, <2>2, <2>3, InputKept, TickedSafe, OwnerPublishes
  <2>4. CASE /\ RequestAdmitted(Ticked, c.epoch, c.session, c.id)
             /\ Published(Requested(Ticked, c.id, c.enable))
             /\ IF c.enable /\ Ticked.state = "USB_TX" THEN ClearUsb ELSE KeepUsb
             /\ IF ~c.enable /\ Ticked.state = "WEB_TX" THEN ClearWeb ELSE KeepWeb
    <3> DEFINE s == Requested(Ticked, c.id, c.enable)
    <3>1. Ticked.state # "DISARMED" /\ Ticked.installed /\ Ticked \in Sessions
      BY <2>4, TickedSafe DEF RequestAdmitted
    <3>2. /\ s \in Sessions /\ s.installed /\ s.state # "DISARMED"
          /\ ~c.enable /\ Ticked.state = "USB_TX" =>
               s.state = "USB_TX" /\ s.owner = Ticked.owner
      BY <2>1, <3>1, RequestedFacts
    <3>3. /\ usbQueue' \in Seq(Nat) /\ pendingUsb' \in {pendingUsb, NoUsb}
          /\ webQueue' \in Seq(WebStamps) /\ pendingWeb' \in {pendingWeb, NoBlock}
      BY <2>4, InputKept
    <3>4. ASSUME session.state = "USB_TX"
          PROVE  \/ pendingUsb' = NoUsb
                 \/ /\ s.state = session.state /\ s.owner = session.owner
                    /\ s.installed = session.installed
      <4>1. Ticked = session
        BY <3>4, TickedSafe
      <4> QED
        BY <2>1, <2>4, <3>1, <3>2, <3>4, <4>1, InputKept
    <3>5. pin = "uart" /\ ~stopped
      BY <1>0, <3>1, TickedSafe
    <3>6. Published(s)
      BY <2>4
    <3> HIDE DEF s
    <3> QED
      BY <1>0, <2>1, <2>2, <3>2, <3>3, <3>4, <3>5, <3>6, OwnerPublishes
  <2> QED
    BY <1>5, <2>3, <2>4 DEF OwnerRequest
<1>6. CASE OwnerActivity
  <2>1. /\ Take("web_activity") /\ KeepUsb /\ KeepWeb
        /\ UNCHANGED <<control, web, completed, asked, key, stop, stopped>>
        /\ usbTask' = usbTask /\ pin' = pin
    BY <1>6 DEF OwnerActivity, host
  <2>2. CASE Published(Ticked)
    BY <1>0, <2>1, <2>2, InputKept, TickedSafe, OwnerPublishes
  <2>3. CASE HoldsLease(Ticked, c.session, c.id) /\ Published(Renewed(Ticked))
    <3>1. Ticked.state = "WEB_TX" /\ session.state # "USB_TX"
      BY <2>3, TickedSafe DEF HoldsLease
    <3>2. /\ Renewed(Ticked) \in Sessions /\ Renewed(Ticked).state = "WEB_TX"
          /\ Renewed(Ticked).installed
      BY <3>1, TickedSafe, RenewedFacts
    <3>3. pin = "uart" /\ ~stopped
      BY <1>0, <3>1, TickedSafe
    <3> QED
      BY <1>0, <2>1, <2>3, <3>1, <3>2, <3>3, InputKept, OwnerPublishes
  <2> QED
    BY <1>6, <2>2, <2>3 DEF OwnerActivity
<1>7. CASE OwnerDisconnect
  <2>1. /\ Take("web_disconnect")
        /\ UNCHANGED <<control, web, completed, asked, key, stop, stopped>>
        /\ usbTask' = usbTask /\ pin' = pin
    BY <1>7 DEF OwnerDisconnect, host
  <2>2. CASE Published(Ticked) /\ KeepUsb /\ KeepWeb
    BY <1>0, <2>1, <2>2, InputKept, TickedSafe, OwnerPublishes
  <2>3. CASE /\ HoldsLease(Ticked, c.session, c.id)
             /\ Published(ReturnToUsb(Ticked)) /\ KeepUsb /\ ClearWeb
    <3>1. Ticked.state = "WEB_TX" /\ session.state # "USB_TX"
      BY <2>3, TickedSafe DEF HoldsLease
    <3>2. /\ ReturnToUsb(Ticked) \in Sessions /\ ReturnToUsb(Ticked).state = "USB_TX"
          /\ ReturnToUsb(Ticked).installed
      BY <3>1, TickedSafe, ReturnToUsbFacts
    <3>3. pin = "uart" /\ ~stopped
      BY <1>0, <3>1, TickedSafe
    <3> QED
      BY <1>0, <2>1, <2>3, <3>1, <3>2, <3>3, InputKept, OwnerPublishes
  <2> QED
    BY <1>7, <2>2, <2>3 DEF OwnerDisconnect
<1>8. CASE OwnerRevoke
  <2>1. Take("revoke_web_transport") /\ c.epoch \in Nat
    BY <1>8, Taken DEF OwnerRevoke, Inv
  <2>2. /\ completed' \in Nat
        /\ UNCHANGED <<control, web, asked, key, stop, stopped>>
        /\ usbTask' = usbTask /\ pin' = pin
    BY <1>8, <2>1 DEF OwnerRevoke, host
  <2>3. CASE Published(Ticked) /\ KeepUsb /\ KeepWeb
    BY <1>0, <2>1, <2>2, <2>3, InputKept, TickedSafe, OwnerPublishes
  <2>4. CASE Published(Revoked(Ticked, c.epoch)) /\ KeepUsb /\ ClearWeb
    <3> DEFINE s == Revoked(Ticked, c.epoch)
    <3>1. /\ s \in Sessions /\ s.installed = Ticked.installed
          /\ Ticked.state # "WEB_TX" => s.state = Ticked.state /\ s.owner = Ticked.owner
          /\ Ticked.state = "WEB_TX" => s.state = "USB_TX"
      BY <2>1, TickedSafe, RevokedFacts
    <3>2. s.state = "DISARMED" <=> Ticked.state = "DISARMED"
      BY <3>1
    <3>3. \/ s.state = session.state /\ s.owner = session.owner /\ s.installed = session.installed
          \/ session.state # "USB_TX"
      BY <3>1, TickedSafe
    <3>4. Published(s)
      BY <2>4
    <3> HIDE DEF s
    <3> QED
      BY <1>0, <2>1, <2>2, <2>4, <3>1, <3>2, <3>3, <3>4, InputKept, TickedSafe, OwnerPublishes
  <2> QED
    BY <1>8, <2>3, <2>4 DEF OwnerRevoke
<1> QED
  BY <1>1, <1>2, <1>3, <1>4, <1>5, <1>6, <1>7, <1>8
-----------------------------------------------------------------------------
LEMMA Initially == Init => Inv
<1> SUFFICES ASSUME Init PROVE Inv
  OBVIOUS
<1>1. NewSession \in Sessions
  BY LeaseAssumption DEF NewSession, Sessions, Owners
<1>2. View(NewSession) \in Views
  BY DEF View, NewSession, Views, Owners
<1>3. /\ << >> \in Seq(Commands) /\ << >> \in Seq(Nat) /\ << >> \in Seq(WebStamps)
      /\ Len(<< >>) <= CommandDepth
  BY ServiceAssumption
<1>4. NoUsb \in [owner : Nat, authorised : BOOLEAN] /\ ~NoUsb.authorised
  BY DEF NoUsb
<1>5. TypeOK
  BY <1>1, <1>2, <1>3, <1>4 DEF Init, TypeOK, Stops
<1>6. NewSession.state = "DISARMED" /\ ~NewSession.installed
  BY DEF NewSession
<1>7. Safe
  BY <1>4, <1>6 DEF Init, Safe, AuthorisedIsOwner, PinFollowsOwner
<1> QED
  BY <1>5, <1>7 DEF Inv

LEMMA Stutters ==
  ASSUME Inv, UNCHANGED vars
  PROVE  Inv'
<1>1. TypeOK'
  BY DEF Inv, TypeOK, vars, host, input
<1>2. Safe'
  BY QuietSafe DEF vars, input
<1> QED
  BY <1>1, <1>2 DEF Inv

LEMMA Inductive == Inv /\ [Next]_vars => Inv'
BY ProducersStep, InputStep, OwnerStep, DrainStep, Stutters DEF Next

LEMMA Invariant == Spec => []Inv
BY Initially, Inductive, PTL DEF Spec

(* The serial service's state is well typed, and its command queue never   *)
(* holds more than its depth, in every reachable state.                    *)
THEOREM TypeCorrect == Spec => []TypeOK
<1>1. Inv => TypeOK
  BY DEF Inv
<1> QED
  BY <1>1, Invariant, PTL

(* No USB byte is sent under an ownership that has ended, however long its *)
(* block has been waiting half sent: the cached authorisation is safe.     *)
THEOREM OneOwner == Spec => []AuthorisedIsOwner
<1>1. Inv => AuthorisedIsOwner
  BY DEF Inv, Safe
<1> QED
  BY <1>1, Invariant, PTL

(* The target's TX pin is driven exactly while the session has an owner,   *)
(* whatever the UART driver refuses on the way in or out, and a stopped    *)
(* service leaves it released.                                             *)
THEOREM PinSafe == Spec => []PinFollowsOwner
<1>1. Inv => PinFollowsOwner
  BY DEF Inv, Safe
<1> QED
  BY <1>1, Invariant, PTL
-----------------------------------------------------------------------------
(* The command queue: entries go to the back, exits, stops and revocations *)
(* to the front.                                                           *)

(* An exit or a stop never waits behind an entry, and an entry that an     *)
(* accepted exit voided is older than that exit, which is still in front   *)
(* of it or was obeyed.                                                    *)
InOrder(q, newest, obeyed) ==
  /\ \A i, j \in DOMAIN q :
       i < j /\ q[i].kind = "enter" => q[j].kind \notin {"exit", "stop"}
  /\ \A i \in DOMAIN q :
       q[i].kind = "enter" =>
         /\ q[i].epoch <= newest
         /\ q[i].void =>
              \/ q[i].epoch < obeyed
              \/ \E j \in DOMAIN q : j < i /\ q[j].kind = "exit" /\ q[j].epoch > q[i].epoch

(* A revocation that waits is no newer than the Web epoch, and a request    *)
(* that waits has the epoch its id was asked under.                        *)
Stamped(c, known, ids) ==
  /\ c.kind = "revoke_web_transport" => c.epoch <= known
  /\ c.kind = "request_web" => c.id \in DOMAIN ids /\ ids[c.id] = c.epoch

AllStamped(q, known, ids) == \A i \in DOMAIN q : Stamped(q[i], known, ids)

LEMMA BackItems ==
  ASSUME NEW q \in Seq(Commands), NEW d \in Commands
  PROVE  /\ Len(q) \in Nat /\ DOMAIN q = 1..Len(q)
         /\ DOMAIN Append(q, d) = 1..(Len(q) + 1)
         /\ \A i \in 1..Len(q) : Append(q, d)[i] = q[i] /\ q[i] \in Commands
         /\ Append(q, d)[Len(q) + 1] = d
OBVIOUS

LEMMA FrontItems ==
  ASSUME NEW q \in Seq(Commands), NEW d \in Commands
  PROVE  /\ Len(q) \in Nat /\ DOMAIN q = 1..Len(q)
         /\ DOMAIN (<<d>> \o q) = 1..(Len(q) + 1)
         /\ (<<d>> \o q)[1] = d
         /\ \A i \in 2..(Len(q) + 1) :
              i - 1 \in 1..Len(q) /\ (<<d>> \o q)[i] = q[i - 1] /\ q[i - 1] \in Commands
<1>1. Len(q) \in Nat /\ DOMAIN q = 1..Len(q) /\ \A i \in 1..Len(q) : q[i] \in Commands
  OBVIOUS
<1>2. <<d>> \in Seq(Commands) /\ Len(<<d>>) = 1 /\ <<d>>[1] = d
  OBVIOUS
<1>3. /\ <<d>> \o q \in Seq(Commands)
      /\ Len(<<d>> \o q) = 1 + Len(q)
      /\ \A i \in 1..(1 + Len(q)) :
           (<<d>> \o q)[i] = IF i <= 1 THEN <<d>>[i] ELSE q[i - 1]
  BY <1>2, ConcatProperties
<1> DEFINE r == <<d>> \o q
<1> HIDE DEF r
<1>4. r \in Seq(Commands) /\ Len(r) = 1 + Len(q)
  BY <1>3 DEF r
<1>5. DOMAIN r = 1..(Len(q) + 1)
  BY <1>1, <1>4
<1>6. r[1] = d
  BY <1>1, <1>2, <1>3 DEF r
<1>7. \A i \in 2..(Len(q) + 1) : i - 1 \in 1..Len(q) /\ r[i] = q[i - 1]
  BY <1>1, <1>3 DEF r
<1> QED
  BY <1>1, <1>5, <1>6, <1>7 DEF r

LEMMA TailItems ==
  ASSUME NEW q \in Seq(Commands), q # << >>
  PROVE  /\ Len(q) \in Nat \ {0} /\ DOMAIN q = 1..Len(q)
         /\ DOMAIN Tail(q) = 1..(Len(q) - 1)
         /\ \A i \in 1..(Len(q) - 1) :
              i + 1 \in 1..Len(q) /\ Tail(q)[i] = q[i + 1] /\ q[i + 1] \in Commands
         /\ Head(q) = q[1] /\ 1 \in 1..Len(q) /\ q[1] \in Commands
OBVIOUS

LEMMA EpochTyped ==
  ASSUME NEW q \in Seq(Commands)
  PROVE  \A i \in DOMAIN q : q[i].epoch \in Nat
<1>1. \A i \in DOMAIN q : q[i] \in Commands
  OBVIOUS
<1> QED
  BY <1>1 DEF Commands

LEMMA InOrderBack ==
  ASSUME NEW q \in Seq(Commands), NEW d \in Commands, NEW n \in Nat, NEW s \in Nat,
         InOrder(q, n, s), d.kind \notin {"exit", "stop"},
         d.kind = "enter" => d.epoch <= n /\ ~d.void
  PROVE  InOrder(Append(q, d), n, s)
<1> DEFINE r == Append(q, d)
           l == Len(q)
<1>1. /\ l \in Nat /\ DOMAIN q = 1..l /\ DOMAIN r = 1..(l + 1) /\ r[l + 1] = d
      /\ \A i \in 1..l : r[i] = q[i]
  BY BackItems
<1> HIDE DEF r, l
<1>2. \A i \in DOMAIN r : (i \in DOMAIN q /\ r[i] = q[i]) \/ (i = l + 1 /\ r[i] = d)
  BY <1>1
<1>3. ASSUME NEW i \in DOMAIN r, NEW j \in DOMAIN r, i < j, r[i].kind = "enter"
      PROVE  r[j].kind \notin {"exit", "stop"}
  BY <1>1, <1>2, <1>3 DEF InOrder
<1>4. ASSUME NEW i \in DOMAIN r, r[i].kind = "enter"
      PROVE  /\ r[i].epoch <= n
             /\ r[i].void =>
                  \/ r[i].epoch < s
                  \/ \E j \in DOMAIN r : j < i /\ r[j].kind = "exit" /\ r[j].epoch > r[i].epoch
  <2>1. CASE i \in DOMAIN q /\ r[i] = q[i]
    BY <1>1, <1>4, <2>1 DEF InOrder
  <2>2. CASE r[i] = d
    BY <1>4, <2>2
  <2> QED
    BY <1>2, <2>1, <2>2
<1>5. InOrder(r, n, s)
  BY <1>3, <1>4 DEF InOrder
<1> QED
  BY <1>5 DEF r

LEMMA InOrderFront ==
  ASSUME NEW q \in Seq(Commands), NEW d \in Commands, NEW n \in Nat, NEW s \in Nat,
         InOrder(q, n, s), d.kind # "enter"
  PROVE  InOrder(<<d>> \o q, n, s)
<1> DEFINE r == <<d>> \o q
           l == Len(q)
<1>1. /\ l \in Nat /\ DOMAIN q = 1..l /\ DOMAIN r = 1..(l + 1) /\ r[1] = d
      /\ \A i \in 2..(l + 1) : i - 1 \in 1..l /\ r[i] = q[i - 1]
  BY FrontItems
<1> HIDE DEF r, l
<1>2. \A i \in DOMAIN r : (i - 1 \in DOMAIN q /\ r[i] = q[i - 1]) \/ (i = 1 /\ r[i] = d)
  BY <1>1
<1>3. ASSUME NEW i \in DOMAIN r, NEW j \in DOMAIN r, i < j, r[i].kind = "enter"
      PROVE  r[j].kind \notin {"exit", "stop"}
  <2>1. /\ i - 1 \in DOMAIN q /\ j - 1 \in DOMAIN q /\ i - 1 < j - 1
        /\ r[i] = q[i - 1] /\ r[j] = q[j - 1]
    BY <1>1, <1>2, <1>3
  <2> QED
    BY <1>3, <2>1 DEF InOrder
<1>4. ASSUME NEW i \in DOMAIN r, r[i].kind = "enter"
      PROVE  /\ r[i].epoch <= n
             /\ r[i].void =>
                  \/ r[i].epoch < s
                  \/ \E j \in DOMAIN r : j < i /\ r[j].kind = "exit" /\ r[j].epoch > r[i].epoch
  <2>1. i - 1 \in DOMAIN q /\ r[i] = q[i - 1]
    BY <1>2, <1>4
  <2>2. ASSUME NEW j \in DOMAIN q
        PROVE  j + 1 \in DOMAIN r /\ r[j + 1] = q[j] /\ (j < i - 1 => j + 1 < i)
    BY <1>1
  <2> QED
    BY <1>4, <2>1, <2>2 DEF InOrder
<1>5. InOrder(r, n, s)
  BY <1>3, <1>4 DEF InOrder
<1> QED
  BY <1>5 DEF r

LEMMA VoidedItems ==
  ASSUME NEW q \in Seq(Commands)
  PROVE  /\ DOMAIN Voided(q) = DOMAIN q
         /\ \A i \in DOMAIN q :
              /\ Voided(q)[i].kind = q[i].kind /\ Voided(q)[i].epoch = q[i].epoch
              /\ Voided(q)[i].id = q[i].id
<1>1. ASSUME NEW c \in Commands
      PROVE  /\ [c EXCEPT !.void = TRUE].kind = c.kind
             /\ [c EXCEPT !.void = TRUE].epoch = c.epoch
             /\ [c EXCEPT !.void = TRUE].id = c.id
  BY DEF Commands
<1>2. \A i \in DOMAIN q : q[i] \in Commands
  OBVIOUS
<1> QED
  BY <1>1, <1>2 DEF Voided

(* An exit voids what it is put ahead of, and is newer than all of it. *)
LEMMA InOrderVoided ==
  ASSUME NEW q \in Seq(Commands), NEW d \in Commands, NEW n \in Nat, NEW s \in Nat,
         InOrder(q, n, s), d.kind = "exit", d.epoch = n + 1
  PROVE  InOrder(<<d>> \o Voided(q), n + 1, s)
<1> DEFINE v == Voided(q)
           r == <<d>> \o v
           l == Len(v)
<1>0. v \in Seq(Commands) /\ DOMAIN v = DOMAIN q
  BY VoidedTyped, VoidedItems
<1>1. /\ l \in Nat /\ DOMAIN v = 1..l /\ DOMAIN r = 1..(l + 1) /\ r[1] = d
      /\ \A i \in 2..(l + 1) : i - 1 \in 1..l /\ r[i] = v[i - 1]
  BY <1>0, FrontItems
<1>v. \A i \in DOMAIN q : v[i].kind = q[i].kind /\ v[i].epoch = q[i].epoch
  BY VoidedItems
<1>e. \A i \in DOMAIN q : q[i].epoch \in Nat
  BY EpochTyped
<1> HIDE DEF r, l, v
<1>2. \A i \in DOMAIN r :
        \/ i - 1 \in DOMAIN q /\ r[i].kind = q[i - 1].kind /\ r[i].epoch = q[i - 1].epoch
        \/ i = 1 /\ r[i] = d
  BY <1>0, <1>1, <1>v
<1>3. ASSUME NEW i \in DOMAIN r, NEW j \in DOMAIN r, i < j, r[i].kind = "enter"
      PROVE  r[j].kind \notin {"exit", "stop"}
  <2>1. /\ i - 1 \in DOMAIN q /\ j - 1 \in DOMAIN q /\ i - 1 < j - 1
        /\ r[i].kind = q[i - 1].kind /\ r[j].kind = q[j - 1].kind
    BY <1>1, <1>2, <1>3
  <2> QED
    BY <1>3, <2>1 DEF InOrder
<1>4. ASSUME NEW i \in DOMAIN r, r[i].kind = "enter"
      PROVE  /\ r[i].epoch <= n + 1
             /\ r[i].void =>
                  \/ r[i].epoch < s
                  \/ \E j \in DOMAIN r : j < i /\ r[j].kind = "exit" /\ r[j].epoch > r[i].epoch
  <2>1. i - 1 \in DOMAIN q /\ r[i].kind = q[i - 1].kind /\ r[i].epoch = q[i - 1].epoch
    BY <1>2, <1>4
  <2>2. q[i - 1].epoch <= n /\ q[i - 1].epoch \in Nat
    BY <1>4, <1>e, <2>1 DEF InOrder
  <2>3. 1 \in DOMAIN r /\ 1 < i /\ r[1] = d
    BY <1>0, <1>1, <2>1
  <2> QED
    BY <2>1, <2>2, <2>3
<1>5. InOrder(r, n + 1, s)
  BY <1>3, <1>4 DEF InOrder
<1> QED
  BY <1>5 DEF r, v

(* The head is taken; an exit among the heads is obeyed or outdated. *)
LEMMA InOrderTail ==
  ASSUME NEW q \in Seq(Commands), q # << >>, NEW n \in Nat, NEW s \in Nat, NEW t \in Nat,
         InOrder(q, n, s), t >= s, Head(q).kind = "exit" => t >= Head(q).epoch
  PROVE  InOrder(Tail(q), n, t)
<1> DEFINE r == Tail(q)
           l == Len(q)
<1>1. /\ l \in Nat \ {0} /\ DOMAIN q = 1..l /\ DOMAIN r = 1..(l - 1) /\ Head(q) = q[1]
      /\ \A i \in 1..(l - 1) : i + 1 \in 1..l /\ r[i] = q[i + 1]
      /\ 1 \in 1..l
  BY TailItems
<1>e. \A i \in DOMAIN q : q[i].epoch \in Nat
  BY EpochTyped
<1> HIDE DEF r, l
<1>2. \A i \in DOMAIN r : i + 1 \in DOMAIN q /\ r[i] = q[i + 1]
  BY <1>1
<1>3. ASSUME NEW i \in DOMAIN r, NEW j \in DOMAIN r, i < j, r[i].kind = "enter"
      PROVE  r[j].kind \notin {"exit", "stop"}
  <2>1. i + 1 < j + 1
    BY <1>1, <1>3
  <2> QED
    BY <1>2, <1>3, <2>1 DEF InOrder
<1>4. ASSUME NEW i \in DOMAIN r, r[i].kind = "enter"
      PROVE  /\ r[i].epoch <= n
             /\ r[i].void =>
                  \/ r[i].epoch < t
                  \/ \E j \in DOMAIN r : j < i /\ r[j].kind = "exit" /\ r[j].epoch > r[i].epoch
  <2>1. i + 1 \in DOMAIN q /\ r[i] = q[i + 1] /\ q[i + 1].epoch \in Nat
    BY <1>2, <1>e
  <2>2. r[i].epoch <= n
    BY <1>4, <2>1 DEF InOrder
  <2>3. ASSUME r[i].void, NEW j \in DOMAIN q,
               j < i + 1, q[j].kind = "exit", q[j].epoch > q[i + 1].epoch
        PROVE  \/ r[i].epoch < t
               \/ \E k \in DOMAIN r : k < i /\ r[k].kind = "exit" /\ r[k].epoch > r[i].epoch
    <3>1. CASE j = 1
      <4>1. q[1].kind = "exit" /\ Head(q) = q[1] /\ q[1].epoch > q[i + 1].epoch
        BY <1>1, <2>3, <3>1
      <4>2. q[1].epoch \in Nat /\ t >= q[1].epoch
        BY <1>1, <1>e, <4>1
      <4>3. r[i].epoch = q[i + 1].epoch
        BY <2>1
      <4>4. r[i].epoch < t
        BY <2>1, <4>1, <4>2, <4>3
      <4> QED
        BY <4>4
    <3>2. CASE j # 1
      <4>1. j - 1 \in DOMAIN r /\ j - 1 < i /\ r[j - 1] = q[j]
        BY <1>1, <2>3, <3>2
      <4> QED
        BY <2>1, <2>3, <4>1
    <3> QED
      BY <3>1, <3>2
  <2>4. ASSUME r[i].void, q[i + 1].epoch < s
        PROVE  r[i].epoch < t
    BY <2>1, <2>4
  <2> QED
    BY <1>4, <2>1, <2>2, <2>3, <2>4 DEF InOrder
<1>5. InOrder(r, n, t)
  BY <1>3, <1>4 DEF InOrder
<1> QED
  BY <1>5 DEF r

LEMMA InOrderAdvanced ==
  ASSUME NEW q \in Seq(Commands), NEW n \in Nat, NEW s \in Nat, InOrder(q, n, s)
  PROVE  InOrder(q, n + 1, s)
<1>1. \A i \in DOMAIN q : q[i].epoch \in Nat
  BY EpochTyped
<1> QED
  BY <1>1 DEF InOrder

LEMMA StampedBack ==
  ASSUME NEW q \in Seq(Commands), NEW d \in Commands, NEW e, NEW ids,
         AllStamped(q, e, ids), Stamped(d, e, ids)
  PROVE  AllStamped(Append(q, d), e, ids)
<1>1. \A i \in DOMAIN Append(q, d) :
        Append(q, d)[i] = d \/ (i \in DOMAIN q /\ Append(q, d)[i] = q[i])
  BY BackItems
<1> QED
  BY <1>1 DEF AllStamped

LEMMA StampedFront ==
  ASSUME NEW q \in Seq(Commands), NEW d \in Commands, NEW e, NEW ids,
         AllStamped(q, e, ids), Stamped(d, e, ids)
  PROVE  AllStamped(<<d>> \o q, e, ids)
<1>1. \A i \in DOMAIN (<<d>> \o q) :
        (<<d>> \o q)[i] = d \/ (i - 1 \in DOMAIN q /\ (<<d>> \o q)[i] = q[i - 1])
  BY FrontItems
<1> QED
  BY <1>1 DEF AllStamped

LEMMA StampedVoided ==
  ASSUME NEW q \in Seq(Commands), NEW e, NEW ids, AllStamped(q, e, ids)
  PROVE  AllStamped(Voided(q), e, ids)
BY VoidedItems DEF AllStamped, Stamped

LEMMA StampedTail ==
  ASSUME NEW q \in Seq(Commands), q # << >>, NEW e, NEW ids, AllStamped(q, e, ids)
  PROVE  AllStamped(Tail(q), e, ids) /\ Stamped(Head(q), e, ids)
BY TailItems DEF AllStamped

(* A later Web epoch, or a further request id, takes no stamp away. *)
LEMMA StampedLater ==
  ASSUME NEW q \in Seq(Commands), NEW e \in Nat, NEW ids \in Seq(Nat), NEW x \in Nat,
         AllStamped(q, e, ids)
  PROVE  AllStamped(q, e + 1, ids) /\ AllStamped(q, e, Append(ids, x))
<1>1. \A i \in DOMAIN q : q[i].epoch \in Nat
  BY EpochTyped
<1>2. \A n \in DOMAIN ids : n \in DOMAIN Append(ids, x) /\ Append(ids, x)[n] = ids[n]
  OBVIOUS
<1> QED
  BY <1>1, <1>2 DEF AllStamped, Stamped
-----------------------------------------------------------------------------
(* What a command may do to the session. *)
Moved(s, c, t, newest) ==
  /\ t.control >= s.control
  /\ c.kind = "exit" => t.control >= c.epoch
  /\ t.web = s.web \/ (c.kind = "revoke_web_transport" /\ t.web = c.epoch)
  /\ t.state = "WEB_TX" =>
       \/ /\ s.state = "WEB_TX" /\ ~LeaseExpired(s)
          /\ t.lease = s.lease /\ t.last = s.last
          /\ c.kind = "revoke_web_transport" => c.epoch < s.web
       \/ /\ c.kind = "request_web" /\ c.epoch = newest
          /\ t.lease = c.id /\ t.last = c.id /\ c.id > s.last
  /\ s.state = "DISARMED" /\ t.state # "DISARMED" =>
       c.kind = "enter" /\ c.epoch = s.control

LEMMA ReturnToUsbKeeps ==
  ASSUME NEW s \in Sessions
  PROVE  /\ ReturnToUsb(s).control = s.control /\ ReturnToUsb(s).web = s.web
         /\ ReturnToUsb(s).last = s.last /\ ReturnToUsb(s).state # "WEB_TX"
         /\ ReturnToUsb(s).state = "DISARMED" <=> s.state = "DISARMED"
BY DEF ReturnToUsb, Sessions

LEMMA TickedKeeps ==
  ASSUME session \in Sessions
  PROVE  /\ Ticked \in Sessions
         /\ Ticked.control = session.control /\ Ticked.web = session.web
         /\ Ticked.last = session.last
         /\ Ticked.state = "WEB_TX" => Ticked = session /\ ~LeaseExpired(session)
         /\ Ticked.state = "DISARMED" <=> session.state = "DISARMED"
<1>1. CASE LeaseExpired(session)
  BY <1>1, TickedFacts, ReturnToUsbKeeps DEF Ticked, ExpireWebLease
<1>2. CASE ~LeaseExpired(session)
  BY <1>2, TickedFacts
<1> QED
  BY <1>1, <1>2

(* A command the session refuses. *)
LEMMA RefusedMoves ==
  ASSUME session \in Sessions, NEW c \in Commands, NEW newest,
         c.kind = "exit" => c.epoch < session.control,
         c.kind = "revoke_web_transport" => c.epoch < session.web
  PROVE  Moved(session, c, Ticked, newest)
<1>1. session.control \in Nat /\ c.epoch \in Nat
  BY DEF Sessions, Commands
<1> QED
  BY <1>1, TickedKeeps DEF Moved

LEMMA OwnerMoves ==
  ASSUME TypeOK,
         \/ OwnerEnter \/ OwnerExit \/ OwnerStop \/ OwnerRequest
         \/ OwnerActivity \/ OwnerDisconnect \/ OwnerRevoke
  PROVE  /\ commands # << >> /\ commands' = Tail(commands)
         /\ UNCHANGED <<control, web, asked>>
         /\ Moved(session, Head(commands), session', web)
         /\ IF Head(commands).kind = "revoke_web_transport"
            THEN completed' = Head(commands).epoch ELSE UNCHANGED completed
<1> DEFINE c == Head(commands)
<1>0. session \in Sessions /\ session.control \in Nat
  BY DEF TypeOK, Sessions
<1>t. ASSUME NEW k, Take(k)
      PROVE  /\ commands # << >> /\ commands' = Tail(commands) /\ c.kind = k
             /\ c \in Commands /\ c.epoch \in Nat
  BY <1>t, Taken DEF Take
<1>1. CASE OwnerEnter
  <2>1. Take("enter") /\ UNCHANGED <<control, web, completed, asked>>
    BY <1>1 DEF OwnerEnter
  <2>2. c \in Commands /\ c.kind = "enter"
    BY <2>1, <1>t
  <2>3. ASSUME session' = Ticked
        PROVE  Moved(session, c, session', web)
    BY <2>2, <2>3, <1>0, RefusedMoves
  <2>4. ASSUME EnterAdmitted(Ticked, c.epoch) /\ session' = Entered(Ticked)
        PROVE  Moved(session, c, session', web)
    <3>1. Ticked \in Sessions /\ Ticked.control = session.control /\ Ticked.web = session.web
      BY <1>0, TickedKeeps
    <3>2. /\ Entered(Ticked).control = session.control /\ Entered(Ticked).web = session.web
          /\ Entered(Ticked).state = "USB_TX"
      BY <3>1 DEF Entered, Sessions
    <3>3. c.epoch = session.control
      BY <2>4, <3>1 DEF EnterAdmitted
    <3> QED
      BY <1>0, <2>2, <2>4, <3>2, <3>3 DEF Moved
  <2>5. ASSUME NEW b \in BOOLEAN, EnterAdmitted(Ticked, c.epoch),
               session' = [Ticked EXCEPT !.installed = b]
        PROVE  Moved(session, c, session', web)
    <3>1. Ticked \in Sessions /\ Ticked.control = session.control /\ Ticked.web = session.web
      BY <1>0, TickedKeeps
    <3>2. /\ session'.control = session.control /\ session'.web = session.web
          /\ session'.state = "DISARMED"
      BY <2>5, <3>1 DEF EnterAdmitted, Sessions
    <3> QED
      BY <1>0, <2>2, <3>2 DEF Moved
  <2>6. \/ session' = Ticked
        \/ EnterAdmitted(Ticked, c.epoch) /\ session' = Entered(Ticked)
        \/ \E b \in BOOLEAN : EnterAdmitted(Ticked, c.epoch)
                              /\ session' = [Ticked EXCEPT !.installed = b]
    BY <1>1 DEF OwnerEnter, Published
  <2> QED
    BY <1>t, <2>1, <2>2, <2>3, <2>4, <2>5, <2>6
<1>2. ASSUME NEW k \in {"exit", "stop"}, OwnerExits(k)
      PROVE  Take(k) /\ UNCHANGED <<control, web, completed, asked>>
             /\ Moved(session, c, session', web)
  <2>1. Take(k) /\ UNCHANGED <<control, web, completed, asked>>
    BY <1>2 DEF OwnerExits
  <2>2. c \in Commands /\ c.kind = k /\ c.epoch \in Nat
    BY <2>1, <1>t
  <2>3. ASSUME ~ExitAdmitted(Ticked, c.epoch) /\ session' = Ticked
        PROVE  Moved(session, c, session', web)
    <3>1. c.epoch < session.control
      BY <1>0, <2>2, <2>3, TickedKeeps DEF ExitAdmitted
    <3> QED
      BY <1>0, <1>2, <2>2, <2>3, <3>1, RefusedMoves
  <2>4. ASSUME NEW u \in BOOLEAN, ExitAdmitted(Ticked, c.epoch),
               session' = Exited(Ticked, c.epoch, u)
        PROVE  Moved(session, c, session', web)
    <3>1. Ticked \in Sessions /\ Ticked.control = session.control /\ Ticked.web = session.web
      BY <1>0, TickedKeeps
    <3>2. /\ session'.control = c.epoch /\ session'.web = session.web
          /\ session'.state = "DISARMED"
      BY <2>2, <2>4, <3>1 DEF Exited, Disarm, Sessions
    <3>3. c.epoch >= session.control
      BY <2>4, <3>1 DEF ExitAdmitted
    <3> QED
      BY <1>0, <1>2, <2>2, <3>2, <3>3 DEF Moved
  <2> QED
    BY <1>2, <2>1, <2>3, <2>4 DEF OwnerExits, Published
<1>3. CASE OwnerExit \/ OwnerStop
  <2>1. PICK k \in {"exit", "stop"} : OwnerExits(k)
    BY <1>3 DEF OwnerExit, OwnerStop
  <2> QED
    BY <1>2, <1>t, <2>1
<1>4. CASE OwnerRequest
  <2>1. Take("request_web") /\ UNCHANGED <<control, web, completed, asked>>
    BY <1>4 DEF OwnerRequest, host
  <2>2. c \in Commands /\ c.kind = "request_web"
    BY <2>1, <1>t
  <2>3. ASSUME session' = Ticked
        PROVE  Moved(session, c, session', web)
    BY <2>2, <2>3, <1>0, RefusedMoves
  <2>4. ASSUME /\ c.epoch = web /\ RequestAdmitted(Ticked, c.epoch, c.session, c.id)
               /\ session' = Requested(Ticked, c.id, c.enable)
        PROVE  Moved(session, c, session', web)
    <3>1. /\ Ticked \in Sessions /\ Ticked.control = session.control
          /\ Ticked.web = session.web /\ Ticked.last = session.last
          /\ Ticked.state # "DISARMED" /\ session.state # "DISARMED"
      BY <1>0, <2>4, TickedKeeps DEF RequestAdmitted
    <3>2. c.id > session.last
      BY <2>4, <3>1 DEF RequestAdmitted
    <3>3. ASSUME c.enable
          PROVE  Moved(session, c, session', web)
      <4>1. /\ session'.control = session.control /\ session'.web = session.web
            /\ session'.lease = c.id /\ session'.last = c.id
        BY <2>4, <3>1, <3>3 DEF Requested, Sessions
      <4> QED
        BY <1>0, <2>2, <2>4, <3>1, <3>2, <4>1 DEF Moved
    <3>4. ASSUME ~c.enable
          PROVE  Moved(session, c, session', web)
      <4> DEFINE t == ReturnToUsb(Ticked)
      <4>1. /\ t \in Sessions /\ t.control = session.control /\ t.web = session.web
            /\ t.state # "WEB_TX"
        BY <3>1, ReturnToUsbFacts, ReturnToUsbKeeps
      <4>2. session' = [t EXCEPT !.last = c.id]
        BY <2>4, <3>4 DEF Requested
      <4> HIDE DEF t
      <4>3. /\ session'.control = session.control /\ session'.web = session.web
            /\ session'.state # "WEB_TX"
        BY <4>1, <4>2 DEF Sessions
      <4> QED
        BY <1>0, <2>2, <3>1, <4>3 DEF Moved
    <3> QED
      BY <3>3, <3>4
  <2>5. \/ session' = Ticked
        \/ /\ c.epoch = web /\ RequestAdmitted(Ticked, c.epoch, c.session, c.id)
           /\ session' = Requested(Ticked, c.id, c.enable)
    BY <1>4 DEF OwnerRequest, Published
  <2> QED
    BY <1>t, <2>1, <2>2, <2>3, <2>4, <2>5
<1>5. CASE OwnerActivity
  <2>1. Take("web_activity") /\ UNCHANGED <<control, web, completed, asked>>
    BY <1>5 DEF OwnerActivity, host
  <2>2. c \in Commands /\ c.kind = "web_activity"
    BY <2>1, <1>t
  <2>3. ASSUME session' = Ticked
        PROVE  Moved(session, c, session', web)
    BY <2>2, <2>3, <1>0, RefusedMoves
  <2>4. ASSUME HoldsLease(Ticked, c.session, c.id) /\ session' = Renewed(Ticked)
        PROVE  Moved(session, c, session', web)
    <3>1. Ticked = session /\ session.state = "WEB_TX" /\ ~LeaseExpired(session)
      BY <1>0, <2>4, TickedKeeps DEF HoldsLease
    <3>2. /\ session'.control = session.control /\ session'.web = session.web
          /\ session'.lease = session.lease /\ session'.last = session.last
      BY <1>0, <2>4, <3>1 DEF Renewed, Sessions
    <3> QED
      BY <1>0, <2>2, <3>1, <3>2 DEF Moved
  <2>5. \/ session' = Ticked
        \/ HoldsLease(Ticked, c.session, c.id) /\ session' = Renewed(Ticked)
    BY <1>5 DEF OwnerActivity, Published
  <2> QED
    BY <1>t, <2>1, <2>2, <2>3, <2>4, <2>5
<1>6. CASE OwnerDisconnect
  <2>1. Take("web_disconnect") /\ UNCHANGED <<control, web, completed, asked>>
    BY <1>6 DEF OwnerDisconnect, host
  <2>2. c \in Commands /\ c.kind = "web_disconnect"
    BY <2>1, <1>t
  <2>3. ASSUME session' = Ticked
        PROVE  Moved(session, c, session', web)
    BY <2>2, <2>3, <1>0, RefusedMoves
  <2>4. ASSUME session' = ReturnToUsb(Ticked)
        PROVE  Moved(session, c, session', web)
    BY <2>2, <2>4, <1>0, TickedKeeps, ReturnToUsbKeeps DEF Moved
  <2> QED
    BY <1>6, <1>t, <2>1, <2>2, <2>3, <2>4 DEF OwnerDisconnect, Published
<1>7. CASE OwnerRevoke
  <2>1. /\ Take("revoke_web_transport") /\ UNCHANGED <<control, web, asked>>
        /\ completed' = c.epoch
    BY <1>7 DEF OwnerRevoke, host
  <2>2. c \in Commands /\ c.kind = "revoke_web_transport" /\ c.epoch \in Nat
    BY <2>1, <1>t
  <2>3. ASSUME ~RevokeAdmitted(Ticked, c.epoch) /\ session' = Ticked
        PROVE  Moved(session, c, session', web)
    <3>1. session.web \in Nat /\ Ticked.web = session.web
      BY <1>0, TickedKeeps DEF Sessions
    <3>2. c.epoch < session.web
      BY <2>2, <2>3, <3>1 DEF RevokeAdmitted
    <3> QED
      BY <1>0, <2>2, <2>3, <3>2, RefusedMoves
  <2>4. ASSUME session' = Revoked(Ticked, c.epoch)
        PROVE  Moved(session, c, session', web)
    <3> DEFINE t == ReturnToUsb(Ticked)
    <3>1. /\ t \in Sessions /\ t.control = session.control
          /\ t.state # "WEB_TX"
          /\ t.state = "DISARMED" <=> session.state = "DISARMED"
      BY <1>0, TickedKeeps, ReturnToUsbFacts, ReturnToUsbKeeps
    <3>2. session' = [t EXCEPT !.web = c.epoch, !.last = 0]
      BY <2>4 DEF Revoked
    <3> HIDE DEF t
    <3>3. /\ session'.control = session.control /\ session'.web = c.epoch
          /\ session'.state = t.state
      BY <3>1, <3>2 DEF Sessions
    <3> QED
      BY <1>0, <2>2, <3>1, <3>3 DEF Moved
  <2> QED
    BY <1>7, <1>t, <2>1, <2>2, <2>3, <2>4 DEF OwnerRevoke, Published
<1> QED
  BY <1>1, <1>3, <1>4, <1>5, <1>6, <1>7

-----------------------------------------------------------------------------
(* The second inductive invariant: the command queue is in order, what     *)
(* waits in it is stamped, and the lease in place was asked for - since    *)
(* the latest revocation, once the owner has acknowledged that one.        *)
Order == InOrder(commands, control, session.control)

Revocations ==
  completed <= web /\ session.web <= web /\ AllStamped(commands, web, asked)

LeaseIsAsked ==
  session.state = "WEB_TX" =>
    /\ session.lease \in DOMAIN asked /\ session.last = session.lease
    /\ completed = web => asked[session.lease] = web

Ordered == Order /\ Revocations /\ LeaseIsAsked

LEMMA Numbers ==
  ASSUME TypeOK
  PROVE  /\ control \in Nat /\ web \in Nat /\ completed \in Nat /\ asked \in Seq(Nat)
         /\ session \in Sessions /\ session.control \in Nat /\ session.web \in Nat
         /\ session.last \in Nat /\ session.lease \in Nat /\ commands \in Seq(Commands)
BY DEF TypeOK, Sessions

LEMMA OrderedInit == Init => Ordered
<1> SUFFICES ASSUME Init PROVE Ordered
  OBVIOUS
<1>1. /\ commands = << >> /\ control = 0 /\ web = 0 /\ completed = 0
      /\ session.state = "DISARMED" /\ session.web = 0
  BY DEF Init, NewSession
<1>2. DOMAIN commands = {}
  BY <1>1
<1> QED
  BY <1>1, <1>2
     DEF Ordered, Order, Revocations, LeaseIsAsked, InOrder, AllStamped

(* A step that leaves the session's epochs, the lease and the queue alone. *)
LEMMA OrderedQuiet ==
  ASSUME TypeOK, Ordered, UNCHANGED <<commands, control, web, completed, asked>>,
         session'.control = session.control, session'.web = session.web,
         session'.state = "WEB_TX" => session.state = "WEB_TX"
           /\ session'.lease = session.lease /\ session'.last = session.last
  PROVE  Ordered'
BY DEF Ordered, Order, Revocations, LeaseIsAsked

LEMMA OrderedOwner ==
  ASSUME TypeOK, TypeOK', Ordered,
         \/ OwnerEnter \/ OwnerExit \/ OwnerStop \/ OwnerRequest
         \/ OwnerActivity \/ OwnerDisconnect \/ OwnerRevoke
  PROVE  Ordered'
<1> DEFINE c == Head(commands)
<1>1. /\ commands # << >> /\ commands' = Tail(commands)
      /\ UNCHANGED <<control, web, asked>>
      /\ Moved(session, c, session', web)
      /\ IF c.kind = "revoke_web_transport"
         THEN completed' = c.epoch ELSE UNCHANGED completed
  BY OwnerMoves
<1>2. /\ control \in Nat /\ web \in Nat /\ completed \in Nat
      /\ session.control \in Nat /\ session.web \in Nat
      /\ session.last \in Nat /\ session.lease \in Nat /\ commands \in Seq(Commands)
  BY Numbers
<1>3. session'.control \in Nat /\ session'.web \in Nat
  BY DEF TypeOK, Sessions
<1>c. c \in Commands
  BY <1>1, <1>2, TailItems
<1>4. c \in Commands /\ c.epoch \in Nat
  BY <1>c DEF Commands
<1>5. AllStamped(Tail(commands), web, asked) /\ Stamped(c, web, asked)
  BY <1>1, <1>2, StampedTail DEF Ordered, Revocations
<1> HIDE DEF c
<1>6. Order'
  <2>1. session'.control >= session.control /\ c.kind = "exit" => session'.control >= c.epoch
    BY <1>1 DEF Moved
  <2>2. InOrder(Tail(commands), control, session'.control)
    BY <1>1, <1>2, <1>3, InOrderTail DEF Ordered, Order, Moved, c
  <2> QED
    BY <1>1, <2>2 DEF Order
<1>7. Revocations'
  <2>1. session'.web <= web
    BY <1>1, <1>4, <1>5 DEF Moved, Stamped, Ordered, Revocations
  <2>2. completed' <= web
    BY <1>1, <1>5 DEF Stamped, Ordered, Revocations
  <2> QED
    BY <1>1, <1>5, <2>1, <2>2 DEF Revocations
<1>8. LeaseIsAsked'
  <2> SUFFICES ASSUME session'.state = "WEB_TX"
               PROVE  /\ session'.lease \in DOMAIN asked /\ session'.last = session'.lease
                      /\ completed' = web => asked[session'.lease] = web
    BY <1>1 DEF LeaseIsAsked
  <2>1. CASE /\ session.state = "WEB_TX"
             /\ session'.lease = session.lease /\ session'.last = session.last
             /\ c.kind = "revoke_web_transport" => c.epoch < session.web
    <3>1. completed' = web => completed = web
      BY <1>1, <1>2, <1>4, <2>1 DEF Ordered, Revocations
    <3> QED
      BY <2>1, <3>1 DEF Ordered, LeaseIsAsked
  <2>2. CASE /\ c.kind = "request_web" /\ c.epoch = web
             /\ session'.lease = c.id /\ session'.last = c.id
    BY <1>5, <2>2 DEF Stamped
  <2> QED
    BY <1>1, <2>1, <2>2 DEF Moved
<1> QED
  BY <1>6, <1>7, <1>8 DEF Ordered

LEMMA OrderedProducers ==
  ASSUME TypeOK, Ordered,
         \/ PressEnter \/ EnqueueEnter \/ PressExit \/ RequestWeb \/ WebActivity
         \/ WebDisconnect \/ RevokeWebTransport \/ StopRequest \/ StopSend
  PROVE  Ordered'
<1>0. /\ control \in Nat /\ web \in Nat /\ completed \in Nat /\ asked \in Seq(Nat)
      /\ session.control \in Nat /\ session.web \in Nat /\ session.lease \in Nat
      /\ commands \in Seq(Commands) /\ snapshot.session \in Nat /\ snapshot.lease \in Nat
  BY Numbers DEF TypeOK, Views
<1>o. /\ InOrder(commands, control, session.control) /\ AllStamped(commands, web, asked)
      /\ completed <= web /\ session.web <= web
  BY DEF Ordered, Order, Revocations
<1>k. ASSUME NEW k \in Kinds, NEW e \in Nat
      PROVE  /\ Command(k, e) \in Commands /\ Command(k, e).kind = k
             /\ Command(k, e).epoch = e /\ ~Command(k, e).void
  BY CommandTyped DEF Command
<1>s. session' = session /\ completed' = completed
  BY DEF PressEnter, EnqueueEnter, PressExit, RequestWeb, WebActivity, WebDisconnect,
         WebLease, RevokeWebTransport, StopRequest, StopSend, Producing, Apart
<1>1. CASE PressEnter
  BY <1>1, <1>s, OrderedQuiet DEF PressEnter
<1>l. ASSUME UNCHANGED <<web, asked>> PROVE LeaseIsAsked'
  BY <1>s, <1>l DEF Ordered, LeaseIsAsked
<1>2. CASE EnqueueEnter
  <2> DEFINE c == Command("enter", control)
  <2>1. UNCHANGED <<control, web, asked>>
    BY <1>2 DEF EnqueueEnter
  <2>2. c \in Commands /\ c.kind = "enter" /\ c.epoch = control /\ ~c.void
    BY <1>0, <1>k DEF Kinds
  <2>3. commands' = Append(commands, c) \/ commands' = commands
    BY <1>2 DEF EnqueueEnter, SendBack
  <2> HIDE DEF c
  <2>e. c.epoch <= control
    BY <1>0, <2>2
  <2>4. InOrder(commands', control, session.control)
    BY <1>0, <1>o, <2>2, <2>e, <2>3, InOrderBack
  <2>5. AllStamped(commands', web, asked)
    BY <1>0, <1>o, <2>2, <2>3, StampedBack DEF Stamped
  <2> QED
    BY <1>s, <1>l, <1>o, <2>1, <2>4, <2>5 DEF Ordered, Order, Revocations
<1>3. CASE PressExit
  <2> DEFINE c == Command("exit", control + 1)
  <2>1. control' = control + 1 /\ UNCHANGED <<web, asked>>
    BY <1>3 DEF PressExit
  <2>2. c \in Commands /\ c.kind = "exit" /\ c.epoch = control + 1
    BY <1>0, <1>k DEF Kinds
  <2>3. commands' = <<c>> \o Voided(commands) \/ commands' = commands
    BY <1>3, <2>1 DEF PressExit
  <2> HIDE DEF c
  <2>4. InOrder(commands', control + 1, session.control)
    BY <1>0, <1>o, <2>2, <2>3, InOrderVoided, InOrderAdvanced
  <2>5. Voided(commands) \in Seq(Commands) /\ AllStamped(Voided(commands), web, asked)
    BY <1>0, <1>o, VoidedTyped, StampedVoided
  <2>6. AllStamped(commands', web, asked)
    BY <1>o, <2>2, <2>3, <2>5, StampedFront DEF Stamped
  <2> QED
    BY <1>s, <1>l, <1>o, <2>1, <2>4, <2>6 DEF Ordered, Order, Revocations
<1>4. CASE RequestWeb
  <2>1. asked' = Append(asked, web) /\ UNCHANGED <<control, web>>
    BY <1>4 DEF RequestWeb
  <2>n. /\ Len(asked') \in Nat /\ Len(asked') \in DOMAIN asked' /\ asked'[Len(asked')] = web
        /\ \A n \in DOMAIN asked : n \in DOMAIN asked' /\ asked'[n] = asked[n]
    BY <1>0, <2>1
  <2>2. PICK on \in BOOLEAN :
          commands' = Append(commands,
                             [Command("request_web", web) EXCEPT !.session = snapshot.session,
                                !.id = Len(asked'), !.enable = on])
    BY <1>4 DEF RequestWeb, SendBack
  <2> DEFINE m == Len(asked')
             c == [Command("request_web", web) EXCEPT !.session = snapshot.session,
                     !.id = m, !.enable = on]
  <2>3. m \in Nat
    BY <2>n
  <2> HIDE DEF m
  <2>4. /\ c \in Commands /\ c.kind = "request_web" /\ c.epoch = web /\ c.id = m
    BY <1>0, <2>3 DEF Command, Commands, Kinds
  <2>5. commands' = Append(commands, c)
    BY <2>2 DEF m
  <2> HIDE DEF c
  <2>6. InOrder(commands', control, session.control)
    BY <1>0, <1>o, <2>4, <2>5, InOrderBack
  <2>7. AllStamped(commands, web, asked')
    BY <1>0, <1>o, <2>1, StampedLater
  <2>8. Stamped(c, web, asked')
    BY <2>4, <2>n DEF Stamped, m
  <2>9. AllStamped(commands', web, asked')
    BY <1>0, <2>4, <2>5, <2>7, <2>8, StampedBack
  <2>10. LeaseIsAsked'
    BY <1>s, <2>1, <2>n DEF Ordered, LeaseIsAsked
  <2> QED
    BY <1>s, <1>o, <2>1, <2>6, <2>9, <2>10 DEF Ordered, Order, Revocations
<1>5. ASSUME NEW k \in {"web_activity", "web_disconnect"}, WebLease(k)
      PROVE  Ordered'
  <2> DEFINE c == [Command(k, control) EXCEPT !.session = snapshot.session,
                                              !.id = snapshot.lease]
  <2>1. UNCHANGED <<control, web, asked>> /\ commands' = Append(commands, c)
    BY <1>5 DEF WebLease, SendBack
  <2>2. c \in Commands /\ c.kind = k
    BY <1>0, <1>5 DEF Command, Commands, Kinds
  <2> HIDE DEF c
  <2>3. InOrder(commands', control, session.control)
    BY <1>0, <1>o, <2>1, <2>2, InOrderBack
  <2>4. AllStamped(commands', web, asked)
    BY <1>0, <1>o, <2>1, <2>2, StampedBack DEF Stamped
  <2> QED
    BY <1>s, <1>l, <1>o, <2>1, <2>3, <2>4 DEF Ordered, Order, Revocations
<1>6. CASE RevokeWebTransport
  <2> DEFINE c == Command("revoke_web_transport", web + 1)
  <2>1. web' = web + 1 /\ UNCHANGED <<control, asked>>
    BY <1>6 DEF RevokeWebTransport
  <2>2. c \in Commands /\ c.kind = "revoke_web_transport" /\ c.epoch = web + 1
    BY <1>0, <1>k DEF Kinds
  <2>3. commands' = <<c>> \o commands \/ commands' = commands
    BY <1>6, <2>1 DEF RevokeWebTransport, SendFront
  <2> HIDE DEF c
  <2>4. InOrder(commands', control, session.control)
    BY <1>0, <1>o, <2>2, <2>3, InOrderFront
  <2>5. AllStamped(commands, web + 1, asked) /\ Stamped(c, web + 1, asked)
    BY <1>0, <1>o, <2>2, StampedLater DEF Stamped
  <2>6. AllStamped(commands', web + 1, asked)
    BY <1>0, <2>2, <2>3, <2>5, StampedFront
  <2>7. completed' <= web' /\ session'.web <= web' /\ completed' # web'
    BY <1>0, <1>o, <1>s, <2>1
  <2>8. LeaseIsAsked'
    BY <1>s, <2>1, <2>7 DEF Ordered, LeaseIsAsked
  <2> QED
    BY <1>s, <2>1, <2>4, <2>6, <2>7, <2>8 DEF Ordered, Order, Revocations
<1>7. CASE StopRequest
  <2>1. control' = control + 1 /\ UNCHANGED <<commands, web, asked>>
    BY <1>7 DEF StopRequest, host
  <2>2. InOrder(commands, control + 1, session.control)
    BY <1>0, <1>o, InOrderAdvanced
  <2> QED
    BY <1>s, <1>l, <1>o, <2>1, <2>2 DEF Ordered, Order, Revocations
<1>8. CASE StopSend
  <2> DEFINE c == Command("stop", control)
  <2>1. UNCHANGED <<control, web, asked>>
    BY <1>8 DEF StopSend, host
  <2>2. c \in Commands /\ c.kind = "stop"
    BY <1>0, <1>k DEF Kinds
  <2>3. commands' = <<c>> \o commands \/ commands' = commands
    BY <1>8 DEF StopSend, SendFront
  <2> HIDE DEF c
  <2>4. InOrder(commands', control, session.control)
    BY <1>0, <1>o, <2>2, <2>3, InOrderFront
  <2>5. AllStamped(commands', web, asked)
    BY <1>0, <1>o, <2>2, <2>3, StampedFront DEF Stamped
  <2> QED
    BY <1>s, <1>l, <1>o, <2>1, <2>4, <2>5 DEF Ordered, Order, Revocations
<1> QED
  BY <1>1, <1>2, <1>3, <1>4, <1>5, <1>6, <1>7, <1>8 DEF WebActivity, WebDisconnect

LEMMA OrderedInductive == Inv /\ Inv' /\ Ordered /\ [Next]_vars => Ordered'
<1> SUFFICES ASSUME Inv, Inv', Ordered, [Next]_vars PROVE Ordered'
  OBVIOUS
<1>0. TypeOK /\ TypeOK' /\ session \in Sessions
  BY DEF Inv, TypeOK
<1>1. CASE \/ PressEnter \/ EnqueueEnter \/ PressExit \/ RequestWeb \/ WebActivity
           \/ WebDisconnect \/ RevokeWebTransport \/ StopRequest \/ StopSend
  BY <1>0, <1>1, OrderedProducers
<1>2. CASE UsbRead \/ UsbSubmit \/ SubmitWeb
  BY <1>0, <1>2, OrderedQuiet DEF UsbRead, UsbSubmit, SubmitWeb, host
<1>3. CASE OwnerTick
  <2>1. UNCHANGED <<commands, control, web, completed, asked>> /\ session' = Ticked
    BY <1>3 DEF OwnerTick, Published, host
  <2> QED
    BY <1>0, <2>1, TickedKeeps, OrderedQuiet
<1>4. CASE \/ OwnerEnter \/ OwnerExit \/ OwnerStop \/ OwnerRequest
           \/ OwnerActivity \/ OwnerDisconnect \/ OwnerRevoke
  BY <1>0, <1>4, OrderedOwner
<1>5. CASE SendWeb \/ RejectWeb \/ SendUsb \/ RejectUsb
  <2>1. Idle
    BY <1>5 DEF SendWeb, RejectWeb, SendUsb, RejectUsb, DrainWeb, DrainUsb
  <2> QED
    BY <1>0, <2>1, OrderedQuiet DEF Idle, host
<1>6. CASE Elapse
  <2>1. /\ UNCHANGED <<commands, control, web, completed, asked>>
        /\ session' = [session EXCEPT !.left = @ - 1] /\ session.state = "WEB_TX"
    BY <1>6 DEF Elapse, host
  <2>2. /\ session'.control = session.control /\ session'.web = session.web
        /\ session'.lease = session.lease /\ session'.last = session.last
    BY <1>0, <2>1 DEF Sessions
  <2> QED
    BY <1>0, <2>1, <2>2, OrderedQuiet
<1>7. CASE UNCHANGED vars
  BY <1>0, <1>7, OrderedQuiet DEF vars, host
<1> QED
  BY <1>1, <1>2, <1>3, <1>4, <1>5, <1>6, <1>7 DEF Next

LEMMA OrderedInvariant == Spec => [](Inv /\ Ordered)
<1>1. Init => Inv /\ Ordered
  BY Initially, OrderedInit
<1>2. Inv /\ Ordered /\ [Next]_vars => Inv' /\ Ordered'
  BY Inductive, OrderedInductive
<1> QED
  BY <1>1, <1>2, PTL DEF Spec

(* Once the owner has acknowledged the latest revocation of the Web        *)
(* transport, nothing of an older transport is granted, queued or half     *)
(* sent any more: the lease, and every Web block that would still be       *)
(* accepted, comes from a request made after that revocation.              *)
THEOREM RevocationIsFinal == Spec => []RevokedIsSilent
<1>1. LeaseIsAsked => RevokedIsSilent
  BY DEF LeaseIsAsked, RevokedIsSilent, AcceptWebInput, HoldsLease
<1> QED
  BY <1>1, OrderedInvariant, PTL DEF Ordered

(* BOOT wins: no entry that an accepted exit was queued ahead of arms the  *)
(* target, and none does while an exit or a stop waits.                    *)
THEOREM ExitBeatsEntry == Spec => BootWins
<1>1. ASSUME Inv, Ordered, [Next]_vars,
             session.state = "DISARMED", session'.state # "DISARMED"
      PROVE  /\ ~Head(commands).void
             /\ \A i \in DOMAIN commands : commands[i].kind \notin {"exit", "stop"}
  <2>1. session \in Sessions /\ TypeOK
    BY <1>1 DEF Inv, TypeOK
  <2>2. \/ OwnerEnter \/ OwnerExit \/ OwnerStop \/ OwnerRequest
        \/ OwnerActivity \/ OwnerDisconnect \/ OwnerRevoke
    <3>1. session' # session /\ ~LeaseExpired(session)
      BY <1>1 DEF LeaseExpired
    <3>2. ~OwnerTick /\ ~Elapse
      BY <1>1, <3>1 DEF OwnerTick, Elapse
    <3>3. ~(SendWeb \/ RejectWeb \/ SendUsb \/ RejectUsb)
      BY <3>1 DEF SendWeb, RejectWeb, SendUsb, RejectUsb, DrainWeb, DrainUsb, Idle
    <3>4. ~(UsbRead \/ UsbSubmit \/ SubmitWeb) /\ vars' # vars
      BY <3>1 DEF UsbRead, UsbSubmit, SubmitWeb, vars
    <3>5. ~(\/ PressEnter \/ EnqueueEnter \/ PressExit \/ RequestWeb \/ WebActivity
            \/ WebDisconnect \/ RevokeWebTransport \/ StopRequest \/ StopSend)
      BY <3>1 DEF PressEnter, EnqueueEnter, PressExit, RequestWeb, WebActivity,
         WebDisconnect, WebLease, RevokeWebTransport, StopRequest, StopSend, Producing, Apart
    <3> QED
      BY <1>1, <3>2, <3>3, <3>4, <3>5 DEF Next
  <2>3. /\ commands # << >> /\ Head(commands).kind = "enter"
        /\ Head(commands).epoch = session.control
    BY <1>1, <2>1, <2>2, OwnerMoves DEF Moved
  <2>4. /\ Len(commands) \in Nat \ {0} /\ DOMAIN commands = 1..Len(commands)
        /\ Head(commands) = commands[1] /\ 1 \in DOMAIN commands
        /\ session.control \in Nat
    BY <2>1, <2>3, Numbers, TailItems
  <2>5. InOrder(commands, control, session.control)
    BY <1>1 DEF Ordered, Order
  <2>6. ~commands[1].void
    BY <2>3, <2>4, <2>5 DEF InOrder
  <2>7. ASSUME NEW i \in DOMAIN commands
        PROVE  commands[i].kind \notin {"exit", "stop"}
    <3>1. i = 1 \/ 1 < i
      BY <2>4
    <3> QED
      BY <2>3, <2>4, <2>5, <3>1 DEF InOrder
  <2> QED
    BY <2>4, <2>6, <2>7
<1> QED
  BY <1>1, OrderedInvariant, PTL DEF Spec, BootWins

(* A lease that has run out is not revived: whatever the owner does next,  *)
(* activity that arrives at the deadline included, ends it or replaces it  *)
(* by another one.                                                         *)
THEOREM DeadlineHolds == Spec => ExpiredLeaseEnds
<1>1. ASSUME Inv, Ordered, [Next]_vars, LeaseExpired(session), session' # session,
             session'.state = "WEB_TX"
      PROVE  session'.lease # session.lease
  <2>1. session \in Sessions /\ TypeOK /\ session.last \in Nat
    BY <1>1, Numbers DEF Inv
  <2>2. \/ OwnerEnter \/ OwnerExit \/ OwnerStop \/ OwnerRequest
        \/ OwnerActivity \/ OwnerDisconnect \/ OwnerRevoke
    <3>1. session.state = "WEB_TX" /\ session.left = 0
      BY <1>1 DEF LeaseExpired
    <3>2. ~OwnerTick
      BY <1>1, <2>1, TickedKeeps DEF OwnerTick, Published
    <3>e. ~Elapse
      BY <3>1 DEF Elapse
    <3>3. ~(SendWeb \/ RejectWeb \/ SendUsb \/ RejectUsb)
      BY <1>1 DEF SendWeb, RejectWeb, SendUsb, RejectUsb, DrainWeb, DrainUsb, Idle
    <3>4. ~(UsbRead \/ UsbSubmit \/ SubmitWeb) /\ vars' # vars
      BY <1>1 DEF UsbRead, UsbSubmit, SubmitWeb, vars
    <3>5. ~(\/ PressEnter \/ EnqueueEnter \/ PressExit \/ RequestWeb \/ WebActivity
            \/ WebDisconnect \/ RevokeWebTransport \/ StopRequest \/ StopSend)
      BY <1>1 DEF PressEnter, EnqueueEnter, PressExit, RequestWeb, WebActivity,
         WebDisconnect, WebLease, RevokeWebTransport, StopRequest, StopSend, Producing, Apart
    <3> QED
      BY <1>1, <3>2, <3>e, <3>3, <3>4, <3>5 DEF Next
  <2>3. session'.lease = Head(commands).id /\ Head(commands).id > session.last
    BY <1>1, <2>1, <2>2, OwnerMoves DEF Moved
  <2>4. session.last = session.lease
    BY <1>1 DEF Ordered, LeaseIsAsked, LeaseExpired
  <2> QED
    BY <2>1, <2>3, <2>4
<1>2. ASSUME Inv, Ordered, [Next]_vars
      PROVE  LeaseExpired(session) /\ session' # session
             => session'.state # "WEB_TX" \/ session'.lease # session.lease
  BY <1>1, <1>2
<1> QED
  BY <1>2, OrderedInvariant, PTL DEF Spec, ExpiredLeaseEnds

-----------------------------------------------------------------------------
(* The display: frames are whole *)

Buffers == {"working", "successful"}

\* The frame a transfer sends.
Sending == IF kind = "candidate" THEN "working" ELSE "successful"

DisplayTyped ==
  /\ buffer \in [Buffers -> Display!Frames]
  /\ dirty \in BOOLEAN /\ in_flight \in BOOLEAN /\ late \in BOOLEAN
  /\ done \in BOOLEAN /\ done_context \in BOOLEAN /\ reported \in BOOLEAN

\* Between transfers nothing is registered with the panel, nothing is being read
\* and no interrupt is on its way.
Rests == dma = "none" /\ interrupt = "none" /\ ~done /\ ~done_context

\* A transfer is in exactly one place: the engine reads its frame, its interrupt
\* is raised, has taken the callback, or has called it.
Reading  == dma = Sending /\ interrupt = "none" /\ done /\ done_context /\ ~reported
Raised   == dma = "none" /\ interrupt = "raised" /\ done /\ done_context /\ ~reported
Answering == dma = "none" /\ interrupt = "taken" /\ ~done /\ done_context /\ ~reported
Reported == Rests /\ reported

DisplayInv ==
  /\ DisplayTyped /\ ~torn
  /\ in_flight <=> (flush = "wait")
  /\ ~in_flight => Rests /\ kind = "none"
  /\ in_flight => /\ Reading \/ Raised \/ Answering \/ Reported
                  /\ kind \in {"candidate", "recovery"}
                  /\ kind = "recovery" <=> dirty
                  /\ ~Reading => glass = {buffer[Sending]}
  /\ (~in_flight /\ ~dirty) => /\ glass \in {{buffer.working}, Display!Frames}
                               /\ buffer.successful = buffer.working

LEMMA DisplayInit == Display!Init => DisplayInv
<1> SUFFICES ASSUME Display!Init PROVE DisplayInv
  OBVIOUS
<1>1. Display!White \in Display!Frames
  BY DEF Display!White, Display!Frames
<1>2. /\ buffer \in [Buffers -> Display!Frames]
      /\ buffer.successful = buffer.working
  BY <1>1 DEF Display!Init, Buffers
<1> QED
  BY <1>2 DEF Display!Init, DisplayInv, DisplayTyped, Rests

\* LVGL redraws an area: no transfer is in flight, so no frame is being read.
LEMMA FlushKeeps == ASSUME DisplayInv, Display!Flush PROVE DisplayInv'
<1>1. /\ ~in_flight /\ Rests /\ kind = "none" /\ flush = "idle"
      /\ UNCHANGED <<kind, in_flight, late, reported, done, done_context, dma, interrupt,
                     glass>>
      /\ flush' \in {"idle", "submit"}
  BY DEF Display!Flush, DisplayInv
<1>2. PICK area \in Areas, pixel \in BOOLEAN : Display!Packed(area, pixel)
  BY <1>1 DEF Display!Flush, Display!UpdateAdmitted
<1>3. /\ buffer' = [buffer EXCEPT !.working[area] = pixel]
      /\ dirty' = (dirty \/ buffer.working[area] # pixel)
      /\ ~torn'
  BY <1>1, <1>2 DEF Display!Packed, Rests, DisplayInv
<1>4. buffer.working \in Display!Frames /\ buffer \in [Buffers -> Display!Frames]
  BY DEF DisplayInv, DisplayTyped, Buffers
<1>5. [buffer.working EXCEPT ![area] = pixel] \in Display!Frames
  BY <1>2, <1>4 DEF Display!Frames
<1>6. /\ buffer' = [buffer EXCEPT !.working = [buffer.working EXCEPT ![area] = pixel]]
  BY <1>3, <1>4 DEF Buffers
<1>7. buffer' \in [Buffers -> Display!Frames]
  BY <1>4, <1>5, <1>6 DEF Buffers
<1>8. ~dirty' => buffer' = buffer /\ ~dirty
  <2> SUFFICES ASSUME ~dirty' PROVE buffer' = buffer /\ ~dirty
    OBVIOUS
  <2>1. buffer.working[area] = pixel /\ ~dirty
    BY <1>3
  <2>2. [buffer.working EXCEPT ![area] = pixel] = buffer.working
    BY <1>4, <2>1 DEF Display!Frames
  <2> QED
    BY <1>4, <1>6, <2>1, <2>2
<1>9. dirty' \in BOOLEAN /\ DisplayTyped'
  BY <1>1, <1>3, <1>7 DEF DisplayInv, DisplayTyped
<1> QED
  BY <1>1, <1>3, <1>8, <1>9 DEF DisplayInv, Rests

\* A transfer that starts, from a display at rest.
LEMMA StartKeeps ==
  ASSUME DisplayInv, Rests,
         NEW k \in {"candidate", "recovery"},
         NEW frame, frame = (IF k = "candidate" THEN "working" ELSE "successful"),
         Display!Starts(frame, k), dirty' = (k = "recovery"), flush' = "wait",
         UNCHANGED <<buffer, interrupt, torn>>
  PROVE  DisplayInv'
<1>1. /\ done' = TRUE /\ done_context' = TRUE /\ dma' = frame /\ reported' = FALSE
      /\ in_flight' = TRUE /\ kind' = k /\ late' = FALSE
  BY DEF Display!Starts, Display!AdapterStarts
<1>2. Reading'
  BY <1>1 DEF Reading, Sending, Rests
<1>3. DisplayTyped'
  BY <1>1 DEF DisplayInv, DisplayTyped
<1> QED
  BY <1>1, <1>2, <1>3 DEF DisplayInv

\* deck_display_service_submit sends the working frame, or leaves it marked.
LEMMA SubmitKeeps == ASSUME DisplayInv, Display!FlushSubmits PROVE DisplayInv'
<1>1. /\ ~in_flight /\ Rests /\ kind = "none"
      /\ UNCHANGED <<buffer, interrupt, glass, torn>>
  BY DEF Display!FlushSubmits, DisplayInv
<1>2. CASE /\ flush' = "idle"
           /\ UNCHANGED <<kind, dirty, in_flight, late, reported, done, done_context, dma>>
  BY <1>1, <1>2 DEF DisplayInv, DisplayTyped, Rests
<1>3. CASE /\ Display!Starts("working", "candidate") /\ dirty' = FALSE /\ flush' = "wait"
  BY <1>1, <1>3, StartKeeps
<1>4. CASE /\ Display!DoesNotStart /\ flush' = "idle" /\ dirty
           /\ UNCHANGED <<kind, dirty, in_flight, late>>
  <2>1. reported' = FALSE /\ UNCHANGED <<done, done_context, dma>>
    BY <1>4 DEF Display!DoesNotStart, Display!AdapterFails
  <2> QED
    BY <1>1, <1>4, <2>1 DEF DisplayInv, DisplayTyped, Rests
<1> QED
  BY <1>1, <1>2, <1>3, <1>4 DEF Display!FlushSubmits, Display!Submit

\* The poll finds the transfer completed, in time, late, or that of a recovery.
LEMMA CompletesKeeps == ASSUME DisplayInv, Display!WaitCompletes PROVE DisplayInv'
<1>1. /\ in_flight /\ reported /\ Rests /\ flush = "wait"
      /\ UNCHANGED <<interrupt, glass>>
  BY DEF Display!WaitCompletes, DisplayInv, Reading, Raised, Answering, Reported
<1>2. /\ (kind = "recovery") <=> dirty
      /\ dirty \in BOOLEAN /\ ~torn
      /\ glass = {buffer[Sending]} /\ buffer \in [Buffers -> Display!Frames]
  BY <1>1 DEF DisplayInv, DisplayTyped, Reading
<1>3. CASE Display!CompletedInTime
  <2>1. /\ kind = "candidate" /\ in_flight' = FALSE /\ kind' = "none" /\ reported' = FALSE
        /\ buffer' = [buffer EXCEPT !.successful = buffer.working]
        /\ torn' = FALSE /\ flush' = "idle"
        /\ UNCHANGED <<dirty, late, done, done_context, dma>>
    BY <1>1, <1>2, <1>3 DEF Display!CompletedInTime, Rests
  <2>2. /\ buffer' \in [Buffers -> Display!Frames]
        /\ buffer'.working = buffer.working /\ buffer'.successful = buffer.working
    BY <1>2, <2>1 DEF Buffers
  <2>3. glass' = {buffer'.working}
    BY <1>1, <1>2, <2>1, <2>2 DEF Sending
  <2>4. DisplayTyped'
    BY <2>1, <2>2 DEF DisplayInv, DisplayTyped
  <2> QED
    BY <1>1, <2>1, <2>2, <2>3, <2>4 DEF DisplayInv, Rests
<1>4. CASE Display!CompletedLate
  <2>1. dirty' = TRUE /\ UNCHANGED <<buffer, torn>>
    BY <1>4 DEF Display!CompletedLate, Display!Suspect
  <2>2. CASE Display!Starts("successful", "recovery") /\ flush' = "wait"
    BY <1>1, <2>1, <2>2, StartKeeps
  <2>3. CASE /\ Display!DoesNotStart /\ in_flight' = FALSE /\ kind' = "none"
             /\ late' = FALSE /\ flush' = "idle"
    <3>1. reported' = FALSE /\ UNCHANGED <<done, done_context, dma>>
      BY <2>3 DEF Display!DoesNotStart, Display!AdapterFails
    <3> QED
      BY <1>1, <2>1, <2>3, <3>1 DEF DisplayInv, DisplayTyped, Rests
  <2> QED
    BY <1>4, <2>2, <2>3 DEF Display!CompletedLate
<1>5. CASE Display!Recovered
  <2>1. /\ kind = "recovery" /\ in_flight' = FALSE /\ kind' = "none" /\ late' = FALSE
        /\ reported' = FALSE /\ flush' = "retry"
        /\ UNCHANGED <<buffer, torn, dirty, done, done_context, dma>>
    BY <1>5 DEF Display!Recovered
  <2> QED
    BY <1>1, <1>2, <2>1 DEF DisplayInv, DisplayTyped, Rests
<1> QED
  BY <1>3, <1>4, <1>5 DEF Display!WaitCompletes

\* The engine, and the two exchanges of its interrupt.
LEMMA PanelKeeps ==
  ASSUME DisplayInv,
         Display!TransferEnds \/ Display!InterruptTakes \/ Display!InterruptCalls
  PROVE  DisplayInv'
<1>1. /\ in_flight /\ flush = "wait"
      /\ UNCHANGED <<buffer, kind, dirty, in_flight, late, torn, flush>>
  BY DEF Display!TransferEnds, Display!InterruptTakes, Display!InterruptCalls, DisplayInv,
         Rests
<1>2. Sending' = Sending /\ Sending # "none"
  BY <1>1 DEF Sending
<1>3. CASE Display!TransferEnds
  <2>1. Reading /\ Raised' /\ glass' = {buffer[Sending]}
        /\ UNCHANGED <<reported, done, done_context>>
    BY <1>1, <1>2, <1>3
    DEF Display!TransferEnds, DisplayInv, Reading, Raised, Answering, Reported, Rests
  <2> QED
    BY <1>1, <1>2, <2>1 DEF DisplayInv, DisplayTyped
<1>4. CASE Display!InterruptTakes
  <2>1. Raised /\ Answering' /\ UNCHANGED <<glass, reported, done_context>> /\ done' = FALSE
    BY <1>1, <1>2, <1>4
    DEF Display!InterruptTakes, DisplayInv, Reading, Raised, Answering, Reported, Rests
  <2> QED
    BY <1>1, <1>2, <2>1 DEF DisplayInv, DisplayTyped, Reading, Raised
<1>5. CASE Display!InterruptCalls
  <2>1. Answering /\ Reported' /\ UNCHANGED <<glass, done>> /\ done_context' = FALSE
        /\ reported' = TRUE
    BY <1>1, <1>2, <1>5
    DEF Display!InterruptCalls, DisplayInv, Reading, Raised, Answering, Reported, Rests
  <2> QED
    BY <1>1, <1>2, <2>1 DEF DisplayInv, DisplayTyped, Reading, Answering
<1> QED
  BY <1>3, <1>4, <1>5

LEMMA DisplayNext ==
  ASSUME DisplayInv, Display!Next \/ UNCHANGED displayVars
  PROVE  DisplayInv'
<1>1. CASE Display!WaitTimesOut
  <2>1. /\ late' = TRUE
        /\ UNCHANGED <<buffer, kind, dirty, in_flight, reported, done, done_context, dma,
                       interrupt, glass, torn, flush>>
    BY <1>1 DEF Display!WaitTimesOut, Display!PollTimesOut
  <2> QED
    BY <2>1
    DEF DisplayInv, DisplayTyped, Rests, Reading, Raised, Answering, Reported, Sending
<1>2. CASE UNCHANGED displayVars
  BY <1>2
  DEF displayVars, DisplayInv, DisplayTyped, Rests, Reading, Raised, Answering, Reported,
      Sending
<1> QED
  BY <1>1, <1>2, FlushKeeps, SubmitKeeps, CompletesKeeps, PanelKeeps DEF Display!Next

\* Through late completions and transfers that do not start, the frame being
\* sent is not written until the panel has read it, no completion is lost, and a
\* frame that is not marked for sending is the one on the panel
\* (deck_display_service_submit and _poll, color_transfer_done).
THEOREM FramesStayWhole == MCSpec => []FramesAreWhole
<1>1. MCInit => DisplayInv
  BY DisplayInit DEF MCInit
<1>2. DisplayInv /\ [MCNext]_<<part, vars, appVars, displayVars, outputVars>> => DisplayInv'
  <2> SUFFICES ASSUME DisplayInv, [MCNext]_<<part, vars, appVars, displayVars, outputVars>>
               PROVE  Display!Next \/ UNCHANGED displayVars
    BY DisplayNext
  <2> QED
    BY DEF MCNext
<1>3. DisplayInv => FramesAreWhole
  BY DEF DisplayInv, DisplayTyped, FramesAreWhole, Display!FramesAreWhole, Reading, Raised,
         Answering, Reported, Rests, Sending
<1> QED
  BY <1>1, <1>2, <1>3, PTL DEF MCSpec

-----------------------------------------------------------------------------
(* The application: callbacks are safe and the newest is shown *)

\* Until the UI is ready, and after a start that failed, nothing else runs.
Early == {"display", "ui", "ended"}
Later == {"setup", "serial", "attach", "stop view", "peripherals", "up"}

AppTyped ==
  /\ ui \in [state : {"off", "starting", "ready", "gone"}, updates : App!Models \cup {Empty},
             shown : App!Models]
  /\ model \in App!Models
  /\ view \in [at : {"off", "wait", "store", "apply"}, event : BOOLEAN]
  /\ mail \in BOOLEAN \cup {Empty}
  /\ {"at", "armed"} \subseteq DOMAIN owner /\ owner.armed \in BOOLEAN
  /\ DOMAIN setup = {"at", "offset", "update"} /\ setup.update \in BOOLEAN
  /\ "offset" \in DOMAIN monitor /\ "at" \in DOMAIN publisher

\* Which tasks run, and on what, at each step of app_main.
AppPhases ==
  /\ at \in Early \cup Later
  /\ at \in Early =>
       /\ owner.at = "off" /\ ~owner.armed /\ view.at = "off" /\ setup.at = "off"
       /\ ai = "off" /\ publisher.at = "wait" /\ snapshots = Empty
       /\ "peripherals" \notin have /\ ui.updates = Empty
  /\ at = "display" => ui.state = "off"
  /\ at = "ended" => ui.state \in {"off", "gone"}
  /\ at = "ui" => /\ "mutex" \in have
                  /\ ui.state # "gone" => {"panel", "display"} \subseteq have
  /\ at \in Later => ui.state = "ready" /\ {"panel", "display", "mutex"} \subseteq have
  /\ at = "setup" => setup.at = "off" /\ ai = "off"
  /\ at \in {"setup", "serial"} => owner.at = "off"
  /\ owner.at # "off" => {"serial", "view"} \subseteq have

\* The monitor has the newest offset, or Setup Mode's callback is on its way to it.
OffsetKept ==
  /\ setup.at = "offset" => setup.offset = offset
  /\ ("peripherals" \in have /\ (setup.at = "offset" => ~setup.update))
       => monitor.offset = offset

\* Somebody has changed the model and is about to publish it.
Publishing == publisher.at = "publish" \/ setup.at \in {"offset", "publish"} \/ ai = "publish"

\* The model the UI shows or is about to.
ToShow == IF ui.updates = Empty THEN ui.shown ELSE ui.updates

ModelShown == Publishing \/ ToShow = model

\* What the view was last told of the owner, or has told the model.
Told == IF mail # Empty THEN mail
        ELSE IF view.at \in {"store", "apply"} THEN view.event ELSE model.armed

OwnerTold == owner.at = "loop" => Told = owner.armed

AppInv == AppTyped /\ AppPhases /\ OffsetKept /\ ModelShown /\ OwnerTold

LEMMA AppInit == App!Init => AppInv
<1> SUFFICES ASSUME App!Init PROVE AppInv
  OBVIOUS
<1>1. App!InitialModel \in App!Models
  BY DEF App!InitialModel, App!Models
<1>2. AppTyped
  BY <1>1 DEF App!Init, AppTyped
<1>3. AppPhases /\ OffsetKept
  BY DEF App!Init, AppPhases, OffsetKept, Early, Later
<1>4. ModelShown /\ OwnerTold
  BY DEF App!Init, ModelShown, ToShow, OwnerTold
<1> QED
  BY <1>2, <1>3, <1>4 DEF AppInv

\* A step of the input, measurement or publisher task that does not publish.
LEMMA AppFrame ==
  ASSUME AppInv, at \in Later, publisher.at # "publish",
         UNCHANGED <<at, have, ui, model, offset, owner, mail, view, setup, ai>>,
         monitor'.offset = monitor.offset, "offset" \in DOMAIN monitor',
         "at" \in DOMAIN publisher'
  PROVE  AppInv'
<1>1. AppTyped'
  BY DEF AppInv, AppTyped
<1>2. AppPhases'
  BY DEF AppInv, AppPhases, Early, Later
<1>3. OffsetKept' /\ OwnerTold'
  BY DEF AppInv, OffsetKept, OwnerTold, Told
<1>4. ModelShown'
  BY DEF AppInv, ModelShown, Publishing, ToShow
<1> QED
  BY <1>1, <1>2, <1>3, <1>4 DEF AppInv

\* What the later steps find.
LEMMA AppFacts ==
  ASSUME AppInv
  PROVE  /\ (\/ "peripherals" \in have \/ publisher.at # "wait" \/ snapshots # Empty
             \/ owner.at # "off" \/ owner.armed \/ view.at # "off" \/ setup.at # "off"
             \/ ai # "off" \/ ui.updates # Empty) => at \in Later
         /\ at \in Later => ui.state = "ready" /\ "mutex" \in have
BY DEF AppInv, AppPhases, Early, Later

LEMMA ThenKeepsShape ==
  ASSUME NEW step, "at" \in DOMAIN publisher, App!Then(step)
  PROVE  "at" \in DOMAIN publisher'
BY DEF App!Then

LEMMA InputsKeep ==
  ASSUME AppInv,
         \/ \E button \in {"key", "boot"}, how \in {"short", "long"} : App!Press(button, how)
         \/ App!Measure
  PROVE  AppInv'
<1>1. at \in Later
  BY AppFacts DEF App!Press, App!Measure
<1>2. /\ UNCHANGED <<at, have, ui, model, offset, owner, mail, view, setup, ai, publisher>>
      /\ monitor'.offset = monitor.offset /\ "offset" \in DOMAIN monitor'
  BY DEF App!Press, App!Measure, App!KeepInputs, App!app, App!serial, AppInv, AppTyped
<1>3. AppTyped'
  BY <1>2 DEF AppInv, AppTyped
<1>4. AppPhases'
  BY <1>1, <1>2 DEF AppInv, AppPhases, Early, Later
<1>5. OffsetKept' /\ OwnerTold' /\ ModelShown'
  BY <1>2 DEF AppInv, OffsetKept, OwnerTold, Told, ModelShown, Publishing, ToShow
<1> QED
  BY <1>3, <1>4, <1>5 DEF AppInv

LEMMA PublisherKeeps ==
  ASSUME AppInv,
         \/ App!Receive \/ App!QueueEntry \/ App!Entered \/ App!QueueExit \/ App!Left
         \/ App!EnterSetup
  PROVE  AppInv'
<1>1. at \in Later /\ publisher.at # "publish"
  BY AppFacts DEF App!Receive, App!QueueEntry, App!Entered, App!QueueExit, App!Left,
                  App!EnterSetup
<1>2. /\ UNCHANGED <<at, have, ui, model, offset, owner, mail, view, setup, ai>>
      /\ monitor' = monitor
  BY DEF App!Receive, App!QueueEntry, App!Entered, App!QueueExit, App!Left, App!EnterSetup,
         App!KeepPublisher, App!app, App!serial
<1>3. "at" \in DOMAIN publisher /\ "offset" \in DOMAIN monitor
  BY DEF AppInv, AppTyped
<1>4. "at" \in DOMAIN publisher'
  <2>1. \/ App!Then("enter") \/ App!Then("exit") \/ App!Then("setup") \/ App!Receive
        \/ publisher' = [publisher EXCEPT !.at = "entered"]
        \/ publisher' = [publisher EXCEPT !.at = "left"]
    BY DEF App!QueueEntry, App!Entered, App!QueueExit, App!Left, App!EnterSetup
  <2>2. App!Receive => "at" \in DOMAIN publisher'
    BY DEF App!Receive
  <2> QED
    BY <1>3, <2>1, <2>2, ThenKeepsShape
<1> QED
  BY <1>1, <1>2, <1>3, <1>4, AppFrame

LEMMA DecideKeeps ==
  ASSUME AppInv, App!Decide
  PROVE  AppInv'
<1>1. at \in Later
  BY AppFacts DEF App!Decide
<1>2. /\ UNCHANGED <<at, have, ui, offset, owner, mail, view, setup, ai, monitor>>
      /\ publisher' = [publisher EXCEPT !.at = "publish", !.todo = publisher'.todo]
      /\ model' \in {[model EXCEPT !.hint = ~@], model}
  BY DEF App!Decide, App!KeepPublisher, App!app, App!serial
<1>3. publisher'.at = "publish" /\ "at" \in DOMAIN publisher'
  BY <1>2 DEF AppInv, AppTyped
<1>4. model' \in App!Models /\ model'.armed = model.armed
  BY <1>2 DEF AppInv, AppTyped, App!Models
<1>5. AppTyped'
  BY <1>2, <1>3, <1>4 DEF AppInv, AppTyped
<1>6. AppPhases'
  BY <1>1, <1>2 DEF AppInv, AppPhases, Early, Later
<1>7. OffsetKept' /\ OwnerTold' /\ ModelShown'
  BY <1>2, <1>3, <1>4 DEF AppInv, OffsetKept, OwnerTold, Told, ModelShown, Publishing
<1> QED
  BY <1>5, <1>6, <1>7 DEF AppInv

\* What is published is on its way to the UI.
LEMMA PublishShows ==
  ASSUME AppInv, at \in Later, App!Publish, model' = model
  PROVE  /\ ui' = [ui EXCEPT !.updates = model] /\ ui'.state = ui.state
         /\ ui' \in [state : {"off", "starting", "ready", "gone"},
                     updates : App!Models \cup {Empty}, shown : App!Models]
         /\ ToShow' = model'
<1>1. ui' = [ui EXCEPT !.updates = model]
  BY AppFacts DEF App!Publish, App!Updated
<1>2. model \in App!Models /\ model # Empty
  BY MailboxAssumption DEF AppInv, AppTyped
<1> QED
  BY <1>1, <1>2 DEF AppInv, AppTyped, ToShow

LEMMA PublishesKeeps ==
  ASSUME AppInv, App!PublishModel \/ App!SetupPublishes \/ App!AiPagePublishes
  PROVE  AppInv'
<1>1. at \in Later /\ App!Publish
  BY AppFacts DEF App!PublishModel, App!SetupPublishes, App!AiPagePublishes
<1>2. UNCHANGED <<at, have, model, offset, owner, mail, view, monitor>>
  BY DEF App!PublishModel, App!SetupPublishes, App!AiPagePublishes, App!KeepPublisher,
         App!KeepSetup, App!KeepPage, App!app, App!serial, App!buttons
<1>3. /\ "at" \in DOMAIN publisher'
      /\ setup' = setup \/ (setup' = [setup EXCEPT !.at = "wait"] /\ setup.at = "publish")
  <2>1. CASE App!PublishModel
    BY <2>1, ThenKeepsShape DEF App!PublishModel, App!KeepPublisher, AppInv, AppTyped
  <2>2. CASE App!SetupPublishes
    BY <2>2 DEF App!SetupPublishes, App!KeepSetup, AppInv, AppTyped
  <2>3. CASE App!AiPagePublishes
    BY <2>3 DEF App!AiPagePublishes, App!KeepPage, AppInv, AppTyped
  <2> QED
    BY <2>1, <2>2, <2>3
<1>3a. at = "setup" => setup' = setup /\ ai' = ai
  BY DEF AppInv, AppPhases, App!PublishModel, App!SetupPublishes, App!AiPagePublishes,
         App!KeepPublisher, App!KeepSetup, App!KeepPage
<1>4. /\ ui'.state = ui.state /\ ToShow' = model'
      /\ ui' \in [state : {"off", "starting", "ready", "gone"},
                  updates : App!Models \cup {Empty}, shown : App!Models]
  BY <1>1, <1>2, PublishShows
<1>5. AppTyped'
  BY <1>2, <1>3, <1>4 DEF AppInv, AppTyped
<1>6. AppPhases'
  BY <1>1, <1>2, <1>3a, <1>4 DEF AppInv, AppPhases, Early, Later
<1>7. OffsetKept' /\ OwnerTold' /\ ModelShown'
  BY <1>2, <1>3, <1>4 DEF AppInv, AppTyped, OffsetKept, OwnerTold, Told, ModelShown
<1> QED
  BY <1>5, <1>6, <1>7 DEF AppInv

LEMMA SetupEventKeeps ==
  ASSUME AppInv, App!SetupEvent
  PROVE  AppInv'
<1>1. at \in Later /\ at # "setup"
  BY AppFacts DEF App!SetupEvent, AppInv, AppPhases
<1>2. UNCHANGED <<at, have, ui, owner, mail, view, monitor, publisher, ai>>
  BY DEF App!SetupEvent, App!KeepSetup, App!app, App!serial, App!buttons
<1>3. PICK state \in {"ACTIVE", "IDLE", "UNAVAILABLE"}, value \in Offsets :
        /\ model' = [model EXCEPT !.setup = state]
        /\ offset' = value
        /\ setup' = [at |-> "offset", offset |-> value, update |-> "peripherals" \in have]
  BY DEF App!SetupEvent
<1>4. model' \in App!Models /\ model'.armed = model.armed
  BY <1>3 DEF AppInv, AppTyped, App!Models
<1>5. /\ setup'.at = "offset" /\ setup'.offset = offset' /\ setup'.update \in BOOLEAN
      /\ "peripherals" \in have => setup'.update
      /\ DOMAIN setup' = {"at", "offset", "update"}
  <2>1. CASE "peripherals" \in have
    BY <1>3, <2>1
  <2>2. CASE "peripherals" \notin have
    BY <1>3, <2>2
  <2> QED
    BY <2>1, <2>2
<1>6. AppTyped'
  BY <1>2, <1>4, <1>5 DEF AppInv, AppTyped
<1>7. AppPhases'
  BY <1>1, <1>2 DEF AppInv, AppPhases, Early, Later
<1>8. OffsetKept' /\ OwnerTold' /\ ModelShown'
  BY <1>2, <1>4, <1>5 DEF AppInv, OffsetKept, OwnerTold, Told, ModelShown, Publishing
<1> QED
  BY <1>6, <1>7, <1>8 DEF AppInv

LEMMA SetOffsetKeeps ==
  ASSUME AppInv, App!SetOffset
  PROVE  AppInv'
<1>1. at \in Later /\ at # "setup"
  BY AppFacts DEF App!SetOffset, AppInv, AppPhases
<1>2. /\ UNCHANGED <<at, have, ui, model, offset, owner, mail, view, publisher, ai>>
      /\ setup' = [setup EXCEPT !.at = "publish"] /\ setup.at = "offset"
      /\ setup.update => monitor' = [monitor EXCEPT !.offset = setup.offset]
      /\ ~setup.update => monitor' = monitor
  BY DEF App!SetOffset, App!KeepSetup, App!app, App!serial, App!buttons
<1>3. /\ setup'.at = "publish" /\ setup'.update = setup.update
      /\ DOMAIN setup' = {"at", "offset", "update"} /\ "offset" \in DOMAIN monitor'
  BY <1>2 DEF AppInv, AppTyped
<1>4. AppTyped'
  BY <1>2, <1>3 DEF AppInv, AppTyped
<1>5. AppPhases'
  BY <1>1, <1>2 DEF AppInv, AppPhases, Early, Later
<1>6. OffsetKept'
  BY <1>2, <1>3 DEF AppInv, AppTyped, OffsetKept
<1>7. OwnerTold' /\ ModelShown'
  BY <1>2, <1>3 DEF AppInv, OwnerTold, Told, ModelShown, Publishing
<1> QED
  BY <1>4, <1>5, <1>6, <1>7 DEF AppInv

LEMMA AiPageProjectsKeeps ==
  ASSUME AppInv, App!AiPageProjects
  PROVE  AppInv'
<1>1. at \in Later /\ at # "setup"
  BY AppFacts DEF App!AiPageProjects, AppInv, AppPhases
<1>2. /\ UNCHANGED <<at, have, ui, offset, owner, mail, view, monitor, publisher, setup>>
      /\ model' = [model EXCEPT !.active = TRUE] /\ ai' = "publish"
  BY DEF App!AiPageProjects, App!KeepPage, App!app, App!serial, App!buttons
<1>3. model' \in App!Models /\ model'.armed = model.armed
  BY <1>2 DEF AppInv, AppTyped, App!Models
<1>4. AppTyped'
  BY <1>2, <1>3 DEF AppInv, AppTyped
<1>4a. AppPhases'
  BY <1>1, <1>2 DEF AppInv, AppPhases, Early, Later
<1>5. OffsetKept' /\ OwnerTold' /\ ModelShown'
  BY <1>2, <1>3 DEF AppInv, OffsetKept, OwnerTold, Told, ModelShown, Publishing
<1> QED
  BY <1>4, <1>4a, <1>5 DEF AppInv

LEMMA OwnerTakesKeeps ==
  ASSUME AppInv, App!OwnerTakes
  PROVE  AppInv'
<1>1. at \in Later /\ at \notin {"setup", "serial"} /\ {"serial", "view"} \subseteq have
  BY AppFacts DEF App!OwnerTakes, AppInv, AppPhases
<1>2. UNCHANGED <<at, have, ui, model, offset, mail, view, monitor, publisher, setup, ai>>
  BY DEF App!OwnerTakes, App!KeepOwner, App!app, App!buttons
<1>3. /\ owner'.at = "publish" /\ {"at", "armed"} \subseteq DOMAIN owner'
      /\ owner'.armed \in BOOLEAN
  <2>1. \/ App!OwnerEnters(Head(queued)) \/ App!OwnerLeaves(Head(queued))
    BY DEF App!OwnerTakes
  <2>2. {"at", "armed"} \subseteq DOMAIN owner /\ owner.armed \in BOOLEAN
    BY DEF AppInv, AppTyped
  <2>3. \/ owner' = [owner EXCEPT !.at = "publish"]
        \/ owner' = [owner EXCEPT !.at = "publish", !.armed = TRUE, !.by = owner'.by]
        \/ owner' = [owner EXCEPT !.at = "publish", !.armed = FALSE, !.epoch = owner'.epoch]
    <3>1. CASE App!OwnerEnters(Head(queued))
      BY <3>1, <2>2 DEF App!OwnerEnters
    <3>2. CASE App!OwnerLeaves(Head(queued))
      BY <3>2, <2>2 DEF App!OwnerLeaves
    <3> QED
      BY <2>1, <3>1, <3>2
  <2> QED
    BY <2>2, <2>3
<1>4. AppTyped'
  BY <1>2, <1>3 DEF AppInv, AppTyped
<1>5. AppPhases'
  BY <1>1, <1>2 DEF AppInv, AppPhases, Early, Later
<1>6. OffsetKept' /\ OwnerTold' /\ ModelShown'
  BY <1>2, <1>3 DEF AppInv, OffsetKept, OwnerTold, ModelShown, Publishing, ToShow
<1> QED
  BY <1>4, <1>5, <1>6 DEF AppInv

LEMMA OwnerPublishesKeeps ==
  ASSUME AppInv, App!OwnerPublishes
  PROVE  AppInv'
<1>1. at \in Later /\ at \notin {"setup", "serial"} /\ {"serial", "view"} \subseteq have
  BY AppFacts DEF App!OwnerPublishes, AppInv, AppPhases
<1>2. /\ UNCHANGED <<at, have, ui, model, offset, view, monitor, publisher, setup, ai>>
      /\ mail' = owner.armed /\ owner' = [owner EXCEPT !.at = "loop"]
  BY DEF App!OwnerPublishes, App!Mailed, App!KeepOwner, App!app, App!buttons
<1>3. /\ {"at", "armed"} \subseteq DOMAIN owner' /\ owner'.armed = owner.armed
      /\ mail' \in BOOLEAN /\ mail' = owner'.armed /\ mail' # Empty
  BY <1>2, MailboxAssumption DEF AppInv, AppTyped
<1>4. AppTyped'
  BY <1>2, <1>3 DEF AppInv, AppTyped
<1>5. AppPhases'
  BY <1>1, <1>2 DEF AppInv, AppPhases, Early, Later
<1>6. OffsetKept' /\ OwnerTold' /\ ModelShown'
  BY <1>2, <1>3
  DEF AppInv, OffsetKept, OwnerTold, Told, ModelShown, Publishing, ToShow
<1> QED
  BY <1>4, <1>5, <1>6 DEF AppInv

LEMMA ViewHandsOn ==
  ASSUME AppInv, App!ViewReceives \/ App!ViewStores
  PROVE  AppInv'
<1>1. at \in Later
  BY AppFacts DEF App!ViewReceives, App!ViewStores
<1>2. UNCHANGED <<at, have, ui, model, offset, owner, monitor, publisher, setup, ai>>
  BY DEF App!ViewReceives, App!ViewStores, App!KeepView, App!app, App!buttons
<1>3. /\ view' \in [at : {"off", "wait", "store", "apply"}, event : BOOLEAN]
      /\ mail' \in BOOLEAN \cup {Empty} /\ Told' = Told
  <2>1. CASE App!ViewReceives
    <3>1. mail \in BOOLEAN /\ mail # Empty /\ mail' = Empty
      BY <2>1 DEF App!ViewReceives, AppInv, AppTyped
    <3>2. view'.at = "store" /\ view'.event = mail
      BY <2>1 DEF App!ViewReceives
    <3>3. view' \in [at : {"off", "wait", "store", "apply"}, event : BOOLEAN]
      BY <2>1, <3>1 DEF App!ViewReceives
    <3> QED
      BY <3>1, <3>2, <3>3 DEF Told
  <2>2. CASE App!ViewStores
    <3>1. mail' = mail /\ view' = [view EXCEPT !.at = "apply"] /\ view.at = "store"
      BY <2>2 DEF App!ViewStores
    <3>2. /\ view' \in [at : {"off", "wait", "store", "apply"}, event : BOOLEAN]
          /\ view'.at = "apply" /\ view'.event = view.event
      BY <3>1 DEF AppInv, AppTyped
    <3> QED
      BY <1>2, <3>1, <3>2 DEF Told, AppInv, AppTyped
  <2> QED
    BY <2>1, <2>2
<1>4. AppTyped'
  BY <1>2, <1>3 DEF AppInv, AppTyped
<1>5. AppPhases'
  BY <1>1, <1>2 DEF AppInv, AppPhases, Early, Later
<1>6. OffsetKept' /\ OwnerTold' /\ ModelShown'
  BY <1>2, <1>3 DEF AppInv, OffsetKept, OwnerTold, ModelShown, Publishing, ToShow
<1> QED
  BY <1>4, <1>5, <1>6 DEF AppInv

LEMMA ViewAppliesKeeps ==
  ASSUME AppInv, App!ViewApplies
  PROVE  AppInv'
<1>1. at \in Later
  BY AppFacts DEF App!ViewApplies
<1>2. /\ UNCHANGED <<at, have, offset, owner, mail, monitor, publisher, setup, ai>>
      /\ model' = [model EXCEPT !.armed = view.event] /\ view.at = "apply"
      /\ view' = [view EXCEPT !.at = "wait"]
  BY DEF App!ViewApplies, App!KeepView, App!app, App!buttons
<1>3. ui' = [ui EXCEPT !.updates = model']
  BY <1>1, AppFacts DEF App!ViewApplies, App!Updated
<1>4. model' \in App!Models /\ model'.armed = view.event /\ model' # Empty
  BY <1>2, MailboxAssumption DEF AppInv, AppTyped, App!Models
<1>5. /\ view' \in [at : {"off", "wait", "store", "apply"}, event : BOOLEAN]
      /\ view'.at = "wait"
  BY <1>2 DEF AppInv, AppTyped
<1>6. /\ ui' \in [state : {"off", "starting", "ready", "gone"},
                  updates : App!Models \cup {Empty}, shown : App!Models]
      /\ ui'.state = ui.state /\ ui'.updates = model'
  BY <1>3, <1>4 DEF AppInv, AppTyped
<1>7. AppTyped'
  BY <1>2, <1>4, <1>5, <1>6 DEF AppInv, AppTyped
<1>8. AppPhases'
  BY <1>1, <1>2, <1>6 DEF AppInv, AppPhases, Early, Later
<1>9. OffsetKept' /\ OwnerTold'
  BY <1>2, <1>4, <1>5 DEF AppInv, OffsetKept, OwnerTold, Told
<1>10. ModelShown'
  BY <1>4, <1>6 DEF ModelShown, ToShow
<1> QED
  BY <1>7, <1>8, <1>9, <1>10 DEF AppInv

LEMMA UiKeeps ==
  ASSUME AppInv, App!UiReady \/ App!UiFails \/ App!UiReceives
  PROVE  AppInv'
<1>1. UNCHANGED <<at, model, offset, owner, mail, view, monitor, publisher, snapshots,
                  setup, ai>>
  BY DEF App!UiReady, App!UiFails, App!UiReceives, App!app, App!serial, App!buttons
<1>2. CASE App!UiReceives
  <2>1. /\ have' = have /\ ui.updates # Empty
        /\ ui' = [ui EXCEPT !.updates = Empty, !.shown = ui.updates]
    BY <1>2 DEF App!UiReceives, App!app
  <2>2. at \in Later
    BY <2>1, AppFacts
  <2>3. ui.updates \in App!Models
    BY <2>1 DEF AppInv, AppTyped
  <2>4. /\ ui' \in [state : {"off", "starting", "ready", "gone"},
                    updates : App!Models \cup {Empty}, shown : App!Models]
        /\ ui'.state = ui.state /\ ui'.updates = Empty /\ ui'.shown = ui.updates
    BY <2>1, <2>3 DEF AppInv, AppTyped
  <2>5. AppTyped'
    BY <1>1, <2>4 DEF AppInv, AppTyped
  <2>6. AppPhases'
    BY <1>1, <2>1, <2>2, <2>4 DEF AppInv, AppPhases, Early, Later
  <2>7. OffsetKept' /\ OwnerTold' /\ ModelShown'
    BY <1>1, <2>1, <2>4
    DEF AppInv, OffsetKept, OwnerTold, Told, ModelShown, Publishing, ToShow
  <2> QED
    BY <2>5, <2>6, <2>7 DEF AppInv
<1>3. CASE App!UiReady \/ App!UiFails
  <2>1. at = "ui" /\ ui.state = "starting" /\ ui.updates = Empty
    BY <1>3 DEF App!UiReady, App!UiFails, AppInv, AppPhases, Early, Later
  <2>2. /\ ui' \in [state : {"off", "starting", "ready", "gone"},
                    updates : App!Models \cup {Empty}, shown : App!Models]
        /\ ui'.updates = Empty /\ ui'.shown = ui.shown
        /\ \/ ui'.state = "ready" /\ have' = have
           \/ ui'.state = "gone" /\ have' = App!Released(have)
    <3>1. CASE App!UiReady
      BY <2>1, <3>1 DEF App!UiReady, App!app, AppInv, AppTyped
    <3>2. CASE App!UiFails
      BY <2>1, <3>2 DEF App!UiFails, AppInv, AppTyped
    <3> QED
      BY <1>3, <3>1, <3>2
  <2>3. /\ "mutex" \in have' /\ "peripherals" \notin have'
        /\ ui'.state # "gone" => {"panel", "display"} \subseteq have'
    BY <2>1, <2>2 DEF App!Released, AppInv, AppPhases, Early
  <2>4. AppTyped'
    BY <1>1, <2>2 DEF AppInv, AppTyped
  <2>5. AppPhases'
    BY <1>1, <2>1, <2>2, <2>3 DEF AppInv, AppPhases, Early, Later
  <2>6. OffsetKept'
    BY <1>1, <2>3 DEF AppInv, OffsetKept
  <2>7. OwnerTold' /\ ModelShown'
    BY <1>1, <2>1, <2>2 DEF AppInv, OwnerTold, Told, ModelShown, Publishing, ToShow
  <2> QED
    BY <2>4, <2>5, <2>6, <2>7 DEF AppInv
<1> QED
  BY <1>2, <1>3

\* The display and the UI.
LEMMA DisplayStartKeeps ==
  ASSUME AppInv, App!StartDisplay \/ App!WaitForUi
  PROVE  AppInv'
<1>1. UNCHANGED <<model, offset, owner, mail, view, monitor, publisher, snapshots, setup, ai>>
  BY DEF App!StartDisplay, App!WaitForUi, App!Idle, App!buttons
<1>2. at \in Early /\ at' \in {"ui", "ended", "setup"}
  BY DEF App!StartDisplay, App!WaitForUi, Early
<1>3. /\ ui' \in [state : {"off", "starting", "ready", "gone"},
                  updates : App!Models \cup {Empty}, shown : App!Models]
      /\ ui'.updates = Empty /\ ui'.shown = ui.shown /\ "peripherals" \notin have'
      /\ at' = "ended" => ui'.state \in {"off", "gone"}
      /\ at' = "ui" => {"panel", "display", "mutex"} \subseteq have'
      /\ at' = "setup" => ui'.state = "ready" /\ {"panel", "display", "mutex"} \subseteq have'
  <2>1. CASE App!StartDisplay
    BY <2>1 DEF App!StartDisplay, AppInv, AppTyped, AppPhases, Early
  <2>2. CASE App!WaitForUi
    BY <2>2 DEF App!WaitForUi, AppInv, AppTyped, AppPhases, Early
  <2> QED
    BY <2>1, <2>2
<1>4. AppTyped'
  BY <1>1, <1>3 DEF AppInv, AppTyped
<1>5. AppPhases'
  BY <1>1, <1>2, <1>3 DEF AppInv, AppPhases, Early, Later
<1>6. OffsetKept'
  BY <1>1, <1>3 DEF AppInv, OffsetKept
<1>7. OwnerTold' /\ ModelShown'
  BY <1>1, <1>2, <1>3 DEF AppInv, AppPhases, OwnerTold, Told, ModelShown, Publishing, ToShow
<1> QED
  BY <1>4, <1>5, <1>6, <1>7 DEF AppInv

LEMMA StartSetupKeeps ==
  ASSUME AppInv, App!StartSetup
  PROVE  AppInv'
<1>1. /\ UNCHANGED <<ui, model, offset, owner, mail, view, monitor, publisher, snapshots>>
      /\ at = "setup" /\ at' = "serial"
  BY DEF App!StartSetup, App!Idle, App!buttons
<1>2. /\ setup.at = "off" /\ ai = "off" /\ owner.at = "off"
      /\ {"panel", "display", "mutex"} \subseteq have
  BY <1>1 DEF AppInv, AppPhases, Later
<1>3. /\ have' \in {have, have \union {"setup"}, have \union {"setup", "link"},
                    have \union {"setup", "link", "ai"}}
      /\ setup' \in {setup, [setup EXCEPT !.at = "wait"]} /\ ai' \in {"off", "poll"}
  BY <1>2 DEF App!StartSetup
<1>4. /\ setup'.at \in {"off", "wait"} /\ setup'.update \in BOOLEAN
      /\ DOMAIN setup' = {"at", "offset", "update"}
      /\ {"panel", "display", "mutex"} \subseteq have'
      /\ ("peripherals" \in have') <=> ("peripherals" \in have)
  BY <1>2, <1>3 DEF AppInv, AppTyped
<1>5. AppTyped'
  BY <1>1, <1>4 DEF AppInv, AppTyped
<1>6. AppPhases'
  BY <1>1, <1>2, <1>4 DEF AppInv, AppPhases, Early, Later
<1>7. OffsetKept'
  BY <1>1, <1>2, <1>4 DEF AppInv, OffsetKept
<1>8. OwnerTold' /\ ModelShown'
  BY <1>1, <1>2, <1>3, <1>4 DEF AppInv, OwnerTold, ModelShown, Publishing, ToShow
<1> QED
  BY <1>5, <1>6, <1>7, <1>8 DEF AppInv

\* The serial view and the serial service, and the end of either.
LEMMA SerialStartKeeps ==
  ASSUME AppInv, App!StartSerial \/ App!AttachSerial \/ App!StopView
  PROVE  AppInv'
<1>1. /\ UNCHANGED <<ui, model, offset, mail, monitor, publisher, snapshots, setup, ai>>
      /\ at \in {"serial", "attach", "stop view"}
      /\ at' \in {"attach", "stop view", "peripherals"}
  BY DEF App!StartSerial, App!AttachSerial, App!StopView, App!Idle, App!buttons
<1>2. /\ ui.state = "ready" /\ {"panel", "display", "mutex"} \subseteq have
      /\ at = "serial" => owner.at = "off"
      /\ owner.at # "off" => {"serial", "view"} \subseteq have
  BY <1>1 DEF AppInv, AppPhases, Later
<1>3. have' \in {have, have \union {"view", "serial"}, have \union {"view"},
                 have \ {"serial"}, have \ {"view"}}
  BY DEF App!StartSerial, App!AttachSerial, App!ServiceStops, App!StopView
<1>4. owner' \in {owner, [owner EXCEPT !.at = "publish"], [owner EXCEPT !.at = "off"]}
  BY DEF App!StartSerial, App!AttachSerial, App!ServiceStops, App!StopView
<1>5. view' \in {view, [view EXCEPT !.at = "wait"], [view EXCEPT !.at = "off"]}
  BY DEF App!StartSerial, App!AttachSerial, App!ServiceStops, App!StopView
<1>6. /\ owner'.armed = owner.armed /\ {"at", "armed"} \subseteq DOMAIN owner'
      /\ view' \in [at : {"off", "wait", "store", "apply"}, event : BOOLEAN]
  BY <1>4, <1>5 DEF AppInv, AppTyped
<1>7. owner'.at # "off" => {"serial", "view"} \subseteq have'
  <2>1. CASE App!StartSerial
    BY <1>2, <2>1 DEF App!StartSerial, AppInv, AppTyped
  <2>2. CASE App!AttachSerial
    BY <1>2, <2>2 DEF App!AttachSerial, App!ServiceStops, AppInv, AppTyped
  <2>3. CASE App!StopView
    BY <1>2, <2>3 DEF App!StopView, App!MayStopView
  <2> QED
    BY <2>1, <2>2, <2>3
<1>8. owner'.at = "loop" => owner.at = "loop" /\ view' = view
  <2>1. CASE App!StartSerial
    BY <1>2, <2>1 DEF App!StartSerial, AppInv, AppTyped
  <2>2. CASE App!AttachSerial
    BY <2>2 DEF App!AttachSerial, App!ServiceStops, AppInv, AppTyped
  <2>3. CASE App!StopView
    BY <1>2, <2>3 DEF App!StopView, App!MayStopView
  <2> QED
    BY <2>1, <2>2, <2>3
<1>9. /\ {"panel", "display", "mutex"} \subseteq have'
      /\ ("peripherals" \in have') <=> ("peripherals" \in have)
  BY <1>2, <1>3
<1>10. AppTyped'
  BY <1>1, <1>6 DEF AppInv, AppTyped
<1>11. AppPhases'
  BY <1>1, <1>2, <1>7, <1>9 DEF AppInv, AppPhases, Early, Later
<1>12. OffsetKept' /\ ModelShown'
  BY <1>1, <1>9 DEF AppInv, OffsetKept, ModelShown, Publishing, ToShow
<1>13. OwnerTold'
  BY <1>1, <1>6, <1>8 DEF AppInv, OwnerTold, Told
<1> QED
  BY <1>10, <1>11, <1>12, <1>13 DEF AppInv

LEMMA StartPeripheralsKeeps ==
  ASSUME AppInv, App!StartPeripherals
  PROVE  AppInv'
<1>1. /\ UNCHANGED <<ui, model, offset, owner, mail, view, publisher, snapshots, setup, ai>>
      /\ at = "peripherals" /\ at' = "up"
  BY DEF App!StartPeripherals, App!serial
<1>2. \/ /\ have' = have \union {"peripherals"}
         /\ monitor' = [monitor EXCEPT !.offset = offset]
      \/ UNCHANGED <<have, monitor>>
  BY DEF App!StartPeripherals, App!StartingOffset
<1>3. /\ "offset" \in DOMAIN monitor' /\ have \subseteq have'
      /\ monitor'.offset = offset \/ UNCHANGED <<have, monitor>>
  BY <1>2 DEF AppInv, AppTyped
<1>4. AppTyped'
  BY <1>1, <1>3 DEF AppInv, AppTyped
<1>5. AppPhases'
  BY <1>1, <1>3 DEF AppInv, AppPhases, Early, Later
<1>6. OffsetKept' /\ OwnerTold' /\ ModelShown'
  BY <1>1, <1>3
  DEF AppInv, OffsetKept, OwnerTold, Told, ModelShown, Publishing, ToShow
<1> QED
  BY <1>4, <1>5, <1>6 DEF AppInv

LEMMA AppNext ==
  ASSUME AppInv, App!Next \/ UNCHANGED appVars
  PROVE  AppInv'
<1>1. CASE UNCHANGED appVars
  <2>1. UNCHANGED <<at, have, ui, model, offset, monitor, snapshots, publisher, owner, mail,
                    view, setup, ai>>
    BY <1>1 DEF appVars
  <2>2. AppTyped' /\ OffsetKept' /\ OwnerTold'
    BY <2>1 DEF AppInv, AppTyped, OffsetKept, OwnerTold, Told
  <2>3. AppPhases' /\ ModelShown'
    BY <2>1 DEF AppInv, AppPhases, Early, Later, ModelShown, Publishing, ToShow
  <2> QED
    BY <2>2, <2>3 DEF AppInv
<1> QED
  BY <1>1, UiKeeps, DisplayStartKeeps, StartSetupKeeps, SerialStartKeeps,
     StartPeripheralsKeeps, InputsKeep, PublisherKeeps, DecideKeeps, PublishesKeeps,
     OwnerTakesKeeps, OwnerPublishesKeeps, ViewHandsOn, ViewAppliesKeeps, SetupEventKeeps,
     SetOffsetKeeps, AiPageProjectsKeeps
  DEF App!Next

LEMMA AppInvariant == MCSpec => []AppInv
<1>1. MCInit => AppInv
  BY AppInit DEF MCInit
<1>2. AppInv /\ [MCNext]_<<part, vars, appVars, displayVars, outputVars>> => AppInv'
  <2> SUFFICES ASSUME AppInv, [MCNext]_<<part, vars, appVars, displayVars, outputVars>>
               PROVE  App!Next \/ UNCHANGED appVars
    BY AppNext
  <2> QED
    BY DEF MCNext
<1> QED
  BY <1>1, <1>2, PTL DEF MCSpec

\* Whatever of the start fails, and whenever, no task is left with a callback
\* into something that is gone, and an armed target is visible: app_main takes
\* down the serial service before its view, the UI before the mutex, and arms
\* nothing without a UI.
THEOREM CallbacksStaySafe == MCSpec => []CallbacksAreSafe
<1>1. AppInv => CallbacksAreSafe
  BY DEF AppInv, AppPhases, Early, Later, CallbacksAreSafe, App!CallbacksAreSafe
<1> QED
  BY <1>1, AppInvariant, PTL

\* Mailboxes that overwrite lose nothing that matters: once nothing is under way
\* the screen shows the model and whether the target's TX is armed, and the
\* monitor corrects with the offset of the newest settings, however the callbacks
\* of Setup Mode, the owner, the AI page and the buttons crossed.
THEOREM ScreenCatchesUp == MCSpec => []NewestIsShown
<1>1. AppInv => NewestIsShown
  BY DEF AppInv, OffsetKept, ModelShown, Publishing, ToShow, OwnerTold, Told, NewestIsShown,
         App!NewestIsShown, App!Quiet
<1> QED
  BY <1>1, AppInvariant, PTL

-----------------------------------------------------------------------------
(* The application: BOOT revokes KEY presses *)

Presses == [kind : App!Kinds, count : Nat, number : Nat]

Shot(s) == {"key", "boot"} \subseteq DOMAIN s /\ s.key \in Presses /\ s.boot \in Presses

\* Of two snapshots the older: a KEY press it does not have came after all it has.
Before(s, t) ==
  /\ s.key.count <= t.key.count
  /\ s.key.number <= t.key.number /\ s.boot.number <= t.boot.number
  /\ s.key.count = t.key.count => s.key = t.key
  /\ s.key.count < t.key.count =>
       s.key.number < t.key.number /\ s.boot.number < t.key.number

\* The publisher's snapshot, the one that waits for it and the monitor's own.
Lineage ==
  /\ Shot(monitor)
  /\ monitor.key.number <= monitor.key.count + monitor.boot.count
  /\ monitor.boot.number <= monitor.key.count + monitor.boot.count
  /\ snapshots # Empty => Shot(snapshots) /\ Before(snapshots, monitor)
  /\ publisher.at # "wait" =>
       /\ Shot(publisher.snapshot) /\ Before(publisher.snapshot, monitor)
       /\ snapshots # Empty => Before(publisher.snapshot, snapshots)

IsShot(s) ==
  \/ s = monitor
  \/ snapshots # Empty /\ s = snapshots
  \/ publisher.at # "wait" /\ s = publisher.snapshot

\* A KEY press that would still ask for a session.
Unasked(press) == App!New(press, "long", handled.keyLong)

\* Where the publisher is with the KEY press of its snapshot.
Stage ==
  /\ "keyLong" \in DOMAIN handled /\ handled.keyLong \in Nat
  /\ {"at", "snapshot", "todo"} \subseteq DOMAIN publisher
  /\ publisher.at = "publish" =>
       ("enter" \in publisher.todo <=> Unasked(publisher.snapshot.key))
  /\ publisher.at \in {"enter", "entered"} => Unasked(publisher.snapshot.key)
  /\ publisher.at \in {"exit", "left", "setup"} =>
       (Unasked(publisher.snapshot.key) => publisher.snapshot.key.number \in refused)

Unrevoked(n) == n > revoked \/ n \in refused

\* A press that would still ask is newer than what was revoked, or was refused.
AskersUnrevoked ==
  /\ revoked \in Nat /\ revoked <= monitor.boot.number
  /\ \A s : (IsShot(s) /\ Unasked(s.key)) => Unrevoked(s.key.number)

Orders == [kind : {"enter", "exit"}, epoch : Nat, press : Nat]

Entry(q, i) == i \in DOMAIN q /\ q[i].kind = "enter"

\* Exits stand before entries, and the entries in the order of their presses.
InLine(q, by) ==
  /\ q \in Seq(Orders)
  /\ \A i, j \in DOMAIN q : (i < j /\ q[j].kind = "exit") => q[i].kind = "exit"
  /\ \A i \in DOMAIN q : Entry(q, i) => by < q[i].press
  /\ \A i, j \in DOMAIN q : (i < j /\ Entry(q, i) /\ Entry(q, j)) => q[i].press < q[j].press

\* An entry that was revoked is stale, or will be before it is taken.
Outdated(q, obeyed, i) ==
  \/ q[i].epoch < obeyed
  \/ \E j \in DOMAIN q : q[j].kind = "exit" /\ q[i].epoch < q[j].epoch

\* No press is asked for twice: what has been asked for is at most the newest
\* press, and that one only once the publisher has asked for it.
Served(n, s) ==
  n <= s.key.number /\ ((n = s.key.number /\ Unasked(s.key)) => publisher.at = "entered")

OwnerTyped ==
  /\ {"at", "armed", "epoch", "by"} \subseteq DOMAIN owner
  /\ owner.epoch \in Nat /\ owner.by \in Nat /\ epoch \in Nat

EntriesServed ==
  \A s : IsShot(s) =>
    /\ Served(owner.by, s)
    /\ \A i \in DOMAIN queued : Entry(queued, i) => Served(queued[i].press, s)

EntriesRevoked ==
  \A i \in DOMAIN queued : Entry(queued, i) =>
    /\ queued[i].epoch <= epoch
    /\ Unrevoked(queued[i].press) \/ Outdated(queued, owner.epoch, i)

PressInv ==
  /\ Lineage /\ Stage /\ AskersUnrevoked
  /\ OwnerTyped /\ InLine(queued, owner.by) /\ EntriesServed /\ EntriesRevoked

LEMMA PressInit == App!Init => PressInv
<1> SUFFICES ASSUME App!Init PROVE PressInv
  OBVIOUS
<1>1. monitor = [key |-> App!NoPress, boot |-> App!NoPress, offset |-> Default]
      /\ snapshots = Empty /\ publisher.at = "wait" /\ publisher.todo = {}
      /\ {"at", "snapshot", "todo"} \subseteq DOMAIN publisher
  BY DEF App!Init
<1>2. App!NoPress \in Presses
  BY DEF App!NoPress, Presses, App!Kinds
<1>3. Lineage
  BY <1>1, <1>2 DEF Lineage, Shot, App!NoPress
<1>4. Stage
  BY <1>1 DEF App!Init, Stage
<1>5. AskersUnrevoked
  BY <1>1 DEF App!Init, AskersUnrevoked, IsShot, Unasked, App!New, App!NoPress
<1>6. OwnerTyped /\ owner.by = 0 /\ queued = << >>
  BY DEF App!Init, OwnerTyped
<1>7. InLine(queued, owner.by) /\ EntriesRevoked
  BY <1>6 DEF InLine, EntriesRevoked
<1>8. EntriesServed
  BY <1>1, <1>6 DEF EntriesServed, IsShot, Served, Unasked, App!New, App!NoPress
<1> QED
  BY <1>3, <1>4, <1>5, <1>6, <1>7, <1>8 DEF PressInv

\* What the older of the snapshots in view tells of the newer.
LEMMA ShotFacts ==
  ASSUME Lineage
  PROVE  \A s : IsShot(s) =>
           /\ Shot(s) /\ Before(s, monitor)
           /\ publisher.at # "wait" => Before(publisher.snapshot, s)
<1> SUFFICES ASSUME NEW s, IsShot(s)
             PROVE  /\ Shot(s) /\ Before(s, monitor)
                    /\ publisher.at # "wait" => Before(publisher.snapshot, s)
  OBVIOUS
<1>1. \A t : Shot(t) => Before(t, t)
  BY DEF Shot, Presses, Before
<1> QED
  BY <1>1 DEF Lineage, IsShot

\* The publisher's next step.
LEMMA AfterFacts ==
  /\ App!After("publish") \in {"enter", "exit", "setup", "wait"}
  /\ App!After("publish") = "enter" <=> "enter" \in publisher.todo
  /\ App!After("enter") \in {"exit", "setup", "wait"}
  /\ App!After("exit") \in {"setup", "wait"}
  /\ App!After("setup") = "wait"
<1> DEFINE from(i) == {j \in 1..4 : j > i /\ App!Order[j] \in publisher.todo}
           next(i) == IF from(i) = {} THEN "wait"
                      ELSE App!Order[CHOOSE j \in from(i) : \A k \in from(i) : j <= k]
<1>1. /\ DOMAIN App!Order = 1..4 /\ App!Order[1] = "publish" /\ App!Order[2] = "enter"
      /\ App!Order[3] = "exit" /\ App!Order[4] = "setup"
  BY DEF App!Order
<1>2. \A n \in 1..4 : (CHOOSE i \in DOMAIN App!Order : App!Order[i] = App!Order[n]) = n
  <2> SUFFICES ASSUME NEW n \in 1..4
               PROVE  (CHOOSE i \in 1..4 : App!Order[i] = App!Order[n]) = n
    BY <1>1
  <2>1. \A i \in 1..4 : App!Order[i] = App!Order[n] => i = n
    BY <1>1
  <2> DEFINE c == CHOOSE i \in 1..4 : App!Order[i] = App!Order[n]
  <2>2. c \in 1..4 /\ App!Order[c] = App!Order[n]
    OBVIOUS
  <2> QED
    BY <2>1, <2>2
<1>3. \A n \in 1..4 : App!After(App!Order[n]) = next(n)
  <2> SUFFICES ASSUME NEW n \in 1..4
               PROVE  App!After(App!Order[n]) = next(n)
    OBVIOUS
  <2> DEFINE here == CHOOSE i \in DOMAIN App!Order : App!Order[i] = App!Order[n]
             later == {i \in DOMAIN App!Order : i > here /\ App!Order[i] \in publisher.todo}
             pick(F) == IF F = {} THEN "wait"
                        ELSE App!Order[CHOOSE i \in F : \A j \in F : i <= j]
  <2>1. here = n
    BY <1>2
  <2>2. App!After(App!Order[n]) = pick(later)
    BY DEF App!After
  <2>3. next(n) = pick(from(n))
    OBVIOUS
  <2>4. later = from(n)
    BY <1>1, <2>1
  <2> HIDE DEF later, from
  <2> QED
    BY <2>2, <2>3, <2>4
<1>4. \A i \in 1..4 : from(i) # {} =>
        (CHOOSE j \in from(i) : \A k \in from(i) : j <= k) \in
          {j \in from(i) : \A k \in from(i) : j <= k}
  <2> SUFFICES ASSUME NEW i \in 1..4, from(i) # {}
               PROVE  \E j \in from(i) : \A k \in from(i) : j <= k
    OBVIOUS
  <2> DEFINE F == from(i)
  <2>1. F \subseteq 1..4 /\ F # {}
    OBVIOUS
  <2> HIDE DEF F
  <2>2. \E j \in F : \A k \in F : j <= k
    <3>1. CASE 1 \in F
      BY <2>1, <3>1
    <3>2. CASE 1 \notin F /\ 2 \in F
      BY <2>1, <3>2
    <3>3. CASE 1 \notin F /\ 2 \notin F /\ 3 \in F
      BY <2>1, <3>3
    <3>4. CASE 1 \notin F /\ 2 \notin F /\ 3 \notin F
      <4>1. ASSUME NEW k \in F
            PROVE  k = 4
        <5>1. k # 1 /\ k # 2 /\ k # 3
          BY <3>4
        <5>2. k \in 1..4
          BY <2>1
        <5> QED
          BY <5>1, <5>2
      <4>2. 4 \in F
        <5>1. PICK k \in F : TRUE
          BY <2>1
        <5> QED
          BY <4>1, <5>1
      <4> QED
        BY <4>1, <4>2
    <3> QED
      BY <3>1, <3>2, <3>3, <3>4
  <2> QED
    BY <2>2 DEF F
<1>5. \A n \in 1..4 : from(n) # {} =>
        \E j \in 1..4 : /\ next(n) = App!Order[j] /\ j > n /\ App!Order[j] \in publisher.todo
                        /\ \A k \in from(n) : j <= k
  BY <1>4
<1> HIDE DEF from
<1>6. next(1) = "enter" <=> "enter" \in publisher.todo
  <2>1. "enter" \in publisher.todo => 2 \in from(1)
    BY <1>1 DEF from
  <2> QED
    BY <1>1, <1>5, <2>1
<1>7. next(2) \in {"exit", "setup", "wait"} /\ next(1) \in {"enter", "exit", "setup", "wait"}
  BY <1>1, <1>5
<1>8. next(3) \in {"setup", "wait"} /\ next(4) = "wait"
  BY <1>1, <1>5
<1> HIDE DEF next
<1> QED
  BY <1>1, <1>3, <1>6, <1>7, <1>8

LEMMA ThenFacts ==
  ASSUME NEW step, Stage, App!Then(step)
  PROVE  /\ publisher'.at = App!After(step)
         /\ {"at", "snapshot", "todo"} \subseteq DOMAIN publisher'
         /\ publisher'.at # "wait" => publisher'.snapshot = publisher.snapshot
BY DEF Stage, App!Then

\* A step of neither the buttons, the publisher nor the serial owner's orders.
LEMMA PressFrame ==
  ASSUME PressInv, OwnerTyped', owner'.epoch = owner.epoch, owner'.by = owner.by,
         UNCHANGED <<monitor, snapshots, publisher, handled, epoch, queued, revoked, refused>>
  PROVE  PressInv'
<1>1. Lineage' /\ Stage'
  BY DEF PressInv, Lineage, Stage, Unasked
<1>2. AskersUnrevoked'
  BY DEF PressInv, AskersUnrevoked, IsShot, Unasked, Unrevoked
<1>3. InLine(queued, owner.by)'
  BY DEF PressInv
<1>4. EntriesServed'
  BY DEF PressInv, EntriesServed, IsShot, Served, Unasked
<1>5. EntriesRevoked'
  BY DEF PressInv, EntriesRevoked, Unrevoked
<1> QED
  BY <1>1, <1>2, <1>3, <1>4, <1>5 DEF PressInv

\* A press that comes is newer than all there are; a snapshot may be replaced by
\* a newer one.
LEMMA ButtonsKeep ==
  ASSUME PressInv, Lineage', monitor.boot.number <= monitor'.boot.number,
         UNCHANGED <<publisher, handled, epoch, queued, owner, revoked, refused>>,
         \A s : (IsShot(s))' =>
           \/ IsShot(s)
           \/ s.key = monitor.key
           \/ s.key.number > monitor.key.number /\ s.key.number > monitor.boot.number
  PROVE  PressInv'
<1> USE DEF PressInv
<1>1. /\ monitor.key.number \in Nat /\ monitor.boot.number \in Nat
      /\ \A s : (IsShot(s))' => s.key.number \in Nat
      /\ monitor'.boot.number \in Nat
  BY ShotFacts DEF Lineage, Shot, Presses, IsShot
<1>2. IsShot(monitor)
  BY DEF IsShot
<1>3. Stage'
  BY DEF Stage, Unasked
<1>4. revoked \in Nat /\ revoked <= monitor.boot.number
  BY DEF AskersUnrevoked
<1>5. AskersUnrevoked'
  <2>1. revoked' \in Nat /\ revoked' <= monitor'.boot.number
    BY <1>1, <1>4
  <2>2. ASSUME NEW s, (IsShot(s))', Unasked(s.key)'
        PROVE  Unrevoked(s.key.number)'
    <3>1. Unasked(s.key)
      BY <2>2 DEF Unasked
    <3>2. CASE IsShot(s) \/ s.key = monitor.key
      BY <1>2, <3>1, <3>2 DEF AskersUnrevoked, Unrevoked
    <3>3. CASE s.key.number > monitor.boot.number
      BY <1>1, <1>4, <2>2, <3>3 DEF Unrevoked
    <3> QED
      BY <2>2, <3>2, <3>3
  <2> QED
    BY <2>1, <2>2 DEF AskersUnrevoked
<1>6. InLine(queued, owner.by)' /\ OwnerTyped'
  BY DEF OwnerTyped
<1>7. EntriesServed'
  <2> DEFINE N == {owner.by} \cup {queued[i].press : i \in {j \in DOMAIN queued : Entry(queued, j)}}
  <2>1. \A n \in N : \A s : IsShot(s) => Served(n, s)
    BY DEF EntriesServed
  <2>2. \A i \in DOMAIN queued : Entry(queued, i) => queued[i].press \in N
    OBVIOUS
  <2>3. \A n \in N : n \in Nat
    <3>1. \A i \in DOMAIN queued : queued[i] \in Orders
      BY DEF InLine
    <3>2. \A i \in DOMAIN queued : queued[i].press \in Nat
      BY <3>1 DEF Orders
    <3> QED
      BY <3>2 DEF OwnerTyped
  <2>4. owner.by \in N
    OBVIOUS
  <2> HIDE DEF N
  <2>5. ASSUME NEW n \in N, NEW s, (IsShot(s))'
        PROVE  Served(n, s)'
    <3>1. CASE IsShot(s) \/ s.key = monitor.key
      BY <1>2, <2>1, <3>1 DEF Served, Unasked
    <3>2. CASE s.key.number > monitor.key.number
      <4>1. n <= monitor.key.number
        BY <1>2, <2>1 DEF Served
      <4> QED
        BY <1>1, <2>3, <2>5, <3>2, <4>1 DEF Served
    <3> QED
      BY <2>5, <3>1, <3>2
  <2> QED
    BY <2>2, <2>4, <2>5 DEF EntriesServed
<1>8. EntriesRevoked'
  BY DEF EntriesRevoked, Unrevoked
<1> QED
  BY <1>3, <1>5, <1>6, <1>7, <1>8

LEMMA PressKeeps ==
  ASSUME PressInv, NEW button \in {"key", "boot"}, NEW how \in {"short", "long"},
         App!Press(button, how)
  PROVE  PressInv'
<1> DEFINE pressed == [kind |-> how, count |-> monitor[button].count + 1, number |-> App!Number]
<1>1. /\ monitor' = [monitor EXCEPT ![button] = pressed] /\ snapshots' = monitor'
      /\ UNCHANGED <<publisher, handled, epoch, queued, owner, revoked, refused>>
  BY DEF App!Press, App!KeepInputs, App!serial, App!ghosts
<1>2. /\ Shot(monitor) /\ monitor.key \in Presses /\ monitor.boot \in Presses
      /\ monitor.key.number <= monitor.key.count + monitor.boot.count
      /\ monitor.boot.number <= monitor.key.count + monitor.boot.count
      /\ {"key", "boot"} \subseteq DOMAIN monitor
  BY DEF PressInv, Lineage, Shot
<1>3. App!Number = monitor.key.count + monitor.boot.count + 1
  BY DEF App!Number
<1>4. pressed \in Presses
  BY <1>2, <1>3 DEF Presses, App!Kinds
<1>5. /\ button = "key" => monitor'.key = pressed /\ monitor'.boot = monitor.boot
      /\ button = "boot" => monitor'.boot = pressed /\ monitor'.key = monitor.key
      /\ {"key", "boot"} \subseteq DOMAIN monitor'
  BY <1>1, <1>2
<1>6. /\ pressed.number = App!Number /\ pressed.count = monitor[button].count + 1
      /\ App!Number \in Nat /\ monitor.key.count \in Nat /\ monitor.boot.count \in Nat
      /\ monitor.key.number \in Nat /\ monitor.boot.number \in Nat
  BY <1>2, <1>3 DEF Presses
<1> HIDE DEF pressed
<1>7. /\ App!Number > monitor.key.number /\ App!Number > monitor.boot.number
      /\ monitor.boot.number <= monitor'.boot.number
  BY <1>2, <1>3, <1>5, <1>6
<1>8. Shot(monitor')
  BY <1>2, <1>4, <1>5 DEF Shot
<1>9. Before(monitor, monitor')
  BY <1>2, <1>3, <1>5, <1>6, <1>7 DEF Before
<1>10. /\ monitor'.key.number <= monitor'.key.count + monitor'.boot.count
       /\ monitor'.boot.number <= monitor'.key.count + monitor'.boot.count
  BY <1>2, <1>3, <1>5, <1>6, <1>7
<1>11. Lineage'
  <2>1. Before(monitor', monitor')
    BY <1>8 DEF Before, Shot, Presses
  <2>2. publisher.at # "wait" =>
          /\ Shot(publisher.snapshot) /\ Before(publisher.snapshot, monitor)
    BY DEF PressInv, Lineage
  <2>3. publisher.at # "wait" => Before(publisher.snapshot, monitor')
    BY <1>8, <1>9, <2>2, <1>2 DEF Before, Shot, Presses
  <2> QED
    BY <1>1, <1>8, <1>10, <2>1, <2>2, <2>3 DEF Lineage
<1>12. \A s : (IsShot(s))' => IsShot(s) \/ s = monitor'
  BY <1>1 DEF IsShot
<1> QED
  BY <1>1, <1>5, <1>6, <1>7, <1>11, <1>12, ButtonsKeep

\* Other steps put the offset into the monitor, or its snapshot into the mailbox.
LEMMA SampledKeeps ==
  ASSUME PressInv,
         \/ App!Measure \/ App!SetOffset \/ App!StartPeripherals
  PROVE  PressInv'
<1>1. UNCHANGED <<publisher, handled, epoch, queued, owner, revoked, refused>>
  BY DEF App!Measure, App!SetOffset, App!StartPeripherals, App!KeepInputs, App!KeepSetup,
         App!serial, App!ghosts
<1>2. Shot(monitor)
  BY DEF PressInv, Lineage
<1>3. /\ monitor' = monitor \/ (\E o : monitor' = [monitor EXCEPT !.offset = o])
      /\ snapshots' \in {snapshots, monitor'}
  BY DEF App!Measure, App!SetOffset, App!StartPeripherals, App!KeepInputs, App!KeepSetup,
         App!buttons
<1>4. monitor'.key = monitor.key /\ monitor'.boot = monitor.boot /\ Shot(monitor')
  BY <1>2, <1>3 DEF Shot
<1>5. \A s : Before(s, monitor') <=> Before(s, monitor)
  BY <1>4 DEF Before
<1>6. Before(monitor', monitor') /\ Before(monitor, monitor)
  BY <1>2, <1>4 DEF Before, Shot, Presses
<1>7. Lineage'
  BY <1>1, <1>3, <1>4, <1>5, <1>6 DEF PressInv, Lineage
<1>8. \A s : (IsShot(s))' => IsShot(s) \/ s = monitor'
  BY <1>1, <1>3 DEF IsShot
<1>9. monitor.boot.number <= monitor'.boot.number
  BY <1>2, <1>4 DEF Shot, Presses
<1> QED
  BY <1>1, <1>4, <1>7, <1>8, <1>9, ButtonsKeep

\* The publisher goes on: it looks at no other snapshot, asks for no press that
\* was asked for, and neither the queue nor the owner moves.
LEMMA PublisherGoesOn ==
  ASSUME PressInv, Lineage', Stage', EntriesServed',
         UNCHANGED <<monitor, queued, owner, revoked>>,
         refused \subseteq refused', epoch' \in Nat, epoch <= epoch',
         \A s : (IsShot(s))' => IsShot(s) /\ (Unasked(s.key)' => Unasked(s.key))
  PROVE  PressInv'
<1> USE DEF PressInv
<1>1. AskersUnrevoked'
  BY DEF AskersUnrevoked, Unrevoked
<1>2. OwnerTyped' /\ InLine(queued, owner.by)'
  BY DEF OwnerTyped
<1>3. EntriesRevoked'
  <2>1. \A i \in DOMAIN queued : queued[i] \in Orders
    BY DEF InLine
  <2>2. ASSUME NEW i \in DOMAIN queued, Entry(queued, i)
        PROVE  /\ queued[i].epoch <= epoch'
               /\ Unrevoked(queued[i].press)' \/ Outdated(queued, owner.epoch, i)
    <3>1. queued[i].epoch \in Nat /\ epoch \in Nat
      BY <2>1 DEF Orders, OwnerTyped
    <3>2. queued[i].epoch <= epoch
      BY <2>2 DEF EntriesRevoked
    <3>3. queued[i].epoch <= epoch'
      BY <3>1, <3>2
    <3>4. Unrevoked(queued[i].press)' \/ Outdated(queued, owner.epoch, i)
      BY <2>2 DEF EntriesRevoked, Unrevoked
    <3> QED
      BY <3>3, <3>4
  <2> QED
    BY <2>2 DEF EntriesRevoked
<1> QED
  BY <1>1, <1>2, <1>3

\* While the publisher has not just asked, what is served stays served.
LEMMA ServedKept ==
  ASSUME EntriesServed, UNCHANGED <<queued, owner>>, publisher.at # "entered",
         \A s : (IsShot(s))' => IsShot(s) /\ (Unasked(s.key)' => Unasked(s.key))
  PROVE  EntriesServed'
BY DEF EntriesServed, Served

LEMMA PublisherStays ==
  ASSUME Lineage, UNCHANGED <<monitor, snapshots>>, publisher.at # "wait",
         publisher'.at # "wait" => publisher'.snapshot = publisher.snapshot
  PROVE  Lineage' /\ \A s : (IsShot(s))' => IsShot(s)
BY DEF Lineage, IsShot

LEMMA ReceiveKeeps ==
  ASSUME PressInv, App!Receive
  PROVE  PressInv'
<1>1. /\ publisher.at = "wait" /\ snapshots # Empty /\ snapshots' = Empty
      /\ publisher'.at = "decide" /\ publisher'.snapshot = snapshots
      /\ {"at", "snapshot", "todo"} \subseteq DOMAIN publisher'
      /\ UNCHANGED <<monitor, handled, queued, epoch, owner, revoked, refused>>
  BY DEF App!Receive, App!KeepPublisher, App!serial, App!ghosts
<1>2. Lineage'
  BY <1>1 DEF PressInv, Lineage
<1>3. Stage'
  BY <1>1 DEF PressInv, Stage
<1>4. \A s : (IsShot(s))' => IsShot(s) /\ (Unasked(s.key)' => Unasked(s.key))
  BY <1>1 DEF IsShot, Unasked
<1>5. EntriesServed' /\ epoch' \in Nat /\ epoch <= epoch'
  BY <1>1, <1>4, ServedKept DEF PressInv, OwnerTyped
<1> QED
  BY <1>1, <1>2, <1>3, <1>4, <1>5, PublisherGoesOn

LEMMA DecideDecides ==
  ASSUME PressInv, App!Decide
  PROVE  PressInv'
<1> DEFINE pressed == publisher.snapshot.key
<1>1. /\ publisher.at = "decide"
      /\ UNCHANGED <<monitor, snapshots, queued, epoch, owner, revoked, refused>>
      /\ handled'.keyLong = IF Unasked(pressed) /\ "enter" \notin publisher'.todo
                            THEN pressed.count ELSE handled.keyLong
      /\ "keyLong" \in DOMAIN handled'
      /\ "enter" \in publisher'.todo => Unasked(pressed)
      /\ publisher'.at = "publish" /\ publisher'.snapshot = publisher.snapshot
      /\ {"at", "snapshot", "todo"} \subseteq DOMAIN publisher'
  <2>1. {"at", "snapshot", "todo"} \subseteq DOMAIN publisher
    BY DEF PressInv, Stage
  <2>2. /\ publisher.at = "decide"
        /\ UNCHANGED <<monitor, snapshots, queued, epoch, owner, revoked, refused>>
    BY DEF App!Decide, App!KeepPublisher, App!serial, App!ghosts
  <2> QED
    BY <2>1, <2>2 DEF App!Decide, Unasked
<1>2. Lineage' /\ \A s : (IsShot(s))' => IsShot(s)
  BY <1>1, PublisherStays DEF PressInv
<1>3. Shot(publisher.snapshot) /\ pressed.count \in Nat /\ handled.keyLong \in Nat
  BY <1>1 DEF PressInv, Lineage, Shot, Presses, Stage
<1>4. /\ handled'.keyLong \in Nat /\ handled.keyLong <= handled'.keyLong
      /\ "enter" \in publisher'.todo <=> Unasked(pressed)'
  BY <1>1, <1>3 DEF Unasked, App!New
<1>5. \A s : (IsShot(s))' => IsShot(s) /\ (Unasked(s.key)' => Unasked(s.key))
  <2> SUFFICES ASSUME NEW s, (IsShot(s))', Unasked(s.key)'
               PROVE  Unasked(s.key)
    BY <1>2
  <2>1. s.key.count \in Nat
    BY <1>2, ShotFacts DEF PressInv, Shot, Presses
  <2> QED
    BY <1>3, <1>4, <2>1 DEF Unasked, App!New
<1>6. Stage'
  BY <1>1, <1>4 DEF Stage
<1>7. EntriesServed' /\ epoch' \in Nat /\ epoch <= epoch'
  BY <1>1, <1>5, ServedKept DEF PressInv, OwnerTyped
<1> QED
  BY <1>1, <1>2, <1>5, <1>6, <1>7, PublisherGoesOn

\* The steps after the entry ask for no session; a refused order changes at most
\* the epoch or the set of refused presses.
LEMMA PublisherPasses ==
  ASSUME PressInv, NEW step \in {"publish", "enter", "exit", "setup"},
         publisher.at # "wait", publisher.at # "entered", App!Then(step),
         UNCHANGED <<monitor, snapshots, queued, owner, revoked>>,
         "keyLong" \in DOMAIN handled', handled'.keyLong = handled.keyLong,
         refused \subseteq refused', epoch' \in Nat, epoch <= epoch',
         step = "publish" => publisher.at = "publish",
         step # "publish" => (Unasked(publisher.snapshot.key) =>
                                publisher.snapshot.key.number \in refused')
  PROVE  PressInv'
<1>1. /\ publisher'.at = App!After(step)
      /\ {"at", "snapshot", "todo"} \subseteq DOMAIN publisher'
      /\ publisher'.at # "wait" => publisher'.snapshot = publisher.snapshot
  BY ThenFacts DEF PressInv
<1>2. Lineage' /\ \A s : (IsShot(s))' => IsShot(s)
  BY <1>1, PublisherStays DEF PressInv
<1>3. \A p : Unasked(p)' <=> Unasked(p)
  BY DEF Unasked
<1>4. Stage'
  <2>1. CASE step = "publish"
    <3>1. publisher'.at = "enter" <=> Unasked(publisher.snapshot.key)
      BY <1>1, <2>1, AfterFacts DEF PressInv, Stage
    <3>2. publisher'.at \in {"enter", "exit", "setup", "wait"}
      BY <1>1, <2>1, AfterFacts
    <3> QED
      BY <1>1, <1>3, <3>1, <3>2 DEF PressInv, Stage
  <2>2. CASE step # "publish"
    <3>1. publisher'.at \in {"exit", "setup", "wait"}
      BY <1>1, <2>2, AfterFacts
    <3> QED
      BY <1>1, <1>3, <2>2, <3>1 DEF PressInv, Stage
  <2> QED
    BY <2>1, <2>2
<1>5. EntriesServed'
  BY <1>2, <1>3, ServedKept DEF PressInv
<1> QED
  BY <1>2, <1>3, <1>4, <1>5, PublisherGoesOn

LEMMA OrdersAt ==
  ASSUME NEW q \in Seq(Orders)
  PROVE  /\ Len(q) \in Nat /\ DOMAIN q = 1..Len(q)
         /\ \A i \in DOMAIN q : /\ q[i] \in Orders /\ q[i].epoch \in Nat /\ q[i].press \in Nat
                                /\ q[i].kind \in {"enter", "exit"}
<1>1. \A i \in DOMAIN q : q[i] \in Orders
  OBVIOUS
<1> QED
  BY <1>1 DEF Orders

LEMMA OrdersBack ==
  ASSUME NEW q \in Seq(Orders), NEW d \in Orders
  PROVE  /\ Append(q, d) \in Seq(Orders) /\ DOMAIN Append(q, d) = 1..(Len(q) + 1)
         /\ \A i \in 1..Len(q) : Append(q, d)[i] = q[i]
         /\ Append(q, d)[Len(q) + 1] = d
OBVIOUS

LEMMA OrdersFront ==
  ASSUME NEW q \in Seq(Orders), NEW d \in Orders
  PROVE  /\ <<d>> \o q \in Seq(Orders) /\ DOMAIN (<<d>> \o q) = 1..(Len(q) + 1)
         /\ (<<d>> \o q)[1] = d
         /\ \A i \in 2..(Len(q) + 1) : i - 1 \in 1..Len(q) /\ (<<d>> \o q)[i] = q[i - 1]
<1>1. Len(q) \in Nat /\ DOMAIN q = 1..Len(q)
  OBVIOUS
<1>2. <<d>> \in Seq(Orders) /\ Len(<<d>>) = 1 /\ <<d>>[1] = d
  OBVIOUS
<1>3. /\ <<d>> \o q \in Seq(Orders)
      /\ Len(<<d>> \o q) = 1 + Len(q)
      /\ \A i \in 1..(1 + Len(q)) :
           (<<d>> \o q)[i] = IF i <= 1 THEN <<d>>[i] ELSE q[i - 1]
  BY <1>2, ConcatProperties
<1> DEFINE r == <<d>> \o q
<1> HIDE DEF r
<1>4. r \in Seq(Orders) /\ Len(r) = 1 + Len(q)
  BY <1>3 DEF r
<1>5. DOMAIN r = 1..(Len(q) + 1)
  BY <1>1, <1>4
<1>6. r[1] = d
  BY <1>1, <1>2, <1>3 DEF r
<1>7. \A i \in 2..(Len(q) + 1) : i - 1 \in 1..Len(q) /\ r[i] = q[i - 1]
  BY <1>1, <1>3 DEF r
<1> QED
  BY <1>4, <1>5, <1>6, <1>7 DEF r

LEMMA OrdersTail ==
  ASSUME NEW q \in Seq(Orders), q # << >>
  PROVE  /\ Tail(q) \in Seq(Orders) /\ Len(q) \in Nat \ {0}
         /\ DOMAIN q = 1..Len(q) /\ DOMAIN Tail(q) = 1..(Len(q) - 1)
         /\ \A i \in 1..(Len(q) - 1) : i + 1 \in 1..Len(q) /\ Tail(q)[i] = q[i + 1]
         /\ Head(q) = q[1] /\ 1 \in 1..Len(q)
OBVIOUS

\* An entry joins the end of the line.
LEMMA EntryJoins ==
  ASSUME NEW q, NEW by \in Nat, InLine(q, by), NEW d \in Orders, d.kind = "enter", by < d.press,
         \A i \in DOMAIN q : Entry(q, i) => q[i].press < d.press
  PROVE  InLine(Append(q, d), by)
<1> DEFINE r == Append(q, d)
           l == Len(q)
<1>1. q \in Seq(Orders) /\ l \in Nat /\ DOMAIN q = 1..l
  BY OrdersAt DEF InLine
<1>2. /\ r \in Seq(Orders) /\ DOMAIN r = 1..(l + 1)
      /\ \A i \in 1..l : r[i] = q[i]
      /\ r[l + 1] = d
  BY <1>1, OrdersBack
<1> HIDE DEF r, l
<1>3. \A i \in 1..(l + 1) : i \in 1..l \/ i = l + 1
  BY <1>1
<1>4. \A i, j \in DOMAIN r : (i < j /\ r[j].kind = "exit") => r[i].kind = "exit"
  <2> SUFFICES ASSUME NEW i \in DOMAIN r, NEW j \in DOMAIN r, i < j, r[j].kind = "exit"
               PROVE  r[i].kind = "exit"
    OBVIOUS
  <2>1. j \in 1..l
    BY <1>2, <1>3
  <2>2. i \in 1..l
    BY <1>1, <1>2, <2>1
  <2> QED
    BY <1>1, <1>2, <2>1, <2>2 DEF InLine
<1>5. \A i \in DOMAIN r : Entry(r, i) => by < r[i].press
  BY <1>1, <1>2, <1>3 DEF InLine, Entry
<1>6. \A i, j \in DOMAIN r : (i < j /\ Entry(r, i) /\ Entry(r, j)) => r[i].press < r[j].press
  <2> SUFFICES ASSUME NEW i \in DOMAIN r, NEW j \in DOMAIN r, i < j, Entry(r, i), Entry(r, j)
               PROVE  r[i].press < r[j].press
    OBVIOUS
  <2>1. i \in 1..l
    BY <1>1, <1>2
  <2>2. Entry(q, i)
    BY <1>1, <1>2, <2>1 DEF Entry
  <2>3. CASE j \in 1..l
    <3>1. Entry(q, j)
      BY <1>1, <1>2, <2>3 DEF Entry
    <3> QED
      BY <1>1, <1>2, <2>1, <2>2, <2>3, <3>1 DEF InLine
  <2>4. CASE j = l + 1
    BY <1>1, <1>2, <2>1, <2>2, <2>4
  <2> QED
    BY <1>2, <1>3, <2>3, <2>4
<1> QED
  BY <1>2, <1>4, <1>5, <1>6 DEF InLine, r

\* An exit goes before it.
LEMMA ExitLeads ==
  ASSUME NEW q, NEW by \in Nat, InLine(q, by), NEW d \in Orders, d.kind = "exit"
  PROVE  InLine(<<d>> \o q, by)
<1> DEFINE r == <<d>> \o q
           l == Len(q)
<1>1. q \in Seq(Orders) /\ l \in Nat /\ DOMAIN q = 1..l
  BY OrdersAt DEF InLine
<1>2. /\ r \in Seq(Orders) /\ DOMAIN r = 1..(l + 1) /\ r[1] = d
      /\ \A i \in 2..(l + 1) : i - 1 \in 1..l /\ r[i] = q[i - 1]
  BY <1>1, OrdersFront
<1> HIDE DEF r, l
<1>3. \A i \in 1..(l + 1) : i = 1 \/ i \in 2..(l + 1)
  BY <1>1
<1>4. \A i, j \in DOMAIN r : (i < j /\ r[j].kind = "exit") => r[i].kind = "exit"
  <2> SUFFICES ASSUME NEW i \in DOMAIN r, NEW j \in DOMAIN r, i < j, r[j].kind = "exit",
                      i # 1
               PROVE  r[i].kind = "exit"
    BY <1>2
  <2>1. i \in 2..(l + 1) /\ j \in 2..(l + 1)
    BY <1>1, <1>2
  <2>2. i - 1 \in 1..l /\ j - 1 \in 1..l /\ i - 1 < j - 1
    BY <1>1, <2>1
  <2> QED
    BY <1>1, <1>2, <2>1, <2>2 DEF InLine
<1>5. \A i \in DOMAIN r : Entry(r, i) => i \in 2..(l + 1) /\ Entry(q, i - 1)
  BY <1>1, <1>2, <1>3 DEF Entry
<1>6. \A i \in DOMAIN r : Entry(r, i) => by < r[i].press
  BY <1>1, <1>2, <1>5 DEF InLine
<1>7. \A i, j \in DOMAIN r : (i < j /\ Entry(r, i) /\ Entry(r, j)) => r[i].press < r[j].press
  <2> SUFFICES ASSUME NEW i \in DOMAIN r, NEW j \in DOMAIN r, i < j, Entry(r, i), Entry(r, j)
               PROVE  r[i].press < r[j].press
    OBVIOUS
  <2>1. /\ i \in 2..(l + 1) /\ j \in 2..(l + 1) /\ Entry(q, i - 1) /\ Entry(q, j - 1)
    BY <1>5
  <2>2. i - 1 \in 1..l /\ j - 1 \in 1..l /\ i - 1 < j - 1
    BY <1>1, <2>1
  <2> QED
    BY <1>1, <1>2, <2>1, <2>2 DEF InLine
<1> QED
  BY <1>2, <1>4, <1>6, <1>7 DEF InLine, r

\* The head is taken; an entry may be what the owner is due to from now on.
LEMMA HeadLeaves ==
  ASSUME NEW q, NEW by \in Nat, InLine(q, by), q # << >>, NEW now,
         now = by \/ (q[1].kind = "enter" /\ now = q[1].press)
  PROVE  /\ InLine(Tail(q), now)
         /\ q[1].kind = "enter" => \A j \in DOMAIN q : q[j].kind = "enter"
<1> DEFINE r == Tail(q)
           l == Len(q)
<1>1. q \in Seq(Orders) /\ \A i \in DOMAIN q : q[i].kind \in {"enter", "exit"}
  BY OrdersAt DEF InLine
<1>2. /\ r \in Seq(Orders) /\ l \in Nat \ {0} /\ DOMAIN q = 1..l /\ DOMAIN r = 1..(l - 1)
      /\ \A i \in 1..(l - 1) : i + 1 \in 1..l /\ r[i] = q[i + 1]
      /\ 1 \in 1..l
  BY <1>1, OrdersTail
<1> HIDE DEF r, l
<1>3. q[1].kind = "enter" => \A j \in DOMAIN q : q[j].kind = "enter"
  <2> SUFFICES ASSUME q[1].kind = "enter", NEW j \in DOMAIN q, q[j].kind # "enter"
               PROVE  FALSE
    OBVIOUS
  <2>1. j # 1 /\ q[j].kind = "exit"
    BY <1>1
  <2>2. 1 < j
    BY <1>2, <2>1
  <2> QED
    BY <1>2, <2>1, <2>2 DEF InLine
<1>4. \A i \in DOMAIN r : Entry(r, i) => Entry(q, i + 1)
  BY <1>2 DEF Entry
<1>5. \A i, j \in DOMAIN r : i < j => i + 1 < j + 1 /\ i + 1 \in DOMAIN q /\ j + 1 \in DOMAIN q
  BY <1>2
<1>6. \A i, j \in DOMAIN r : (i < j /\ r[j].kind = "exit") => r[i].kind = "exit"
  <2> SUFFICES ASSUME NEW i \in DOMAIN r, NEW j \in DOMAIN r, i < j, r[j].kind = "exit"
               PROVE  r[i].kind = "exit"
    OBVIOUS
  <2>1. r[i] = q[i + 1] /\ r[j] = q[j + 1]
    BY <1>2
  <2> QED
    BY <1>5, <2>1 DEF InLine
<1>7. \A i, j \in DOMAIN r : (i < j /\ Entry(r, i) /\ Entry(r, j)) => r[i].press < r[j].press
  <2> SUFFICES ASSUME NEW i \in DOMAIN r, NEW j \in DOMAIN r, i < j, Entry(r, i), Entry(r, j)
               PROVE  r[i].press < r[j].press
    OBVIOUS
  <2>1. r[i] = q[i + 1] /\ r[j] = q[j + 1]
    BY <1>2
  <2> QED
    BY <1>4, <1>5, <2>1 DEF InLine
<1>8. \A i \in DOMAIN r : Entry(r, i) => now < r[i].press
  <2> SUFFICES ASSUME NEW i \in DOMAIN r, Entry(r, i)
               PROVE  now < r[i].press
    OBVIOUS
  <2>1. r[i] = q[i + 1] /\ i + 1 \in DOMAIN q /\ 1 < i + 1 /\ 1 \in DOMAIN q
    BY <1>2
  <2>2. by < q[i + 1].press
    BY <1>4, <2>1 DEF InLine
  <2>3. q[1].kind = "enter" => q[1].press < q[i + 1].press
    <3>1. q[1].kind = "enter" => Entry(q, 1)
      BY <2>1 DEF Entry
    <3> QED
      BY <1>4, <2>1, <3>1 DEF InLine
  <2> QED
    BY <2>1, <2>2, <2>3
<1> QED
  BY <1>2, <1>3, <1>6, <1>7, <1>8 DEF InLine, r

LEMMA PublishModelPasses ==
  ASSUME PressInv, App!PublishModel
  PROVE  PressInv'
<1>1. /\ publisher.at = "publish" /\ App!Then("publish")
      /\ UNCHANGED <<monitor, snapshots, queued, owner, revoked, handled, refused, epoch>>
  BY DEF App!PublishModel, App!KeepPublisher, App!serial, App!ghosts
<1>2. epoch \in Nat /\ "keyLong" \in DOMAIN handled
  BY DEF PressInv, OwnerTyped, Stage
<1> QED
  BY <1>1, <1>2, PublisherPasses

LEMMA LeftPasses ==
  ASSUME PressInv, App!Left \/ App!EnterSetup
  PROVE  PressInv'
<1>1. /\ publisher.at \in {"left", "setup"} /\ (App!Then("exit") \/ App!Then("setup"))
      /\ UNCHANGED <<monitor, snapshots, queued, owner, revoked, refused, epoch>>
  BY DEF App!Left, App!EnterSetup, App!KeepPublisher, App!serial, App!ghosts
<1>2. epoch \in Nat /\ "keyLong" \in DOMAIN handled
  BY DEF PressInv, OwnerTyped, Stage
<1>3. "keyLong" \in DOMAIN handled' /\ handled'.keyLong = handled.keyLong
  BY <1>2 DEF App!Left, App!EnterSetup
<1>4. Unasked(publisher.snapshot.key) => publisher.snapshot.key.number \in refused
  BY <1>1 DEF PressInv, Stage
<1> QED
  BY <1>1, <1>2, <1>3, <1>4, PublisherPasses

\* The entry of a press that was not asked for joins the queue, or is refused.
LEMMA QueueEntryKeeps ==
  ASSUME PressInv, App!QueueEntry
  PROVE  PressInv'
<1> DEFINE pressed == publisher.snapshot.key
           d == [kind |-> "enter", epoch |-> epoch, press |-> pressed.number]
<1> USE DEF PressInv
<1>1. /\ publisher.at = "enter"
      /\ UNCHANGED <<monitor, snapshots, owner, revoked, handled, epoch>>
  BY DEF App!QueueEntry, App!KeepPublisher
<1>2. /\ epoch \in Nat /\ owner.by \in Nat /\ "keyLong" \in DOMAIN handled
      /\ Unasked(pressed) /\ IsShot(publisher.snapshot)
      /\ {"at", "snapshot", "todo"} \subseteq DOMAIN publisher
  BY <1>1 DEF OwnerTyped, Stage, IsShot
<1>3. pressed.number \in Nat
  BY <1>2, ShotFacts DEF Shot, Presses
<1>4. CASE /\ refused' = refused \union {pressed.number}
           /\ App!Then("enter") /\ UNCHANGED queued
  BY <1>1, <1>2, <1>4, PublisherPasses
<1>5. CASE /\ queued' = Append(queued, d) /\ refused' = refused
           /\ publisher' = [publisher EXCEPT !.at = "entered"]
  <2>1. /\ publisher'.at = "entered" /\ publisher'.snapshot = publisher.snapshot
        /\ {"at", "snapshot", "todo"} \subseteq DOMAIN publisher'
    BY <1>2, <1>5
  <2>2. Lineage' /\ \A s : (IsShot(s))' => IsShot(s)
    BY <1>1, <2>1, PublisherStays
  <2>3. \A p : Unasked(p)' <=> Unasked(p)
    BY <1>1 DEF Unasked
  <2>4. Stage'
    BY <1>1, <1>2, <2>1, <2>3 DEF Stage
  <2>5. AskersUnrevoked'
    BY <1>1, <1>5, <2>2, <2>3 DEF AskersUnrevoked, Unrevoked
  <2>6. OwnerTyped'
    BY <1>1 DEF OwnerTyped
  <2>7. d \in Orders /\ d.kind = "enter" /\ d.press = pressed.number /\ d.epoch = epoch
    BY <1>2, <1>3 DEF Orders
  <2>8. queued \in Seq(Orders)
    BY DEF InLine
  <2>9. /\ Len(queued) \in Nat /\ DOMAIN queued = 1..Len(queued)
        /\ \A i \in DOMAIN queued : queued[i].press \in Nat
    BY <2>8, OrdersAt
  <2> HIDE DEF d
  <2>10. /\ DOMAIN queued' = 1..(Len(queued) + 1)
         /\ \A i \in DOMAIN queued : queued'[i] = queued[i]
         /\ queued'[Len(queued) + 1] = d
    BY <1>5, <2>7, <2>8, <2>9, OrdersBack
  <2>11. /\ owner.by < pressed.number
         /\ \A i \in DOMAIN queued : Entry(queued, i) => queued[i].press < pressed.number
    BY <1>1, <1>2, <1>3, <2>9 DEF EntriesServed, Served
  <2>12. InLine(queued, owner.by)'
    BY <1>1, <1>2, <1>5, <2>7, <2>11, EntryJoins
  <2> DEFINE n == Len(queued)
  <2>13. \A i \in DOMAIN queued' : i \in DOMAIN queued \/ i = n + 1
    BY <2>9, <2>10
  <2>14. \A i \in DOMAIN queued : Entry(queued', i) => Entry(queued, i)
    BY <2>10 DEF Entry
  <2> HIDE DEF n
  <2>15. EntriesServed'
    <3>1. ASSUME NEW s, (IsShot(s))', NEW m, m <= s.key.number
          PROVE  Served(m, s)'
      BY <2>1, <3>1 DEF Served
    <3>2. ASSUME NEW s, (IsShot(s))', NEW i \in DOMAIN queued', Entry(queued', i)
          PROVE  queued'[i].press <= s.key.number
      <4>1. IsShot(s) /\ Before(publisher.snapshot, s)
        BY <1>1, <2>2, <3>2, ShotFacts
      <4>2. CASE i \in DOMAIN queued
        <5>1. Entry(queued, i) /\ queued'[i].press = queued[i].press
          BY <2>10, <2>14, <3>2, <4>2
        <5> QED
          BY <4>1, <4>2, <5>1 DEF EntriesServed, Served
      <4>3. CASE i = n + 1
        BY <2>7, <2>10, <4>1, <4>3 DEF n, Before
      <4> QED
        BY <2>13, <3>2, <4>2, <4>3
    <3>3. ASSUME NEW s, (IsShot(s))'
          PROVE  owner'.by <= s.key.number
      BY <1>1, <2>2, <3>3 DEF EntriesServed, Served
    <3> QED
      BY <3>1, <3>2, <3>3 DEF EntriesServed
  <2>16. EntriesRevoked'
    <3>1. Unrevoked(pressed.number)
      BY <1>2 DEF AskersUnrevoked
    <3>2. ASSUME NEW i \in DOMAIN queued', Entry(queued', i)
          PROVE  /\ queued'[i].epoch <= epoch'
                 /\ (Unrevoked(queued[i].press))' \/ Outdated(queued', owner'.epoch, i)
      <4>1. CASE i \in DOMAIN queued
        <5>1. Entry(queued, i) /\ queued'[i] = queued[i]
          BY <2>10, <2>14, <3>2, <4>1
        <5>2. queued[i].epoch <= epoch
          BY <4>1, <5>1 DEF EntriesRevoked
        <5>3. CASE Unrevoked(queued[i].press)
          BY <1>1, <1>5, <5>1, <5>2, <5>3 DEF Unrevoked
        <5>4. CASE Outdated(queued, owner.epoch, i)
          <6>1. DOMAIN queued \subseteq DOMAIN queued'
            BY <2>9, <2>10
          <6>2. Outdated(queued', owner'.epoch, i)
            BY <1>1, <2>10, <5>1, <5>4, <6>1 DEF Outdated
          <6> QED
            BY <1>1, <5>1, <5>2, <6>2
        <5> QED
          BY <4>1, <5>1, <5>3, <5>4 DEF EntriesRevoked
      <4>2. CASE i = n + 1
        BY <1>1, <1>2, <1>5, <2>7, <2>10, <3>1, <4>2 DEF n, Unrevoked
      <4> QED
        BY <2>13, <3>2, <4>1, <4>2
    <3> QED
      BY <3>2 DEF EntriesRevoked
  <2> QED
    BY <2>2, <2>4, <2>5, <2>6, <2>12, <2>15, <2>16
<1> QED
  BY <1>4, <1>5 DEF App!QueueEntry, App!EntryQueued

\* The press has been asked for: a press that would still ask came after it, and
\* after all that is served.
LEMMA EnteredKeeps ==
  ASSUME PressInv, App!Entered
  PROVE  PressInv'
<1> DEFINE pressed == publisher.snapshot.key
<1> USE DEF PressInv
<1>1. /\ publisher.at = "entered" /\ App!Then("enter")
      /\ handled' = [handled EXCEPT !.keyLong = pressed.count]
      /\ UNCHANGED <<monitor, snapshots, queued, owner, revoked, refused, epoch>>
  BY DEF App!Entered, App!KeepPublisher, App!serial, App!ghosts
<1>2. /\ epoch \in Nat /\ "keyLong" \in DOMAIN handled /\ handled.keyLong \in Nat
      /\ Unasked(pressed) /\ IsShot(publisher.snapshot)
  BY <1>1 DEF OwnerTyped, Stage, IsShot
<1>3. pressed.number \in Nat /\ pressed.count \in Nat
  BY <1>2, ShotFacts DEF Shot, Presses
<1>4. /\ handled'.keyLong = pressed.count /\ "keyLong" \in DOMAIN handled'
      /\ handled.keyLong < pressed.count
  BY <1>1, <1>2, <1>3 DEF Unasked, App!New
<1>5. /\ publisher'.at = App!After("enter") /\ publisher'.at \in {"exit", "setup", "wait"}
      /\ {"at", "snapshot", "todo"} \subseteq DOMAIN publisher'
      /\ publisher'.at # "wait" => publisher'.snapshot = publisher.snapshot
  BY <1>1, ThenFacts, AfterFacts
<1>6. Lineage' /\ \A s : (IsShot(s))' => IsShot(s)
  BY <1>1, <1>5, PublisherStays
<1>7. ASSUME NEW s, IsShot(s), Unasked(s.key)'
      PROVE  Unasked(s.key) /\ pressed.number < s.key.number
  <2>1. Shot(s) /\ Before(publisher.snapshot, s)
    BY <1>1, <1>7, ShotFacts
  <2>2. s.key.count \in Nat /\ s.key.kind = "long" /\ s.key.count > pressed.count
    BY <1>4, <1>7, <2>1 DEF Shot, Presses, Unasked, App!New
  <2> QED
    BY <1>2, <1>3, <1>4, <2>1, <2>2 DEF Before, Unasked, App!New
<1>8. Stage'
  <2>1. \A p : p = pressed => ~Unasked(p)'
    BY <1>3, <1>4 DEF Unasked, App!New
  <2>2. publisher'.at # "wait" => ~Unasked(publisher.snapshot.key)'
    BY <1>5, <2>1
  <2> QED
    BY <1>3, <1>4, <1>5, <2>2 DEF Stage
<1>9. EntriesServed'
  <2> DEFINE Kept(n) == n \in Nat /\ \A s : IsShot(s) => Served(n, s)
  <2>1. /\ Kept(owner.by)
        /\ \A i \in DOMAIN queued : Entry(queued, i) => Kept(queued[i].press)
    <3>1. queued \in Seq(Orders)
      BY DEF InLine
    <3>2. \A i \in DOMAIN queued : queued[i].press \in Nat
      BY <3>1, OrdersAt
    <3> QED
      BY <3>2 DEF EntriesServed, OwnerTyped
  <2>2. ASSUME NEW n, Kept(n), NEW s, (IsShot(s))'
        PROVE  Served(n, s)'
    <3>1. IsShot(s) /\ n <= s.key.number /\ n <= pressed.number
      BY <1>2, <1>6, <2>2 DEF Served
    <3>2. s.key.number \in Nat
      BY <3>1, ShotFacts DEF Shot, Presses
    <3>3. ~(n = s.key.number /\ Unasked(s.key)')
      BY <1>3, <1>7, <2>2, <3>1, <3>2
    <3> QED
      BY <3>1, <3>3 DEF Served
  <2> HIDE DEF Kept
  <2> QED
    BY <1>1, <2>1, <2>2 DEF EntriesServed
<1> QED
  BY <1>1, <1>2, <1>6, <1>7, <1>8, <1>9, PublisherGoesOn

\* The exit of a BOOT press goes to the front with an epoch newer than every
\* entry's; a press that would still ask came after it, or was refused.
LEMMA QueueExitKeeps ==
  ASSUME PressInv, App!QueueExit
  PROVE  PressInv'
<1> DEFINE left == publisher.snapshot
           d == [kind |-> "exit", epoch |-> epoch + 1, press |-> left.boot.number]
<1> USE DEF PressInv
<1>1. /\ publisher.at = "exit"
      /\ UNCHANGED <<monitor, snapshots, owner, handled, refused>>
  BY DEF App!QueueExit, App!KeepPublisher
<1>2. /\ epoch \in Nat /\ owner.by \in Nat /\ "keyLong" \in DOMAIN handled
      /\ {"at", "snapshot", "todo"} \subseteq DOMAIN publisher
  BY <1>1 DEF OwnerTyped, Stage
<1>2a. Unasked(left.key) => left.key.number \in refused
  BY <1>1 DEF Stage
<1>2b. IsShot(left)
  BY <1>1 DEF IsShot
<1>3. /\ left.boot.number \in Nat /\ left.boot.number <= monitor.boot.number
  BY <1>1, <1>2b, ShotFacts DEF Shot, Presses, Before
<1>4. CASE epoch' \in {epoch, epoch + 1} /\ App!Then("exit") /\ UNCHANGED <<queued, revoked>>
  <2>1. epoch' \in Nat /\ epoch <= epoch'
    BY <1>2, <1>4
  <2> QED
    BY <1>1, <1>2, <1>2a, <1>4, <2>1, PublisherPasses
<1>5. CASE /\ epoch' = epoch + 1 /\ queued' = <<d>> \o queued
           /\ publisher' = [publisher EXCEPT !.at = "left"] /\ revoked' = left.boot.number
  <2>1. /\ publisher'.at = "left" /\ publisher'.snapshot = publisher.snapshot
        /\ {"at", "snapshot", "todo"} \subseteq DOMAIN publisher'
    BY <1>2, <1>5
  <2>2. Lineage' /\ \A s : (IsShot(s))' => IsShot(s)
    BY <1>1, <2>1, PublisherStays
  <2>3. \A p : Unasked(p)' <=> Unasked(p)
    BY <1>1 DEF Unasked
  <2>4. Stage'
    BY <1>1, <1>2a, <2>1, <2>3 DEF Stage
  <2>5. AskersUnrevoked'
    <3>1. ASSUME NEW s, IsShot(s), Unasked(s.key)
          PROVE  s.key.number > left.boot.number \/ s.key.number \in refused
      <4>1. Before(left, s) /\ Shot(s) /\ Shot(left)
        BY <1>1, <1>2b, <3>1, ShotFacts
      <4>2. CASE left.key.count = s.key.count
        BY <1>2a, <3>1, <4>1, <4>2 DEF Before
      <4>3. CASE left.key.count < s.key.count
        BY <4>1, <4>3 DEF Before, Shot, Presses
      <4> QED
        BY <4>1, <4>2, <4>3 DEF Before, Shot, Presses
    <3> QED
      BY <1>1, <1>3, <1>5, <2>2, <2>3, <3>1 DEF AskersUnrevoked, Unrevoked
  <2>6. OwnerTyped'
    BY <1>1, <1>2, <1>5 DEF OwnerTyped
  <2>7. d \in Orders /\ d.kind = "exit" /\ d.epoch = epoch + 1
    BY <1>2, <1>3 DEF Orders
  <2>8. queued \in Seq(Orders)
    BY DEF InLine
  <2>9. /\ Len(queued) \in Nat /\ DOMAIN queued = 1..Len(queued)
        /\ \A i \in DOMAIN queued : queued[i].epoch \in Nat
    BY <2>8, OrdersAt
  <2> HIDE DEF d
  <2>10. /\ DOMAIN queued' = 1..(Len(queued) + 1) /\ queued'[1] = d
         /\ \A i \in 2..(Len(queued) + 1) :
              i - 1 \in DOMAIN queued /\ queued'[i] = queued[i - 1]
    BY <1>5, <2>7, <2>8, <2>9, OrdersFront
  <2>11. InLine(queued, owner.by)'
    BY <1>1, <1>2, <1>5, <2>7, ExitLeads
  <2>12. \A i \in DOMAIN queued' : Entry(queued', i) =>
           i - 1 \in DOMAIN queued /\ Entry(queued, i - 1) /\ queued'[i] = queued[i - 1]
    <3>1. \A i \in DOMAIN queued' : Entry(queued', i) => i \in 2..(Len(queued) + 1)
      BY <2>7, <2>9, <2>10 DEF Entry
    <3> QED
      BY <2>10, <3>1 DEF Entry
  <2>13. EntriesServed'
    BY <1>1, <2>2, <2>3, <2>12 DEF EntriesServed, Served
  <2>14. EntriesRevoked'
    <3>1. ASSUME NEW i \in DOMAIN queued', Entry(queued', i)
          PROVE  queued'[i].epoch <= epoch' /\ Outdated(queued', owner'.epoch, i)
      <4>1. queued'[i].epoch <= epoch /\ queued'[i].epoch \in Nat
        BY <2>9, <2>12, <3>1 DEF EntriesRevoked
      <4>2. queued'[i].epoch <= epoch' /\ queued'[i].epoch < d.epoch
        BY <1>2, <1>5, <2>7, <4>1
      <4>3. 1 \in DOMAIN queued' /\ queued'[1].kind = "exit"
        BY <2>7, <2>9, <2>10
      <4> QED
        BY <2>10, <4>2, <4>3 DEF Outdated
    <3> QED
      BY <3>1 DEF EntriesRevoked
  <2> QED
    BY <2>2, <2>4, <2>5, <2>6, <2>11, <2>13, <2>14
<1> QED
  BY <1>4, <1>5 DEF App!QueueExit, App!ExitQueued

\* What the owner does with the order it takes.
LEMMA OwnerObeys ==
  ASSUME PressInv, App!OwnerTakes
  PROVE  /\ queued # << >> /\ queued' = Tail(queued) /\ OwnerTyped'
         /\ UNCHANGED <<monitor, snapshots, publisher, handled, epoch, revoked, refused>>
         /\ queued[1].kind = "enter" =>
              /\ owner'.epoch = owner.epoch
              /\ \/ owner'.by = owner.by /\ owner'.armed = owner.armed
                 \/ owner'.by = queued[1].press /\ queued[1].epoch = owner.epoch
         /\ queued[1].kind # "enter" =>
              /\ owner'.by = owner.by /\ (owner'.armed => owner.armed)
              /\ owner.epoch <= owner'.epoch /\ queued[1].epoch <= owner'.epoch
<1> DEFINE d == queued[1]
<1>1. /\ queued # << >> /\ queued' = Tail(queued)
      /\ UNCHANGED <<monitor, snapshots, publisher, handled, epoch, revoked, refused>>
      /\ Head(queued).kind = "enter" => App!OwnerEnters(Head(queued))
      /\ Head(queued).kind # "enter" => App!OwnerLeaves(Head(queued))
  BY DEF App!OwnerTakes, App!KeepOwner, App!buttons, App!ghosts
<1>2. queued \in Seq(Orders)
  BY DEF PressInv, InLine
<1>3. Head(queued) = d /\ 1 \in DOMAIN queued
  BY <1>1, <1>2, OrdersTail
<1>4. d.epoch \in Nat /\ d.press \in Nat
  BY <1>2, <1>3, OrdersAt
<1>5. /\ {"at", "armed", "epoch", "by"} \subseteq DOMAIN owner
      /\ owner.epoch \in Nat /\ owner.by \in Nat /\ epoch \in Nat
  BY DEF PressInv, OwnerTyped
<1> HIDE DEF d
<1>6. CASE d.kind = "enter"
  <2>1. \/ owner' = [owner EXCEPT !.at = "publish"]
        \/ /\ d.epoch = owner.epoch
           /\ owner' = [owner EXCEPT !.at = "publish", !.armed = TRUE, !.by = d.press]
    BY <1>1, <1>3, <1>6 DEF App!OwnerEnters
  <2>2. OwnerTyped'
    BY <1>1, <1>4, <1>5, <2>1 DEF OwnerTyped
  <2> QED
    BY <1>1, <1>5, <1>6, <2>1, <2>2 DEF d
<1>7. CASE d.kind # "enter"
  <2>1. \/ d.epoch < owner.epoch /\ owner' = [owner EXCEPT !.at = "publish"]
        \/ /\ ~(d.epoch < owner.epoch)
           /\ owner' = [owner EXCEPT !.at = "publish", !.armed = FALSE, !.epoch = d.epoch]
    BY <1>1, <1>3, <1>7 DEF App!OwnerLeaves
  <2>2. OwnerTyped'
    BY <1>1, <1>4, <1>5, <2>1 DEF OwnerTyped
  <2>3. /\ owner'.by = owner.by
        /\ owner.epoch <= owner'.epoch /\ d.epoch <= owner'.epoch
    <3>1. /\ owner'.by = owner.by
          /\ \/ d.epoch < owner.epoch /\ owner'.epoch = owner.epoch
             \/ ~(d.epoch < owner.epoch) /\ owner'.epoch = d.epoch
      BY <1>5, <2>1
    <3> QED
      BY <1>4, <1>5, <3>1
  <2>4. owner'.armed = owner.armed \/ owner'.armed = FALSE
    BY <1>5, <2>1
  <2>5. owner'.armed => owner.armed
    BY <2>4, Zenon
  <2> QED
    BY <1>1, <1>7, <2>2, <2>3, <2>5 DEF d
<1> QED
  BY <1>6, <1>7

LEMMA OwnerTakesInTurn ==
  ASSUME PressInv, App!OwnerTakes
  PROVE  PressInv'
<1> USE DEF PressInv
<1>1. /\ queued # << >> /\ queued' = Tail(queued) /\ OwnerTyped'
      /\ UNCHANGED <<monitor, snapshots, publisher, handled, epoch, revoked, refused>>
      /\ owner'.by = owner.by \/ (queued[1].kind = "enter" /\ owner'.by = queued[1].press)
      /\ owner.epoch <= owner'.epoch
      /\ queued[1].kind # "enter" => queued[1].epoch <= owner'.epoch
  <2>1. owner.epoch \in Nat
    BY DEF OwnerTyped
  <2> QED
    BY <2>1, OwnerObeys
<1>2. owner.by \in Nat /\ owner.epoch \in Nat /\ owner'.epoch \in Nat
  BY <1>1 DEF OwnerTyped
<1>3. /\ InLine(queued, owner.by)'
      /\ queued[1].kind = "enter" => \A j \in DOMAIN queued : queued[j].kind = "enter"
  BY <1>1, <1>2, HeadLeaves
<1>4. queued \in Seq(Orders)
  BY DEF InLine
<1>5. /\ 1 \in DOMAIN queued /\ Len(queued) \in Nat \ {0}
      /\ DOMAIN queued = 1..Len(queued) /\ DOMAIN queued' = 1..(Len(queued) - 1)
      /\ \A i \in DOMAIN queued' : i + 1 \in DOMAIN queued /\ queued'[i] = queued[i + 1]
  BY <1>1, <1>4, OrdersTail
<1>6. \A i \in DOMAIN queued : queued[i].epoch \in Nat
  BY <1>4, OrdersAt
<1>7. \A i \in DOMAIN queued' : Entry(queued', i) => Entry(queued, i + 1)
  BY <1>5 DEF Entry
<1>8. Lineage' /\ Stage' /\ AskersUnrevoked'
  <2>1. Lineage' /\ Stage'
    BY <1>1 DEF Lineage, Stage, Unasked
  <2> QED
    BY <1>1, <2>1 DEF AskersUnrevoked, IsShot, Unasked, Unrevoked
<1>9. EntriesServed'
  <2>1. \A n, s : (IsShot(s))' <=> IsShot(s)
    BY <1>1 DEF IsShot
  <2>2. \A n, s : Served(n, s)' <=> Served(n, s)
    BY <1>1 DEF Served, Unasked
  <2>3. ASSUME NEW s, IsShot(s)
        PROVE  Served(owner'.by, s)
    <3>1. queued[1].kind = "enter" => Entry(queued, 1)
      BY <1>5 DEF Entry
    <3> QED
      BY <1>1, <1>5, <2>3, <3>1 DEF EntriesServed
  <2>4. ASSUME NEW s, IsShot(s), NEW i \in DOMAIN queued', Entry(queued', i)
        PROVE  Served(queued'[i].press, s)
    BY <1>5, <1>7, <2>4 DEF EntriesServed
  <2> QED
    BY <2>1, <2>2, <2>3, <2>4 DEF EntriesServed
<1>10. EntriesRevoked'
  <2>1. \A n : Unrevoked(n)' <=> Unrevoked(n)
    BY <1>1 DEF Unrevoked
  <2>2. ASSUME NEW i \in DOMAIN queued', Entry(queued', i)
        PROVE  /\ queued'[i].epoch <= epoch'
               /\ Unrevoked(queued'[i].press) \/ Outdated(queued', owner'.epoch, i)
    <3>1. /\ i + 1 \in DOMAIN queued /\ Entry(queued, i + 1) /\ queued'[i] = queued[i + 1]
          /\ queued[i + 1].epoch \in Nat
      BY <1>5, <1>6, <1>7, <2>2
    <3>2. /\ queued[i + 1].epoch <= epoch
          /\ Unrevoked(queued[i + 1].press) \/ Outdated(queued, owner.epoch, i + 1)
      BY <3>1 DEF EntriesRevoked
    <3>3. ASSUME Outdated(queued, owner.epoch, i + 1)
          PROVE  Outdated(queued', owner'.epoch, i)
      <4>1. CASE queued[i + 1].epoch < owner.epoch
        BY <1>1, <1>2, <3>1, <4>1 DEF Outdated
      <4>2. ASSUME NEW j \in DOMAIN queued, queued[j].kind = "exit",
                   queued[i + 1].epoch < queued[j].epoch
            PROVE  Outdated(queued', owner'.epoch, i)
        <5>1. queued[j].epoch \in Nat
          BY <1>6
        <5>2. CASE j = 1
          BY <1>1, <1>2, <3>1, <4>2, <5>1, <5>2 DEF Outdated
        <5>3. CASE j # 1
          <6>1. j - 1 \in DOMAIN queued' /\ (j - 1) + 1 = j
            BY <1>5, <5>3
          <6>2. queued'[j - 1] = queued[j]
            BY <1>5, <6>1
          <6> QED
            BY <3>1, <4>2, <6>1, <6>2 DEF Outdated
        <5> QED
          BY <5>2, <5>3
      <4> QED
        BY <3>3, <4>1, <4>2 DEF Outdated
    <3> QED
      BY <1>1, <3>1, <3>2, <3>3
  <2> QED
    BY <2>1, <2>2 DEF EntriesRevoked
<1> QED
  BY <1>1, <1>3, <1>8, <1>9, <1>10

\* The start and the stop of the owner, and its reports.
LEMMA OwnerReports ==
  ASSUME PressInv, App!StartSerial \/ App!AttachSerial \/ App!OwnerPublishes
  PROVE  PressInv'
<1>1. UNCHANGED <<monitor, snapshots, publisher, handled, epoch, queued, revoked, refused>>
  BY DEF App!StartSerial, App!AttachSerial, App!OwnerPublishes, App!Idle, App!KeepOwner,
         App!buttons, App!ghosts
<1>2. owner' = owner \/ \E a : owner' = [owner EXCEPT !.at = a]
  BY DEF App!StartSerial, App!AttachSerial, App!ServiceStops, App!OwnerPublishes
<1>3. OwnerTyped' /\ owner'.epoch = owner.epoch /\ owner'.by = owner.by
  BY <1>1, <1>2 DEF PressInv, OwnerTyped
<1> QED
  BY <1>1, <1>3, PressFrame

LEMMA OthersKeep ==
  ASSUME PressInv,
         \/ App!StartDisplay \/ App!WaitForUi \/ App!StartSetup \/ App!StopView
         \/ App!UiReady \/ App!UiFails \/ App!UiReceives
         \/ App!ViewReceives \/ App!ViewStores \/ App!ViewApplies
         \/ App!SetupEvent \/ App!SetupPublishes \/ App!AiPageProjects \/ App!AiPagePublishes
         \/ UNCHANGED appVars
  PROVE  PressInv'
<1>1. UNCHANGED <<monitor, snapshots, publisher, handled, epoch, queued, owner, revoked,
                  refused>>
  BY DEF App!StartDisplay, App!WaitForUi, App!StartSetup, App!StopView, App!UiReady,
         App!UiFails, App!UiReceives, App!ViewReceives, App!ViewStores, App!ViewApplies,
         App!SetupEvent, App!SetupPublishes, App!AiPageProjects, App!AiPagePublishes,
         App!Idle, App!KeepView, App!KeepSetup, App!KeepPage, App!buttons, App!serial,
         App!ghosts, appVars
<1>2. OwnerTyped'
  BY <1>1 DEF PressInv, OwnerTyped
<1> QED
  BY <1>1, <1>2, PressFrame

LEMMA PressNext ==
  ASSUME PressInv, App!Next \/ UNCHANGED appVars
  PROVE  PressInv'
BY OthersKeep, OwnerReports, OwnerTakesInTurn, PressKeeps, SampledKeeps, ReceiveKeeps,
   DecideDecides, PublishModelPasses, QueueEntryKeeps, EnteredKeeps, QueueExitKeeps,
   LeftPasses
DEF App!Next

LEMMA PressInvariant == MCSpec => []PressInv
<1>1. MCInit => PressInv
  BY PressInit DEF MCInit
<1>2. PressInv /\ [MCNext]_<<part, vars, appVars, displayVars, outputVars>> => PressInv'
  <2> SUFFICES ASSUME PressInv, [MCNext]_<<part, vars, appVars, displayVars, outputVars>>
               PROVE  App!Next \/ UNCHANGED appVars
    BY PressNext
  <2> QED
    BY DEF MCNext
<1> QED
  BY <1>1, <1>2, PTL DEF MCSpec

\* Only an order taken arms the owner.
LEMMA ArmedByOrder ==
  ASSUME PressInv, App!Next \/ UNCHANGED appVars, owner'.armed, ~owner.armed
  PROVE  App!OwnerTakes
<1>1. {"at", "armed"} \subseteq DOMAIN owner
  BY DEF PressInv, OwnerTyped
<1>2. CASE App!StartSerial \/ App!AttachSerial \/ App!OwnerPublishes
  <2>1. owner' = owner \/ \E a : owner' = [owner EXCEPT !.at = a]
    BY <1>2 DEF App!StartSerial, App!AttachSerial, App!ServiceStops, App!OwnerPublishes
  <2> QED
    BY <1>1, <2>1
<1>3. CASE ~(App!StartSerial \/ App!AttachSerial \/ App!OwnerPublishes \/ App!OwnerTakes)
  <2>1. owner' = owner
    BY <1>3 DEF App!Next, App!StartDisplay, App!WaitForUi, App!StartSetup, App!StopView,
         App!UiReady, App!UiFails, App!UiReceives, App!ViewReceives, App!ViewStores,
         App!ViewApplies, App!SetupEvent, App!SetupPublishes, App!AiPageProjects,
         App!AiPagePublishes, App!StartPeripherals, App!Press, App!Measure, App!Receive,
         App!Decide, App!PublishModel, App!QueueEntry, App!Entered, App!QueueExit, App!Left,
         App!EnterSetup, App!SetOffset, App!Idle, App!KeepView, App!KeepSetup, App!KeepPage,
         App!KeepInputs, App!KeepPublisher, App!serial, appVars
  <2> QED
    BY <2>1
<1> QED
  BY <1>2, <1>3

\* BOOT revokes: whatever the queue, the publisher's retries and the overwritten
\* snapshots make of the order, a session is entered by a KEY press that has
\* entered none before and that is newer than every BOOT press whose exit was
\* queued, unless its entry had been refused at first.
THEOREM BootStaysRevoking == MCSpec => BootRevokesKeys
<1>1. PressInv /\ [MCNext]_<<part, vars, appVars, displayVars, outputVars>> =>
        (owner'.armed /\ ~owner.armed =>
           owner'.by # owner.by /\ (owner'.by > revoked \/ owner'.by \in refused))
  <2> SUFFICES ASSUME PressInv, [MCNext]_<<part, vars, appVars, displayVars, outputVars>>,
                      owner'.armed, ~owner.armed
               PROVE  owner'.by # owner.by /\ Unrevoked(owner'.by)
    BY DEF Unrevoked
  <2>1. App!Next \/ UNCHANGED appVars
    BY DEF MCNext
  <2>2. App!OwnerTakes
    BY <2>1, ArmedByOrder
  <2>3. /\ queued # << >> /\ queued[1].kind = "enter"
        /\ owner'.by = queued[1].press /\ queued[1].epoch = owner.epoch
    BY <2>2, OwnerObeys
  <2>4. queued \in Seq(Orders) /\ InLine(queued, owner.by) /\ owner.by \in Nat
        /\ owner.epoch \in Nat
    BY DEF PressInv, InLine, OwnerTyped
  <2>5. 1 \in DOMAIN queued /\ Entry(queued, 1)
    BY <2>3, <2>4, OrdersTail DEF Entry
  <2>6. \A j \in DOMAIN queued : queued[j].kind = "enter"
    BY <2>3, <2>4, HeadLeaves
  <2>7. ~Outdated(queued, owner.epoch, 1)
    BY <2>3, <2>4, <2>6 DEF Outdated
  <2>8. Unrevoked(owner'.by)
    BY <2>3, <2>5, <2>7 DEF PressInv, EntriesRevoked
  <2>9. owner.by < queued[1].press /\ queued[1].press \in Nat
    BY <2>4, <2>5, OrdersAt DEF InLine
  <2> QED
    BY <2>3, <2>4, <2>8, <2>9
<1>2. PressInv /\ [MCNext]_<<part, vars, appVars, displayVars, outputVars>> =>
        [owner'.armed /\ ~owner.armed =>
           owner'.by # owner.by /\ (owner'.by > revoked \/ owner'.by \in refused)]_App!vars
  BY <1>1
<1> QED
  BY <1>2, PressInvariant, PTL DEF MCSpec, BootRevokesKeys, App!BootRevokesKeys

-----------------------------------------------------------------------------
(* The router: its sinks' queues as windows onto one stream of blocks *)

Queues == [Sinks -> Seq(Blocks)]

Routers ==
  [session : Nat, free : SUBSET Blocks, sequence : [Blocks -> Nat],
   references : [Blocks -> Nat], queue : Queues, overwritten : [Sinks -> SUBSET Nat],
   last : Nat, exhausted : BOOLEAN]

\* Every sink's queue is the end of the history's.
Suffixes(q) ==
  \A s \in Sinks :
    /\ Len(q[s]) <= Capacity[s] /\ Len(q[s]) <= Len(q[Retained])
    /\ \A i \in 1..Len(q[s]) : q[s][i] = q[Retained][i + (Len(q[Retained]) - Len(q[s]))]

\* The history holds the newest blocks, without a gap.
Numbered(q, number, last) ==
  /\ Len(q[Retained]) <= last
  /\ \A i \in 1..Len(q[Retained]) :
       number[q[Retained][i]] = (last - Len(q[Retained])) + i

Held(q, b) == {s \in Sinks : \E i \in 1..Len(q[s]) : q[s][i] = b}

Counted(q, references, free) ==
  \A b \in Blocks : /\ references[b] = Cardinality(Held(q, b))
                    /\ b \in free <=> references[b] = 0

\* What is no longer in the history was overwritten in it.
Remembered(q, overwritten, last) ==
  /\ \A n \in 1..(last - Len(q[Retained])) : n \in overwritten[Retained]
  /\ Len(q[Retained]) = 0 => last = 0

RouterInv(r) ==
  /\ r \in Routers /\ ~r.exhausted
  /\ Suffixes(r.queue) /\ Numbered(r.queue, r.sequence, r.last)
  /\ Counted(r.queue, r.references, r.free)
  /\ Remembered(r.queue, r.overwritten, r.last)

\* The instance's finite sets are those of FiniteSets.
LEMMA SameFiniteSets ==
  ASSUME NEW S
  PROVE  /\ Output!IsFiniteSet(S) <=> IsFiniteSet(S)
         /\ Output!Cardinality(S) = Cardinality(S)
BY DEF Output!IsFiniteSet, IsFiniteSet, Output!Cardinality, Cardinality

LEMMA Bounds ==
  /\ IsFiniteSet(Blocks) /\ IsFiniteSet(Sinks)
  /\ Retained \in Sinks /\ "usb" \in Sinks /\ "wss" \in Sinks
  /\ Retained # "usb" /\ Retained # "wss"
  /\ Capacity \in [Sinks -> Nat \ {0}]
  /\ \A s \in Sinks : Capacity[s] <= Capacity[Retained]
  /\ Capacity[Retained] <= Cardinality(Blocks) /\ Ingress \in Nat
BY OutputAssumption, SameFiniteSets DEF Output!PathBounds, Output!RouterBounds

LEMMA QueueFacts ==
  ASSUME NEW q \in Queues, NEW s \in Sinks
  PROVE  /\ q[s] \in Seq(Blocks) /\ Len(q[s]) \in Nat /\ DOMAIN q[s] = 1..Len(q[s])
         /\ \A i \in 1..Len(q[s]) : q[s][i] \in Blocks
         /\ q[s] # << >> <=> Len(q[s]) > 0
<1>1. q[s] \in Seq(Blocks)
  BY DEF Queues
<1> QED
  BY <1>1

\* The queues once the sinks in `from' have dropped their oldest block.
Cut(q, from) == [s \in Sinks |-> IF s \in from THEN Tail(q[s]) ELSE q[s]]

LEMMA CutFacts ==
  ASSUME NEW q \in Queues, NEW from \in SUBSET Sinks, \A s \in from : q[s] # << >>
  PROVE  /\ Cut(q, from) \in Queues
         /\ \A s \in from : /\ Len(Cut(q, from)[s]) = Len(q[s]) - 1
                            /\ \A i \in 1..(Len(q[s]) - 1) : Cut(q, from)[s][i] = q[s][i + 1]
         /\ \A s \in Sinks \ from : Cut(q, from)[s] = q[s]
<1>1. \A s \in from :
        /\ Tail(q[s]) \in Seq(Blocks) /\ Len(Tail(q[s])) = Len(q[s]) - 1
        /\ \A i \in 1..(Len(q[s]) - 1) : Tail(q[s])[i] = q[s][i + 1]
  <2> SUFFICES ASSUME NEW s \in from
               PROVE  /\ Tail(q[s]) \in Seq(Blocks) /\ Len(Tail(q[s])) = Len(q[s]) - 1
                      /\ \A i \in 1..(Len(q[s]) - 1) : Tail(q[s])[i] = q[s][i + 1]
    OBVIOUS
  <2>1. q[s] \in Seq(Blocks) /\ q[s] # << >>
    BY QueueFacts
  <2> QED
    BY <2>1, HeadTailProperties
<1>2. \A s \in Sinks : q[s] \in Seq(Blocks)
  BY QueueFacts
<1> QED
  BY <1>1, <1>2 DEF Cut, Queues

\* Dropping keeps the windows, if the history drops a block only with everyone
\* who still holds it.
LEMMA CutSuffixes ==
  ASSUME NEW q \in Queues, NEW from \in SUBSET Sinks, \A s \in from : q[s] # << >>,
         Suffixes(q),
         Retained \in from => \A s \in Sinks : Len(q[s]) = Len(q[Retained]) => s \in from
  PROVE  Suffixes(Cut(q, from))
<1> DEFINE c == Cut(q, from)
           L == Len(q[Retained])
<1>1. /\ c \in Queues
      /\ \A s \in from : /\ Len(c[s]) = Len(q[s]) - 1
                         /\ \A i \in 1..(Len(q[s]) - 1) : c[s][i] = q[s][i + 1]
      /\ \A s \in Sinks \ from : c[s] = q[s]
  BY CutFacts
<1>2. SUFFICES ASSUME NEW s \in Sinks
               PROVE  /\ Len(c[s]) <= Capacity[s] /\ Len(c[s]) <= Len(c[Retained])
                      /\ \A i \in 1..Len(c[s]) :
                           c[s][i] = c[Retained][i + (Len(c[Retained]) - Len(c[s]))]
  BY DEF Suffixes
<1> HIDE DEF c
<1>3. L \in Nat /\ Len(q[s]) \in Nat /\ Capacity[s] \in Nat /\ Retained \in Sinks
  BY Bounds, QueueFacts
<1>4. /\ Len(q[s]) <= Capacity[s] /\ Len(q[s]) <= L
      /\ \A i \in 1..Len(q[s]) : q[s][i] = q[Retained][i + (L - Len(q[s]))]
  BY DEF Suffixes
<1>5. /\ s \in from => Len(q[s]) > 0
      /\ Retained \in from => L > 0
  BY <1>3, QueueFacts
<1> DEFINE l == Len(q[s])
<1> HIDE DEF l, L
<1>a. l \in Nat /\ L \in Nat /\ l <= L
  BY <1>3, <1>4 DEF l, L
<1>b. l <= Capacity[s] /\ Capacity[s] \in Nat
  BY <1>3, <1>4 DEF l
<1>c. \A i \in 1..l : q[s][i] = q[Retained][i + (L - l)]
  BY <1>4 DEF l, L
<1>d. (s \in from => l > 0) /\ (Retained \in from => L > 0)
  BY <1>5 DEF l, L
<1>6. CASE s \in from /\ Retained \in from
  <2>1. Len(c[s]) = l - 1 /\ Len(c[Retained]) = L - 1
    BY <1>1, <1>6 DEF l, L
  <2>2. ASSUME NEW i \in 1..(l - 1)
        PROVE  c[s][i] = c[Retained][i + ((L - 1) - (l - 1))]
    <3>1. i + (L - l) \in 1..(L - 1) /\ i + 1 \in 1..l
          /\ i + ((L - 1) - (l - 1)) = i + (L - l) /\ (i + (L - l)) + 1 = (i + 1) + (L - l)
      BY <1>a
    <3>2. c[s][i] = q[s][i + 1] /\ q[s][i + 1] = q[Retained][(i + 1) + (L - l)]
      BY <1>1, <1>c, <1>6, <3>1 DEF l
    <3>3. c[Retained][i + (L - l)] = q[Retained][(i + (L - l)) + 1]
      BY <1>1, <1>6, <3>1 DEF L
    <3> QED
      BY <3>1, <3>2, <3>3
  <2> QED
    BY <1>a, <1>b, <1>d, <1>6, <2>1, <2>2
<1>7. CASE s \in from /\ Retained \notin from
  <2>1. Len(c[s]) = l - 1 /\ c[Retained] = q[Retained]
    BY <1>1, <1>3, <1>7 DEF l
  <2>2. ASSUME NEW i \in 1..(l - 1)
        PROVE  c[s][i] = c[Retained][i + (L - (l - 1))]
    <3>1. i + 1 \in 1..l /\ i + (L - (l - 1)) = (i + 1) + (L - l)
      BY <1>a
    <3>2. c[s][i] = q[s][i + 1]
      BY <1>1, <1>7 DEF l
    <3> QED
      BY <1>c, <2>1, <3>1, <3>2
  <2>3. Len(c[Retained]) = L
    BY <2>1 DEF L
  <2> QED
    BY <1>a, <1>b, <1>d, <1>7, <2>1, <2>2, <2>3
<1>8. CASE s \notin from /\ Retained \in from
  <2>1. c[s] = q[s] /\ Len(c[Retained]) = L - 1 /\ l <= L - 1
    BY <1>1, <1>3, <1>4, <1>8 DEF l, L
  <2>2. ASSUME NEW i \in 1..l
        PROVE  c[s][i] = c[Retained][i + ((L - 1) - l)]
    <3>1. i + ((L - 1) - l) \in 1..(L - 1) /\ (i + ((L - 1) - l)) + 1 = i + (L - l)
      BY <1>a, <2>1
    <3>2. c[Retained][i + ((L - 1) - l)] = q[Retained][(i + ((L - 1) - l)) + 1]
      BY <1>1, <1>8, <3>1 DEF L
    <3> QED
      BY <1>c, <2>1, <3>1, <3>2
  <2>3. Len(c[s]) = l
    BY <2>1 DEF l
  <2> QED
    BY <1>b, <2>1, <2>2, <2>3
<1>9. CASE s \notin from /\ Retained \notin from
  BY <1>1, <1>3, <1>4, <1>9 DEF l, L
<1> QED
  BY <1>6, <1>7, <1>8, <1>9

\* No block is twice in a queue.
LEMMA NoBlockTwice ==
  ASSUME NEW q \in Queues, NEW number \in [Blocks -> Nat], NEW last \in Nat,
         Suffixes(q), Numbered(q, number, last),
         NEW s \in Sinks, NEW i \in 1..Len(q[s]), NEW j \in 1..Len(q[s]), q[s][i] = q[s][j]
  PROVE  i = j
<1> DEFINE d == Len(q[Retained]) - Len(q[s])
<1>1. /\ Len(q[Retained]) \in Nat /\ Len(q[s]) \in Nat
      /\ Len(q[s]) <= Len(q[Retained])
      /\ q[s][i] = q[Retained][i + d] /\ q[s][j] = q[Retained][j + d]
  BY Bounds, QueueFacts DEF Suffixes
<1>0. d \in Nat /\ Len(q[s]) + d = Len(q[Retained])
  BY <1>1
<1> HIDE DEF d
<1>2. i + d \in 1..Len(q[Retained]) /\ j + d \in 1..Len(q[Retained])
  <2> DEFINE m == Len(q[s])
             h == Len(q[Retained])
  <2>1. i \in 1..m /\ j \in 1..m /\ m \in Nat /\ h \in Nat /\ m + d = h
    BY <1>0, <1>1
  <2> HIDE DEF m, h
  <2>2. i + d \in 1..h /\ j + d \in 1..h
    BY <1>0, <2>1
  <2> QED
    BY <2>2 DEF h
<1>3. /\ number[q[Retained][i + d]] = (last - Len(q[Retained])) + (i + d)
      /\ number[q[Retained][j + d]] = (last - Len(q[Retained])) + (j + d)
  BY <1>2 DEF Numbered
<1>4. (last - Len(q[Retained])) + (i + d) = (last - Len(q[Retained])) + (j + d)
  BY <1>1, <1>3
<1> QED
  BY <1>0, <1>1, <1>4

\* The sinks of `from' that drop block b.
Drops(q, from, b) == {s \in from : q[s][1] = b}

LEMMA CutHeld ==
  ASSUME NEW q \in Queues, NEW number \in [Blocks -> Nat], NEW last \in Nat,
         Suffixes(q), Numbered(q, number, last),
         NEW from \in SUBSET Sinks, \A s \in from : q[s] # << >>, NEW b
  PROVE  /\ Held(Cut(q, from), b) = Held(q, b) \ Drops(q, from, b)
         /\ Drops(q, from, b) \subseteq Held(q, b)
<1> DEFINE c == Cut(q, from)
<1>1. /\ \A s \in from : /\ Len(c[s]) = Len(q[s]) - 1
                         /\ \A i \in 1..(Len(q[s]) - 1) : c[s][i] = q[s][i + 1]
      /\ \A s \in Sinks \ from : c[s] = q[s]
  BY CutFacts
<1> HIDE DEF c
<1>2. \A s \in from : Len(q[s]) \in Nat /\ Len(q[s]) > 0 /\ 1 \in 1..Len(q[s])
  BY QueueFacts
<1>3. ASSUME NEW s \in from
      PROVE  (\E i \in 1..Len(c[s]) : c[s][i] = b)
               <=> ((\E i \in 1..Len(q[s]) : q[s][i] = b) /\ q[s][1] # b)
  <2> DEFINE l == Len(q[s])
  <2>1. /\ l \in Nat /\ l > 0 /\ 1 \in 1..l /\ Len(c[s]) = l - 1
        /\ \A i \in 1..(l - 1) : c[s][i] = q[s][i + 1]
    BY <1>1, <1>2
  <2>2. \A i, j \in 1..l : q[s][i] = q[s][j] => i = j
    BY NoBlockTwice
  <2> HIDE DEF l
  <2>3. ASSUME NEW i \in 1..(l - 1), c[s][i] = b
        PROVE  (\E j \in 1..l : q[s][j] = b) /\ q[s][1] # b
    <3>1. i + 1 \in 1..l /\ i + 1 # 1
      BY <2>1
    <3> QED
      BY <2>1, <2>2, <2>3, <3>1
  <2>4. ASSUME NEW i \in 1..l, q[s][i] = b, q[s][1] # b
        PROVE  \E j \in 1..(l - 1) : c[s][j] = b
    <3>1. i # 1
      BY <2>4
    <3>2. i - 1 \in 1..(l - 1) /\ (i - 1) + 1 = i
      BY <2>1, <3>1
    <3> QED
      BY <2>1, <2>4, <3>2
  <2>5. (\E i \in 1..(l - 1) : c[s][i] = b) <=> ((\E i \in 1..l : q[s][i] = b) /\ q[s][1] # b)
    BY <2>3, <2>4
  <2> QED
    BY <2>1, <2>5 DEF l
<1>4. Held(c, b) = Held(q, b) \ Drops(q, from, b)
  <2>1. ASSUME NEW s \in Sinks
        PROVE  s \in Held(c, b) <=> (s \in Held(q, b) /\ s \notin Drops(q, from, b))
    <3>1. CASE s \in from
      BY <1>3, <3>1 DEF Held, Drops
    <3>2. CASE s \notin from
      BY <1>1, <3>2 DEF Held, Drops
    <3> QED
      BY <3>1, <3>2
  <2> QED
    BY <2>1 DEF Held
<1>5. Drops(q, from, b) \subseteq Held(q, b)
  BY <1>2 DEF Drops, Held
<1> QED
  BY <1>4, <1>5 DEF c

\* The references that are left, and the blocks that return to the pool.
Remaining(q, references, from) ==
  [b \in Blocks |-> references[b] - Cardinality(Drops(q, from, b))]

Returned(references, left) == {b \in Blocks : references[b] > 0 /\ left[b] = 0}

LEMMA HeldFinite ==
  ASSUME NEW q, NEW b
  PROVE  /\ IsFiniteSet(Held(q, b)) /\ Cardinality(Held(q, b)) \in Nat
         /\ Cardinality(Held(q, b)) = 0 <=> Held(q, b) = {}
<1>1. Held(q, b) \in SUBSET Sinks /\ IsFiniteSet(Sinks)
  BY Bounds DEF Held
<1>2. IsFiniteSet(Held(q, b))
  BY <1>1, FS_Subset
<1> QED
  BY <1>2, FS_CardinalityType, FS_EmptySet

LEMMA CutCounted ==
  ASSUME NEW q \in Queues, NEW number \in [Blocks -> Nat], NEW last \in Nat,
         Suffixes(q), Numbered(q, number, last),
         NEW from \in SUBSET Sinks, \A s \in from : q[s] # << >>,
         NEW references \in [Blocks -> Nat], NEW free \in SUBSET Blocks,
         Counted(q, references, free)
  PROVE  LET left == Remaining(q, references, from)
         IN  /\ left \in [Blocks -> Nat]
             /\ Counted(Cut(q, from), left, free \cup Returned(references, left))
             /\ \A b \in Returned(references, left) : Held(Cut(q, from), b) = {}
<1> DEFINE left == Remaining(q, references, from)
           c == Cut(q, from)
<1>1. ASSUME NEW b \in Blocks
      PROVE  /\ left[b] \in Nat /\ left[b] = Cardinality(Held(c, b))
             /\ references[b] = 0 => left[b] = 0
  <2>1. /\ Held(c, b) = Held(q, b) \ Drops(q, from, b)
        /\ Drops(q, from, b) \subseteq Held(q, b)
    BY CutHeld
  <2>2. /\ IsFiniteSet(Held(q, b)) /\ Cardinality(Held(q, b)) \in Nat
        /\ Cardinality(Held(q, b)) = 0 <=> Held(q, b) = {}
    BY HeldFinite
  <2>3. Held(q, b) \cap Drops(q, from, b) = Drops(q, from, b)
    BY <2>1
  <2>4. Cardinality(Held(c, b)) = Cardinality(Held(q, b)) - Cardinality(Drops(q, from, b))
    BY <2>1, <2>2, <2>3, FS_Difference
  <2>5. left[b] = references[b] - Cardinality(Drops(q, from, b))
    BY DEF Remaining
  <2>6. references[b] = Cardinality(Held(q, b))
    BY DEF Counted
  <2>7. left[b] = Cardinality(Held(c, b))
    BY <2>4, <2>5, <2>6
  <2>8. references[b] = 0 => Held(c, b) = {}
    BY <2>1, <2>2, <2>6
  <2> QED
    BY <2>7, <2>8, HeldFinite, FS_EmptySet
<1>2. left \in [Blocks -> Nat]
  BY <1>1 DEF Remaining
<1>3. \A b \in Returned(references, left) : Held(c, b) = {}
  BY <1>1, HeldFinite DEF Returned
<1>4. ASSUME NEW b \in Blocks
      PROVE  b \in free \cup Returned(references, left) <=> left[b] = 0
  <2>1. b \in free <=> references[b] = 0
    BY DEF Counted
  <2>2. references[b] \in Nat
    OBVIOUS
  <2>3. references[b] = 0 => left[b] = 0
    BY <1>1
  <2>4. b \in Returned(references, left) <=> (references[b] > 0 /\ left[b] = 0)
    BY DEF Returned
  <2> HIDE DEF left
  <2> QED
    BY <2>1, <2>2, <2>3, <2>4
<1>5. Counted(c, left, free \cup Returned(references, left))
  BY <1>1, <1>4 DEF Counted
<1> QED
  BY <1>2, <1>3, <1>5

-----------------------------------------------------------------------------
(* The router's operations *)

LEMMA Shifts ==
  \A a, b \in Nat : /\ (a + 1) - (b + 1) = a - b
                    /\ \A i \in Int : (a - b) + (i + 1) = (a - (b - 1)) + i
OBVIOUS

\* What MakeRoom and Queued keep between them.
Sorted(r) ==
  /\ r \in Routers /\ ~r.exhausted
  /\ Suffixes(r.queue) /\ Numbered(r.queue, r.sequence, r.last)
  /\ Counted(r.queue, r.references, r.free)

LEMMA RemoveFrontFields ==
  ASSUME NEW r \in Routers, NEW from \in SUBSET Sinks
  PROVE  LET f == Output!RemoveFront(r, from)
             left == Remaining(r.queue, r.references, from)
             back == Returned(r.references, left)
         IN  /\ f.queue = Cut(r.queue, from) /\ f.references = left
             /\ f.free = r.free \cup back
             /\ f.sequence = [b \in Blocks |-> IF b \in back THEN 0 ELSE r.sequence[b]]
             /\ f.last = r.last /\ f.overwritten = r.overwritten
             /\ f.exhausted = r.exhausted /\ f.session = r.session
             /\ (left \in [Blocks -> Nat] /\ Cut(r.queue, from) \in Queues) => f \in Routers
<1> DEFINE left == Remaining(r.queue, r.references, from)
           back == Returned(r.references, left)
           numbers == [b \in Blocks |-> IF b \in back THEN 0 ELSE r.sequence[b]]
           f == [r EXCEPT !.references = left, !.free = @ \cup back,
                          !.sequence = numbers, !.queue = Cut(r.queue, from)]
<1>1. [b \in Blocks |-> r.references[b] - Output!Cardinality(Output!Dropped(r, from, b))]
        = left
  BY SameFiniteSets DEF Remaining, Output!Dropped, Drops
<1>2. {b \in Blocks : Output!Unreferenced(r, left, b)} = back
  BY DEF Output!Unreferenced, Returned
<1>3. Output!RemoveFront(r, from) = f
  BY <1>1, <1>2 DEF Output!RemoveFront, Cut
<1> HIDE DEF left, back, numbers
<1>4. /\ f.queue = Cut(r.queue, from) /\ f.references = left
      /\ f.free = r.free \cup back /\ f.sequence = numbers
      /\ f.last = r.last /\ f.overwritten = r.overwritten
      /\ f.exhausted = r.exhausted /\ f.session = r.session
  BY DEF Routers
<1>5. back \in SUBSET Blocks /\ numbers \in [Blocks -> Nat]
  BY DEF Routers, Returned, back, numbers
<1>6. (left \in [Blocks -> Nat] /\ Cut(r.queue, from) \in Queues) => f \in Routers
  <2> SUFFICES ASSUME left \in [Blocks -> Nat], Cut(r.queue, from) \in Queues
               PROVE  f \in Routers
    OBVIOUS
  <2>1. r.free \cup back \in SUBSET Blocks
    BY <1>5 DEF Routers
  <2> QED
    BY <1>5, <2>1 DEF Routers
<1> QED
  BY <1>3, <1>4, <1>6 DEF left, back, numbers

LEMMA RemoveFrontKeeps ==
  ASSUME NEW r, Sorted(r), NEW from \in SUBSET Sinks, \A s \in from : r.queue[s] # << >>,
         Retained \in from =>
           \A s \in Sinks : Len(r.queue[s]) = Len(r.queue[Retained]) => s \in from
  PROVE  Sorted(Output!RemoveFront(r, from))
<1> DEFINE f == Output!RemoveFront(r, from)
           left == Remaining(r.queue, r.references, from)
           back == Returned(r.references, left)
           c == Cut(r.queue, from)
<1>1. /\ r \in Routers /\ ~r.exhausted /\ r.queue \in Queues /\ r.last \in Nat
      /\ r.sequence \in [Blocks -> Nat] /\ r.references \in [Blocks -> Nat]
      /\ r.free \in SUBSET Blocks /\ r.overwritten \in [Sinks -> SUBSET Nat]
      /\ r.session \in Nat /\ r.exhausted \in BOOLEAN
      /\ Suffixes(r.queue) /\ Numbered(r.queue, r.sequence, r.last)
      /\ Counted(r.queue, r.references, r.free)
  BY DEF Sorted, Routers
<1>2. /\ f.queue = c /\ f.references = left /\ f.free = r.free \cup back
      /\ f.sequence = [b \in Blocks |-> IF b \in back THEN 0 ELSE r.sequence[b]]
      /\ f.last = r.last /\ f.overwritten = r.overwritten
      /\ f.exhausted = r.exhausted /\ f.session = r.session
      /\ (left \in [Blocks -> Nat] /\ c \in Queues) => f \in Routers
  BY <1>1, RemoveFrontFields
<1>3. /\ left \in [Blocks -> Nat] /\ Counted(c, left, r.free \cup back)
      /\ \A b \in back : Held(c, b) = {}
  BY <1>1, CutCounted
<1>4. Suffixes(c)
  BY <1>1, CutSuffixes
<1>5. c \in Queues /\ back \subseteq Blocks
  BY <1>1, CutFacts DEF Returned
<1>6. /\ Retained \in from =>
           /\ Len(c[Retained]) = Len(r.queue[Retained]) - 1
           /\ \A i \in 1..(Len(r.queue[Retained]) - 1) :
                c[Retained][i] = r.queue[Retained][i + 1]
      /\ Retained \notin from => c[Retained] = r.queue[Retained]
      /\ Retained \in from => Len(r.queue[Retained]) > 0
      /\ Len(r.queue[Retained]) \in Nat /\ Retained \in Sinks
  <2>1. Retained \in Sinks
    BY Bounds
  <2>2. /\ Len(r.queue[Retained]) \in Nat
        /\ r.queue[Retained] # << >> <=> Len(r.queue[Retained]) > 0
    BY <1>1, <2>1, QueueFacts
  <2>3. /\ \A s \in from :
             /\ Len(c[s]) = Len(r.queue[s]) - 1
             /\ \A i \in 1..(Len(r.queue[s]) - 1) : c[s][i] = r.queue[s][i + 1]
        /\ \A s \in Sinks \ from : c[s] = r.queue[s]
    BY <1>1, CutFacts
  <2>4. Retained \in from => Len(r.queue[Retained]) > 0
    BY <2>2
  <2> HIDE DEF c
  <2>5. Retained \in from =>
           /\ Len(c[Retained]) = Len(r.queue[Retained]) - 1
           /\ \A i \in 1..(Len(r.queue[Retained]) - 1) :
                c[Retained][i] = r.queue[Retained][i + 1]
    BY <2>3, Zenon
  <2>6. Retained \notin from => c[Retained] = r.queue[Retained]
    BY <2>1, <2>3
  <2> QED
    BY <2>1, <2>2, <2>4, <2>5, <2>6
<1> HIDE DEF f, left, back, c
<1>7. f \in Routers
  BY <1>2, <1>3, <1>5
<1>8. Numbered(c, f.sequence, f.last)
  <2> DEFINE h == r.queue[Retained]
             m == Len(h)
  <2>1. /\ m \in Nat /\ m <= r.last
        /\ \A i \in 1..m : r.sequence[h[i]] = (r.last - m) + i
    BY <1>1, <1>6 DEF Numbered
  <2>2. ASSUME NEW i \in 1..Len(c[Retained])
        PROVE  f.sequence[c[Retained][i]] = r.sequence[c[Retained][i]]
    <3>1. c[Retained][i] \in Blocks
      BY <1>5, <1>6, QueueFacts
    <3>2. Retained \in Held(c, c[Retained][i])
      BY <1>6 DEF Held
    <3> QED
      BY <1>2, <1>3, <3>1, <3>2
  <2>3. CASE Retained \in from
    <3>1. Len(c[Retained]) = m - 1 /\ m > 0
      BY <1>6, <2>3
    <3>2. \A i \in 1..(m - 1) : c[Retained][i] = h[i + 1]
      BY <1>6, <2>3
    <3> HIDE DEF m, h
    <3>3. ASSUME NEW i \in 1..(m - 1)
          PROVE  r.sequence[c[Retained][i]] = (r.last - (m - 1)) + i
      <4>1. i + 1 \in 1..m
        BY <2>1
      <4>2. r.sequence[h[i + 1]] = (r.last - m) + (i + 1)
        BY <2>1, <4>1
      <4>3. (r.last - m) + (i + 1) = (r.last - (m - 1)) + i
        <5>1. r.last \in Nat /\ m \in Nat /\ i \in Int
          BY <1>1, <2>1
        <5> QED
          BY <5>1, Shifts
      <4> QED
        BY <3>2, <4>2, <4>3
    <3>4. m - 1 <= r.last
      BY <1>1, <2>1
    <3> QED
      BY <1>2, <2>2, <3>1, <3>3, <3>4 DEF Numbered
  <2>4. CASE Retained \notin from
    BY <1>2, <1>6, <2>1, <2>2, <2>4 DEF Numbered
  <2> QED
    BY <2>3, <2>4
<1>9. Sorted(f)
  BY <1>1, <1>2, <1>3, <1>4, <1>7, <1>8 DEF Sorted
<1> QED
  BY <1>9 DEF f

\* The number of the newest block that is gone from a sink.
Position(r, s) == r.last - Len(r.queue[s])

LEMMA SortedFacts ==
  ASSUME NEW r, Sorted(r), NEW s \in Sinks
  PROVE  /\ r \in Routers /\ r.queue \in Queues /\ r.last \in Nat /\ r.session \in Nat
         /\ r.queue[s] \in Seq(Blocks) /\ Len(r.queue[s]) \in Nat
         /\ Len(r.queue[s]) <= Capacity[s] /\ Len(r.queue[s]) <= Len(r.queue[Retained])
         /\ Len(r.queue[Retained]) \in Nat /\ Len(r.queue[Retained]) <= r.last
         /\ Position(r, s) \in Nat
         /\ r.queue[s] # << >> <=> Len(r.queue[s]) > 0
<1>1. r \in Routers /\ r.queue \in Queues /\ r.last \in Nat /\ r.session \in Nat
  BY DEF Sorted, Routers
<1>2. /\ r.queue[s] \in Seq(Blocks) /\ Len(r.queue[s]) \in Nat
      /\ Len(r.queue[Retained]) \in Nat
      /\ r.queue[s] # << >> <=> Len(r.queue[s]) > 0
  BY <1>1, QueueFacts, Bounds
<1>3. /\ Len(r.queue[s]) <= Capacity[s] /\ Len(r.queue[s]) <= Len(r.queue[Retained])
      /\ Len(r.queue[Retained]) <= r.last
  BY DEF Sorted, Suffixes, Numbered
<1>4. Position(r, s) \in Nat
  BY <1>1, <1>2, <1>3 DEF Position
<1> QED
  BY <1>1, <1>2, <1>3, <1>4

\* The blocks of a queue are numbered one after the other, up to the last.
LEMMA QueueNumbers ==
  ASSUME NEW r, Sorted(r), NEW s \in Sinks, NEW i \in 1..Len(r.queue[s])
  PROVE  r.sequence[r.queue[s][i]] = Position(r, s) + i
<1> DEFINE l == Len(r.queue[s])
           h == Len(r.queue[Retained])
<1>1. /\ l \in Nat /\ h \in Nat /\ l <= h /\ h <= r.last /\ r.last \in Nat
  BY SortedFacts
<1>2. /\ r.queue[s][i] = r.queue[Retained][i + (h - l)]
      /\ \A j \in 1..h : r.sequence[r.queue[Retained][j]] = (r.last - h) + j
  BY DEF Sorted, Suffixes, Numbered
<1>3. i \in 1..l /\ Position(r, s) = r.last - l
  BY DEF Position
<1> HIDE DEF l, h
<1>4. i + (h - l) \in 1..h /\ (r.last - h) + (i + (h - l)) = (r.last - l) + i
  BY <1>1, <1>3
<1> QED
  BY <1>2, <1>3, <1>4

LEMMA FrontNumber ==
  ASSUME NEW r, Sorted(r), NEW s \in Sinks, r.queue[s] # << >>
  PROVE  Output!Front(r, s) = Position(r, s) + 1
<1>1. 1 \in 1..Len(r.queue[s])
  BY SortedFacts
<1> QED
  BY <1>1, QueueNumbers DEF Output!Front

\* MakeRoom: every sink has room, and the oldest block of a full one is noted as
\* overwritten.
LEMMA MakeRoomFacts ==
  ASSUME NEW r, Sorted(r)
  PROVE  LET m == Output!MakeRoom(r)
         IN  /\ Sorted(m) /\ m.last = r.last /\ m.session = r.session
             /\ \A s \in Sinks :
                  /\ Len(m.queue[s]) < Capacity[s]
                  /\ r.overwritten[s] \subseteq m.overwritten[s]
                  /\ \/ Position(m, s) = Position(r, s)
                     \/ /\ Position(m, s) = Position(r, s) + 1
                        /\ Position(m, s) \in m.overwritten[s]
<1> DEFINE full == Output!FullSinks(r)
           f == Output!RemoveFront(r, full)
           lost == [s \in Sinks |->
                      IF s \in full
                      THEN f.overwritten[s] \cup {r.sequence[r.queue[s][1]]}
                      ELSE f.overwritten[s]]
           m == [f EXCEPT !.overwritten = lost]
<1>1. Output!MakeRoom(r) = m
  BY DEF Output!MakeRoom
<1>2. full \in SUBSET Sinks /\ \A s \in Sinks : s \in full <=> Len(r.queue[s]) = Capacity[s]
  BY DEF Output!FullSinks
<1> HIDE DEF full
<1>3. \A s \in full : r.queue[s] # << >>
  <2> SUFFICES ASSUME NEW s \in full PROVE r.queue[s] # << >>
    OBVIOUS
  <2>1. s \in Sinks /\ Len(r.queue[s]) = Capacity[s] /\ Capacity[s] \in Nat \ {0}
    BY <1>2, Bounds
  <2> QED
    BY <2>1, SortedFacts
<1>4. Retained \in full =>
        \A s \in Sinks : Len(r.queue[s]) = Len(r.queue[Retained]) => s \in full
  <2> SUFFICES ASSUME Retained \in full, NEW s \in Sinks,
                      Len(r.queue[s]) = Len(r.queue[Retained])
               PROVE  s \in full
    OBVIOUS
  <2>1. /\ Len(r.queue[s]) = Capacity[Retained] /\ Capacity[s] <= Capacity[Retained]
        /\ Capacity[s] \in Nat /\ Capacity[Retained] \in Nat
    BY <1>2, Bounds
  <2>2. Len(r.queue[s]) <= Capacity[s]
    BY SortedFacts
  <2> QED
    BY <1>2, <2>1, <2>2
<1>5. Sorted(f)
  BY <1>2, <1>3, <1>4, RemoveFrontKeeps
<1>6. r \in Routers /\ r.queue \in Queues /\ r.last \in Nat
  BY SortedFacts, Bounds
<1>7. /\ f.queue = Cut(r.queue, full) /\ f.last = r.last
      /\ f.overwritten = r.overwritten /\ f.session = r.session
  BY <1>2, <1>6, RemoveFrontFields
<1>8. \A s \in full : r.sequence[r.queue[s][1]] = Position(r, s) + 1
  <2> SUFFICES ASSUME NEW s \in full
               PROVE  r.sequence[r.queue[s][1]] = Position(r, s) + 1
    OBVIOUS
  <2>1. s \in Sinks /\ r.queue[s] # << >>
    BY <1>2, <1>3
  <2> QED
    BY <2>1, FrontNumber DEF Output!Front
<1>9. \A s \in Sinks : Position(r, s) \in Nat
  BY SortedFacts
<1> HIDE DEF f
<1>10. lost \in [Sinks -> SUBSET Nat]
  <2>1. r.overwritten \in [Sinks -> SUBSET Nat]
    BY <1>6 DEF Routers
  <2>2. \A s \in full : Position(r, s) + 1 \in Nat
    BY <1>2, <1>9
  <2> QED
    BY <1>2, <1>7, <1>8, <2>1, <2>2
<1> HIDE DEF lost
<1>11. f \in Routers
  BY <1>5 DEF Sorted
<1>12. /\ m \in Routers /\ m.queue = f.queue /\ m.last = f.last /\ m.session = f.session
       /\ m.overwritten = lost /\ m.sequence = f.sequence /\ m.exhausted = f.exhausted
       /\ m.references = f.references /\ m.free = f.free
  BY <1>10, <1>11 DEF Routers
<1> HIDE DEF m
<1>13. Sorted(m)
  BY <1>5, <1>12 DEF Sorted
<1>14. ASSUME NEW s \in Sinks
       PROVE  /\ Len(m.queue[s]) < Capacity[s]
              /\ r.overwritten[s] \subseteq m.overwritten[s]
              /\ \/ Position(m, s) = Position(r, s)
                 \/ /\ Position(m, s) = Position(r, s) + 1
                    /\ Position(m, s) \in m.overwritten[s]
  <2>1. /\ Len(r.queue[s]) \in Nat /\ Len(r.queue[s]) <= Capacity[s]
        /\ Capacity[s] \in Nat
    BY SortedFacts, Bounds
  <2>2. CASE s \in full
    <3>1. Len(m.queue[s]) = Len(r.queue[s]) - 1
      BY <1>2, <1>3, <1>6, <1>7, <1>12, <2>2, CutFacts
    <3>2. m.overwritten[s] = r.overwritten[s] \cup {Position(r, s) + 1}
      BY <1>7, <1>8, <1>12, <2>2 DEF lost
    <3>3. Position(m, s) = Position(r, s) + 1
      BY <1>6, <1>7, <1>12, <2>1, <3>1 DEF Position
    <3> QED
      BY <2>1, <3>1, <3>2, <3>3
  <2>3. CASE s \notin full
    <3>1. m.queue[s] = r.queue[s]
      BY <1>2, <1>3, <1>6, <1>7, <1>12, <2>3, CutFacts
    <3>2. m.overwritten[s] = r.overwritten[s]
      BY <1>7, <1>12, <2>3 DEF lost
    <3>3. Position(m, s) = Position(r, s)
      BY <1>7, <1>12, <3>1 DEF Position
    <3>4. Len(m.queue[s]) < Capacity[s]
      BY <1>2, <2>1, <2>3, <3>1
    <3> QED
      BY <3>2, <3>3, <3>4
  <2> QED
    BY <2>2, <2>3
<1> QED
  BY <1>1, <1>7, <1>12, <1>13, <1>14

\* The pool holds the history, so a history with room leaves a block free.
LEMMA PoolSuffices ==
  ASSUME NEW r, Sorted(r), Len(r.queue[Retained]) < Capacity[Retained]
  PROVE  r.free # {}
<1> DEFINE h == r.queue[Retained]
           m == Len(h)
<1>1. /\ h \in Seq(Blocks) /\ m \in Nat /\ DOMAIN h = 1..m /\ h \in [1..m -> Blocks]
  BY SortedFacts, Bounds, LenProperties
<1>2. SUFFICES ASSUME r.free = {} PROVE FALSE
  OBVIOUS
<1>3. ASSUME NEW b \in Blocks
      PROVE  \E i \in 1..m : h[i] = b
  <2>1. r.references[b] = Cardinality(Held(r.queue, b)) /\ r.references[b] # 0
    BY <1>2 DEF Sorted, Counted
  <2>0. Held(r.queue, b) # {}
    BY <2>1, HeldFinite
  <2>2. PICK s \in Sinks : \E i \in 1..Len(r.queue[s]) : r.queue[s][i] = b
    BY <2>0 DEF Held
  <2>3. PICK i \in 1..Len(r.queue[s]) : r.queue[s][i] = b
    BY <2>2
  <2>4. r.queue[s][i] = h[i + (m - Len(r.queue[s]))]
    BY DEF Sorted, Suffixes
  <2>5. Len(r.queue[s]) \in Nat /\ Len(r.queue[s]) <= m
    BY SortedFacts
  <2>6. i + (m - Len(r.queue[s])) \in 1..m
    <3> DEFINE l == Len(r.queue[s])
    <3>1. l \in Nat /\ m \in Nat /\ l <= m /\ i \in 1..l
      BY <1>1, <2>5
    <3> HIDE DEF l, m
    <3>2. i + (m - l) \in 1..m
      BY <3>1
    <3> QED
      BY <3>2 DEF l
  <2> QED
    BY <2>3, <2>4, <2>6
<1>4. h \in Surjection(1..m, Blocks)
  BY <1>1, <1>3 DEF Surjection
<1>5. IsFiniteSet(1..m) /\ Cardinality(1..m) = m
  BY <1>1, FS_Interval
<1>6. Cardinality(Blocks) <= m
  BY <1>4, <1>5, FS_Surjection
<1>7. m < Capacity[Retained] /\ Capacity[Retained] <= Cardinality(Blocks)
      /\ Capacity[Retained] \in Nat /\ Cardinality(Blocks) \in Nat
  BY Bounds, FS_CardinalityType
<1> QED
  BY <1>1, <1>6, <1>7

\* A free block at the end of every queue.
LEMMA QueuedFacts ==
  ASSUME NEW r, Sorted(r), \A s \in Sinks : Len(r.queue[s]) < Capacity[s], NEW b \in r.free
  PROVE  LET t == Output!Queued(r, b)
         IN  /\ Sorted(t) /\ t.last = r.last + 1 /\ t.session = r.session
             /\ t.overwritten = r.overwritten /\ Len(t.queue[Retained]) > 0
             /\ \A s \in Sinks : Position(t, s) = Position(r, s)
<1> DEFINE q == [s \in Sinks |-> Append(r.queue[s], b)]
           free == r.free \ {b}
           number == [r.sequence EXCEPT ![b] = r.last + 1]
           count == [r.references EXCEPT ![b] = Cardinality(Sinks)]
           newest == r.last + 1
           t == [r EXCEPT !.free = free, !.sequence = number, !.references = count,
                          !.queue = q, !.last = newest]
<1>1. /\ r \in Routers /\ r.queue \in Queues /\ r.last \in Nat
      /\ r.sequence \in [Blocks -> Nat] /\ r.references \in [Blocks -> Nat]
      /\ r.free \in SUBSET Blocks /\ ~r.exhausted /\ b \in Blocks
      /\ Suffixes(r.queue) /\ Numbered(r.queue, r.sequence, r.last)
      /\ Counted(r.queue, r.references, r.free)
  BY DEF Sorted, Routers
<1>2. Output!Queued(r, b) = t
  BY <1>1, SameFiniteSets DEF Output!Queued, Routers
<1>3. Held(r.queue, b) = {}
  BY <1>1, HeldFinite DEF Counted
<1>4. \A s \in Sinks : \A i \in 1..Len(r.queue[s]) : r.queue[s][i] # b
  BY <1>3 DEF Held
<1>5. \A s \in Sinks :
        /\ q[s] \in Seq(Blocks) /\ Len(q[s]) = Len(r.queue[s]) + 1
        /\ \A i \in 1..Len(r.queue[s]) : q[s][i] = r.queue[s][i]
        /\ q[s][Len(r.queue[s]) + 1] = b
  <2> SUFFICES ASSUME NEW s \in Sinks
               PROVE  /\ q[s] \in Seq(Blocks) /\ Len(q[s]) = Len(r.queue[s]) + 1
                      /\ \A i \in 1..Len(r.queue[s]) : q[s][i] = r.queue[s][i]
                      /\ q[s][Len(r.queue[s]) + 1] = b
    OBVIOUS
  <2>1. r.queue[s] \in Seq(Blocks) /\ q[s] = Append(r.queue[s], b)
    BY <1>1, QueueFacts
  <2> QED
    BY <1>1, <2>1, AppendProperties
<1>6. q \in Queues
  BY <1>5 DEF Queues
<1>7. /\ free \in SUBSET Blocks /\ newest \in Nat /\ number \in [Blocks -> Nat]
      /\ count \in [Blocks -> Nat]
  BY <1>1, Bounds, FS_CardinalityType
<1>8. \A s \in Sinks : Len(r.queue[s]) \in Nat /\ Capacity[s] \in Nat
  BY <1>1, QueueFacts, Bounds
<1>9. Suffixes(q)
  <2> SUFFICES ASSUME NEW s \in Sinks
               PROVE  /\ Len(q[s]) <= Capacity[s] /\ Len(q[s]) <= Len(q[Retained])
                      /\ \A i \in 1..Len(q[s]) :
                           q[s][i] = q[Retained][i + (Len(q[Retained]) - Len(q[s]))]
    BY DEF Suffixes
  <2> DEFINE l == Len(r.queue[s])
             h == Len(r.queue[Retained])
  <2>1. /\ l \in Nat /\ h \in Nat /\ l <= h /\ l < Capacity[s] /\ Capacity[s] \in Nat
        /\ \A i \in 1..l : r.queue[s][i] = r.queue[Retained][i + (h - l)]
    BY <1>1, <1>8, Bounds DEF Suffixes
  <2>2. /\ Len(q[s]) = l + 1 /\ Len(q[Retained]) = h + 1
        /\ q[s][l + 1] = b /\ q[Retained][h + 1] = b
        /\ \A i \in 1..l : q[s][i] = r.queue[s][i]
        /\ \A i \in 1..h : q[Retained][i] = r.queue[Retained][i]
    BY <1>5, Bounds
  <2> HIDE DEF l, h, q
  <2>3. ASSUME NEW i \in 1..(l + 1)
        PROVE  q[s][i] = q[Retained][i + ((h + 1) - (l + 1))]
    <3>1. CASE i = l + 1
      <4>1. i + ((h + 1) - (l + 1)) = h + 1
        BY <2>1, <3>1
      <4> QED
        BY <2>2, <3>1, <4>1
    <3>2. CASE i # l + 1
      <4>1. i \in 1..l /\ i + (h - l) \in 1..h /\ i + ((h + 1) - (l + 1)) = i + (h - l)
        BY <2>1, <3>2
      <4> QED
        BY <2>1, <2>2, <4>1
    <3> QED
      BY <3>1, <3>2
  <2>4. l + 1 <= Capacity[s] /\ l + 1 <= h + 1
    BY <2>1
  <2> QED
    BY <2>2, <2>3, <2>4
<1>10. Numbered(q, number, newest)
  <2> DEFINE h == Len(r.queue[Retained])
  <2>1. /\ h \in Nat /\ h <= r.last /\ r.last \in Nat
        /\ \A i \in 1..h : /\ r.sequence[r.queue[Retained][i]] = (r.last - h) + i
                           /\ r.queue[Retained][i] \in Blocks /\ r.queue[Retained][i] # b
    BY <1>1, <1>4, <1>8, Bounds, QueueFacts DEF Numbered
  <2>2. /\ Len(q[Retained]) = h + 1 /\ q[Retained][h + 1] = b
        /\ \A i \in 1..h : q[Retained][i] = r.queue[Retained][i]
    BY <1>5, Bounds
  <2>3. /\ number[b] = r.last + 1
        /\ \A c \in Blocks : c # b => number[c] = r.sequence[c]
    BY <1>1
  <2> HIDE DEF h, q, number
  <2>4. ASSUME NEW i \in 1..(h + 1)
        PROVE  number[q[Retained][i]] = ((r.last + 1) - (h + 1)) + i
    <3>1. CASE i = h + 1
      <4>1. ((r.last + 1) - (h + 1)) + i = r.last + 1
        BY <2>1, <3>1
      <4> QED
        BY <2>2, <2>3, <3>1, <4>1
    <3>2. CASE i # h + 1
      <4>1. i \in 1..h /\ ((r.last + 1) - (h + 1)) + i = (r.last - h) + i
        BY <2>1, <3>2
      <4>2. number[q[Retained][i]] = r.sequence[r.queue[Retained][i]]
        BY <2>1, <2>2, <2>3, <4>1
      <4> QED
        BY <2>1, <4>1, <4>2
    <3> QED
      BY <3>1, <3>2
  <2>5. h + 1 <= r.last + 1
    BY <2>1
  <2> QED
    BY <2>2, <2>4, <2>5 DEF Numbered
<1>11. Counted(q, count, free)
  <2>1. Held(q, b) = Sinks
    <3>1. ASSUME NEW s \in Sinks PROVE \E i \in 1..Len(q[s]) : q[s][i] = b
      <4> DEFINE l == Len(r.queue[s])
      <4>1. l \in Nat /\ Len(q[s]) = l + 1 /\ q[s][l + 1] = b
        BY <1>5, <1>8
      <4> HIDE DEF l, q
      <4>2. l + 1 \in 1..Len(q[s])
        BY <4>1
      <4> QED
        BY <4>1, <4>2
    <3> QED
      BY <3>1 DEF Held
  <2>2. ASSUME NEW c \in Blocks, c # b PROVE Held(q, c) = Held(r.queue, c)
    <3>1. ASSUME NEW s \in Sinks
          PROVE  (\E i \in 1..Len(q[s]) : q[s][i] = c)
                    <=> (\E i \in 1..Len(r.queue[s]) : r.queue[s][i] = c)
      <4> DEFINE l == Len(r.queue[s])
      <4>1. /\ l \in Nat /\ Len(q[s]) = l + 1 /\ q[s][l + 1] = b
            /\ \A i \in 1..l : q[s][i] = r.queue[s][i]
        BY <1>5, <1>8
      <4> HIDE DEF l, q
      <4>2. \A i \in 1..(l + 1) : i \in 1..l \/ i = l + 1
        BY <4>1
      <4>3. \A i \in 1..l : i \in 1..(l + 1)
        BY <4>1
      <4>4. (\E i \in 1..(l + 1) : q[s][i] = c) <=> (\E i \in 1..l : r.queue[s][i] = c)
        BY <2>2, <4>1, <4>2, <4>3
      <4> QED
        BY <4>1, <4>4 DEF l
    <3> QED
      BY <3>1 DEF Held
  <2>3. Cardinality(Sinks) \in Nat /\ Cardinality(Sinks) # 0
    BY Bounds, FS_CardinalityType, FS_EmptySet
  <2> SUFFICES ASSUME NEW c \in Blocks
               PROVE  /\ count[c] = Cardinality(Held(q, c))
                      /\ c \in free <=> count[c] = 0
    BY DEF Counted
  <2>4. CASE c = b
    BY <1>1, <2>1, <2>3, <2>4
  <2>5. CASE c # b
    <3>1. count[c] = r.references[c] /\ (c \in free <=> c \in r.free)
      BY <1>1, <2>5
    <3>2. r.references[c] = Cardinality(Held(r.queue, c)) /\ (c \in r.free <=> r.references[c] = 0)
      BY <1>1 DEF Counted
    <3> QED
      BY <2>2, <2>5, <3>1, <3>2
  <2> QED
    BY <2>4, <2>5
<1> HIDE DEF q, free, number, count
<1>12. /\ t \in Routers /\ t.queue = q /\ t.free = free /\ t.sequence = number
       /\ t.references = count /\ t.last = newest /\ t.session = r.session
       /\ t.overwritten = r.overwritten /\ t.exhausted = r.exhausted
  <2> HIDE DEF newest
  <2> QED
    BY <1>1, <1>6, <1>7 DEF Routers
<1> HIDE DEF t
<1>13. Sorted(t)
  BY <1>1, <1>9, <1>10, <1>11, <1>12 DEF Sorted
<1>14. \A s \in Sinks : Position(t, s) = Position(r, s)
  <2> SUFFICES ASSUME NEW s \in Sinks PROVE Position(t, s) = Position(r, s)
    OBVIOUS
  <2> DEFINE l == Len(r.queue[s])
  <2>1. l \in Nat /\ r.last \in Nat /\ Len(t.queue[s]) = l + 1 /\ t.last = r.last + 1
    BY <1>1, <1>5, <1>8, <1>12
  <2>2. Position(t, s) = (r.last + 1) - (l + 1) /\ Position(r, s) = r.last - l
    BY <2>1 DEF Position
  <2> HIDE DEF l
  <2>3. (r.last + 1) - (l + 1) = r.last - l
    BY <2>1, Shifts
  <2> QED
    BY <2>2, <2>3
<1>15. Len(t.queue[Retained]) > 0
  <2> DEFINE h == Len(r.queue[Retained])
  <2>1. h \in Nat /\ Len(t.queue[Retained]) = h + 1
    BY <1>5, <1>8, <1>12, Bounds
  <2> HIDE DEF h
  <2> QED
    BY <2>1
<1> QED
  BY <1>2, <1>12, <1>13, <1>14, <1>15

\* submit: no sink is moved but by a block it is told was overwritten.
SinkMoved(r, t, s) ==
  /\ r.overwritten[s] \subseteq t.overwritten[s]
  /\ \/ Position(t, s) = Position(r, s)
     \/ Position(t, s) = Position(r, s) + 1 /\ Position(t, s) \in t.overwritten[s]

LEMMA SubmittedFacts ==
  ASSUME NEW r, RouterInv(r)
  PROVE  LET t == Output!Submitted(r)
         IN  /\ RouterInv(t) /\ t.last = r.last + 1 /\ t.session = r.session
             /\ \A s \in Sinks : SinkMoved(r, t, s)
<1> DEFINE m == Output!MakeRoom(r)
           b == CHOOSE b \in m.free : TRUE
           t == Output!Queued(m, b)
<1>1. Sorted(r) /\ Remembered(r.queue, r.overwritten, r.last)
  BY DEF RouterInv, Sorted
<1>2. /\ Sorted(m) /\ m.last = r.last /\ m.session = r.session
      /\ \A s \in Sinks :
           /\ Len(m.queue[s]) < Capacity[s]
           /\ r.overwritten[s] \subseteq m.overwritten[s]
           /\ \/ Position(m, s) = Position(r, s)
              \/ /\ Position(m, s) = Position(r, s) + 1
                 /\ Position(m, s) \in m.overwritten[s]
  BY <1>1, MakeRoomFacts
<1> HIDE DEF m
<1>3. m.free # {}
  BY <1>2, Bounds, PoolSuffices
<1>4. b \in m.free
  BY <1>3
<1>5. Output!Submitted(r) = t
  BY <1>3 DEF Output!Submitted, m
<1> HIDE DEF b
<1>6. /\ Sorted(t) /\ t.last = m.last + 1 /\ t.session = m.session
      /\ t.overwritten = m.overwritten /\ Len(t.queue[Retained]) > 0
      /\ \A s \in Sinks : Position(t, s) = Position(m, s)
  BY <1>2, <1>4, QueuedFacts
<1> HIDE DEF t
<1>7. \A s \in Sinks : SinkMoved(r, t, s)
  BY <1>2, <1>6 DEF SinkMoved
<1>8. Remembered(t.queue, t.overwritten, t.last)
  <2>1. SinkMoved(r, t, Retained) /\ Position(r, Retained) \in Nat
    BY <1>1, <1>7, Bounds, SortedFacts
  <2>2. \A n \in 1..Position(r, Retained) : n \in r.overwritten[Retained]
    BY <1>1 DEF Remembered, Position
  <2>3. ASSUME NEW n \in 1..Position(t, Retained)
        PROVE  n \in t.overwritten[Retained]
    <3>1. CASE n \in 1..Position(r, Retained)
      BY <2>1, <2>2, <3>1 DEF SinkMoved
    <3>2. CASE n \notin 1..Position(r, Retained)
      <4>1. Position(t, Retained) = Position(r, Retained) + 1
            /\ Position(t, Retained) \in t.overwritten[Retained]
        BY <2>1, <3>2 DEF SinkMoved
      <4>2. n = Position(r, Retained) + 1
        BY <2>1, <2>3, <3>2, <4>1
      <4> QED
        BY <4>1, <4>2
    <3> QED
      BY <3>1, <3>2
  <2> QED
    BY <1>6, <2>3 DEF Remembered, Position
<1>9. RouterInv(t)
  BY <1>6, <1>8 DEF RouterInv, Sorted
<1> QED
  BY <1>2, <1>5, <1>6, <1>7, <1>9

\* A reader takes the block that follows the newest gone from its sink.
LEMMA TakenFacts ==
  ASSUME NEW r, RouterInv(r), NEW s \in Sinks \ {Retained}, r.queue[s] # << >>
  PROVE  LET t == Output!Taken(r, s)
         IN  /\ RouterInv(t) /\ t.last = r.last /\ t.session = r.session
             /\ t.overwritten = r.overwritten
             /\ Position(t, s) = Position(r, s) + 1 /\ Position(t, s) <= r.last
             /\ \A z \in Sinks \ {s} : Position(t, z) = Position(r, z)
             /\ Output!Front(r, s) = Position(t, s)
<1> DEFINE t == Output!RemoveFront(r, {s})
<1>1. Sorted(r) /\ Remembered(r.queue, r.overwritten, r.last) /\ r \in Routers
      /\ r.queue \in Queues /\ {s} \in SUBSET Sinks
  BY DEF RouterInv, Sorted, Routers
<1>2. Sorted(t)
  BY <1>1, RemoveFrontKeeps
<1>3. /\ t.queue = Cut(r.queue, {s}) /\ t.last = r.last
      /\ t.overwritten = r.overwritten /\ t.session = r.session
  BY <1>1, RemoveFrontFields
<1> HIDE DEF t
<1>4. /\ Len(t.queue[s]) = Len(r.queue[s]) - 1
      /\ \A z \in Sinks \ {s} : t.queue[z] = r.queue[z]
  BY <1>1, <1>3, CutFacts
<1>5. Remembered(t.queue, t.overwritten, t.last)
  <2>1. t.queue[Retained] = r.queue[Retained]
    BY <1>4, Bounds
  <2> QED
    BY <1>1, <1>3, <2>1 DEF Remembered
<1>6. RouterInv(t)
  BY <1>2, <1>5 DEF RouterInv, Sorted
<1>7. Position(t, s) = Position(r, s) + 1 /\ Position(t, s) <= r.last
  <2> DEFINE l == Len(r.queue[s])
  <2>1. l \in Nat /\ r.last \in Nat /\ l > 0
    BY <1>1, SortedFacts
  <2>2. Position(t, s) = r.last - (l - 1) /\ Position(r, s) = r.last - l
    BY <1>3, <1>4 DEF Position
  <2> HIDE DEF l
  <2>3. r.last - (l - 1) = (r.last - l) + 1 /\ r.last - (l - 1) <= r.last
    BY <2>1
  <2> QED
    BY <2>2, <2>3
<1>8. \A z \in Sinks \ {s} : Position(t, z) = Position(r, z)
  BY <1>3, <1>4 DEF Position
<1>9. Output!Front(r, s) = Position(t, s)
  BY <1>1, <1>7, FrontNumber
<1> QED
  BY <1>3, <1>6, <1>7, <1>8, <1>9 DEF Output!Taken, t

LEMMA FreshRouter ==
  ASSUME NEW n \in Nat
  PROVE  LET r == Output!NewRouter(n)
         IN  /\ RouterInv(r) /\ r.last = 0 /\ r.session = n
             /\ \A s \in Sinks : Position(r, s) = 0
<1> DEFINE r == Output!NewRouter(n)
           z == [b \in Blocks |-> 0]
           q == [s \in Sinks |-> << >>]
<1>1. /\ r.session = n /\ r.free = Blocks /\ r.sequence = z /\ r.references = z
      /\ r.queue = q /\ r.overwritten = [s \in Sinks |-> {}] /\ r.last = 0
      /\ r.exhausted = FALSE
  BY DEF Output!NewRouter
<1>2. z \in [Blocks -> Nat] /\ [s \in Sinks |-> {}] \in [Sinks -> SUBSET Nat]
  OBVIOUS
<1>3. q \in Queues
  BY DEF Queues
<1>4. r \in Routers
  BY <1>2, <1>3 DEF Output!NewRouter, Routers
<1>5. \A s \in Sinks : q[s] = << >> /\ Len(q[s]) = 0
  OBVIOUS
<1> HIDE DEF r, q
<1>6. Suffixes(q)
  <2>1. \A s \in Sinks : Capacity[s] \in Nat
    BY Bounds
  <2>2. \A s \in Sinks : /\ Len(q[s]) <= Capacity[s] /\ Len(q[s]) <= Len(q[Retained])
                         /\ 1..Len(q[s]) = {}
    BY <1>5, <2>1, Bounds
  <2> QED
    BY <2>2 DEF Suffixes
<1>7. Numbered(q, z, 0)
  BY <1>5, Bounds DEF Numbered
<1>8. Counted(q, z, Blocks)
  <2>1. \A b \in Blocks : Held(q, b) = {}
    BY <1>5 DEF Held
  <2> QED
    BY <2>1, HeldFinite DEF Counted
<1>9. Remembered(q, r.overwritten, 0)
  BY <1>5, Bounds DEF Remembered
<1>10. RouterInv(r)
  BY <1>1, <1>4, <1>6, <1>7, <1>8, <1>9 DEF RouterInv
<1>11. \A s \in Sinks : Position(r, s) = 0
  BY <1>1, <1>5 DEF Position
<1> QED
  BY <1>1, <1>10, <1>11 DEF r

LEMMA OldestOfInterval ==
  ASSUME NEW a \in Nat, NEW b \in Nat, a <= b
  PROVE  Output!Oldest(a..b) = a
<1>1. a \in a..b /\ \A n \in a..b : a <= n
  OBVIOUS
<1>2. \A n \in a..b : (\A k \in a..b : n <= k) => n = a
  BY <1>1
<1> QED
  BY <1>1, <1>2 DEF Output!Oldest

\* The history continues where the cursor stands, but for what it overwrote.
LEMMA CopyAfterFacts ==
  ASSUME NEW r, RouterInv(r), NEW after \in 0..r.last
  PROVE  LET c == Output!CopyAfter(r, after)
         IN  /\ c \in 0..r.last
             /\ c = 0 => after = r.last
             /\ c # 0 => /\ c > after
                         /\ \A n \in (after + 1)..(c - 1) : n \in r.overwritten[Retained]
<1> DEFINE held == Output!Sequences(r, Retained)
           p == Position(r, Retained)
           newer == {n \in held : n > after}
           c == Output!CopyAfter(r, after)
<1>1. Sorted(r) /\ Remembered(r.queue, r.overwritten, r.last) /\ Retained \in Sinks
  BY Bounds DEF RouterInv, Sorted
<1>2. /\ r.last \in Nat /\ p \in Nat /\ p <= r.last /\ after \in Nat /\ after <= r.last
      /\ p = r.last => r.last = 0
      /\ \A n \in 1..p : n \in r.overwritten[Retained]
      /\ p + Len(r.queue[Retained]) = r.last /\ Len(r.queue[Retained]) \in Nat
  <2> DEFINE h == Len(r.queue[Retained])
  <2>1. r.last \in Nat /\ h \in Nat /\ h <= r.last /\ (h = 0 => r.last = 0)
    BY <1>1, SortedFacts DEF Remembered
  <2>2. p = r.last - h /\ \A n \in 1..p : n \in r.overwritten[Retained]
    BY <1>1 DEF Position, Remembered
  <2> HIDE DEF p, h
  <2>3. /\ p \in Nat /\ p <= r.last /\ after \in Nat /\ after <= r.last
        /\ p = r.last => r.last = 0
        /\ p + h = r.last
    BY <2>1, <2>2
  <2> QED
    BY <2>1, <2>2, <2>3 DEF h
<1>3. held = (p + 1)..r.last
  <2> DEFINE h == Len(r.queue[Retained])
  <2>1. DOMAIN r.queue[Retained] = 1..h
    BY <1>1, SortedFacts, QueueFacts
  <2>2. \A i \in 1..h : r.sequence[r.queue[Retained][i]] = p + i
    BY <1>1, QueueNumbers
  <2>3. held = {p + i : i \in 1..h}
    BY <2>1, <2>2 DEF Output!Sequences
  <2>4. h \in Nat /\ p \in Nat /\ r.last = p + h
    BY <1>2
  <2> HIDE DEF h, p, held
  <2>5. {p + i : i \in 1..h} = (p + 1)..(p + h)
    <3>1. \A n \in (p + 1)..(p + h) : n - p \in 1..h /\ n = p + (n - p)
      BY <2>4
    <3>2. \A i \in 1..h : p + i \in (p + 1)..(p + h)
      BY <2>4
    <3> QED
      BY <3>1, <3>2
  <2> QED
    BY <2>3, <2>4, <2>5
<1>4. c = IF held = {} \/ (after \in held /\ newer = {}) THEN 0
          ELSE Output!Oldest(IF after \in held THEN newer ELSE held)
  BY DEF Output!CopyAfter
<1> HIDE DEF held, p, c
<1>5. CASE held = {}
  <2>1. p = r.last
    BY <1>2, <1>3, <1>5
  <2>2. c = 0 /\ after = r.last /\ 0 \in 0..r.last
    BY <1>2, <1>4, <1>5, <2>1
  <2> QED
    BY <2>2 DEF c
<1>6. CASE held # {} /\ after \in held
  <2>1. newer = (after + 1)..r.last /\ after \in (p + 1)..r.last
    BY <1>2, <1>3, <1>6
  <2> HIDE DEF newer
  <2>2. CASE after = r.last
    <3>1. newer = {}
      BY <1>2, <2>1, <2>2
    <3>2. c = 0 /\ 0 \in 0..r.last
      BY <1>2, <1>4, <1>6, <3>1
    <3> QED
      BY <2>2, <3>2 DEF c
  <2>3. CASE after # r.last
    <3>1. after + 1 \in Nat /\ after + 1 <= r.last /\ newer # {}
      BY <1>2, <2>1, <2>3
    <3>2. c = after + 1
      BY <1>2, <1>4, <1>6, <2>1, <3>1, OldestOfInterval
    <3>3. c \in 0..r.last /\ c # 0 /\ c > after /\ (after + 1)..(c - 1) = {}
      BY <1>2, <3>1, <3>2
    <3> QED
      BY <3>3 DEF c
  <2> QED
    BY <2>2, <2>3
<1>7. CASE held # {} /\ after \notin held
  <2>1. p + 1 \in Nat /\ p + 1 <= r.last /\ after <= p
    BY <1>2, <1>3, <1>7
  <2>2. c = p + 1
    BY <1>2, <1>3, <1>4, <1>7, <2>1, OldestOfInterval
  <2>3. c \in 0..r.last /\ c # 0 /\ c > after
        /\ \A n \in (after + 1)..(c - 1) : n \in 1..p
    BY <1>2, <2>1, <2>2
  <2> QED
    BY <1>2, <2>3 DEF c
<1> QED
  BY <1>5, <1>6, <1>7

-----------------------------------------------------------------------------
(* The data path *)

Builders ==
  [pc : {"idle", "prepare", "drivers", "create", "entered", "stop", "join", "remove",
         "abort", "abort_join", "abort_remove"},
   entering : BOOLEAN, installed : BOOLEAN]

Paths == [stop : BOOLEAN, start : BOOLEAN, uart : BOOLEAN, usb : BOOLEAN]

Workers == [Output!Tasks -> {"none", "created", "running", "stopped"}]

Inputs == [free : Nat, filled : Nat, hand : {0, 1}]

Bridges == [block : Nat, writes : Nat, out : Nat]

Streams == [online : BOOLEAN, announced : Nat, ready : BOOLEAN, active : BOOLEAN,
            replayed : Nat, cursor : Nat]

Marks == [session : Nat, sequence : Nat]

OutputTyped ==
  /\ builder \in Builders /\ live \in Nat /\ entered \in Nat
  /\ path \in Paths /\ task \in Workers /\ ingress \in Inputs /\ usb \in Bridges
  /\ stream \in Streams /\ sent \in Marks

NoTask == \A t \in Output!Tasks : task[t] = "none"

\* What is there while the owner builds a path and takes it down.
OutputPhases ==
  /\ router = Output!NoRouter => NoTask
  /\ builder.pc \in {"drivers", "create", "abort", "abort_join", "abort_remove", "entered"}
       => router # Output!NoRouter
  /\ builder.pc \in {"remove", "abort_remove"} => NoTask
  /\ (builder.pc = "idle" /\ ~builder.installed) => NoTask

RouterKept ==
  router # Output!NoRouter =>
    /\ RouterInv(router) /\ router.session > 0
    /\ ingress.free + ingress.filled + ingress.hand = Ingress

\* The router's session has been entered, is about to be, or has no output yet.
SessionKept ==
  /\ live <= entered
  /\ router # Output!NoRouter =>
       /\ router.session <= entered + 1
       /\ (router.session = entered + 1 /\ builder.pc # "entered") =>
            /\ router.last = 0 /\ ~path.start
            /\ \A t \in Output!Tasks : task[t] # "running"

\* What was sent was there to be sent.
SentKept ==
  /\ sent.session <= entered + 1
  /\ sent.session = entered + 1 => builder.pc = "entered"
  /\ sent.session = 0 => sent.sequence = 0
  /\ stream.active => sent.session = stream.replayed /\ sent.sequence = stream.cursor
  /\ (router # Output!NoRouter /\ sent.session = router.session)
       => sent.sequence <= router.last

\* Between the last block sent and the next in the link's sink everything was
\* overwritten in it, once the replay has ended.
LiveFollows ==
  (/\ router # Output!NoRouter /\ stream.ready /\ ~stream.active
   /\ stream.announced = sent.session /\ sent.session = router.session)
  => \A n \in (sent.sequence + 1)..Position(router, "wss") : n \in router.overwritten["wss"]

\* The same over USB, for the block being written and the one to follow it.
UsbAt == IF usb.block # 0 THEN usb.block ELSE usb.out

UsbFollows ==
  /\ router # Output!NoRouter =>
       /\ UsbAt <= Position(router, "usb")
       /\ \A n \in (UsbAt + 1)..Position(router, "usb") : n \in router.overwritten["usb"]
       /\ usb.block # 0 =>
            \A n \in (usb.out + 1)..(usb.block - 1) : n \in router.overwritten["usb"]

OutputInv ==
  /\ OutputTyped /\ OutputPhases /\ RouterKept /\ SessionKept /\ SentKept
  /\ LiveFollows /\ UsbFollows

LEMMA RouterFacts ==
  ASSUME OutputInv, router # Output!NoRouter
  PROVE  /\ RouterInv(router) /\ Sorted(router) /\ router \in Routers
         /\ router.last \in Nat /\ router.session \in Nat /\ router.session > 0
         /\ router.overwritten \in [Sinks -> SUBSET Nat]
         /\ Position(router, "usb") \in Nat /\ Position(router, "wss") \in Nat
         /\ ingress.free + ingress.filled + ingress.hand = Ingress
<1>1. /\ RouterInv(router) /\ router.session > 0
      /\ ingress.free + ingress.filled + ingress.hand = Ingress
  BY DEF OutputInv, RouterKept
<1>2. Sorted(router) /\ router \in Routers
  BY <1>1 DEF RouterInv, Sorted
<1>3. /\ router.last \in Nat /\ router.session \in Nat
      /\ Position(router, "usb") \in Nat /\ Position(router, "wss") \in Nat
  BY <1>2, SortedFacts, Bounds
<1>4. router.overwritten \in [Sinks -> SUBSET Nat]
  BY <1>2 DEF Routers
<1> QED
  BY <1>1, <1>2, <1>3, <1>4

\* What a reader of a sink takes.
LEMMA TakeFacts ==
  ASSUME OutputInv, router # Output!NoRouter, NEW s \in {"usb", "wss"},
         ~Output!IsEmpty(router, s)
  PROVE  LET t == Output!Taken(router, s)
             b == Output!Front(router, s)
         IN  /\ RouterInv(t) /\ t.last = router.last /\ t.session = router.session
             /\ t.overwritten = router.overwritten
             /\ b \in Nat /\ b # 0 /\ b = Position(router, s) + 1 /\ b = Position(t, s)
             /\ b <= router.last /\ router.last # 0
             /\ \A z \in {"usb", "wss"} \ {s} : Position(t, z) = Position(router, z)
<1> DEFINE t == Output!Taken(router, s)
           b == Output!Front(router, s)
<1>1. s \in Sinks \ {Retained} /\ router.queue[s] # << >>
  BY Bounds DEF Output!IsEmpty
<1>2. /\ RouterInv(t) /\ t.last = router.last /\ t.session = router.session
      /\ t.overwritten = router.overwritten
      /\ Position(t, s) = Position(router, s) + 1 /\ Position(t, s) <= router.last
      /\ \A z \in Sinks \ {s} : Position(t, z) = Position(router, z)
      /\ b = Position(t, s)
  BY <1>1, RouterFacts, TakenFacts
<1>3. Position(router, s) \in Nat /\ router.last \in Nat
  BY RouterFacts
<1> HIDE DEF t, b
<1>4. b \in Nat /\ b # 0 /\ b <= router.last /\ router.last # 0
  BY <1>2, <1>3
<1>5. \A z \in {"usb", "wss"} \ {s} : Position(t, z) = Position(router, z)
  BY <1>2, Bounds
<1> QED
  BY <1>2, <1>4, <1>5 DEF t, b

\* What a replay sends next.
LEMMA ReplayFacts ==
  ASSUME OutputInv, router # Output!NoRouter, stream.active,
         router.session = stream.replayed
  PROVE  LET c == Output!CopyAfter(router, stream.cursor)
         IN  /\ c \in Nat /\ c <= router.last
             /\ c = 0 => stream.cursor = router.last
             /\ c # 0 => /\ c > stream.cursor /\ router.last # 0
                         /\ \A n \in (stream.cursor + 1)..(c - 1) :
                              n \in router.overwritten[Retained]
<1> DEFINE c == Output!CopyAfter(router, stream.cursor)
<1>1. stream.cursor \in Nat /\ stream.cursor <= router.last /\ router.last \in Nat
  BY RouterFacts DEF OutputInv, OutputTyped, SentKept, Streams
<1>2. stream.cursor \in 0..router.last
  BY <1>1
<1>3. /\ c \in 0..router.last
      /\ c = 0 => stream.cursor = router.last
      /\ c # 0 => /\ c > stream.cursor
                  /\ \A n \in (stream.cursor + 1)..(c - 1) : n \in router.overwritten[Retained]
  BY <1>2, RouterFacts, CopyAfterFacts
<1> HIDE DEF c
<1>4. c \in Nat /\ c <= router.last /\ (c # 0 => router.last # 0)
  <2>1. c \in 0..router.last /\ router.last \in Nat
    BY <1>1, <1>3
  <2> QED
    BY <2>1
<1> QED
  BY <1>3, <1>4 DEF c

LEMMA OutputConstants ==
  /\ Output!NoPath \in Paths /\ Output!NoTasks \in Workers
  /\ Output!NoIngress \in Inputs /\ [Output!NoIngress EXCEPT !.free = Ingress] \in Inputs
  /\ Output!NoUsb \in Bridges /\ Output!Offline \in Streams
  /\ Output!NothingSent \in Marks /\ Output!Tasks = {"rx", "router", "usb_out", "usb_in"}
  /\ ~Output!NoPath.start /\ ~Output!Offline.active /\ ~Output!Offline.ready
BY Bounds DEF Output!NoPath, Paths, Output!NoTasks, Workers, Output!NoIngress, Inputs,
              Output!NoUsb, Bridges, Output!Offline, Streams, Output!NothingSent, Marks,
              Output!Tasks

LEMMA BuilderFacts ==
  ASSUME builder \in Builders
  PROVE  /\ \A pc : Output!Goes(pc) => /\ builder'.pc = pc
                                       /\ builder'.installed = builder.installed
                                       /\ builder'.entering = builder.entering
         /\ Output!Fall => builder' \in Builders /\ builder'.pc = "stop"
         /\ \A u \in BOOLEAN : Output!Left(u) =>
              /\ builder' \in Builders /\ live' = 0
              /\ builder'.pc \in {"prepare", "idle"} /\ builder'.installed = ~u
<1>1. \A pc : Output!Goes(pc) => /\ builder'.pc = pc
                                 /\ builder'.installed = builder.installed
                                 /\ builder'.entering = builder.entering
  BY DEF Output!Goes, Builders
<1>2. Output!Fall => builder' \in Builders /\ builder'.pc = "stop"
  BY DEF Output!Fall, Builders
<1>3. ASSUME NEW u \in BOOLEAN, Output!Left(u)
      PROVE  /\ builder' \in Builders /\ live' = 0
             /\ builder'.pc \in {"prepare", "idle"} /\ builder'.installed = ~u
  <2> DEFINE p == IF u /\ builder.entering THEN "prepare" ELSE "idle"
             e == builder.entering /\ u
             i == ~u
  <2>1. builder' = [builder EXCEPT !.pc = p, !.entering = e, !.installed = i] /\ live' = 0
    BY <1>3 DEF Output!Left
  <2>2. p \in {"prepare", "idle"}
    OBVIOUS
  <2>3. e \in BOOLEAN
    OBVIOUS
  <2>4. i \in BOOLEAN
    OBVIOUS
  <2> HIDE DEF p, e, i
  <2>5. builder' \in Builders /\ builder'.pc = p /\ builder'.installed = i
    BY <2>1, <2>2, <2>3, <2>4 DEF Builders
  <2> QED
    BY <2>1, <2>2, <2>5 DEF i
<1> QED
  BY <1>1, <1>2, <1>3

LEMMA OutputTypedInit == Output!Init => OutputTyped
<1>1. Output!Init => builder \in Builders
  BY DEF Output!Init, Builders
<1> QED
  BY <1>1, OutputConstants DEF Output!Init, OutputTyped

LEMMA OutputTypedStep ==
  ASSUME OutputInv, Output!Next
  PROVE  OutputTyped'
<1>0. OutputTyped
  BY DEF OutputInv
<1> USE <1>0 DEF OutputTyped, Output!KeepPath, Output!KeepOwner, Output!KeepDeck
<1>1. CASE Output!Enter
  BY <1>1 DEF Output!Enter, Builders
<1>2. CASE Output!Prepare
  <2>1. \/ Output!Goes("drivers") /\ ingress' = [Output!NoIngress EXCEPT !.free = Ingress]
           /\ path' = Output!NoPath /\ usb' = Output!NoUsb
        \/ Output!Fall /\ UNCHANGED <<ingress, path, usb>>
    BY <1>2 DEF Output!Prepare
  <2>2. UNCHANGED <<live, entered, task, stream, sent>>
    BY <1>2 DEF Output!Prepare
  <2>3. builder' \in Builders
    BY <2>1, BuilderFacts DEF Output!Goes, Builders
  <2> QED
    BY <2>1, <2>2, <2>3, OutputConstants
<1>3. CASE Output!InstallDrivers
  <2>1. builder' \in Builders
    BY <1>3 DEF Output!InstallDrivers, Output!Goes, Builders
  <2>2. path' \in Paths
    BY <1>3 DEF Output!InstallDrivers, Paths
  <2> QED
    BY <1>3, <2>1, <2>2 DEF Output!InstallDrivers
<1>4. CASE Output!CreateTask
  <2>1. builder' \in Builders
    BY <1>4 DEF Output!CreateTask, Output!Goes, Builders
  <2>2. task' \in Workers
    BY <1>4 DEF Output!CreateTask, Workers
  <2> QED
    BY <1>4, <2>1, <2>2 DEF Output!CreateTask
<1>5. CASE Output!Start
  <2>1. builder' \in Builders
    BY <1>5 DEF Output!Start, Output!Goes, Builders
  <2>2. path' \in Paths
    BY <1>5 DEF Output!Start, Paths
  <2> QED
    BY <1>5, <2>1, <2>2 DEF Output!Start
<1>6. CASE Output!PublishEntered
  BY <1>6 DEF Output!PublishEntered, Builders
<1>7. CASE Output!Exit
  BY <1>7 DEF Output!Exit, Output!Goes, Builders
<1>8. CASE Output!RequestStop
  <2>1. builder' \in Builders
    BY <1>8 DEF Output!RequestStop, Output!Goes, Builders
  <2>2. path' \in Paths
    BY <1>8 DEF Output!RequestStop, Paths
  <2> QED
    BY <1>8, <2>1, <2>2 DEF Output!RequestStop
<1>9. CASE Output!Join
  <2>1. \/ task' = Output!NoTasks /\ Output!Goes("remove") /\ UNCHANGED live
        \/ Output!Left(FALSE) /\ UNCHANGED task
    BY <1>9 DEF Output!Join
  <2>2. CASE Output!Goes("remove") /\ UNCHANGED live /\ task' = Output!NoTasks
    <3>1. builder' \in Builders
      BY <2>2 DEF Output!Goes, Builders
    <3> QED
      BY <1>9, <2>2, <3>1, OutputConstants DEF Output!Join
  <2>3. CASE Output!Left(FALSE) /\ UNCHANGED task
    <3>1. builder' \in Builders /\ live' = 0
      BY <2>3, BuilderFacts
    <3> QED
      BY <1>9, <2>3, <3>1 DEF Output!Join
  <2> QED
    BY <2>1, <2>2, <2>3
<1>10. CASE Output!AbortJoin
  <2>1. builder' \in Builders
    BY <1>10 DEF Output!AbortJoin, Output!Goes, Builders
  <2> QED
    BY <1>10, <2>1, OutputConstants DEF Output!AbortJoin
<1>11. CASE Output!Remove
  <2>1. Output!Released \/ (UNCHANGED <<ingress, usb>> /\ path' \in Paths)
    BY <1>11 DEF Output!Remove, Output!DriverStays, Paths
  <2>2. Output!Left(TRUE) \/ Output!Left(FALSE)
    BY <1>11 DEF Output!Remove
  <2>3. UNCHANGED <<entered, task, stream, sent>>
    BY <1>11 DEF Output!Remove
  <2>4. live' = 0 /\ builder' \in Builders
    <3>1. TRUE \in BOOLEAN /\ FALSE \in BOOLEAN
      OBVIOUS
    <3>2. \A u \in BOOLEAN : Output!Left(u) => builder' \in Builders /\ live' = 0
      BY BuilderFacts
    <3> QED
      BY <2>2, <3>1, <3>2
  <2> QED
    BY <2>1, <2>3, <2>4, OutputConstants DEF Output!Released
<1>12. CASE Output!AbortRemove
  <2>1. Output!Released \/ (UNCHANGED <<ingress, usb>> /\ path' \in Paths)
    BY <1>12 DEF Output!AbortRemove, Output!DriverStays, Paths
  <2>2. Output!Fall /\ UNCHANGED <<live, entered, task, stream, sent>>
    BY <1>12 DEF Output!AbortRemove
  <2> QED
    BY <2>1, <2>2, BuilderFacts, OutputConstants DEF Output!Released
<1>13. ASSUME NEW t \in Output!Tasks, Output!TaskStarts(t) \/ Output!TaskStops(t)
       PROVE  OutputTyped'
  BY <1>13 DEF Output!TaskStarts, Output!TaskStops, Workers
<1> DEFINE fewer == ingress.free - 1
           more == ingress.free + 1
           filled == ingress.filled + 1
           drained == ingress.filled - 1
<1>i. /\ ingress.free \in Nat /\ ingress.filled \in Nat /\ more \in Nat /\ filled \in Nat
      /\ ingress.free > 0 => fewer \in Nat
      /\ ingress.filled > 0 => drained \in Nat
  BY DEF Inputs
<1> HIDE DEF fewer, more, filled, drained
<1>14. CASE Output!Receive
  <2>1. ingress' = [ingress EXCEPT !.free = fewer, !.filled = filled] /\ ingress.free > 0
    BY <1>14 DEF Output!Receive, fewer, filled
  <2>2. ingress' \in Inputs
    BY <1>i, <2>1 DEF Inputs
  <2> QED
    BY <1>14, <2>2 DEF Output!Receive
<1>15. CASE Output!TakeFilled
  <2>1. ingress' = [ingress EXCEPT !.filled = drained, !.hand = 1] /\ ingress.filled > 0
    BY <1>15 DEF Output!TakeFilled, drained
  <2>2. ingress' \in Inputs
    BY <1>i, <2>1 DEF Inputs
  <2> QED
    BY <1>15, <2>2 DEF Output!TakeFilled
<1>16. CASE Output!Submit
  <2>1. ingress' = [ingress EXCEPT !.hand = 0, !.free = more]
    BY <1>16 DEF Output!Submit, Output!ReturnInputBlock, more
  <2>2. ingress' \in Inputs
    BY <1>i, <2>1 DEF Inputs
  <2> QED
    BY <1>16, <2>2 DEF Output!Submit
<1>17. CASE Output!UsbTake
  <2>1. Output!Front(router, "usb") \in Nat
    BY <1>17, TakeFacts DEF Output!UsbTake, Output!Available
  <2> QED
    BY <1>17, <2>1 DEF Output!UsbTake, Bridges
<1>18. CASE Output!UsbWrite
  BY <1>18 DEF Output!UsbWrite, Bridges
<1>19. CASE Output!Connect
  BY <1>19 DEF Output!Connect, Output!Announced, Output!Offline, Streams
<1>20. CASE Output!Close
  BY <1>20, OutputConstants DEF Output!Close
<1>21. CASE Output!Announce
  BY <1>21 DEF Output!Announce, Output!Announced, Output!Offline, Output!NothingSent,
               Streams, Marks
<1>22. CASE Output!HistoryRequest
  <2>1. PICK after \in 0..(IF sent.session = live THEN sent.sequence ELSE 0) :
          /\ stream' = [stream EXCEPT !.ready = TRUE, !.active = TRUE,
                                      !.replayed = live, !.cursor = after]
          /\ sent' = [session |-> live, sequence |-> after]
    BY <1>22 DEF Output!HistoryRequest
  <2>2. after \in Nat
    OBVIOUS
  <2> QED
    BY <1>22, <2>1, <2>2 DEF Output!HistoryRequest, Streams, Marks
<1>23. CASE Output!ReplayDone
  BY <1>23 DEF Output!ReplayDone, Streams
<1>24. CASE Output!Replay
  <2>1. Output!CopyAfter(router, stream.cursor) \in Nat /\ router.session \in Nat
    BY <1>24, ReplayFacts, RouterFacts DEF Output!Replay, Output!Available
  <2> QED
    BY <1>24, <2>1 DEF Output!Replay, Output!Send, Streams, Marks
<1>25. CASE Output!TakeLive
  <2>1. Output!Front(router, "wss") \in Nat /\ router.session \in Nat
    BY <1>25, TakeFacts, RouterFacts DEF Output!TakeLive, Output!Available
  <2>2. /\ stream' = stream \/ stream' = Output!Offline
        /\ sent' = sent \/ Output!Send(Output!Front(router, "wss"))
        /\ Output!KeepOwner /\ UNCHANGED <<task, ingress, usb>>
    BY <1>25 DEF Output!TakeLive
  <2>3. sent' \in Marks
    BY <2>1, <2>2 DEF Output!Send, Marks
  <2> QED
    BY <2>2, <2>3, OutputConstants
<1> QED
  BY <1>1, <1>2, <1>3, <1>4, <1>5, <1>6, <1>7, <1>8, <1>9, <1>10, <1>11, <1>12, <1>13, <1>14,
     <1>15, <1>16, <1>17, <1>18, <1>19, <1>20, <1>21, <1>22, <1>23, <1>24, <1>25
  DEF Output!Next, Output!Owner, Output!Task, Output!Link

\* Steps grouped by what they leave alone.
OwnerOnly ==
  \/ Output!Enter \/ Output!InstallDrivers \/ Output!CreateTask \/ Output!Start
  \/ Output!PublishEntered \/ Output!Exit \/ Output!RequestStop \/ Output!Join
  \/ Output!AbortJoin

TaskTurn == \E t \in Output!Tasks : Output!TaskStarts(t) \/ Output!TaskStops(t)

InputOnly == Output!Receive \/ Output!TakeFilled

LinkOnly ==
  \/ Output!Connect \/ Output!Close \/ Output!Announce \/ Output!HistoryRequest
  \/ Output!ReplayDone \/ Output!Replay

LEMMA OutputFrames ==
  /\ OwnerOnly => UNCHANGED <<router, ingress, usb, stream, sent>>
  /\ TaskTurn => UNCHANGED <<builder, live, entered, path, router, ingress, usb, stream, sent>>
  /\ InputOnly => UNCHANGED <<builder, live, entered, path, task, router, usb, stream, sent>>
  /\ LinkOnly => UNCHANGED <<builder, live, entered, path, task, router, ingress, usb>>
  /\ Output!UsbWrite =>
       UNCHANGED <<builder, live, entered, path, task, router, ingress, stream, sent>>
<1> USE DEF Output!KeepPath, Output!KeepOwner, Output!KeepDeck
<1>1. OwnerOnly => UNCHANGED <<router, ingress, usb, stream, sent>>
  BY DEF OwnerOnly, Output!Enter, Output!InstallDrivers, Output!CreateTask, Output!Start,
         Output!PublishEntered, Output!Exit, Output!RequestStop, Output!Join, Output!AbortJoin
<1>2. TaskTurn =>
        UNCHANGED <<builder, live, entered, path, router, ingress, usb, stream, sent>>
  BY DEF TaskTurn, Output!TaskStarts, Output!TaskStops
<1>3. InputOnly =>
        UNCHANGED <<builder, live, entered, path, task, router, usb, stream, sent>>
  BY DEF InputOnly, Output!Receive, Output!TakeFilled
<1>4. LinkOnly => UNCHANGED <<builder, live, entered, path, task, router, ingress, usb>>
  BY DEF LinkOnly, Output!Connect, Output!Close, Output!Announce, Output!HistoryRequest,
         Output!ReplayDone, Output!Replay
<1>5. Output!UsbWrite =>
        UNCHANGED <<builder, live, entered, path, task, router, ingress, stream, sent>>
  BY DEF Output!UsbWrite
<1> QED
  BY <1>1, <1>2, <1>3, <1>4, <1>5

LEMMA OutputSteps ==
  Output!Next <=>
    \/ OwnerOnly \/ TaskTurn \/ InputOnly \/ LinkOnly
    \/ Output!Prepare \/ Output!Remove \/ Output!AbortRemove
    \/ Output!Submit \/ Output!UsbTake \/ Output!UsbWrite \/ Output!TakeLive
BY DEF Output!Next, Output!Owner, Output!Task, Output!Link, OwnerOnly, TaskTurn, InputOnly,
       LinkOnly

\* What the steps that change the router make of it.
LEMMA RouterSteps ==
  ASSUME OutputInv
  PROVE  /\ Output!Prepare =>
              \/ /\ router = Output!NoRouter /\ NoTask
                 /\ RouterInv(router') /\ router'.session = entered + 1 /\ router'.last = 0
                 /\ router' # Output!NoRouter
                 /\ Position(router', "usb") = 0 /\ Position(router', "wss") = 0
                 /\ ingress' = [Output!NoIngress EXCEPT !.free = Ingress]
                 /\ path' = Output!NoPath /\ usb' = Output!NoUsb /\ builder'.pc = "drivers"
              \/ /\ builder'.pc = "stop" /\ UNCHANGED <<router, ingress, path, usb>>
         /\ Output!Submit =>
              /\ router # Output!NoRouter /\ router' # Output!NoRouter
              /\ RouterInv(router') /\ router'.last = router.last + 1
              /\ router'.session = router.session
              /\ SinkMoved(router, router', "usb") /\ SinkMoved(router, router', "wss")
         /\ (Output!UsbTake \/ Output!TakeLive) =>
              /\ router # Output!NoRouter /\ router' # Output!NoRouter
              /\ RouterInv(router') /\ router'.last = router.last
              /\ router'.session = router.session /\ router'.overwritten = router.overwritten
              /\ router.last # 0
         /\ Output!UsbTake => /\ Position(router', "usb") = Position(router, "usb") + 1
                              /\ Position(router', "wss") = Position(router, "wss")
                              /\ Output!Front(router, "usb") = Position(router', "usb")
         /\ Output!TakeLive => /\ Position(router', "wss") = Position(router, "wss") + 1
                               /\ Position(router', "usb") = Position(router, "usb")
                               /\ Output!Front(router, "wss") = Position(router', "wss")
                               /\ Position(router', "wss") <= router.last
<1>0. OutputTyped /\ OutputPhases
  BY DEF OutputInv
<1>n. \A r : (r.session > 0 => r # Output!NoRouter)
  BY DEF Output!NoRouter
<1>1. ASSUME Output!Prepare
      PROVE  \/ /\ router = Output!NoRouter /\ NoTask
                /\ RouterInv(router') /\ router'.session = entered + 1 /\ router'.last = 0
                /\ router' # Output!NoRouter
                /\ Position(router', "usb") = 0 /\ Position(router', "wss") = 0
                /\ ingress' = [Output!NoIngress EXCEPT !.free = Ingress]
                /\ path' = Output!NoPath /\ usb' = Output!NoUsb /\ builder'.pc = "drivers"
             \/ /\ builder'.pc = "stop" /\ UNCHANGED <<router, ingress, path, usb>>
  <2>1. \/ /\ router = Output!NoRouter /\ router' = Output!NewRouter(entered + 1)
           /\ ingress' = [Output!NoIngress EXCEPT !.free = Ingress]
           /\ path' = Output!NoPath /\ usb' = Output!NoUsb
           /\ Output!Goes("drivers")
        \/ Output!Fall /\ UNCHANGED <<router, ingress, path, usb>>
    BY <1>1 DEF Output!Prepare
  <2>2. entered + 1 \in Nat /\ entered + 1 > 0 /\ builder \in Builders
    BY <1>0 DEF OutputTyped
  <2>3. CASE /\ router = Output!NoRouter /\ router' = Output!NewRouter(entered + 1)
             /\ ingress' = [Output!NoIngress EXCEPT !.free = Ingress]
             /\ path' = Output!NoPath /\ usb' = Output!NoUsb
             /\ Output!Goes("drivers")
    <3>1. /\ RouterInv(router') /\ router'.session = entered + 1 /\ router'.last = 0
          /\ Position(router', "usb") = 0 /\ Position(router', "wss") = 0
      BY <2>2, <2>3, FreshRouter, Bounds
    <3>2. router' # Output!NoRouter
      BY <1>n, <2>2, <3>1
    <3>3. builder'.pc = "drivers" /\ NoTask
      BY <1>0, <2>2, <2>3, BuilderFacts DEF OutputPhases
    <3> QED
      BY <2>3, <3>1, <3>2, <3>3
  <2>4. CASE Output!Fall /\ UNCHANGED <<router, ingress, path, usb>>
    BY <2>2, <2>4, BuilderFacts
  <2> QED
    BY <2>1, <2>3, <2>4
<1>2. ASSUME Output!Submit
      PROVE  /\ router # Output!NoRouter /\ router' # Output!NoRouter
             /\ RouterInv(router') /\ router'.last = router.last + 1
             /\ router'.session = router.session
             /\ SinkMoved(router, router', "usb") /\ SinkMoved(router, router', "wss")
  <2>1. task["router"] = "running" /\ router' = Output!Submitted(router)
    BY <1>2 DEF Output!Submit
  <2>2. router # Output!NoRouter
    BY <1>0, <2>1, OutputConstants DEF OutputPhases, NoTask
  <2>3. /\ RouterInv(router') /\ router'.last = router.last + 1
        /\ router'.session = router.session
        /\ SinkMoved(router, router', "usb") /\ SinkMoved(router, router', "wss")
    BY <2>1, <2>2, RouterFacts, SubmittedFacts, Bounds
  <2> QED
    BY <1>n, <2>2, <2>3, RouterFacts
<1>3. ASSUME Output!UsbTake
      PROVE  /\ router # Output!NoRouter /\ router' # Output!NoRouter
             /\ RouterInv(router') /\ router'.last = router.last
             /\ router'.session = router.session /\ router'.overwritten = router.overwritten
             /\ router.last # 0
             /\ Position(router', "usb") = Position(router, "usb") + 1
             /\ Position(router', "wss") = Position(router, "wss")
             /\ Output!Front(router, "usb") = Position(router', "usb")
  <2>1. /\ router # Output!NoRouter /\ ~Output!IsEmpty(router, "usb")
        /\ router' = Output!Taken(router, "usb")
    BY <1>3 DEF Output!UsbTake, Output!Available
  <2>2. /\ RouterInv(router') /\ router'.last = router.last
        /\ router'.session = router.session /\ router'.overwritten = router.overwritten
        /\ router.last # 0
        /\ Position(router', "usb") = Position(router, "usb") + 1
        /\ Position(router', "wss") = Position(router, "wss")
        /\ Output!Front(router, "usb") = Position(router', "usb")
    BY <2>1, TakeFacts
  <2> QED
    BY <1>n, <2>1, <2>2, RouterFacts
<1>4. ASSUME Output!TakeLive
      PROVE  /\ router # Output!NoRouter /\ router' # Output!NoRouter
             /\ RouterInv(router') /\ router'.last = router.last
             /\ router'.session = router.session /\ router'.overwritten = router.overwritten
             /\ router.last # 0
             /\ Position(router', "wss") = Position(router, "wss") + 1
             /\ Position(router', "usb") = Position(router, "usb")
             /\ Output!Front(router, "wss") = Position(router', "wss")
             /\ Position(router', "wss") <= router.last
  <2>1. /\ router # Output!NoRouter /\ ~Output!IsEmpty(router, "wss")
        /\ router' = Output!Taken(router, "wss")
    BY <1>4 DEF Output!TakeLive, Output!Available
  <2>2. /\ RouterInv(router') /\ router'.last = router.last
        /\ router'.session = router.session /\ router'.overwritten = router.overwritten
        /\ router.last # 0
        /\ Position(router', "wss") = Position(router, "wss") + 1
        /\ Position(router', "usb") = Position(router, "usb")
        /\ Output!Front(router, "wss") = Position(router', "wss")
        /\ Position(router', "wss") <= router.last
    BY <2>1, TakeFacts
  <2> QED
    BY <1>n, <2>1, <2>2, RouterFacts
<1> QED
  BY <1>1, <1>2, <1>3, <1>4

LEMMA RouterKeptStep ==
  ASSUME OutputInv, Output!Next
  PROVE  RouterKept'
<1>0. RouterKept /\ OutputTyped
  BY DEF OutputInv
<1>1. CASE OwnerOnly \/ TaskTurn \/ LinkOnly \/ Output!UsbWrite
  <2>1. UNCHANGED <<router, ingress>>
    BY <1>1, OutputFrames
  <2> QED
    BY <1>0, <2>1 DEF RouterKept
<1>i. /\ ingress.free \in Nat /\ ingress.filled \in Nat /\ ingress.hand \in Nat
  BY <1>0 DEF OutputTyped, Inputs
<1>2. CASE InputOnly
  <2>1. UNCHANGED router
    BY <1>2, OutputFrames
  <2>2. \/ /\ ingress'.free = ingress.free - 1 /\ ingress'.filled = ingress.filled + 1
           /\ ingress'.hand = ingress.hand
        \/ /\ ingress'.free = ingress.free /\ ingress'.filled = ingress.filled - 1
           /\ ingress'.hand = 1 /\ ingress.hand = 0
    BY <1>0, <1>2 DEF InputOnly, Output!Receive, Output!TakeFilled, OutputTyped, Inputs
  <2>3. ingress'.free + ingress'.filled + ingress'.hand
          = ingress.free + ingress.filled + ingress.hand
    BY <1>i, <2>2
  <2> QED
    BY <1>0, <2>1, <2>3 DEF RouterKept
<1>3. CASE Output!Prepare
  <2>1. CASE UNCHANGED <<router, ingress>>
    BY <1>0, <2>1 DEF RouterKept
  <2>2. CASE ~UNCHANGED <<router, ingress>>
    <3>1. /\ RouterInv(router') /\ router'.session = entered + 1
          /\ ingress' = [Output!NoIngress EXCEPT !.free = Ingress]
      BY <1>3, <2>2, RouterSteps
    <3>2. ingress'.free = Ingress /\ ingress'.filled = 0 /\ ingress'.hand = 0
      BY <3>1 DEF Output!NoIngress
    <3>3. Ingress \in Nat /\ entered \in Nat
      BY <1>0, Bounds DEF OutputTyped
    <3> QED
      BY <3>1, <3>2, <3>3 DEF RouterKept
  <2> QED
    BY <2>1, <2>2
<1>4. CASE Output!Remove \/ Output!AbortRemove
  <2>1. router' = Output!NoRouter \/ UNCHANGED <<router, ingress>>
    BY <1>4 DEF Output!Remove, Output!AbortRemove, Output!Released
  <2> QED
    BY <1>0, <2>1 DEF RouterKept
<1>5. CASE Output!Submit
  <2>1. /\ RouterInv(router') /\ router'.session = router.session
        /\ router # Output!NoRouter
    BY <1>5, RouterSteps
  <2>2. ingress' = [ingress EXCEPT !.hand = 0, !.free = ingress.free + 1] /\ ingress.hand = 1
    BY <1>5 DEF Output!Submit, Output!ReturnInputBlock
  <2>3. /\ ingress'.free = ingress.free + 1 /\ ingress'.filled = ingress.filled
        /\ ingress'.hand = 0
    BY <1>0, <2>2 DEF OutputTyped, Inputs
  <2>4. ingress'.free + ingress'.filled + ingress'.hand
          = ingress.free + ingress.filled + ingress.hand
    BY <1>i, <2>2, <2>3
  <2> QED
    BY <2>1, <2>4, RouterFacts DEF RouterKept
<1>6. CASE Output!UsbTake \/ Output!TakeLive
  <2>1. /\ RouterInv(router') /\ router'.session = router.session
        /\ router # Output!NoRouter
    BY <1>6, RouterSteps
  <2>2. UNCHANGED ingress
    BY <1>6 DEF Output!UsbTake, Output!TakeLive
  <2> QED
    BY <2>1, <2>2, RouterFacts DEF RouterKept
<1> QED
  BY <1>1, <1>2, <1>3, <1>4, <1>5, <1>6, OutputSteps

\* Where each step of the owner leads.
LEMMA OwnerSteps ==
  ASSUME OutputInv
  PROVE  /\ Output!Enter => /\ builder'.pc \in {"stop", "prepare"}
                            /\ UNCHANGED <<live, entered, path, task>>
         /\ Output!InstallDrivers => /\ builder.pc = "drivers"
                                     /\ builder'.pc \in {"create", "abort"}
                                     /\ path'.start = path.start
                                     /\ UNCHANGED <<live, entered, task>>
         /\ Output!CreateTask => /\ builder.pc = "create" /\ builder'.pc \in {"create", "abort"}
                                 /\ \A t \in Output!Tasks :
                                      task'[t] = "created" \/ task'[t] = task[t]
                                 /\ UNCHANGED <<live, entered, path>>
         /\ Output!Start => /\ builder.pc = "create"
                            /\ \/ builder'.pc = "entered"
                               \/ builder'.pc = "abort" /\ UNCHANGED path
                            /\ UNCHANGED <<live, entered, task>>
         /\ Output!PublishEntered => /\ builder.pc = "entered"
                                     /\ builder'.pc = "idle" /\ builder'.installed
                                     /\ entered' = entered + 1 /\ live' = entered + 1
                                     /\ UNCHANGED <<path, task>>
         /\ Output!Exit => /\ builder.pc = "idle" /\ builder'.pc = "stop"
                           /\ UNCHANGED <<live, entered, path, task>>
         /\ Output!RequestStop => /\ \/ builder.pc = "stop" /\ builder'.pc = "join"
                                     \/ builder.pc = "abort" /\ builder'.pc = "abort_join"
                                  /\ path'.start = path.start
                                  /\ UNCHANGED <<live, entered, task>>
         /\ Output!Join => /\ builder.pc = "join"
                           /\ \/ /\ builder'.pc = "remove" /\ task' = Output!NoTasks
                                 /\ UNCHANGED live
                              \/ /\ builder'.pc \in {"prepare", "idle"} /\ builder'.installed
                                 /\ live' = 0 /\ UNCHANGED task
                           /\ UNCHANGED <<entered, path>>
         /\ Output!AbortJoin => /\ builder.pc = "abort_join" /\ builder'.pc = "abort_remove"
                                /\ task' = Output!NoTasks /\ UNCHANGED <<live, entered, path>>
         /\ Output!Remove => /\ builder.pc = "remove" /\ builder'.pc \in {"prepare", "idle"}
                             /\ live' = 0 /\ UNCHANGED <<entered, task, stream, sent>>
                             /\ \/ Output!Released
                                \/ path'.start = path.start /\ UNCHANGED <<router, usb>>
         /\ Output!AbortRemove => /\ builder.pc = "abort_remove" /\ builder'.pc = "stop"
                                  /\ UNCHANGED <<live, entered, task, stream, sent>>
                                  /\ \/ Output!Released
                                     \/ path'.start = path.start /\ UNCHANGED <<router, usb>>
<1>0. OutputTyped /\ builder \in Builders /\ path \in Paths /\ task \in Workers
  BY DEF OutputInv, OutputTyped
<1>g. /\ \A pc : Output!Goes(pc) => builder'.pc = pc
      /\ Output!Fall => builder'.pc = "stop"
  BY <1>0, BuilderFacts
<1>l. /\ Output!Left(TRUE) => live' = 0 /\ builder'.pc \in {"prepare", "idle"}
      /\ Output!Left(FALSE) => /\ live' = 0 /\ builder'.pc \in {"prepare", "idle"}
                               /\ builder'.installed
  <2>1. \A u \in BOOLEAN : Output!Left(u) => /\ live' = 0 /\ builder'.pc \in {"prepare", "idle"}
                                             /\ builder'.installed = ~u
    BY <1>0, BuilderFacts
  <2>2. TRUE \in BOOLEAN /\ FALSE \in BOOLEAN
    OBVIOUS
  <2> QED
    BY <2>1, <2>2
<1> USE DEF Output!KeepPath
<1>1. Output!Enter => /\ builder'.pc \in {"stop", "prepare"}
                      /\ UNCHANGED <<live, entered, path, task>>
  BY <1>0 DEF Output!Enter, Builders
<1>2. Output!InstallDrivers => /\ builder.pc = "drivers"
                               /\ builder'.pc \in {"create", "abort"}
                               /\ path'.start = path.start
                               /\ UNCHANGED <<live, entered, task>>
  BY <1>0, <1>g DEF Output!InstallDrivers, Paths
<1>3. Output!CreateTask => /\ builder.pc = "create" /\ builder'.pc \in {"create", "abort"}
                           /\ \A t \in Output!Tasks :
                                task'[t] = "created" \/ task'[t] = task[t]
                           /\ UNCHANGED <<live, entered, path>>
  BY <1>0, <1>g DEF Output!CreateTask, Workers
<1>4. Output!Start => /\ builder.pc = "create"
                      /\ \/ builder'.pc = "entered"
                         \/ builder'.pc = "abort" /\ UNCHANGED path
                      /\ UNCHANGED <<live, entered, task>>
  BY <1>g DEF Output!Start
<1>5. Output!PublishEntered => /\ builder.pc = "entered"
                               /\ builder'.pc = "idle" /\ builder'.installed
                               /\ entered' = entered + 1 /\ live' = entered + 1
                               /\ UNCHANGED <<path, task>>
  BY DEF Output!PublishEntered
<1>6. Output!Exit => /\ builder.pc = "idle" /\ builder'.pc = "stop"
                     /\ UNCHANGED <<live, entered, path, task>>
  BY <1>g DEF Output!Exit
<1>7. Output!RequestStop => /\ \/ builder.pc = "stop" /\ builder'.pc = "join"
                               \/ builder.pc = "abort" /\ builder'.pc = "abort_join"
                            /\ path'.start = path.start
                            /\ UNCHANGED <<live, entered, task>>
  BY <1>0, <1>g DEF Output!RequestStop, Paths
<1>8. Output!Join => /\ builder.pc = "join"
                     /\ \/ /\ builder'.pc = "remove" /\ task' = Output!NoTasks
                           /\ UNCHANGED live
                        \/ /\ builder'.pc \in {"prepare", "idle"} /\ builder'.installed
                           /\ live' = 0 /\ UNCHANGED task
                     /\ UNCHANGED <<entered, path>>
  BY <1>g, <1>l DEF Output!Join
<1>9. Output!AbortJoin => /\ builder.pc = "abort_join" /\ builder'.pc = "abort_remove"
                          /\ task' = Output!NoTasks /\ UNCHANGED <<live, entered, path>>
  BY <1>g DEF Output!AbortJoin
<1>10. Output!Remove => /\ builder.pc = "remove" /\ builder'.pc \in {"prepare", "idle"}
                        /\ live' = 0 /\ UNCHANGED <<entered, task, stream, sent>>
                        /\ \/ Output!Released
                           \/ path'.start = path.start /\ UNCHANGED <<router, usb>>
  BY <1>0, <1>l DEF Output!Remove, Output!DriverStays, Paths
<1>11. Output!AbortRemove => /\ builder.pc = "abort_remove" /\ builder'.pc = "stop"
                             /\ UNCHANGED <<live, entered, task, stream, sent>>
                             /\ \/ Output!Released
                                \/ path'.start = path.start /\ UNCHANGED <<router, usb>>
  BY <1>0, <1>g DEF Output!AbortRemove, Output!DriverStays, Paths
<1> QED
  BY <1>1, <1>2, <1>3, <1>4, <1>5, <1>6, <1>7, <1>8, <1>9, <1>10, <1>11

LEMMA OutputPhasesStep ==
  ASSUME OutputInv, Output!Next
  PROVE  OutputPhases'
<1>0. OutputPhases /\ OutputTyped
  BY DEF OutputInv
<1>n. task' = Output!NoTasks => NoTask'
  BY DEF Output!NoTasks, NoTask
<1>k. UNCHANGED task => (NoTask' <=> NoTask)
  BY DEF NoTask
<1>1. CASE OwnerOnly
  <2>1. UNCHANGED router
    BY <1>1, OutputFrames
  <2>2. CASE Output!Enter
    BY <1>0, <1>k, <2>1, <2>2, OwnerSteps DEF OutputPhases
  <2>3. CASE Output!InstallDrivers
    BY <1>0, <1>k, <2>1, <2>3, OwnerSteps DEF OutputPhases
  <2>4. CASE Output!CreateTask
    BY <1>0, <2>1, <2>4, OwnerSteps DEF OutputPhases
  <2>5. CASE Output!Start
    BY <1>0, <1>k, <2>1, <2>5, OwnerSteps DEF OutputPhases
  <2>6. CASE Output!PublishEntered
    BY <1>0, <1>k, <2>1, <2>6, OwnerSteps DEF OutputPhases
  <2>7. CASE Output!Exit
    BY <1>0, <1>k, <2>1, <2>7, OwnerSteps DEF OutputPhases
  <2>8. CASE Output!RequestStop
    BY <1>0, <1>k, <2>1, <2>8, OwnerSteps DEF OutputPhases
  <2>9. CASE Output!Join
    BY <1>0, <1>k, <1>n, <2>1, <2>9, OwnerSteps DEF OutputPhases
  <2>10. CASE Output!AbortJoin
    BY <1>0, <1>n, <2>1, <2>10, OwnerSteps DEF OutputPhases
  <2> QED
    BY <1>1, <2>2, <2>3, <2>4, <2>5, <2>6, <2>7, <2>8, <2>9, <2>10 DEF OwnerOnly
<1>2. CASE InputOnly \/ LinkOnly \/ Output!UsbWrite
  <2>1. UNCHANGED <<builder, task, router>>
    BY <1>2, OutputFrames
  <2> QED
    BY <1>0, <1>k, <2>1 DEF OutputPhases
<1>3. CASE TaskTurn
  <2>1. UNCHANGED <<builder, router>>
    BY <1>3, OutputFrames
  <2>2. PICK t \in Output!Tasks : task[t] \in {"created", "running"}
    BY <1>3 DEF TaskTurn, Output!TaskStarts, Output!TaskStops
  <2>3. ~NoTask
    BY <2>2 DEF NoTask
  <2> QED
    BY <1>0, <2>1, <2>3 DEF OutputPhases
<1>4. CASE Output!Prepare
  <2>1. UNCHANGED task
    BY <1>4 DEF Output!Prepare
  <2> QED
    BY <1>0, <1>4, <1>k, <2>1, RouterSteps DEF OutputPhases
<1>5. CASE Output!Remove \/ Output!AbortRemove
  <2>1. NoTask' /\ builder'.pc \in {"prepare", "idle", "stop"}
    BY <1>0, <1>5, <1>k, OwnerSteps DEF OutputPhases
  <2> QED
    BY <2>1 DEF OutputPhases
<1>6. CASE Output!Submit \/ Output!UsbTake \/ Output!TakeLive
  <2>1. UNCHANGED <<builder, task>>
    BY <1>6 DEF Output!Submit, Output!UsbTake, Output!TakeLive, Output!KeepOwner
  <2>2. router' # Output!NoRouter
    BY <1>6, RouterSteps
  <2> QED
    BY <1>0, <1>k, <2>1, <2>2 DEF OutputPhases
<1> QED
  BY <1>1, <1>2, <1>3, <1>4, <1>5, <1>6, OutputSteps

LEMMA SessionKeptStep ==
  ASSUME OutputInv, Output!Next
  PROVE  SessionKept'
<1>0. SessionKept /\ OutputPhases /\ OutputTyped
  BY DEF OutputInv
<1>t. entered \in Nat /\ live \in Nat
  BY <1>0 DEF OutputTyped
<1>s. router # Output!NoRouter => router.session \in Nat /\ router.last \in Nat
  BY RouterFacts
<1>1. CASE OwnerOnly
  <2>1. UNCHANGED router
    BY <1>1, OutputFrames
  <2>n. task' = Output!NoTasks => \A t \in Output!Tasks : task'[t] # "running"
    BY DEF Output!NoTasks
  <2>2. CASE Output!Enter
    <3>1. builder.pc = "idle"
      BY <2>2 DEF Output!Enter
    <3> QED
      BY <1>0, <2>1, <2>2, <3>1, OwnerSteps DEF SessionKept
  <2>3. CASE Output!InstallDrivers
    BY <1>0, <2>1, <2>3, OwnerSteps DEF SessionKept
  <2>4. CASE Output!CreateTask
    BY <1>0, <2>1, <2>4, OwnerSteps DEF SessionKept
  <2>5. CASE Output!Start
    BY <1>0, <2>1, <2>5, OwnerSteps DEF SessionKept
  <2>6. CASE Output!PublishEntered
    <3>1. entered' = entered + 1 /\ live' = entered + 1
      BY <2>6, OwnerSteps
    <3>2. router # Output!NoRouter => router.session <= entered + 1
      BY <1>0 DEF SessionKept
    <3> QED
      BY <1>s, <1>t, <2>1, <3>1, <3>2 DEF SessionKept
  <2>7. CASE Output!Exit
    BY <1>0, <2>1, <2>7, OwnerSteps DEF SessionKept
  <2>8. CASE Output!RequestStop
    BY <1>0, <2>1, <2>8, OwnerSteps DEF SessionKept
  <2>9. CASE Output!Join
    <3>1. live' <= entered' /\ entered' = entered
      BY <1>0, <1>t, <2>9, OwnerSteps DEF SessionKept
    <3>2. /\ builder.pc = "join" /\ UNCHANGED path
          /\ task' = Output!NoTasks \/ UNCHANGED task
      BY <2>9, OwnerSteps
    <3> QED
      BY <1>0, <2>1, <2>n, <3>1, <3>2 DEF SessionKept
  <2>10. CASE Output!AbortJoin
    <3>1. /\ builder.pc = "abort_join" /\ UNCHANGED <<live, entered, path>>
          /\ task' = Output!NoTasks
      BY <2>10, OwnerSteps
    <3> QED
      BY <1>0, <2>1, <2>n, <3>1 DEF SessionKept
  <2> QED
    BY <1>1, <2>2, <2>3, <2>4, <2>5, <2>6, <2>7, <2>8, <2>9, <2>10 DEF OwnerOnly
<1>2. CASE InputOnly \/ LinkOnly \/ Output!UsbWrite
  <2>1. UNCHANGED <<builder, live, entered, path, task, router>>
    BY <1>2, OutputFrames
  <2> QED
    BY <1>0, <2>1 DEF SessionKept
<1>3. CASE TaskTurn
  <2>1. UNCHANGED <<builder, live, entered, path, router>>
    BY <1>3, OutputFrames
  <2>2. PICK t \in Output!Tasks : Output!TaskStarts(t) \/ Output!TaskStops(t)
    BY <1>3 DEF TaskTurn
  <2>3. \/ path.start
        \/ task' = [task EXCEPT ![t] = "stopped"]
    BY <2>2 DEF Output!TaskStarts, Output!TaskStops
  <2>4. task' = [task EXCEPT ![t] = "stopped"]
          => \A z \in Output!Tasks : task'[z] = "running" => task[z] = "running"
    BY <1>0 DEF OutputTyped, Workers
  <2> QED
    BY <1>0, <2>1, <2>3, <2>4 DEF SessionKept
<1>4. CASE Output!Prepare
  <2>1. UNCHANGED <<live, entered, task>> /\ builder.pc = "prepare"
    BY <1>4 DEF Output!Prepare
  <2>2. CASE UNCHANGED <<router, path>>
    BY <1>0, <2>1, <2>2 DEF SessionKept
  <2>3. CASE ~UNCHANGED <<router, path>>
    <3>1. /\ NoTask /\ router'.session = entered + 1 /\ router'.last = 0
          /\ path' = Output!NoPath
      BY <1>4, <2>3, RouterSteps
    <3>2. ~path'.start
      BY <3>1, OutputConstants
    <3>3. \A t \in Output!Tasks : task'[t] # "running"
      BY <2>1, <3>1 DEF NoTask
    <3> QED
      BY <1>0, <1>t, <2>1, <3>1, <3>2, <3>3 DEF SessionKept
  <2> QED
    BY <2>2, <2>3
<1>5. CASE Output!Remove \/ Output!AbortRemove
  <2>1. /\ UNCHANGED <<entered, task>> /\ builder.pc # "entered"
        /\ Output!Released \/ (path'.start = path.start /\ UNCHANGED router)
    BY <1>5, OwnerSteps
  <2>2. live' <= entered'
    BY <1>0, <1>5, <1>t, OwnerSteps DEF SessionKept
  <2>3. CASE Output!Released
    BY <2>2, <2>3 DEF Output!Released, SessionKept
  <2>4. CASE path'.start = path.start /\ UNCHANGED router
    BY <1>0, <2>1, <2>2, <2>4 DEF SessionKept
  <2> QED
    BY <2>1, <2>3, <2>4
<1>6. CASE Output!Submit
  <2>1. UNCHANGED <<builder, live, entered, path, task>> /\ task["router"] = "running"
    BY <1>6 DEF Output!Submit, Output!KeepOwner
  <2>2. router # Output!NoRouter /\ router'.session = router.session
    BY <1>6, RouterSteps
  <2>3. "router" \in Output!Tasks
    BY OutputConstants
  <2> QED
    BY <1>0, <2>1, <2>2, <2>3 DEF SessionKept
<1>7. CASE Output!UsbTake \/ Output!TakeLive
  <2>1. UNCHANGED <<builder, live, entered, path, task>>
    BY <1>7 DEF Output!UsbTake, Output!TakeLive, Output!KeepOwner
  <2>2. /\ router # Output!NoRouter /\ router'.session = router.session
        /\ router'.last = router.last
    BY <1>7, RouterSteps
  <2> QED
    BY <1>0, <2>1, <2>2 DEF SessionKept
<1> QED
  BY <1>1, <1>2, <1>3, <1>4, <1>5, <1>6, <1>7, OutputSteps

LEMMA SentKeptStep ==
  ASSUME OutputInv, Output!Next
  PROVE  SentKept'
<1>0. SentKept /\ SessionKept /\ OutputTyped
  BY DEF OutputInv
<1>t. /\ entered \in Nat /\ live \in Nat /\ sent.session \in Nat /\ sent.sequence \in Nat
      /\ stream.active \in BOOLEAN
  BY <1>0 DEF OutputTyped, Marks, Streams
<1>s. router # Output!NoRouter =>
        router.session \in Nat /\ router.last \in Nat /\ router.session > 0
  BY RouterFacts
\* A step that keeps what was sent, the stream and the router, or replaces it.
<1>k. ASSUME UNCHANGED <<stream, sent>>, entered' = entered,
             builder.pc = "entered" => builder'.pc = "entered",
             \/ router' = Output!NoRouter
             \/ /\ router # Output!NoRouter /\ router'.session = router.session
                /\ router.last <= router'.last /\ router'.last \in Nat
      PROVE  SentKept'
  <2>1. (router' # Output!NoRouter /\ sent.session = router'.session)
          => sent.sequence <= router'.last
    BY <1>0, <1>s, <1>t, <1>k DEF SentKept
  <2> QED
    BY <1>0, <1>k, <2>1 DEF SentKept
<1>1. CASE OwnerOnly
  <2>1. UNCHANGED <<router, stream, sent>>
    BY <1>1, OutputFrames
  <2>2. CASE Output!PublishEntered
    <3>1. entered' = entered + 1
      BY <2>2, OwnerSteps
    <3> QED
      BY <1>0, <1>t, <2>1, <3>1 DEF SentKept
  <2>3. CASE ~Output!PublishEntered
    <3>1. entered' = entered /\ builder.pc # "entered"
      BY <1>1, <2>3, OwnerSteps DEF OwnerOnly, Output!Enter
    <3> QED
      BY <1>0, <2>1, <3>1 DEF SentKept
  <2> QED
    BY <2>2, <2>3
<1>2. CASE TaskTurn \/ InputOnly \/ Output!UsbWrite
  <2>1. UNCHANGED <<builder, entered, router, stream, sent>>
    BY <1>2, OutputFrames
  <2> QED
    BY <1>0, <2>1 DEF SentKept
<1>3. CASE Output!Prepare
  <2>1. UNCHANGED <<entered, stream, sent>> /\ builder.pc = "prepare"
    BY <1>3 DEF Output!Prepare
  <2>2. router' = router \/ router'.session = entered + 1
    BY <1>3, RouterSteps
  <2>3. sent.session # entered + 1
    BY <1>0, <2>1 DEF SentKept
  <2> QED
    BY <1>0, <2>1, <2>2, <2>3 DEF SentKept
<1>4. CASE Output!Remove \/ Output!AbortRemove
  <2>1. /\ UNCHANGED <<entered, stream, sent>> /\ builder.pc # "entered"
        /\ Output!Released \/ UNCHANGED router
    BY <1>4, OwnerSteps
  <2> QED
    BY <1>0, <2>1 DEF SentKept, Output!Released
<1>5. CASE Output!Submit
  <2>1. UNCHANGED <<builder, entered, stream, sent>>
    BY <1>5 DEF Output!Submit, Output!KeepOwner
  <2>2. /\ router # Output!NoRouter /\ router'.session = router.session
        /\ router'.last = router.last + 1
    BY <1>5, RouterSteps
  <2>3. router.last <= router'.last /\ router'.last \in Nat
    BY <1>s, <2>2
  <2> QED
    BY <1>k, <2>1, <2>2, <2>3
<1>6. CASE Output!UsbTake
  <2>1. UNCHANGED <<builder, entered, stream, sent>>
    BY <1>6 DEF Output!UsbTake, Output!KeepOwner
  <2>2. /\ router # Output!NoRouter /\ router'.session = router.session
        /\ router'.last = router.last
    BY <1>6, RouterSteps
  <2>3. router.last <= router'.last /\ router'.last \in Nat
    BY <1>s, <2>2
  <2> QED
    BY <1>k, <2>1, <2>2, <2>3
\* A block of the router was sent.
<1>b. ASSUME NEW block \in Nat, block # 0, block <= router.last,
             router # Output!NoRouter, router'.session = router.session,
             router'.last = router.last, UNCHANGED <<builder, entered>>,
             sent'.session = router.session, sent'.sequence = block,
             stream'.active => stream'.replayed = router.session /\ stream'.cursor = block
      PROVE  SentKept'
  <2>1. router.last # 0
    BY <1>s, <1>b
  <2>2. /\ router.session <= entered + 1
        /\ router.session = entered + 1 => builder.pc = "entered"
    BY <1>0, <1>b, <2>1 DEF SessionKept
  <2> QED
    BY <1>b, <1>s, <2>2 DEF SentKept
<1>7. CASE Output!TakeLive
  <2> DEFINE block == Output!Front(router, "wss")
  <2>1. /\ router # Output!NoRouter /\ router'.session = router.session
        /\ router'.last = router.last
    BY <1>7, RouterSteps
  <2>2. UNCHANGED <<builder, entered>> /\ ~stream.active
    BY <1>7 DEF Output!TakeLive, Output!KeepOwner
  <2>3. block \in Nat /\ block # 0 /\ block <= router.last
    BY <1>7, <2>1, TakeFacts DEF Output!TakeLive
  <2>4. router.last <= router'.last /\ router'.last \in Nat
    BY <1>s, <2>1
  <2>5. \/ UNCHANGED <<stream, sent>>
        \/ stream' = Output!Offline /\ UNCHANGED sent
        \/ UNCHANGED stream /\ Output!Send(block)
    BY <1>7 DEF Output!TakeLive
  <2> HIDE DEF block
  <2>6. CASE UNCHANGED <<stream, sent>>
    BY <1>k, <2>1, <2>2, <2>4, <2>6
  <2>7. CASE stream' = Output!Offline /\ UNCHANGED sent
    <3>1. ~stream'.active
      BY <2>7, OutputConstants
    <3> QED
      BY <1>0, <2>1, <2>2, <2>7, <3>1 DEF SentKept
  <2>8. CASE UNCHANGED stream /\ Output!Send(block)
    <3>1. sent'.session = router.session /\ sent'.sequence = block
      BY <2>8 DEF Output!Send
    <3> QED
      BY <1>b, <2>1, <2>2, <2>3, <2>8, <3>1
  <2> QED
    BY <2>5, <2>6, <2>7, <2>8
<1>8. CASE LinkOnly
  <2>1. UNCHANGED <<builder, entered, router>>
    BY <1>8, OutputFrames
  <2>2. CASE Output!Connect \/ Output!Close
    <3>1. ~stream'.active /\ UNCHANGED sent
      BY <2>2, OutputConstants DEF Output!Connect, Output!Close, Output!Announced, Output!Offline
    <3> QED
      BY <1>0, <2>1, <3>1 DEF SentKept
  <2>3. CASE Output!Announce
    <3>1. ~stream'.active /\ (UNCHANGED sent \/ sent' = Output!NothingSent)
      BY <2>3 DEF Output!Announce, Output!Announced, Output!Offline
    <3>2. Output!NothingSent.session = 0 /\ Output!NothingSent.sequence = 0
      BY DEF Output!NothingSent
    <3> QED
      BY <1>0, <1>s, <1>t, <2>1, <3>1, <3>2 DEF SentKept
  <2>4. CASE Output!HistoryRequest
    <3>1. PICK after \in 0..(IF sent.session = live THEN sent.sequence ELSE 0) :
            /\ stream' = [stream EXCEPT !.ready = TRUE, !.active = TRUE,
                                        !.replayed = live, !.cursor = after]
            /\ sent' = [session |-> live, sequence |-> after]
      BY <2>4 DEF Output!HistoryRequest
    <3>2. /\ sent'.session = live /\ sent'.sequence = after
          /\ stream'.replayed = live /\ stream'.cursor = after
      BY <1>0, <3>1 DEF OutputTyped, Streams
    <3>3. after \in Nat /\ (sent.session = live => after <= sent.sequence)
          /\ (sent.session # live => after = 0)
      BY <1>t
    <3>4. live # 0 /\ live <= entered
      BY <1>0, <2>4 DEF Output!HistoryRequest, SessionKept
    <3>5. (router # Output!NoRouter /\ live = router.session) => after <= router.last
      BY <1>0, <1>s, <1>t, <3>3 DEF SentKept
    <3> QED
      BY <1>t, <2>1, <3>2, <3>4, <3>5 DEF SentKept
  <2>5. CASE Output!ReplayDone
    <3>1. ~stream'.active /\ UNCHANGED sent
      BY <1>0, <2>5 DEF Output!ReplayDone, OutputTyped, Streams
    <3> QED
      BY <1>0, <2>1, <3>1 DEF SentKept
  <2>6. CASE Output!Replay
    <3> DEFINE block == Output!CopyAfter(router, stream.cursor)
    <3>1. /\ router # Output!NoRouter /\ stream.active /\ router.session = stream.replayed
          /\ block # 0 /\ Output!Send(block) /\ stream' = [stream EXCEPT !.cursor = block]
      BY <2>6 DEF Output!Replay, Output!Available
    <3>2. block \in Nat /\ block <= router.last
      BY <3>1, ReplayFacts
    <3> HIDE DEF block
    <3>3. /\ sent'.session = router.session /\ sent'.sequence = block
          /\ stream'.replayed = router.session /\ stream'.cursor = block
      BY <1>0, <3>1 DEF Output!Send, OutputTyped, Streams
    <3> QED
      BY <1>b, <2>1, <3>1, <3>2, <3>3
  <2> QED
    BY <1>8, <2>2, <2>3, <2>4, <2>5, <2>6 DEF LinkOnly
<1> QED
  BY <1>1, <1>2, <1>3, <1>4, <1>5, <1>6, <1>7, <1>8, OutputSteps

LEMMA LiveFollowsStep ==
  ASSUME OutputInv, Output!Next
  PROVE  LiveFollows'
<1>0. LiveFollows /\ SentKept /\ OutputTyped
  BY DEF OutputInv
<1>t. /\ sent.session \in Nat /\ sent.sequence \in Nat /\ stream.active \in BOOLEAN
      /\ "wss" \in Sinks
  BY <1>0, Bounds DEF OutputTyped, Marks, Streams
<1>1. CASE OwnerOnly \/ TaskTurn \/ InputOnly \/ Output!UsbWrite
  <2>1. UNCHANGED <<router, stream, sent>>
    BY <1>1, OutputFrames
  <2> QED
    BY <1>0, <2>1 DEF LiveFollows
<1>2. CASE Output!Prepare
  <2>1. UNCHANGED <<entered, stream, sent>> /\ builder.pc = "prepare"
    BY <1>2 DEF Output!Prepare
  <2>2. router' = router \/ router'.session = entered + 1
    BY <1>2, RouterSteps
  <2>3. sent.session # entered + 1
    BY <1>0, <2>1 DEF SentKept
  <2> QED
    BY <1>0, <2>1, <2>2, <2>3 DEF LiveFollows
<1>3. CASE Output!Remove \/ Output!AbortRemove
  <2>1. /\ UNCHANGED <<stream, sent>>
        /\ Output!Released \/ UNCHANGED router
    BY <1>3, OwnerSteps
  <2> QED
    BY <1>0, <2>1 DEF LiveFollows, Output!Released
<1>4. CASE Output!Submit
  <2>1. UNCHANGED <<stream, sent>>
    BY <1>4 DEF Output!Submit
  <2>2. /\ router # Output!NoRouter /\ router'.session = router.session
        /\ SinkMoved(router, router', "wss") /\ Position(router, "wss") \in Nat
    BY <1>4, RouterSteps, RouterFacts
  <2> SUFFICES ASSUME stream.ready, ~stream.active, stream.announced = sent.session,
                      sent.session = router.session,
                      NEW n \in (sent.sequence + 1)..Position(router', "wss")
               PROVE  n \in router'.overwritten["wss"]
    BY <2>1, <2>2 DEF LiveFollows
  <2>3. \A k \in (sent.sequence + 1)..Position(router, "wss") : k \in router.overwritten["wss"]
    BY <1>0, <2>2 DEF LiveFollows
  <2>4. CASE n \in (sent.sequence + 1)..Position(router, "wss")
    BY <2>2, <2>3, <2>4 DEF SinkMoved
  <2>5. CASE n \notin (sent.sequence + 1)..Position(router, "wss")
    <3>1. /\ Position(router', "wss") = Position(router, "wss") + 1
          /\ Position(router', "wss") \in router'.overwritten["wss"]
      BY <2>2, <2>5 DEF SinkMoved
    <3>2. n = Position(router, "wss") + 1
      BY <1>t, <2>2, <2>5, <3>1
    <3> QED
      BY <3>1, <3>2
  <2> QED
    BY <2>4, <2>5
<1>5. CASE Output!UsbTake
  <2>1. UNCHANGED <<stream, sent>>
    BY <1>5 DEF Output!UsbTake
  <2>2. /\ router # Output!NoRouter /\ router'.session = router.session
        /\ router'.overwritten = router.overwritten
        /\ Position(router', "wss") = Position(router, "wss")
    BY <1>5, RouterSteps
  <2> QED
    BY <1>0, <2>1, <2>2 DEF LiveFollows
<1>6. CASE Output!TakeLive
  <2> DEFINE block == Output!Front(router, "wss")
             old == sent.session = router.session /\ block <= sent.sequence
  <2>1. /\ router # Output!NoRouter /\ router'.session = router.session
        /\ block = Position(router', "wss") /\ Position(router, "wss") \in Nat
        /\ Position(router', "wss") = Position(router, "wss") + 1
    BY <1>6, RouterSteps, RouterFacts
  <2>2. \/ old /\ UNCHANGED <<stream, sent>>
        \/ stream' = Output!Offline
        \/ Output!Send(block) /\ UNCHANGED stream
    BY <1>6 DEF Output!TakeLive
  <2> HIDE DEF block
  <2>3. CASE old /\ UNCHANGED <<stream, sent>>
    <3>1. (sent'.sequence + 1)..Position(router', "wss") = {}
      BY <1>t, <2>1, <2>3
    <3> QED
      BY <3>1 DEF LiveFollows
  <2>4. CASE stream' = Output!Offline
    BY <2>4, OutputConstants DEF LiveFollows
  <2>5. CASE Output!Send(block)
    <3>1. sent'.sequence = block
      BY <2>5 DEF Output!Send
    <3>2. (sent'.sequence + 1)..Position(router', "wss") = {}
      BY <2>1, <3>1
    <3> QED
      BY <3>2 DEF LiveFollows
  <2> QED
    BY <2>2, <2>3, <2>4, <2>5
<1>7. CASE LinkOnly
  <2>1. UNCHANGED router
    BY <1>7, OutputFrames
  <2>2. CASE Output!Connect \/ Output!Announce
    <3>1. stream'.ready => stream'.announced = 0
      BY <2>2 DEF Output!Connect, Output!Announce, Output!Announced, Output!Offline
    <3>2. router # Output!NoRouter => router.session # 0
      BY RouterFacts
    <3> QED
      BY <2>1, <3>1, <3>2 DEF LiveFollows
  <2>3. CASE Output!Close
    BY <2>3, OutputConstants DEF Output!Close, LiveFollows
  <2>4. CASE Output!HistoryRequest
    <3>1. stream'.active
      BY <1>0, <2>4 DEF Output!HistoryRequest, OutputTyped, Streams
    <3> QED
      BY <3>1 DEF LiveFollows
  <2>5. CASE Output!ReplayDone
    <3> SUFFICES ASSUME sent'.session = router.session
                 PROVE  (sent'.sequence + 1)..Position(router, "wss") = {}
      BY <2>1 DEF LiveFollows
    <3>1. /\ router # Output!NoRouter /\ stream.active /\ UNCHANGED sent
          /\ Output!CopyAfter(router, stream.cursor) = 0
      BY <2>5 DEF Output!ReplayDone, Output!Available
    <3>2. sent.session = stream.replayed /\ sent.sequence = stream.cursor
      BY <1>0, <3>1 DEF SentKept
    <3>3. stream.cursor = router.last
      BY <3>1, <3>2, ReplayFacts
    <3>4. Position(router, "wss") \in Nat /\ Position(router, "wss") <= router.last
          /\ router.last \in Nat
      <4> DEFINE l == Len(router.queue["wss"])
      <4>1. Sorted(router) /\ l \in Nat /\ router.last \in Nat /\ Position(router, "wss") \in Nat
        BY <1>t, <3>1, RouterFacts, SortedFacts
      <4>2. Position(router, "wss") = router.last - l
        BY DEF Position
      <4> HIDE DEF l
      <4> QED
        BY <4>1, <4>2
    <3> QED
      BY <3>1, <3>2, <3>3, <3>4
  <2>6. CASE Output!Replay
    <3>1. stream'.active
      BY <1>0, <2>6 DEF Output!Replay, OutputTyped, Streams
    <3> QED
      BY <3>1 DEF LiveFollows
  <2> QED
    BY <1>7, <2>2, <2>3, <2>4, <2>5, <2>6 DEF LinkOnly
<1> QED
  BY <1>1, <1>2, <1>3, <1>4, <1>5, <1>6, <1>7, OutputSteps

LEMMA UsbFollowsStep ==
  ASSUME OutputInv, Output!Next
  PROVE  UsbFollows'
<1>0. UsbFollows /\ OutputPhases /\ OutputTyped
  BY DEF OutputInv
<1>t. /\ usb.block \in Nat /\ usb.out \in Nat /\ usb \in Bridges /\ UsbAt \in Nat
  BY <1>0 DEF OutputTyped, Bridges, UsbAt
<1>1. CASE OwnerOnly \/ TaskTurn \/ InputOnly \/ LinkOnly
  <2>1. UNCHANGED <<router, usb>>
    BY <1>1, OutputFrames
  <2> QED
    BY <1>0, <2>1 DEF UsbFollows, UsbAt
<1>2. CASE Output!Prepare
  <2>1. CASE UNCHANGED <<router, usb>>
    BY <1>0, <2>1 DEF UsbFollows, UsbAt
  <2>2. CASE ~UNCHANGED <<router, usb>>
    <3>1. usb' = Output!NoUsb /\ Position(router', "usb") = 0
      BY <1>2, <2>2, RouterSteps
    <3>2. usb'.block = 0 /\ usb'.out = 0
      BY <3>1 DEF Output!NoUsb
    <3>3. UsbAt' = 0 /\ (0 + 1)..0 = {}
      BY <3>2 DEF UsbAt
    <3> QED
      BY <3>1, <3>2, <3>3 DEF UsbFollows
  <2> QED
    BY <2>1, <2>2
<1>3. CASE Output!Remove \/ Output!AbortRemove
  <2>1. Output!Released \/ UNCHANGED <<router, usb>>
    BY <1>3, OwnerSteps
  <2> QED
    BY <1>0, <2>1 DEF UsbFollows, UsbAt, Output!Released
<1>4. CASE Output!Submit
  <2>1. UNCHANGED usb
    BY <1>4 DEF Output!Submit
  <2>2. /\ router # Output!NoRouter /\ SinkMoved(router, router', "usb")
        /\ Position(router, "usb") \in Nat
    BY <1>4, RouterSteps, RouterFacts
  <2>3. /\ UsbAt <= Position(router, "usb")
        /\ \A n \in (UsbAt + 1)..Position(router, "usb") : n \in router.overwritten["usb"]
        /\ usb.block # 0 =>
             \A n \in (usb.out + 1)..(usb.block - 1) : n \in router.overwritten["usb"]
    BY <1>0, <2>2 DEF UsbFollows
  <2>4. UsbAt' = UsbAt
    BY <2>1 DEF UsbAt
  <2>5. UsbAt <= Position(router', "usb")
    BY <1>t, <2>2, <2>3 DEF SinkMoved
  <2>6. ASSUME NEW n \in (UsbAt + 1)..Position(router', "usb")
        PROVE  n \in router'.overwritten["usb"]
    <3>1. CASE n \in (UsbAt + 1)..Position(router, "usb")
      BY <2>2, <2>3, <3>1 DEF SinkMoved
    <3>2. CASE n \notin (UsbAt + 1)..Position(router, "usb")
      <4>1. /\ Position(router', "usb") = Position(router, "usb") + 1
            /\ Position(router', "usb") \in router'.overwritten["usb"]
        BY <2>2, <3>2 DEF SinkMoved
      <4>2. n = Position(router, "usb") + 1
        BY <1>t, <2>2, <3>2, <4>1
      <4> QED
        BY <4>1, <4>2
    <3> QED
      BY <3>1, <3>2
  <2>7. usb.block # 0 =>
          \A n \in (usb.out + 1)..(usb.block - 1) : n \in router'.overwritten["usb"]
    BY <2>2, <2>3 DEF SinkMoved
  <2> QED
    BY <2>1, <2>4, <2>5, <2>6, <2>7 DEF UsbFollows
<1>5. CASE Output!UsbTake
  <2>1. usb.block = 0 /\ usb' = [usb EXCEPT !.block = Output!Front(router, "usb")]
    BY <1>5 DEF Output!UsbTake
  <2>2. /\ router # Output!NoRouter /\ router'.overwritten = router.overwritten
        /\ Position(router', "usb") = Position(router, "usb") + 1
        /\ Output!Front(router, "usb") = Position(router', "usb")
        /\ Position(router, "usb") \in Nat
    BY <1>5, RouterSteps, RouterFacts
  <2>3. usb'.block = Position(router, "usb") + 1 /\ usb'.out = usb.out
    BY <1>t, <2>1, <2>2 DEF Bridges
  <2>4. UsbAt' = Position(router, "usb") + 1 /\ UsbAt = usb.out
    BY <2>1, <2>2, <2>3 DEF UsbAt
  <2>5. \A n \in (usb.out + 1)..Position(router, "usb") : n \in router.overwritten["usb"]
    BY <1>0, <2>2, <2>4 DEF UsbFollows
  <2>6. /\ UsbAt' <= Position(router', "usb")
        /\ (UsbAt' + 1)..Position(router', "usb") = {}
        /\ usb'.block - 1 = Position(router, "usb")
    BY <2>2, <2>3, <2>4
  <2> QED
    BY <2>2, <2>3, <2>5, <2>6 DEF UsbFollows
<1>6. CASE Output!UsbWrite
  <2>1. UNCHANGED router
    BY <1>6, OutputFrames
  <2>2. \/ usb'.block = usb.block /\ usb'.out = usb.out
        \/ usb'.block = 0 /\ usb'.out = usb.block
    BY <1>6, <1>t DEF Output!UsbWrite, Bridges
  <2>3. usb.block # 0
    BY <1>6 DEF Output!UsbWrite
  <2>4. UsbAt' = UsbAt
    BY <2>2, <2>3 DEF UsbAt
  <2> QED
    BY <1>0, <2>1, <2>2, <2>4 DEF UsbFollows
<1>7. CASE Output!TakeLive
  <2>1. UNCHANGED usb
    BY <1>7 DEF Output!TakeLive
  <2>2. /\ router # Output!NoRouter /\ router'.overwritten = router.overwritten
        /\ Position(router', "usb") = Position(router, "usb")
    BY <1>7, RouterSteps
  <2> QED
    BY <1>0, <2>1, <2>2 DEF UsbFollows, UsbAt
<1> QED
  BY <1>1, <1>2, <1>3, <1>4, <1>5, <1>6, <1>7, OutputSteps

LEMMA OutputInvariant == MCSpec => []OutputInv
<1>1. MCInit => OutputInv
  <2> SUFFICES ASSUME Output!Init PROVE OutputInv
    BY DEF MCInit
  <2>1. /\ live = 0 /\ entered = 0 /\ router = Output!NoRouter /\ task = Output!NoTasks
        /\ builder.pc = "idle" /\ stream = Output!Offline /\ sent = Output!NothingSent
    BY DEF Output!Init
  <2>2. OutputTyped
    BY OutputTypedInit
  <2>3. NoTask
    BY <2>1 DEF NoTask, Output!NoTasks
  <2>4. OutputPhases /\ RouterKept /\ SessionKept /\ LiveFollows /\ UsbFollows
    BY <2>1, <2>3 DEF OutputPhases, RouterKept, SessionKept, LiveFollows, UsbFollows
  <2>5. SentKept
    <3>1. sent.session = 0 /\ sent.sequence = 0 /\ ~stream.active
      BY <2>1, OutputConstants DEF Output!NothingSent
    <3> QED
      BY <2>1, <3>1 DEF SentKept
  <2> QED
    BY <2>2, <2>4, <2>5 DEF OutputInv
<1>2. OutputInv /\ [MCNext]_<<part, vars, appVars, displayVars, outputVars>> => OutputInv'
  <2> SUFFICES ASSUME OutputInv, [MCNext]_<<part, vars, appVars, displayVars, outputVars>>
               PROVE  OutputInv'
    OBVIOUS
  <2>1. Output!Next \/ UNCHANGED outputVars
    BY DEF MCNext
  <2>2. CASE Output!Next
    BY <2>2, OutputTypedStep, OutputPhasesStep, RouterKeptStep, SessionKeptStep,
       SentKeptStep, LiveFollowsStep, UsbFollowsStep DEF OutputInv
  <2>3. CASE UNCHANGED outputVars
    BY <2>3 DEF outputVars, OutputInv, OutputTyped, OutputPhases, NoTask, RouterKept,
                SessionKept, SentKept, LiveFollows, UsbFollows, UsbAt
  <2> QED
    BY <2>1, <2>2, <2>3
<1> QED
  BY <1>1, <1>2, PTL DEF MCSpec

LEMMA RouterConserves ==
  ASSUME NEW r, RouterInv(r)
  PROVE  Output!Conserved(r) /\ ~r.exhausted
<1>1. Sorted(r) /\ ~r.exhausted
  BY DEF RouterInv, Sorted
<1>2. r.queue \in Queues /\ Counted(r.queue, r.references, r.free)
  BY <1>1 DEF Sorted, Routers
<1>3. \A s \in Sinks : DOMAIN r.queue[s] = 1..Len(r.queue[s])
  BY <1>2, QueueFacts
<1>4. ASSUME NEW b \in Blocks
      PROVE  /\ r.references[b] = Output!Cardinality(Output!Holders(r, b))
             /\ b \in r.free <=> r.references[b] = 0
  <2>1. Output!Holders(r, b) = Held(r.queue, b)
    BY <1>3 DEF Output!Holders, Held
  <2> QED
    BY <1>2, <2>1, SameFiniteSets DEF Counted
<1>5. ASSUME NEW s \in Sinks, NEW i \in DOMAIN r.queue[s], NEW j \in DOMAIN r.queue[s], i < j
      PROVE  r.sequence[r.queue[s][i]] < r.sequence[r.queue[s][j]]
  <2>1. i \in 1..Len(r.queue[s]) /\ j \in 1..Len(r.queue[s])
    BY <1>3
  <2>2. /\ r.sequence[r.queue[s][i]] = Position(r, s) + i
        /\ r.sequence[r.queue[s][j]] = Position(r, s) + j
    BY <1>1, <2>1, QueueNumbers
  <2>3. Position(r, s) \in Nat /\ i \in Nat /\ j \in Nat
    BY <1>1, <2>1, SortedFacts
  <2> QED
    BY <1>5, <2>2, <2>3
<1> QED
  BY <1>1, <1>4, <1>5 DEF Output!Conserved

(* Whatever order the tasks, the link and the sinks' limits come in, no      *)
(* block of the router's pool or of the ingress set is lost, shared unawares *)
(* or returned twice; a pool as large as the history never runs out; and the *)
(* data path is released only once no task can reach it.                     *)
THEOREM OutputStaysSafe == MCSpec => []OutputIsSafe
<1>1. ASSUME OutputInv
      PROVE  Output!BlocksAreConserved /\ Output!PathOutlivesTasks
  <2>1. Output!BlocksAreConserved
    BY <1>1, RouterFacts, RouterConserves DEF Output!BlocksAreConserved
  <2>2. OutputPhases /\ builder.installed \in BOOLEAN
    BY <1>1 DEF OutputInv, OutputTyped, Builders
  <2>3. ASSUME NEW t \in Output!Tasks, task[t] = "running"
        PROVE  router # Output!NoRouter /\ (builder.pc = "idle" => builder.installed)
    BY <2>2, <2>3 DEF OutputPhases, NoTask
  <2> QED
    BY <2>1, <2>3 DEF Output!PathOutlivesTasks
<1>2. OutputInv => OutputIsSafe
  BY <1>1 DEF OutputIsSafe
<1> QED
  BY <1>2, OutputInvariant, PTL

\* What the link sends next.
LEMMA SentStep ==
  ASSUME OutputInv, Output!Next, sent'.session = sent.session,
         sent.session = stream.announced
  PROVE  /\ sent'.sequence > sent.sequence =>
              Output!SkippedOnly(sent.sequence, sent'.sequence,
                router.overwritten[IF stream.active THEN Retained ELSE "wss"])
         /\ sent'.sequence < sent.sequence =>
              stream'.active /\ stream'.cursor = sent'.sequence
<1>0. LiveFollows /\ SentKept /\ OutputTyped
  BY DEF OutputInv
<1>t. sent.session \in Nat /\ sent.sequence \in Nat /\ live \in Nat
  BY <1>0 DEF OutputTyped, Marks
<1>1. CASE UNCHANGED sent
  BY <1>t, <1>1
<1>2. CASE Output!Announce
  <2>1. UNCHANGED sent \/ sent' = Output!NothingSent
    BY <1>2 DEF Output!Announce
  <2>2. Output!NothingSent.session = 0 /\ Output!NothingSent.sequence = 0
    BY DEF Output!NothingSent
  <2>3. sent'.sequence = sent.sequence
    BY <1>0, <2>1, <2>2 DEF SentKept
  <2> QED
    BY <1>t, <2>3
<1>3. CASE Output!HistoryRequest
  <2>1. PICK after \in 0..(IF sent.session = live THEN sent.sequence ELSE 0) :
          /\ stream' = [stream EXCEPT !.ready = TRUE, !.active = TRUE,
                                      !.replayed = live, !.cursor = after]
          /\ sent' = [session |-> live, sequence |-> after]
    BY <1>3 DEF Output!HistoryRequest
  <2>2. /\ sent'.session = live /\ sent'.sequence = after
        /\ stream'.active /\ stream'.cursor = after
    BY <1>0, <2>1 DEF OutputTyped, Streams
  <2>3. after \in Nat /\ after <= sent.sequence
    BY <1>t, <2>2
  <2> QED
    BY <1>t, <2>2, <2>3
<1>4. CASE Output!Replay
  <2> DEFINE block == Output!CopyAfter(router, stream.cursor)
  <2>1. /\ router # Output!NoRouter /\ stream.active /\ router.session = stream.replayed
        /\ block # 0 /\ Output!Send(block)
    BY <1>4 DEF Output!Replay, Output!Available
  <2>2. /\ block \in Nat /\ block > stream.cursor
        /\ \A n \in (stream.cursor + 1)..(block - 1) : n \in router.overwritten[Retained]
    BY <2>1, ReplayFacts
  <2>3. sent.sequence = stream.cursor
    BY <1>0, <2>1 DEF SentKept
  <2> HIDE DEF block
  <2>4. sent'.sequence = block
    BY <2>1 DEF Output!Send
  <2> QED
    BY <1>t, <2>1, <2>2, <2>3, <2>4 DEF Output!SkippedOnly
<1>5. CASE Output!TakeLive /\ ~UNCHANGED sent
  <2> DEFINE block == Output!Front(router, "wss")
             old == sent.session = router.session /\ block <= sent.sequence
  <2>1. /\ stream.ready /\ ~stream.active /\ ~old /\ Output!Send(block)
    BY <1>5 DEF Output!TakeLive, Output!Streaming
  <2>2. /\ router # Output!NoRouter /\ block = Position(router, "wss") + 1
        /\ Position(router, "wss") \in Nat
    BY <1>5, RouterSteps, RouterFacts
  <2> HIDE DEF block
  <2>3. sent'.session = router.session /\ sent'.sequence = block
    BY <2>1 DEF Output!Send
  <2>4. \A n \in (sent.sequence + 1)..Position(router, "wss") : n \in router.overwritten["wss"]
    BY <1>0, <2>1, <2>2, <2>3 DEF LiveFollows
  <2>5. block - 1 = Position(router, "wss") /\ block > sent.sequence
    BY <1>t, <2>1, <2>2, <2>3
  <2> QED
    BY <1>t, <2>1, <2>2, <2>3, <2>4, <2>5 DEF Output!SkippedOnly
<1>6. \/ UNCHANGED sent \/ Output!Announce \/ Output!HistoryRequest \/ Output!Replay
      \/ Output!TakeLive
  <2>1. (OwnerOnly \/ TaskTurn \/ InputOnly \/ Output!UsbWrite) => UNCHANGED sent
    BY OutputFrames
  <2>2. (Output!Remove \/ Output!AbortRemove) => UNCHANGED sent
    BY OwnerSteps
  <2>3. (Output!Prepare \/ Output!Submit \/ Output!UsbTake) => UNCHANGED sent
    BY DEF Output!Prepare, Output!Submit, Output!UsbTake
  <2>4. LinkOnly => \/ UNCHANGED sent \/ Output!Announce \/ Output!HistoryRequest
                    \/ Output!Replay
    BY DEF LinkOnly, Output!Connect, Output!Close, Output!ReplayDone
  <2> QED
    BY <2>1, <2>2, <2>3, <2>4, OutputSteps
<1> QED
  BY <1>1, <1>2, <1>3, <1>4, <1>5, <1>6

\* What the bridge has written out.
LEMMA UsbStep ==
  ASSUME OutputInv, Output!Next, usb'.out > usb.out
  PROVE  Output!SkippedOnly(usb.out, usb'.out, router.overwritten["usb"])
<1>0. UsbFollows /\ OutputPhases /\ OutputTyped
  BY DEF OutputInv
<1>t. usb.out \in Nat /\ usb.block \in Nat /\ usb \in Bridges
  BY <1>0 DEF OutputTyped, Bridges
<1>1. CASE UNCHANGED usb
  BY <1>t, <1>1
<1>2. CASE Output!Prepare \/ Output!Remove \/ Output!AbortRemove
  <2>1. UNCHANGED usb \/ usb' = Output!NoUsb
    BY <1>2, RouterSteps, OwnerSteps DEF Output!Released
  <2>2. Output!NoUsb.out = 0
    BY DEF Output!NoUsb
  <2> QED
    BY <1>t, <2>1, <2>2
<1>3. CASE Output!UsbTake
  <2>1. usb'.out = usb.out
    BY <1>3, <1>t DEF Output!UsbTake, Bridges
  <2> QED
    BY <1>t, <2>1
<1>4. CASE Output!UsbWrite
  <2>1. usb.block # 0 /\ (usb'.out = usb.out \/ usb'.out = usb.block)
    BY <1>4, <1>t DEF Output!UsbWrite, Bridges
  <2>2. usb'.out = usb.block
    BY <1>t, <2>1
  <2>3. task["usb_out"] = "running" /\ "usb_out" \in Output!Tasks
    BY <1>4, OutputConstants DEF Output!UsbWrite
  <2>4. router # Output!NoRouter
    BY <1>0, <2>3 DEF OutputPhases, NoTask
  <2> QED
    BY <1>0, <2>1, <2>2, <2>4 DEF UsbFollows, Output!SkippedOnly
<1>5. (OwnerOnly \/ TaskTurn \/ InputOnly \/ LinkOnly) => UNCHANGED usb
  BY OutputFrames
<1>6. (Output!Submit \/ Output!TakeLive) => UNCHANGED usb
  BY DEF Output!Submit, Output!TakeLive
<1> QED
  BY <1>1, <1>2, <1>3, <1>4, <1>5, <1>6, OutputSteps

(* What the Companion or the USB host does not get was overwritten in the    *)
(* sink it reads, and what it has passed comes again only when asked for:    *)
(* no block is left out or repeated between replay and live output, after a  *)
(* failed write, over a reconnect or over USB.                               *)
THEOREM OutputHasNoHole == MCSpec => NoSilentHole
<1> DEFINE Heard ==
             (sent'.session = sent.session /\ sent.session = stream.announced) =>
               /\ sent'.sequence > sent.sequence =>
                    Output!SkippedOnly(sent.sequence, sent'.sequence,
                      router.overwritten[IF stream.active THEN Retained ELSE "wss"])
               /\ sent'.sequence < sent.sequence =>
                    stream'.active /\ stream'.cursor = sent'.sequence
           Written ==
             usb'.out > usb.out =>
               Output!SkippedOnly(usb.out, usb'.out, router.overwritten["usb"])
<1>1. OutputInv /\ [MCNext]_<<part, vars, appVars, displayVars, outputVars>>
        => [Heard /\ Written]_outputVars
  <2> SUFFICES ASSUME OutputInv, [MCNext]_<<part, vars, appVars, displayVars, outputVars>>,
                      ~UNCHANGED outputVars
               PROVE  Heard /\ Written
    OBVIOUS
  <2>1. Output!Next
    BY DEF MCNext
  <2>2. Heard
    BY <2>1, SentStep
  <2>3. Written
    BY <2>1, UsbStep
  <2> QED
    BY <2>2, <2>3
<1>2. MCSpec => [][Heard /\ Written]_outputVars
  BY <1>1, OutputInvariant, PTL DEF MCSpec
<1> QED
  BY <1>2, PTL DEF NoSilentHole, Output!NoSilentHole, outputVars, Output!vars
=============================================================================
