---------------------------- MODULE SerialSession ----------------------------
(***************************************************************************)
(* The Serial Session's authority over the target's TX line                *)
(* (components/serial_service/deck_serial_session.cpp): a record and the   *)
(* operations on it, called by the serial owner task only.                 *)
(*                                                                         *)
(* A lease's deadline is kept as the time left to it.  The sticky counters *)
(* (rejected bytes, install failures) are left out.                        *)
(***************************************************************************)
EXTENDS Naturals

CONSTANT LeaseTimeout        \* web_lease_timeout_ms, in clock units

ASSUME LeaseAssumption == LeaseTimeout \in Nat \ {0}

Owners == {"DISARMED", "USB_TX", "WEB_TX"}

NewSession ==
  [state |-> "DISARMED", session |-> 0, owner |-> 0, lease |-> 0, left |-> 0,
   control |-> 0, web |-> 0, last |-> 0, installed |-> FALSE]

Sessions ==
  [state : Owners, session : Nat, owner : Nat, lease : Nat, left : 0..LeaseTimeout,
   control : Nat, web : Nat, last : Nat, installed : BOOLEAN]

(* return_to_usb: the lease ends and the ownership is a new one. *)
ReturnToUsb(s) ==
  IF s.state = "WEB_TX"
  THEN [s EXCEPT !.state = "USB_TX", !.owner = @ + 1, !.lease = 0, !.left = 0]
  ELSE s

LeaseExpired(s) == s.state = "WEB_TX" /\ s.left = 0

ExpireWebLease(s) == IF LeaseExpired(s) THEN ReturnToUsb(s) ELSE s

DisarmIfUninstalled(s, uninstalled) ==
  IF uninstalled
  THEN [s EXCEPT !.state = "DISARMED", !.lease = 0, !.left = 0, !.last = 0,
                 !.owner = @ + 1, !.installed = FALSE]
  ELSE s

(* disarm: the authority goes first; the driver may refuse to go. *)
Disarm(s, uninstalled) ==
  [s EXCEPT !.state = "DISARMED", !.lease = 0, !.left = 0, !.last = 0,
            !.owner = IF s.state = "DISARMED" THEN @ ELSE @ + 1,
            !.installed = @ /\ ~uninstalled]

(* An entry is refused when a BOOT exit has advanced the control epoch     *)
(* since it was queued, or when a session exists.                          *)
EnterAdmittedAnyEpoch(s, epoch) == s.state = "DISARMED"

EnterAdmitted(s, epoch) == epoch = s.control /\ s.state = "DISARMED"

Entered(s) ==
  [s EXCEPT !.state = "USB_TX", !.session = @ + 1, !.owner = @ + 1, !.installed = TRUE,
            !.lease = 0, !.left = 0, !.last = 0]

ExitAdmitted(s, epoch) == epoch >= s.control

Exited(s, epoch, uninstalled) ==
  LET known == [s EXCEPT !.control = epoch]
  IN  IF s.state = "DISARMED" /\ ~s.installed THEN known ELSE Disarm(known, uninstalled)

(* A Web owner request is admitted in order, for the session and the Web   *)
(* transport it was made on.  An exact repetition changes nothing.         *)
RequestAdmitted(s, epoch, session, request) ==
  /\ epoch = s.web
  /\ s.state # "DISARMED" /\ session = s.session
  /\ request > s.last

Requested(s, request, enable) ==
  IF enable
  THEN [s EXCEPT !.state = "WEB_TX", !.owner = @ + 1, !.lease = request,
                 !.left = LeaseTimeout, !.last = request]
  ELSE [ReturnToUsb(s) EXCEPT !.last = request]

RevokeAdmitted(s, epoch) == epoch >= s.web

RevokedKeepingLease(s, epoch) == [s EXCEPT !.web = epoch, !.last = 0]

Revoked(s, epoch) == [ReturnToUsb(s) EXCEPT !.web = epoch, !.last = 0]

HoldsLease(s, session, lease) ==
  s.state = "WEB_TX" /\ session = s.session /\ lease = s.lease /\ lease # 0

Renewed(s) == [s EXCEPT !.left = LeaseTimeout]

(* Input from the host is sent only for the current owner. *)
AcceptWebInput(s, session, lease) == HoldsLease(s, session, lease) /\ s.installed

AcceptUsbInput(s, owner) == s.state = "USB_TX" /\ owner # 0 /\ owner = s.owner
=============================================================================
