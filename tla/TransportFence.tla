--------------------------- MODULE TransportFence ---------------------------
(***************************************************************************)
(* The fence between two Companion transports and the Web owner of the     *)
(* target's TX: before the link opens a replacement connection, the serial *)
(* owner task must have acknowledged that the lease of the old one is gone *)
(* (components/companion_link/deck_companion_link.cpp, the serial fence,   *)
(* with components/serial_service/deck_serial_service.cpp).                *)
(*                                                                         *)
(* Three tasks take part: the link task, the serial owner task and the     *)
(* application, which attaches the serial service to a running link.  The  *)
(* session is SerialSession's record, here always of one armed session.    *)
(***************************************************************************)
EXTENDS SerialSession, Sequences

CONSTANTS CommandDepth,      \* kCommandQueueDepth
          MaxTransport,      \* bound on connections
          MaxEpoch,          \* bound on revocations
          MaxRequest,        \* bound on Web owner requests
          MaxOther           \* bound on commands of other producers

VARIABLES serial,            \* link->serial: "none", "attached" or "detached"
          fenced,            \* link->serial_transport_fenced
          pending,           \* link->pending_serial_revoke_epoch
          at,                \* where the link task is: see Places
          client,            \* the open transport, or 0
          transport,         \* link->transport_generation of connections
          by,                \* which transport made each request
          web,               \* service->web_transport_epoch
          completed,         \* service->completed_web_revoke_epoch
          commands,          \* service->commands
          session,           \* service->session
          others,            \* commands of other producers so far
          exposed            \* history: see Attach

link    == <<fenced, pending, at, client, transport>>
service == <<web, completed, commands, session>>
vars    == <<serial, link, by, service, others, exposed>>

(* In its loop; in disconnect_transport before it asks for the revocation; *)
(* in ensure_serial_transport_revoked before asking, and before testing.   *)
Places == {"loop", "disconnecting", "ensuring", "testing"}

Request(epoch, id) == [kind |-> "request_web", epoch |-> epoch, id |-> id]

RevokeCommand(epoch) == [kind |-> "revoke_web_transport", epoch |-> epoch, id |-> 0]

Other == [kind |-> "other", epoch |-> 0, id |-> 0]

TypeOK ==
  /\ serial \in {"none", "attached", "detached"}
  /\ fenced \in BOOLEAN /\ at \in Places
  /\ transport \in 0..MaxTransport /\ client \in {0, transport}
  /\ pending \in 0..web /\ completed \in 0..web
  /\ Len(commands) <= CommandDepth
  /\ session \in Sessions
  /\ exposed \in 0..(MaxTransport + 1)

Init ==
  /\ serial = "none" /\ fenced = FALSE /\ pending = 0
  /\ at = "loop" /\ client = 0 /\ transport = 0
  /\ by = << >>
  /\ web = 0 /\ completed = 0 /\ commands = << >>
  /\ session = Entered(NewSession)
  /\ others = 0 /\ exposed = 0
-----------------------------------------------------------------------------
(* The application starts the link first and attaches the serial service   *)
(* to it later, wherever the link's task then is.  A revocation that the   *)
(* task is about to ask for will then be under way behind a raised fence:  *)
(* exposed is the connection that may be opened so, or 0.                  *)
AboutToRevoke == at \in {"disconnecting", "ensuring"}

Attach ==
  /\ serial = "none"
  /\ serial' = "attached" /\ fenced' = TRUE /\ pending' = 0
  /\ exposed' = IF AboutToRevoke THEN transport + 1 ELSE 0
  /\ UNCHANGED <<at, client, transport, by, service, others>>

Detach ==
  /\ serial = "attached"
  /\ serial' = "detached" /\ fenced' = TRUE /\ pending' = 0
  /\ UNCHANGED <<at, client, transport, by, service, others, exposed>>
-----------------------------------------------------------------------------
(* The link task. *)
Room == Len(commands) < CommandDepth

(* disconnect_transport lowers the fence and drops the client first ... *)
DisconnectLower ==
  /\ at = "loop" /\ web < MaxEpoch
  /\ fenced' = FALSE /\ client' = 0 /\ at' = "disconnecting"
  /\ UNCHANGED <<serial, pending, transport, by, service, others, exposed>>

UnderWay == pending # 0

(* A revocation is asked for unless one is under way; the epoch advances   *)
(* even when the command finds no room.                                    *)
RevokeUnlessPending(go) ==
  /\ at' = go
  /\ \/ /\ serial # "attached"
        /\ fenced' = TRUE /\ pending' = 0
        /\ UNCHANGED <<web, commands>>
     \/ /\ serial = "attached" /\ UnderWay
        /\ UNCHANGED <<fenced, pending, web, commands>>
     \/ /\ serial = "attached" /\ ~UnderWay /\ web < MaxEpoch
        /\ web' = web + 1
        /\ \/ Room /\ pending' = web' /\ commands' = <<RevokeCommand(web')>> \o commands
           \/ ~Room /\ web' < MaxEpoch /\ UNCHANGED <<pending, commands>>
        /\ UNCHANGED fenced
  /\ UNCHANGED <<serial, client, transport, by, completed, session, others, exposed>>

(* ... and then asks for the revocation. *)
DisconnectRevoke == at = "disconnecting" /\ RevokeUnlessPending("loop")

EnsureRead ==
  /\ at = "loop" /\ client = 0 /\ ~fenced
  /\ at' = "ensuring"
  /\ UNCHANGED <<serial, fenced, pending, client, transport, by, service, others, exposed>>

EnsureRevoke == at = "ensuring" /\ RevokeUnlessPending("testing")

(* deck_serial_service_web_transport_revoked *)
AcknowledgedLater(epoch) == epoch # 0 /\ completed > epoch

Acknowledged(epoch) == epoch # 0 /\ completed = epoch

EnsureTest ==
  /\ at = "testing" /\ at' = "loop"
  /\ \/ /\ serial # "attached" \/ Acknowledged(pending)
        /\ fenced' = TRUE /\ pending' = 0
     \/ /\ serial = "attached" /\ ~Acknowledged(pending)
        /\ UNCHANGED <<fenced, pending>>
  /\ UNCHANGED <<serial, client, transport, by, service, others, exposed>>

SerialOwnerAssumedSafe == TRUE

SerialOwnerSafe == fenced

StartTransport ==
  /\ at = "loop" /\ client = 0 /\ SerialOwnerSafe
  /\ transport < MaxTransport
  /\ transport' = transport + 1 /\ client' = transport'
  /\ UNCHANGED <<serial, fenced, pending, at, by, service, others, exposed>>

(* The Companion on the open transport asks to own the target's TX. *)
RequestWeb ==
  /\ at = "loop" /\ client # 0 /\ serial = "attached"
  /\ Room /\ Len(by) < MaxRequest
  /\ by' = Append(by, client)
  /\ commands' = Append(commands, Request(web, Len(by')))
  /\ UNCHANGED <<serial, link, web, completed, session, others, exposed>>
-----------------------------------------------------------------------------
(* Other producers, and the owner task. *)
OtherCommand ==
  /\ others < MaxOther /\ Room
  /\ others' = others + 1
  /\ commands' = <<Other>> \o commands \/ commands' = Append(commands, Other)
  /\ UNCHANGED <<serial, link, by, web, completed, session, exposed>>

Take(kind) ==
  /\ commands # << >> /\ Head(commands).kind = kind
  /\ commands' = Tail(commands)
  /\ UNCHANGED <<serial, link, by, web, others, exposed>>

StillWanted(c) == c.epoch = web

OwnerRequest ==
  /\ Take("request_web")
  /\ LET c == Head(commands)
     IN  session' = IF StillWanted(c) /\ RequestAdmitted(session, c.epoch, 1, c.id)
                    THEN Requested(session, c.id, TRUE) ELSE session
  /\ UNCHANGED completed

OwnerRevoke ==
  /\ Take("revoke_web_transport")
  /\ LET c == Head(commands)
     IN  /\ session' = IF RevokeAdmitted(session, c.epoch) THEN Revoked(session, c.epoch)
                                                            ELSE session
         /\ completed' = c.epoch

(* Any other command may end the lease, none of them grants one. *)
OwnerOther ==
  /\ Take("other")
  /\ session' \in {session, ReturnToUsb(session)}
  /\ UNCHANGED completed

OwnerStep == OwnerRequest \/ OwnerRevoke \/ OwnerOther

LinkStep == DisconnectRevoke \/ EnsureRead \/ EnsureRevoke \/ EnsureTest

Next ==
  \/ Attach \/ Detach
  \/ DisconnectLower \/ DisconnectRevoke \/ EnsureRead \/ EnsureRevoke \/ EnsureTest
  \/ StartTransport \/ RequestWeb
  \/ OtherCommand \/ OwnerRequest \/ OwnerRevoke \/ OwnerOther

Spec == Init /\ [][Next]_vars

(* Both tasks run their loops for as long as the service is up.  The link  *)
(* task's loop asks for the fence in every iteration without a client, so  *)
(* it does in the end however often an iteration also disconnects.         *)
FairSpec == Spec /\ WF_vars(OwnerStep) /\ WF_vars(LinkStep) /\ SF_vars(EnsureRead)
-----------------------------------------------------------------------------
(* While a connection is open, the lease on the target's TX is of that     *)
(* connection: the replacement was not opened before the owner task had    *)
(* revoked the old one's, and no request of the old one was granted later. *)
(* It is what the fence is for, and attaching the service just before      *)
(* begin_serial_transport_revoke defeats it.                               *)
LeaseIsTransport ==
  serial = "attached" /\ client # 0 /\ session.state = "WEB_TX"
    => by[session.lease] = client

(* What the fence does guarantee, wherever the service is attached: a      *)
(* lease outlives its connection only if that was the first one opened     *)
(* behind a fence which Attach raised over a revocation, and then by one   *)
(* connection: the disconnect of the second one revokes it.                *)
LeaseOutlivesOnce ==
  serial = "attached" /\ client # 0 /\ session.state = "WEB_TX"
    => \/ by[session.lease] = client
       \/ by[session.lease] = exposed /\ client = exposed + 1
=============================================================================
