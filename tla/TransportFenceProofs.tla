------------------------ MODULE TransportFenceProofs ------------------------
(***************************************************************************)
(* Proofs about the fence between two transports, for every depth of the   *)
(* command queue and any number of connections, revocations and requests.  *)
(***************************************************************************)
EXTENDS TransportFence, SequenceTheorems, TLAPS

-----------------------------------------------------------------------------
(* The command queue as a set: both ends add to it, taking only removes. *)
Commands ==
  [kind : {"request_web", "revoke_web_transport", "other"}, epoch : Nat, id : Nat]

Waiting(q) == {q[i] : i \in DOMAIN q}

LEMMA WaitingBack ==
  ASSUME NEW q \in Seq(Commands), NEW d \in Commands
  PROVE  /\ Append(q, d) \in Seq(Commands)
         /\ Waiting(Append(q, d)) = Waiting(q) \cup {d}
<1>1. /\ Append(q, d) \in Seq(Commands) /\ Len(q) \in Nat /\ DOMAIN q = 1..Len(q)
      /\ DOMAIN Append(q, d) = 1..(Len(q) + 1)
      /\ \A i \in 1..Len(q) : Append(q, d)[i] = q[i]
      /\ Append(q, d)[Len(q) + 1] = d
  OBVIOUS
<1>2. \A i \in 1..(Len(q) + 1) : i \in 1..Len(q) \/ i = Len(q) + 1
  BY <1>1
<1>3. \A i \in 1..Len(q) : i \in 1..(Len(q) + 1)
  BY <1>1
<1>4. Len(q) + 1 \in 1..(Len(q) + 1)
  BY <1>1
<1> QED
  BY <1>1, <1>2, <1>3, <1>4 DEF Waiting

LEMMA WaitingFront ==
  ASSUME NEW q \in Seq(Commands), NEW d \in Commands
  PROVE  /\ <<d>> \o q \in Seq(Commands)
         /\ Waiting(<<d>> \o q) = Waiting(q) \cup {d}
<1>1. Len(q) \in Nat /\ DOMAIN q = 1..Len(q)
  OBVIOUS
<1>2. <<d>> \in Seq(Commands) /\ Len(<<d>>) = 1 /\ <<d>>[1] = d
  OBVIOUS
<1>3. /\ <<d>> \o q \in Seq(Commands)
      /\ Len(<<d>> \o q) = 1 + Len(q)
      /\ \A i \in 1..(1 + Len(q)) :
           (<<d>> \o q)[i] = IF i <= 1 THEN <<d>>[i] ELSE q[i - 1]
  BY <1>2, ConcatProperties
<1> DEFINE r == <<d>> \o q
<1> HIDE DEF r
<1>4. r \in Seq(Commands) /\ Len(r) = 1 + Len(q)
  BY <1>3 DEF r
<1>5. DOMAIN r = 1..(Len(q) + 1)
  BY <1>1, <1>4
<1>6. r[1] = d /\ 1 \in 1..(Len(q) + 1)
  BY <1>1, <1>2, <1>3 DEF r
<1>7. \A i \in 1..(Len(q) + 1) : i = 1 \/ (i - 1 \in 1..Len(q) /\ r[i] = q[i - 1])
  BY <1>1, <1>3 DEF r
<1>8. \A i \in 1..Len(q) : i + 1 \in 1..(Len(q) + 1) /\ r[i + 1] = q[i]
  <2> SUFFICES ASSUME NEW i \in 1..Len(q)
               PROVE  i + 1 \in 1..(Len(q) + 1) /\ r[i + 1] = q[i]
    OBVIOUS
  <2>1. i + 1 \in 1..(Len(q) + 1) /\ i + 1 # 1 /\ (i + 1) - 1 = i
    BY <1>1
  <2> QED
    BY <1>7, <2>1
<1>9. Waiting(r) = Waiting(q) \cup {d}
  <2>1. ASSUME NEW c \in Waiting(r) PROVE c \in Waiting(q) \cup {d}
    BY <1>1, <1>5, <1>6, <1>7 DEF Waiting
  <2>2. d \in Waiting(r)
    BY <1>5, <1>6 DEF Waiting
  <2>3. ASSUME NEW i \in DOMAIN q PROVE q[i] \in Waiting(r)
    <3>1. i + 1 \in DOMAIN r /\ q[i] = r[i + 1]
      BY <1>1, <1>5, <1>8
    <3> QED
      BY <3>1 DEF Waiting
  <2>4. ASSUME NEW c \in Waiting(q) PROVE c \in Waiting(r)
    BY <2>3 DEF Waiting
  <2> QED
    BY <2>1, <2>2, <2>4
<1> QED
  BY <1>4, <1>9 DEF r

LEMMA WaitingTail ==
  ASSUME NEW q \in Seq(Commands), q # << >>
  PROVE  /\ Tail(q) \in Seq(Commands) /\ Head(q) \in Commands
         /\ Waiting(Tail(q)) \subseteq Waiting(q) /\ Head(q) \in Waiting(q)
<1>1. /\ Len(q) \in Nat \ {0} /\ DOMAIN q = 1..Len(q)
      /\ DOMAIN Tail(q) = 1..(Len(q) - 1)
      /\ \A i \in 1..(Len(q) - 1) : i + 1 \in 1..Len(q) /\ Tail(q)[i] = q[i + 1]
      /\ Head(q) = q[1] /\ 1 \in 1..Len(q)
      /\ Tail(q) \in Seq(Commands) /\ Head(q) \in Commands
  OBVIOUS
<1> QED
  BY <1>1 DEF Waiting

LEMMA WaitingTyped ==
  ASSUME NEW q \in Seq(Commands)
  PROVE  \A c \in Waiting(q) :
           /\ c.kind \in {"request_web", "revoke_web_transport", "other"}
           /\ c.epoch \in Nat /\ c.id \in Nat
<1>1. Waiting(q) \subseteq Commands
  BY DEF Waiting
<1> QED
  BY <1>1 DEF Commands
-----------------------------------------------------------------------------
(* What the owner's operations do to the session. *)

LEMMA ReturnToUsbFacts ==
  ASSUME NEW s \in Sessions
  PROVE  /\ ReturnToUsb(s) \in Sessions /\ ReturnToUsb(s).web = s.web
         /\ ReturnToUsb(s).state # "WEB_TX"
<1>1. /\ s.owner + 1 \in Nat /\ 0 \in Nat /\ 0 \in 0..LeaseTimeout /\ "USB_TX" \in Owners
  BY LeaseAssumption DEF Sessions, Owners
<1> QED
  BY <1>1 DEF ReturnToUsb, Sessions

LEMMA RequestedFacts ==
  ASSUME NEW s \in Sessions, NEW n \in Nat
  PROVE  /\ Requested(s, n, TRUE) \in Sessions
         /\ Requested(s, n, TRUE).web = s.web /\ Requested(s, n, TRUE).lease = n
<1>1. /\ s.owner + 1 \in Nat /\ LeaseTimeout \in 0..LeaseTimeout /\ "WEB_TX" \in Owners
  BY LeaseAssumption DEF Sessions, Owners
<1> QED
  BY <1>1 DEF Requested, Sessions

LEMMA RevokedFacts ==
  ASSUME NEW s \in Sessions, NEW n \in Nat
  PROVE  /\ Revoked(s, n) \in Sessions
         /\ Revoked(s, n).web = n /\ Revoked(s, n).state # "WEB_TX"
<1> DEFINE t == ReturnToUsb(s)
<1>1. t \in Sessions /\ t.state # "WEB_TX"
  BY ReturnToUsbFacts
<1> HIDE DEF t
<1>2. [t EXCEPT !.web = n, !.last = 0] \in Sessions
  BY <1>1 DEF Sessions
<1>3. /\ [t EXCEPT !.web = n, !.last = 0].web = n
      /\ [t EXCEPT !.web = n, !.last = 0].state = t.state
  BY <1>1 DEF Sessions
<1> QED
  BY <1>1, <1>2, <1>3 DEF Revoked, t
-----------------------------------------------------------------------------
(* The inductive invariant. *)
Typed ==
  /\ serial \in {"none", "attached", "detached"} /\ fenced \in BOOLEAN /\ at \in Places
  /\ transport \in Nat /\ client \in Nat /\ pending \in Nat
  /\ web \in Nat /\ completed \in Nat /\ exposed \in Nat
  /\ commands \in Seq(Commands) /\ by \in Seq(Nat \ {0}) /\ session \in Sessions

Asking == {c \in Waiting(commands) : c.kind = "request_web"}

(* No epoch in the service is ahead of the Web epoch, the revocation the   *)
(* link waits for is of that epoch, and every request and lease is known.  *)
Epochs ==
  /\ completed <= web /\ session.web <= web /\ pending \in {0, web}
  /\ \A c \in Waiting(commands) : c.epoch <= web
  /\ \A c \in Asking : c.id \in DOMAIN by
  /\ session.state = "WEB_TX" => session.lease \in DOMAIN by

(* Requests are made once the service is attached, on the connections from *)
(* the exposed one to the latest.                                          *)
Connected ==
  /\ exposed <= transport + 1
  /\ client # 0 => fenced /\ at = "loop" /\ client = transport /\ exposed <= transport
  /\ \A n \in DOMAIN by : exposed <= by[n] /\ by[n] <= transport

Before ==
  serial = "none" => pending = 0 /\ exposed = 0 /\ DOMAIN by = {}

(* Until the exposed connection is gone, a revocation may be under way     *)
(* behind the raised fence; the fence is raised without one after it.      *)
Exposed ==
  transport = exposed /\ client = 0 /\ fenced => pending = 0 /\ at \in {"loop", "testing"}

MayHold(t) == t = client \/ (t = exposed /\ client = exposed + 1)

(* From then on, behind a raised fence only the open transport holds or    *)
(* may still get the lease, or the exposed one while its successor is      *)
(* open; while a revocation is under way no request that waits will be     *)
(* granted, and the lease is gone once it is acknowledged.                 *)
Raised ==
  fenced =>
    /\ pending = 0 /\ at \in {"loop", "testing"}
    /\ session.state = "WEB_TX" => MayHold(by[session.lease])
    /\ \A c \in Asking : c.epoch = web => MayHold(by[c.id])

Revoking ==
  pending # 0 =>
    /\ \A c \in Asking : c.epoch # web
    /\ completed = web => session.state # "WEB_TX"

Settled == exposed = 0 \/ exposed < transport

Inv ==
  /\ Typed /\ Epochs /\ Connected /\ Before
  /\ serial = "attached" => IF Settled THEN Raised /\ Revoking ELSE Exposed

LEMMA Initially == Init => Inv
<1> SUFFICES ASSUME Init PROVE Inv
  OBVIOUS
<1>0. commands = << >> /\ by = << >> /\ DOMAIN commands = {}
  BY DEF Init
<1>1. commands = << >> /\ by = << >> /\ Waiting(commands) = {}
  BY <1>0 DEF Waiting
<1>2. << >> \in Seq(Commands) /\ << >> \in Seq(Nat \ {0})
  OBVIOUS
<1>3. session \in Sessions /\ session.state = "USB_TX" /\ session.web = 0
  <2> DEFINE s == NewSession
  <2>1. s \in Sessions /\ s.web = 0
    BY LeaseAssumption DEF NewSession, Sessions, Owners
  <2>2. s.session + 1 \in Nat /\ s.owner + 1 \in Nat /\ 0 \in 0..LeaseTimeout
        /\ "USB_TX" \in Owners
    BY <2>1, LeaseAssumption DEF Sessions, Owners
  <2> HIDE DEF s
  <2>3. Entered(s) \in Sessions /\ Entered(s).state = "USB_TX" /\ Entered(s).web = 0
    BY <2>1, <2>2 DEF Entered, Sessions
  <2> QED
    BY <2>3 DEF Init, s
<1>4. Asking = {}
  BY <1>1 DEF Asking
<1>5. Typed
  BY <1>1, <1>2, <1>3 DEF Init, Typed, Places
<1> QED
  BY <1>1, <1>3, <1>4, <1>5 DEF Init, Inv, Epochs, Connected, Before

LEMMA ApplicationStep ==
  ASSUME Inv, Attach \/ Detach
  PROVE  Inv'
<1>0. UNCHANGED <<commands, by, session, web, completed, client, at, transport>>
  BY DEF Attach, Detach, service
<1>1. Waiting(commands)' = Waiting(commands) /\ Asking' = Asking
  BY <1>0 DEF Waiting, Asking
<1>2. CASE Attach
  <2>0. /\ serial = "none" /\ serial' = "attached" /\ fenced' = TRUE /\ pending' = 0
        /\ exposed' = IF AboutToRevoke THEN transport + 1 ELSE 0
        /\ transport \in Nat /\ at \in Places
    BY <1>2 DEF Attach, Inv, Typed
  <2>1. /\ exposed' \in Nat /\ DOMAIN by = {} /\ (exposed' # 0 <=> AboutToRevoke)
        /\ exposed' # 0 => transport < exposed'
    BY <2>0 DEF Inv, Before
  <2>2. client # 0 => ~AboutToRevoke
    BY DEF Inv, Connected, AboutToRevoke
  <2>3. Typed' /\ Epochs' /\ Before'
    BY <1>0, <1>1, <2>0, <2>1 DEF Inv, Typed, Epochs, Before
  <2>4. Connected'
    BY <1>0, <2>0, <2>1, <2>2 DEF Inv, Connected
  <2>5. session.state # "WEB_TX" /\ Asking = {}
    BY <2>1 DEF Inv, Epochs
  <2>6. CASE AboutToRevoke
    <3>1. ~Settled' /\ transport # exposed'
      BY <1>0, <2>0, <2>1, <2>6 DEF Settled
    <3> QED
      BY <1>0, <2>3, <2>4, <3>1 DEF Inv, Exposed
  <2>7. CASE ~AboutToRevoke
    <3>1. Settled' /\ at' \in {"loop", "testing"}
      BY <1>0, <2>0, <2>7 DEF Settled, AboutToRevoke, Places
    <3>2. Raised' /\ Revoking'
      BY <1>0, <1>1, <2>0, <2>5, <3>1 DEF Raised, Revoking
    <3> QED
      BY <2>3, <2>4, <3>1, <3>2 DEF Inv
  <2> QED
    BY <2>6, <2>7
<1>3. CASE Detach
  BY <1>0, <1>1, <1>3 DEF Detach, Inv, Typed, Epochs, Connected, Before
<1> QED
  BY <1>2, <1>3

LEMMA RevokeStep ==
  ASSUME Inv, NEW go \in {"loop", "testing"}, RevokeUnlessPending(go),
         at \in {"disconnecting", "ensuring"}
  PROVE  Inv'
<1>0. /\ UNCHANGED <<serial, client, transport, by, completed, session, exposed>> /\ at' = go
      /\ client = 0 /\ (Settled' <=> Settled)
  BY DEF RevokeUnlessPending, Inv, Connected, Settled
<1>f. serial = "attached" /\ (Settled \/ transport = exposed) => ~fenced
  BY <1>0 DEF Inv, Settled, Raised, Exposed
<1>t. /\ commands \in Seq(Commands) /\ web \in Nat /\ completed \in Nat /\ pending \in Nat
      /\ session.web \in Nat /\ by \in Seq(Nat \ {0})
  BY DEF Inv, Typed, Sessions
<1>1. CASE UNCHANGED <<web, commands>>
  <2>1. Waiting(commands)' = Waiting(commands) /\ Asking' = Asking
    BY <1>1 DEF Waiting, Asking
  <2>2. CASE serial # "attached" /\ fenced' = TRUE /\ pending' = 0
    BY <1>0, <1>1, <2>1, <2>2
       DEF Inv, Typed, Epochs, Connected, Before, Places
  <2>3. CASE serial = "attached" /\ UNCHANGED <<fenced, pending>>
    <3>1. Typed' /\ Epochs' /\ Connected' /\ Before'
      BY <1>0, <1>1, <2>1, <2>3 DEF Inv, Typed, Epochs, Connected, Before, Places
    <3> QED
      BY <1>0, <1>f, <1>1, <2>1, <2>3, <3>1 DEF Inv, Raised, Revoking, Exposed
  <2>4. web' # web + 1
    BY <1>t, <1>1
  <2> QED
    BY <2>2, <2>3, <2>4 DEF RevokeUnlessPending
<1>2. CASE /\ serial = "attached" /\ ~UnderWay /\ web' = web + 1 /\ UNCHANGED fenced
           /\ \/ pending' = web' /\ commands' = <<RevokeCommand(web')>> \o commands
              \/ UNCHANGED <<pending, commands>>
  <2> DEFINE r == RevokeCommand(web')
  <2>1. r \in Commands /\ r.kind = "revoke_web_transport" /\ r.epoch = web'
    BY <1>t, <1>2 DEF RevokeCommand, Commands
  <2>2. /\ commands' \in Seq(Commands)
        /\ Waiting(commands)' \subseteq Waiting(commands) \cup {r}
    <3>1. CASE commands' = <<r>> \o commands
      BY <1>t, <2>1, <3>1, WaitingFront DEF Waiting
    <3>2. CASE UNCHANGED commands
      BY <1>t, <3>2 DEF Waiting
    <3> QED
      BY <1>2, <3>1, <3>2
  <2> HIDE DEF r
  <2>3. Asking' \subseteq Asking
    BY <2>1, <2>2 DEF Asking
  <2>4. \A c \in Waiting(commands)' : c.epoch <= web'
    <3>1. \A c \in Waiting(commands) : c.epoch \in Nat /\ c.epoch <= web
      BY <1>t, WaitingTyped DEF Inv, Epochs
    <3>2. web <= web' /\ web' <= web'
      BY <1>t, <1>2
    <3>3. \A c \in Waiting(commands) : c.epoch <= web'
      BY <1>t, <1>2, <3>1
    <3> QED
      BY <2>1, <2>2, <3>2, <3>3
  <2>5. \A c \in Asking' : c.epoch # web'
    <3>1. \A c \in Asking : c.epoch \in Nat /\ c.epoch <= web
      BY <1>t, WaitingTyped DEF Inv, Epochs, Asking
    <3> QED
      BY <1>t, <1>2, <2>3, <3>1
  <2>6. completed' <= web' /\ session'.web <= web' /\ completed' # web' /\ web' \in Nat
    BY <1>0, <1>t, <1>2 DEF Inv, Epochs
  <2>7. pending = 0 /\ pending' \in {0, web'} /\ pending' \in Nat
    BY <1>t, <1>2, <2>6 DEF UnderWay
  <2>8. Typed' /\ Epochs' /\ Connected' /\ Before'
    BY <1>0, <1>2, <2>2, <2>3, <2>4, <2>6, <2>7
       DEF Inv, Typed, Epochs, Connected, Before, Places
  <2> QED
    BY <1>0, <1>f, <1>2, <2>5, <2>6, <2>8 DEF Inv, Raised, Revoking, Exposed
<1> QED
  BY <1>t, <1>1, <1>2 DEF RevokeUnlessPending

LEMMA LinkTaskStep ==
  ASSUME Inv,
         \/ DisconnectLower \/ DisconnectRevoke \/ EnsureRead \/ EnsureRevoke \/ EnsureTest
         \/ StartTransport
  PROVE  Inv'
<1>1. CASE DisconnectRevoke \/ EnsureRevoke
  BY <1>1, RevokeStep DEF DisconnectRevoke, EnsureRevoke
<1>2. CASE DisconnectLower \/ EnsureRead \/ EnsureTest \/ StartTransport
  <2>0. UNCHANGED <<serial, commands, by, session, web, completed, exposed>>
    BY <1>2 DEF DisconnectLower, EnsureRead, EnsureTest, StartTransport, service
  <2>1. Waiting(commands)' = Waiting(commands) /\ Asking' = Asking
    BY <2>0 DEF Waiting, Asking
  <2>2. CASE DisconnectLower
    <3>0. /\ fenced' = FALSE /\ client' = 0 /\ at' = "disconnecting"
          /\ UNCHANGED <<pending, transport>>
      BY <2>2 DEF DisconnectLower
    <3>1. Typed' /\ Epochs' /\ Connected' /\ Before'
      BY <2>0, <2>1, <3>0 DEF Inv, Typed, Epochs, Connected, Before, Places
    <3> QED
      BY <2>0, <2>1, <3>0, <3>1 DEF Inv, Raised, Revoking, Exposed, Settled
  <2>3. CASE EnsureRead
    <3>0. ~fenced /\ at' = "ensuring" /\ client = 0 /\ UNCHANGED <<fenced, pending, client, transport>>
      BY <2>3 DEF EnsureRead
    <3>1. Typed' /\ Epochs' /\ Connected' /\ Before'
      BY <2>0, <2>1, <3>0 DEF Inv, Typed, Epochs, Connected, Before, Places
    <3> QED
      BY <2>0, <2>1, <3>0, <3>1 DEF Inv, Raised, Revoking, Exposed, Settled
  <2>4. CASE EnsureTest
    <3>0. client = 0 /\ at' = "loop" /\ UNCHANGED <<client, transport>>
      BY <2>4 DEF EnsureTest, Inv, Connected
    <3>1. CASE UNCHANGED <<fenced, pending>> /\ serial = "attached"
      <4>1. Typed' /\ Epochs' /\ Connected' /\ Before'
        BY <2>0, <2>1, <3>0, <3>1 DEF Inv, Typed, Epochs, Connected, Before, Places
      <4> QED
        BY <2>0, <2>1, <3>0, <3>1, <4>1 DEF Inv, Raised, Revoking, Exposed, Settled, MayHold
    <3>2. CASE fenced' = TRUE /\ pending' = 0 /\ (serial # "attached" \/ Acknowledged(pending))
      <4>1. Typed' /\ Epochs' /\ Connected' /\ Before'
        BY <2>0, <2>1, <3>0, <3>2
           DEF Inv, Typed, Epochs, Connected, Before, Places
      <4>2. ASSUME serial = "attached", Settled
            PROVE  /\ session.state # "WEB_TX"
                   /\ \A c \in Asking : c.epoch # web
        BY <3>2, <4>2 DEF Acknowledged, Inv, Epochs, Revoking
      <4>3. Settled' <=> Settled
        BY <2>0, <3>0 DEF Settled
      <4> QED
        BY <2>0, <2>1, <3>0, <3>2, <4>1, <4>2, <4>3 DEF Inv, Raised, Revoking, Exposed
    <3> QED
      BY <2>4, <3>1, <3>2 DEF EnsureTest
  <2>5. CASE StartTransport
    <3>0. /\ client = 0 /\ fenced /\ at = "loop" /\ client' = transport + 1
          /\ transport' = transport + 1 /\ UNCHANGED <<fenced, pending, at>>
          /\ transport \in Nat /\ exposed \in Nat /\ by \in Seq(Nat \ {0})
      BY <2>5 DEF StartTransport, SerialOwnerSafe, Inv, Typed
    <3>n. \A n \in DOMAIN by : by[n] \in Nat \ {0} /\ exposed <= by[n] /\ by[n] <= transport
      BY <3>0 DEF Inv, Connected
    <3>t. Typed' /\ Epochs' /\ Before'
      BY <2>0, <2>1, <3>0 DEF Inv, Typed, Epochs, Before
    <3>1. CASE serial # "attached"
      <4>1. Connected'
        <5>1. exposed <= transport + 1
          BY <3>0, <3>1 DEF Inv, Connected
        <5> QED
          BY <2>0, <3>0, <3>n, <5>1 DEF Connected
      <4> QED
        BY <2>0, <3>t, <3>1, <4>1 DEF Inv
    <3>2. CASE serial = "attached" /\ Settled
      <4>1. Connected' /\ Settled'
        BY <2>0, <3>0, <3>n, <3>2 DEF Connected, Settled
      <4>2. \A n \in DOMAIN by : ~MayHold(by[n])
        BY <3>0, <3>n DEF MayHold
      <4>3. /\ session.state # "WEB_TX"
            /\ \A c \in Asking : c.epoch # web
        BY <3>0, <3>2, <4>2 DEF Inv, Epochs, Raised
      <4>4. pending = 0
        BY <3>0, <3>2 DEF Inv, Raised
      <4> QED
        BY <2>0, <2>1, <3>0, <3>t, <4>1, <4>3, <4>4 DEF Inv, Raised, Revoking
    <3>3. CASE serial = "attached" /\ ~Settled /\ transport = exposed
      <4>1. pending = 0 /\ Settled'
        BY <2>0, <3>0, <3>3 DEF Inv, Exposed, Settled
      <4>2. Connected'
        BY <2>0, <3>0, <3>n, <3>3 DEF Connected
      <4>3. \A n \in DOMAIN by : by[n] = exposed
        BY <3>0, <3>n, <3>3
      <4>4. \A n \in DOMAIN by : (MayHold(by[n]))'
        BY <2>0, <3>0, <3>3, <4>3 DEF MayHold
      <4> QED
        BY <2>0, <2>1, <3>0, <3>t, <4>1, <4>2, <4>4 DEF Inv, Epochs, Raised, Revoking
    <3>4. CASE serial = "attached" /\ ~Settled /\ transport # exposed
      <4>1. transport + 1 = exposed
        BY <3>0, <3>4 DEF Inv, Connected, Settled
      <4>2. ~Settled' /\ ~(client = 0)'
        BY <2>0, <3>0, <4>1 DEF Settled
      <4>3. Connected'
        BY <2>0, <3>0, <3>n, <4>1 DEF Connected
      <4> QED
        BY <2>0, <3>t, <4>2, <4>3 DEF Inv, Exposed
    <3> QED
      BY <3>1, <3>2, <3>3, <3>4
  <2> QED
    BY <1>2, <2>2, <2>3, <2>4, <2>5
<1> QED
  BY <1>1, <1>2

LEMMA ProducerStep ==
  ASSUME Inv, RequestWeb \/ OtherCommand
  PROVE  Inv'
<1>0. /\ UNCHANGED <<serial, fenced, pending, at, client, transport, web, completed, session,
                     exposed>>
      /\ Settled' <=> Settled
  BY DEF RequestWeb, OtherCommand, link, Settled
<1>t. /\ commands \in Seq(Commands) /\ web \in Nat /\ by \in Seq(Nat \ {0})
      /\ client \in Nat /\ session \in Sessions
  BY DEF Inv, Typed
<1>1. CASE OtherCommand
  <2>1. Other \in Commands /\ Other.kind = "other" /\ Other.epoch = 0
    BY DEF Other, Commands
  <2>2. commands' \in Seq(Commands) /\ Waiting(commands)' = Waiting(commands) \cup {Other}
    <3>0. Waiting(commands)' = Waiting(commands')
      BY DEF Waiting
    <3>1. CASE commands' = <<Other>> \o commands
      BY <1>t, <2>1, <3>0, <3>1, WaitingFront
    <3>2. CASE commands' = Append(commands, Other)
      BY <1>t, <2>1, <3>0, <3>2, WaitingBack
    <3> QED
      BY <1>1, <3>1, <3>2 DEF OtherCommand
  <2>3. Asking' = Asking /\ by' = by
    BY <1>1, <2>1, <2>2 DEF Asking, OtherCommand
  <2>4. \A c \in Waiting(commands)' : c.epoch <= web
    BY <1>t, <2>1, <2>2 DEF Inv, Epochs
  <2>5. Typed' /\ Epochs' /\ Connected' /\ Before'
    BY <1>0, <2>2, <2>3, <2>4 DEF Inv, Typed, Epochs, Connected, Before
  <2> QED
    BY <1>0, <2>3, <2>5 DEF Inv, Raised, Revoking, Exposed, MayHold
<1>2. CASE RequestWeb
  <2> DEFINE r == Request(web, Len(by'))
  <2>0. /\ client # 0 /\ serial = "attached" /\ by' = Append(by, client)
        /\ commands' = Append(commands, r)
    BY <1>2 DEF RequestWeb
  <2>1. /\ by' \in Seq(Nat \ {0}) /\ Len(by') \in Nat /\ Len(by') \in DOMAIN by'
        /\ by'[Len(by')] = client
        /\ \A n \in DOMAIN by : n \in DOMAIN by' /\ by'[n] = by[n]
    BY <1>t, <2>0
  <2>2. r \in Commands /\ r.kind = "request_web" /\ r.epoch = web /\ r.id = Len(by')
    BY <1>t, <2>1 DEF Request, Commands
  <2>3. commands' \in Seq(Commands) /\ Waiting(commands)' = Waiting(commands) \cup {r}
    <3>1. Waiting(commands)' = Waiting(commands')
      BY DEF Waiting
    <3> HIDE DEF r
    <3> QED
      BY <1>t, <2>0, <2>2, <3>1, WaitingBack
  <2> HIDE DEF r
  <2>4. Asking' = Asking \cup {r}
    BY <2>2, <2>3 DEF Asking
  <2>5. (\A c \in Waiting(commands)' : c.epoch <= web) /\ (\A c \in Asking' : c.id \in DOMAIN by')
    BY <1>t, <2>1, <2>2, <2>3, <2>4 DEF Inv, Epochs
  <2>6. Typed' /\ Epochs' /\ Before'
    BY <1>0, <2>0, <2>1, <2>3, <2>5 DEF Inv, Typed, Epochs, Before
  <2>7. Connected'
    <3>1. client = transport /\ exposed <= transport /\ client \in Nat
      BY <2>0 DEF Inv, Typed, Connected
    <3>2. \A n \in DOMAIN by' : n \in DOMAIN by \/ n = Len(by')
      BY <1>t, <2>0
    <3>3. \A n \in DOMAIN by' : exposed <= by'[n] /\ by'[n] <= transport
      BY <2>1, <3>1, <3>2 DEF Inv, Connected
    <3> QED
      BY <1>0, <3>3 DEF Inv, Connected
  <2>8. CASE ~Settled
    BY <1>0, <2>0, <2>6, <2>7, <2>8 DEF Inv, Exposed
  <2>9. CASE Settled
    <3>1. fenced /\ pending = 0 /\ at = "loop"
      BY <2>0, <2>9 DEF Inv, Connected, Raised
    <3>2. session.state = "WEB_TX" => MayHold(by'[session.lease])
      BY <2>0, <2>1, <2>9, <3>1 DEF Inv, Epochs, Raised
    <3>3. \A c \in Asking' : c.epoch = web => MayHold(by'[c.id])
      BY <2>0, <2>1, <2>2, <2>4, <2>9, <3>1 DEF Inv, Epochs, Raised, MayHold
    <3> QED
      BY <1>0, <2>0, <2>6, <2>7, <2>9, <3>1, <3>2, <3>3 DEF Inv, Raised, Revoking, MayHold
  <2> QED
    BY <2>8, <2>9
<1> QED
  BY <1>1, <1>2

LEMMA OwnerTaskStep ==
  ASSUME Inv, OwnerRequest \/ OwnerRevoke \/ OwnerOther
  PROVE  Inv'
<1> DEFINE c == Head(commands)
<1>0. /\ UNCHANGED <<serial, fenced, pending, at, client, transport, web, by, exposed>>
      /\ Settled' <=> Settled
      /\ commands # << >> /\ commands' = Tail(commands)
  BY DEF OwnerRequest, OwnerRevoke, OwnerOther, Take, link, Settled
<1>t. /\ commands \in Seq(Commands) /\ web \in Nat /\ completed \in Nat
      /\ session \in Sessions /\ session.web \in Nat
  BY DEF Inv, Typed, Sessions
<1>1. /\ commands' \in Seq(Commands) /\ c \in Commands
      /\ Waiting(commands)' \subseteq Waiting(commands) /\ c \in Waiting(commands)
  BY <1>0, <1>t, WaitingTail DEF Waiting
<1>2. c.epoch \in Nat /\ c.id \in Nat /\ c.epoch <= web
  BY <1>t, <1>1, WaitingTyped DEF Inv, Epochs
<1>3. Asking' \subseteq Asking
  BY <1>1 DEF Asking
(* What is left to show of a step: the session and completed. *)
<1>4. ASSUME session' \in Sessions, session'.web <= web, completed' \in Nat, completed' <= web,
             session'.state = "WEB_TX" =>
               \/ session.state = "WEB_TX" /\ session'.lease = session.lease
               \/ c \in Asking /\ c.epoch = web /\ session'.lease = c.id,
             \/ completed' = completed
             \/ completed' = web => session'.state # "WEB_TX"
      PROVE  Inv'
  <2>1. session'.state = "WEB_TX" => session'.lease \in DOMAIN by
    BY <1>4 DEF Inv, Epochs
  <2>2. Typed' /\ Epochs' /\ Connected'
    BY <1>0, <1>1, <1>3, <1>4, <2>1 DEF Inv, Typed, Epochs, Connected
  <2>3. Before'
    BY <1>0 DEF Inv, Before
  <2>4. ASSUME serial = "attached", Settled PROVE Raised'
    BY <1>0, <1>3, <1>4, <2>4 DEF Inv, Raised, MayHold
  <2>5. ASSUME serial = "attached", Settled PROVE Revoking'
    BY <1>0, <1>3, <1>4, <2>5 DEF Inv, Revoking
  <2>6. ASSUME serial = "attached", ~Settled PROVE Exposed'
    BY <1>0, <2>6 DEF Inv, Exposed
  <2> QED
    BY <1>0, <2>2, <2>3, <2>4, <2>5, <2>6 DEF Inv
<1> HIDE DEF c
<1>5. completed <= web /\ session.web <= web
  BY DEF Inv, Epochs
<1>6. CASE OwnerRequest
  <2>1. completed' = completed /\ c.kind = "request_web"
    BY <1>6 DEF OwnerRequest, Take, c
  <2>2. CASE session' = session
    BY <1>4, <1>5, <1>t, <2>1, <2>2
  <2>3. CASE StillWanted(c) /\ session' = Requested(session, c.id, TRUE)
    <3>1. session' \in Sessions /\ session'.web = session.web /\ session'.lease = c.id
      BY <1>2, <1>t, <2>3, RequestedFacts
    <3>2. c \in Asking /\ c.epoch = web
      BY <1>1, <2>1, <2>3 DEF Asking, StillWanted
    <3> QED
      BY <1>4, <1>5, <1>t, <2>1, <3>1, <3>2
  <2> QED
    BY <1>6, <2>2, <2>3 DEF OwnerRequest, c
<1>7. CASE OwnerRevoke
  <2>1. completed' = c.epoch
    BY <1>7 DEF OwnerRevoke, c
  <2>2. CASE session' = session /\ ~RevokeAdmitted(session, c.epoch)
    <3>1. completed' # web
      BY <1>2, <1>5, <1>t, <2>1, <2>2 DEF RevokeAdmitted
    <3> QED
      BY <1>2, <1>4, <1>5, <1>t, <2>1, <2>2, <3>1
  <2>3. CASE session' = Revoked(session, c.epoch)
    <3>1. session' \in Sessions /\ session'.web = c.epoch /\ session'.state # "WEB_TX"
      BY <1>2, <1>t, <2>3, RevokedFacts
    <3> QED
      BY <1>2, <1>4, <1>5, <1>t, <2>1, <3>1
  <2> QED
    BY <1>7, <2>2, <2>3 DEF OwnerRevoke, c
<1>8. CASE OwnerOther
  <2>1. completed' = completed /\ session' \in {session, ReturnToUsb(session)}
    BY <1>8 DEF OwnerOther
  <2>2. ReturnToUsb(session) \in Sessions /\ ReturnToUsb(session).web = session.web
        /\ ReturnToUsb(session).state # "WEB_TX"
    BY <1>t, ReturnToUsbFacts
  <2> QED
    BY <1>4, <1>5, <1>t, <2>1, <2>2
<1> QED
  BY <1>6, <1>7, <1>8

(* A lease outlives its connection by one connection at most, and only if  *)
(* the serial service was attached between the link's decision to revoke   *)
(* and begin_serial_transport_revoke: otherwise, while a connection is     *)
(* open, the lease on the target's TX is of that connection, whatever the  *)
(* queue and however many connections.                                     *)
THEOREM LeaseFollowsTransport == Spec => []LeaseOutlivesOnce
<1>1. Inv /\ [Next]_vars => Inv'
  <2> SUFFICES ASSUME Inv, [Next]_vars PROVE Inv'
    OBVIOUS
  <2>1. CASE UNCHANGED vars
    <3>1. /\ UNCHANGED <<serial, fenced, pending, at, client, transport, by, web, completed,
                        commands, session, exposed>>
      BY <2>1 DEF vars, link, service
    <3>2. Waiting(commands)' = Waiting(commands) /\ Asking' = Asking
      BY <3>1 DEF Waiting, Asking
    <3> QED
      BY <3>1, <3>2 DEF Inv, Typed, Epochs, Connected, Before, Raised, Revoking, Exposed,
                        Settled, MayHold
  <2> QED
    BY <2>1, ApplicationStep, LinkTaskStep, ProducerStep, OwnerTaskStep DEF Next
<1>2. Inv => LeaseOutlivesOnce
  <2> SUFFICES ASSUME Inv, serial = "attached", client # 0, session.state = "WEB_TX"
               PROVE  MayHold(by[session.lease])
    BY DEF LeaseOutlivesOnce, MayHold
  <2>1. /\ session.lease \in DOMAIN by /\ by[session.lease] \in Nat
        /\ exposed <= by[session.lease] /\ by[session.lease] <= transport
        /\ fenced /\ client = transport /\ exposed <= transport
        /\ transport \in Nat /\ exposed \in Nat
    BY DEF Inv, Typed, Epochs, Connected
  <2>2. CASE Settled
    BY <2>1, <2>2 DEF Inv, Raised
  <2>3. CASE ~Settled
    BY <2>1, <2>3 DEF Settled, MayHold
  <2> QED
    BY <2>2, <2>3
<1> QED
  BY <1>1, <1>2, Initially, PTL DEF Spec
=============================================================================
