------------------------------ MODULE SerialLease ------------------------------
(***************************************************************************)
(* The Web TX Lease from browser to target: the Companion's LeaseManager   *)
(* and serial Service (companion/internal/serialhub) with the runtime's    *)
(* observer handlers and lease supervisor (runtime/serial_http.go), the    *)
(* Device Link between, and on the Deck the link's request tracker and the *)
(* serial owner (modelled in detail in SerialService).                     *)
(*                                                                         *)
(* A handler decides under the service's lock and writes to the Deck after *)
(* it: outbox holds what was decided and not yet written, and it is        *)
(* written to whatever connection is current by then.  Either end may drop *)
(* the link at any time, and the Companion may restart.  IDs of requests   *)
(* start again with the process; the Deck's lease IDs do not.              *)
(***************************************************************************)
EXTENDS Naturals, Sequences, FiniteSets

CONSTANTS
    Clients,        \* browsers, each with the random ID of one visit
    NoClient,
    MaxID,          \* bound: request IDs of one Companion process
    MaxSession,     \* bound: serial sessions of the Deck
    MaxLease,       \* bound: leases the Deck grants
    MaxTyped,       \* bound: Web frames of one session
    MaxWire,        \* bound: messages under way in each direction
    MaxBreaks       \* bound: lost links and Companion restarts

VARIABLES
    svc,            \* Service: [state, session, sequence]
    lease,          \* LeaseManager.status
    pending,        \* pendingID, pendingEnable, and the claim of an attempt
    nextID,
    outbox,         \* decided, not yet written
    browser,        \* each client: "new", "open", "gone"
    conn,           \* the hub's connection: "none", "serving", "ending"
    toDeck, toCompanion,
    deckUp,         \* the Deck's transport is open
    deck,           \* the Deck's serial owner and link state; published says that
                    \* the owner generation is still the one last reported
    grants,         \* ghost: the client behind each lease the Deck granted
    foreign,        \* ghost: a frame was submitted of a client that never held a lease
    breaks

companion == <<svc, lease, pending, nextID, browser>>
vars == <<svc, lease, pending, nextID, outbox, browser, conn, toDeck,
          toCompanion, deckUp, deck, grants, foreign, breaks>>

NoLease(s, owner) ==
    [session |-> s, client |-> NoClient, owner |-> owner, id |-> 0]

NoRequest == [id |-> 0, enable |-> FALSE, claimed |-> FALSE]

Request(id, enable, s, c) ==
    [kind |-> "request", id |-> id, enable |-> enable, session |-> s, client |-> c]

NoResult == [id |-> 0, accepted |-> FALSE, owner |-> "none", session |-> 0, lease |-> 0]

\* The link's view of the serial owner at the start of a transport.
FreshLink(d) ==
    [d EXCEPT !.tracker = 0, !.queue = <<>>, !.result = NoResult,
              !.published = FALSE, !.order = 0]

Init ==
    /\ svc = [state |-> "disarmed", session |-> 0, sequence |-> 0]
    /\ lease = NoLease(0, "unavailable")
    /\ pending = NoRequest
    /\ nextID = 1
    /\ outbox = {}
    /\ browser = [c \in Clients |-> "new"]
    /\ conn = "none"
    /\ toDeck = <<>> /\ toCompanion = <<>>
    /\ deckUp = FALSE
    /\ deck = [state |-> "disarmed", session |-> 0, lease |-> 0, tracker |-> 0,
               queue |-> <<>>, result |-> NoResult, published |-> FALSE, order |-> 0]
    /\ grants = <<>>
    /\ foreign = FALSE
    /\ breaks = 0

-----------------------------------------------------------------------------
\* LeaseManager.

\* nextRequestLocked replaces whatever was pending.
NextRequest(enable) ==
    /\ nextID <= MaxID
    /\ nextID' = nextID + 1
    /\ pending' = [id |-> nextID, enable |-> enable, claimed |-> FALSE]

\* A pending disable is kept and sent again; otherwise a new one is made.
Disable(status) ==
    IF pending.id # 0 /\ ~pending.enable
    THEN UNCHANGED <<nextID, pending, lease>>
    ELSE NextRequest(FALSE) /\ lease' = status

Transitioning == [lease EXCEPT !.owner = "transitioning"]

\* One goroutine serves a browser: it writes what it decided before the next input.
Idle(c) == browser[c] = "open" /\ \A x \in outbox : x.kind # "request" => x.client # c

\* AcquireLease, for a browser that observes the current session.
Acquire(c) ==
    /\ Idle(c)
    /\ svc.state # "disarmed"
    /\ lease.client = NoClient /\ pending.id = 0 /\ lease.owner # "web"
    /\ NextRequest(TRUE)
    /\ lease' = [NoLease(svc.session, "transitioning") EXCEPT !.client = c]
    /\ UNCHANGED <<svc, browser, outbox, conn, toDeck, toCompanion, deckUp, deck,
                   grants, foreign, breaks>>

\* serial.lease.release, and the end of the observer's WebSocket.
HoldsLease(c) == lease.client = c /\ lease.session # 0

Release(c) ==
    /\ Idle(c) /\ HoldsLease(c) /\ lease.id # 0
    /\ Disable(Transitioning)
    /\ UNCHANGED <<svc, browser, outbox, conn, toDeck, toCompanion, deckUp, deck,
                   grants, foreign, breaks>>

BrowserOpens(c) ==
    /\ browser[c] = "new" /\ svc.session # 0
    /\ browser' = [browser EXCEPT ![c] = "open"]
    /\ UNCHANGED <<svc, lease, pending, nextID, outbox, conn, toDeck,
                   toCompanion, deckUp, deck, grants, foreign, breaks>>

BrowserLeaves(c) ==
    /\ Idle(c)
    /\ browser' = [browser EXCEPT ![c] = "gone"]
    /\ IF HoldsLease(c) THEN Disable(Transitioning)
                        ELSE UNCHANGED <<nextID, pending, lease>>
    /\ UNCHANGED <<svc, outbox, conn, toDeck, toCompanion, deckUp, deck, grants,
                   foreign, breaks>>

\* serial.lease.heartbeat renews the lease here and asks the Deck to.
HeartbeatLease(c) ==
    /\ Idle(c) /\ svc.state = "web_tx"
    /\ lease.owner = "web" /\ lease.client = c
    /\ outbox' = outbox \union {[kind |-> "activity", session |-> lease.session,
                                 lease |-> lease.id, client |-> c]}
    /\ UNCHANGED <<companion, conn, toDeck, toCompanion, deckUp, deck, grants,
                   foreign, breaks>>

\* The supervisor, or an observer's poll: the lease's time may be up at any poll.
ExpireLease ==
    /\ lease.owner = "web"
    /\ NextRequest(FALSE)
    /\ lease' = Transitioning
    /\ UNCHANGED <<svc, browser, outbox, conn, toDeck, toCompanion, deckUp, deck,
                   grants, foreign, breaks>>

\* sendSerialOwnerRequest up to the claim: one attempt is under way at a time.
ClaimRequestAttempt ==
    /\ pending.id # 0 /\ ~pending.claimed /\ svc.session = lease.session
    /\ pending' = [pending EXCEPT !.claimed = TRUE]
    /\ outbox' = outbox \union
          {Request(pending.id, pending.enable, lease.session, lease.client)}
    /\ UNCHANGED <<svc, lease, nextID, browser, conn, toDeck, toCompanion,
                   deckUp, deck, grants, foreign, breaks>>

\* The interval between attempts has passed, the last one answered or not: a
\* write may take longer than the interval.
RetryDue ==
    /\ pending.id # 0 /\ pending.claimed
    /\ pending' = [pending EXCEPT !.claimed = FALSE]
    /\ UNCHANGED <<svc, lease, nextID, outbox, browser, conn, toDeck,
                   toCompanion, deckUp, deck, grants, foreign, breaks>>

\* BuildWebFrame for the holder.  The frame names no lease.
BuildWebFrame(c) ==
    /\ Idle(c) /\ svc.state = "web_tx"
    /\ lease.owner = "web" /\ lease.client = c /\ lease.id # 0
    /\ svc.sequence < MaxTyped
    /\ svc' = [svc EXCEPT !.sequence = @ + 1]
    /\ outbox' = outbox \union {[kind |-> "frame", session |-> lease.session,
                                 sequence |-> svc.sequence + 1, client |-> c]}
    /\ UNCHANGED <<lease, pending, nextID, browser, conn, toDeck, toCompanion,
                   deckUp, deck, grants, foreign, breaks>>

\* Hub.Send...: on the current connection, or into the void.
Write(x) ==
    /\ outbox' = outbox \ {x}
    /\ IF conn = "serving" /\ deckUp
       THEN Len(toDeck) < MaxWire /\ toDeck' = Append(toDeck, x)
       ELSE UNCHANGED toDeck
    /\ UNCHANGED <<companion, conn, toCompanion, deckUp, deck, grants, foreign,
                   breaks>>

-----------------------------------------------------------------------------
\* The Companion receives.

\* Service.Reconcile: the state and the session a Deck reports.
Ended(s) == IF lease.session = s THEN NoLease(0, "unavailable") ELSE lease

Reconcile(state, s) ==
    IF state = "disarmed"
    THEN /\ lease' = IF svc.session # 0 THEN Ended(svc.session) ELSE lease
         /\ pending' = IF svc.session # 0 /\ lease.session = svc.session
                       THEN NoRequest ELSE pending
         /\ svc' = [state |-> "disarmed", session |-> 0, sequence |-> 0]
    ELSE LET moved == svc.session # s
             ended == svc.session # 0 /\ moved /\ lease.session = svc.session
             left == IF ended THEN NoRequest ELSE pending
             waits == ~moved /\ pending.id # 0
         IN  /\ svc' = [state |-> IF state = "usb_tx" /\ waits THEN svc.state ELSE state,
                        session |-> s,
                        sequence |-> IF moved THEN 0 ELSE svc.sequence]
             /\ IF state = "usb_tx" /\ ~waits
                THEN lease' = NoLease(s, "usb") /\ pending' = NoRequest
                ELSE /\ lease' = IF ended THEN NoLease(0, "unavailable") ELSE lease
                     /\ pending' = left

ReceiveState ==
    /\ conn = "serving" /\ toCompanion # <<>> /\ Head(toCompanion).kind = "state"
    /\ Reconcile(Head(toCompanion).state, Head(toCompanion).session)
    /\ toCompanion' = Tail(toCompanion)
    /\ UNCHANGED <<nextID, outbox, browser, conn, toDeck, deckUp, deck, grants,
                   foreign, breaks>>

\* A result answers the pending request exactly.
Expected(r) ==
    /\ r.session # 0 /\ r.session = svc.session
    /\ pending.id # 0 /\ r.session = lease.session /\ r.id = pending.id
    /\ r.accepted => IF pending.enable THEN r.owner = "web" /\ r.lease # 0
                                       ELSE r.owner = "usb" /\ r.lease = 0

\* ApplyOwnerResult, ApplyOwnerRejection.
Applied(r) ==
    IF r.accepted /\ pending.enable
    THEN [lease EXCEPT !.owner = "web", !.id = r.lease]
    ELSE IF r.owner = "usb" /\ r.lease = 0 THEN NoLease(r.session, "usb")
    ELSE NoLease(r.session, "unavailable")

\* A result that answers nothing ends the connection.
ReceiveResult ==
    /\ conn = "serving" /\ toCompanion # <<>> /\ Head(toCompanion).kind = "result"
    /\ LET r == Head(toCompanion).result
       IN  \/ /\ Expected(r)
              /\ lease' = Applied(r)
              /\ pending' = NoRequest
              /\ svc' = [svc EXCEPT !.state = CASE r.owner = "usb" -> "usb_tx"
                                                [] r.owner = "web" -> "web_tx"
                                                [] OTHER -> @]
              /\ UNCHANGED conn
           \/ /\ ~Expected(r)
              /\ conn' = "ending"
              /\ UNCHANGED <<svc, lease, pending>>
    /\ toCompanion' = Tail(toCompanion)
    /\ UNCHANGED <<nextID, outbox, browser, toDeck, deckUp, deck, grants,
                   foreign, breaks>>

\* The hub ends the connection for a reason of its own, or finds it broken.
HubDrops ==
    /\ conn = "serving" /\ (deckUp => breaks < MaxBreaks)
    /\ conn' = "ending"
    /\ breaks' = IF deckUp THEN breaks + 1 ELSE breaks
    /\ UNCHANGED <<companion, outbox, toDeck, toCompanion, deckUp, deck, grants,
                   foreign>>

\* OnDisconnect: RequireOwnerRevocation.
OnDisconnect ==
    /\ conn = "ending"
    /\ conn' = "none"
    /\ toCompanion' = <<>>
    /\ IF svc.session # 0 /\ (svc.state = "web_tx" \/ lease.owner \in {"web", "transitioning"})
       THEN IF pending.id # 0 /\ ~pending.enable /\ lease.session = svc.session
            THEN UNCHANGED <<nextID, pending, lease>>
            ELSE /\ NextRequest(FALSE)
                 /\ lease' = [lease EXCEPT !.session = svc.session, !.id = 0,
                                 !.owner = "transitioning"]
       ELSE UNCHANGED <<nextID, pending, lease>>
    /\ UNCHANGED <<svc, browser, outbox, toDeck, deckUp, deck, grants, foreign, breaks>>

\* The process ends and another begins: browsers, requests and links are gone.
Restart ==
    /\ breaks < MaxBreaks
    /\ breaks' = breaks + 1
    /\ svc' = [state |-> "disarmed", session |-> 0, sequence |-> 0]
    /\ lease' = NoLease(0, "unavailable")
    /\ pending' = NoRequest /\ nextID' = 1 /\ outbox' = {}
    /\ browser' = [c \in Clients |-> IF browser[c] = "open" THEN "gone" ELSE browser[c]]
    /\ conn' = "none" /\ toCompanion' = <<>> /\ toDeck' = <<>>
    /\ UNCHANGED <<deckUp, deck, grants, foreign>>

-----------------------------------------------------------------------------
\* The Deck.

\* The serial page: KEY enters a session, BOOT leaves it.
Enter ==
    /\ deck.state = "disarmed" /\ deck.session < MaxSession
    /\ deck' = [deck EXCEPT !.state = "usb_tx", !.session = @ + 1,
                              !.published = FALSE]
    /\ UNCHANGED <<companion, outbox, conn, toDeck, toCompanion, deckUp, grants,
                   foreign, breaks>>

Exit ==
    /\ deck.state # "disarmed"
    /\ deck' = [deck EXCEPT !.state = "disarmed", !.lease = 0, !.published = FALSE]
    /\ UNCHANGED <<companion, outbox, conn, toDeck, toCompanion, deckUp, grants,
                   foreign, breaks>>

\* Mutant of ReturnToUSB: the owner generation is not advanced.
ReturnToUSBSilently(d) ==
    IF d.state = "web_tx" THEN [d EXCEPT !.state = "usb_tx", !.lease = 0] ELSE d

ReturnToUSB(d) ==
    IF d.state = "web_tx"
    THEN [d EXCEPT !.state = "usb_tx", !.lease = 0, !.published = FALSE]
    ELSE d

\* A lease lasts ten minutes: its result has long been written when it expires.
Expire ==
    /\ deck.state = "web_tx" /\ deck.result.lease # deck.lease
    /\ deck' = ReturnToUSB(deck)
    /\ UNCHANGED <<companion, outbox, conn, toDeck, toCompanion, deckUp, grants,
                   foreign, breaks>>

\* disconnect_transport and the owner's revocation of the Web transport, which
\* the link awaits before it connects again.
Dropped(d) == FreshLink(ReturnToUSB(d))

DeckDrops ==
    /\ deckUp /\ (conn # "none" => breaks < MaxBreaks)
    /\ breaks' = IF conn # "none" THEN breaks + 1 ELSE breaks
    /\ deckUp' = FALSE
    /\ toDeck' = <<>>
    /\ deck' = Dropped(deck)
    /\ UNCHANGED <<companion, outbox, conn, toCompanion, grants, foreign>>

Wire(d) == IF d.state = "disarmed" THEN 0 ELSE d.session

\* A new transport: the hello reports the serial state.
Connect ==
    /\ ~deckUp /\ conn = "none"
    /\ deckUp' = TRUE /\ conn' = "serving"
    /\ deck' = [deck EXCEPT !.published = TRUE]
    /\ Reconcile(deck.state, Wire(deck))
    /\ UNCHANGED <<nextID, outbox, browser, toDeck, toCompanion, grants, foreign, breaks>>

\* send_serial_state_if_changed
PublishState ==
    /\ deckUp /\ conn # "none" /\ ~deck.published
    /\ Len(toCompanion) < MaxWire
    /\ deck' = [deck EXCEPT !.published = TRUE,
                            !.order = IF deck.state = "disarmed" THEN 0 ELSE @]
    /\ toCompanion' = Append(toCompanion, [kind |-> "state", state |-> deck.state,
                                           session |-> Wire(deck)])
    /\ UNCHANGED <<companion, outbox, conn, toDeck, deckUp, grants, foreign, breaks>>

Message == Head(toDeck)

Take == deckUp /\ toDeck # <<>> /\ toDeck' = Tail(toDeck)

\* Whatever the Deck does not expect ends the transport.
Refuses(d, m) ==
    \/ d.state = "disarmed" \/ m.session # d.session
    \/ m.kind = "request" /\ d.tracker \notin {0, m.id}
    \/ m.kind = "activity" /\ (d.state # "web_tx" \/ m.lease # d.lease)
    \/ m.kind = "frame" /\ (d.state # "web_tx" \/ m.sequence <= d.order)

Refuse ==
    /\ deckUp /\ toDeck # <<>> /\ Refuses(deck, Message)
    /\ deckUp' = FALSE /\ toDeck' = <<>>
    /\ deck' = Dropped(deck)
    /\ UNCHANGED <<companion, outbox, conn, toCompanion, grants, foreign, breaks>>

\* handle_serial_control: a request is tracked and queued for the owner; the
\* one already tracked is a replay.
TakeRequest ==
    /\ Take /\ Message.kind = "request" /\ ~Refuses(deck, Message)
    /\ deck' = IF deck.tracker = Message.id THEN deck
               ELSE [deck EXCEPT !.tracker = Message.id,
                                 !.queue = Append(@, Message)]
    /\ UNCHANGED <<companion, outbox, conn, toCompanion, deckUp, grants, foreign, breaks>>

TakeActivity ==
    /\ Take /\ Message.kind = "activity" /\ ~Refuses(deck, Message)
    /\ UNCHANGED <<companion, outbox, conn, toCompanion, deckUp, deck, grants,
                   foreign, breaks>>

\* handle_serial_binary: submitted under the lease in place.
TakeFrame ==
    /\ Take /\ Message.kind = "frame" /\ ~Refuses(deck, Message)
    /\ deck' = [deck EXCEPT !.order = Message.sequence]
    /\ foreign' = (foreign \/ \A i \in DOMAIN grants : grants[i] # Message.client)
    /\ UNCHANGED <<companion, outbox, conn, toCompanion, deckUp, grants, breaks>>

Result(d, m, accepted) ==
    [id |-> m.id, accepted |-> accepted, session |-> Wire(d), lease |-> d.lease,
     owner |-> CASE d.state = "usb_tx" -> "usb" [] d.state = "web_tx" -> "web"
                 [] OTHER -> "unavailable"]

\* The owner task applies a request, or finds its session over.
OwnerApplies ==
    /\ deck.queue # <<>>
    /\ LET m == Head(deck.queue)
           current == deck.state # "disarmed" /\ m.session = deck.session
           given == [deck EXCEPT !.state = "web_tx", !.lease = Len(grants) + 1,
                                 !.published = FALSE]
           after == IF ~current THEN deck
                    ELSE IF m.enable THEN given ELSE ReturnToUSB(deck)
       IN  /\ current /\ m.enable => Len(grants) < MaxLease
           /\ deck' = [after EXCEPT !.queue = Tail(@), !.result = Result(after, m, current)]
           /\ grants' = IF current /\ m.enable THEN Append(grants, m.client) ELSE grants
    /\ UNCHANGED <<companion, outbox, conn, toDeck, toCompanion, deckUp, foreign, breaks>>

\* send_pending_serial_owner_result
SendResult ==
    /\ deckUp /\ conn # "none" /\ deck.tracker # 0 /\ deck.result.id = deck.tracker
    /\ Len(toCompanion) < MaxWire
    /\ toCompanion' = Append(toCompanion, [kind |-> "result", result |-> deck.result])
    /\ deck' = [deck EXCEPT !.tracker = 0, !.result = NoResult]
    /\ UNCHANGED <<companion, outbox, conn, toDeck, deckUp, grants, foreign, breaks>>

-----------------------------------------------------------------------------
Next ==
    \/ \E c \in Clients :
          \/ Acquire(c) \/ Release(c) \/ BrowserOpens(c) \/ BrowserLeaves(c)
          \/ HeartbeatLease(c) \/ BuildWebFrame(c)
    \/ ExpireLease \/ ClaimRequestAttempt \/ RetryDue
    \/ \E x \in outbox : Write(x)
    \/ ReceiveState \/ ReceiveResult \/ HubDrops \/ OnDisconnect \/ Restart
    \/ Enter \/ Exit \/ Expire \/ DeckDrops \/ Connect \/ PublishState
    \/ Refuse \/ TakeRequest \/ TakeActivity \/ TakeFrame \/ OwnerApplies \/ SendResult

Spec == Init /\ [][Next]_vars

-----------------------------------------------------------------------------
\* A lease the Companion shows as held was granted by the Deck to the very
\* browser that is shown as its holder: no late, repeated or foreign result,
\* and no ID of an earlier process, passes for it.
HolderWasGranted ==
    lease.owner = "web" =>
        lease.id \in DOMAIN grants /\ grants[lease.id] = lease.client

\* Nothing is under way between the two ends.
Quiet ==
    /\ conn = "serving" /\ deckUp /\ pending.id = 0
    /\ outbox = {} /\ toDeck = <<>> /\ toCompanion = <<>>
    /\ deck.queue = <<>> /\ deck.tracker = 0
    /\ deck.published

\* Once everything said has been heard, both ends agree on the session, on the
\* owner of the target's TX and on the lease, after any order of results, state
\* reports, expiries, lost links and restarts.
QuietMeansAgreed ==
    Quiet =>
        /\ svc.session = Wire(deck)
        /\ lease.owner = "web" <=> deck.state = "web_tx"
        /\ lease.owner = "web" => lease.id = deck.lease
        /\ svc.state = deck.state

\* Input that reaches the target comes from a browser the Deck has granted a
\* lease.  It need not hold the present one: a frame is built under the lock and
\* written after it (serial_http.go, handleSerialObserverInput), names no lease,
\* and is submitted under whichever is in place (handle_serial_binary).
StrangersAreSilent == ~foreign

\* A frame the Deck is about to submit comes from the browser that holds the
\* lease in place (handleSerialObserverInput, handle_serial_binary).  The code
\* does not keep this with a second lease: no run checks it, see README.md.
InputIsHolders ==
    deckUp /\ toDeck # <<>> /\ Message.kind = "frame" /\ ~Refuses(deck, Message)
        => grants[deck.lease] = Message.client
=============================================================================
