------------------------------- MODULE DeviceHub -------------------------------
(***************************************************************************)
(* The Companion's Device Link hub (companion/internal/devicelink/hub.go): *)
(* one goroutine per WebSocket connection runs ServeHTTP, a publisher      *)
(* replaces the latest snapshot document, the owner may Close the hub and  *)
(* revoke or rotate a Deck's trust at any time.  All of them meet in the   *)
(* maps under hub.mu, which a goroutine holds only between two network     *)
(* operations or callbacks; an action is one such critical section with    *)
(* the network operation or callback next to it.                           *)
(*                                                                         *)
(* A connection is a slot of Conns that is reused once its goroutine has   *)
(* ended.  Request IDs and ring sequence numbers are abstracted to what    *)
(* they tell apart: whether an answer is outstanding, and who reported     *)
(* least recently.                                                         *)
(***************************************************************************)
EXTENDS Naturals, Sequences, FiniteSets

CONSTANTS
    Devices,        \* Deck device IDs
    Conns,          \* slots for concurrent WebSocket connections
    None,           \* no connection, no Deck
    MaxRings,       \* maximumDiagnosticRings
    MaxPublish,     \* bound: documents published
    MaxTrust        \* bound: versions of a Deck's trust, a revocation being one

ASSUME HubAssumption == None \notin Conns

VARIABLES
    trust,          \* pairing store: the version of each Deck's trust, and if it holds
    closed,         \* hub.closed and hub.done
    added,          \* hub.connections
    sessions,       \* hub.sessions
    disconnecting,  \* hub.disconnecting
    signal,         \* the connections whose snapshot channel holds a token
    document,       \* generation of hub.latestSnapshot, 0 = nil
    generation,     \* hub.snapshotGeneration
    expected,       \* connections with an entry in hub.diagnosticExpected
    rings,          \* Decks in hub.diagnosticRings, the least recent first
    pending,        \* channels PublishSnapshot has collected and not yet signalled
    phase,          \* where each connection's goroutine is
    device, token,  \* what each connection authenticated with
    written,        \* snapshotGeneration local to serveConnection
    copy,           \* the generation writeLatestSnapshot is writing
    view            \* what the callbacks last told the serial hub: connection or None

connVars == <<phase, device, token, written, copy>>
mapVars == <<added, sessions, disconnecting, signal, expected>>
vars == <<trust, closed, added, sessions, disconnecting, signal, document,
          generation, expected, rings, pending, phase, device, token, written,
          copy, view>>

Phases == {"free", "verified", "hello", "reserved", "greeting", "fetch",
           "writing", "loop", "ticked", "leaving", "removed", "told"}

\* The goroutine has reserved the Deck's session and runs serveConnection.
Serving == {"greeting", "fetch", "writing", "loop", "ticked"}

TypeOK ==
    /\ trust \in [Devices -> [issued : 1..MaxTrust, valid : BOOLEAN]]
    /\ closed \in BOOLEAN
    /\ added \subseteq Conns /\ signal \subseteq Conns
    /\ expected \subseteq Conns /\ pending \subseteq Conns
    /\ sessions \in [Devices -> Conns \union {None}]
    /\ disconnecting \in [Devices -> Conns \union {None}]
    /\ generation \in 0..MaxPublish /\ document \in {0, generation}
    /\ rings \in Seq(Devices) /\ Len(rings) <= MaxRings
    /\ \A i, j \in 1..Len(rings) : rings[i] = rings[j] => i = j
    /\ phase \in [Conns -> Phases]
    /\ device \in [Conns -> Devices \union {None}]
    /\ token \in [Conns -> 0..MaxTrust]
    /\ written \in [Conns -> 0..MaxPublish]
    /\ copy \in [Conns -> 0..MaxPublish]
    /\ view \in [Devices -> Conns \union {None}]

Init ==
    /\ trust = [d \in Devices |-> [issued |-> 1, valid |-> TRUE]]
    /\ closed = FALSE
    /\ added = {} /\ signal = {} /\ expected = {} /\ pending = {}
    /\ sessions = [d \in Devices |-> None]
    /\ disconnecting = [d \in Devices |-> None]
    /\ generation = 0 /\ document = 0
    /\ rings = <<>>
    /\ phase = [c \in Conns |-> "free"]
    /\ device = [c \in Conns |-> None]
    /\ token = [c \in Conns |-> 0]
    /\ written = [c \in Conns |-> 0]
    /\ copy = [c \in Conns |-> 0]
    /\ view = [d \in Devices |-> None]

Goto(c, p) == phase' = [phase EXCEPT ![c] = p]

\* ServeHTTP returns and its locals are gone.
Return(c) ==
    /\ Goto(c, "free")
    /\ device' = [device EXCEPT ![c] = None]
    /\ token' = [token EXCEPT ![c] = 0]
    /\ written' = [written EXCEPT ![c] = 0]
    /\ copy' = [copy EXCEPT ![c] = 0]

Verified(d, t) == trust[d] = [issued |-> t, valid |-> TRUE]

-----------------------------------------------------------------------------
\* The trust store: pairing again or a rotation replaces the token, a
\* revocation removes it.

Rotate(d) ==
    /\ trust[d].issued < MaxTrust
    /\ trust' = [trust EXCEPT ![d] = [issued |-> @.issued + 1, valid |-> TRUE]]
    /\ UNCHANGED <<closed, mapVars, document, generation, rings, pending,
                   connVars, view>>

Revoke(d) ==
    /\ trust[d].valid /\ trust[d].issued < MaxTrust
    /\ trust' = [trust EXCEPT ![d] = [issued |-> @.issued + 1, valid |-> FALSE]]
    /\ UNCHANGED <<closed, mapVars, document, generation, rings, pending,
                   connVars, view>>

-----------------------------------------------------------------------------
\* ServeHTTP up to addConnection.  A request that fails to verify, or finds
\* the hub closed, ends without a trace but a counter.

Authenticate(c, d, t) ==
    /\ phase[c] = "free"
    /\ ~closed /\ Verified(d, t)
    /\ Goto(c, "verified")
    /\ device' = [device EXCEPT ![c] = d]
    /\ token' = [token EXCEPT ![c] = t]
    /\ UNCHANGED <<trust, closed, mapVars, document, generation, rings,
                   pending, written, copy, view>>

\* websocket.Accept may fail; addConnection refuses a closed hub.
AddConnection(c) ==
    /\ phase[c] = "verified"
    /\ \/ /\ ~closed
          /\ added' = added \union {c}
          /\ Goto(c, "hello")
          /\ UNCHANGED <<device, token, written, copy>>
       \/ /\ Return(c)
          /\ UNCHANGED added
    /\ UNCHANGED <<trust, closed, sessions, disconnecting, signal, expected,
                   document, generation, rings, pending, view>>

\* Mutant of MayReserve: the disconnect callback still running is forgotten.
MayReserveEarly(d) == ~closed /\ sessions[d] = None

MayReserve(d) == ~closed /\ sessions[d] = None /\ disconnecting[d] = None

\* A device.hello arrives and reserves the Deck, or anything else ends the
\* connection: a read error, the hello time-out, a malformed hello.
Reserve(c) ==
    /\ phase[c] = "hello"
    /\ MayReserve(device[c])
    /\ sessions' = [sessions EXCEPT ![device[c]] = c]
    /\ signal' = signal \ {c}
    /\ Goto(c, "reserved")
    /\ UNCHANGED <<trust, closed, added, disconnecting, expected, document,
                   generation, rings, pending, device, token, written, copy,
                   view>>

HelloFails(c) ==
    /\ phase[c] = "hello"
    /\ Goto(c, "leaving")
    /\ UNCHANGED <<trust, closed, mapVars, document, generation, rings,
                   pending, device, token, written, copy, view>>

\* onSerialState, then onDeviceProfile.  Either way the serial hub has heard
\* of the Deck through this connection.
FirstState(c) ==
    /\ phase[c] = "reserved"
    /\ view' = [view EXCEPT ![device[c]] = c]
    /\ \E p \in {"greeting", "leaving"} : Goto(c, p)
    /\ UNCHANGED <<trust, closed, mapVars, document, generation, rings,
                   pending, device, token, written, copy>>

\* writeHeartbeat, requestDiagnostics and, after the hello, the serial history
\* request.  An unanswered diagnostics request is not repeated.
Greet(c) ==
    /\ phase[c] \in {"greeting", "ticked"}
    /\ \/ /\ Goto(c, "leaving")
          /\ UNCHANGED expected
       \/ /\ ~closed
          /\ Goto(c, IF phase[c] = "greeting" THEN "fetch" ELSE "loop")
          /\ expected' \in {expected, expected \union {c}}
    /\ UNCHANGED <<trust, closed, added, sessions, disconnecting, signal,
                   document, generation, rings, pending, device, token,
                   written, copy, view>>

-----------------------------------------------------------------------------
\* writeLatestSnapshot: copy the document under the lock, write it after.

Stale(c) == generation # written[c] /\ document # 0

ReadLatest(c) ==
    IF Stale(c)
    THEN copy' = [copy EXCEPT ![c] = generation] /\ Goto(c, "writing")
    ELSE Goto(c, "loop") /\ UNCHANGED copy

Fetch(c) ==
    /\ phase[c] = "fetch"
    /\ ReadLatest(c)
    /\ UNCHANGED <<trust, closed, mapVars, document, generation, rings,
                   pending, device, token, written, view>>

WriteSnapshot(c) ==
    /\ phase[c] = "writing"
    /\ \/ /\ written' = [written EXCEPT ![c] = copy[c]]
          /\ Goto(c, "loop")
       \/ /\ Goto(c, "leaving")
          /\ UNCHANGED written
    /\ UNCHANGED <<trust, closed, mapVars, document, generation, rings,
                   pending, device, token, copy, view>>

\* case <-snapshotSignal
Wake(c) ==
    /\ phase[c] = "loop" /\ c \in signal
    /\ signal' = signal \ {c}
    /\ ReadLatest(c)
    /\ UNCHANGED <<trust, closed, added, sessions, disconnecting, expected,
                   document, generation, rings, pending, device, token,
                   written, view>>

-----------------------------------------------------------------------------
\* The other cases of the select loop.

\* Mutant of Tick: the ticker only sends the heartbeat.
TickTrusting(c) ==
    /\ phase[c] = "loop"
    /\ Goto(c, "ticked")
    /\ UNCHANGED <<trust, closed, mapVars, document, generation, rings,
                   pending, device, token, written, copy, view>>

\* case <-heartbeatTicker.C: the trust is verified again.
Tick(c) ==
    /\ phase[c] = "loop"
    /\ Goto(c, IF Verified(device[c], token[c]) THEN "ticked" ELSE "leaving")
    /\ UNCHANGED <<trust, closed, mapVars, document, generation, rings,
                   pending, device, token, written, copy, view>>

\* case <-hub.done
Done(c) ==
    /\ phase[c] = "loop" /\ closed
    /\ Goto(c, "leaving")
    /\ UNCHANGED <<trust, closed, mapVars, document, generation, rings,
                   pending, device, token, written, copy, view>>

\* case <-requestContext.Done(), case <-heartbeatTimer.C, a read error, a
\* malformed message or one its callback refuses.
Drop(c) ==
    /\ phase[c] = "loop"
    /\ Goto(c, "leaving")
    /\ UNCHANGED <<trust, closed, mapVars, document, generation, rings,
                   pending, device, token, written, copy, view>>

\* A serial.state message: the callback reports the Deck.  A heartbeat, a
\* serial frame, an owner or an OTA result change no state of the hub.
State(c) ==
    /\ phase[c] = "loop"
    /\ view' = [view EXCEPT ![device[c]] = c]
    /\ UNCHANGED <<trust, closed, mapVars, document, generation, rings,
                   pending, connVars>>

Without(d) == SelectSeq(rings, LAMBDA e : e # d)

Remember(d) ==
    IF Without(d) = rings /\ Len(rings) >= MaxRings
    THEN Append(Tail(rings), d)
    ELSE Append(Without(d), d)

\* A diagnostics.snapshot that answers the outstanding request is kept; any
\* other closes the connection (Drop).
AcceptDiagnostics(c) ==
    /\ phase[c] = "loop"
    /\ ~closed /\ sessions[device[c]] = c /\ c \in expected
    /\ expected' = expected \ {c}
    /\ rings' = Remember(device[c])
    /\ UNCHANGED <<trust, closed, added, sessions, disconnecting, signal,
                   document, generation, pending, connVars, view>>

-----------------------------------------------------------------------------
\* removeConnection, in its two critical sections with onDisconnect between,
\* then CloseNow.  The channel becomes garbage: a send still pending on it is
\* seen by nobody.

\* Mutant of Remove: a closed hub skips the callback.
RemoveQuietly(c) ==
    /\ phase[c] = "leaving"
    /\ added' = added \ {c}
    /\ signal' = signal \ {c}
    /\ pending' = pending \ {c}
    /\ expected' = expected \ {c}
    /\ IF sessions[device[c]] = c /\ ~closed
       THEN /\ sessions' = [sessions EXCEPT ![device[c]] = None]
            /\ disconnecting' = [disconnecting EXCEPT ![device[c]] = c]
            /\ Goto(c, "removed")
            /\ UNCHANGED <<device, token, written, copy>>
       ELSE /\ Return(c)
            /\ sessions' = [d \in Devices |-> IF sessions[d] = c THEN None ELSE sessions[d]]
            /\ UNCHANGED disconnecting
    /\ UNCHANGED <<trust, closed, document, generation, rings, view>>

Remove(c) ==
    /\ phase[c] = "leaving"
    /\ added' = added \ {c}
    /\ signal' = signal \ {c}
    /\ pending' = pending \ {c}
    /\ expected' = expected \ {c}
    /\ IF sessions[device[c]] = c
       THEN /\ sessions' = [sessions EXCEPT ![device[c]] = None]
            /\ disconnecting' = [disconnecting EXCEPT ![device[c]] = c]
            /\ Goto(c, "removed")
            /\ UNCHANGED <<device, token, written, copy>>
       ELSE /\ Return(c)
            /\ UNCHANGED <<sessions, disconnecting>>
    /\ UNCHANGED <<trust, closed, document, generation, rings, view>>

OnDisconnect(c) ==
    /\ phase[c] = "removed"
    /\ view' = [view EXCEPT ![device[c]] = None]
    /\ Goto(c, "told")
    /\ UNCHANGED <<trust, closed, mapVars, document, generation, rings,
                   pending, device, token, written, copy>>

Release(c) ==
    /\ phase[c] = "told"
    /\ disconnecting' = [disconnecting EXCEPT
           ![device[c]] = IF @ = c THEN None ELSE @]
    /\ Return(c)
    /\ UNCHANGED <<trust, closed, added, sessions, signal, expected, document,
                   generation, rings, pending, view>>

-----------------------------------------------------------------------------
\* PublishSnapshot replaces the document and collects the channels under the
\* lock, and sends on each after it.  The runtime publishes one at a time.

\* Mutant of Publish: a connection busy writing an earlier document is left
\* out.
PublishToIdle ==
    /\ ~closed /\ pending = {} /\ generation < MaxPublish
    /\ generation' = generation + 1
    /\ document' = generation + 1
    /\ pending' = {c \in Conns : /\ \E d \in Devices : sessions[d] = c
                                 /\ phase[c] # "writing"}
    /\ UNCHANGED <<trust, closed, mapVars, rings, connVars, view>>

Publish ==
    /\ ~closed /\ pending = {} /\ generation < MaxPublish
    /\ generation' = generation + 1
    /\ document' = generation + 1
    /\ pending' = {c \in Conns : \E d \in Devices : sessions[d] = c}
    /\ UNCHANGED <<trust, closed, mapVars, rings, connVars, view>>

Signal(c) ==
    /\ c \in pending
    /\ pending' = pending \ {c}
    /\ signal' = signal \union {c}
    /\ UNCHANGED <<trust, closed, added, sessions, disconnecting, expected,
                   document, generation, rings, connVars, view>>

\* Close: nothing the hub holds survives it, and CloseNow fails every read
\* and write of the connections it knew.
Close ==
    /\ ~closed
    /\ closed' = TRUE
    /\ document' = 0
    /\ rings' = <<>>
    /\ UNCHANGED <<trust, mapVars, generation, pending, connVars, view>>

-----------------------------------------------------------------------------
Serve(c) ==
    \/ AddConnection(c) \/ Reserve(c) \/ HelloFails(c) \/ FirstState(c)
    \/ Greet(c) \/ Fetch(c) \/ WriteSnapshot(c) \/ Wake(c) \/ Tick(c)
    \/ Done(c) \/ Drop(c) \/ State(c) \/ AcceptDiagnostics(c) \/ Remove(c)
    \/ OnDisconnect(c) \/ Release(c) \/ Signal(c)

Next ==
    \/ \E d \in Devices : Rotate(d) \/ Revoke(d)
    \/ \E c \in Conns, d \in Devices, t \in 1..MaxTrust : Authenticate(c, d, t)
    \/ \E c \in Conns : Serve(c)
    \/ Publish
    \/ Close

Spec == Init /\ [][Next]_vars

\* Every goroutine that can run does; the select loop chooses among its ready
\* cases at random, so a case that is ready again and again is taken.
Proceed(c) ==
    \/ AddConnection(c) \/ Reserve(c) \/ HelloFails(c) \/ FirstState(c) \/ Greet(c)
    \/ Fetch(c) \/ WriteSnapshot(c) \/ Remove(c) \/ OnDisconnect(c) \/ Release(c)

Fairness ==
    \A c \in Conns :
        /\ WF_vars(Proceed(c)) /\ WF_vars(Signal(c))
        /\ SF_vars(Wake(c)) /\ SF_vars(Tick(c)) /\ SF_vars(Done(c))

FairSpec == Spec /\ Fairness

-----------------------------------------------------------------------------
\* The serial hub's view of a Deck follows the connection that serves it: while
\* serveConnection runs, the last callback about its Deck came from this very
\* connection.  The OnDisconnect of an earlier connection, which runs outside
\* the lock, neither overtakes the new connection's report nor wipes it
\* (hub.disconnecting in reserve and removeConnection).
ServedIsReported ==
    \A c \in Conns : phase[c] \in Serving => view[device[c]] = c

\* No wake-up is lost: a connection waiting in its select loop with an older
\* document has a token in its channel or a publisher about to put one there
\* (PublishSnapshot's non-blocking send and writeLatestSnapshot's generation).
NoLostWakeup ==
    \A c \in Conns :
        phase[c] = "loop" /\ Stale(c) => c \in signal \/ c \in pending

\* A connection whose trust was revoked or rotated away is ended at a later
\* heartbeat tick, even one that verified before the revocation.
RevokedEnds ==
    \A c \in Conns :
        (phase[c] = "loop" /\ ~Verified(device[c], token[c])) ~>
            (phase[c] \notin Serving)

\* After Close every connection goroutine ends and the last OnDisconnect has
\* been delivered.
CloseDrains ==
    closed ~> (\A d \in Devices : sessions[d] = None /\ view[d] = None)
=============================================================================
