------------------------------ MODULE SerialRing ------------------------------
(***************************************************************************)
(* The Companion's volatile ring of target output                          *)
(* (companion/internal/serialhub/ring.go): bounded in bytes and in frames, *)
(* cleared with every session, read by observers that each keep a cursor   *)
(* and a count of the bytes they lost.  Every operation holds ring.mu.     *)
(*                                                                         *)
(* A payload is its length.  Sequence numbers wrap: they live modulo       *)
(* Modulus, which stands for 2^64, and zero is no sequence number.         *)
(***************************************************************************)
EXTENDS Naturals, Sequences, FiniteSets

CONSTANTS
    Sessions,       \* session IDs
    NoSession,
    Observers,      \* observer IDs, reused once closed
    Capacity,       \* capacityBytes
    MaxFrames,      \* maximumFrames
    MaxObservers,   \* maximumObservers
    Lengths,        \* payload lengths
    Modulus,        \* of sequence numbers
    MaxIngest       \* bound: frames ingested

VARIABLES
    session,        \* ring.sessionID
    records,        \* the retained frames, oldest first
    nextOrdinal,
    last,           \* lastSequence, 0 = none
    observers,      \* open observers: [next, lost, ghost session, owed, got]
    closed

vars == <<session, records, nextOrdinal, last, observers, closed>>

Closed == [open |-> FALSE, next |-> 0, lost |-> 0, session |-> NoSession,
           owed |-> 0, got |-> 0]

\* The bytes of the first n frames of s, for each n.
Sums(s) ==
    LET sum[n \in 0..Len(s)] == IF n = 0 THEN 0 ELSE sum[n - 1] + s[n].length
    IN  sum

Bytes(s) == Sums(s)[Len(s)]

OpenIds == {o \in Observers : observers[o].open}

TypeOK ==
    /\ session \in Sessions \union {NoSession}
    /\ Len(records) <= MaxFrames /\ Bytes(records) <= Capacity
    /\ Cardinality(OpenIds) <= MaxObservers
    /\ nextOrdinal \in 1..(MaxIngest + 1)
    /\ last \in 0..(Modulus - 1)
    /\ closed \in BOOLEAN

Init ==
    /\ session = NoSession
    /\ records = <<>>
    /\ nextOrdinal = 1
    /\ last = 0
    /\ observers = [o \in Observers |-> Closed]
    /\ closed = FALSE

-----------------------------------------------------------------------------
\* clearSessionLocked, then the session that begins; ordinals go on.
ClearSession(s) ==
    /\ session' = s
    /\ records' = <<>>
    /\ last' = 0
    /\ observers' = [o \in Observers |-> Closed]

Begin(s) ==
    /\ ~closed /\ session # s
    /\ ClearSession(s)
    /\ UNCHANGED <<nextOrdinal, closed>>

End ==
    /\ ~closed /\ session # NoSession
    /\ ClearSession(NoSession)
    /\ UNCHANGED <<nextOrdinal, closed>>

Close ==
    /\ ~closed
    /\ closed' = TRUE
    /\ ClearSession(NoSession)
    /\ UNCHANGED nextOrdinal

-----------------------------------------------------------------------------
sequenceAfter(candidate, previous) ==
    /\ candidate # 0 /\ previous # 0 /\ candidate # previous
    /\ (candidate + Modulus - previous) % Modulus < Modulus \div 2

Fits(s, length) == Len(s) < MaxFrames /\ Bytes(s) + length <= Capacity

\* How many of the oldest frames make room for one of this length.
Evicted(length) ==
    CHOOSE n \in 0..Len(records) :
        /\ Fits(SubSeq(records, n + 1, Len(records)), length)
        /\ \A k \in 0..(n - 1) : ~Fits(SubSeq(records, k + 1, Len(records)), length)

\* An observer has not read frame r.
Behind(o, r) == o.next <= r.ordinal

\* How many frames of s, the first ones, the observer is past: ordinals ascend.
Seen(o, s) ==
    CHOOSE n \in 0..Len(s) : \A i \in 1..Len(s) : Behind(o, s[i]) <=> i > n

\* Mutant of Overtaken: an observer that has a frame pays for it too.
OvertakenByAll(o, gone) ==
    IF gone = <<>> THEN o
    ELSE [o EXCEPT !.next = gone[Len(gone)].ordinal + 1, !.lost = @ + Bytes(gone)]

\* evictOldestLocked for each evicted frame: the observers that had not read
\* it move past it and count its bytes.
Overtaken(o, gone) ==
    LET n == Seen(o, gone)
    IN  IF n = Len(gone) THEN o
        ELSE [o EXCEPT !.next = gone[Len(gone)].ordinal + 1,
                       !.lost = @ + Bytes(SubSeq(gone, n + 1, Len(gone)))]

Ingest(sequence, length) ==
    /\ ~closed /\ session # NoSession
    /\ nextOrdinal <= MaxIngest
    /\ length <= Capacity
    /\ last # 0 => sequenceAfter(sequence, last)
    /\ LET n == Evicted(length)
           gone == SubSeq(records, 1, n)
           kept == SubSeq(records, n + 1, Len(records))
       IN  /\ records' = Append(kept, [ordinal |-> nextOrdinal,
                                       sequence |-> sequence, length |-> length])
           /\ observers' = [o \in Observers |->
                 IF observers[o].open
                 THEN [Overtaken(observers[o], gone) EXCEPT !.owed = @ + length]
                 ELSE Closed]
    /\ nextOrdinal' = nextOrdinal + 1
    /\ last' = sequence
    /\ UNCHANGED <<session, closed>>

-----------------------------------------------------------------------------
\* A new observer starts with everything retained.
OpenObserver(o) ==
    /\ ~closed /\ session # NoSession
    /\ ~observers[o].open /\ Cardinality(OpenIds) < MaxObservers
    /\ observers' = [observers EXCEPT ![o] =
           [open |-> TRUE, lost |-> 0, session |-> session,
            next |-> IF records = <<>> THEN nextOrdinal ELSE records[1].ordinal,
            owed |-> Bytes(records), got |-> 0]]
    /\ UNCHANGED <<session, records, nextOrdinal, last, closed>>

CloseObserver(o) ==
    /\ observers[o].open
    /\ observers' = [observers EXCEPT ![o] = Closed]
    /\ UNCHANGED <<session, records, nextOrdinal, last, closed>>

Unread(o) == SubSeq(records, Seen(o, records) + 1, Len(records))

\* ReadObserver with a limit on bytes and on frames: the longest prefix of
\* what is unread within both; if not even one frame fits, an error.
ReadObserver(o, maximumBytes, maximumFrames) ==
    /\ ~closed /\ observers[o].open
    /\ LET unread == Unread(observers[o])
           counts == {n \in 1..Len(unread) :
                        /\ n <= maximumFrames
                        /\ Bytes(SubSeq(unread, 1, n)) <= maximumBytes}
       IN  /\ counts # {}
           /\ LET n == CHOOSE n \in counts : \A k \in counts : k <= n
              IN  observers' = [observers EXCEPT
                      ![o].next = unread[n].ordinal + 1,
                      ![o].got = @ + Bytes(SubSeq(unread, 1, n))]
    /\ UNCHANGED <<session, records, nextOrdinal, last, closed>>

Next ==
    \/ \E s \in Sessions : Begin(s)
    \/ End
    \/ Close
    \/ \E q \in 1..(Modulus - 1), n \in Lengths : Ingest(q, n)
    \/ \E o \in Observers :
          \/ OpenObserver(o) \/ CloseObserver(o)
          \/ \E b \in Lengths, f \in 1..MaxFrames : ReadObserver(o, b, f)

Spec == Init /\ [][Next]_vars

-----------------------------------------------------------------------------
\* Nothing is lost unaccounted: what an observer has received, what it was told
\* it lost and what still waits for it add up to everything retained when it
\* opened and ingested since, however far it fell behind.
LossIsCounted ==
    \A o \in OpenIds :
        observers[o].owed =
            observers[o].got + observers[o].lost + Bytes(Unread(observers[o]))
=============================================================================
