----------------------------- MODULE SerialRouter -----------------------------
(***************************************************************************)
(* The Deck's router of target output                                      *)
(* (components/serial_service/deck_serial_router.cpp) as operators on one  *)
(* router value.  A pool of fixed blocks is shared by the sinks: a block   *)
(* is submitted once, every sink queues a reference to it, and it returns  *)
(* to the pool when the last reference is gone.  A full sink loses its own *)
(* oldest block.  The router's mutex makes every operation one step.       *)
(*                                                                         *)
(* A block is its sequence number: payload, length and time travel with    *)
(* it.  The free list is a set, any member of which may be taken.          *)
(***************************************************************************)
EXTENDS Naturals, Sequences, FiniteSets

CONSTANTS
    Blocks,      \* the pool
    Sinks,       \* registered once, at creation
    Capacity,    \* Sinks -> capacity in blocks
    Retained     \* the sink whose blocks are copied, never taken

\* What register_sink requires of a sink, with the sizes the service gives: the
\* pool is as large as the history, and no other sink is larger.
RouterBounds ==
    /\ IsFiniteSet(Blocks) /\ IsFiniteSet(Sinks) /\ Retained \in Sinks
    /\ Capacity \in [Sinks -> Nat \ {0}]
    /\ \A s \in Sinks : Capacity[s] <= Capacity[Retained]
    /\ Capacity[Retained] <= Cardinality(Blocks)

NewRouter(session) ==
    [session |-> session,
     free |-> Blocks,
     sequence |-> [b \in Blocks |-> 0],
     references |-> [b \in Blocks |-> 0],
     queue |-> [s \in Sinks |-> << >>],
     overwritten |-> [s \in Sinks |-> {}],    \* the code counts them
     last |-> 0,
     exhausted |-> FALSE]

-----------------------------------------------------------------------------
\* References.

\* The sinks in `from' drop their oldest block; a block nobody references any
\* more returns to the pool (remove_front, release_reference, return_block).
Dropped(router, from, b) == {s \in from : router.queue[s][1] = b}

Unreferenced(router, left, b) == router.references[b] > 0 /\ left[b] = 0

RemoveFront(router, from) ==
    LET left == [b \in Blocks |->
                    router.references[b] - Cardinality(Dropped(router, from, b))]
        returned == {b \in Blocks : Unreferenced(router, left, b)}
    IN [router EXCEPT !.references = left,
                      !.free = @ \cup returned,
                      !.sequence = [b \in Blocks |-> IF b \in returned THEN 0 ELSE @[b]],
                      !.queue = [s \in Sinks |-> IF s \in from THEN Tail(@[s]) ELSE @[s]]]

FullSinks(router) == {s \in Sinks : Len(router.queue[s]) = Capacity[s]}

MakeRoom(router) ==
    LET full == FullSinks(router)
    IN [RemoveFront(router, full) EXCEPT
          !.overwritten = [s \in Sinks |->
              IF s \in full THEN @[s] \cup {router.sequence[router.queue[s][1]]} ELSE @[s]]]

-----------------------------------------------------------------------------
\* Operations.

\* submit: room is made first, so that what the sinks lose is there to be used.
\* The blocks of the free list are alike; the code takes its head.
Queued(router, b) ==
    [router EXCEPT !.free = @ \ {b},
                   !.sequence[b] = router.last + 1,
                   !.references[b] = Cardinality(Sinks),
                   !.queue = [s \in Sinks |-> Append(@[s], b)],
                   !.last = @ + 1]

Submitted(router) ==
    LET roomy == MakeRoom(router)
    IN IF roomy.free = {} THEN [roomy EXCEPT !.exhausted = TRUE]
       ELSE Queued(roomy, CHOOSE b \in roomy.free : TRUE)

Front(router, sink) == router.sequence[router.queue[sink][1]]
IsEmpty(router, sink) == router.queue[sink] = << >>

Taken(router, sink) == RemoveFront(router, {sink})

\* copy_after: the block after the cursor; the oldest, with a gap, when the
\* cursor is no longer there; 0 stands for nothing new.
Sequences(router, sink) ==
    {router.sequence[router.queue[sink][i]] : i \in DOMAIN router.queue[sink]}

\* Mutant of Oldest: the history is searched from its end.
Newest(from) == CHOOSE n \in from : \A m \in from : n >= m

Oldest(from) == CHOOSE n \in from : \A m \in from : n <= m

CopyAfter(router, after) ==
    LET held == Sequences(router, Retained)
        newer == {n \in held : n > after}
    IN IF held = {} \/ (after \in held /\ newer = {}) THEN 0
       ELSE Oldest(IF after \in held THEN newer ELSE held)

-----------------------------------------------------------------------------
\* What the pool promises.

\* Every reference is counted, once; a block is in the pool exactly while no
\* sink holds it.
Holders(router, b) ==
    {s \in Sinks : \E i \in DOMAIN router.queue[s] : router.queue[s][i] = b}

Conserved(router) ==
    /\ \A b \in Blocks :
          /\ router.references[b] = Cardinality(Holders(router, b))
          /\ b \in router.free <=> router.references[b] = 0
    /\ \A s \in Sinks : \A i, j \in DOMAIN router.queue[s] :
          i < j => router.sequence[router.queue[s][i]] < router.sequence[router.queue[s][j]]
=============================================================================
