---------------------------- MODULE MCDeckControl ----------------------------
(***************************************************************************)
(* Who controls the target, and what is seen of it: four parts of the      *)
(* Deck, explored one beside the other.  A behaviour is one of the         *)
(* serial service (two sessions, two Web requests, two BOOT or stop epochs *)
(* and one revocation, a command queue of two and input queues of one     *)
(* block), one of the application (two presses, callbacks or AI snapshots  *)
(* and one call that fails), one of the display (three areas flushed, two  *)
(* transfers that do not start), or one of the target's output (two        *)
(* sessions, a pool of two blocks, a history twice as deep as the other    *)
(* sinks and one call that fails).                                         *)
(***************************************************************************)
EXTENDS SerialService

CONSTANTS
    Offsets, Default, Empty, MaxInputs, MaxRefusals,
    Areas, MaxFlushes, MaxFailures,
    Blocks, Sinks, Capacity, Retained, Ingress, BlockWrites, MaxSessions, MaxBlocks,
    MaxPathFailures

VARIABLES
    part,
    at, have, stopping, ui, model, offset, monitor, snapshots, publisher, handled, requested,
    epoch, queued, owner, latest, mail, view, setup, ai, revoked, refused, inputs, refusals,
    buffer, kind, dirty, in_flight, late, reported, done, done_context, dma, interrupt,
    glass, torn, flush, flushes, failures,
    builder, live, entered, path, task, router, ingress, usb, stream, sent, path_failures

App == INSTANCE Application WITH control <- epoch, commands <- queued

\* An empty mailbox is told from every message.
ASSUME MailboxAssumption == Empty \notin BOOLEAN /\ Empty \notin App!Models

appVars ==
    <<at, have, stopping, ui, model, offset, monitor, snapshots, publisher, handled, requested,
      epoch, queued, owner, latest, mail, view, setup, ai, revoked, refused, inputs, refusals>>

Display == INSTANCE DisplayService WITH at <- flush, completed <- reported

displayVars ==
    <<buffer, kind, dirty, in_flight, late, reported, done, done_context, dma, interrupt,
      glass, torn, flush, flushes, failures>>

Output == INSTANCE SerialDataPath
            WITH owner <- builder, snapshot <- live, latest <- entered, link <- stream,
                 failures <- path_failures, MaxFailures <- MaxPathFailures

\* The sinks fit into the history, and the history into the pool.
ASSUME OutputAssumption == Output!PathBounds

outputVars ==
    <<builder, live, entered, path, task, router, ingress, usb, stream, sent, path_failures>>

MCCapacity == [usb |-> 1, wss |-> 1, history |-> 2]

MCInit ==
    /\ part \in {"serial", "application", "display", "output"}
    /\ Init /\ App!Init /\ Display!Init /\ Output!Init

MCNext ==
    /\ UNCHANGED part
    /\ \/ part = "serial" /\ Next /\ UNCHANGED <<appVars, displayVars, outputVars>>
       \/ part = "application" /\ App!Next /\ UNCHANGED <<vars, displayVars, outputVars>>
       \/ part = "display" /\ Display!Next /\ UNCHANGED <<vars, appVars, outputVars>>
       \/ part = "output" /\ Output!Next /\ UNCHANGED <<vars, appVars, displayVars>>

MCSpec == MCInit /\ [][MCNext]_<<part, vars, appVars, displayVars, outputVars>>

\* A session is entered by a KEY press newer than every BOOT press whose exit was
\* queued, once, but for one whose entry had been refused.
BootRevokesKeys == App!BootRevokesKeys

\* With nothing under way the screen shows whether the target is armed, and the
\* temperature is corrected with the newest offset.
NewestIsShown == App!NewestIsShown

\* Whatever of the start fails, no task is left with a callback into something
\* that is gone, and an armed target is visible.
CallbacksAreSafe == App!CallbacksAreSafe

\* The frame being sent is not written, no completion is lost, and what is not
\* marked for sending is on the panel.
FramesAreWhole == Display!FramesAreWhole

\* No block of the pool or of the ingress set is lost, shared unawares or
\* returned twice, a slow sink never makes the router refuse a block, and a data
\* path is released only once no task can reach it.
OutputIsSafe == Output!BlocksAreConserved /\ Output!PathOutlivesTasks

\* No block is left out or repeated between replay and live output, after a
\* failed write or over USB, but for what the sink overwrote.
NoSilentHole == Output!NoSilentHole
=============================================================================
