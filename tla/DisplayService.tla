---------------------------- MODULE DisplayService ----------------------------
(***************************************************************************)
(* The display of the Deck: the display service                            *)
(* (components/display/deck_display_service.cpp), the panel adapter with   *)
(* its SPI completion interrupt (components/board_support/                 *)
(* deck_rlcd_panel.cpp) and the flush callback of the UI task              *)
(* (components/application_ui/deck_application_ui.cpp).                     *)
(*                                                                         *)
(* A frame is a bit for each area LVGL redraws.  The DMA engine reads the  *)
(* buffer it was given until the interrupt; the interrupt takes the        *)
(* callback in two exchanges before it calls it.  Time is abstracted: a    *)
(* transfer may be found late at any poll, once.                           *)
(***************************************************************************)
EXTENDS Naturals

CONSTANTS
    Areas,          \* what LVGL redraws separately
    MaxFlushes,     \* bound: areas flushed
    MaxFailures     \* bound: transfers that do not start

VARIABLES
    buffer,         \* working_frame and successful_frame
    kind,           \* transfer_kind
    dirty,          \* display->dirty
    in_flight,      \* display->in_flight
    late,           \* display->timeout_reported
    completed,      \* display->transfer_completed
    done,           \* panel->done is set
    done_context,   \* panel->done_context is set
    dma,            \* the buffer the SPI engine is reading, "none" when idle
    interrupt,      \* where color_transfer_done is
    glass,          \* the frames the panel may be showing
    torn,           \* a buffer was written while the engine read it
    at,             \* where the UI task is
    flushes, failures

vars == <<buffer, kind, dirty, in_flight, late, completed, done, done_context, dma,
          interrupt, glass, torn, at, flushes, failures>>

Frames == [Areas -> BOOLEAN]
White == [a \in Areas |-> TRUE]

TypeOK ==
    /\ buffer \in [{"working", "successful"} -> Frames]
    /\ kind \in {"none", "candidate", "recovery"}
    /\ dirty \in BOOLEAN /\ in_flight \in BOOLEAN /\ late \in BOOLEAN
    /\ completed \in BOOLEAN /\ done \in BOOLEAN /\ done_context \in BOOLEAN
    /\ dma \in {"none", "working", "successful"}
    /\ interrupt \in {"none", "raised", "taken"}
    /\ glass \subseteq Frames /\ torn \in BOOLEAN
    /\ at \in {"idle", "submit", "wait", "retry"}
    /\ flushes \in 0..MaxFlushes /\ failures \in 0..MaxFailures

\* deck_display_service_create: both frames white; what the panel shows is not known.
Init ==
    /\ buffer = [b \in {"working", "successful"} |-> White]
    /\ kind = "none" /\ dirty = FALSE /\ in_flight = FALSE /\ late = FALSE
    /\ completed = FALSE /\ done = FALSE /\ done_context = FALSE
    /\ dma = "none" /\ interrupt = "none" /\ glass = Frames /\ torn = FALSE
    /\ at = "idle" /\ flushes = 0 /\ failures = 0

-----------------------------------------------------------------------------
(* The panel *)

\* start_transfer of the panel refuses while a callback is registered, and
\* otherwise registers the callback before it hands the frame to the engine.
AdapterStarts(frame) ==
    /\ ~done
    /\ done' = TRUE /\ done_context' = TRUE /\ dma' = frame
    /\ UNCHANGED failures

\* A command or the colour transfer was refused by the SPI driver, or a
\* callback is still registered: nothing is registered by this call.
AdapterFails ==
    /\ \/ done /\ UNCHANGED failures
       \/ ~done /\ failures < MaxFailures /\ failures' = failures + 1
    /\ UNCHANGED <<done, done_context, dma>>

\* The engine has read the whole frame and raises its interrupt.
TransferEnds ==
    /\ dma # "none" /\ interrupt = "none"
    /\ glass' = {buffer[dma]}
    /\ dma' = "none" /\ interrupt' = "raised"
    /\ UNCHANGED <<buffer, kind, dirty, in_flight, late, completed, done, done_context,
                   torn, at, flushes, failures>>

\* color_transfer_done: the first exchange takes the callback ...
InterruptTakes ==
    /\ interrupt = "raised"
    /\ done' = FALSE
    /\ interrupt' = IF done THEN "taken" ELSE "none"
    /\ UNCHANGED <<buffer, kind, dirty, in_flight, late, completed, done_context, dma,
                   glass, torn, at, flushes, failures>>

\* ... the second its context, and the callback stores the completion.
InterruptCalls ==
    /\ interrupt = "taken"
    /\ done_context' = FALSE
    /\ completed' = (completed \/ done_context)
    /\ interrupt' = "none"
    /\ UNCHANGED <<buffer, kind, dirty, in_flight, late, done, dma, glass, torn, at,
                   flushes, failures>>

-----------------------------------------------------------------------------
(* The display service *)

\* start_transfer of the service: the completion is reset before the panel may
\* report one, and a transfer that does not start leaves the service idle.
Starts(frame, k) ==
    /\ AdapterStarts(frame)
    /\ completed' = FALSE /\ in_flight' = TRUE /\ kind' = k /\ late' = FALSE

DoesNotStart ==
    /\ AdapterFails
    /\ completed' = FALSE

\* deck_display_service_update: the pixels of one area, unless the working
\* frame is the one being transferred.
UpdateAdmitted == ~(in_flight /\ kind = "candidate")

Packed(area, pixel) ==
    /\ buffer' = [buffer EXCEPT !.working[area] = pixel]
    /\ dirty' = (dirty \/ buffer.working[area] # pixel)
    /\ torn' = (torn \/ (dma = "working" /\ buffer.working[area] # pixel))

\* deck_display_service_submit sends the working frame when it has changed;
\* while a transfer is in flight the submission is coalesced with the next.
Submit ==
    \/ /\ in_flight \/ ~dirty
       /\ at' = "idle"
       /\ UNCHANGED <<kind, dirty, in_flight, late, completed, done, done_context, dma,
                      failures>>
    \/ /\ ~in_flight /\ dirty
       /\ Starts("working", "candidate") /\ dirty' = FALSE
       /\ at' = "wait"
    \/ /\ ~in_flight /\ dirty
       /\ DoesNotStart
       /\ at' = "idle"
       /\ UNCHANGED <<kind, dirty, in_flight, late>>

\* deck_display_service_poll finds the transfer completed: in time, the frame is
\* the last good one; late, the panel is suspect, and the last good frame is
\* sent before the working frame is tried again.
CompletedInTime ==
    /\ kind = "candidate" /\ ~late
    /\ in_flight' = FALSE /\ kind' = "none" /\ completed' = FALSE
    /\ buffer' = [buffer EXCEPT !.successful = buffer.working]
    /\ torn' = (torn \/ dma = "successful")
    /\ at' = "idle"
    /\ UNCHANGED <<dirty, late, done, done_context, dma, failures>>

\* Mutant of Suspect: the frame that came late is taken for shown.
SuspectNothing == dirty' = dirty

Suspect == dirty' = TRUE

CompletedLate ==
    /\ kind = "candidate" /\ late
    /\ Suspect
    /\ \/ Starts("successful", "recovery") /\ at' = "wait"
       \/ /\ DoesNotStart
          /\ in_flight' = FALSE /\ kind' = "none" /\ late' = FALSE
          /\ at' = "idle"
    /\ UNCHANGED <<buffer, torn>>

Recovered ==
    /\ kind = "recovery"
    /\ in_flight' = FALSE /\ kind' = "none" /\ late' = FALSE /\ completed' = FALSE
    /\ at' = "retry"
    /\ UNCHANGED <<buffer, torn, dirty, done, done_context, dma, failures>>

\* Not completed: the first poll after the deadline reports it, once.
PollTimesOut == late' = TRUE

-----------------------------------------------------------------------------
(* The UI task *)

\* display_flush of an area; LVGL marks the last one of a redraw.
Flush ==
    /\ at = "idle" /\ flushes < MaxFlushes
    /\ flushes' = flushes + 1
    /\ \E area \in Areas, pixel \in BOOLEAN, last \in BOOLEAN :
        /\ IF UpdateAdmitted THEN Packed(area, pixel) ELSE UNCHANGED <<buffer, dirty, torn>>
        /\ at' = IF last THEN "submit" ELSE "idle"
    /\ UNCHANGED <<kind, in_flight, late, completed, done, done_context, dma, interrupt,
                   glass, failures>>

FlushSubmits ==
    /\ at \in {"submit", "retry"}
    /\ Submit
    /\ UNCHANGED <<buffer, interrupt, glass, torn, flushes>>

\* wait_for_display_transfer polls until the transfer has ended one way or the
\* other: the draw buffer is LVGL's again only then.
WaitCompletes ==
    /\ at = "wait" /\ in_flight /\ completed
    /\ CompletedInTime \/ CompletedLate \/ Recovered
    /\ UNCHANGED <<interrupt, glass, flushes>>

WaitTimesOut ==
    /\ at = "wait" /\ in_flight /\ ~completed /\ ~late
    /\ PollTimesOut
    /\ UNCHANGED <<buffer, kind, dirty, in_flight, completed, done, done_context, dma,
                   interrupt, glass, torn, at, flushes, failures>>

Next ==
    \/ Flush \/ FlushSubmits \/ WaitCompletes \/ WaitTimesOut
    \/ TransferEnds \/ InterruptTakes \/ InterruptCalls

Spec == Init /\ [][Next]_vars

-----------------------------------------------------------------------------
(* The frame being sent is not written until the panel has read it, the    *)
(* completion of every transfer reaches the service, and a frame that is   *)
(* not marked for sending is the one on the panel, once there is one,      *)
(* through late completions and transfers that do not start.               *)
FramesAreWhole ==
    /\ ~torn
    /\ in_flight => (dma # "none" \/ interrupt # "none" \/ completed)
    /\ (~in_flight /\ ~dirty) => /\ glass \in {{buffer.working}, Frames}
                                  /\ buffer.successful = buffer.working
=============================================================================
