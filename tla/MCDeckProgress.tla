---------------------------- MODULE MCDeckProgress ----------------------------
(***************************************************************************)
(* Two parts of the Deck that must get somewhere, explored one beside the  *)
(* other: a behaviour is one of Setup Mode, or one of the fence between    *)
(* transports with three connections, four revocation epochs, two owner    *)
(* requests and two foreign commands over a command queue of two.          *)
(***************************************************************************)
EXTENDS TransportFence

CONSTANTS
    Credentials, None, QueueCapacity, Requests, MaxRequests, MaxFaults, MaxEvents

VARIABLES
    part,
    svc, queue, handler, mode, confirmation, slots, wifi, net, radio, events, flags,
    notice, commits, requests, faults

Setup == INSTANCE SetupService

ASSUME SetupAssumption == Setup!SetupBounds

setupVars ==
    <<svc, queue, handler, mode, confirmation, slots, wifi, net, radio, events, flags,
      notice, commits, requests, faults>>

MCInit ==
    /\ part \in {"setup", "fence"}
    /\ Init /\ Setup!Init
    /\ ~wifi.faulted
    /\ wifi.status # "valid" => wifi.candidate = None
    /\ part = "fence" => wifi.active = None /\ wifi.candidate = None

MCNext ==
    /\ UNCHANGED part
    /\ \/ part = "setup" /\ Setup!Next /\ UNCHANGED vars
       \/ part = "fence" /\ Next /\ UNCHANGED setupVars

\* The fairness of each part, while it is the one that runs.
SetupFairness ==
    /\ WF_setupVars(part = "setup" /\ Setup!ServiceStep)
    /\ SF_setupVars(part = "setup" /\ Setup!TickTimesOut)
    /\ WF_setupVars(part = "setup" /\ Setup!EndRequest)
    /\ WF_setupVars(part = "setup" /\ Setup!Deliver)
    /\ WF_setupVars(part = "setup" /\ Setup!AccessPointMoves)
    /\ WF_setupVars(part = "setup" /\ radio.station = "connecting" /\ Setup!DriverStep)

FenceFairness ==
    /\ WF_vars(part = "fence" /\ OwnerStep)
    /\ WF_vars(part = "fence" /\ LinkStep)
    /\ SF_vars(part = "fence" /\ EnsureRead)

MCSpec ==
    /\ MCInit /\ [][MCNext]_<<part, vars, setupVars>>
    /\ SetupFairness /\ FenceFairness

\* A lowered fence is raised again, whatever fills the command queue, while the
\* fence is the part that runs.
FenceRises == (part = "fence" /\ ~fenced) ~> fenced

\* A session that has ended takes its access point down, whatever call failed
\* on the way.
SetupCloses == Setup!SetupCloses

\* A BOOT press the queue took opens a session or ends in an error the user sees.
BootIsHonoured == Setup!BootIsHonoured

\* A validation ends, whatever happens to the session it was started in.
ValidationEnds == Setup!ValidationEnds
=============================================================================
