------------------------------- MODULE MCSetup -------------------------------
(***************************************************************************)
(* Setup Mode of a Deck that has no network yet, given two: what the       *)
(* repository says of a submitted network against what the service does.   *)
(***************************************************************************)
EXTENDS SetupService

FirstSetup == Init /\ ~wifi.faulted /\ wifi.active = None /\ wifi.candidate = None

FirstSetupSpec == FirstSetup /\ [][Next]_vars
=============================================================================
