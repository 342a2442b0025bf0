------------------------------ MODULE MCFailover ------------------------------
(***************************************************************************)
(* Three Companions that may all be paired, two priorities, heartbeats of  *)
(* one time (the epoch, the smallest the protocol accepts) and a           *)
(* generation counter that wraps after two edits.                          *)
(***************************************************************************)
EXTENDS CompanionFailover

CONSTANTS p1, p2, p3, none

MCProfile == {p1, p2, p3}
=============================================================================
