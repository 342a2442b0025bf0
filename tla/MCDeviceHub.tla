------------------------------ MODULE MCDeviceHub ------------------------------
(* Two connections of one Deck at the Device Link hub. *)
EXTENDS DeviceHub
=============================================================================
