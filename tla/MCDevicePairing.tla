-------------------------- MODULE MCDevicePairing --------------------------
(* Small instances of DevicePairing. *)
EXTENDS DevicePairing
=============================================================================
