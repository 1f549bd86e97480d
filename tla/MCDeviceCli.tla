----------------------------- MODULE MCDeviceCli -----------------------------
(* Model values for the TLC runs of DeviceCli. *)
EXTENDS DeviceCli

CONSTANTS p1, p2, r1, r2
=============================================================================
