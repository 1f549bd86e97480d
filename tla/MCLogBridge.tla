----------------------------- MODULE MCLogBridge -----------------------------
(* Model values for the TLC runs of LogBridge. *)
EXTENDS LogBridge

CONSTANTS m1, m2, m3, b1, b2
=============================================================================
