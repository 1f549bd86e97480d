----------------------------- MODULE MCUpstream -----------------------------
(* Model values for the TLC runs of Transports and IotDevice. *)
EXTENDS Transports

CONSTANTS m1, m2

Carries(cmd1, found1, cmd2, found2) ==
  [m \in Messages |-> IF m = m1 THEN [cmd |-> cmd1, found |-> found1] ELSE [cmd |-> cmd2, found |-> found2]]

\* A login beside a login of a stranger that comes back for ever; and a login that
\* extractCmd does not find, beside a message whose data has a registered cmd in front
\* of its own.
MCPayloads ==
  {Carries("login", TRUE, "stranger", TRUE), Carries("login", FALSE, "other", TRUE)}
=============================================================================
