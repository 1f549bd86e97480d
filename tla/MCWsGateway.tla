----------------------------- MODULE MCWsGateway -----------------------------
(* Model values and symmetry for the TLC runs of WsGateway. *)
EXTENDS WsGatewayProps, TLC

CONSTANTS n1, n2, d1, d2, s1, s2, w1, w2

Sym == Permutations(Sockets) \cup Permutations(Workers) \cup Permutations(Devices)
=============================================================================
