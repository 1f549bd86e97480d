------------------------------- MODULE WsLedger -------------------------------
(***************************************************************************)
(* What a node's connection counter promises to the balancer that reads    *)
(* it: a socket joins the node's registered sockets at most once, leaves   *)
(* at most once and never comes back, and the counter is their number at   *)
(* every moment.  A node that exits loses all of them at once.             *)
(***************************************************************************)
EXTENDS Integers, FiniteSets

CONSTANTS Nodes, Sockets, NoNode

VARIABLES
  at,    \* socket -> the node it belongs to
  reg,   \* socket -> "new", "in" or "out"
  num    \* node -> the published counter

lvars == <<at, reg, num>>

In(n) == {s \in Sockets : at[s] = n /\ reg[s] = "in"}

Init ==
  /\ at = [s \in Sockets |-> NoNode]
  /\ reg = [s \in Sockets |-> "new"]
  /\ num = [n \in Nodes |-> 0]

Arrive(s, n) ==
  /\ at[s] = NoNode
  /\ at' = [at EXCEPT ![s] = n]
  /\ UNCHANGED <<reg, num>>

Join(s) ==
  /\ reg[s] = "new" /\ at[s] # NoNode
  /\ reg' = [reg EXCEPT ![s] = "in"]
  /\ num' = [num EXCEPT ![at[s]] = @ + 1]
  /\ UNCHANGED at

Leave(s) ==
  /\ reg[s] \in {"new", "in"} /\ at[s] # NoNode
  /\ reg' = [reg EXCEPT ![s] = "out"]
  /\ num' = [num EXCEPT ![at[s]] = IF reg[s] = "in" THEN @ - 1 ELSE @]
  /\ UNCHANGED at

Restart(n) ==
  /\ reg' = [s \in Sockets |-> IF at[s] = n THEN "out" ELSE reg[s]]
  /\ num' = [num EXCEPT ![n] = 0]
  /\ UNCHANGED at

Next ==
  \/ \E s \in Sockets : Join(s) \/ Leave(s)
  \/ \E s \in Sockets, n \in Nodes : Arrive(s, n)
  \/ \E n \in Nodes : Restart(n)

Spec == Init /\ [][Next]_lvars

\* The counter is the number of registered sockets, never negative.
NumIsRegistered == \A n \in Nodes : num[n] = Cardinality(In(n))
=============================================================================
