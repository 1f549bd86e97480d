------------------------------ MODULE IotDevice ------------------------------
(***************************************************************************)
(* iotdevice as iotws sees it: nodes that either consume from the broker   *)
(* or serve gRPC and HTTP, the two subjects in the broker, and what becomes*)
(* of a message (app/iotdevice/cmd).  Transports adds the sender.          *)
(*                                                                         *)
(* External: the broker keeps a message until it is acknowledged; Nack, a  *)
(* crash and a passed AckWait all bring it back.  A subscription hands out *)
(* one message at a time and waits for its Ack or Nack (SubscribersCount   *)
(* is not set, openconfig/config.go:38).  Losses are counted and bounded   *)
(* by MaxFaults.                                                           *)
(***************************************************************************)
EXTENDS Integers, FiniteSets, Sequences

CONSTANTS
  Messages,
  Logins,      \* messages that are logins of known devices
  Payloads,    \* what the messages may carry
  N,           \* iotdevice nodes
  MaxFaults    \* bound: answers and acknowledgements lost, nodes crashed

Nodes == 1 .. N
Kinds == {"login", "stranger", "other"}

ASSUME DeviceAssumption ==
  /\ IsFiniteSet(Messages) /\ N \in Nat \ {0} /\ MaxFaults \in Nat
  /\ Payloads \subseteq [Messages -> [cmd : Kinds, found : BOOLEAN]]
  /\ Logins \subseteq Messages
  /\ \A p \in Payloads, m \in Messages : m \in Logins <=> p[m].cmd = "login"

VARIABLES
  what,       \* message -> the cmd that JSON and protojson read: "login",
              \* "stranger" (a login of no known device), "other"
  found,      \* message -> extractCmd finds a registered cmd by the bytes "cmd":"
  broker,     \* MQConfig.Type
  node,       \* node -> what its process does
  cmdStream,  \* the stream of the subject <subject>_login exists
  requests,   \* calls on their way to a node, or in it
  ingress,    \* message -> copies under the subject
  cmdq,       \* message -> copies under <subject>_login
  worker,     \* node -> the message of <subject>_login in its hands, if any
  handled,    \* message -> times its logic has succeeded
  lost,       \* history: message -> answers and acknowledgements lost
  faults      \* losses and crashes still to come

queues == <<ingress, cmdq>>
deviceVars == <<what, found, broker, node, cmdStream, requests, queues, worker, handled, lost, faults>>

DeviceInit ==
  /\ \E p \in Payloads :
       /\ what = [m \in Messages |-> p[m].cmd]
       /\ found = [m \in Messages |-> p[m].found]
  /\ broker \in {"nats", "rabbitmq"}
  /\ node = [n \in Nodes |-> "starts"] /\ worker = [n \in Nodes |-> {}]
  /\ cmdStream = FALSE /\ requests = {}
  /\ ingress = [m \in Messages |-> 0] /\ cmdq = ingress /\ handled = ingress /\ lost = ingress
  /\ faults = MaxFaults

Plus(f, m) == [f EXCEPT ![m] = @ + 1]
Minus(f, m) == [f EXCEPT ![m] = @ - 1]

\* A loss that concerns m.
Loses(m) == faults > 0 /\ faults' = faults - 1 /\ lost' = Plus(lost, m)
LosesNothing == UNCHANGED <<lost, faults>>

-----------------------------------------------------------------------------
(* A node starts and stops.                                                *)

\* AddStream, when the node connects, has no <subject>_login; the subscriber of that
\* subject makes its stream.
Provisioned(mode) == cmdStream \/ mode = "consumes"

\* StartRouter returns only when the first Subscribe fails: a node that consumes
\* never comes to start its servers.  Subscribe for the cmd may fail ("routes").
StartRouter(n) ==
  /\ broker = "nats" /\ node[n] = "starts"
  /\ \E mode \in {"serves", "routes", "consumes"} :
       /\ node' = [node EXCEPT ![n] = mode]
       /\ cmdStream' = Provisioned(mode)
  /\ UNCHANGED <<what, found, broker, requests, queues, worker, handled, lost, faults>>

\* Subscribe of rabbitmq derives from c.ctx, which nothing has set: a panic in main.
RabbitSubscribe(n) ==
  /\ broker = "rabbitmq" /\ node[n] = "starts"
  /\ node' = [node EXCEPT ![n] = "panic"]
  /\ UNCHANGED <<what, found, broker, cmdStream, requests, queues, worker, handled, lost, faults>>

\* The process dies with the requests in it, and is started again.
Crash(n) ==
  /\ node[n] \in {"serves", "routes", "consumes"}
  /\ faults > 0 /\ faults' = faults - 1
  /\ node' = [node EXCEPT ![n] = "starts"]
  /\ requests' = {r \in requests : r.to # n}
  /\ worker' = [worker EXCEPT ![n] = {}]
  /\ UNCHANGED <<what, found, broker, cmdStream, queues, handled, lost>>

-----------------------------------------------------------------------------
(* What a node does with a message.                                        *)

\* Iotdevice of the logic for the cmd: the login of a stranger is refused, any
\* login may fail (database, redis), and an unknown cmd is answered "error"
\* without an error.
Iotdevice(m, ok) ==
  /\ ok \in (IF what[m] = "other" THEN {TRUE} ELSE IF what[m] = "stranger" THEN {FALSE} ELSE BOOLEAN)
  /\ handled' = IF ok THEN Plus(handled, m) ELSE handled

\* Mutant: a cmd that is registered is not published but acknowledged.
MutantHandleAllNatsMessage(m) ==
  /\ ingress[m] > 0 /\ \E n \in Nodes : node[n] \in {"routes", "consumes"}
  /\ ingress' = Minus(ingress, m) /\ UNCHANGED cmdq /\ LosesNothing
  /\ UNCHANGED <<what, found, broker, node, cmdStream, requests, worker, handled>>

\* Mutant: the message is not acknowledged after its publication.
MutantNoAck(m) ==
  /\ ingress[m] > 0 /\ \E n \in Nodes : node[n] \in {"routes", "consumes"}
  /\ found[m] /\ cmdStream
  /\ cmdq[m] < 3 /\ cmdq' = Plus(cmdq, m) /\ UNCHANGED ingress /\ LosesNothing
  /\ UNCHANGED <<what, found, broker, node, cmdStream, requests, worker, handled>>

\* The first consumer: a message without the bytes of a registered cmd is
\* acknowledged and gone, another one is published under the cmd's own subject and
\* then acknowledged; when the answer of either is lost the message comes back.
\* Before the subject has a stream the publication fails, and Nack leaves all as it is.
HandleAllNatsMessage(m) ==
  /\ ingress[m] > 0 /\ \E n \in Nodes : node[n] \in {"routes", "consumes"}
  /\ found[m] => cmdStream
  /\ cmdq' = IF found[m] THEN Plus(cmdq, m) ELSE cmdq
  /\ \/ ingress' = Minus(ingress, m) /\ LosesNothing
     \/ UNCHANGED ingress /\ Loses(m)
  /\ UNCHANGED <<what, found, broker, node, cmdStream, requests, worker, handled>>

\* The nodes that have a copy of m in their hands.
Holders(m) == {n \in Nodes : m \in worker[n]}

\* The second consumer gets a message when it has answered the one before.
Receive(n, m) ==
  /\ node[n] = "consumes" /\ worker[n] = {}
  /\ cmdq[m] > Cardinality(Holders(m))
  /\ worker' = [worker EXCEPT ![n] = {m}]
  /\ UNCHANGED <<what, found, broker, node, cmdStream, requests, queues, handled, lost, faults>>

\* Mutant: a worker that failed returns without the Nack.
MutantNoNack(n, m, ok) ==
  /\ m \in worker[n] /\ ok
  /\ Iotdevice(m, ok)
  /\ worker' = [worker EXCEPT ![n] = {}]
  /\ \/ cmdq' = Minus(cmdq, m) /\ LosesNothing
     \/ UNCHANGED cmdq /\ Loses(m)
  /\ UNCHANGED <<what, found, broker, node, cmdStream, requests, ingress>>

\* Its goroutine: Ack after success, Nack after an error, which brings the message
\* back.
ProcessMessage(n, m, ok) ==
  /\ m \in worker[n]
  /\ Iotdevice(m, ok)
  /\ worker' = [worker EXCEPT ![n] = {}]
  /\ \/ ok /\ cmdq' = Minus(cmdq, m) /\ LosesNothing
     \/ ok /\ UNCHANGED cmdq /\ Loses(m)
     \/ ~ok /\ UNCHANGED cmdq /\ LosesNothing
  /\ UNCHANGED <<what, found, broker, node, cmdStream, requests, ingress>>

Answers(n, m) == \E ok \in BOOLEAN : ProcessMessage(n, m, ok)

DeviceStep ==
  \/ \E n \in Nodes : StartRouter(n) \/ RabbitSubscribe(n) \/ Crash(n)
  \/ \E m \in Messages : HandleAllNatsMessage(m)
  \/ \E n \in Nodes, m \in Messages : Receive(n, m) \/ Answers(n, m)
=============================================================================
