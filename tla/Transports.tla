----------------------------- MODULE Transports -----------------------------
(***************************************************************************)
(* The clients behind devicecli: grpcClient.go, mqClient.go, httpClient.go,*)
(* their retries, and Push, which walks from one to the next.  The context *)
(* is context.Background() (iotws.go:47), so it is never done; a call ends *)
(* by the time limit of its client.  DeviceCli has the chain under Reload; *)
(* here it stays as it is.                                                 *)
(***************************************************************************)
EXTENDS IotDevice

CONSTANTS
  Modes,                     \* values of TransportModel
  GrpcRetries, NatsRetries,  \* calls after the first (3)
  HttpTries                  \* retryCount of httpc (3)

ASSUME TransportsAssumption ==
  /\ {GrpcRetries, NatsRetries} \subseteq Nat /\ HttpTries \in Nat \ {0}
  /\ Modes \subseteq (SUBSET {"grpc", "nats", "http"}) \ {{}}

VARIABLES
  chain,     \* d.chain
  counter,   \* lb.counter, modulo the number of instances
  push       \* message -> the Push that carries it

upVars == <<deviceVars, chain, counter, push>>

\* rebuildChain: the clients of a mode in the order of priority.
ChainOf(mode) ==
  LET client(t) == IF t \in mode THEN <<t>> ELSE <<>>
  IN client("grpc") \o client("nats") \o client("http")

Idle == [pc |-> "idle", i |-> 1, tries |-> 0, seen |-> 0, tried |-> {},
         spent |-> FALSE, erred |-> FALSE, met |-> FALSE]

UpInit ==
  /\ DeviceInit
  /\ \E mode \in Modes : chain = ChainOf(mode)
  /\ counter = 0
  /\ push = [m \in Messages |-> Idle]

Via(m) == chain[push[m].i]
Goes(m, next) == push' = [push EXCEPT ![m] = next]
TriesVia(m, t) == push[m].pc = "tries" /\ Via(m) = t

\* The client at position i of the chain begins.
Begin(m, l, i) == Goes(m, [l EXCEPT !.pc = "tries", !.i = i, !.tries = 0])

\* The push is over: what no property asks for is forgotten.
Returns(m, l) ==
  Goes(m, [Idle EXCEPT !.pc = "ok", !.i = l.i, !.erred = l.erred, !.tries = IF l.tries > 0 THEN 1 ELSE 0])

\* The client fails for good: the next one of the chain.
Fails(m, l) ==
  IF l.i < Len(chain) THEN Begin(m, l, l.i + 1) ELSE Goes(m, [l EXCEPT !.pc = "failed", !.seen = 0])

\* Mutant: an attempt over HTTP is not counted.
MutantAgain(m, l) ==
  LET last == IF chain[l.i] = "grpc" THEN GrpcRetries ELSE NatsRetries IN
  IF chain[l.i] # "http" /\ l.tries >= last THEN Fails(m, l)
  ELSE Goes(m, [l EXCEPT !.pc = "tries", !.seen = 0, !.tries = IF chain[l.i] = "http" THEN @ ELSE @ + 1])

\* An attempt fails: another one, if the client has one left.
Again(m, l) ==
  LET last == CASE chain[l.i] = "grpc" -> GrpcRetries
                [] chain[l.i] = "nats" -> NatsRetries
                [] chain[l.i] = "http" -> HttpTries - 1
  IN IF l.tries >= last THEN Fails(m, l)
     ELSE Goes(m, [l EXCEPT !.pc = "tries", !.seen = 0, !.tries = @ + 1])

Push(m) ==
  /\ push[m].pc = "idle"
  /\ Begin(m, push[m], 1)
  /\ UNCHANGED <<deviceVars, chain, counter>>

-----------------------------------------------------------------------------
(* A call to a node.                                                       *)

RequestOf(m, to, body) == [msg |-> m, via |-> Via(m), try |-> push[m].tries, to |-> to, body |-> body]
WaitsFor(r) == push[r.msg].pc = "waits" /\ Via(r.msg) = r.via /\ push[r.msg].tries = r.try

Send(m, to, l) ==
  /\ node[to] = "serves"
  /\ requests' = requests \cup {RequestOf(m, to, ~l.spent)}
  /\ Goes(m, [l EXCEPT !.pc = "waits", !.seen = 0, !.spent = (Via(m) = "http")])
  /\ UNCHANGED <<what, found, broker, node, cmdStream, queues, worker, handled, lost, faults, chain>>

\* The answer: an error of the logic is an error that gRPC does not retry, but
\* status 400 over HTTP, which is a success there.
Answered(r, ok) ==
  IF ok \/ r.via = "http"
    THEN Returns(r.msg, [push[r.msg] EXCEPT !.erred = r.body /\ ~ok])
    ELSE Fails(r.msg, push[r.msg])

\* The body of an answer over HTTP breaks off: an error without another attempt.
BodyLost(r) == r.via = "http" /\ Loses(r.msg) /\ Fails(r.msg, push[r.msg])

\* DeviceConnect, or IotdeviceHandler, which cannot parse an empty body.  The
\* caller may have given up.
Serve(r) ==
  /\ r \in requests
  /\ \E ok \in BOOLEAN :
       /\ IF r.body THEN Iotdevice(r.msg, ok) ELSE ~ok /\ UNCHANGED handled
       /\ IF WaitsFor(r) THEN (Answered(r, ok) /\ LosesNothing) \/ BodyLost(r)
                        ELSE UNCHANGED push /\ LosesNothing
  /\ requests' = requests \ {r}
  /\ UNCHANGED <<what, found, broker, node, cmdStream, queues, worker, chain, counter>>

\* The time limit: the request is still with its node.
Timeout(m) ==
  /\ push[m].pc = "waits" /\ \E r \in requests : r.msg = m /\ WaitsFor(r)
  /\ Loses(m)
  /\ Again(m, push[m])
  /\ UNCHANGED <<what, found, broker, node, cmdStream, requests, queues, worker, handled, chain, counter>>

\* The node crashed: the connection breaks.
ConnectionLost(m) ==
  /\ push[m].pc = "waits" /\ ~\E r \in requests : r.msg = m /\ WaitsFor(r)
  /\ Again(m, push[m])
  /\ UNCHANGED <<deviceVars, chain, counter>>

-----------------------------------------------------------------------------
(* gRPC.                                                                   *)

DeviceConnect(m) ==
  /\ TriesVia(m, "grpc")
  /\ \E n \in Nodes : Send(m, n, push[m])
  /\ UNCHANGED counter

\* No node can be reached (Unavailable), which is retried; the message does not
\* parse or the breaker is open, which is not.
DeviceConnectFails(m) ==
  /\ TriesVia(m, "grpc")
  /\ Again(m, push[m]) \/ Fails(m, push[m])
  /\ UNCHANGED <<deviceVars, chain, counter>>

-----------------------------------------------------------------------------
(* NATS.                                                                   *)

\* The stream has the message, with or without an answer.
Publish(m) ==
  /\ TriesVia(m, "nats") /\ broker = "nats"
  /\ ingress' = Plus(ingress, m)
  /\ \/ Returns(m, push[m]) /\ LosesNothing
     \/ Again(m, push[m]) /\ Loses(m)
  /\ UNCHANGED <<what, found, broker, node, cmdStream, requests, cmdq, worker, handled, chain, counter>>

PublishFails(m) ==
  /\ TriesVia(m, "nats") /\ broker = "nats"
  /\ Again(m, push[m])
  /\ UNCHANGED <<deviceVars, chain, counter>>

\* The publisher of rabbitmq is nil.
RabbitPublish(m) ==
  /\ TriesVia(m, "nats") /\ broker = "rabbitmq"
  /\ Goes(m, [push[m] EXCEPT !.pc = "panic"])
  /\ UNCHANGED <<deviceVars, chain, counter>>

-----------------------------------------------------------------------------
(* HTTP.                                                                   *)

AtHttp == {m \in Messages : push[m].pc \in {"tries", "picks", "waits"} /\ Via(m) = "http"}

\* d.fn() has no instance.
NoInstances(m) ==
  /\ TriesVia(m, "http") /\ push[m].tries = 0
  /\ Fails(m, push[m])
  /\ UNCHANGED <<deviceVars, chain, counter>>

\* Pick reads the counter, and notes whom it meets ...
Pick(m) ==
  /\ TriesVia(m, "http")
  /\ push' = [x \in Messages |->
       LET met == push[x].met \/ Cardinality(AtHttp) > 1 IN
       IF x = m THEN [push[x] EXCEPT !.pc = "picks", !.seen = counter, !.met = met]
       ELSE IF x \in AtHttp THEN [push[x] EXCEPT !.met = met] ELSE push[x]]
  /\ UNCHANGED <<deviceVars, chain, counter>>

\* Mutant: Pick does not move the counter.
MutantIncrement(m) == counter' = push[m].seen

\* Mutant: Pick does not wrap around.
MutantModulo(m) == counter' = push[m].seen + 1

\* ... and writes it, without a lock: increments of others may be lost.
Increment(m) == counter' = (push[m].seen + 1) % N

Picked(m) == push[m].pc = "picks"
Address(m) == push[m].seen + 1
Trying(m) == [push[m] EXCEPT !.tried = @ \cup {Address(m)}]

\* An address of before uses up an attempt.
Repeated(m) ==
  /\ Picked(m) /\ Address(m) \in push[m].tried
  /\ Increment(m)
  /\ Again(m, push[m])
  /\ UNCHANGED <<deviceVars, chain>>

Do(m) ==
  /\ Picked(m) /\ Address(m) \notin push[m].tried
  /\ Increment(m)
  /\ Send(m, Address(m), Trying(m))

\* The node cannot be reached, or answers 5xx without its handler (breaker, load):
\* the body may be gone.
DoFails(m) ==
  /\ Picked(m) /\ Address(m) \notin push[m].tried
  /\ Increment(m)
  /\ \E spent \in {push[m].spent} \cup (IF node[Address(m)] = "serves" THEN {TRUE} ELSE {}) :
       Again(m, [Trying(m) EXCEPT !.spent = spent])
  /\ UNCHANGED <<deviceVars, chain>>

-----------------------------------------------------------------------------

PushStep(m) ==
  \/ Push(m) \/ Timeout(m) \/ ConnectionLost(m)
  \/ DeviceConnect(m) \/ DeviceConnectFails(m)
  \/ Publish(m) \/ PublishFails(m) \/ RabbitPublish(m)
  \/ NoInstances(m) \/ Pick(m) \/ Repeated(m) \/ Do(m) \/ DoFails(m)

UpNext ==
  \/ DeviceStep /\ UNCHANGED <<chain, counter, push>>
  \/ \E m \in Messages : PushStep(m)
  \/ \E r \in requests : Serve(r)

Alone == UNCHANGED <<chain, counter, push>>

\* What happens without a new message and without a fault, and not for ever.
Progress ==
  \/ (\E n \in Nodes : StartRouter(n)) /\ Alone
  \/ (\E m \in Messages : HandleAllNatsMessage(m)) /\ Alone
  \/ \E m \in Messages : push[m].pc # "idle" /\ PushStep(m)
  \/ \E r \in requests : Serve(r)

\* Somebody goes on while anybody can: as calls and faults are bounded, nobody has to
\* be favoured.  Some worker answers what it has, with Ack or with Nack.  Of the
\* broker, the database and redis: a login is not passed over for ever by those that
\* come back, and does not fail for ever.
UpFairness ==
  /\ WF_upVars(Progress)
  /\ WF_upVars((\E n \in Nodes, m \in Messages : Answers(n, m)) /\ Alone)
  /\ \A m \in Logins :
       /\ SF_upVars((\E n \in Nodes : Receive(n, m)) /\ Alone)
       /\ SF_upVars((\E n \in Nodes : ProcessMessage(n, m, TRUE)) /\ Alone)

UpSpec == UpInit /\ [][UpNext]_upVars /\ UpFairness

-----------------------------------------------------------------------------
(* Properties.                                                             *)

\* The types of the state of iotdevice and of the pushes (routes.go:33-99,
\* devicecli.go:230-261).
UpTypeOK ==
  /\ what \in [Messages -> Kinds] /\ found \in [Messages -> BOOLEAN]
  /\ broker \in {"nats", "rabbitmq"} /\ cmdStream \in BOOLEAN
  /\ node \in [Nodes -> {"starts", "serves", "routes", "consumes", "panic"}]
  /\ worker \in [Nodes -> SUBSET Messages]
  /\ requests \subseteq [msg : Messages, via : {"grpc", "http"}, try : Nat, to : Nodes, body : BOOLEAN]
  /\ {ingress, cmdq, handled, lost} \subseteq [Messages -> Nat]
  /\ faults \in 0 .. MaxFaults /\ counter \in 0 .. N - 1 /\ chain \in {ChainOf(mode) : mode \in Modes}
  /\ push \in [Messages ->
       [pc : {"idle", "tries", "picks", "waits", "ok", "failed", "panic"}, i : 1 .. 3,
        tries : Nat, seen : 0 .. N - 1, tried : SUBSET Nodes,
        spent : BOOLEAN, erred : BOOLEAN, met : BOOLEAN]]

\* What a Push without an error means: the message was handled; or NATS has it, under
\* one subject or the other, or dropped it because extractCmd found no registered
\* cmd in it, also when it is a login (handleNatsMessage.go:36-48); or HTTP answered with
\* the status 400 of a handler that failed, or of one that got the empty body of
\* a further attempt (grpcClient.go:38-72, httpClient.go:100-113, routes.go:68-78,
\* handleNatsMessage.go:27-31).
OkIsCovered ==
  \A m \in Messages : push[m].pc = "ok" /\ handled[m] = 0 =>
    \/ Via(m) = "nats" /\ (~found[m] \/ ingress[m] + cmdq[m] > 0)
    \/ Via(m) = "http" /\ (push[m].erred \/ push[m].tries > 0)

\* Every further handling of a message is due to an answer or an acknowledgement that
\* was lost: retries, fallbacks, Nacks and the two subjects make none by themselves
\* (devicecli.go:241-252, mqClient.go:59-76, routes.go:68-78, handleNatsMessage.go:28-31).
HandledOnce == \A m \in Messages : handled[m] <= 1 + lost[m]

\* A Push over HTTP that has instances, meets no other Push and loses no answer fails
\* only when it has tried every instance, or HttpTries of them, wherever the counter
\* stood (httpClient.go:37-44, 89-118).
TriesAll ==
  \A m \in Messages :
    push[m].pc = "failed" /\ push[m].tried # {} /\ ~push[m].met /\ lost[m] = 0 =>
      push[m].tried = Nodes \/ Cardinality(push[m].tried) = HttpTries

\* A Push returns, or panics (grpcClient.go:54-71, mqClient.go:59-77, httpClient.go:90-120).
PushReturns ==
  \A m \in Messages : push[m].pc # "idle" ~> push[m].pc \in {"ok", "failed", "panic"}

Consuming == \E n \in Nodes : node[n] = "consumes"

\* A login that NATS has accepted and whose cmd extractCmd finds is handled while
\* some node consumes, over crashes, lost acknowledgements and messages that are
\* refused and come back for ever (routes.go:45-81).
NatsHandled ==
  \A m \in Logins :
    found[m] /\ push[m].pc = "ok" /\ Via(m) = "nats" /\ Consuming
      ~> handled[m] > 0 \/ ~Consuming

\* handleNatsMessage.go:23 and 35 (a cmd that is not registered is dropped; extractCmd
\* returns the value of the field "cmd", and "" if it is missing or illegal): a login
\* that NATS has accepted is handled, or still in one of its subjects.
LoginIsKept ==
  \A m \in Messages :
    what[m] = "login" /\ push[m].pc = "ok" /\ Via(m) = "nats" /\ handled[m] = 0 =>
      ingress[m] + cmdq[m] > 0
=============================================================================
