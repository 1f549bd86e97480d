--------------------------- MODULE TransportsProofs ---------------------------
(***************************************************************************)
(* Theorems about Transports and IotDevice, for any messages, nodes, modes,*)
(* numbers of retries and faults.  Weight counts what can still make       *)
(* iotdevice handle a message; only a loss adds to it, and the number of   *)
(* times the message is handled can never be more.  WalkInv says where a   *)
(* Push over HTTP has been, relative to the counter the pushes share.      *)
(***************************************************************************)
EXTENDS Transports, FiniteSetTheorems, SequenceTheorems, TLAPS

Pushes ==
  [pc : {"idle", "tries", "picks", "waits", "ok", "failed", "panic"}, i : 1 .. 3,
   tries : Nat, seen : 0 .. N - 1, tried : SUBSET Nodes,
   spent : BOOLEAN, erred : BOOLEAN, met : BOOLEAN]

\* What a Push is at any time: at a client of the chain, and a body that was sent
\* once is never sent again but by a further attempt over HTTP.
PushOK(l) ==
  /\ l \in Pushes /\ l.i \in 1 .. Len(chain)
  /\ l.pc = "picks" => chain[l.i] = "http"
  /\ l.pc = "waits" => chain[l.i] \in {"grpc", "http"}
  /\ l.pc = "idle" => l.spent = FALSE
  /\ l.spent = TRUE /\ l.pc \in {"tries", "picks"} => chain[l.i] = "http" /\ l.tries > 0
  /\ l.spent = TRUE /\ l.pc = "waits" => chain[l.i] = "http"

RequestOK(r) == r.body = FALSE => r.via = "http" /\ r.try > 0

\* The requests that carry m, and whether its Push may still make another.
Reqs(m) == {r \in requests : r.msg = m}
Open(m) ==
  IF \/ push[m].pc \in {"idle", "tries", "picks"}
     \/ push[m].pc = "waits" /\ ~\E r \in Reqs(m) : WaitsFor(r)
  THEN 1 ELSE 0

Weight(m) == handled[m] + Cardinality(Reqs(m)) + ingress[m] + cmdq[m] + Open(m)

Weighed == \A m \in Messages : Weight(m) <= 1 + lost[m]

UpInv ==
  /\ UpTypeOK /\ IsFiniteSet(requests)
  /\ \A m \in Messages : PushOK(push[m])
  /\ \A r \in requests : RequestOK(r)
  /\ Weighed /\ OkIsCovered

-----------------------------------------------------------------------------
(* The chain.                                                              *)

LEMMA ChainShape ==
  ASSUME UpTypeOK
  PROVE  /\ chain \in Seq({"grpc", "nats", "http"}) /\ Len(chain) \in Nat
         /\ 1 <= Len(chain) /\ Len(chain) <= 3
         /\ \A i \in 1 .. Len(chain) : chain[i] \in {"grpc", "nats", "http"}
         /\ \A i \in 1 .. Len(chain) : chain[i] = "http" => i = Len(chain)
<1>1. PICK mode \in Modes : chain = ChainOf(mode)
  BY DEF UpTypeOK
<1>2. mode \in (SUBSET {"grpc", "nats", "http"}) \ {{}}
  BY TransportsAssumption
<1> DEFINE has(t) == t \in mode
<1>3. CASE has("grpc") /\ has("nats") /\ has("http")
  BY <1>1, <1>3 DEF ChainOf
<1>4. CASE has("grpc") /\ has("nats") /\ ~has("http")
  BY <1>1, <1>4 DEF ChainOf
<1>5. CASE has("grpc") /\ ~has("nats") /\ has("http")
  BY <1>1, <1>5 DEF ChainOf
<1>6. CASE has("grpc") /\ ~has("nats") /\ ~has("http")
  BY <1>1, <1>6 DEF ChainOf
<1>7. CASE ~has("grpc") /\ has("nats") /\ has("http")
  BY <1>1, <1>7 DEF ChainOf
<1>8. CASE ~has("grpc") /\ has("nats") /\ ~has("http")
  BY <1>1, <1>8 DEF ChainOf
<1>9. CASE ~has("grpc") /\ ~has("nats") /\ has("http")
  BY <1>1, <1>9 DEF ChainOf
<1>10. has("grpc") \/ has("nats") \/ has("http")
  BY <1>2
<1> QED
  BY <1>3, <1>4, <1>5, <1>6, <1>7, <1>8, <1>9, <1>10

\* What an attempt that fails makes of its Push: another attempt, or the next
\* client, or the end.
LEMMA AfterFailure ==
  ASSUME UpTypeOK, NEW m \in Messages, NEW l \in Pushes, l.i \in 1 .. Len(chain),
         l.spent = TRUE => chain[l.i] = "http", Again(m, l) \/ Fails(m, l)
  PROVE  \E p : /\ push' = [push EXCEPT ![m] = p] /\ PushOK(p)
                /\ p.pc \in {"tries", "failed"}
<1>0. /\ Len(chain) \in Nat /\ 1 <= Len(chain) /\ Len(chain) <= 3
      /\ chain[l.i] \in {"grpc", "nats", "http"}
      /\ chain[l.i] = "http" => l.i = Len(chain)
      /\ N \in Nat \ {0} /\ 0 \in 0 .. N - 1
  BY ChainShape, DeviceAssumption
<1>1. ASSUME Fails(m, l)
      PROVE  \E p : /\ push' = [push EXCEPT ![m] = p] /\ PushOK(p)
                    /\ p.pc \in {"tries", "failed"}
  <2>1. CASE l.i < Len(chain)
    <3> DEFINE p == [l EXCEPT !.pc = "tries", !.i = l.i + 1, !.tries = 0]
    <3>1. push' = [push EXCEPT ![m] = p]
      BY <1>1, <2>1 DEF Fails, Begin, Goes
    <3>2. l.spent = FALSE
      BY <1>0, <2>1 DEF Pushes
    <3>3. l.i + 1 \in 1 .. Len(chain) /\ l.i + 1 \in 1 .. 3
      BY <1>0, <2>1
    <3>4. /\ p \in Pushes /\ p.pc = "tries" /\ p.i = l.i + 1 /\ p.spent = FALSE
      BY <3>2, <3>3 DEF Pushes
    <3> HIDE DEF p
    <3>5. PushOK(p)
      BY <3>3, <3>4 DEF PushOK
    <3> QED
      BY <3>1, <3>4, <3>5
  <2>2. CASE ~(l.i < Len(chain))
    <3> DEFINE p == [l EXCEPT !.pc = "failed", !.seen = 0]
    <3>1. push' = [push EXCEPT ![m] = p]
      BY <1>1, <2>2 DEF Fails, Goes
    <3>2. p \in Pushes /\ p.pc = "failed" /\ p.i = l.i
      BY <1>0 DEF Pushes
    <3> HIDE DEF p
    <3>3. PushOK(p)
      BY <3>2 DEF PushOK
    <3> QED
      BY <3>1, <3>2, <3>3
  <2> QED
    BY <2>1, <2>2
<1>2. ASSUME Again(m, l), ~Fails(m, l)
      PROVE  \E p : /\ push' = [push EXCEPT ![m] = p] /\ PushOK(p)
                    /\ p.pc \in {"tries", "failed"}
  <2> DEFINE p == [l EXCEPT !.pc = "tries", !.seen = 0, !.tries = @ + 1]
  <2>1. push' = [push EXCEPT ![m] = p]
    BY <1>2 DEF Again, Goes
  <2>2. l.tries \in Nat /\ l.tries + 1 \in Nat /\ l.tries + 1 > 0
    BY DEF Pushes
  <2>3. /\ p \in Pushes /\ p.pc = "tries" /\ p.i = l.i /\ p.spent = l.spent
        /\ p.tries = l.tries + 1
    BY <1>0, <2>2 DEF Pushes
  <2> HIDE DEF p
  <2>4. PushOK(p)
    BY <2>2, <2>3 DEF PushOK
  <2> QED
    BY <2>1, <2>3, <2>4
<1> QED
  BY <1>1, <1>2
-----------------------------------------------------------------------------
(* The parts of the invariant.                                             *)

Requests == [msg : Messages, via : {"grpc", "http"}, try : Nat, to : Nodes, body : BOOLEAN]

\* The types again, one variable at a time.
DeviceTypes ==
  /\ what \in [Messages -> Kinds] /\ found \in [Messages -> BOOLEAN]
  /\ broker \in {"nats", "rabbitmq"} /\ cmdStream \in BOOLEAN
  /\ node \in [Nodes -> {"starts", "serves", "routes", "consumes", "panic"}]
  /\ ingress \in [Messages -> Nat] /\ cmdq \in [Messages -> Nat]
  /\ handled \in [Messages -> Nat] /\ lost \in [Messages -> Nat]
  /\ faults \in 0 .. MaxFaults /\ worker \in [Nodes -> SUBSET Messages]
PushTypes ==
  /\ requests \subseteq Requests
  /\ counter \in 0 .. N - 1 /\ chain \in {ChainOf(mode) : mode \in Modes}
  /\ push \in [Messages -> Pushes]

LEMMA TypeParts == UpTypeOK <=> DeviceTypes /\ PushTypes
  BY DEF UpTypeOK, DeviceTypes, PushTypes, Requests, Pushes

\* OkIsCovered for one message.
Covered(m) ==
  push[m].pc = "ok" /\ handled[m] = 0 =>
    \/ Via(m) = "nats" /\ (~found[m] \/ ingress[m] + cmdq[m] > 0)
    \/ Via(m) = "http" /\ (push[m].erred \/ push[m].tries > 0)

LEMMA CoveredAll == OkIsCovered <=> \A m \in Messages : Covered(m)
  BY DEF OkIsCovered, Covered

\* The numbers a weight is made of.
LEMMA Numbers ==
  ASSUME UpInv, NEW m \in Messages
  PROVE  /\ IsFiniteSet(Reqs(m)) /\ Cardinality(Reqs(m)) \in Nat
         /\ handled[m] \in Nat /\ ingress[m] \in Nat /\ cmdq[m] \in Nat /\ lost[m] \in Nat
         /\ Open(m) \in {0, 1} /\ Weight(m) <= 1 + lost[m]
<1>1. IsFiniteSet(Reqs(m))
  BY FS_Subset DEF UpInv, Reqs
<1>2. Cardinality(Reqs(m)) \in Nat
  BY <1>1, FS_CardinalityType
<1>3. handled[m] \in Nat /\ ingress[m] \in Nat /\ cmdq[m] \in Nat /\ lost[m] \in Nat
  BY TypeParts DEF UpInv, DeviceTypes
<1>4. Open(m) \in {0, 1}
  BY DEF Open
<1> QED
  BY <1>1, <1>2, <1>3, <1>4 DEF UpInv, Weighed

\* A step that concerns message m alone.
ApartFrom(m) ==
  /\ chain' = chain /\ found' = found
  /\ \A x \in Messages \ {m} :
       /\ Reqs(x)' = Reqs(x)
       /\ handled'[x] = handled[x] /\ ingress'[x] = ingress[x] /\ cmdq'[x] = cmdq[x]
       /\ lost'[x] = lost[x]
       /\ push'[x].pc = push[x].pc /\ push'[x].i = push[x].i /\ push'[x].tries = push[x].tries
       /\ push'[x].erred = push[x].erred /\ PushOK(push'[x])

LEMMA SameOpen ==
  ASSUME NEW x \in Messages, Reqs(x)' = Reqs(x), chain' = chain,
         push'[x].pc = push[x].pc, push'[x].i = push[x].i, push'[x].tries = push[x].tries
  PROVE  Open(x)' = Open(x)
<1>1. \A r \in Reqs(x) : WaitsFor(r)' <=> WaitsFor(r)
  BY DEF Reqs, WaitsFor, Via
<1> QED
  BY <1>1 DEF Open

\* Then only m has to be looked at.
LEMMA Assemble ==
  ASSUME UpInv, NEW m \in Messages, ApartFrom(m),
         DeviceTypes', PushTypes', IsFiniteSet(requests'), \A r \in requests' : RequestOK(r),
         PushOK(push'[m]), Weight(m)' <= 1 + lost'[m], Covered(m)'
  PROVE  UpInv'
<1>1. UpTypeOK' /\ chain' = chain
  BY DEF UpTypeOK, DeviceTypes, PushTypes, Requests, Pushes, ApartFrom
<1>2. \A x \in Messages : PushOK(push[x])'
  BY <1>1 DEF ApartFrom, PushOK
<1>3. \A r \in requests' : RequestOK(r)'
  BY DEF RequestOK
<1>4. Weighed'
  <2>1. ASSUME NEW x \in Messages \ {m} PROVE Weight(x)' <= 1 + lost'[x]
    <3>1. Open(x)' = Open(x)
      BY SameOpen DEF ApartFrom
    <3>2. Weight(x)' = Weight(x)
      BY <3>1 DEF ApartFrom, Weight
    <3> QED
      BY <3>2 DEF ApartFrom, UpInv, Weighed
  <2> QED
    BY <2>1 DEF Weighed
<1>5. OkIsCovered'
  <2>1. ASSUME NEW x \in Messages \ {m} PROVE Covered(x)'
    <3>1. Covered(x)
      BY CoveredAll DEF UpInv
    <3> QED
      BY <3>1 DEF ApartFrom, Covered, Via
  <2>2. \A x \in Messages : Covered(x)'
    BY <2>1
  <2> QED
    BY <2>2 DEF OkIsCovered, Covered
<1> QED
  BY <1>1, <1>2, <1>3, <1>4, <1>5 DEF UpInv

\* A step that changes nothing but the Push of m, which was open, and the counter.
LEMMA AttemptKeeps ==
  ASSUME UpInv, NEW m \in Messages, NEW p, Open(m) = 1, PushOK(p),
         p.pc \in {"tries", "picks", "failed", "panic"},
         push' = [push EXCEPT ![m] = p], UNCHANGED <<deviceVars, chain>>, counter' \in 0 .. N - 1
  PROVE  UpInv'
<1>1. /\ what' = what /\ found' = found /\ broker' = broker /\ node' = node
      /\ cmdStream' = cmdStream /\ worker' = worker
      /\ requests' = requests /\ ingress' = ingress /\ cmdq' = cmdq /\ handled' = handled
      /\ lost' = lost /\ faults' = faults /\ chain' = chain
  BY DEF deviceVars, queues
<1>2. DeviceTypes /\ PushTypes /\ (\A x \in Messages : PushOK(push[x]))
  BY TypeParts DEF UpInv
<1>3. DeviceTypes' /\ PushTypes'
  BY <1>1, <1>2 DEF DeviceTypes, PushTypes, PushOK
<1>4. push'[m] = p /\ \A x \in Messages \ {m} : push'[x] = push[x]
  BY <1>2 DEF PushTypes
<1>5. ApartFrom(m)
  BY <1>1, <1>2, <1>4 DEF ApartFrom, Reqs
<1>6. Weight(m)' <= 1 + lost'[m]
  <2>1. Open(m)' \in {0, 1} /\ Reqs(m)' = Reqs(m)
    BY <1>1 DEF Open, Reqs
  <2> QED
    BY <2>1, <1>1, Numbers DEF Weight
<1>7. Covered(m)'
  BY <1>4 DEF Covered
<1> QED
  BY <1>1, <1>3, <1>4, <1>5, <1>6, <1>7, Assemble DEF UpInv
-----------------------------------------------------------------------------
(* The steps of a Push.                                                    *)

\* What is known of the Push of m.
LEMMA PushFacts ==
  ASSUME UpInv, NEW m \in Messages
  PROVE  /\ push[m] \in Pushes /\ PushOK(push[m]) /\ UpTypeOK /\ push[m].i \in 1 .. Len(chain)
         /\ push[m].pc \in {"tries", "picks", "idle"} => Open(m) = 1
         /\ counter \in 0 .. N - 1 /\ N \in Nat \ {0}
  BY TypeParts, DeviceAssumption DEF UpInv, PushTypes, PushOK, Open

\* A failed attempt leaves everything else as it is.
LEMMA FailureKeeps ==
  ASSUME UpInv, NEW m \in Messages, NEW l \in Pushes, l.i = push[m].i, Open(m) = 1,
         l.spent = TRUE => chain[l.i] = "http", Again(m, l) \/ Fails(m, l),
         UNCHANGED <<deviceVars, chain>>, counter' \in 0 .. N - 1
  PROVE  UpInv'
<1>1. UpTypeOK /\ l.i \in 1 .. Len(chain)
  BY PushFacts
<1>2. PICK p : push' = [push EXCEPT ![m] = p] /\ PushOK(p) /\ p.pc \in {"tries", "failed"}
  BY <1>1, AfterFailure
<1> QED
  BY <1>2, AttemptKeeps

\* A Push whose spent body is still with it is at HTTP.
LEMMA SpentIsHttp ==
  ASSUME UpInv, NEW m \in Messages, push[m].pc \in {"tries", "picks", "waits"}
  PROVE  push[m].spent = TRUE => chain[push[m].i] = "http"
  BY PushFacts DEF PushOK

LEMMA BeginsKeeps ==
  ASSUME UpInv, NEW m \in Messages, Push(m)
  PROVE  UpInv'
<1> DEFINE p == [push[m] EXCEPT !.pc = "tries", !.i = 1, !.tries = 0]
<1>1. push[m] \in Pushes /\ push[m].spent = FALSE /\ Open(m) = 1 /\ 1 <= Len(chain)
      /\ Len(chain) \in Nat
  BY PushFacts, ChainShape DEF Push, PushOK
<1>2. push' = [push EXCEPT ![m] = p] /\ UNCHANGED <<deviceVars, chain>> /\ counter' \in 0 .. N - 1
  BY PushFacts DEF Push, Begin, Goes
<1>3. p \in Pushes /\ p.pc = "tries" /\ p.i = 1 /\ p.spent = FALSE
  <2>1. 1 \in 1 .. 3 /\ 0 \in Nat
    OBVIOUS
  <2>2. p \in Pushes
    BY <1>1, <2>1 DEF Pushes
  <2> QED
    BY <1>1, <2>2 DEF Pushes
<1> HIDE DEF p
<1>4. PushOK(p)
  BY <1>1, <1>3 DEF PushOK
<1> QED
  BY <1>1, <1>2, <1>3, <1>4, AttemptKeeps

LEMMA ConnectionLostKeeps ==
  ASSUME UpInv, NEW m \in Messages, ConnectionLost(m)
  PROVE  UpInv'
<1>1. push[m].pc = "waits" /\ Again(m, push[m]) /\ UNCHANGED <<deviceVars, chain, counter>>
  BY DEF ConnectionLost
<1>2. Open(m) = 1
  BY DEF ConnectionLost, Open, Reqs
<1> QED
  BY <1>1, <1>2, PushFacts, SpentIsHttp, FailureKeeps

LEMMA TriesKeep ==
  ASSUME UpInv, NEW m \in Messages, DeviceConnectFails(m) \/ PublishFails(m) \/ NoInstances(m)
  PROVE  UpInv'
<1>1. /\ push[m].pc = "tries" /\ UNCHANGED <<deviceVars, chain, counter>>
      /\ Again(m, push[m]) \/ Fails(m, push[m])
  BY DEF DeviceConnectFails, PublishFails, NoInstances, TriesVia
<1> QED
  BY <1>1, PushFacts, SpentIsHttp, FailureKeeps

LEMMA PanicKeeps ==
  ASSUME UpInv, NEW m \in Messages, RabbitPublish(m)
  PROVE  UpInv'
<1> DEFINE p == [push[m] EXCEPT !.pc = "panic"]
<1>1. push[m] \in Pushes /\ push[m].i \in 1 .. Len(chain) /\ Open(m) = 1
  BY PushFacts DEF RabbitPublish, TriesVia
<1>2. push' = [push EXCEPT ![m] = p] /\ UNCHANGED <<deviceVars, chain>> /\ counter' \in 0 .. N - 1
  BY PushFacts DEF RabbitPublish, Goes
<1>3. p \in Pushes /\ p.pc = "panic" /\ p.i = push[m].i
  BY <1>1 DEF Pushes
<1> HIDE DEF p
<1>4. PushOK(p)
  BY <1>1, <1>3 DEF PushOK
<1> QED
  BY <1>1, <1>2, <1>3, <1>4, AttemptKeeps

\* The increment stays within the instances.
LEMMA IncrementInRange ==
  ASSUME UpInv, NEW m \in Messages, Increment(m)
  PROVE  counter' \in 0 .. N - 1
<1>1. push[m].seen \in Nat /\ N \in Nat \ {0}
  BY PushFacts DEF Pushes
<1>2. push[m].seen + 1 \in Nat
  BY <1>1
<1>3. \A a \in Nat, n \in Nat \ {0} : a % n \in 0 .. n - 1
  OBVIOUS
<1> QED
  BY <1>1, <1>2, <1>3 DEF Increment

LEMMA TryingOK ==
  ASSUME UpInv, NEW m \in Messages, Picked(m)
  PROVE  /\ Trying(m) \in Pushes /\ Trying(m).i = push[m].i /\ Trying(m).tries = push[m].tries
         /\ Trying(m).spent = push[m].spent /\ Trying(m).erred = push[m].erred
         /\ Address(m) \in Nodes /\ chain[push[m].i] = "http"
<1>1. push[m] \in Pushes /\ PushOK(push[m]) /\ N \in Nat \ {0}
  BY PushFacts
<1>2. Address(m) \in Nodes
  BY <1>1 DEF Address, Nodes, Pushes
<1> QED
  BY <1>1, <1>2 DEF Trying, Picked, PushOK, Pushes

LEMMA HttpFailureKeeps ==
  ASSUME UpInv, NEW m \in Messages, Repeated(m) \/ DoFails(m)
  PROVE  UpInv'
<1>1. Picked(m) /\ Increment(m) /\ UNCHANGED <<deviceVars, chain>>
  BY DEF Repeated, DoFails
<1>2. Open(m) = 1 /\ counter' \in 0 .. N - 1 /\ chain[push[m].i] = "http"
  BY <1>1, PushFacts, IncrementInRange, TryingOK DEF Picked
<1>3. CASE Repeated(m)
  BY <1>1, <1>2, <1>3, PushFacts, FailureKeeps DEF Repeated
<1>4. CASE DoFails(m)
  <2>1. PICK spent \in BOOLEAN : Again(m, [Trying(m) EXCEPT !.spent = spent])
    BY <1>4, PushFacts DEF DoFails, Pushes
  <2> DEFINE l == [Trying(m) EXCEPT !.spent = spent]
  <2>2. l \in Pushes /\ l.i = push[m].i
    BY <1>1, TryingOK DEF Pushes
  <2>3. Again(m, l)
    BY <2>1
  <2> HIDE DEF l
  <2> QED
    BY <1>1, <1>2, <2>2, <2>3, FailureKeeps
<1> QED
  BY <1>3, <1>4
\* Pick marks the pushes it meets and the one that picks.
LEMMA PickKeeps ==
  ASSUME UpInv, NEW m \in Messages, Pick(m)
  PROVE  UpInv'
<1> DEFINE met(x) == push[x].met \/ Cardinality(AtHttp) > 1
           new(x) == IF x = m THEN [push[x] EXCEPT !.pc = "picks", !.seen = counter, !.met = met(x)]
                     ELSE IF x \in AtHttp THEN [push[x] EXCEPT !.met = met(x)] ELSE push[x]
<1>1. /\ push' = [x \in Messages |-> new(x)] /\ push[m].pc = "tries" /\ chain[push[m].i] = "http"
      /\ what' = what /\ found' = found /\ broker' = broker /\ node' = node
      /\ cmdStream' = cmdStream /\ worker' = worker
      /\ requests' = requests /\ ingress' = ingress /\ cmdq' = cmdq /\ handled' = handled
      /\ lost' = lost /\ faults' = faults /\ chain' = chain /\ counter' = counter
  BY DEF Pick, TriesVia, Via, deviceVars, queues
<1>2. DeviceTypes /\ PushTypes
  BY TypeParts DEF UpInv
<1>3. ASSUME NEW x \in Messages PROVE push[x] \in Pushes /\ PushOK(push[x]) /\ met(x) \in BOOLEAN
  <2>1. push[x] \in Pushes /\ PushOK(push[x])
    BY PushFacts
  <2> QED
    BY <2>1, Zenon DEF Pushes
<1> HIDE DEF met
<1>4. ASSUME NEW x \in Messages \ {m}
      PROVE  /\ new(x) \in Pushes /\ PushOK(new(x)) /\ new(x).pc = push[x].pc
             /\ new(x).i = push[x].i /\ new(x).tries = push[x].tries
             /\ new(x).erred = push[x].erred
  <2>1. new(x) = push[x] \/ new(x) = [push[x] EXCEPT !.met = met(x)]
    OBVIOUS
  <2>2. CASE new(x) = push[x]
    BY <2>2, <1>3
  <2>3. CASE new(x) = [push[x] EXCEPT !.met = met(x)]
    <3>1. /\ new(x) \in Pushes /\ new(x).pc = push[x].pc /\ new(x).i = push[x].i
          /\ new(x).tries = push[x].tries /\ new(x).erred = push[x].erred
          /\ new(x).spent = push[x].spent
      BY <2>3, <1>3 DEF Pushes
    <3> HIDE DEF new
    <3> QED
      BY <3>1, <1>3 DEF PushOK
  <2> QED
    BY <2>1, <2>2, <2>3
<1>5. new(m) \in Pushes /\ PushOK(new(m)) /\ new(m).pc = "picks"
  <2>1. /\ new(m) \in Pushes /\ new(m).pc = "picks" /\ new(m).i = push[m].i
        /\ new(m).tries = push[m].tries /\ new(m).spent = push[m].spent
    BY <1>2, <1>3 DEF Pushes, PushTypes
  <2> HIDE DEF new
  <2> QED
    BY <2>1, <1>1, <1>3 DEF PushOK
<1>6. push'[m] = new(m) /\ \A x \in Messages \ {m} : push'[x] = new(x)
  BY <1>1
<1> HIDE DEF new
<1>7. DeviceTypes' /\ PushTypes'
  BY <1>1, <1>2, <1>4, <1>5 DEF DeviceTypes, PushTypes
<1>8. ApartFrom(m)
  BY <1>1, <1>4, <1>6 DEF ApartFrom, Reqs
<1>9. Weight(m)' <= 1 + lost'[m]
  <2>1. Open(m) = 1 /\ Open(m)' \in {0, 1} /\ Reqs(m)' = Reqs(m)
    BY <1>1 DEF Open, Reqs
  <2> QED
    BY <2>1, <1>1, Numbers DEF Weight
<1>10. Covered(m)'
  BY <1>5, <1>6 DEF Covered
<1> QED
  BY <1>1, <1>5, <1>6, <1>7, <1>8, <1>9, <1>10, Assemble DEF UpInv

\* A call to a node: what was open is now the request.
LEMMA SendKeeps ==
  ASSUME UpInv, NEW m \in Messages, NEW to \in Nodes, NEW l \in Pushes,
         push[m].pc \in {"tries", "picks"}, chain[push[m].i] \in {"grpc", "http"},
         l.i = push[m].i, l.tries = push[m].tries, l.spent = push[m].spent,
         Send(m, to, l), counter' \in 0 .. N - 1
  PROVE  UpInv'
<1> PICK r : r = RequestOf(m, to, ~l.spent)
  OBVIOUS
<1> DEFINE p == [l EXCEPT !.pc = "waits", !.seen = 0, !.spent = (Via(m) = "http")]
<1>1. /\ requests' = requests \cup {r} /\ push' = [push EXCEPT ![m] = p]
      /\ what' = what /\ found' = found /\ broker' = broker /\ node' = node
      /\ cmdStream' = cmdStream /\ worker' = worker
      /\ ingress' = ingress /\ cmdq' = cmdq /\ handled' = handled
      /\ lost' = lost /\ faults' = faults /\ chain' = chain
  BY DEF Send, Goes, queues
<1>2. /\ DeviceTypes /\ PushTypes /\ push[m] \in Pushes /\ PushOK(push[m]) /\ Open(m) = 1
      /\ 0 \in 0 .. N - 1 /\ IsFiniteSet(requests)
  BY PushFacts, TypeParts DEF UpInv
<1>3. /\ p \in Pushes /\ p.pc = "waits" /\ p.i = push[m].i /\ p.tries = push[m].tries
      /\ p.spent = (chain[push[m].i] = "http")
  BY <1>2 DEF Pushes, Via
<1>4. /\ r \in Requests /\ r.msg = m /\ r.via = chain[push[m].i] /\ r.try = push[m].tries
      /\ r.body = ~push[m].spent
  <2>1. (~l.spent) \in BOOLEAN /\ push[m].tries \in Nat
    BY <1>2, Zenon DEF Pushes
  <2> QED
    BY <2>1 DEF RequestOf, Requests, Via
<1> HIDE DEF p
<1>5. RequestOK(r)
  <2>1. r.body = FALSE => push[m].spent = TRUE
    BY <1>2, <1>4, Zenon DEF Pushes
  <2> QED
    BY <2>1, <1>2, <1>4 DEF RequestOK, PushOK
<1>6. PushOK(p)
  BY <1>2, <1>3 DEF PushOK
<1>7. push'[m] = p /\ \A x \in Messages \ {m} : push'[x] = push[x] /\ PushOK(push[x])
  BY <1>1, <1>2, PushFacts DEF PushTypes
<1>8. DeviceTypes' /\ PushTypes'
  BY <1>1, <1>2, <1>3, <1>4 DEF DeviceTypes, PushTypes
<1>9. ApartFrom(m)
  <2>1. \A x \in Messages \ {m} : Reqs(x)' = Reqs(x)
    BY <1>1, <1>4 DEF Reqs
  <2> QED
    BY <2>1, <1>1, <1>7 DEF ApartFrom
<1>10. Weight(m)' <= 1 + lost'[m]
  <2>1. Reqs(m)' = Reqs(m) \cup {r}
    BY <1>1, <1>4 DEF Reqs
  <2>2. IsFiniteSet(Reqs(m)) /\ Cardinality(Reqs(m)) \in Nat
    BY Numbers
  <2>3. Cardinality(Reqs(m))' \in Nat /\ Cardinality(Reqs(m))' <= Cardinality(Reqs(m)) + 1
    <3>1. Cardinality(Reqs(m) \cup {r}) \in {Cardinality(Reqs(m)), Cardinality(Reqs(m)) + 1}
      BY <2>2, FS_AddElement
    <3> QED
      BY <2>1, <2>2, <3>1
  <2>4. Open(m)' = 0
    <3>1. r \in Reqs(m)'
      BY <2>1
    <3>2. WaitsFor(r)'
      BY <1>1, <1>3, <1>4, <1>7 DEF WaitsFor, Via
    <3> QED
      BY <3>1, <3>2, <1>3, <1>7 DEF Open
  <2> QED
    BY <2>3, <2>4, <1>1, <1>2, Numbers DEF Weight
<1>11. Covered(m)'
  BY <1>3, <1>7 DEF Covered
<1>12. IsFiniteSet(requests') /\ \A q \in requests' : RequestOK(q)
  BY <1>1, <1>2, <1>5, FS_AddElement DEF UpInv
<1> QED
  BY <1>6, <1>7, <1>8, <1>9, <1>10, <1>11, <1>12, Assemble

LEMMA CallsKeep ==
  ASSUME UpInv, NEW m \in Messages, DeviceConnect(m) \/ Do(m)
  PROVE  UpInv'
<1>1. CASE DeviceConnect(m)
  <2>1. PICK n \in Nodes : Send(m, n, push[m])
    BY <1>1 DEF DeviceConnect
  <2> QED
    BY <1>1, <2>1, PushFacts, SendKeeps DEF DeviceConnect, TriesVia, Via
<1>2. CASE Do(m)
  <2>1. /\ Picked(m) /\ Increment(m) /\ Send(m, Address(m), Trying(m))
    BY <1>2 DEF Do
  <2> QED
    BY <2>1, TryingOK, IncrementInRange, SendKeeps DEF Picked
<1> QED
  BY <1>1, <1>2
\* A loss is paid for.
LEMMA LosesCounts ==
  ASSUME UpInv, NEW m \in Messages, Loses(m)
  PROVE  /\ lost' \in [Messages -> Nat] /\ faults' \in 0 .. MaxFaults
         /\ lost'[m] = lost[m] + 1 /\ \A x \in Messages \ {m} : lost'[x] = lost[x]
<1>1. lost \in [Messages -> Nat] /\ faults \in 0 .. MaxFaults /\ MaxFaults \in Nat
  BY TypeParts, DeviceAssumption DEF UpInv, DeviceTypes
<1> QED
  BY <1>1 DEF Loses, Plus

LEMMA TimeoutKeeps ==
  ASSUME UpInv, NEW m \in Messages, Timeout(m)
  PROVE  UpInv'
<1>1. /\ push[m].pc = "waits" /\ Loses(m) /\ Again(m, push[m])
      /\ what' = what /\ found' = found /\ broker' = broker /\ node' = node
      /\ cmdStream' = cmdStream /\ worker' = worker
      /\ requests' = requests /\ ingress' = ingress /\ cmdq' = cmdq /\ handled' = handled
      /\ chain' = chain /\ counter' = counter
  BY DEF Timeout, queues
<1>2. DeviceTypes /\ PushTypes /\ UpTypeOK /\ \A x \in Messages : PushOK(push[x])
  BY TypeParts DEF UpInv
<1>3. PICK p : push' = [push EXCEPT ![m] = p] /\ PushOK(p) /\ p.pc \in {"tries", "failed"}
  BY <1>1, PushFacts, SpentIsHttp, AfterFailure
<1>4. push'[m] = p /\ \A x \in Messages \ {m} : push'[x] = push[x]
  BY <1>2, <1>3 DEF PushTypes
<1>5. DeviceTypes' /\ PushTypes'
  BY <1>1, <1>2, <1>3, LosesCounts DEF DeviceTypes, PushTypes, PushOK
<1>6. ApartFrom(m)
  BY <1>1, <1>2, <1>4, LosesCounts DEF ApartFrom, Reqs
<1>7. Weight(m)' <= 1 + lost'[m]
  <2>1. Open(m)' \in {0, 1} /\ Reqs(m)' = Reqs(m) /\ Open(m) \in {0, 1}
    BY <1>1 DEF Open, Reqs
  <2>2. Open(m) = 0 \/ Open(m)' <= Open(m)
    BY <2>1
  <2> QED
    BY <2>1, <2>2, <1>1, Numbers, LosesCounts DEF Weight
<1>8. Covered(m)'
  BY <1>3, <1>4 DEF Covered
<1> QED
  BY <1>1, <1>3, <1>4, <1>5, <1>6, <1>7, <1>8, Assemble DEF UpInv

\* What Returns leaves of a Push.
LEMMA AfterReturn ==
  ASSUME UpTypeOK, NEW m \in Messages, NEW l \in Pushes, l.i \in 1 .. Len(chain), Returns(m, l)
  PROVE  \E p : /\ push' = [push EXCEPT ![m] = p] /\ PushOK(p) /\ p.pc = "ok" /\ p.i = l.i
                /\ p.erred = l.erred /\ (l.tries > 0 => p.tries > 0)
<1> DEFINE p == [Idle EXCEPT !.pc = "ok", !.i = l.i, !.erred = l.erred,
                             !.tries = IF l.tries > 0 THEN 1 ELSE 0]
<1>1. push' = [push EXCEPT ![m] = p]
  BY DEF Returns, Goes
<1>2. /\ p \in Pushes /\ p.pc = "ok" /\ p.i = l.i /\ p.erred = l.erred
      /\ (l.tries > 0 => p.tries > 0) /\ p.spent = FALSE
  <2>1. 0 \in 0 .. N - 1 /\ 0 \in Nat /\ 1 \in Nat /\ {} \subseteq Nodes
    BY DeviceAssumption
  <2>2. l.i \in 1 .. 3 /\ l.erred \in BOOLEAN /\ l.tries \in Nat
    BY DEF Pushes
  <2>3. (IF l.tries > 0 THEN 1 ELSE 0) \in Nat
    OBVIOUS
  <2>4. /\ p.pc = "ok" /\ p.i = l.i /\ p.erred = l.erred /\ p.spent = FALSE
        /\ p.tries = IF l.tries > 0 THEN 1 ELSE 0
    BY DEF Idle
  <2>5. p \in Pushes
    BY <2>1, <2>2, <2>3 DEF Idle, Pushes
  <2> HIDE DEF p
  <2> QED
    BY <2>2, <2>4, <2>5
<1> HIDE DEF p
<1>3. PushOK(p)
  BY <1>2 DEF PushOK
<1> QED
  BY <1>1, <1>2, <1>3

LEMMA PublishKeeps ==
  ASSUME UpInv, NEW m \in Messages, Publish(m)
  PROVE  UpInv'
<1>1. /\ push[m].pc = "tries" /\ chain[push[m].i] = "nats" /\ ingress' = Plus(ingress, m)
      /\ what' = what /\ found' = found /\ broker' = broker /\ node' = node
      /\ cmdStream' = cmdStream /\ worker' = worker
      /\ requests' = requests /\ cmdq' = cmdq /\ handled' = handled
      /\ chain' = chain /\ counter' = counter
  BY DEF Publish, TriesVia, Via
<1>2. /\ DeviceTypes /\ PushTypes /\ UpTypeOK /\ (\A x \in Messages : PushOK(push[x]))
      /\ push[m] \in Pushes /\ push[m].i \in 1 .. Len(chain) /\ Open(m) = 1
      /\ (push[m].spent = TRUE => chain[push[m].i] = "http")
  BY <1>1, TypeParts, PushFacts, SpentIsHttp DEF UpInv
<1>3. /\ ingress' \in [Messages -> Nat] /\ ingress'[m] = ingress[m] + 1
      /\ \A x \in Messages \ {m} : ingress'[x] = ingress[x]
  BY <1>1, <1>2 DEF DeviceTypes, Plus
<1>4. \E p : /\ push' = [push EXCEPT ![m] = p] /\ PushOK(p)
             /\ \/ p.pc = "ok" /\ p.i = push[m].i /\ LosesNothing
                \/ p.pc \in {"tries", "failed"} /\ Loses(m)
  <2>1. CASE Returns(m, push[m]) /\ LosesNothing
    BY <2>1, <1>2, AfterReturn
  <2>2. CASE Again(m, push[m]) /\ Loses(m)
    BY <2>2, <1>2, AfterFailure
  <2> QED
    BY <2>1, <2>2 DEF Publish
<1>5. PICK p : /\ push' = [push EXCEPT ![m] = p] /\ PushOK(p)
               /\ \/ p.pc = "ok" /\ p.i = push[m].i /\ LosesNothing
                  \/ p.pc \in {"tries", "failed"} /\ Loses(m)
  BY <1>4
<1>6. push'[m] = p /\ \A x \in Messages \ {m} : push'[x] = push[x]
  BY <1>2, <1>5 DEF PushTypes
<1>7. /\ lost' \in [Messages -> Nat] /\ faults' \in 0 .. MaxFaults
      /\ \A x \in Messages \ {m} : lost'[x] = lost[x]
      /\ \/ p.pc = "ok" /\ p.i = push[m].i /\ lost'[m] = lost[m]
         \/ p.pc \in {"tries", "failed"} /\ lost'[m] = lost[m] + 1
  BY <1>2, <1>5, LosesCounts DEF LosesNothing, DeviceTypes
<1>8. DeviceTypes' /\ PushTypes'
  BY <1>1, <1>2, <1>3, <1>5, <1>7 DEF DeviceTypes, PushTypes, PushOK
<1>9. ApartFrom(m)
  BY <1>1, <1>2, <1>3, <1>6, <1>7 DEF ApartFrom, Reqs
<1>10. Weight(m)' <= 1 + lost'[m]
  <2>1. Reqs(m)' = Reqs(m) /\ Open(m)' \in {0, 1} /\ (p.pc = "ok" => Open(m)' = 0)
    BY <1>1, <1>6 DEF Open, Reqs
  <2> QED
    <3>1. /\ handled[m] \in Nat /\ Cardinality(Reqs(m)) \in Nat /\ ingress[m] \in Nat
          /\ cmdq[m] \in Nat /\ lost[m] \in Nat
          /\ handled[m] + Cardinality(Reqs(m)) + ingress[m] + cmdq[m] + 1 <= 1 + lost[m]
      BY <1>2, Numbers DEF Weight
    <3>2. Weight(m)' = handled[m] + Cardinality(Reqs(m)) + (ingress[m] + 1) + cmdq[m] + Open(m)'
      BY <2>1, <1>1, <1>3 DEF Weight
    <3>3. CASE p.pc = "ok" /\ lost'[m] = lost[m]
      BY <2>1, <3>1, <3>2, <3>3
    <3>4. CASE lost'[m] = lost[m] + 1
      BY <2>1, <3>1, <3>2, <3>4
    <3> QED
      BY <1>7, <3>3, <3>4
<1>11. Covered(m)'
  BY <1>1, <1>2, <1>3, <1>6, <1>7, Numbers DEF Covered, Via
<1> QED
  BY <1>1, <1>5, <1>6, <1>8, <1>9, <1>10, <1>11, Assemble DEF UpInv

\* A node is done with a request: it goes, and the message may have been handled.
LEMMA ServeKeeps ==
  ASSUME UpInv, NEW r \in requests, Serve(r)
  PROVE  UpInv'
<1> DEFINE m == r.msg
<1>1. /\ requests' = requests \ {r}
      /\ what' = what /\ found' = found /\ broker' = broker /\ node' = node
      /\ cmdStream' = cmdStream /\ worker' = worker
      /\ ingress' = ingress /\ cmdq' = cmdq /\ chain' = chain /\ counter' = counter
  BY DEF Serve, queues
<1>2. /\ DeviceTypes /\ PushTypes /\ UpTypeOK /\ (\A x \in Messages : PushOK(push[x]))
      /\ r \in Requests /\ m \in Messages /\ RequestOK(r) /\ IsFiniteSet(requests)
      /\ push[m] \in Pushes /\ push[m].i \in 1 .. Len(chain)
  BY TypeParts, PushFacts DEF UpInv, PushTypes, Requests
<1>3. PICK ok \in BOOLEAN :
        /\ IF r.body THEN Iotdevice(m, ok) ELSE ~ok /\ handled' = handled
        /\ IF WaitsFor(r) THEN (Answered(r, ok) /\ LosesNothing) \/ BodyLost(r)
                          ELSE push' = push /\ LosesNothing
  BY DEF Serve
<1>4. /\ handled' \in [Messages -> Nat] /\ \A x \in Messages \ {m} : handled'[x] = handled[x]
      /\ \/ ok = TRUE /\ handled'[m] = handled[m] + 1
         \/ ok = FALSE /\ handled'[m] = handled[m]
  <2>1. handled \in [Messages -> Nat]
    BY <1>2 DEF DeviceTypes
  <2>2. CASE ok = TRUE
    <3>1. handled' = Plus(handled, m)
      BY <2>2, <1>3 DEF Iotdevice
    <3> QED
      BY <2>1, <2>2, <3>1, <1>2 DEF Plus
  <2>3. CASE ok = FALSE
    <3>1. handled' = handled
      BY <2>3, <1>3 DEF Iotdevice
    <3> QED
      BY <2>1, <2>3, <3>1
  <2> QED
    BY <2>2, <2>3
\* The three ways a waiting Push goes on, and the one that waits no longer.
<1>5. \E p :
        /\ push' = [push EXCEPT ![m] = p] /\ PushOK(p)
        /\ \/ /\ WaitsFor(r) /\ p.pc = "ok" /\ p.i = push[m].i /\ LosesNothing
              /\ ok = TRUE \/ (r.via = "http" /\ (p.erred = TRUE \/ p.tries > 0))
           \/ WaitsFor(r) /\ p.pc \in {"tries", "failed"} /\ ok = FALSE /\ LosesNothing
           \/ WaitsFor(r) /\ p.pc \in {"tries", "failed"} /\ Loses(m)
           \/ ~WaitsFor(r) /\ p = push[m] /\ LosesNothing
  <2>1. CASE ~WaitsFor(r)
    <3>1. push' = [push EXCEPT ![m] = push[m]] /\ LosesNothing
      BY <2>1, <1>2, <1>3 DEF PushTypes
    <3> QED
      BY <2>1, <3>1, <1>2
  <2>2. CASE WaitsFor(r) /\ BodyLost(r)
    <3>1. Loses(m) /\ Fails(m, push[m]) /\ push[m].pc = "waits"
      BY <2>2 DEF BodyLost, WaitsFor
    <3> QED
      BY <2>2, <3>1, <1>2, SpentIsHttp, AfterFailure
  <2>3. CASE WaitsFor(r) /\ Answered(r, ok) /\ LosesNothing /\ (ok = TRUE \/ r.via = "http")
    <3> DEFINE l == [push[m] EXCEPT !.erred = r.body /\ ~ok]
    <3>1. (r.body /\ ~ok) \in BOOLEAN
      BY Zenon
    <3>2. l \in Pushes /\ l.i = push[m].i /\ l.tries = push[m].tries /\ l.erred = (r.body /\ ~ok)
      BY <3>1, <1>2 DEF Pushes
    <3>3. Returns(m, l)
      BY <2>3 DEF Answered
    <3> HIDE DEF l
    <3>4. PICK p : /\ push' = [push EXCEPT ![m] = p] /\ PushOK(p) /\ p.pc = "ok" /\ p.i = l.i
                   /\ p.erred = l.erred /\ (l.tries > 0 => p.tries > 0)
      BY <3>2, <3>3, <1>2, AfterReturn
    <3>5. ok = TRUE \/ (r.via = "http" /\ (p.erred = TRUE \/ p.tries > 0))
      <4>1. CASE r.body = FALSE /\ ok = FALSE
        BY <4>1, <2>3, <3>2, <3>4, <1>2 DEF RequestOK, WaitsFor
      <4>2. CASE r.body = TRUE /\ ok = FALSE
        BY <4>2, <2>3, <3>2, <3>4
      <4>3. r.body \in BOOLEAN
        BY <1>2 DEF Requests
      <4> QED
        BY <4>1, <4>2, <4>3
    <3> QED
      BY <2>3, <3>2, <3>4, <3>5
  <2>4. CASE WaitsFor(r) /\ Answered(r, ok) /\ LosesNothing /\ ~(ok = TRUE \/ r.via = "http")
    <3>1. Fails(m, push[m]) /\ push[m].pc = "waits" /\ ok = FALSE
      BY <2>4 DEF Answered, WaitsFor
    <3> QED
      BY <2>4, <3>1, <1>2, SpentIsHttp, AfterFailure
  <2> QED
    BY <1>3, <2>1, <2>2, <2>3, <2>4
<1>6. PICK p :
        /\ push' = [push EXCEPT ![m] = p] /\ PushOK(p)
        /\ \/ /\ WaitsFor(r) /\ p.pc = "ok" /\ p.i = push[m].i /\ LosesNothing
              /\ ok = TRUE \/ (r.via = "http" /\ (p.erred = TRUE \/ p.tries > 0))
           \/ WaitsFor(r) /\ p.pc \in {"tries", "failed"} /\ ok = FALSE /\ LosesNothing
           \/ WaitsFor(r) /\ p.pc \in {"tries", "failed"} /\ Loses(m)
           \/ ~WaitsFor(r) /\ p = push[m] /\ LosesNothing
  BY <1>5
<1>7. push'[m] = p /\ \A x \in Messages \ {m} : push'[x] = push[x]
  BY <1>2, <1>6 DEF PushTypes
<1>8. /\ lost' \in [Messages -> Nat] /\ faults' \in 0 .. MaxFaults
      /\ \A x \in Messages \ {m} : lost'[x] = lost[x]
      /\ LosesNothing => lost'[m] = lost[m]
      /\ Loses(m) => lost'[m] = lost[m] + 1
  BY <1>2, <1>6, LosesCounts DEF LosesNothing, DeviceTypes
<1>9. DeviceTypes' /\ PushTypes'
  BY <1>1, <1>2, <1>4, <1>6, <1>8 DEF DeviceTypes, PushTypes, PushOK
<1>10. ApartFrom(m)
  <2>1. \A x \in Messages \ {m} : Reqs(x)' = Reqs(x)
    BY <1>1 DEF Reqs
  <2> QED
    BY <2>1, <1>1, <1>2, <1>4, <1>7, <1>8 DEF ApartFrom
<1>11. Weight(m)' <= 1 + lost'[m]
  <2>1. Reqs(m)' = Reqs(m) \ {r} /\ r \in Reqs(m)
    BY <1>1 DEF Reqs
  <2>2. Cardinality(Reqs(m))' = Cardinality(Reqs(m)) - 1
    BY <2>1, <1>2, Numbers, FS_RemoveElement
  <2>3. WaitsFor(r) => Open(m) = 0
    BY <2>1 DEF Open, WaitsFor
  <2>4. Open(m)' \in {0, 1} /\ (p.pc = "ok" => Open(m)' = 0)
    BY <1>7 DEF Open
  <2>5. ~WaitsFor(r) => Open(m)' = Open(m)
    <3> SUFFICES ASSUME ~WaitsFor(r) PROVE Open(m)' = Open(m)
      OBVIOUS
    <3>1. push'[m] = push[m]
      BY <1>6, <1>7
    <3>2. \A q \in Reqs(m)' : q \in Reqs(m) /\ (WaitsFor(q)' <=> WaitsFor(q))
      BY <3>1, <2>1, <1>1 DEF Reqs, WaitsFor, Via
    <3>3. \A q \in Reqs(m) : WaitsFor(q) => q \in Reqs(m)'
      BY <2>1
    <3> QED
      BY <3>1, <3>2, <3>3 DEF Open
  <2> QED
    <3>1. /\ handled[m] \in Nat /\ Cardinality(Reqs(m)) \in Nat /\ ingress[m] \in Nat
          /\ cmdq[m] \in Nat /\ lost[m] \in Nat /\ Open(m) \in {0, 1}
          /\ handled[m] + Cardinality(Reqs(m)) + ingress[m] + cmdq[m] + Open(m) <= 1 + lost[m]
      BY <1>2, Numbers DEF Weight
    <3>2. Weight(m)' = handled'[m] + (Cardinality(Reqs(m)) - 1) + ingress[m] + cmdq[m] + Open(m)'
      BY <2>2, <1>1 DEF Weight
    <3>3. handled'[m] \in Nat /\ handled'[m] <= handled[m] + 1 /\ (ok = FALSE => handled'[m] = handled[m])
      BY <3>1, <1>4
    <3>4. CASE p.pc = "ok" /\ LosesNothing /\ WaitsFor(r)
      BY <2>3, <2>4, <3>1, <3>2, <3>3, <3>4, <1>8
    <3>5. CASE WaitsFor(r) /\ ok = FALSE /\ LosesNothing
      BY <2>3, <2>4, <3>1, <3>2, <3>3, <3>5, <1>8
    <3>6. CASE WaitsFor(r) /\ Loses(m)
      BY <2>3, <2>4, <3>1, <3>2, <3>3, <3>6, <1>8
    <3>7. CASE ~WaitsFor(r) /\ LosesNothing
      BY <2>5, <3>1, <3>2, <3>3, <3>7, <1>8
    <3> QED
      BY <1>6, <3>4, <3>5, <3>6, <3>7
<1>12. Covered(m)'
  <2> SUFFICES ASSUME p.pc = "ok", handled'[m] = 0 PROVE Covered(m)'
    BY <1>7 DEF Covered
  <2>1. ok = FALSE /\ handled[m] = 0
    <3>1. handled[m] \in Nat
      BY <1>2, Numbers
    <3> QED
      BY <3>1, <1>4
  <2>2. CASE WaitsFor(r)
    <3>1. p.i = push[m].i /\ r.via = "http" /\ (p.erred = TRUE \/ p.tries > 0)
      BY <2>1, <2>2, <1>6
    <3>2. chain'[p.i] = "http"
      BY <2>2, <3>1, <1>1 DEF WaitsFor, Via
    <3> QED
      BY <3>1, <3>2, <1>7 DEF Covered, Via
  <2>3. CASE ~WaitsFor(r)
    <3>1. push'[m] = push[m] /\ Covered(m)
      BY <2>3, <1>2, <1>6, <1>7, CoveredAll DEF UpInv
    <3> QED
      BY <3>1, <2>1, <1>1 DEF Covered, Via
  <2> QED
    BY <2>2, <2>3
<1>13. IsFiniteSet(requests') /\ \A q \in requests' : RequestOK(q)
  BY <1>1, <1>2, FS_Subset DEF UpInv
<1> QED
  BY <1>2, <1>6, <1>7, <1>9, <1>10, <1>11, <1>12, <1>13, Assemble
-----------------------------------------------------------------------------
(* The steps of iotdevice.                                                 *)

\* A node has a copy in its hands only while it is in the subject: each copy is with
\* one node at most.
HandsInv ==
  /\ cmdq \in [Messages -> Nat] /\ worker \in [Nodes -> SUBSET Messages]
  /\ \A m \in Messages : Cardinality(Holders(m)) <= cmdq[m]

LEMMA HoldersFinite ==
  ASSUME NEW S, S \subseteq Nodes
  PROVE  IsFiniteSet(S) /\ Cardinality(S) \in Nat
<1>1. IsFiniteSet(Nodes)
  BY FS_Interval, DeviceAssumption DEF Nodes
<1> QED
  BY <1>1, FS_Subset, FS_CardinalityType

\* A step that takes copies out of no subject and gives none to a node.
LEMMA HandsStay ==
  ASSUME HandsInv, cmdq' \in [Messages -> Nat], worker' \in [Nodes -> SUBSET Messages],
         \A x \in Messages : cmdq'[x] >= cmdq[x],
         \A k \in Nodes : worker'[k] \subseteq worker[k]
  PROVE  HandsInv'
<1> SUFFICES ASSUME NEW x \in Messages PROVE Cardinality(Holders(x)') <= cmdq'[x]
  BY DEF HandsInv
<1>1. Holders(x)' \subseteq Holders(x) /\ Holders(x) \subseteq Nodes
  BY DEF Holders
<1>2. Cardinality(Holders(x)') <= Cardinality(Holders(x))
  BY <1>1, HoldersFinite, FS_Subset
<1>3. Cardinality(Holders(x)') \in Nat /\ Cardinality(Holders(x)) \in Nat
  BY <1>1, HoldersFinite
<1> QED
  BY <1>2, <1>3 DEF HandsInv

LEMMA HandsReceive ==
  ASSUME HandsInv, NEW n \in Nodes, NEW m \in Messages, Receive(n, m)
  PROVE  HandsInv'
<1>1. /\ worker[n] = {} /\ cmdq[m] > Cardinality(Holders(m)) /\ cmdq' = cmdq
      /\ worker' = [worker EXCEPT ![n] = {m}]
  BY DEF Receive, queues
<1>2. worker' \in [Nodes -> SUBSET Messages]
  BY <1>1 DEF HandsInv
<1>3. ASSUME NEW x \in Messages PROVE Cardinality(Holders(x)') <= cmdq'[x]
  <2>1. Holders(x) \subseteq Nodes /\ cmdq[x] \in Nat /\ Cardinality(Holders(x)) <= cmdq[x]
    BY DEF Holders, HandsInv
  <2>2. CASE x = m
    <3>1. Holders(x)' = Holders(x) \cup {n} /\ n \notin Holders(x)
      BY <1>1, <2>2 DEF Holders, HandsInv
    <3>2. Cardinality(Holders(x) \cup {n}) = Cardinality(Holders(x)) + 1
      BY <2>1, <3>1, HoldersFinite, FS_AddElement
    <3> QED
      BY <1>1, <2>1, <2>2, <3>1, <3>2, HoldersFinite
  <2>3. CASE x # m
    <3>1. Holders(x)' = Holders(x)
      BY <1>1, <2>3 DEF Holders, HandsInv
    <3> QED
      BY <1>1, <2>1, <3>1
  <2> QED
    BY <2>2, <2>3
<1> QED
  BY <1>1, <1>2, <1>3 DEF HandsInv

\* What a worker answers is in the subject.
LEMMA HandsHold ==
  ASSUME HandsInv, NEW n \in Nodes, NEW m \in Messages, m \in worker[n]
  PROVE  /\ Cardinality(Holders(m) \ {n}) + 1 <= cmdq[m] /\ cmdq[m] > 0
         /\ Cardinality(Holders(m) \ {n}) \in Nat
<1>1. Holders(m) \subseteq Nodes /\ n \in Holders(m)
  BY DEF Holders
<1>2. Cardinality(Holders(m) \ {n}) = Cardinality(Holders(m)) - 1
  BY <1>1, HoldersFinite, FS_RemoveElement
<1>3. Cardinality(Holders(m) \ {n}) \in Nat /\ Cardinality(Holders(m)) \in Nat
  BY <1>1, HoldersFinite
<1> QED
  BY <1>2, <1>3 DEF HandsInv

LEMMA HandsProcess ==
  ASSUME HandsInv, NEW n \in Nodes, NEW m \in Messages, NEW ok \in BOOLEAN, ProcessMessage(n, m, ok)
  PROVE  HandsInv'
<1>1. /\ m \in worker[n] /\ worker' = [worker EXCEPT ![n] = {}]
      /\ cmdq' = cmdq \/ cmdq' = Minus(cmdq, m)
  BY DEF ProcessMessage
<1>2. worker' \in [Nodes -> SUBSET Messages] /\ \A k \in Nodes : worker'[k] \subseteq worker[k]
  BY <1>1 DEF HandsInv
<1>3. CASE cmdq' = cmdq
  <2>1. cmdq' \in [Messages -> Nat] /\ \A x \in Messages : cmdq'[x] >= cmdq[x]
    BY <1>3 DEF HandsInv
  <2> QED
    BY <1>2, <2>1, HandsStay
<1>4. CASE cmdq' = Minus(cmdq, m)
  <2>0. cmdq \in [Messages -> Nat] /\ cmdq[m] > 0
    BY <1>1, HandsHold DEF HandsInv
  <2>1. /\ cmdq' \in [Messages -> Nat] /\ cmdq'[m] = cmdq[m] - 1
        /\ \A x \in Messages \ {m} : cmdq'[x] = cmdq[x]
    BY <1>4, <2>0 DEF Minus
  <2>2. ASSUME NEW x \in Messages PROVE Cardinality(Holders(x)') <= cmdq'[x]
    <3>1. CASE x = m
      <4>1. Holders(x)' = Holders(x) \ {n}
        BY <1>1, <3>1 DEF Holders, HandsInv
      <4> QED
        BY <1>1, <2>1, <3>1, <4>1, HandsHold DEF HandsInv
    <3>2. CASE x # m
      <4>1. Holders(x)' \subseteq Holders(x) /\ Holders(x) \subseteq Nodes
        BY <1>2 DEF Holders
      <4>2. Cardinality(Holders(x)') <= Cardinality(Holders(x))
        BY <4>1, HoldersFinite, FS_Subset
      <4>3. Cardinality(Holders(x)') \in Nat /\ Cardinality(Holders(x)) \in Nat
        BY <4>1, HoldersFinite
      <4> QED
        BY <2>1, <3>2, <4>2, <4>3 DEF HandsInv
    <3> QED
      BY <3>1, <3>2
  <2> QED
    BY <1>2, <2>1, <2>2 DEF HandsInv
<1> QED
  BY <1>1, <1>3, <1>4

\* No step of a Push touches the second subject or a worker.
LEMMA PushLeavesHands ==
  ASSUME NEW m \in Messages, PushStep(m)
  PROVE  cmdq' = cmdq /\ worker' = worker
  BY DEF PushStep, Push, Timeout, ConnectionLost, DeviceConnect, DeviceConnectFails, Publish,
         PublishFails, RabbitPublish, NoInstances, Pick, Repeated, Do, DoFails, Send, deviceVars, queues

LEMMA HandsStep == HandsInv /\ [UpNext]_upVars => HandsInv'
<1> SUFFICES ASSUME HandsInv, [UpNext]_upVars PROVE HandsInv'
  OBVIOUS
<1>0. /\ cmdq \in [Messages -> Nat] /\ worker \in [Nodes -> SUBSET Messages]
      /\ \A x \in Messages : cmdq[x] \in Nat /\ cmdq[x] >= cmdq[x]
  BY DEF HandsInv
<1>1. ASSUME cmdq' = cmdq, worker' = worker PROVE HandsInv'
  BY <1>0, <1>1, HandsStay
<1>2. ASSUME NEW m \in Messages, HandleAllNatsMessage(m) PROVE HandsInv'
  <2>1. worker' = worker /\ (cmdq' = cmdq \/ cmdq' = Plus(cmdq, m))
    BY <1>2 DEF HandleAllNatsMessage
  <2>2. cmdq' \in [Messages -> Nat] /\ \A x \in Messages : cmdq'[x] >= cmdq[x]
    BY <1>0, <2>1 DEF Plus
  <2> QED
    BY <1>0, <2>1, <2>2, HandsStay
<1>3. ASSUME NEW n \in Nodes, StartRouter(n) \/ RabbitSubscribe(n) PROVE HandsInv'
  BY <1>1, <1>3 DEF StartRouter, RabbitSubscribe, queues
<1>4. ASSUME NEW n \in Nodes, Crash(n) PROVE HandsInv'
  <2>1. cmdq' = cmdq /\ worker' = [worker EXCEPT ![n] = {}]
    BY <1>4 DEF Crash, queues
  <2>2. worker' \in [Nodes -> SUBSET Messages] /\ \A k \in Nodes : worker'[k] \subseteq worker[k]
    BY <1>0, <2>1
  <2> QED
    BY <1>0, <2>1, <2>2, HandsStay
<1>5. ASSUME NEW r \in requests, Serve(r) PROVE HandsInv'
  BY <1>1, <1>5 DEF Serve, queues
<1>6. CASE UNCHANGED upVars
  BY <1>1, <1>6 DEF upVars, deviceVars, queues
<1>7. CASE DeviceStep
  BY <1>2, <1>3, <1>4, <1>7, HandsReceive, HandsProcess DEF DeviceStep, Answers
<1>8. ASSUME NEW m \in Messages, PushStep(m) PROVE HandsInv'
  BY <1>1, <1>8, PushLeavesHands
<1> QED
  BY <1>5, <1>6, <1>7, <1>8 DEF UpNext

LEMMA HandsHolds == UpSpec => []HandsInv
<1>1. UpInit => HandsInv
  <2> SUFFICES ASSUME UpInit PROVE HandsInv
    OBVIOUS
  <2>1. cmdq = [m \in Messages |-> 0] /\ worker = [n \in Nodes |-> {}]
    BY DEF UpInit, DeviceInit
  <2>2. \A m \in Messages : Holders(m) = {} /\ Cardinality({}) = 0
    BY <2>1, FS_EmptySet DEF Holders
  <2> QED
    BY <2>1, <2>2 DEF HandsInv
<1> QED
  BY <1>1, HandsStep, PTL DEF UpSpec

\* A consumer moves one copy, and pays for every copy that stays besides.
LEMMA ConsumersKeep ==
  ASSUME UpInv, HandsInv, NEW m \in Messages, NEW n \in Nodes, NEW ok \in BOOLEAN,
         HandleAllNatsMessage(m) \/ Receive(n, m) \/ ProcessMessage(n, m, ok),
         UNCHANGED <<chain, counter, push>>
  PROVE  UpInv'
<1>1. /\ what' = what /\ found' = found /\ broker' = broker /\ node' = node
      /\ cmdStream' = cmdStream
      /\ requests' = requests /\ chain' = chain /\ counter' = counter /\ push' = push
  BY DEF HandleAllNatsMessage, Receive, ProcessMessage
<1>2. /\ DeviceTypes /\ PushTypes /\ (\A x \in Messages : PushOK(push[x]))
      /\ Covered(m)
  BY TypeParts, CoveredAll DEF UpInv
<1>3. \A x \in Messages : /\ ingress[x] \in Nat /\ cmdq[x] \in Nat /\ handled[x] \in Nat
                          /\ lost[x] \in Nat
  BY <1>2 DEF DeviceTypes
<1>4. /\ ingress' \in [Messages -> Nat] /\ cmdq' \in [Messages -> Nat]
      /\ handled' \in [Messages -> Nat] /\ lost' \in [Messages -> Nat]
      /\ faults' \in 0 .. MaxFaults
      /\ \A x \in Messages \ {m} : /\ ingress'[x] = ingress[x] /\ cmdq'[x] = cmdq[x]
                                   /\ handled'[x] = handled[x] /\ lost'[x] = lost[x]
      /\ ingress'[m] + cmdq'[m] + handled'[m] <= ingress[m] + cmdq[m] + handled[m] + (lost'[m] - lost[m])
      /\ worker' \in [Nodes -> SUBSET Messages]
      /\ \/ ~found[m] /\ handled'[m] = handled[m]
         \/ cmdq'[m] > 0 /\ handled'[m] = handled[m]
         \/ handled'[m] > 0
  <2>1. CASE HandleAllNatsMessage(m)
    <3>1. ingress[m] > 0 /\ handled' = handled /\ worker' = worker
      BY <2>1 DEF HandleAllNatsMessage
    <3>2. /\ cmdq' \in [Messages -> Nat] /\ \A x \in Messages \ {m} : cmdq'[x] = cmdq[x]
          /\ (~found[m] /\ cmdq'[m] = cmdq[m]) \/ cmdq'[m] = cmdq[m] + 1
      BY <2>1, <1>2 DEF HandleAllNatsMessage, DeviceTypes, Plus
    <3>3. /\ ingress' \in [Messages -> Nat] /\ lost' \in [Messages -> Nat]
          /\ faults' \in 0 .. MaxFaults
          /\ \A x \in Messages \ {m} : ingress'[x] = ingress[x] /\ lost'[x] = lost[x]
          /\ \/ ingress'[m] = ingress[m] - 1 /\ lost'[m] = lost[m]
             \/ ingress'[m] = ingress[m] /\ lost'[m] = lost[m] + 1
      <4>1. CASE ingress' = Minus(ingress, m) /\ LosesNothing
        BY <4>1, <3>1, <1>2 DEF LosesNothing, Minus, DeviceTypes
      <4>2. CASE ingress' = ingress /\ Loses(m)
        BY <4>2, <1>2, LosesCounts DEF DeviceTypes
      <4> QED
        BY <2>1, <4>1, <4>2 DEF HandleAllNatsMessage
    <3> QED
      BY <3>1, <3>2, <3>3, <1>2, <1>3 DEF DeviceTypes
  <2>2. CASE Receive(n, m)
    <3>1. /\ cmdq' = cmdq /\ ingress' = ingress /\ handled' = handled /\ lost' = lost
          /\ faults' = faults /\ worker' = [worker EXCEPT ![n] = {m}]
          /\ cmdq[m] > Cardinality(Holders(m))
      BY <2>2 DEF Receive, queues
    <3>2. Cardinality(Holders(m)) \in Nat
      BY HoldersFinite DEF Holders
    <3> QED
      BY <3>1, <3>2, <1>2, <1>3 DEF DeviceTypes
  <2>3. CASE ProcessMessage(n, m, ok)
    <3>1. /\ cmdq[m] > 0 /\ ingress' = ingress /\ worker' = [worker EXCEPT ![n] = {}]
          /\ handled' = IF ok THEN Plus(handled, m) ELSE handled
      BY <2>3, HandsHold DEF ProcessMessage, Iotdevice
    <3>2. /\ handled' \in [Messages -> Nat] /\ handled'[m] = IF ok THEN handled[m] + 1 ELSE handled[m]
          /\ \A x \in Messages \ {m} : handled'[x] = handled[x]
      BY <3>1, <1>2 DEF DeviceTypes, Plus
    <3>3. /\ cmdq' \in [Messages -> Nat] /\ lost' \in [Messages -> Nat]
          /\ faults' \in 0 .. MaxFaults
          /\ \A x \in Messages \ {m} : cmdq'[x] = cmdq[x] /\ lost'[x] = lost[x]
          /\ \/ ok /\ cmdq'[m] = cmdq[m] - 1 /\ lost'[m] = lost[m]
             \/ ok /\ cmdq'[m] = cmdq[m] /\ lost'[m] = lost[m] + 1
             \/ ~ok /\ cmdq'[m] = cmdq[m] /\ lost'[m] = lost[m]
      <4>1. CASE ok /\ cmdq' = Minus(cmdq, m) /\ LosesNothing
        BY <4>1, <3>1, <1>2 DEF LosesNothing, Minus, DeviceTypes
      <4>2. CASE ok /\ cmdq' = cmdq /\ Loses(m)
        BY <4>2, <1>2, LosesCounts DEF DeviceTypes
      <4>3. CASE ~ok /\ cmdq' = cmdq /\ LosesNothing
        BY <4>3, <1>2 DEF LosesNothing, DeviceTypes
      <4> QED
        BY <2>3, <4>1, <4>2, <4>3 DEF ProcessMessage
    <3>4. worker' \in [Nodes -> SUBSET Messages]
      BY <3>1, <1>2 DEF DeviceTypes
    <3> QED
      BY <3>1, <3>2, <3>3, <3>4, <1>2, <1>3 DEF DeviceTypes
  <2> QED
    BY <2>1, <2>2, <2>3
<1>5. DeviceTypes' /\ PushTypes'
  BY <1>1, <1>2, <1>4 DEF DeviceTypes, PushTypes
<1>6. ApartFrom(m)
  BY <1>1, <1>2, <1>4 DEF ApartFrom, Reqs
<1>7. Weight(m)' <= 1 + lost'[m]
  <2>1. Reqs(m)' = Reqs(m) /\ Open(m)' = Open(m)
    BY <1>1, SameOpen DEF Reqs
  <2>2. /\ Cardinality(Reqs(m)) \in Nat /\ Open(m) \in {0, 1}
        /\ handled[m] + Cardinality(Reqs(m)) + ingress[m] + cmdq[m] + Open(m) <= 1 + lost[m]
    BY Numbers DEF Weight
  <2>3. /\ ingress'[m] \in Nat /\ cmdq'[m] \in Nat /\ handled'[m] \in Nat /\ lost'[m] \in Nat
    BY <1>4
  <2>4. Weight(m)' = handled'[m] + Cardinality(Reqs(m)) + ingress'[m] + cmdq'[m] + Open(m)
    BY <2>1 DEF Weight
  <2> QED
    BY <2>2, <2>3, <2>4, <1>3, <1>4
<1>8. Covered(m)'
  <2>1. ingress'[m] \in Nat /\ cmdq'[m] \in Nat /\ handled'[m] \in Nat
    BY <1>4
  <2> QED
    BY <2>1, <1>1, <1>2, <1>4 DEF Covered, Via
<1> QED
  BY <1>1, <1>2, <1>5, <1>6, <1>7, <1>8, Assemble DEF UpInv

\* Starting a node, or its death with the requests in it: what was a request may
\* become an attempt its Push makes again.
LEMMA NodesKeep ==
  ASSUME UpInv, NEW n \in Nodes, StartRouter(n) \/ RabbitSubscribe(n) \/ Crash(n),
         UNCHANGED <<chain, counter, push>>
  PROVE  UpInv'
<1>1. /\ what' = what /\ found' = found /\ broker' = broker /\ ingress' = ingress /\ cmdq' = cmdq
      /\ handled' = handled /\ lost' = lost
      /\ chain' = chain /\ counter' = counter /\ push' = push
      /\ requests' \subseteq requests
  BY DEF StartRouter, RabbitSubscribe, Crash, queues
<1>2. DeviceTypes /\ PushTypes
  BY TypeParts DEF UpInv
<1>3. /\ node' \in [Nodes -> {"starts", "serves", "routes", "consumes", "panic"}]
      /\ cmdStream' \in BOOLEAN /\ faults' \in 0 .. MaxFaults
      /\ worker' \in [Nodes -> SUBSET Messages]
  <2>1. CASE StartRouter(n)
    <3>1. PICK mode \in {"serves", "routes", "consumes"} :
            node' = [node EXCEPT ![n] = mode] /\ cmdStream' = Provisioned(mode) /\ faults' = faults
            /\ worker' = worker
      BY <2>1 DEF StartRouter
    <3>2. cmdStream' \in BOOLEAN
      BY <3>1, Zenon DEF Provisioned
    <3> QED
      BY <3>1, <3>2, <1>2 DEF DeviceTypes
  <2>2. CASE RabbitSubscribe(n)
    BY <2>2, <1>2 DEF RabbitSubscribe, DeviceTypes
  <2>3. CASE Crash(n)
    BY <2>3, <1>2, DeviceAssumption DEF Crash, DeviceTypes
  <2> QED
    BY <2>1, <2>2, <2>3
<1>4. UpTypeOK'
  <2>1. DeviceTypes' /\ PushTypes'
    BY <1>1, <1>2, <1>3 DEF DeviceTypes, PushTypes
  <2> QED
    BY <2>1 DEF UpTypeOK, DeviceTypes, PushTypes, Requests, Pushes
<1>5. IsFiniteSet(requests)' /\ (\A r \in requests' : RequestOK(r)')
  BY <1>1, FS_Subset DEF UpInv, RequestOK
<1>6. \A x \in Messages : PushOK(push[x])'
  BY <1>1 DEF UpInv, PushOK
<1>7. Weighed'
  <2> SUFFICES ASSUME NEW m \in Messages PROVE Weight(m)' <= 1 + lost'[m]
    BY DEF Weighed
  <2>1. /\ IsFiniteSet(Reqs(m)) /\ Cardinality(Reqs(m)) \in Nat
        /\ handled[m] \in Nat /\ ingress[m] \in Nat /\ cmdq[m] \in Nat /\ lost[m] \in Nat
        /\ Open(m) \in {0, 1}
        /\ handled[m] + Cardinality(Reqs(m)) + ingress[m] + cmdq[m] + Open(m) <= 1 + lost[m]
    BY Numbers DEF Weight
  <2>2. Reqs(m)' \subseteq Reqs(m)
    BY <1>1 DEF Reqs
  <2>3. Cardinality(Reqs(m)') \in Nat /\ Cardinality(Reqs(m)') <= Cardinality(Reqs(m))
    BY <2>1, <2>2, FS_Subset, FS_CardinalityType
  <2>4. Weight(m)' = handled[m] + Cardinality(Reqs(m)') + ingress[m] + cmdq[m] + Open(m)'
    BY <1>1 DEF Weight
  <2>5. CASE Reqs(m)' = Reqs(m)
    <3>1. Open(m)' = Open(m)
      BY <2>5, <1>1, SameOpen
    <3> QED
      BY <2>1, <2>4, <2>5, <3>1, <1>1
  <2>6. CASE Reqs(m)' # Reqs(m)
    <3>1. Cardinality(Reqs(m)') < Cardinality(Reqs(m))
      <4>1. Cardinality(Reqs(m)) # Cardinality(Reqs(m)')
        BY <2>1, <2>2, <2>6, FS_Subset
      <4> QED
        BY <2>1, <2>3, <4>1
    <3>2. Open(m)' \in {0, 1}
      BY DEF Open
    <3> QED
      BY <2>1, <2>3, <2>4, <3>1, <3>2, <1>1
  <2> QED
    BY <2>5, <2>6
<1>8. OkIsCovered'
  BY <1>1 DEF UpInv, OkIsCovered, Via
<1> QED
  BY <1>4, <1>5, <1>6, <1>7, <1>8 DEF UpInv

-----------------------------------------------------------------------------

LEMMA InitHolds == UpInit => UpInv
<1> SUFFICES ASSUME UpInit PROVE UpInv
  OBVIOUS
<1>1. /\ push = [m \in Messages |-> Idle] /\ requests = {} /\ counter = 0
      /\ chain \in {ChainOf(mode) : mode \in Modes}
      /\ ingress = [m \in Messages |-> 0] /\ cmdq = ingress /\ handled = ingress /\ lost = ingress
  BY DEF UpInit, DeviceInit
<1>2. Idle \in Pushes
  <2>1. 0 \in 0 .. N - 1 /\ 0 \in Nat /\ 1 \in 1 .. 3 /\ {} \subseteq Nodes
    BY DeviceAssumption
  <2> QED
    BY <2>1 DEF Idle, Pushes
<1>3. DeviceTypes
  <2>1. MaxFaults \in 0 .. MaxFaults
    BY DeviceAssumption
  <2>2. /\ broker \in {"nats", "rabbitmq"} /\ cmdStream = FALSE
        /\ node = [n \in Nodes |-> "starts"] /\ faults = MaxFaults
        /\ worker = [n \in Nodes |-> {}]
    BY DEF UpInit, DeviceInit
  <2>4. what \in [Messages -> Kinds] /\ found \in [Messages -> BOOLEAN]
    <3>1. PICK p \in Payloads : /\ what = [m \in Messages |-> p[m].cmd]
                                /\ found = [m \in Messages |-> p[m].found]
      BY DEF UpInit, DeviceInit
    <3>2. \A m \in Messages : p[m].cmd \in Kinds /\ p[m].found \in BOOLEAN
      BY DeviceAssumption
    <3> QED
      BY <3>1, <3>2
  <2>3. ingress \in [Messages -> Nat]
    BY <1>1
  <2> QED
    BY <2>1, <2>2, <2>3, <2>4, <1>1 DEF DeviceTypes
<1>4. PushTypes
  <2>1. 0 \in 0 .. N - 1
    BY DeviceAssumption
  <2> QED
    BY <2>1, <1>1, <1>2 DEF PushTypes
<1>5. UpTypeOK
  BY <1>3, <1>4, TypeParts
<1>6. \A m \in Messages : PushOK(push[m])
  <2>1. 1 <= Len(chain) /\ Len(chain) \in Nat
    BY <1>5, ChainShape
  <2>2. Idle.i = 1 /\ Idle.pc = "idle" /\ Idle.spent = FALSE
    BY DEF Idle
  <2> QED
    BY <2>1, <2>2, <1>1, <1>2 DEF PushOK
<1>7. Weighed
  <2> SUFFICES ASSUME NEW m \in Messages PROVE Weight(m) <= 1 + lost[m]
    BY DEF Weighed
  <2>1. Reqs(m) = {} /\ Cardinality({}) = 0
    BY <1>1, FS_EmptySet DEF Reqs
  <2>2. Open(m) \in {0, 1} /\ handled[m] = 0 /\ ingress[m] = 0 /\ cmdq[m] = 0 /\ lost[m] = 0
    BY <1>1 DEF Open
  <2> QED
    BY <2>1, <2>2 DEF Weight
<1>8. OkIsCovered
  BY <1>1 DEF OkIsCovered, Idle
<1> QED
  BY <1>1, <1>5, <1>6, <1>7, <1>8, FS_EmptySet DEF UpInv

LEMMA StepKeeps == UpInv /\ HandsInv /\ [UpNext]_upVars => UpInv'
<1> SUFFICES ASSUME UpInv, HandsInv, [UpNext]_upVars PROVE UpInv'
  OBVIOUS
<1>1. CASE DeviceStep /\ UNCHANGED <<chain, counter, push>>
  <2>1. ASSUME NEW m \in Messages, HandleAllNatsMessage(m) PROVE UpInv'
    <3>1. 1 \in Nodes /\ TRUE \in BOOLEAN
      BY DeviceAssumption DEF Nodes
    <3> QED
      BY <1>1, <2>1, <3>1, ConsumersKeep
  <2>2. ASSUME NEW n \in Nodes, NEW m \in Messages, NEW ok \in BOOLEAN,
               Receive(n, m) \/ ProcessMessage(n, m, ok)
        PROVE  UpInv'
    BY <1>1, <2>2, ConsumersKeep
  <2> QED
    BY <1>1, <2>1, <2>2, NodesKeep DEF DeviceStep, Answers
<1>2. ASSUME NEW m \in Messages, PushStep(m) PROVE UpInv'
  BY <1>2, BeginsKeeps, TimeoutKeeps, ConnectionLostKeeps, TriesKeep, PanicKeeps, CallsKeep,
     PublishKeeps, PickKeeps, HttpFailureKeeps DEF PushStep
<1>3. ASSUME NEW r \in requests, Serve(r) PROVE UpInv'
  BY <1>3, ServeKeeps
<1>4. CASE UNCHANGED upVars
  <2>1. /\ what' = what /\ found' = found /\ broker' = broker /\ node' = node
        /\ cmdStream' = cmdStream /\ worker' = worker
        /\ requests' = requests /\ ingress' = ingress /\ cmdq' = cmdq /\ handled' = handled
        /\ lost' = lost /\ faults' = faults /\ chain' = chain /\ counter' = counter /\ push' = push
    BY <1>4 DEF upVars, deviceVars, queues
  <2>2. \A m \in Messages : Weight(m)' = Weight(m)
    <3>1. ASSUME NEW m \in Messages PROVE Reqs(m)' = Reqs(m) /\ Open(m)' = Open(m)
      BY <2>1, SameOpen DEF Reqs
    <3> QED
      BY <2>1, <3>1 DEF Weight
  <2>3. Weighed'
    BY <2>1, <2>2 DEF UpInv, Weighed
  <2>4. UpTypeOK' /\ OkIsCovered'
    BY <2>1 DEF UpInv, UpTypeOK, OkIsCovered, Via
  <2> QED
    BY <2>1, <2>3, <2>4 DEF UpInv, PushOK, RequestOK
<1> QED
  BY <1>1, <1>2, <1>3, <1>4 DEF UpNext

LEMMA InvHolds == UpSpec => []UpInv
  BY InitHolds, StepKeeps, HandsHolds, PTL DEF UpSpec

\* Types of routes.go:33-99 and devicecli.go:230-261.
THEOREM UpTypeCorrect == UpSpec => []UpTypeOK
<1>1. UpInv => UpTypeOK
  BY DEF UpInv
<1> QED
  BY <1>1, InvHolds, PTL

\* What a Push without an error means, for every chain and any number of retries
\* (grpcClient.go:38-72, httpClient.go:100-113, handleNatsMessage.go:27-31).
THEOREM SuccessIsCovered == UpSpec => []OkIsCovered
<1>1. UpInv => OkIsCovered
  BY DEF UpInv
<1> QED
  BY <1>1, InvHolds, PTL

\* No retry, fallback or second subject handles a message twice by itself: that takes
\* a lost answer or acknowledgement, each at most once more (devicecli.go:241-252,
\* mqClient.go:59-76, routes.go:68-78).
THEOREM HandledOnceButForLosses == UpSpec => []HandledOnce
<1>1. UpInv => HandledOnce
  <2> SUFFICES ASSUME UpInv, NEW m \in Messages PROVE handled[m] <= 1 + lost[m]
    BY DEF HandledOnce
  <2> QED
    BY Numbers DEF Weight
<1> QED
  BY <1>1, InvHolds, PTL

-----------------------------------------------------------------------------
(* Where a Push over HTTP has been.  While it meets no other, the counter   *)
(* moves with it alone: what it has tried are the last instances before the *)
(* counter.                                                                 *)

\* How far behind the counter the instance is; the next one is N behind.
Behind(a, c) == IF a <= c THEN c - a + 1 ELSE c + N - a + 1

Walked(l, k, c) ==
  /\ l.tried = {a \in Nodes : Behind(a, c) <= k}
  /\ k <= N => Cardinality(l.tried) = k

Busy(l) == l.pc \in {"tries", "picks", "waits"}
WentRound(l) == l.tried = Nodes \/ Cardinality(l.tried) = HttpTries

WalkOK(l, lo, c, ch) ==
  /\ l.pc = "idle" => l.tried = {}
  /\ Busy(l) /\ ch[l.i] # "http" => l.tried = {}
  /\ Busy(l) /\ ch[l.i] = "http" => l.tries < HttpTries
  /\ Busy(l) /\ ch[l.i] = "http" /\ ~l.met => Walked(l, IF l.pc = "waits" THEN l.tries + 1 ELSE l.tries, c)
  /\ l.pc = "picks" /\ ~l.met => l.seen = c
  /\ l.pc = "failed" /\ l.tried # {} /\ ~l.met /\ lo = 0 => WentRound(l)

\* A Push that has begun to read the counter.
Reads(l, ch) == Busy(l) /\ ch[l.i] = "http" /\ (l.pc = "tries" => l.tries > 0)

Walks == \A m \in Messages : WalkOK(push[m], lost[m], counter, chain)
Meets ==
  \A m, x \in Messages : m # x /\ push[x].pc = "picks" /\ Reads(push[m], chain) => push[m].met = TRUE

WalkInv == UpInv /\ Walks /\ Meets

LEMMA NodesFinite == IsFiniteSet(Nodes) /\ N \in Nat \ {0} /\ HttpTries \in Nat \ {0}
  BY FS_Interval, DeviceAssumption, TransportsAssumption DEF Nodes

\* Nothing is behind the counter by less than 1, and all are by N at most.
LEMMA BehindBounds ==
  ASSUME NEW c \in 0 .. N - 1, NEW a \in Nodes
  PROVE  Behind(a, c) \in 1 .. N
  BY NodesFinite DEF Behind, Nodes

\* The counter moves by one: every instance is one further behind, but the one it has
\* passed, which was the furthest.
LEMMA BehindMoves ==
  ASSUME NEW c \in 0 .. N - 1, NEW a \in Nodes
  PROVE  /\ (c + 1) % N \in 0 .. N - 1 /\ c + 1 \in Nodes
         /\ Behind(c + 1, c) = N /\ Behind(c + 1, (c + 1) % N) = 1
         /\ a # c + 1 => Behind(a, (c + 1) % N) = Behind(a, c) + 1
<1>1. N \in Nat \ {0} /\ c \in Nat /\ c <= N - 1 /\ a \in Nat /\ 1 <= a /\ a <= N
  BY NodesFinite DEF Nodes
<1>2. CASE c + 1 < N
  <2>1. (c + 1) % N = c + 1
    BY <1>1, <1>2
  <2> QED
    BY <1>1, <1>2, <2>1 DEF Behind, Nodes
<1>3. CASE c + 1 = N
  <2>1. (c + 1) % N = 0
    BY <1>1, <1>3
  <2> QED
    BY <1>1, <1>3, <2>1 DEF Behind, Nodes
<1> QED
  BY <1>1, <1>2, <1>3

\* Before the first attempt nothing has been tried.
LEMMA WalkBegins ==
  ASSUME NEW l, NEW c \in 0 .. N - 1
  PROVE  Walked(l, 0, c) <=> l.tried = {}
<1>1. {a \in Nodes : Behind(a, c) <= 0} = {}
  BY BehindBounds
<1> QED
  BY <1>1, NodesFinite, FS_EmptySet DEF Walked

\* An attempt takes the walk one instance further, whether it finds it tried or not.
LEMMA WalkGoesOn ==
  ASSUME NEW l, NEW p, NEW k \in Nat, NEW c \in 0 .. N - 1, Walked(l, k, c),
         p.tried = l.tried \cup {c + 1}
  PROVE  Walked(p, k + 1, (c + 1) % N)
<1> DEFINE d == (c + 1) % N
<1>1. \A a \in Nodes : Behind(a, d) <= k + 1 <=> a = c + 1 \/ Behind(a, c) <= k
  <2> SUFFICES ASSUME NEW a \in Nodes
               PROVE  Behind(a, d) <= k + 1 <=> a = c + 1 \/ Behind(a, c) <= k
    OBVIOUS
  <2>1. Behind(a, c) \in 1 .. N
    BY BehindBounds
  <2>2. CASE a = c + 1
    BY <2>2, BehindMoves
  <2>3. CASE a # c + 1
    <3>1. Behind(a, d) = Behind(a, c) + 1
      BY <2>3, BehindMoves
    <3> QED
      BY <2>1, <2>3, <3>1
  <2> QED
    BY <2>2, <2>3
<1>2. c + 1 \in Nodes
  <2>1. 1 \in Nodes
    BY NodesFinite DEF Nodes
  <2> QED
    BY <2>1, BehindMoves
<1>3. p.tried = {a \in Nodes : Behind(a, d) <= k + 1}
  BY <1>1, <1>2 DEF Walked
<1>4. ASSUME k + 1 <= N PROVE Cardinality(p.tried) = k + 1
  <2>1. l.tried \subseteq Nodes /\ IsFiniteSet(l.tried) /\ k <= N /\ Cardinality(l.tried) = k
    BY <1>4, NodesFinite, FS_Subset DEF Walked
  <2>2. Behind(c + 1, c) = N
    BY <1>2, BehindMoves
  <2>3. c + 1 \notin l.tried
    BY <1>4, <2>2, NodesFinite DEF Walked
  <2> QED
    BY <2>1, <2>3, FS_AddElement
<1> QED
  BY <1>3, <1>4 DEF Walked

\* A walk of HttpTries attempts has been everywhere, or at HttpTries instances.
LEMMA WalkEnds ==
  ASSUME NEW l, NEW c \in 0 .. N - 1, Walked(l, HttpTries, c)
  PROVE  WentRound(l)
<1>1. CASE HttpTries <= N
  BY <1>1 DEF Walked, WentRound
<1>2. CASE N <= HttpTries
  <2>1. \A a \in Nodes : Behind(a, c) <= HttpTries
    BY <1>2, BehindBounds, NodesFinite
  <2> QED
    BY <2>1 DEF Walked, WentRound
<1> QED
  BY <1>1, <1>2, NodesFinite

-----------------------------------------------------------------------------
(* What the steps do to the walks.                                         *)

\* What the walks need to know of the other variables.
LEMMA WalkFacts ==
  ASSUME WalkInv, NEW m \in Messages
  PROVE  /\ UpInv /\ UpTypeOK /\ push \in [Messages -> Pushes] /\ push[m] \in Pushes
         /\ push[m].i \in 1 .. Len(chain) /\ Len(chain) \in Nat /\ push[m].tries \in Nat
         /\ chain[push[m].i] \in {"grpc", "nats", "http"}
         /\ (chain[push[m].i] = "http" => ~(push[m].i < Len(chain)))
         /\ counter \in 0 .. N - 1 /\ WalkOK(push[m], lost[m], counter, chain)
         /\ lost \in [Messages -> Nat]
<1>1. UpInv /\ UpTypeOK /\ WalkOK(push[m], lost[m], counter, chain)
  BY DEF WalkInv, UpInv, Walks
<1>2. /\ push[m] \in Pushes /\ push[m].i \in 1 .. Len(chain) /\ counter \in 0 .. N - 1
      /\ push \in [Messages -> Pushes] /\ lost \in [Messages -> Nat]
  BY <1>1, PushFacts, TypeParts DEF PushTypes, DeviceTypes
<1>3. push[m].tries \in Nat
  BY <1>2 DEF Pushes
<1> QED
  BY <1>1, <1>2, <1>3, ChainShape

\* A step of the Push of m, which moves the counter only when it has picked, and begins
\* to read it only in Pick.
LEMMA WalkFrame ==
  ASSUME WalkInv, NEW m \in Messages, NEW p, push' = [push EXCEPT ![m] = p], chain' = chain,
         counter' \in 0 .. N - 1, counter' = counter \/ push[m].pc = "picks",
         \A x \in Messages \ {m} : lost'[x] = lost[x],
         p.pc # "picks", WalkOK(p, lost'[m], counter', chain),
         Reads(p, chain) => Reads(push[m], chain) /\ p.met = push[m].met
  PROVE  Walks' /\ Meets'
<1>1. push'[m] = p /\ \A x \in Messages \ {m} : push'[x] = push[x]
  BY WalkFacts
<1>2. Walks'
  <2> SUFFICES ASSUME NEW x \in Messages PROVE WalkOK(push'[x], lost'[x], counter', chain)
    BY DEF Walks, WalkOK, Walked, Behind, WentRound, Busy
  <2>1. CASE x = m
    BY <2>1, <1>1
  <2>2. CASE x # m /\ counter' = counter
    BY <2>2, <1>1, WalkFacts
  <2>3. CASE x # m /\ push[m].pc = "picks"
    <3>1. push'[x] = push[x] /\ lost'[x] = lost[x] /\ WalkOK(push[x], lost[x], counter, chain)
      BY <2>3, <1>1, WalkFacts
    <3>2. CASE Reads(push[x], chain)
      <4>1. push[x].met = TRUE
        BY <2>3, <3>2 DEF WalkInv, Meets
      <4> QED
        BY <3>1, <4>1 DEF WalkOK
    <3>3. CASE ~Reads(push[x], chain)
      <4>1. push[x].tries \in Nat /\ counter \in 0 .. N - 1
        BY WalkFacts
      <4>2. Busy(push[x]) /\ chain[push[x].i] = "http" => push[x].pc = "tries" /\ push[x].tries = 0
        BY <3>3, <4>1 DEF Reads
      <4>3. Walked(push[x], 0, counter) <=> Walked(push[x], 0, counter')
        BY <4>1, WalkBegins
      <4>4. push[x].pc = "picks" => chain[push[x].i] = "http"
        BY WalkFacts, PushFacts DEF PushOK
      <4>5. push[x].pc # "picks"
        BY <4>2, <4>4 DEF Busy
      <4> QED
        BY <3>1, <4>2, <4>3, <4>5 DEF WalkOK
    <3> QED
      BY <3>2, <3>3
  <2> QED
    BY <2>1, <2>2, <2>3
<1>3. Meets'
  <2> SUFFICES ASSUME NEW a \in Messages, NEW b \in Messages, a # b, push'[b].pc = "picks",
                      Reads(push'[a], chain)
               PROVE  push'[a].met = TRUE
    BY DEF Meets, Reads, Busy
  <2>1. b # m /\ push[b].pc = "picks"
    BY <1>1
  <2>2. Reads(push[a], chain) /\ push'[a].met = push[a].met
    BY <1>1
  <2> QED
    BY <2>1, <2>2 DEF WalkInv, Meets
<1> QED
  BY <1>2, <1>3

\* A step of something else.
LEMMA WalkStays ==
  ASSUME WalkInv, push' = push, chain' = chain, counter' = counter,
         \A x \in Messages : lost'[x] \in Nat /\ lost'[x] >= lost[x]
  PROVE  Walks' /\ Meets'
<1>1. Walks'
  <2> SUFFICES ASSUME NEW x \in Messages PROVE WalkOK(push[x], lost'[x], counter, chain)
    BY DEF Walks, WalkOK, Walked, Behind, WentRound, Busy
  <2>1. WalkOK(push[x], lost[x], counter, chain) /\ lost[x] \in Nat
    BY WalkFacts
  <2>2. lost'[x] = 0 => lost[x] = 0
    BY <2>1
  <2> QED
    BY <2>1, <2>2 DEF WalkOK
<1>2. Meets'
  BY DEF WalkInv, Meets, Reads, Busy
<1> QED
  BY <1>1, <1>2

\* The end of a client that has asked no instance over HTTP.
LEMMA FailsWalk ==
  ASSUME UpTypeOK, NEW m \in Messages, NEW l \in Pushes, l.i \in 1 .. Len(chain), l.tried = {},
         Fails(m, l), NEW lo, NEW c \in 0 .. N - 1
  PROVE  \E p : /\ push' = [push EXCEPT ![m] = p] /\ p.pc # "picks" /\ ~Reads(p, chain)
                /\ WalkOK(p, lo, c, chain)
<1>1. CASE l.i < Len(chain)
  <2> DEFINE p == [l EXCEPT !.pc = "tries", !.i = l.i + 1, !.tries = 0]
  <2>1. push' = [push EXCEPT ![m] = p]
    BY <1>1 DEF Fails, Begin, Goes
  <2>2. p.pc = "tries" /\ p.tries = 0 /\ p.tried = {}
    BY DEF Pushes
  <2> HIDE DEF p
  <2>3. Walked(p, 0, c)
    BY <2>2, WalkBegins
  <2>4. WalkOK(p, lo, c, chain) /\ ~Reads(p, chain)
    BY <2>2, <2>3, NodesFinite DEF WalkOK, Reads
  <2> QED
    BY <2>1, <2>2, <2>4
<1>2. CASE ~(l.i < Len(chain))
  <2> DEFINE p == [l EXCEPT !.pc = "failed", !.seen = 0]
  <2>1. push' = [push EXCEPT ![m] = p]
    BY <1>2 DEF Fails, Goes
  <2>2. p.pc = "failed" /\ p.tried = {}
    BY DEF Pushes
  <2> HIDE DEF p
  <2>3. WalkOK(p, lo, c, chain) /\ ~Reads(p, chain)
    BY <2>2 DEF WalkOK, Reads, Busy
  <2> QED
    BY <2>1, <2>2, <2>3
<1> QED
  BY <1>1, <1>2

\* A failed attempt over gRPC or NATS.
LEMMA AgainWalk ==
  ASSUME UpTypeOK, NEW m \in Messages, NEW l \in Pushes, l.i \in 1 .. Len(chain), l.tried = {},
         chain[l.i] # "http", Again(m, l) \/ Fails(m, l), NEW lo, NEW c \in 0 .. N - 1
  PROVE  \E p : /\ push' = [push EXCEPT ![m] = p] /\ p.pc # "picks" /\ ~Reads(p, chain)
                /\ WalkOK(p, lo, c, chain)
<1>1. CASE Fails(m, l)
  BY <1>1, FailsWalk
<1>2. CASE ~Fails(m, l)
  <2> DEFINE p == [l EXCEPT !.pc = "tries", !.seen = 0, !.tries = @ + 1]
  <2>1. push' = [push EXCEPT ![m] = p]
    BY <1>2 DEF Again, Goes
  <2>2. p.pc = "tries" /\ p.i = l.i /\ p.tried = {}
    BY DEF Pushes
  <2> HIDE DEF p
  <2>3. WalkOK(p, lo, c, chain) /\ ~Reads(p, chain)
    BY <2>2 DEF WalkOK, Reads, Busy
  <2> QED
    BY <2>1, <2>2, <2>3
<1> QED
  BY <1>1, <1>2

\* A failed attempt over HTTP: the last one of HttpTries ends the chain, after a walk
\* of as many instances.
LEMMA AgainHttpWalk ==
  ASSUME UpTypeOK, NEW m \in Messages, NEW l \in Pushes, l.i \in 1 .. Len(chain),
         chain[l.i] = "http", l.tries < HttpTries, Again(m, l), NEW lo, NEW c \in 0 .. N - 1,
         ~l.met => Walked(l, l.tries + 1, c)
  PROVE  \E p : /\ push' = [push EXCEPT ![m] = p] /\ p.pc # "picks" /\ p.met = l.met
                /\ WalkOK(p, lo, c, chain)
<1>1. l.tries \in Nat /\ HttpTries \in Nat \ {0} /\ ~(l.i < Len(chain))
  BY NodesFinite, ChainShape DEF Pushes
<1>2. CASE l.tries >= HttpTries - 1
  <2> DEFINE p == [l EXCEPT !.pc = "failed", !.seen = 0]
  <2>1. push' = [push EXCEPT ![m] = p]
    BY <1>1, <1>2 DEF Again, Fails, Goes
  <2>2. p.pc = "failed" /\ p.tried = l.tried /\ p.met = l.met
    BY DEF Pushes
  <2> HIDE DEF p
  <2>3. ~l.met => Walked(l, HttpTries, c)
    <3>1. l.tries + 1 = HttpTries
      BY <1>1, <1>2
    <3> QED
      BY <3>1
  <2>4. ~l.met => WentRound(p)
    BY <2>2, <2>3, WalkEnds DEF WentRound
  <2>5. WalkOK(p, lo, c, chain)
    BY <2>2, <2>4 DEF WalkOK, Busy
  <2> QED
    BY <2>1, <2>2, <2>5
<1>3. CASE ~(l.tries >= HttpTries - 1)
  <2> DEFINE p == [l EXCEPT !.pc = "tries", !.seen = 0, !.tries = @ + 1]
  <2>1. push' = [push EXCEPT ![m] = p]
    BY <1>1, <1>3 DEF Again, Goes
  <2>2. /\ p.pc = "tries" /\ p.i = l.i /\ p.tried = l.tried /\ p.met = l.met
        /\ p.tries = l.tries + 1 /\ p.tries < HttpTries
    BY <1>1, <1>3 DEF Pushes
  <2> HIDE DEF p
  <2>3. ~p.met => Walked(p, p.tries, c)
    BY <2>2 DEF Walked
  <2>4. WalkOK(p, lo, c, chain)
    BY <2>2, <2>3 DEF WalkOK, Busy
  <2> QED
    BY <2>1, <2>2, <2>4
<1> QED
  BY <1>2, <1>3

\* Push begins, with nothing tried.
LEMMA BeginsWalk ==
  ASSUME WalkInv, NEW m \in Messages, Push(m)
  PROVE  Walks' /\ Meets'
<1> DEFINE p == [push[m] EXCEPT !.pc = "tries", !.i = 1, !.tries = 0]
<1>1. /\ push' = [push EXCEPT ![m] = p] /\ chain' = chain /\ counter' = counter /\ lost' = lost
      /\ push[m].tried = {}
  BY WalkFacts DEF Push, Begin, Goes, deviceVars, WalkOK
<1>2. p.pc = "tries" /\ p.tries = 0 /\ p.tried = {}
  BY <1>1, WalkFacts DEF Pushes
<1> HIDE DEF p
<1>3. Walked(p, 0, counter)
  BY <1>2, WalkFacts, WalkBegins
<1>4. WalkOK(p, lost'[m], counter', chain) /\ ~Reads(p, chain)
  BY <1>1, <1>2, <1>3, NodesFinite DEF WalkOK, Reads
<1> QED
  BY <1>1, <1>2, <1>4, WalkFacts, WalkFrame

\* A failure or a success of a client that is not HTTP, or of d.fn().
LEMMA OthersWalk ==
  ASSUME WalkInv, NEW m \in Messages, push[m].pc \in {"tries", "waits"}, chain' = chain,
         counter' = counter, \A x \in Messages \ {m} : lost'[x] = lost[x],
         \/ chain[push[m].i] # "http" /\ (Again(m, push[m]) \/ Fails(m, push[m]))
         \/ chain[push[m].i] = "http" /\ push[m].tries = 0 /\ push[m].pc = "tries" /\ Fails(m, push[m])
         \/ \E l : Returns(m, l)
         \/ push' = [push EXCEPT ![m] = [push[m] EXCEPT !.pc = "panic"]]
  PROVE  Walks' /\ Meets'
<1>1. WalkOK(push[m], lost[m], counter, chain) /\ Busy(push[m]) /\ counter \in 0 .. N - 1
      /\ push[m] \in Pushes /\ push[m].i \in 1 .. Len(chain) /\ UpTypeOK
  BY WalkFacts DEF Busy
<1>2. CASE chain[push[m].i] # "http" /\ (Again(m, push[m]) \/ Fails(m, push[m]))
  <2>1. push[m].tried = {}
    BY <1>1, <1>2 DEF WalkOK
  <2>2. PICK p : /\ push' = [push EXCEPT ![m] = p] /\ p.pc # "picks" /\ ~Reads(p, chain)
                 /\ WalkOK(p, lost'[m], counter, chain)
    BY <1>1, <1>2, <2>1, AgainWalk
  <2> QED
    BY <1>1, <2>2, WalkFrame
<1>3. CASE chain[push[m].i] = "http" /\ push[m].tries = 0 /\ push[m].pc = "tries" /\ Fails(m, push[m])
  <2> DEFINE p == [push[m] EXCEPT !.pc = "failed", !.seen = 0]
  <2>1. push' = [push EXCEPT ![m] = p]
    BY <1>3, WalkFacts DEF Fails, Goes
  <2>2. p.pc = "failed" /\ p.tried = push[m].tried /\ p.met = push[m].met
    BY <1>1 DEF Pushes
  <2> HIDE DEF p
  <2>3. ~p.met => p.tried = {}
    <3>1. ~push[m].met => Walked(push[m], 0, counter)
      BY <1>1, <1>3 DEF WalkOK
    <3> QED
      BY <1>1, <2>2, <3>1, WalkBegins
  <2>4. WalkOK(p, lost'[m], counter', chain) /\ ~Reads(p, chain)
    BY <2>2, <2>3 DEF WalkOK, Busy, Reads
  <2> QED
    BY <1>1, <2>1, <2>2, <2>4, WalkFrame
<1>4. ASSUME NEW l, Returns(m, l) PROVE Walks' /\ Meets'
  <2> DEFINE p == [Idle EXCEPT !.pc = "ok", !.i = l.i, !.erred = l.erred,
                               !.tries = IF l.tries > 0 THEN 1 ELSE 0]
  <2>1. push' = [push EXCEPT ![m] = p]
    BY <1>4 DEF Returns, Goes
  <2>2. p.pc = "ok"
    BY DEF Idle
  <2> HIDE DEF p
  <2>3. WalkOK(p, lost'[m], counter', chain) /\ ~Reads(p, chain)
    BY <2>2 DEF WalkOK, Busy, Reads
  <2> QED
    BY <1>1, <2>1, <2>2, <2>3, WalkFrame
<1>5. CASE push' = [push EXCEPT ![m] = [push[m] EXCEPT !.pc = "panic"]]
  <2> DEFINE p == [push[m] EXCEPT !.pc = "panic"]
  <2>1. push' = [push EXCEPT ![m] = p] /\ p.pc = "panic"
    BY <1>1, <1>5 DEF Pushes
  <2> HIDE DEF p
  <2>2. WalkOK(p, lost'[m], counter', chain) /\ ~Reads(p, chain)
    BY <2>1 DEF WalkOK, Busy, Reads
  <2> QED
    BY <1>1, <2>1, <2>2, WalkFrame
<1> QED
  BY <1>2, <1>3, <1>4, <1>5

\* A call that gets no answer over HTTP has used its attempt.
LEMMA WaitingWalk ==
  ASSUME WalkInv, NEW m \in Messages, push[m].pc = "waits", chain[push[m].i] = "http",
         Again(m, push[m]), chain' = chain, counter' = counter,
         \A x \in Messages \ {m} : lost'[x] = lost[x]
  PROVE  Walks' /\ Meets'
<1>1. WalkOK(push[m], lost[m], counter, chain) /\ Busy(push[m]) /\ counter \in 0 .. N - 1
      /\ push[m] \in Pushes /\ push[m].i \in 1 .. Len(chain) /\ UpTypeOK
  BY WalkFacts DEF Busy
<1>2. push[m].tries < HttpTries /\ (~push[m].met => Walked(push[m], push[m].tries + 1, counter))
  BY <1>1 DEF WalkOK
<1>3. PICK p : /\ push' = [push EXCEPT ![m] = p] /\ p.pc # "picks" /\ p.met = push[m].met
               /\ WalkOK(p, lost'[m], counter, chain)
  BY <1>1, <1>2, AgainHttpWalk
<1>4. Reads(push[m], chain)
  BY <1>1 DEF Reads
<1> QED
  BY <1>1, <1>3, <1>4, WalkFrame

LEMMA CallLostWalk ==
  ASSUME WalkInv, NEW m \in Messages, Timeout(m) \/ ConnectionLost(m)
  PROVE  Walks' /\ Meets'
<1>1. /\ push[m].pc = "waits" /\ Again(m, push[m]) /\ chain' = chain /\ counter' = counter
      /\ Loses(m) \/ lost' = lost
  BY DEF Timeout, ConnectionLost, deviceVars
<1>2. \A x \in Messages \ {m} : lost'[x] = lost[x]
  BY <1>1, WalkFacts, LosesCounts
<1> QED
  BY <1>1, <1>2, WaitingWalk, OthersWalk

\* The body of an answer breaks off over HTTP: the loss is counted.
LEMMA BodyLostWalk ==
  ASSUME WalkInv, NEW m \in Messages, push[m].pc = "waits", chain[push[m].i] = "http",
         Fails(m, push[m]), Loses(m), chain' = chain, counter' = counter
  PROVE  Walks' /\ Meets'
<1> DEFINE p == [push[m] EXCEPT !.pc = "failed", !.seen = 0]
<1>1. push' = [push EXCEPT ![m] = p]
  BY WalkFacts DEF Fails, Goes
<1>2. p.pc = "failed"
  BY WalkFacts DEF Pushes
<1> HIDE DEF p
<1>3. /\ lost[m] \in Nat /\ lost'[m] = lost[m] + 1 /\ \A x \in Messages \ {m} : lost'[x] = lost[x]
  BY WalkFacts, LosesCounts
<1>4. WalkOK(p, lost'[m], counter', chain) /\ ~Reads(p, chain)
  BY <1>2, <1>3 DEF WalkOK, Busy, Reads
<1> QED
  BY <1>1, <1>2, <1>3, <1>4, WalkFacts, WalkFrame

\* A call over gRPC leaves what has been tried over HTTP as it is: nothing.
LEMMA DeviceConnectWalk ==
  ASSUME WalkInv, NEW m \in Messages, DeviceConnect(m)
  PROVE  Walks' /\ Meets'
<1> DEFINE p == [push[m] EXCEPT !.pc = "waits", !.seen = 0, !.spent = (Via(m) = "http")]
<1>1. /\ push[m].pc = "tries" /\ chain[push[m].i] = "grpc" /\ push' = [push EXCEPT ![m] = p]
      /\ lost' = lost /\ chain' = chain /\ counter' = counter
  BY DEF DeviceConnect, TriesVia, Via, Send, Goes
<1>2. WalkOK(push[m], lost[m], counter, chain) /\ push[m] \in Pushes /\ counter \in 0 .. N - 1
  BY WalkFacts
<1>3. p.pc = "waits" /\ p.i = push[m].i /\ p.tried = push[m].tried
  BY <1>2 DEF Pushes
<1> HIDE DEF p
<1>4. p.tried = {}
  BY <1>1, <1>2, <1>3 DEF WalkOK, Busy
<1>5. WalkOK(p, lost'[m], counter', chain) /\ ~Reads(p, chain)
  BY <1>1, <1>3, <1>4 DEF WalkOK, Busy, Reads
<1> QED
  BY <1>1, <1>2, <1>3, <1>5, WalkFrame

\* Pick makes every Push at HTTP one that was met, unless it is alone.
LEMMA PickWalk ==
  ASSUME WalkInv, NEW m \in Messages, Pick(m)
  PROVE  Walks' /\ Meets'
<1> DEFINE many == Cardinality(AtHttp) > 1
           new(x) == IF x = m THEN [push[x] EXCEPT !.pc = "picks", !.seen = counter,
                                                   !.met = push[x].met \/ many]
                     ELSE IF x \in AtHttp THEN [push[x] EXCEPT !.met = push[x].met \/ many]
                     ELSE push[x]
<1>1. /\ push' = [x \in Messages |-> new(x)] /\ push[m].pc = "tries" /\ chain[push[m].i] = "http"
      /\ chain' = chain /\ counter' = counter /\ lost' = lost
  BY DEF Pick, TriesVia, Via, deviceVars
<1>2. \A x \in Messages : /\ push[x] \in Pushes /\ WalkOK(push[x], lost[x], counter, chain)
                          /\ x \in AtHttp <=> Busy(push[x]) /\ chain[push[x].i] = "http"
  BY WalkFacts DEF AtHttp, Busy, Via
<1>3. ASSUME NEW x \in Messages
      PROVE  /\ new(x).i = push[x].i /\ new(x).tries = push[x].tries /\ new(x).tried = push[x].tried
             /\ new(x).pc = IF x = m THEN "picks" ELSE push[x].pc
             /\ x = m => new(x).seen = counter
             /\ x # m => new(x).seen = push[x].seen
             /\ push[x].met => new(x).met
             /\ many /\ x \in AtHttp => new(x).met = TRUE
             /\ ~many \/ x \notin AtHttp => new(x).met = push[x].met
  <2>1. push[x] \in Pushes /\ push[x].met \in BOOLEAN /\ many \in BOOLEAN
    BY <1>2 DEF Pushes
  <2> HIDE DEF many
  <2>2. CASE x = m
    <3>1. m \in AtHttp
      BY <1>1, <1>2 DEF Busy
    <3>2. /\ new(x).i = push[x].i /\ new(x).tries = push[x].tries /\ new(x).tried = push[x].tried
          /\ new(x).pc = "picks" /\ new(x).seen = counter /\ new(x).met = (push[x].met \/ many)
      BY <2>1, <2>2 DEF Pushes
    <3> HIDE DEF new
    <3> QED
      BY <2>1, <2>2, <3>1, <3>2
  <2>3. CASE x # m /\ x \in AtHttp
    <3>1. /\ new(x).i = push[x].i /\ new(x).tries = push[x].tries /\ new(x).tried = push[x].tried
          /\ new(x).pc = push[x].pc /\ new(x).seen = push[x].seen
          /\ new(x).met = (push[x].met \/ many)
      BY <2>1, <2>3 DEF Pushes
    <3> HIDE DEF new
    <3> QED
      BY <2>1, <2>3, <3>1
  <2>4. CASE x # m /\ x \notin AtHttp
    <3>1. new(x) = push[x]
      BY <2>4
    <3> HIDE DEF new
    <3> QED
      BY <2>4, <3>1
  <2> QED
    BY <2>2, <2>3, <2>4
<1>4. \A x \in Messages : push'[x] = new(x)
  BY <1>1
<1> HIDE DEF new
<1>5. Walks'
  <2> SUFFICES ASSUME NEW x \in Messages PROVE WalkOK(push'[x], lost'[x], counter', chain)
    BY <1>1 DEF Walks, WalkOK, Walked, Behind, WentRound, Busy
  <2>1. WalkOK(new(x), lost[x], counter, chain)
    <3>1. CASE x = m
      BY <3>1, <1>1, <1>2, <1>3 DEF WalkOK, Busy, Walked
    <3>2. CASE x # m
      <4>1. /\ new(x).i = push[x].i /\ new(x).tries = push[x].tries /\ new(x).tried = push[x].tried
            /\ new(x).pc = push[x].pc /\ new(x).seen = push[x].seen /\ (push[x].met => new(x).met)
            /\ WalkOK(push[x], lost[x], counter, chain)
        BY <3>2, <1>2, <1>3
      <4>2. \A k : Walked(new(x), k, counter) <=> Walked(push[x], k, counter)
        BY <4>1 DEF Walked
      <4>3. WentRound(new(x)) <=> WentRound(push[x])
        BY <4>1 DEF WentRound
      <4> QED
        BY <4>1, <4>2, <4>3 DEF WalkOK, Busy
    <3> QED
      BY <3>1, <3>2
  <2> QED
    BY <2>1, <1>1, <1>4
<1>6. Meets'
  <2> SUFFICES ASSUME NEW a \in Messages, NEW b \in Messages, a # b, new(b).pc = "picks",
                      Reads(new(a), chain)
               PROVE  new(a).met = TRUE
    BY <1>1, <1>4 DEF Meets, Reads, Busy
  <2>1. a \in AtHttp /\ b \in AtHttp /\ m \in AtHttp
    <3>1. chain[push[b].i] = "http" /\ Busy(push[b])
      <4>1. CASE b = m
        BY <4>1, <1>1 DEF Busy
      <4>2. CASE b # m
        <5>1. push[b].pc = "picks"
          BY <4>2, <1>3
        <5> QED
          BY <5>1, WalkFacts, PushFacts DEF PushOK, Busy
      <4> QED
        BY <4>1, <4>2
    <3>2. chain[push[a].i] = "http" /\ Busy(push[a])
      <4>1. CASE a = m
        BY <4>1, <1>1 DEF Busy
      <4>2. CASE a # m
        BY <4>2, <1>3 DEF Reads, Busy
      <4> QED
        BY <4>1, <4>2
    <3> QED
      BY <1>1, <1>2, <3>1, <3>2 DEF Busy
  <2>2. many
    <3>1. IsFiniteSet(AtHttp)
      BY FS_Subset, DeviceAssumption DEF AtHttp
    <3>2. {a, b} \subseteq AtHttp /\ Cardinality({a, b}) = 2
      <4>1. Cardinality({a}) = 1 /\ IsFiniteSet({a})
        BY FS_Singleton
      <4>2. Cardinality({a} \cup {b}) = 2
        BY <4>1, FS_AddElement
      <4>3. {a} \cup {b} = {a, b}
        OBVIOUS
      <4> QED
        BY <2>1, <4>2, <4>3
    <3>3. Cardinality({a, b}) <= Cardinality(AtHttp) /\ Cardinality(AtHttp) \in Nat
      BY <3>1, <3>2, FS_Subset, FS_CardinalityType
    <3> QED
      BY <3>2, <3>3
  <2> QED
    BY <1>3, <2>1, <2>2
<1> QED
  BY <1>5, <1>6

\* The increment, by a Push that met no other: the walk goes one instance further.
LEMMA IncrementWalk ==
  ASSUME WalkInv, NEW m \in Messages, Picked(m), Increment(m), NEW p,
         p.tried = push[m].tried \cup {Address(m)}
  PROVE  /\ counter' \in 0 .. N - 1 /\ push[m].tries < HttpTries /\ Reads(push[m], chain)
         /\ chain[push[m].i] = "http"
         /\ ~push[m].met => Walked(p, push[m].tries + 1, counter')
<1>1. /\ push[m].pc = "picks" /\ chain[push[m].i] = "http" /\ Busy(push[m])
      /\ WalkOK(push[m], lost[m], counter, chain) /\ counter \in 0 .. N - 1 /\ push[m].tries \in Nat
  BY WalkFacts, PushFacts DEF Picked, PushOK, Busy
<1>2. counter' \in 0 .. N - 1
  BY WalkFacts, IncrementInRange
<1>3. ASSUME ~push[m].met PROVE Walked(p, push[m].tries + 1, counter')
  <2>1. push[m].seen = counter /\ Walked(push[m], push[m].tries, counter)
    BY <1>1, <1>3 DEF WalkOK
  <2>2. counter' = (counter + 1) % N /\ p.tried = push[m].tried \cup {counter + 1}
    BY <2>1 DEF Increment, Address
  <2> QED
    BY <1>1, <2>1, <2>2, WalkGoesOn
<1> QED
  BY <1>1, <1>2, <1>3 DEF WalkOK, Reads

\* An attempt over HTTP that fails at once.
LEMMA HttpFailureWalk ==
  ASSUME WalkInv, NEW m \in Messages, Repeated(m) \/ DoFails(m)
  PROVE  Walks' /\ Meets'
<1>1. Picked(m) /\ Increment(m) /\ chain' = chain /\ lost' = lost
  BY DEF Repeated, DoFails, deviceVars
<1>2. \E l \in Pushes : /\ l.i = push[m].i /\ l.tries = push[m].tries /\ l.met = push[m].met
                        /\ l.tried = push[m].tried \cup {Address(m)} /\ Again(m, l)
  <2>1. CASE Repeated(m)
    <3>1. push[m].tried = push[m].tried \cup {Address(m)} /\ Again(m, push[m])
      BY <2>1 DEF Repeated
    <3> QED
      BY <3>1, WalkFacts
  <2>2. CASE DoFails(m)
    <3>1. PICK spent \in BOOLEAN : Again(m, [Trying(m) EXCEPT !.spent = spent])
      BY <2>2, WalkFacts DEF DoFails, Pushes
    <3> DEFINE l == [Trying(m) EXCEPT !.spent = spent]
    <3>2. Trying(m) \in Pushes /\ Trying(m).i = push[m].i /\ Trying(m).tries = push[m].tries
      BY <1>1, WalkFacts, TryingOK
    <3>3. Trying(m).met = push[m].met /\ Trying(m).tried = push[m].tried \cup {Address(m)}
      BY WalkFacts DEF Trying, Pushes
    <3>4. /\ l \in Pushes /\ l.i = push[m].i /\ l.tries = push[m].tries /\ l.met = push[m].met
          /\ l.tried = push[m].tried \cup {Address(m)}
      BY <3>2, <3>3 DEF Pushes
    <3>5. Again(m, l)
      BY <3>1
    <3> QED
      BY <3>4, <3>5
  <2> QED
    BY <2>1, <2>2
<1>3. PICK l \in Pushes : /\ l.i = push[m].i /\ l.tries = push[m].tries /\ l.met = push[m].met
                          /\ l.tried = push[m].tried \cup {Address(m)} /\ Again(m, l)
  BY <1>2
<1>4. /\ counter' \in 0 .. N - 1 /\ l.tries < HttpTries /\ Reads(push[m], chain)
      /\ chain[l.i] = "http" /\ (~l.met => Walked(l, l.tries + 1, counter'))
  BY <1>1, <1>3, IncrementWalk
<1>5. PICK p : /\ push' = [push EXCEPT ![m] = p] /\ p.pc # "picks" /\ p.met = l.met
               /\ WalkOK(p, lost'[m], counter', chain)
  BY <1>3, <1>4, WalkFacts, AgainHttpWalk
<1>6. push[m].pc = "picks"
  BY <1>1 DEF Picked
<1> QED
  BY <1>1, <1>3, <1>4, <1>5, <1>6, WalkFrame

\* An attempt over HTTP that reaches its instance.
LEMMA DoWalk ==
  ASSUME WalkInv, NEW m \in Messages, Do(m)
  PROVE  Walks' /\ Meets'
<1> DEFINE p == [Trying(m) EXCEPT !.pc = "waits", !.seen = 0, !.spent = (Via(m) = "http")]
<1>1. /\ Picked(m) /\ Increment(m) /\ push' = [push EXCEPT ![m] = p]
      /\ lost' = lost /\ chain' = chain
  BY DEF Do, Send, Goes
<1>2. Trying(m) \in Pushes /\ Trying(m).i = push[m].i /\ Trying(m).tries = push[m].tries
  BY <1>1, WalkFacts, TryingOK
<1>3. Trying(m).met = push[m].met /\ Trying(m).tried = push[m].tried \cup {Address(m)}
  BY WalkFacts DEF Trying, Pushes
<1>4. /\ p.pc = "waits" /\ p.i = push[m].i /\ p.tries = push[m].tries /\ p.met = push[m].met
      /\ p.tried = push[m].tried \cup {Address(m)}
  BY <1>2, <1>3 DEF Pushes
<1> HIDE DEF p
<1>5. /\ counter' \in 0 .. N - 1 /\ push[m].tries < HttpTries /\ Reads(push[m], chain)
      /\ chain[push[m].i] = "http" /\ (~push[m].met => Walked(p, push[m].tries + 1, counter'))
  BY <1>1, <1>4, IncrementWalk
<1>6. WalkOK(p, lost'[m], counter', chain)
  BY <1>4, <1>5 DEF WalkOK, Busy
<1>7. push[m].pc = "picks"
  BY <1>1 DEF Picked
<1> QED
  BY <1>1, <1>4, <1>5, <1>6, <1>7, WalkFrame

\* A node is done with a request: a call over HTTP is answered, or its body is lost.
LEMMA ServeWalk ==
  ASSUME WalkInv, NEW r \in requests, Serve(r)
  PROVE  Walks' /\ Meets'
<1> DEFINE m == r.msg
<1>1. /\ m \in Messages /\ chain' = chain /\ counter' = counter
      /\ lost \in [Messages -> Nat]
  BY TypeParts DEF WalkInv, UpInv, PushTypes, DeviceTypes, Requests, Serve
<1>2. PICK ok \in BOOLEAN :
        IF WaitsFor(r) THEN (Answered(r, ok) /\ LosesNothing) \/ BodyLost(r)
                       ELSE push' = push /\ LosesNothing
  BY DEF Serve
<1>3. CASE ~WaitsFor(r)
  BY <1>1, <1>2, <1>3, WalkStays DEF LosesNothing
<1>4. CASE WaitsFor(r) /\ BodyLost(r)
  <2>1. /\ push[m].pc = "waits" /\ chain[push[m].i] = "http" /\ Loses(m) /\ Fails(m, push[m])
    BY <1>4 DEF WaitsFor, Via, BodyLost
  <2> QED
    BY <1>1, <2>1, BodyLostWalk
<1>5. CASE WaitsFor(r) /\ Answered(r, ok) /\ LosesNothing
  <2>1. /\ push[m].pc = "waits" /\ r.via = chain[push[m].i] /\ lost' = lost
        /\ (\E l : Returns(m, l)) \/ (r.via # "http" /\ Fails(m, push[m]))
    BY <1>5 DEF WaitsFor, Via, Answered, LosesNothing
  <2> QED
    BY <1>1, <2>1, OthersWalk
<1> QED
  BY <1>2, <1>3, <1>4, <1>5

LEMMA PushWalk ==
  ASSUME WalkInv, NEW m \in Messages, PushStep(m)
  PROVE  Walks' /\ Meets'
<1>1. CASE DeviceConnectFails(m) \/ PublishFails(m) \/ NoInstances(m) \/ RabbitPublish(m)
  BY <1>1, OthersWalk
     DEF DeviceConnectFails, PublishFails, NoInstances, RabbitPublish, TriesVia, Via, Goes, deviceVars
<1>2. CASE Publish(m)
  <2>1. /\ push[m].pc = "tries" /\ chain[push[m].i] = "nats" /\ chain' = chain /\ counter' = counter
        /\ \/ Returns(m, push[m]) /\ lost' = lost
           \/ Again(m, push[m]) /\ Loses(m)
    BY <1>2 DEF Publish, TriesVia, Via, LosesNothing
  <2>2. \A x \in Messages \ {m} : lost'[x] = lost[x]
    BY <2>1, WalkFacts, LosesCounts
  <2> QED
    BY <2>1, <2>2, OthersWalk
<1> QED
  BY <1>1, <1>2, BeginsWalk, CallLostWalk, DeviceConnectWalk, PickWalk, HttpFailureWalk, DoWalk
     DEF PushStep

LEMMA WalkStep == WalkInv /\ HandsInv /\ [UpNext]_upVars => WalkInv'
<1> SUFFICES ASSUME WalkInv, HandsInv, [UpNext]_upVars PROVE WalkInv'
  OBVIOUS
<1>1. UpInv /\ UpInv'
  BY StepKeeps DEF WalkInv
<1>2. lost \in [Messages -> Nat] /\ lost' \in [Messages -> Nat]
  BY <1>1, TypeParts DEF UpInv, UpTypeOK
<1>3. CASE DeviceStep /\ UNCHANGED <<chain, counter, push>>
  <2>1. \A x \in Messages : lost'[x] \in Nat /\ lost'[x] >= lost[x]
    <3>1. lost' = lost \/ \E m \in Messages : Loses(m)
      BY <1>3 DEF DeviceStep, StartRouter, RabbitSubscribe, Crash, HandleAllNatsMessage,
                  Receive, Answers, ProcessMessage, LosesNothing
    <3> QED
      BY <1>1, <1>2, <3>1, LosesCounts
  <2> QED
    BY <1>1, <1>3, <2>1, WalkStays DEF WalkInv
<1>4. ASSUME NEW m \in Messages, PushStep(m) PROVE WalkInv'
  BY <1>1, <1>4, PushWalk DEF WalkInv
<1>5. ASSUME NEW r \in requests, Serve(r) PROVE WalkInv'
  BY <1>1, <1>5, ServeWalk DEF WalkInv
<1>6. CASE UNCHANGED upVars
  <2>1. lost' = lost /\ push' = push /\ chain' = chain /\ counter' = counter
    BY <1>6 DEF upVars, deviceVars
  <2>2. \A x \in Messages : lost'[x] \in Nat /\ lost'[x] >= lost[x]
    BY <1>2, <2>1
  <2> QED
    BY <1>1, <2>1, <2>2, WalkStays DEF WalkInv
<1> QED
  BY <1>3, <1>4, <1>5, <1>6 DEF UpNext

LEMMA WalkInit == UpInit => WalkInv
<1> SUFFICES ASSUME UpInit PROVE WalkInv
  OBVIOUS
<1>1. UpInv /\ \A m \in Messages : push[m].pc = "idle" /\ push[m].tried = {}
  BY InitHolds DEF UpInit, Idle
<1> QED
  BY <1>1 DEF WalkInv, Walks, Meets, WalkOK, Busy

\* A Push over HTTP that is left alone and loses no answer gives up only after every
\* instance, or HttpTries of them, for any number of nodes and of attempts, and
\* wherever others have left the counter (httpClient.go:37-44, 89-118).
THEOREM HttpTriesAll == UpSpec => []TriesAll
<1>1. WalkInv => TriesAll
  BY DEF WalkInv, Walks, WalkOK, WentRound, TriesAll
<1>2. UpSpec => []WalkInv
  BY WalkInit, WalkStep, HandsHolds, PTL DEF UpSpec
<1> QED
  BY <1>1, <1>2, PTL

-----------------------------------------------------------------------------
(* A Push is bounded.                                                      *)

\* The last attempt of a client, counted from 0.
LastTry(t) ==
  CASE t = "grpc" -> GrpcRetries [] t = "nats" -> NatsRetries [] t = "http" -> HttpTries - 1

\* The attempts that the clients behind position i of the chain have.
AttemptsAt(j) == IF j <= Len(chain) THEN LastTry(chain[j]) + 1 ELSE 0
AttemptsAfter(i) == (IF i < 2 THEN AttemptsAt(2) ELSE 0) + (IF i < 3 THEN AttemptsAt(3) ELSE 0)

Ended(l) == l.pc \in {"ok", "failed", "panic"}
Phase(l) == CASE l.pc = "idle" -> 4 [] l.pc = "tries" -> 3 [] l.pc = "picks" -> 2 [] OTHER -> 1

\* How many steps a Push can still make: an attempt is at most to begin, to pick an
\* address and to wait.
StepsLeft(l) ==
  IF Ended(l) THEN 0
  ELSE 3 * (AttemptsAfter(l.i) + LastTry(chain[l.i]) - l.tries) + Phase(l)

InBudget(l) ==
  /\ ~Ended(l) => l.tries <= LastTry(chain[l.i])
  /\ l.pc = "idle" => l.i = 1 /\ l.tries = 0
Budgets == \A m \in Messages : InBudget(push[m])

\* Every step that moves a Push uses up one of the steps it has left.  (That another
\* Push has been met is no move of its own.)
Moves(m) == [push'[m] EXCEPT !.met = FALSE] # [push[m] EXCEPT !.met = FALSE]
PushesDescend == \A m \in Messages : Moves(m) => StepsLeft(push[m])' < StepsLeft(push[m])
StepsAreCounted == \A m \in Messages : StepsLeft(push[m]) \in Nat
BudgetInv == UpInv /\ Budgets

\* The numbers of attempts, and how those behind a position add up.
LEMMA AttemptFacts ==
  ASSUME UpTypeOK
  PROVE  /\ Len(chain) \in Nat /\ Len(chain) <= 3
         /\ \A i \in 1 .. Len(chain) : LastTry(chain[i]) \in Nat
         /\ \A i \in 1 .. 3 : AttemptsAfter(i) \in Nat
         /\ \A i \in 1 .. 3 : i < Len(chain) =>
              AttemptsAfter(i) = AttemptsAfter(i + 1) + LastTry(chain[i + 1]) + 1
<1>1. /\ Len(chain) \in Nat /\ Len(chain) <= 3
      /\ \A i \in 1 .. Len(chain) : chain[i] \in {"grpc", "nats", "http"}
  BY ChainShape
<1>2. LastTry("grpc") \in Nat /\ LastTry("nats") \in Nat /\ LastTry("http") \in Nat
  BY TransportsAssumption DEF LastTry
<1>3. \A i \in 1 .. Len(chain) : LastTry(chain[i]) \in Nat
  BY <1>1, <1>2
<1> HIDE DEF LastTry
<1>4. \A j \in {2, 3} : AttemptsAt(j) \in Nat
  BY <1>1, <1>3 DEF AttemptsAt
<1>5. \A i \in 1 .. 3 : AttemptsAfter(i) \in Nat
  BY <1>4 DEF AttemptsAfter
<1>6. ASSUME NEW i \in 1 .. 3, i < Len(chain)
      PROVE  AttemptsAfter(i) = AttemptsAfter(i + 1) + LastTry(chain[i + 1]) + 1
  <2>1. CASE i = 1
    <3>1. AttemptsAt(2) = LastTry(chain[2]) + 1
      BY <1>1, <1>6, <2>1 DEF AttemptsAt
    <3>2. LastTry(chain[2]) \in Nat
      BY <1>1, <1>3, <1>6, <2>1
    <3>3. AttemptsAfter(1) = AttemptsAt(2) + AttemptsAt(3) /\ AttemptsAfter(2) = AttemptsAt(3)
      BY <1>4 DEF AttemptsAfter
    <3> QED
      BY <1>4, <2>1, <3>1, <3>2, <3>3
  <2>2. CASE i = 2
    <3>1. Len(chain) = 3 /\ AttemptsAt(3) = LastTry(chain[3]) + 1
      BY <1>1, <1>6, <2>2 DEF AttemptsAt
    <3>2. LastTry(chain[3]) \in Nat
      BY <1>3, <3>1
    <3>3. AttemptsAfter(2) = AttemptsAt(3) /\ AttemptsAfter(3) = 0
      BY <1>4 DEF AttemptsAfter
    <3> QED
      BY <2>2, <3>1, <3>2, <3>3
  <2> QED
    BY <1>1, <1>6, <2>1, <2>2
<1> QED
  BY <1>1, <1>3, <1>5, <1>6

\* An attempt is followed by its end, by its next phase, by another attempt of the
\* client, or by the first one of the next client.
Follows(k, l) ==
  \/ Ended(k)
  \/ k.i = l.i /\ k.tries = l.tries /\ Phase(k) < Phase(l)
  \/ k.i = l.i /\ k.tries = l.tries + 1 /\ k.pc = "tries"
  \/ k.i = l.i + 1 /\ k.i <= Len(chain) /\ k.tries = 0 /\ k.pc = "tries"

LEMMA Descends ==
  ASSUME UpTypeOK, NEW k \in Pushes, NEW l \in Pushes,
         k.i \in 1 .. Len(chain), l.i \in 1 .. Len(chain),
         InBudget(k), InBudget(l), ~Ended(l), Follows(k, l)
  PROVE  StepsLeft(k) \in Nat /\ StepsLeft(l) \in Nat /\ StepsLeft(k) < StepsLeft(l)
<1>1. /\ l.tries \in Nat /\ k.tries \in Nat /\ l.i \in 1 .. 3 /\ k.i \in 1 .. 3
      /\ l.tries <= LastTry(chain[l.i]) /\ (~Ended(k) => k.tries <= LastTry(chain[k.i]))
      /\ Phase(l) \in 1 .. 4 /\ Phase(k) \in 1 .. 4 /\ (k.pc = "tries" => Phase(k) = 3)
  BY DEF Pushes, InBudget, Phase
<1>2. /\ AttemptsAfter(l.i) \in Nat /\ AttemptsAfter(k.i) \in Nat
      /\ LastTry(chain[l.i]) \in Nat /\ LastTry(chain[k.i]) \in Nat
      /\ l.i < Len(chain) =>
           AttemptsAfter(l.i) = AttemptsAfter(l.i + 1) + LastTry(chain[l.i + 1]) + 1
  BY <1>1, AttemptFacts
<1>3. StepsLeft(l) = 3 * (AttemptsAfter(l.i) + LastTry(chain[l.i]) - l.tries) + Phase(l)
  BY DEF StepsLeft
<1>4. StepsLeft(l) \in Nat /\ 0 < StepsLeft(l)
  BY <1>1, <1>2, <1>3
<1>5. CASE Ended(k)
  BY <1>4, <1>5 DEF StepsLeft
<1>6. CASE ~Ended(k)
  <2>1. StepsLeft(k) = 3 * (AttemptsAfter(k.i) + LastTry(chain[k.i]) - k.tries) + Phase(k)
    BY <1>6 DEF StepsLeft
  <2>2. CASE k.i = l.i /\ k.tries = l.tries /\ Phase(k) < Phase(l)
    BY <1>1, <1>2, <1>3, <1>6, <2>1, <2>2
  <2>3. CASE k.i = l.i /\ k.tries = l.tries + 1 /\ k.pc = "tries"
    <3>1. /\ AttemptsAfter(k.i) = AttemptsAfter(l.i) /\ chain[k.i] = chain[l.i]
          /\ Phase(k) = 3 /\ k.tries = l.tries + 1
      BY <1>1, <2>3
    <3>2. StepsLeft(k) = 3 * (AttemptsAfter(l.i) + LastTry(chain[l.i]) - (l.tries + 1)) + 3
      BY <2>1, <3>1
    <3>3. l.tries + 1 <= LastTry(chain[l.i])
      BY <1>1, <1>6, <3>1
    <3> DEFINE b == LastTry(chain[l.i]) - l.tries
    <3>4. b \in Nat /\ b > 0 /\ AttemptsAfter(l.i) \in Nat /\ Phase(l) \in 1 .. 4
      BY <1>1, <1>2, <3>3
    <3>5. StepsLeft(k) = 3 * (AttemptsAfter(l.i) + (b - 1)) + 3
      BY <1>1, <1>2, <3>2
    <3>6. StepsLeft(l) = 3 * (AttemptsAfter(l.i) + b) + Phase(l)
      BY <1>3
    <3> HIDE DEF b
    <3> QED
      BY <3>4, <3>5, <3>6
  <2>4. CASE k.i = l.i + 1 /\ k.i <= Len(chain) /\ k.tries = 0 /\ k.pc = "tries"
    <3>1. l.i < Len(chain) /\ Phase(k) = 3
      BY <2>4, <1>1, AttemptFacts
    <3>2. AttemptsAfter(l.i) = AttemptsAfter(k.i) + LastTry(chain[k.i]) + 1
      BY <1>2, <2>4, <3>1
    <3>3. StepsLeft(k) = 3 * (AttemptsAfter(k.i) + LastTry(chain[k.i]) - 0) + 3
      BY <2>1, <2>4, <3>1
    <3>4. StepsLeft(k) = 3 * AttemptsAfter(l.i)
      BY <1>2, <3>2, <3>3
    <3> DEFINE b == LastTry(chain[l.i]) - l.tries
    <3>5. b \in Nat /\ AttemptsAfter(l.i) \in Nat /\ Phase(l) \in 1 .. 4
          /\ StepsLeft(l) = 3 * (AttemptsAfter(l.i) + b) + Phase(l)
      BY <1>1, <1>2, <1>3
    <3> HIDE DEF b
    <3> QED
      BY <3>4, <3>5
  <2> QED
    BY <1>6, <2>2, <2>3, <2>4 DEF Follows
<1> QED
  BY <1>5, <1>6

\* What an attempt that fails makes of its Push.
LEMMA FailureFollows ==
  ASSUME BudgetInv, NEW m \in Messages, NEW l \in Pushes, l.i = push[m].i,
         l.tries = push[m].tries, push[m].pc \in {"tries", "picks", "waits"},
         Again(m, l) \/ Fails(m, l)
  PROVE  \E k : push' = [push EXCEPT ![m] = k] /\ InBudget(k) /\ Follows(k, push[m])
<1>1. /\ push[m] \in Pushes /\ l.i \in 1 .. Len(chain) /\ UpTypeOK /\ InBudget(push[m])
      /\ l.i \in 1 .. 3 /\ l.tries \in Nat
  BY PushFacts DEF BudgetInv, Budgets, Pushes
<1>2. /\ Len(chain) \in Nat /\ chain[l.i] \in {"grpc", "nats", "http"}
      /\ \A i \in 1 .. Len(chain) : LastTry(chain[i]) \in Nat
      /\ HttpTries \in Nat
  BY <1>1, ChainShape, AttemptFacts, TransportsAssumption
<1>3. CASE Fails(m, l)
  <2>1. CASE l.i < Len(chain)
    <3> DEFINE k == [l EXCEPT !.pc = "tries", !.i = l.i + 1, !.tries = 0]
    <3>1. push' = [push EXCEPT ![m] = k]
      BY <1>3, <2>1 DEF Fails, Begin, Goes
    <3>2. k.pc = "tries" /\ k.i = l.i + 1 /\ k.tries = 0
      BY DEF Pushes
    <3> HIDE DEF k
    <3>3. k.i \in 1 .. Len(chain)
      BY <1>1, <1>2, <2>1, <3>2
    <3>4. LastTry(chain[k.i]) \in Nat
      BY <1>2, <3>3
    <3>5. InBudget(k)
      BY <3>2, <3>4 DEF InBudget
    <3>6. Follows(k, push[m])
      BY <1>2, <3>2, <3>3 DEF Follows
    <3> QED
      BY <3>1, <3>5, <3>6
  <2>2. CASE ~(l.i < Len(chain))
    <3> DEFINE k == [l EXCEPT !.pc = "failed", !.seen = 0]
    <3>1. push' = [push EXCEPT ![m] = k]
      BY <1>3, <2>2 DEF Fails, Goes
    <3>2. k.pc = "failed"
      BY DEF Pushes
    <3> HIDE DEF k
    <3> QED
      BY <3>1, <3>2 DEF InBudget, Follows, Ended
  <2> QED
    BY <2>1, <2>2
<1>4. CASE Again(m, l) /\ ~Fails(m, l)
  <2> DEFINE k == [l EXCEPT !.pc = "tries", !.seen = 0, !.tries = @ + 1]
  <2>1. push' = [push EXCEPT ![m] = k] /\ ~(l.tries >= LastTry(chain[l.i]))
    BY <1>4 DEF Again, Goes, LastTry
  <2>2. k.pc = "tries" /\ k.i = l.i /\ k.tries = l.tries + 1
    BY DEF Pushes
  <2> HIDE DEF k
  <2>3. InBudget(k)
    BY <1>1, <1>2, <2>1, <2>2 DEF InBudget
  <2> QED
    BY <2>1, <2>2, <2>3 DEF Follows
<1> QED
  BY <1>3, <1>4

\* One Push goes on.
LEMMA OneFollows ==
  ASSUME BudgetInv, UpInv', NEW m \in Messages, NEW k, chain' = chain,
         push' = [push EXCEPT ![m] = k], ~Ended(push[m]), InBudget(k), Follows(k, push[m])
  PROVE  Budgets' /\ PushesDescend
<1>1. /\ push \in [Messages -> Pushes] /\ push' \in [Messages -> Pushes] /\ UpTypeOK
      /\ push'[m] = k /\ \A x \in Messages \ {m} : push'[x] = push[x]
  BY TypeParts DEF BudgetInv, UpInv, UpTypeOK, Pushes
<1>2. /\ k \in Pushes /\ k.i \in 1 .. Len(chain)
      /\ push[m] \in Pushes /\ push[m].i \in 1 .. Len(chain) /\ InBudget(push[m])
  BY <1>1 DEF BudgetInv, UpInv, Budgets, PushOK
<1>3. StepsLeft(push'[m]) < StepsLeft(push[m])
  BY <1>1, <1>2, Descends
<1>4. \A x \in Messages : InBudget(push[x])' <=> InBudget(push'[x])
  BY DEF InBudget
<1>5. \A x \in Messages : StepsLeft(push[x])' = StepsLeft(push'[x])
  BY DEF StepsLeft, AttemptsAfter, AttemptsAt
<1> QED
  BY <1>1, <1>3, <1>4, <1>5 DEF BudgetInv, Budgets, PushesDescend, Moves

\* A Push does not go on, or only learns of another.
LEMMA NoneFollows ==
  ASSUME BudgetInv, UpInv', chain' = chain,
         \A x \in Messages : push'[x] = push[x] \/ push'[x] = [push[x] EXCEPT !.met = TRUE]
  PROVE  Budgets' /\ PushesDescend
<1>1. /\ push \in [Messages -> Pushes] /\ push' \in [Messages -> Pushes]
  BY TypeParts DEF BudgetInv, UpInv, PushTypes, UpTypeOK, Pushes
<1>2. \A x \in Messages : /\ push'[x].pc = push[x].pc /\ push'[x].i = push[x].i
                          /\ push'[x].tries = push[x].tries /\ ~Moves(x)
  BY <1>1 DEF Moves, Pushes
<1> QED
  BY <1>2 DEF BudgetInv, Budgets, InBudget, Ended, PushesDescend

\* An attempt of m fails, whatever it has noted about itself.
LEMMA FailureBudget ==
  ASSUME BudgetInv, UpInv', NEW m \in Messages, NEW l \in Pushes, l.i = push[m].i,
         l.tries = push[m].tries, push[m].pc \in {"tries", "picks", "waits"},
         Again(m, l) \/ Fails(m, l), chain' = chain
  PROVE  Budgets' /\ PushesDescend
<1>1. PICK k : push' = [push EXCEPT ![m] = k] /\ InBudget(k) /\ Follows(k, push[m])
  BY FailureFollows
<1> QED
  BY <1>1, OneFollows DEF Ended

LEMMA OwnFailureBudget ==
  ASSUME BudgetInv, UpInv', NEW m \in Messages, push[m].pc \in {"tries", "picks", "waits"},
         Again(m, push[m]) \/ Fails(m, push[m]), chain' = chain
  PROVE  Budgets' /\ PushesDescend
<1>1. push[m] \in Pushes
  BY PushFacts DEF BudgetInv
<1> QED
  BY <1>1, FailureBudget

\* A call is under way: the attempt waits for its answer.
LEMMA SendBudget ==
  ASSUME BudgetInv, UpInv', NEW m \in Messages, NEW to, NEW l \in Pushes, l.i = push[m].i,
         l.tries = push[m].tries, push[m].pc \in {"tries", "picks"}, Send(m, to, l)
  PROVE  Budgets' /\ PushesDescend
<1> DEFINE k == [l EXCEPT !.pc = "waits", !.seen = 0, !.spent = (Via(m) = "http")]
<1>1. push' = [push EXCEPT ![m] = k] /\ chain' = chain
  BY DEF Send, Goes
<1>2. k.pc = "waits" /\ k.i = push[m].i /\ k.tries = push[m].tries
  BY DEF Pushes
<1> HIDE DEF k
<1>3. InBudget(k) /\ Follows(k, push[m])
  BY <1>2 DEF BudgetInv, Budgets, InBudget, Ended, Follows, Phase
<1> QED
  BY <1>1, <1>3, OneFollows DEF Ended

\* The Push of m is over.
LEMMA OverBudget ==
  ASSUME BudgetInv, UpInv', NEW m \in Messages, push[m].pc \in {"tries", "picks", "waits"},
         (\E l : Returns(m, l)) \/ RabbitPublish(m), chain' = chain
  PROVE  Budgets' /\ PushesDescend
<1>1. PICK k : push' = [push EXCEPT ![m] = k] /\ k.pc \in {"ok", "panic"}
  <2>1. CASE RabbitPublish(m)
    <3> DEFINE k == [push[m] EXCEPT !.pc = "panic"]
    <3>1. push' = [push EXCEPT ![m] = k]
      BY <2>1 DEF RabbitPublish, Goes
    <3>2. k.pc = "panic"
      BY PushFacts DEF BudgetInv, Pushes
    <3> QED
      BY <3>1, <3>2
  <2>2. ASSUME NEW l, Returns(m, l)
        PROVE  \E k : push' = [push EXCEPT ![m] = k] /\ k.pc \in {"ok", "panic"}
    <3> DEFINE k == [Idle EXCEPT !.pc = "ok", !.i = l.i, !.erred = l.erred,
                                 !.tries = IF l.tries > 0 THEN 1 ELSE 0]
    <3>1. push' = [push EXCEPT ![m] = k]
      BY <2>2 DEF Returns, Goes
    <3>2. k.pc = "ok"
      BY DEF Idle
    <3> QED
      BY <3>1, <3>2
  <2> QED
    BY <2>1, <2>2
<1> QED
  BY <1>1, OneFollows DEF InBudget, Follows, Ended

LEMMA PushBudget ==
  ASSUME BudgetInv, UpInv', NEW m \in Messages, PushStep(m)
  PROVE  Budgets' /\ PushesDescend
<1>0. push[m] \in Pushes /\ InBudget(push[m]) /\ UpTypeOK
  BY PushFacts DEF BudgetInv, Budgets
<1>1. CASE Push(m)
  <2> DEFINE k == [push[m] EXCEPT !.pc = "tries", !.i = 1, !.tries = 0]
  <2>1. push' = [push EXCEPT ![m] = k] /\ chain' = chain /\ push[m].pc = "idle"
    BY <1>1 DEF Push, Begin, Goes
  <2>2. k.pc = "tries" /\ k.i = 1 /\ k.tries = 0
    BY <1>0 DEF Pushes
  <2> HIDE DEF k
  <2>3. LastTry(chain[1]) \in Nat
    BY <1>0, ChainShape, AttemptFacts
  <2>4. InBudget(k) /\ Follows(k, push[m])
    BY <1>0, <2>1, <2>2, <2>3 DEF InBudget, Follows, Phase
  <2> QED
    BY <2>1, <2>4, OneFollows DEF Ended
<1>2. CASE Timeout(m) \/ ConnectionLost(m) \/ DeviceConnectFails(m) \/ PublishFails(m)
           \/ NoInstances(m) \/ Repeated(m)
  BY <1>2, OwnFailureBudget
     DEF Timeout, ConnectionLost, DeviceConnectFails, PublishFails, NoInstances, Repeated,
         TriesVia, Picked
<1>3. CASE DeviceConnect(m)
  BY <1>0, <1>3, SendBudget DEF DeviceConnect, TriesVia
<1>4. CASE Publish(m)
  <2>1. push[m].pc = "tries" /\ chain' = chain /\ (Returns(m, push[m]) \/ Again(m, push[m]))
    BY <1>4 DEF Publish, TriesVia
  <2> QED
    BY <2>1, OverBudget, OwnFailureBudget
<1>5. CASE RabbitPublish(m)
  BY <1>5, OverBudget DEF RabbitPublish, TriesVia
<1>6. CASE Pick(m)
  <2>0. push[m].pc = "tries" /\ chain' = chain
    BY <1>6 DEF Pick, TriesVia
  <2>1. push' = [x \in Messages |->
          LET met == push[x].met \/ Cardinality(AtHttp) > 1 IN
          IF x = m THEN [push[x] EXCEPT !.pc = "picks", !.seen = counter, !.met = met]
          ELSE IF x \in AtHttp THEN [push[x] EXCEPT !.met = met] ELSE push[x]]
    BY <1>6 DEF Pick
  <2>2. /\ push \in [Messages -> Pushes] /\ push' \in [Messages -> Pushes] /\ UpTypeOK
    BY TypeParts DEF BudgetInv, UpInv, PushTypes, UpTypeOK, Pushes
  <2>3. push'[m].pc = "picks" /\ push'[m].i = push[m].i /\ push'[m].tries = push[m].tries
    <3> DEFINE met == push[m].met \/ Cardinality(AtHttp) > 1
    <3>1. push'[m] = [push[m] EXCEPT !.pc = "picks", !.seen = counter, !.met = met]
      BY <2>1
    <3> HIDE DEF met
    <3> QED
      BY <2>2, <3>1 DEF Pushes
  <2>4. \A x \in Messages \ {m} :
          /\ push'[x].pc = push[x].pc /\ push'[x].i = push[x].i /\ push'[x].tries = push[x].tries
          /\ ~Moves(x)
    BY <2>1, <2>2 DEF Moves, Pushes
  <2>5. InBudget(push'[m]) /\ Follows(push'[m], push[m])
    BY <1>0, <2>0, <2>3 DEF InBudget, Ended, Follows, Phase
  <2>6. push[m].i \in 1 .. Len(chain)
    BY PushFacts DEF BudgetInv
  <2>7. StepsLeft(push'[m]) < StepsLeft(push[m])
    BY <1>0, <2>0, <2>2, <2>3, <2>5, <2>6, Descends DEF Ended
  <2>8. StepsLeft(push[m])' = StepsLeft(push'[m])
    BY <2>0 DEF StepsLeft, AttemptsAfter, AttemptsAt
  <2>9. Budgets'
    <3>1. \A x \in Messages \ {m} : InBudget(push[x])'
      BY <2>0, <2>4 DEF BudgetInv, Budgets, InBudget, Ended
    <3>2. InBudget(push[m])'
      BY <2>0, <2>5 DEF InBudget
    <3> QED
      BY <3>1, <3>2 DEF Budgets
  <2> QED
    BY <2>4, <2>7, <2>8, <2>9 DEF PushesDescend
<1>7. CASE Do(m)
  <2>1. Trying(m) \in Pushes /\ Trying(m).i = push[m].i /\ Trying(m).tries = push[m].tries
    <3>1. Picked(m) /\ UpInv
      BY <1>7 DEF Do, BudgetInv
    <3> QED
      BY <3>1, TryingOK
  <2> QED
    BY <1>7, <2>1, SendBudget DEF Do, Picked
<1>8. CASE DoFails(m)
  <2>1. push[m].pc = "picks" /\ chain' = chain
    BY <1>8 DEF DoFails, Picked
  <2>2. PICK spent : Again(m, [Trying(m) EXCEPT !.spent = spent]) /\ spent \in BOOLEAN
    <3>1. push[m].spent \in BOOLEAN
      BY <1>0 DEF Pushes
    <3> QED
      BY <1>8, <3>1 DEF DoFails
  <2> DEFINE l == [Trying(m) EXCEPT !.spent = spent]
  <2>5. Trying(m) \in Pushes /\ Trying(m).i = push[m].i /\ Trying(m).tries = push[m].tries
    <3>1. Picked(m) /\ UpInv
      BY <1>8 DEF DoFails, BudgetInv
    <3> QED
      BY <3>1, TryingOK
  <2>3. l \in Pushes /\ l.i = push[m].i /\ l.tries = push[m].tries
    BY <2>2, <2>5 DEF Pushes
  <2> HIDE DEF l
  <2>4. Again(m, l)
    BY <2>2 DEF l
  <2> QED
    BY <2>1, <2>3, <2>4, FailureBudget
<1> QED
  BY <1>1, <1>2, <1>3, <1>4, <1>5, <1>6, <1>7, <1>8 DEF PushStep

LEMMA ServeBudget ==
  ASSUME BudgetInv, UpInv', NEW r \in requests, Serve(r)
  PROVE  Budgets' /\ PushesDescend
<1> DEFINE m == r.msg
<1>1. m \in Messages /\ chain' = chain
  <2>1. chain' = chain
    BY DEF Serve
  <2>2. requests \subseteq Requests
    BY TypeParts DEF BudgetInv, UpInv, PushTypes
  <2> QED
    BY <2>1, <2>2 DEF Requests
<1>2. PICK ok \in BOOLEAN :
        IF WaitsFor(r) THEN (Answered(r, ok) /\ LosesNothing) \/ BodyLost(r)
                       ELSE push' = push /\ LosesNothing
  BY DEF Serve
<1>3. CASE ~WaitsFor(r)
  BY <1>1, <1>2, <1>3, NoneFollows
<1>4. CASE WaitsFor(r)
  <2>1. push[m].pc = "waits"
    BY <1>4 DEF WaitsFor
  <2>2. (\E l : Returns(m, l)) \/ Fails(m, push[m])
    BY <1>2, <1>4 DEF Answered, BodyLost
  <2> QED
    BY <1>1, <2>1, <2>2, OverBudget, OwnFailureBudget
<1> QED
  BY <1>3, <1>4

LEMMA BudgetNext == BudgetInv /\ HandsInv /\ [UpNext]_upVars => BudgetInv' /\ PushesDescend
<1> SUFFICES ASSUME BudgetInv, HandsInv, [UpNext]_upVars PROVE BudgetInv' /\ PushesDescend
  OBVIOUS
<1>1. UpInv'
  BY StepKeeps DEF BudgetInv
<1>2. ASSUME chain' = chain, push' = push PROVE Budgets' /\ PushesDescend
  BY <1>1, <1>2, NoneFollows
<1>3. ASSUME NEW m \in Messages, PushStep(m) PROVE Budgets' /\ PushesDescend
  BY <1>1, <1>3, PushBudget
<1>4. ASSUME NEW r \in requests, Serve(r) PROVE Budgets' /\ PushesDescend
  BY <1>1, <1>4, ServeBudget
<1>5. Budgets' /\ PushesDescend
  BY <1>2, <1>3, <1>4 DEF UpNext, upVars
<1> QED
  BY <1>1, <1>5 DEF BudgetInv

LEMMA BudgetInit == UpInit => BudgetInv
<1> SUFFICES ASSUME UpInit PROVE BudgetInv
  OBVIOUS
<1>1. UpInv /\ \A m \in Messages : push[m].pc = "idle" /\ push[m].i = 1 /\ push[m].tries = 0
  BY InitHolds DEF UpInit, Idle
<1>2. UpTypeOK /\ LastTry(chain[1]) \in Nat
  BY <1>1, ChainShape, AttemptFacts DEF UpInv
<1> QED
  BY <1>1, <1>2 DEF BudgetInv, Budgets, InBudget

LEMMA BudgetCounts == BudgetInv => StepsAreCounted
<1> SUFFICES ASSUME BudgetInv, NEW m \in Messages PROVE StepsLeft(push[m]) \in Nat
  BY DEF StepsAreCounted
<1>1. push[m] \in Pushes /\ push[m].i \in 1 .. Len(chain) /\ UpTypeOK /\ InBudget(push[m])
  BY PushFacts DEF BudgetInv, Budgets
<1>2. CASE Ended(push[m])
  BY <1>2 DEF StepsLeft
<1>3. CASE ~Ended(push[m])
  <2>1. /\ AttemptsAfter(push[m].i) \in Nat /\ LastTry(chain[push[m].i]) \in Nat
        /\ push[m].tries \in Nat /\ push[m].tries <= LastTry(chain[push[m].i])
        /\ Phase(push[m]) \in 1 .. 4
    BY <1>1, <1>3, AttemptFacts DEF Pushes, InBudget, Phase
  <2> QED
    BY <1>3, <2>1 DEF StepsLeft
<1> QED
  BY <1>2, <1>3

\* A Push ends after a number of steps that is known when it begins, over timeouts,
\* lost connections, addresses it has tried and clients that fail: each of its steps
\* uses up one of those that it has left, of which there are at most three for each
\* attempt of each client, and the first (grpcClient.go:54-71, mqClient.go:59-77,
\* httpClient.go:89-120, devicecli.go:241-252).
THEOREM PushIsBounded == UpSpec => []StepsAreCounted /\ [][PushesDescend]_upVars
<1>1. UpSpec => []BudgetInv
  BY BudgetInit, BudgetNext, HandsHolds, PTL DEF UpSpec
<1>2. BudgetInv /\ HandsInv /\ [UpNext]_upVars => [PushesDescend]_upVars
  BY BudgetNext
<1> QED
  BY <1>1, <1>2, BudgetCounts, HandsHolds, PTL DEF UpSpec
=============================================================================
