------------------------------ MODULE LogBridge ------------------------------
(***************************************************************************)
(* iotlogbridge: messages that services write to a JetStream stream        *)
(* (pkg/log/iotlogbridge) are delivered to the bridges of one queue group, *)
(* buffered in a channel, gathered into batches and pushed to Loki         *)
(* (app/iotlogbridge/cmd/main.go).                                         *)
(*                                                                         *)
(* JetStream and nats.go are external: a message is ready, pending (it was *)
(* delivered and is not answered), or done (acknowledged).  A delivered    *)
(* copy is [msg, auto]: main.go:163-181 does not pass nats.ManualAck, so   *)
(* nats.go acknowledges the copy when the callback returns.  auto says     *)
(* that it did, after which flushLoop's Ack and Nak of the copy do         *)
(* nothing; it is FALSE when flushLoop's answer is the first.              *)
(***************************************************************************)
EXTENDS Integers, Sequences, FiniteSets

CONSTANTS
  Msgs,        \* log entries
  Bad,         \* those whose data is no LogEntry
  Bridges,     \* iotlogbridge processes
  BatchSize,   \* Loki.BatchSize
  MaxFaults    \* bound: crashes, and copies that nats.go does not settle

ASSUME BridgeAssumption ==
  /\ IsFiniteSet(Msgs) /\ Bad \subseteq Msgs
  /\ BatchSize \in Nat \ {0}
  /\ MaxFaults \in Nat

VARIABLES
  st,       \* message -> "new", "lost", "ready", "pending" or "done"
  ch,       \* bridge -> the buffered channel
  buf,      \* bridge -> the batch, or what is left of it to answer
  phase,    \* bridge -> where flushLoop is
  loki,     \* messages Loki has stored
  faults,
  dropped   \* history: messages of refused batches and of crashed bridges

vars == <<st, ch, buf, phase, loki, faults, dropped>>

Copies == [msg : Msgs \ Bad, auto : BOOLEAN]

ChanCap == 2 * BatchSize
MaxAckPending == 2 * BatchSize

Pending == {m \in Msgs : st[m] = "pending"}

CopiesIn(q) == {q[i].msg : i \in 1 .. Len(q)}

\* What bridge b has in memory.
Held(b) == CopiesIn(ch[b]) \cup CopiesIn(buf[b])

TypeOK ==
  /\ st \in [Msgs -> {"new", "lost", "ready", "pending", "done"}]
  /\ ch \in [Bridges -> Seq(Copies)]
  /\ buf \in [Bridges -> Seq(Copies)]
  /\ phase \in [Bridges -> {"select", "push", "ack", "nak"}]
  /\ loki \subseteq Msgs \ Bad
  /\ faults \in 0 .. MaxFaults
  /\ dropped \subseteq Msgs \ Bad

Init ==
  /\ st = [m \in Msgs |-> "new"]
  /\ ch = [b \in Bridges |-> <<>>]
  /\ buf = [b \in Bridges |-> <<>>]
  /\ phase = [b \in Bridges |-> "select"]
  /\ loki = {}
  /\ faults = 0
  /\ dropped = {}

-----------------------------------------------------------------------------
(* The writer, and JetStream.                                              *)

\* PublishAsync: the stream has the message, or the writer is closed or the
\* publication fails and nobody waits for its outcome.
Publish(m) ==
  /\ st[m] = "new"
  /\ \E r \in {"ready", "lost"} : st' = [st EXCEPT ![m] = r]
  /\ UNCHANGED <<ch, buf, phase, loki, faults, dropped>>

CanDeliver(m) == st[m] = "ready" /\ Cardinality(Pending) < MaxAckPending

\* An answer reaches JetStream, or is lost and the message stays pending.
Answered(m, r) == \E a \in {r, "pending"} : st' = [st EXCEPT ![m] = a]

\* The callback cannot read the entry and acknowledges it.
DeliverBad(m) ==
  /\ CanDeliver(m) /\ m \in Bad
  /\ Answered(m, "done")
  /\ UNCHANGED <<ch, buf, phase, loki, faults, dropped>>

\* A copy joins the channel.  nats.go acknowledges it and that settles the
\* message, or its answer is lost, or flushLoop's answer will be the first.
PutAndAck(m, b) ==
  \E auto \in BOOLEAN :
    /\ ch' = [ch EXCEPT ![b] = Append(@, [msg |-> m, auto |-> auto])]
    /\ \/ auto /\ st' = [st EXCEPT ![m] = "done"] /\ UNCHANGED faults
       \/ /\ faults < MaxFaults
          /\ faults' = faults + 1
          /\ st' = [st EXCEPT ![m] = "pending"]

\* Mutant: data that is no LogEntry goes on as an empty entry.
MutantDeliver(m, b) ==
  /\ CanDeliver(m) /\ Len(ch[b]) < ChanCap
  /\ PutAndAck(m, b)
  /\ UNCHANGED <<buf, phase, loki, dropped>>

\* The callback puts the copy into the channel.
Deliver(m, b) ==
  /\ CanDeliver(m) /\ m \notin Bad /\ Len(ch[b]) < ChanCap
  /\ PutAndAck(m, b)
  /\ UNCHANGED <<buf, phase, loki, dropped>>

\* Mutant: a full channel drops the message with an Ack.
MutantDeliverFull(m, b) ==
  /\ CanDeliver(m) /\ m \notin Bad /\ Len(ch[b]) >= ChanCap
  /\ Answered(m, "done")
  /\ UNCHANGED <<ch, buf, phase, loki, faults, dropped>>

\* The channel is full: NakWithDelay.
DeliverFull(m, b) ==
  /\ CanDeliver(m) /\ m \notin Bad /\ Len(ch[b]) >= ChanCap
  /\ Answered(m, "ready")
  /\ UNCHANGED <<ch, buf, phase, loki, faults, dropped>>

\* AckWait is over: JetStream will deliver the message again.
AckWaitOver(m) ==
  /\ st[m] = "pending"
  /\ st' = [st EXCEPT ![m] = "ready"]
  /\ UNCHANGED <<ch, buf, phase, loki, faults, dropped>>

-----------------------------------------------------------------------------
(* flushLoop.                                                              *)

\* Mutant: the size of the batch is not looked at.
MutantTake(b) ==
  /\ phase[b] = "select" /\ ch[b] # <<>>
  /\ buf' = [buf EXCEPT ![b] = Append(@, Head(ch[b]))]
  /\ ch' = [ch EXCEPT ![b] = Tail(@)]
  /\ UNCHANGED <<st, phase, loki, faults, dropped>>

\* A copy joins the batch; a full batch is flushed.
Take(b) ==
  /\ phase[b] = "select" /\ ch[b] # <<>>
  /\ buf' = [buf EXCEPT ![b] = Append(@, Head(ch[b]))]
  /\ ch' = [ch EXCEPT ![b] = Tail(@)]
  /\ phase' = [phase EXCEPT ![b] = IF Len(buf[b]) + 1 >= BatchSize THEN "push" ELSE @]
  /\ UNCHANGED <<st, loki, faults, dropped>>

\* The ticker flushes what there is.
Tick(b) ==
  /\ phase[b] = "select" /\ buf[b] # <<>>
  /\ phase' = [phase EXCEPT ![b] = "push"]
  /\ UNCHANGED <<st, ch, buf, loki, faults, dropped>>

\* Loki accepts the batch.
PushOk(b) ==
  /\ phase[b] = "push"
  /\ loki' = loki \cup CopiesIn(buf[b])
  /\ phase' = [phase EXCEPT ![b] = "ack"]
  /\ UNCHANGED <<st, ch, buf, faults, dropped>>

\* Mutant: a status of 400 and more is taken for success.
MutantPushFails(b) ==
  /\ phase[b] = "push"
  /\ loki' \in {loki, loki \cup CopiesIn(buf[b])}
  /\ phase' = [phase EXCEPT ![b] = "ack"]
  /\ UNCHANGED <<st, ch, buf, faults, dropped>>

\* The push returns an error, although Loki may have stored the batch.
PushFails(b) ==
  /\ phase[b] = "push"
  /\ loki' \in {loki, loki \cup CopiesIn(buf[b])}
  /\ phase' = [phase EXCEPT ![b] = "nak"]
  /\ dropped' = dropped \cup CopiesIn(buf[b])
  /\ UNCHANGED <<st, ch, buf, faults>>

\* What an answer does to the message of a copy: a settled message stays so,
\* and a Nak of a message that is not pending is void.
Answer(c, r) ==
  IF c.auto \/ st[c.msg] = "done" \/ (r = "ready" /\ st[c.msg] # "pending")
    THEN UNCHANGED st
    ELSE st' = [st EXCEPT ![c.msg] = r]

\* One copy of the batch is answered, or its answer is lost; the last one
\* empties the batch.
AnswerNext(b) ==
  /\ phase[b] \in {"ack", "nak"} /\ buf[b] # <<>>
  /\ \/ Answer(Head(buf[b]), IF phase[b] = "ack" THEN "done" ELSE "ready")
     \/ UNCHANGED st
  /\ buf' = [buf EXCEPT ![b] = Tail(@)]
  /\ phase' = [phase EXCEPT ![b] = IF Len(buf[b]) = 1 THEN "select" ELSE @]
  /\ UNCHANGED <<ch, loki, faults, dropped>>

\* The bridge goes down and is started again: the channel and the batch are
\* lost, the durable consumer is JetStream's.
Crash(b) ==
  /\ faults < MaxFaults
  /\ faults' = faults + 1
  /\ dropped' = dropped \cup Held(b)
  /\ ch' = [ch EXCEPT ![b] = <<>>]
  /\ buf' = [buf EXCEPT ![b] = <<>>]
  /\ phase' = [phase EXCEPT ![b] = "select"]
  /\ UNCHANGED <<st, loki>>

-----------------------------------------------------------------------------

FlushLoop(b) == Take(b) \/ Tick(b) \/ PushOk(b) \/ PushFails(b) \/ AnswerNext(b)

Next ==
  \/ \E m \in Msgs : Publish(m) \/ DeliverBad(m) \/ AckWaitOver(m)
  \/ \E m \in Msgs, b \in Bridges : Deliver(m, b) \/ DeliverFull(m, b)
  \/ \E b \in Bridges : FlushLoop(b) \/ Crash(b)

Spec == Init /\ [][Next]_vars

\* m is delivered, and the acknowledgement of nats.go arrives.
Settles(m) == (\E b \in Bridges : Deliver(m, b)) /\ st'[m] = "done"

\* AckWait passes, flushLoop runs on, JetStream delivers again what it may
\* deliver often enough, and not every acknowledgement of a message is lost.
\* Nothing is said of Loki: it may refuse every push.
Fairness ==
  /\ \A m \in Msgs : WF_vars(AckWaitOver(m)) /\ SF_vars(Settles(m))
  /\ \A b \in Bridges : WF_vars(FlushLoop(b)) /\ WF_vars(Tick(b))

FairSpec == Spec /\ Fairness
-----------------------------------------------------------------------------

\* main.go:2 and 172 (JetStream keeps what the bridge has not stored, a full
\* channel loses nothing): a message is acknowledged only when Loki has it or
\* it could not be read, whatever crashes, refused pushes and lost answers.
AckedIsStored == \A m \in Msgs : st[m] = "done" => m \in loki \/ m \in Bad

\* main.go:162-181, as the code is: a message acknowledged early is on its way
\* to Loki in the memory of a bridge, unless a refused push or a crash dropped it.
AckedIsHeld ==
  \A m \in Msgs \ Bad :
    st[m] = "done" => m \in loki \/ m \in dropped \/ \E b \in Bridges : m \in Held(b)

\* flushLoop answers a batch as a whole: while it acknowledges, Loki has every
\* message of the batch that is left.
AckingIsStored == \A b \in Bridges : phase[b] = "ack" => CopiesIn(buf[b]) \subseteq loki

\* The channel, the batch and the unanswered messages stay within the sizes
\* main.go computes from BatchSize (148, 179, 198-241), also when AckWait puts
\* the same message into the pipeline again and again.
Bounded ==
  /\ \A b \in Bridges :
       /\ Len(ch[b]) <= ChanCap
       /\ Len(buf[b]) <= BatchSize
       /\ phase[b] = "push" => buf[b] # <<>>
  /\ Cardinality(Pending) <= MaxAckPending

\* What the bridge does is log delivery.
Promise == INSTANCE LogDelivery WITH
  published <- {m \in Msgs : st[m] \in {"ready", "pending", "done"}},
  taken <- UNION {Held(b) : b \in Bridges},
  stored <- loki,
  gone <- dropped,
  settled <- {m \in Msgs : st[m] = "done"}

\* main.go:162-181 and 212-229: a message leaves a bridge's memory only after
\* its push, is acknowledged by flushLoop only when it is stored, and in the end
\* every message is stored, unless it was acknowledged early and a failed push or
\* a crash took it.
PromiseKept == Promise!FairSpec
=============================================================================
