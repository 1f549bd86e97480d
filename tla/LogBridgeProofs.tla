--------------------------- MODULE LogBridgeProofs ---------------------------
(***************************************************************************)
(* Theorems of LogBridge.  The invariant BridgeInv says what flushLoop     *)
(* relies on while it answers a batch; from it follow where a message is   *)
(* that JetStream has settled, and that the bridge implements the safety   *)
(* part of LogDelivery.                              *)
(***************************************************************************)
EXTENDS LogBridge, FiniteSetTheorems, SequenceTheorems, TLAPS

\* What is left of a refused batch has been counted as dropped.
NakingIsDropped ==
  \A b \in Bridges : phase[b] = "nak" => CopiesIn(buf[b]) \subseteq dropped

BridgeInv == TypeOK /\ AckingIsStored /\ NakingIsDropped /\ AckedIsHeld

-----------------------------------------------------------------------------
(* Sequences of copies.                                                    *)

\* Appending a copy adds its message.
LEMMA CopiesOfAppend ==
  ASSUME NEW q \in Seq(Copies), NEW c \in Copies
  PROVE  /\ Append(q, c) \in Seq(Copies) /\ Append(q, c) # <<>>
         /\ Len(Append(q, c)) = Len(q) + 1
         /\ CopiesIn(Append(q, c)) = CopiesIn(q) \cup {c.msg}
<1>0. Append(q, c) # <<>>
  BY AppendProperties
<1>1. /\ Append(q, c) \in Seq(Copies) /\ Len(q) \in Nat
      /\ Len(Append(q, c)) = Len(q) + 1
      /\ Append(q, c)[Len(q) + 1] = c
      /\ \A i \in 1 .. Len(q) : Append(q, c)[i] = q[i]
  OBVIOUS
<1>2. \A i \in 1 .. Len(q) + 1 : i \in 1 .. Len(q) \/ i = Len(q) + 1
  BY <1>1
<1>3. \A i \in 1 .. Len(q) : i \in 1 .. Len(q) + 1
  BY <1>1
<1>4. Len(q) + 1 \in 1 .. Len(q) + 1
  BY <1>1
<1> QED  BY <1>0, <1>1, <1>2, <1>3, <1>4 DEF CopiesIn

\* Taking the first copy off a sequence removes no message but its own.
LEMMA CopiesOfTail ==
  ASSUME NEW q \in Seq(Copies), q # <<>>
  PROVE  /\ Head(q) \in Copies /\ Tail(q) \in Seq(Copies)
         /\ CopiesIn(q) = CopiesIn(Tail(q)) \cup {Head(q).msg}
<1>1. /\ Head(q) \in Copies /\ Tail(q) \in Seq(Copies) /\ Len(q) \in Nat \ {0}
      /\ Head(q) = q[1] /\ Len(Tail(q)) = Len(q) - 1
      /\ \A i \in 1 .. Len(q) - 1 : Tail(q)[i] = q[i + 1]
  OBVIOUS
<1>2. \A i \in 1 .. Len(q) : i = 1 \/ (i - 1 \in 1 .. Len(q) - 1 /\ (i - 1) + 1 = i)
  BY <1>1
<1>3. \A i \in 1 .. Len(q) - 1 : i + 1 \in 1 .. Len(q)
  BY <1>1
<1>4. 1 \in 1 .. Len(q)
  BY <1>1
<1>5. CopiesIn(q) \subseteq CopiesIn(Tail(q)) \cup {Head(q).msg}
  <2> SUFFICES ASSUME NEW i \in 1 .. Len(q)
               PROVE  q[i].msg \in CopiesIn(Tail(q)) \cup {Head(q).msg}
    BY DEF CopiesIn
  <2>1. CASE i = 1
    BY <2>1, <1>1
  <2>2. CASE i # 1
    <3>1. i - 1 \in 1 .. Len(Tail(q)) /\ Tail(q)[i - 1] = q[i]
      BY <2>2, <1>1, <1>2
    <3> QED  BY <3>1 DEF CopiesIn
  <2> QED  BY <2>1, <2>2
<1>6. CopiesIn(Tail(q)) \cup {Head(q).msg} \subseteq CopiesIn(q)
  BY <1>1, <1>3, <1>4 DEF CopiesIn
<1> QED  BY <1>1, <1>5, <1>6

\* The messages of a sequence of copies are readable ones.
LEMMA CopiesAreReadable ==
  ASSUME NEW q \in Seq(Copies)
  PROVE  CopiesIn(q) \subseteq Msgs \ Bad
<1>1. \A i \in 1 .. Len(q) : q[i] \in Copies
  OBVIOUS
<1> QED  BY <1>1 DEF CopiesIn, Copies

-----------------------------------------------------------------------------
(* Types.                                                                  *)

LEMMA InitTypeOK == Init => TypeOK
<1> SUFFICES ASSUME Init PROVE TypeOK
  OBVIOUS
<1>1. <<>> \in Seq(Copies)
  OBVIOUS
<1> QED  BY <1>1, BridgeAssumption DEF Init, TypeOK

LEMMA NextTypeOK == TypeOK /\ [Next]_vars => TypeOK'
<1> SUFFICES ASSUME TypeOK, [Next]_vars PROVE TypeOK'
  OBVIOUS
<1> USE BridgeAssumption DEF TypeOK
<1>1. ASSUME NEW m \in Msgs, Publish(m) \/ DeliverBad(m) \/ AckWaitOver(m) PROVE TypeOK'
  BY <1>1 DEF Publish, DeliverBad, AckWaitOver, Answered
<1>2. ASSUME NEW m \in Msgs, NEW b \in Bridges, Deliver(m, b) PROVE TypeOK'
  <2>1. PICK auto \in BOOLEAN :
          /\ ch' = [ch EXCEPT ![b] = Append(@, [msg |-> m, auto |-> auto])]
          /\ \/ st' = [st EXCEPT ![m] = "done"] /\ faults' = faults
             \/ st' = [st EXCEPT ![m] = "pending"] /\ faults < MaxFaults /\ faults' = faults + 1
    BY <1>2 DEF Deliver, PutAndAck
  <2>2. [msg |-> m, auto |-> auto] \in Copies
    BY <1>2 DEF Deliver, Copies
  <2>3. Append(ch[b], [msg |-> m, auto |-> auto]) \in Seq(Copies)
    BY <2>2, CopiesOfAppend
  <2>4. ch' \in [Bridges -> Seq(Copies)] /\ st' \in [Msgs -> {"new", "lost", "ready", "pending", "done"}]
    BY <2>1, <2>3
  <2>5. faults' \in 0 .. MaxFaults
    BY <2>1
  <2> QED  BY <2>4, <2>5, <1>2 DEF Deliver
<1>3. ASSUME NEW m \in Msgs, NEW b \in Bridges, DeliverFull(m, b) PROVE TypeOK'
  BY <1>3 DEF DeliverFull, Answered
<1>4. ASSUME NEW b \in Bridges, Take(b) PROVE TypeOK'
  <2>1. Head(ch[b]) \in Copies /\ Tail(ch[b]) \in Seq(Copies)
    BY <1>4, CopiesOfTail DEF Take
  <2>2. Append(buf[b], Head(ch[b])) \in Seq(Copies)
    BY <2>1, CopiesOfAppend
  <2> QED  BY <1>4, <2>1, <2>2 DEF Take
<1>5. ASSUME NEW b \in Bridges, Tick(b) PROVE TypeOK'
  BY <1>5 DEF Tick
<1>6. ASSUME NEW b \in Bridges, PushOk(b) \/ PushFails(b) PROVE TypeOK'
  <2>1. CopiesIn(buf[b]) \subseteq Msgs \ Bad
    BY CopiesAreReadable
  <2> QED  BY <1>6, <2>1 DEF PushOk, PushFails
<1>7. ASSUME NEW b \in Bridges, AnswerNext(b) PROVE TypeOK'
  <2>1. Head(buf[b]) \in Copies /\ Tail(buf[b]) \in Seq(Copies)
    BY <1>7, CopiesOfTail DEF AnswerNext
  <2>2. st' \in [Msgs -> {"new", "lost", "ready", "pending", "done"}]
    BY <1>7, <2>1 DEF AnswerNext, Answer
  <2>3. buf' \in [Bridges -> Seq(Copies)] /\ phase' \in [Bridges -> {"select", "push", "ack", "nak"}]
    BY <1>7, <2>1 DEF AnswerNext
  <2> QED  BY <1>7, <2>2, <2>3 DEF AnswerNext
<1>8. ASSUME NEW b \in Bridges, Crash(b) PROVE TypeOK'
  <2>1. <<>> \in Seq(Copies)
    OBVIOUS
  <2>2. Held(b) \subseteq Msgs \ Bad
    BY CopiesAreReadable DEF Held
  <2> QED  BY <1>8, <2>1, <2>2 DEF Crash
<1>9. CASE UNCHANGED vars
  BY <1>9 DEF vars
<1> QED  BY <1>1, <1>2, <1>3, <1>4, <1>5, <1>6, <1>7, <1>8, <1>9 DEF Next, FlushLoop

-----------------------------------------------------------------------------
(* The batch that is being answered, and what its copies stand for.        *)

LEMMA NextAnswering ==
  TypeOK /\ AckingIsStored /\ NakingIsDropped /\ [Next]_vars
    => AckingIsStored' /\ NakingIsDropped'
<1> SUFFICES ASSUME TypeOK, AckingIsStored, NakingIsDropped, [Next]_vars,
                    NEW b \in Bridges
             PROVE  /\ (phase[b] = "ack" => CopiesIn(buf[b]) \subseteq loki)'
                    /\ (phase[b] = "nak" => CopiesIn(buf[b]) \subseteq dropped)'
  BY DEF AckingIsStored, NakingIsDropped
<1> USE DEF TypeOK
<1>0. /\ phase[b] = "ack" => CopiesIn(buf[b]) \subseteq loki
      /\ phase[b] = "nak" => CopiesIn(buf[b]) \subseteq dropped
  BY DEF AckingIsStored, NakingIsDropped
<1> DEFINE Kept == /\ phase'[b] = "ack" => CopiesIn(buf'[b]) \subseteq loki'
                   /\ phase'[b] = "nak" => CopiesIn(buf'[b]) \subseteq dropped'
<1>2. ASSUME NEW m \in Msgs, NEW c \in Bridges,
             Publish(m) \/ DeliverBad(m) \/ AckWaitOver(m) \/ Deliver(m, c) \/ DeliverFull(m, c)
      PROVE  Kept
  BY <1>0, <1>2 DEF Publish, DeliverBad, AckWaitOver, Deliver, DeliverFull
<1>3. ASSUME NEW c \in Bridges, Take(c) PROVE Kept
  BY <1>0, <1>3 DEF Take
<1>4. ASSUME NEW c \in Bridges, Tick(c) PROVE Kept
  BY <1>0, <1>4 DEF Tick
<1>5. ASSUME NEW c \in Bridges, PushOk(c) PROVE Kept
  BY <1>0, <1>5 DEF PushOk
<1>6. ASSUME NEW c \in Bridges, PushFails(c) PROVE Kept
  BY <1>0, <1>6 DEF PushFails
<1>7. ASSUME NEW c \in Bridges, AnswerNext(c) PROVE Kept
  <2>1. CopiesIn(buf[c]) = CopiesIn(Tail(buf[c])) \cup {Head(buf[c]).msg}
    BY <1>7, CopiesOfTail DEF AnswerNext
  <2> QED  BY <1>0, <1>7, <2>1 DEF AnswerNext
<1>8. ASSUME NEW c \in Bridges, Crash(c) PROVE Kept
  BY <1>0, <1>8 DEF Crash
<1>9. CASE UNCHANGED vars
  BY <1>0, <1>9 DEF vars
<1>10. Kept
  BY <1>2, <1>3, <1>4, <1>5, <1>6, <1>7, <1>8, <1>9 DEF Next, FlushLoop
<1> QED  BY <1>10 DEF CopiesIn

\* Where a message is looked for: at Loki, with the dropped ones, in memory.
Kept(m) == m \in loki \/ m \in dropped \/ \E b \in Bridges : m \in Held(b)

\* No step loses sight of a message but Deliver finds new ones: whatever a
\* bridge had in memory is there, at Loki, or dropped.
LEMMA NextKeeps ==
  ASSUME TypeOK, AckingIsStored, NakingIsDropped, [Next]_vars,
         NEW m \in Msgs, Kept(m)
  PROVE  Kept(m)'
<1> USE DEF TypeOK
<1>1. /\ \A b \in Bridges : phase[b] = "ack" => CopiesIn(buf[b]) \subseteq loki
      /\ \A b \in Bridges : phase[b] = "nak" => CopiesIn(buf[b]) \subseteq dropped
  BY DEF AckingIsStored, NakingIsDropped
<1>2. loki \subseteq loki' /\ dropped \subseteq dropped'
  BY DEF Next, FlushLoop, Publish, DeliverBad, AckWaitOver, Deliver, PutAndAck, DeliverFull, Take, Tick,
         PushOk, PushFails, AnswerNext, Crash, vars
<1>3. CASE m \in loki \/ m \in dropped
  BY <1>2, <1>3 DEF Kept
<1>4. CASE \E b \in Bridges : m \in Held(b)
  <2>1. PICK b \in Bridges : m \in CopiesIn(ch[b]) \cup CopiesIn(buf[b])
    BY <1>4 DEF Held
  <2> DEFINE Found == m \in loki' \/ m \in dropped' \/ m \in CopiesIn(ch'[b]) \cup CopiesIn(buf'[b])
  <2>2. ASSUME NEW n \in Msgs, NEW c \in Bridges,
               Publish(n) \/ DeliverBad(n) \/ AckWaitOver(n) \/ DeliverFull(n, c)
        PROVE  Found
    BY <2>1, <2>2 DEF Publish, DeliverBad, AckWaitOver, DeliverFull
  <2>3. ASSUME NEW n \in Msgs, NEW c \in Bridges, Deliver(n, c) PROVE Found
    <3>1. PICK auto \in BOOLEAN :
            ch' = [ch EXCEPT ![c] = Append(@, [msg |-> n, auto |-> auto])]
      BY <2>3 DEF Deliver, PutAndAck
    <3>2. [msg |-> n, auto |-> auto] \in Copies
      BY <2>3, BridgeAssumption DEF Deliver, Copies
    <3>3. CopiesIn(ch[c]) \subseteq CopiesIn(Append(ch[c], [msg |-> n, auto |-> auto]))
      BY <3>2, CopiesOfAppend
    <3>4. CopiesIn(ch[b]) \subseteq CopiesIn(ch'[b])
      BY <3>1, <3>3
    <3> QED  BY <2>1, <2>3, <3>4 DEF Deliver
  <2>4. ASSUME NEW c \in Bridges, Take(c) PROVE Found
    <3>1. CASE b # c
      BY <2>1, <2>4, <3>1 DEF Take
    <3>2. CASE b = c
      <4>1. /\ Head(ch[b]) \in Copies
            /\ CopiesIn(ch[b]) = CopiesIn(Tail(ch[b])) \cup {Head(ch[b]).msg}
        BY <2>4, <3>2, CopiesOfTail DEF Take
      <4>2. CopiesIn(Append(buf[b], Head(ch[b]))) = CopiesIn(buf[b]) \cup {Head(ch[b]).msg}
        BY <4>1, CopiesOfAppend
      <4> QED  BY <2>1, <2>4, <3>2, <4>1, <4>2 DEF Take
    <3> QED  BY <3>1, <3>2
  <2>5. ASSUME NEW c \in Bridges, Tick(c) \/ PushOk(c) \/ PushFails(c) PROVE Found
    BY <2>1, <2>5 DEF Tick, PushOk, PushFails
  <2>6. ASSUME NEW c \in Bridges, AnswerNext(c) PROVE Found
    <3>1. CASE b = c
      BY <1>1, <1>2, <2>1, <2>6, <3>1 DEF AnswerNext
    <3>2. CASE b # c
      BY <2>1, <2>6, <3>2 DEF AnswerNext
    <3> QED  BY <3>1, <3>2
  <2>7. ASSUME NEW c \in Bridges, Crash(c) PROVE Found
    BY <2>1, <2>7 DEF Crash, Held
  <2>8. ASSUME UNCHANGED vars PROVE Found
    BY <2>1, <2>8 DEF vars
  <2>9. Found
    BY <2>2, <2>3, <2>4, <2>5, <2>6, <2>7, <2>8 DEF Next, FlushLoop
  <2> QED  BY <2>9 DEF Kept, Held, CopiesIn
<1> QED  BY <1>3, <1>4 DEF Kept

\* A message becomes "done" when it is unreadable, put into a channel, or
\* acknowledged out of a batch that Loki has.
LEMMA WhoSettles ==
  ASSUME TypeOK, AckingIsStored, [Next]_vars,
         NEW m \in Msgs \ Bad, st[m] # "done", st'[m] = "done"
  PROVE  m \in loki' \/ \E b \in Bridges : m \in CopiesIn(ch[b])'
<1> USE DEF TypeOK
<1>1. ASSUME NEW n \in Msgs, Publish(n) \/ DeliverBad(n) \/ AckWaitOver(n) PROVE FALSE
  BY <1>1 DEF Publish, DeliverBad, AckWaitOver, Answered
<1>2. ASSUME NEW n \in Msgs, NEW b \in Bridges, Deliver(n, b)
      PROVE  m \in CopiesIn(ch[b])'
  <2>1. PICK auto \in BOOLEAN :
          /\ ch' = [ch EXCEPT ![b] = Append(@, [msg |-> n, auto |-> auto])]
          /\ \E r \in {"done", "pending"} : st' = [st EXCEPT ![n] = r]
    BY <1>2 DEF Deliver, PutAndAck
  <2>2. n = m
    BY <2>1
  <2>3. [msg |-> n, auto |-> auto] \in Copies
    BY <2>2 DEF Copies
  <2>4. m \in CopiesIn(Append(ch[b], [msg |-> n, auto |-> auto]))
    BY <2>2, <2>3, CopiesOfAppend
  <2>5. ch'[b] = Append(ch[b], [msg |-> n, auto |-> auto])
    BY <2>1
  <2>6. m \in CopiesIn(ch'[b])
    BY <2>4, <2>5
  <2> QED  BY <2>2, <2>6 DEF CopiesIn
<1>3. ASSUME NEW n \in Msgs, NEW b \in Bridges, DeliverFull(n, b) PROVE FALSE
  BY <1>3 DEF DeliverFull, Answered
<1>4. ASSUME NEW b \in Bridges, AnswerNext(b) PROVE m \in loki'
  <2>1. /\ Head(buf[b]) \in Copies
        /\ CopiesIn(buf[b]) = CopiesIn(Tail(buf[b])) \cup {Head(buf[b]).msg}
    BY <1>4, CopiesOfTail DEF AnswerNext
  <2>2. Head(buf[b]).msg = m /\ phase[b] = "ack"
    BY <1>4 DEF AnswerNext, Answer
  <2> QED  BY <1>4, <2>1, <2>2 DEF AckingIsStored, AnswerNext
<1>5. ASSUME NEW b \in Bridges, Take(b) \/ Tick(b) \/ PushOk(b) \/ PushFails(b) \/ Crash(b)
      PROVE  FALSE
  BY <1>5 DEF Take, Tick, PushOk, PushFails, Crash
<1>6. CASE UNCHANGED vars
  BY <1>6 DEF vars
<1> QED  BY <1>1, <1>2, <1>3, <1>4, <1>5, <1>6 DEF Next, FlushLoop

LEMMA NextAckedIsHeld == BridgeInv /\ [Next]_vars => AckedIsHeld'
<1> SUFFICES ASSUME BridgeInv, [Next]_vars, NEW m \in Msgs \ Bad, st'[m] = "done"
             PROVE  Kept(m)'
  BY DEF AckedIsHeld, Kept
<1>1. TypeOK /\ AckingIsStored /\ NakingIsDropped /\ AckedIsHeld
  BY DEF BridgeInv
<1>2. CASE st[m] = "done"
  <2>1. Kept(m)
    BY <1>1, <1>2 DEF AckedIsHeld, Kept
  <2> QED  BY <1>1, <2>1, NextKeeps
<1>3. CASE st[m] # "done"
  BY <1>1, <1>3, WhoSettles DEF Kept, Held
<1> QED  BY <1>2, <1>3

-----------------------------------------------------------------------------
(* The theorems.                                                           *)

LEMMA InvHolds == Spec => []BridgeInv
<1>1. Init => BridgeInv
  BY InitTypeOK DEF Init, BridgeInv, AckingIsStored, NakingIsDropped, AckedIsHeld
<1>2. BridgeInv /\ [Next]_vars => BridgeInv'
  BY NextTypeOK, NextAnswering, NextAckedIsHeld DEF BridgeInv
<1> QED  BY <1>1, <1>2, PTL DEF Spec

\* The variables of LogBridge keep their types.
THEOREM TypeCorrect == Spec => []TypeOK
<1>1. BridgeInv => TypeOK
  BY DEF BridgeInv
<1> QED  BY <1>1, InvHolds, PTL

\* main.go:212-229: while a batch is acknowledged, Loki has what is left of it.
THEOREM AcksFollowStores == Spec => []AckingIsStored
<1>1. BridgeInv => AckingIsStored
  BY DEF BridgeInv
<1> QED  BY <1>1, InvHolds, PTL

\* main.go:162-181, as the code is: what JetStream has settled is at Loki, in
\* the memory of a bridge, or was in a refused batch or a crashed bridge.
THEOREM SettledIsHeld == Spec => []AckedIsHeld
<1>1. BridgeInv => AckedIsHeld
  BY DEF BridgeInv
<1> QED  BY <1>1, InvHolds, PTL

-----------------------------------------------------------------------------
(* The sizes.                                                              *)

\* Select leaves room for one more copy.
SelectHasRoom == \A b \in Bridges : phase[b] = "select" => Len(buf[b]) < BatchSize

\* A delivery is the one step that makes a message pending, and it looks first.
LEMMA NextPending ==
  ASSUME TypeOK, [Next]_vars, Cardinality(Pending) <= MaxAckPending
  PROVE  Cardinality(Pending') <= MaxAckPending
<1> USE DEF TypeOK
<1>1. IsFiniteSet(Pending) /\ Pending \subseteq Msgs
  BY BridgeAssumption, FS_Subset DEF Pending
<1>2. MaxAckPending \in Nat /\ Cardinality(Pending) \in Nat
  BY <1>1, BridgeAssumption, FS_CardinalityType DEF MaxAckPending
<1>3. CASE Pending' \subseteq Pending
  BY <1>1, <1>2, <1>3, FS_Subset, FS_CardinalityType
<1>4. ASSUME NEW m \in Msgs, CanDeliver(m), Pending' \subseteq Pending \cup {m}
      PROVE  Cardinality(Pending') <= MaxAckPending
  <2>1. Cardinality(Pending) < MaxAckPending
    BY <1>4 DEF CanDeliver
  <2>2. m \notin Pending
    BY <1>4 DEF CanDeliver, Pending
  <2>3. /\ IsFiniteSet(Pending \cup {m})
        /\ Cardinality(Pending \cup {m}) = Cardinality(Pending) + 1
    BY <1>1, <2>2, FS_AddElement
  <2>4. Cardinality(Pending') \in Nat /\ Cardinality(Pending') <= Cardinality(Pending \cup {m})
    BY <1>4, <2>3, FS_Subset, FS_CardinalityType
  <2> QED  BY <1>2, <2>1, <2>3, <2>4
<1>5. Pending' \subseteq Pending \/ \E m \in Msgs : CanDeliver(m) /\ Pending' \subseteq Pending \cup {m}
  <2>1. ASSUME NEW m \in Msgs, Publish(m) \/ AckWaitOver(m)
        PROVE  Pending' \subseteq Pending
    BY <2>1 DEF Publish, AckWaitOver, Pending
  <2>2. ASSUME NEW m \in Msgs, NEW b \in Bridges, DeliverBad(m) \/ Deliver(m, b) \/ DeliverFull(m, b)
        PROVE  CanDeliver(m) /\ Pending' \subseteq Pending \cup {m}
    BY <2>2 DEF DeliverBad, Deliver, PutAndAck, DeliverFull, Answered, Pending
  <2>3. ASSUME NEW m \in Msgs, DeliverBad(m)
        PROVE  CanDeliver(m) /\ Pending' \subseteq Pending \cup {m}
    BY <2>3 DEF DeliverBad, Answered, Pending
  <2>4. ASSUME NEW b \in Bridges, AnswerNext(b) PROVE Pending' \subseteq Pending
    BY <2>4 DEF AnswerNext, Answer, Pending
  <2>5. ASSUME NEW b \in Bridges, Take(b) \/ Tick(b) \/ PushOk(b) \/ PushFails(b) \/ Crash(b)
        PROVE  Pending' \subseteq Pending
    BY <2>5 DEF Take, Tick, PushOk, PushFails, Crash, Pending
  <2>6. ASSUME UNCHANGED vars PROVE Pending' \subseteq Pending
    BY <2>6 DEF vars, Pending
  <2> QED  BY <2>1, <2>2, <2>3, <2>4, <2>5, <2>6 DEF Next, FlushLoop
<1> QED  BY <1>3, <1>4, <1>5

LEMMA NextBounded ==
  ASSUME TypeOK, Bounded, SelectHasRoom, [Next]_vars
  PROVE  Bounded' /\ SelectHasRoom'
<1>1. Cardinality(Pending') <= MaxAckPending
  BY NextPending DEF Bounded
<1> USE DEF TypeOK
<1> DEFINE Fits(b) == /\ Len(ch'[b]) <= ChanCap
                      /\ Len(buf'[b]) <= BatchSize
                      /\ phase'[b] = "push" => buf'[b] # <<>>
                      /\ phase'[b] = "select" => Len(buf'[b]) < BatchSize
<1>2. ASSUME NEW b \in Bridges PROVE Fits(b)
  <2>1. /\ Len(ch[b]) \in Nat /\ Len(buf[b]) \in Nat
        /\ Len(ch[b]) <= ChanCap /\ Len(buf[b]) <= BatchSize
        /\ phase[b] = "push" => buf[b] # <<>>
        /\ phase[b] = "select" => Len(buf[b]) < BatchSize
    BY DEF Bounded, SelectHasRoom
  <2>2. BatchSize \in Nat \ {0} /\ ChanCap \in Nat
    BY BridgeAssumption DEF ChanCap
  <2>3. ASSUME NEW m \in Msgs, NEW c \in Bridges,
               Publish(m) \/ DeliverBad(m) \/ AckWaitOver(m) \/ DeliverFull(m, c)
        PROVE  Fits(b)
    BY <2>1, <2>3 DEF Publish, DeliverBad, AckWaitOver, DeliverFull
  <2>4. ASSUME NEW m \in Msgs, NEW c \in Bridges, Deliver(m, c) PROVE Fits(b)
    <3>1. PICK auto \in BOOLEAN :
            ch' = [ch EXCEPT ![c] = Append(@, [msg |-> m, auto |-> auto])]
      BY <2>4 DEF Deliver, PutAndAck
    <3>2. Len(Append(ch[b], [msg |-> m, auto |-> auto])) = Len(ch[b]) + 1
      OBVIOUS
    <3> QED  BY <2>1, <2>2, <2>4, <3>1, <3>2 DEF Deliver
  <2>5. ASSUME NEW c \in Bridges, Take(c) PROVE Fits(b)
    <3>1. CASE b # c
      BY <2>1, <2>5, <3>1 DEF Take
    <3>2. CASE b = c
      <4>1. /\ Head(ch[b]) \in Copies
            /\ Tail(ch[b]) \in Seq(Copies)
            /\ Len(Tail(ch[b])) = Len(ch[b]) - 1
        BY <2>5, <3>2, CopiesOfTail DEF Take
      <4>2. /\ Len(Append(buf[b], Head(ch[b]))) = Len(buf[b]) + 1
            /\ Append(buf[b], Head(ch[b])) # <<>>
        BY <4>1, CopiesOfAppend
      <4>3. /\ ch'[b] = Tail(ch[b])
            /\ buf'[b] = Append(buf[b], Head(ch[b]))
            /\ phase'[b] = IF Len(buf[b]) + 1 >= BatchSize THEN "push" ELSE phase[b]
            /\ phase[b] = "select"
        BY <2>5, <3>2 DEF Take
      <4> QED  BY <2>1, <2>2, <4>1, <4>2, <4>3
    <3> QED  BY <3>1, <3>2
  <2>6. ASSUME NEW c \in Bridges, Tick(c) \/ PushOk(c) \/ PushFails(c) PROVE Fits(b)
    BY <2>1, <2>6 DEF Tick, PushOk, PushFails
  <2>7. ASSUME NEW c \in Bridges, AnswerNext(c) PROVE Fits(b)
    <3>1. CASE b # c
      BY <2>1, <2>7, <3>1 DEF AnswerNext
    <3>2. CASE b = c
      <4>1. Len(Tail(buf[b])) = Len(buf[b]) - 1
        BY <2>7, <3>2 DEF AnswerNext
      <4>2. /\ buf'[b] = Tail(buf[b]) /\ ch'[b] = ch[b] /\ phase[b] \in {"ack", "nak"}
            /\ phase'[b] = IF Len(buf[b]) = 1 THEN "select" ELSE phase[b]
        BY <2>7, <3>2 DEF AnswerNext
      <4> QED  BY <2>1, <2>2, <4>1, <4>2
    <3> QED  BY <3>1, <3>2
  <2>8. ASSUME NEW c \in Bridges, Crash(c) PROVE Fits(b)
    BY <2>1, <2>2, <2>8 DEF Crash
  <2>9. ASSUME UNCHANGED vars PROVE Fits(b)
    BY <2>1, <2>9 DEF vars
  <2> QED  BY <2>3, <2>4, <2>5, <2>6, <2>7, <2>8, <2>9 DEF Next, FlushLoop
<1> QED  BY <1>1, <1>2 DEF Bounded, SelectHasRoom, ChanCap, MaxAckPending

\* main.go:148-181: the channel, the batch and the messages JetStream waits for
\* stay within the sizes computed from BatchSize.
THEOREM SizesHold == Spec => []Bounded
<1>1. Init => Bounded /\ SelectHasRoom
  <2> SUFFICES ASSUME Init PROVE Bounded /\ SelectHasRoom
    OBVIOUS
  <2>1. Pending = {}
    BY DEF Init, Pending
  <2>2. Cardinality(Pending) = 0
    BY <2>1, FS_EmptySet
  <2> QED  BY <2>2, BridgeAssumption DEF Init, Bounded, SelectHasRoom, ChanCap, MaxAckPending
<1>2. TypeOK /\ Bounded /\ SelectHasRoom /\ [Next]_vars => Bounded' /\ SelectHasRoom'
  BY NextBounded
<1> QED  BY <1>1, <1>2, TypeCorrect, PTL DEF Spec

-----------------------------------------------------------------------------
(* The bridge implements LogDelivery.                                      *)

Sent == {m \in Msgs : st[m] \in {"ready", "pending", "done"}}

Settled == {m \in Msgs : st[m] = "done"}

\* Nothing reaches a bridge that the stream has not.
HeldIsSent == \A b \in Bridges : Held(b) \subseteq Sent

LEMMA NextHeldIsSent ==
  ASSUME TypeOK, HeldIsSent, [Next]_vars
  PROVE  HeldIsSent'
<1> USE DEF TypeOK
<1>1. Sent \subseteq Sent'
  BY DEF Sent, Next, FlushLoop, Publish, DeliverBad, AckWaitOver, Deliver, PutAndAck, DeliverFull, Take,
         Tick, PushOk, PushFails, AnswerNext, Answer, Answered, CanDeliver, Crash, vars
<1>2. \A b \in Bridges : CopiesIn(ch[b]) \subseteq Sent /\ CopiesIn(buf[b]) \subseteq Sent
  BY DEF HeldIsSent, Held
<1> DEFINE Known(b) == CopiesIn(ch'[b]) \subseteq Sent' /\ CopiesIn(buf'[b]) \subseteq Sent'
<1>3. ASSUME NEW b \in Bridges PROVE Known(b)
  <2>1. ASSUME NEW m \in Msgs, NEW c \in Bridges,
               Publish(m) \/ DeliverBad(m) \/ AckWaitOver(m) \/ DeliverFull(m, c)
        PROVE  Known(b)
    <3>1. ch' = ch /\ buf' = buf
      BY <2>1 DEF Publish, DeliverBad, AckWaitOver, DeliverFull
    <3> QED  BY <1>1, <1>2, <3>1
  <2>2. ASSUME NEW m \in Msgs, NEW c \in Bridges, Deliver(m, c) PROVE Known(b)
    <3>1. PICK auto \in BOOLEAN :
            /\ ch' = [ch EXCEPT ![c] = Append(@, [msg |-> m, auto |-> auto])]
            /\ \E r \in {"done", "pending"} : st' = [st EXCEPT ![m] = r]
      BY <2>2 DEF Deliver, PutAndAck
    <3>2. [msg |-> m, auto |-> auto] \in Copies
      BY <2>2, BridgeAssumption DEF Deliver, Copies
    <3>3. CopiesIn(Append(ch[c], [msg |-> m, auto |-> auto])) = CopiesIn(ch[c]) \cup {m}
      BY <3>2, CopiesOfAppend
    <3>4. m \in Sent'
      BY <3>1 DEF Sent
    <3> QED  BY <1>1, <1>2, <2>2, <3>1, <3>3, <3>4 DEF Deliver
  <2>3. ASSUME NEW c \in Bridges, Take(c) PROVE Known(b)
    <3>1. /\ Head(ch[c]) \in Copies
          /\ CopiesIn(ch[c]) = CopiesIn(Tail(ch[c])) \cup {Head(ch[c]).msg}
      BY <2>3, CopiesOfTail DEF Take
    <3>2. CopiesIn(Append(buf[c], Head(ch[c]))) = CopiesIn(buf[c]) \cup {Head(ch[c]).msg}
      BY <3>1, CopiesOfAppend
    <3> QED  BY <1>1, <1>2, <2>3, <3>1, <3>2 DEF Take
  <2>4. ASSUME NEW c \in Bridges, Tick(c) \/ PushOk(c) \/ PushFails(c) PROVE Known(b)
    BY <1>1, <1>2, <2>4 DEF Tick, PushOk, PushFails
  <2>5. ASSUME NEW c \in Bridges, AnswerNext(c) PROVE Known(b)
    <3>1. CopiesIn(buf[c]) = CopiesIn(Tail(buf[c])) \cup {Head(buf[c]).msg}
      BY <2>5, CopiesOfTail DEF AnswerNext
    <3> QED  BY <1>1, <1>2, <2>5, <3>1 DEF AnswerNext
  <2>6. ASSUME NEW c \in Bridges, Crash(c) PROVE Known(b)
    <3>1. CopiesIn(<<>>) = {}
      BY DEF CopiesIn
    <3> QED  BY <1>1, <1>2, <2>6, <3>1 DEF Crash
  <2>7. ASSUME UNCHANGED vars PROVE Known(b)
    BY <1>1, <1>2, <2>7 DEF vars
  <2> QED  BY <2>1, <2>2, <2>3, <2>4, <2>5, <2>6, <2>7 DEF Next, FlushLoop
<1> QED  BY <1>3 DEF HeldIsSent, Held, CopiesIn

\* What the bridges have in memory.
Taken == UNION {Held(b) : b \in Bridges}

\* How a step changes the memory of the bridges.
LEMMA NextTaken ==
  ASSUME TypeOK, NEW b \in Bridges
  PROVE  /\ ch' = ch /\ buf' = buf => Taken' = Taken
         /\ \A m \in Msgs \ Bad :
              Deliver(m, b) => Taken' = Taken \cup {m}
         /\ Take(b) => Taken' = Taken
         /\ AnswerNext(b) =>
              /\ Head(buf[b]).msg \in Held(b)
              /\ Taken' \in {Taken, Taken \ {Head(buf[b]).msg}}
         /\ Crash(b) => Taken' \subseteq Taken /\ Taken \ Held(b) \subseteq Taken'
<1> DEFINE Now(c) == CopiesIn(ch[c]) \cup CopiesIn(buf[c])
           Then(c) == CopiesIn(ch'[c]) \cup CopiesIn(buf'[c])
<1> USE DEF TypeOK
<1>1. Taken = UNION {Now(c) : c \in Bridges} /\ Held(b) = Now(b)
  BY DEF Taken, Held
<1>2. Taken' = UNION {Then(c) : c \in Bridges}
  BY DEF Taken, Held, CopiesIn
<1> HIDE DEF Now, Then
<1>3. ASSUME ch' = ch, buf' = buf PROVE Taken' = Taken
  <2>1. \A c \in Bridges : Then(c) = Now(c)
    BY <1>3 DEF Now, Then
  <2> QED  BY <1>1, <1>2, <2>1
<1>4. ASSUME NEW m \in Msgs \ Bad, Deliver(m, b) PROVE Taken' = Taken \cup {m}
  <2>1. PICK auto \in BOOLEAN : ch' = [ch EXCEPT ![b] = Append(@, [msg |-> m, auto |-> auto])]
    BY <1>4 DEF Deliver, PutAndAck
  <2>2. [msg |-> m, auto |-> auto] \in Copies
    BY DEF Copies
  <2>3. CopiesIn(Append(ch[b], [msg |-> m, auto |-> auto])) = CopiesIn(ch[b]) \cup {m}
    BY <2>2, CopiesOfAppend
  <2>4. Then(b) = Now(b) \cup {m} /\ \A c \in Bridges \ {b} : Then(c) = Now(c)
    BY <1>4, <2>1, <2>3 DEF Deliver, Now, Then
  <2> QED  BY <1>1, <1>2, <2>4
<1>5. ASSUME Take(b) PROVE Taken' = Taken
  <2>1. /\ Head(ch[b]) \in Copies
        /\ CopiesIn(ch[b]) = CopiesIn(Tail(ch[b])) \cup {Head(ch[b]).msg}
    BY <1>5, CopiesOfTail DEF Take
  <2>2. CopiesIn(Append(buf[b], Head(ch[b]))) = CopiesIn(buf[b]) \cup {Head(ch[b]).msg}
    BY <2>1, CopiesOfAppend
  <2>3. \A c \in Bridges : Then(c) = Now(c)
    BY <1>5, <2>1, <2>2 DEF Take, Now, Then
  <2> QED  BY <1>1, <1>2, <2>3
<1>6. ASSUME AnswerNext(b)
      PROVE  /\ Head(buf[b]).msg \in Held(b)
             /\ Taken' \in {Taken, Taken \ {Head(buf[b]).msg}}
  <2>1. CopiesIn(buf[b]) = CopiesIn(Tail(buf[b])) \cup {Head(buf[b]).msg}
    BY <1>6, CopiesOfTail DEF AnswerNext
  <2>2. Now(b) = Then(b) \cup {Head(buf[b]).msg} /\ \A c \in Bridges \ {b} : Then(c) = Now(c)
    BY <1>6, <2>1 DEF AnswerNext, Now, Then
  <2>3. Taken = Taken' \cup {Head(buf[b]).msg}
    BY <1>1, <1>2, <2>2
  <2> QED  BY <1>1, <2>2, <2>3
<1>7. ASSUME Crash(b) PROVE Taken' \subseteq Taken /\ Taken \ Held(b) \subseteq Taken'
  <2>1. CopiesIn(<<>>) = {}
    BY DEF CopiesIn
  <2>2. Then(b) = {} /\ \A c \in Bridges \ {b} : Then(c) = Now(c)
    BY <1>7, <2>1 DEF Crash, Now, Then
  <2> QED  BY <1>1, <1>2, <2>2
<1> QED  BY <1>3, <1>4, <1>5, <1>6, <1>7

\* A step of the bridge is one of LogDelivery, or none.
LEMMA NextImplements ==
  ASSUME BridgeInv, HeldIsSent, [Next]_vars
  PROVE  [Promise!Next]_<<Sent, Taken, loki, dropped, Settled>>
<1>1. TypeOK /\ AckingIsStored /\ NakingIsDropped
  BY DEF BridgeInv
<1> USE <1>1 DEF TypeOK
<1> DEFINE Same(x) == x' = x
           Silent == Same(Sent) /\ Same(Taken) /\ Same(loki) /\ Same(dropped) /\ Same(Settled)
           Sends(m) == /\ Sent' = Sent \cup {m}
                       /\ Same(Taken) /\ Same(loki) /\ Same(dropped) /\ Same(Settled)
           Discards(m) == /\ m \in Sent \cap Bad
                          /\ Settled' = Settled \cup {m}
                          /\ Same(Sent) /\ Same(Taken) /\ Same(loki) /\ Same(dropped)
           Takes(m) == /\ m \in Sent \ (Bad \cup Settled)
                       /\ Taken' = Taken \cup {m}
                       /\ Settled' \in {Settled, Settled \cup {m}}
                       /\ Same(Sent) /\ Same(loki) /\ Same(dropped)
           Stores(S) == /\ S \subseteq Taken
                        /\ loki' = loki \cup S
                        /\ Same(Sent) /\ Same(Taken) /\ Same(dropped) /\ Same(Settled)
           Refuses(S) == /\ S \subseteq Taken
                         /\ loki' \in {loki, loki \cup S}
                         /\ dropped' = dropped \cup S
                         /\ Same(Sent) /\ Same(Taken) /\ Same(Settled)
           Loses(S) == /\ S \subseteq Taken
                       /\ dropped' = dropped \cup S
                       /\ \E kept \in SUBSET S : Taken' = (Taken \ S) \cup kept
                       /\ Same(Sent) /\ Same(loki) /\ Same(Settled)
           Answers(m) == /\ m \in Taken \cap (loki \cup dropped)
                         /\ Taken' \in {Taken, Taken \ {m}}
                         /\ Settled' \in {Settled, Settled \cup ({m} \cap loki)}
                         /\ Same(Sent) /\ Same(loki) /\ Same(dropped)
           Allowed == \/ Silent
                      \/ \E m \in Msgs : Sends(m) \/ Discards(m) \/ Takes(m) \/ Answers(m)
                      \/ \E S \in SUBSET Taken : Stores(S) \/ Refuses(S) \/ Loses(S)
<1>2. ch' = ch /\ buf' = buf => Same(Taken)
  BY NextTaken DEF Taken
<1>3. \A b \in Bridges : CopiesIn(buf[b]) \subseteq Held(b) /\ Held(b) \subseteq Taken
  BY DEF Held, Taken
<1>4. ASSUME NEW m \in Msgs, Publish(m) PROVE Sends(m) \/ Silent
  BY <1>2, <1>4 DEF Publish, Sent, Settled
<1>5. ASSUME NEW m \in Msgs, DeliverBad(m) PROVE Discards(m) \/ Silent
  BY <1>2, <1>5 DEF DeliverBad, CanDeliver, Answered, Sent, Settled
<1>6. ASSUME NEW m \in Msgs, AckWaitOver(m) PROVE Silent
  BY <1>2, <1>6 DEF AckWaitOver, Sent, Settled
<1>7. ASSUME NEW m \in Msgs, NEW b \in Bridges, Deliver(m, b) PROVE Takes(m)
  <2>1. m \notin Bad /\ st[m] = "ready"
    BY <1>7 DEF Deliver, CanDeliver
  <2>2. PICK r \in {"done", "pending"} : st' = [st EXCEPT ![m] = r]
    BY <1>7 DEF Deliver, PutAndAck
  <2>3. Taken' = Taken \cup {m}
    BY <1>7, <2>1, NextTaken
  <2>4. Sent' = Sent /\ Settled' \in {Settled, Settled \cup {m}} /\ m \in Sent \ (Bad \cup Settled)
    BY <2>1, <2>2 DEF Sent, Settled
  <2> QED  BY <1>7, <2>3, <2>4 DEF Deliver
<1>8. ASSUME NEW m \in Msgs, NEW b \in Bridges, DeliverFull(m, b) PROVE Silent
  BY <1>2, <1>8 DEF DeliverFull, CanDeliver, Answered, Sent, Settled
<1>9. ASSUME NEW b \in Bridges, Take(b) \/ Tick(b) PROVE Silent
  <2>1. Same(Taken)
    BY <1>2, <1>9, NextTaken DEF Tick
  <2> QED  BY <1>9, <2>1 DEF Take, Tick, Sent, Settled
<1>10. ASSUME NEW b \in Bridges, PushOk(b) PROVE Stores(CopiesIn(buf[b]))
  BY <1>2, <1>3, <1>10 DEF PushOk, Sent, Settled
<1>11. ASSUME NEW b \in Bridges, PushFails(b) PROVE Refuses(CopiesIn(buf[b]))
  BY <1>2, <1>3, <1>11 DEF PushFails, Sent, Settled
<1>12. ASSUME NEW b \in Bridges, AnswerNext(b) PROVE \E m \in Msgs : Answers(m)
  <2> DEFINE x == Head(buf[b]).msg
  <2>1. /\ Head(buf[b]) \in Copies
        /\ CopiesIn(buf[b]) = CopiesIn(Tail(buf[b])) \cup {x}
    BY <1>12, CopiesOfTail DEF AnswerNext
  <2>2. x \in Msgs /\ x \in Sent
    BY <2>1 DEF Copies, HeldIsSent, Held
  <2>3. x \in Taken /\ Taken' \in {Taken, Taken \ {x}}
    BY <1>3, <1>12, NextTaken
  <2>4. /\ x \in loki \cup dropped
        /\ phase[b] = "ack" => x \in loki
    BY <1>12, <2>1 DEF AnswerNext, AckingIsStored, NakingIsDropped
  <2>5. \/ st' = st
        \/ st' = [st EXCEPT ![x] = "done"] /\ phase[b] = "ack"
        \/ st' = [st EXCEPT ![x] = "ready"] /\ st[x] = "pending"
    BY <1>12 DEF AnswerNext, Answer
  <2>6. Sent' = Sent /\ Settled' \in {Settled, Settled \cup ({x} \cap loki)}
    BY <2>2, <2>4, <2>5 DEF Sent, Settled
  <2>7. loki' = loki /\ dropped' = dropped
    BY <1>12 DEF AnswerNext
  <2>8. Answers(x)
    BY <2>3, <2>4, <2>6, <2>7
  <2> QED  BY <2>2, <2>8
<1>13. ASSUME NEW b \in Bridges, Crash(b) PROVE Loses(Held(b))
  <2>1. Taken' \subseteq Taken /\ Taken \ Held(b) \subseteq Taken'
    BY <1>13, NextTaken
  <2>2. \E kept \in SUBSET Held(b) : Taken' = (Taken \ Held(b)) \cup kept
    <3>1. Taken' = (Taken \ Held(b)) \cup (Held(b) \cap Taken')
      BY <2>1
    <3>2. Held(b) \cap Taken' \in SUBSET Held(b)
      OBVIOUS
    <3> QED  BY <3>1, <3>2
  <2>3. Same(Sent) /\ Same(loki) /\ Same(Settled) /\ dropped' = dropped \cup Held(b)
    BY <1>13 DEF Crash, Sent, Settled
  <2> QED  BY <1>3, <2>2, <2>3
<1>14. ASSUME UNCHANGED vars PROVE Silent
  BY <1>2, <1>14 DEF vars, Sent, Settled
<1>15. ASSUME NEW b \in Bridges, FlushLoop(b) \/ Crash(b) PROVE Allowed
  <2>1. CopiesIn(buf[b]) \in SUBSET Taken /\ Held(b) \in SUBSET Taken
    BY <1>3
  <2> QED  BY <1>9, <1>10, <1>11, <1>12, <1>13, <1>15, <2>1 DEF FlushLoop
<1>16. Allowed
  BY <1>4, <1>5, <1>6, <1>7, <1>8, <1>14, <1>15 DEF Next
<1> QED
  BY <1>16 DEF Promise!Next, Promise!Publish, Promise!Discard, Promise!Take, Promise!Store,
               Promise!Refuse, Promise!Lose, Promise!Answer, Sent, Taken, Settled

\* main.go:162-241, as the code is: a message leaves a bridge's memory only after
\* its push or with a crash, JetStream settles it early or when it is stored, and
\* nothing else happens to it (that it is stored or gone in the end is checked
\* by TLC).
THEOREM ImplementsLogDelivery == Spec => Promise!Spec
<1>1. Init => Promise!Init
  <2>1. CopiesIn(<<>>) = {}
    BY DEF CopiesIn
  <2> QED  BY <2>1 DEF Init, Promise!Init, Held
<1>2. Init => HeldIsSent
  <2>1. CopiesIn(<<>>) = {}
    BY DEF CopiesIn
  <2> QED  BY <2>1 DEF Init, HeldIsSent, Held
<1>3. TypeOK /\ HeldIsSent /\ [Next]_vars => HeldIsSent'
  BY NextHeldIsSent
<1>4. BridgeInv /\ HeldIsSent /\ [Next]_vars => [Promise!Next]_Promise!avars
  BY NextImplements DEF Promise!avars, Sent, Taken, Settled
<1> QED  BY <1>1, <1>2, <1>3, <1>4, InvHolds, TypeCorrect, PTL DEF Spec, Promise!Spec
=============================================================================
