---------------------------- MODULE LogPipeProofs ----------------------------
(***************************************************************************)
(* Theorems about LogPipe, for any number of goroutines, levels and        *)
(* entries and any sizes.  The order of an entry's way (logger, queue,     *)
(* batch, remote) is the order of time for every goroutine: InOrderOnce    *)
(* alone says nothing about what is still to come.                         *)
(***************************************************************************)
EXTENDS LogPipe, SequenceTheorems, TLAPS

\* For each goroutine, the entries of S come before those of T.
Earlier(S, T) == \A s \in S, t \in T : s.by = t.by => s.stamp < t.stamp

Sorted(q) == \A i, j \in DOMAIN q : i < j /\ q[i].by = q[j].by => q[i].stamp < q[j].stamp

\* What has been handed over and may still be in the stream of level l.
Past(l) == ToSet(remote[l]) \cup ToSet(batch[l]) \cup ToSet(queue)

StreamInOrder(l) ==
  /\ Sorted(remote[l]) /\ Sorted(batch[l])
  /\ Earlier(ToSet(remote[l]), ToSet(batch[l]))
  /\ Earlier(ToSet(remote[l]), ToSet(queue)) /\ Earlier(ToSet(batch[l]), ToSet(queue))
  /\ \A e \in Past(l) : e.stamp <= stamps

LoggerInOrder(g) ==
  logger[g] # NoEntry =>
    /\ logger[g].by = g /\ logger[g].stamp <= stamps
    /\ \A l \in Levels : \A e \in Past(l) : e.by = g => e.stamp < logger[g].stamp

OrderInv ==
  /\ mode = "bridge" => batch = EmptyBatch
  /\ Sorted(queue)
  /\ \A l \in Levels : StreamInOrder(l)
  /\ \A g \in Loggers : LoggerInOrder(g)

EndedIsEnded ==
  /\ mode = "bridge" => exchange = "ended"
  /\ mode = "direct" /\ closing = "done" => exchange = "ended"

PipeInv == PipeTypeOK /\ OrderInv /\ EndedIsEnded /\ AcceptedIsAccounted

-----------------------------------------------------------------------------
(* Sequences of entries.                                                   *)

LEMMA OfEmpty == <<>> \in Seq(Entries) /\ Sorted(<<>>) /\ ToSet(<<>>) = {} /\ Len(<<>>) = 0
  BY DEF Sorted, ToSet

LEMMA OfAppend ==
  ASSUME NEW q \in Seq(Entries), NEW e \in Entries
  PROVE  /\ Append(q, e) \in Seq(Entries) /\ Len(Append(q, e)) = Len(q) + 1
         /\ ToSet(Append(q, e)) = ToSet(q) \cup {e}
         /\ Sorted(q) /\ Earlier(ToSet(q), {e}) => Sorted(Append(q, e))
<1>1. /\ Append(q, e) \in Seq(Entries) /\ Len(q) \in Nat /\ Len(Append(q, e)) = Len(q) + 1
      /\ DOMAIN q = 1 .. Len(q) /\ DOMAIN Append(q, e) = 1 .. Len(q) + 1
      /\ \A i \in 1 .. Len(q) : Append(q, e)[i] = q[i]
      /\ Append(q, e)[Len(q) + 1] = e
  BY AppendProperties, LenProperties
<1>2. \A i \in 1 .. Len(q) + 1 : i \in 1 .. Len(q) \/ i = Len(q) + 1
  BY <1>1
<1>3. ToSet(Append(q, e)) = ToSet(q) \cup {e}
  <2>1. \A i \in 1 .. Len(q) : i \in 1 .. Len(q) + 1
    BY <1>1
  <2>2. Len(q) + 1 \in 1 .. Len(q) + 1
    BY <1>1
  <2> QED
    BY <1>1, <1>2, <2>1, <2>2 DEF ToSet
<1>4. ASSUME Sorted(q), Earlier(ToSet(q), {e}) PROVE Sorted(Append(q, e))
  BY <1>1, <1>2, <1>4 DEF Sorted, Earlier, ToSet
<1> QED
  BY <1>1, <1>3, <1>4

LEMMA OfTail ==
  ASSUME NEW q \in Seq(Entries), q # <<>>
  PROVE  /\ Head(q) \in Entries /\ Tail(q) \in Seq(Entries) /\ Len(Tail(q)) = Len(q) - 1
         /\ ToSet(q) = {Head(q)} \cup ToSet(Tail(q))
         /\ Sorted(q) => Sorted(Tail(q)) /\ Earlier({Head(q)}, ToSet(Tail(q)))
<1>1. /\ Head(q) \in Entries /\ Tail(q) \in Seq(Entries) /\ Len(q) \in Nat \ {0}
      /\ Head(q) = q[1] /\ Len(Tail(q)) = Len(q) - 1
      /\ DOMAIN q = 1 .. Len(q) /\ DOMAIN Tail(q) = 1 .. Len(q) - 1
      /\ \A i \in 1 .. Len(q) - 1 : Tail(q)[i] = q[i + 1]
  BY HeadTailProperties, LenProperties, EmptySeq
<1>2. \A i \in 1 .. Len(q) : i = 1 \/ (i - 1 \in 1 .. Len(q) - 1 /\ (i - 1) + 1 = i)
  BY <1>1
<1>3. \A i \in 1 .. Len(q) - 1 : i + 1 \in 1 .. Len(q) /\ 1 < i + 1
  BY <1>1
<1>4. 1 \in 1 .. Len(q)
  BY <1>1
<1>5. ToSet(q) \subseteq {Head(q)} \cup ToSet(Tail(q))
  <2> SUFFICES ASSUME NEW i \in 1 .. Len(q) PROVE q[i] \in {Head(q)} \cup ToSet(Tail(q))
    BY <1>1 DEF ToSet
  <2>1. CASE i = 1
    BY <2>1, <1>1
  <2>2. CASE i - 1 \in 1 .. Len(q) - 1 /\ (i - 1) + 1 = i
    <3>1. Tail(q)[i - 1] = q[i]
      BY <2>2, <1>1
    <3> QED
      BY <3>1, <2>2, <1>1 DEF ToSet
  <2> QED
    BY <1>2, <2>1, <2>2
<1>6. {Head(q)} \cup ToSet(Tail(q)) \subseteq ToSet(q)
  BY <1>1, <1>3, <1>4 DEF ToSet
<1>7. ASSUME Sorted(q) PROVE Sorted(Tail(q)) /\ Earlier({Head(q)}, ToSet(Tail(q)))
  <2>1. \A i, j \in 1 .. Len(q) - 1 : i < j => i + 1 < j + 1
    BY <1>1
  <2>2. Sorted(Tail(q))
    BY <1>1, <1>3, <2>1, <1>7 DEF Sorted
  <2>3. Earlier({Head(q)}, ToSet(Tail(q)))
    BY <1>1, <1>3, <1>4, <1>7 DEF Sorted, Earlier, ToSet
  <2> QED
    BY <2>2, <2>3
<1> QED
  BY <1>1, <1>5, <1>6, <1>7

LEMMA OfConcat ==
  ASSUME NEW p \in Seq(Entries), NEW q \in Seq(Entries)
  PROVE  /\ p \o q \in Seq(Entries)
         /\ ToSet(p \o q) = ToSet(p) \cup ToSet(q)
         /\ Sorted(p) /\ Sorted(q) /\ Earlier(ToSet(p), ToSet(q)) => Sorted(p \o q)
<1>1. /\ p \o q \in Seq(Entries) /\ Len(p) \in Nat /\ Len(q) \in Nat
      /\ DOMAIN p = 1 .. Len(p) /\ DOMAIN q = 1 .. Len(q)
      /\ DOMAIN (p \o q) = 1 .. Len(p) + Len(q)
  BY ConcatProperties, LenProperties
<1>2. \A i \in 1 .. Len(p) : i \in 1 .. Len(p) + Len(q) /\ (p \o q)[i] = p[i]
  BY <1>1, ConcatProperties
<1>3. \A i \in 1 .. Len(q) :
         i + Len(p) \in 1 .. Len(p) + Len(q) /\ (p \o q)[i + Len(p)] = q[i]
  <2> TAKE i \in 1 .. Len(q)
  <2>1. /\ i + Len(p) \in 1 .. Len(p) + Len(q) /\ ~(i + Len(p) <= Len(p))
        /\ (i + Len(p)) - Len(p) = i
    BY <1>1
  <2>2. (p \o q)[i + Len(p)] = IF i + Len(p) <= Len(p) THEN p[i + Len(p)] ELSE q[(i + Len(p)) - Len(p)]
    BY <2>1, ConcatProperties
  <2> QED
    BY <2>1, <2>2
<1>4. \A i \in 1 .. Len(p) + Len(q) :
         i \in 1 .. Len(p) \/ \E k \in 1 .. Len(q) : i = k + Len(p)
  <2> TAKE i \in 1 .. Len(p) + Len(q)
  <2>1. CASE i <= Len(p)
    BY <2>1, <1>1
  <2>2. CASE ~(i <= Len(p))
    <3>1. i - Len(p) \in 1 .. Len(q) /\ i = (i - Len(p)) + Len(p)
      BY <2>2, <1>1
    <3> QED
      BY <3>1
  <2> QED
    BY <2>1, <2>2
<1>5. ToSet(p \o q) = ToSet(p) \cup ToSet(q)
  <2>1. ToSet(p \o q) \subseteq ToSet(p) \cup ToSet(q)
    BY <1>1, <1>2, <1>3, <1>4 DEF ToSet
  <2>2. ToSet(p) \subseteq ToSet(p \o q)
    BY <1>1, <1>2 DEF ToSet
  <2>3. ToSet(q) \subseteq ToSet(p \o q)
    BY <1>1, <1>3 DEF ToSet
  <2> QED
    BY <2>1, <2>2, <2>3
<1>6. ASSUME Sorted(p), Sorted(q), Earlier(ToSet(p), ToSet(q)) PROVE Sorted(p \o q)
  <2> SUFFICES ASSUME NEW i \in 1 .. Len(p) + Len(q), NEW j \in 1 .. Len(p) + Len(q), i < j,
                      (p \o q)[i].by = (p \o q)[j].by
               PROVE  (p \o q)[i].stamp < (p \o q)[j].stamp
    BY <1>1 DEF Sorted
  <2>1. CASE j \in 1 .. Len(p)
    <3>1. i \in 1 .. Len(p)
      BY <2>1, <1>1
    <3> QED
      BY <2>1, <3>1, <1>1, <1>2, <1>6 DEF Sorted
  <2>2. CASE i \in 1 .. Len(p) /\ \E k \in 1 .. Len(q) : j = k + Len(p)
    BY <2>2, <1>1, <1>2, <1>3, <1>6 DEF Earlier, ToSet
  <2>3. CASE (\E k \in 1 .. Len(q) : i = k + Len(p)) /\ (\E k \in 1 .. Len(q) : j = k + Len(p))
    <3>1. PICK k \in 1 .. Len(q) : i = k + Len(p)
      BY <2>3
    <3>2. PICK n \in 1 .. Len(q) : j = n + Len(p)
      BY <2>3
    <3>3. k < n
      BY <3>1, <3>2, <1>1
    <3> QED
      BY <3>1, <3>2, <3>3, <1>1, <1>3, <1>6 DEF Sorted
  <2> QED
    BY <1>4, <2>1, <2>2, <2>3
<1> QED
  BY <1>1, <1>5, <1>6
\* What a state of the types has in its sequences.
LEMMA InTypes ==
  ASSUME PipeTypeOK
  PROVE  /\ queue \in Seq(Entries) /\ ToSet(queue) \subseteq Entries /\ Len(queue) \in Nat
         /\ stamps \in Nat /\ MaxEntries \in Nat /\ QueueSize \in Nat /\ QueueSize >= 1
         /\ \A l \in Levels :
              /\ remote[l] \in Seq(Entries) /\ ToSet(remote[l]) \subseteq Entries
              /\ batch[l] \in Seq(Entries) /\ ToSet(batch[l]) \subseteq Entries
         /\ \A e \in Entries :
              e.stamp \in Nat /\ e.by \in Loggers /\ e.level \in Levels /\ e # NoEntry
<1>1. \A q \in Seq(Entries) : ToSet(q) \subseteq Entries
  BY ElementOfSeq, LenProperties DEF ToSet
<1>2. /\ queue \in Seq(Entries) /\ Len(queue) \in Nat /\ stamps \in Nat
      /\ MaxEntries \in Nat /\ QueueSize \in Nat /\ QueueSize >= 1
  BY PipeAssumption DEF PipeTypeOK
<1>3. \A l \in Levels : remote[l] \in Seq(Entries) /\ batch[l] \in Seq(Entries)
  BY DEF PipeTypeOK
<1>4. \A e \in Entries :
        e.stamp \in Nat /\ e.by \in Loggers /\ e.level \in Levels /\ e # NoEntry
  BY PipeAssumption DEF Entries, NoEntry
<1> QED
  BY <1>1, <1>2, <1>3, <1>4

-----------------------------------------------------------------------------
(* The steps.                                                              *)

LEMMA PipeInitHolds == PipeInit => PipeInv
<1> SUFFICES ASSUME PipeInit PROVE PipeInv
  OBVIOUS
<1>1. /\ \A l \in Levels : remote[l] = <<>> /\ batch[l] = <<>>
      /\ queue = <<>> /\ logger = [g \in Loggers |-> NoEntry]
  BY DEF PipeInit, EmptyBatch
<1>2. PipeTypeOK
  <2>1. queue \in Seq(Entries) /\ Len(queue) <= QueueSize
    BY <1>1, OfEmpty, PipeAssumption
  <2>2. batch \in [Levels -> Seq(Entries)] /\ remote \in [Levels -> Seq(Entries)]
    BY OfEmpty DEF PipeInit, EmptyBatch
  <2>3. 0 \in 0 .. MaxEntries
    BY PipeAssumption
  <2> QED
    BY <2>1, <2>2, <2>3 DEF PipeInit, PipeTypeOK, RemoteWriters
<1>3. OrderInv
  <2>1. \A l \in Levels : StreamInOrder(l)
    BY <1>1, OfEmpty DEF StreamInOrder, Earlier, Past
  <2> QED
    BY <1>1, <2>1, OfEmpty DEF OrderInv, LoggerInOrder, PipeInit
<1>4. EndedIsEnded /\ AcceptedIsAccounted
  BY DEF PipeInit, EndedIsEnded, AcceptedIsAccounted
<1> QED
  BY <1>2, <1>3, <1>4 DEF PipeInv

\* A new entry is later than all others.
LEMMA LogKeeps ==
  ASSUME PipeInv, NEW g \in Loggers, NEW l \in Levels, Log(g, l)
  PROVE  PipeInv'
<1>0. PipeTypeOK /\ OrderInv /\ EndedIsEnded /\ AcceptedIsAccounted
  BY DEF PipeInv
<1> DEFINE new == [by |-> g, stamp |-> stamps + 1, level |-> l]
<1>1. new \in Entries /\ stamps' = stamps + 1 /\ stamps' \in 0 .. MaxEntries /\ stamps \in Nat
  <2>1. stamps' = stamps + 1 /\ stamps < MaxEntries /\ stamps \in Nat /\ MaxEntries \in Nat
    BY <1>0, InTypes DEF Log
  <2>2. stamps + 1 \in 1 .. MaxEntries /\ stamps + 1 \in 0 .. MaxEntries
    BY <2>1
  <2> QED
    BY <2>1, <2>2 DEF Entries
<1>2. PipeTypeOK'
  BY <1>0, <1>1 DEF Log, PipeTypeOK
<1>3. /\ queue' = queue /\ batch' = batch /\ remote' = remote /\ mode' = mode
      /\ logger' = [logger EXCEPT ![g] = new]
      /\ \A k \in Levels : Past(k)' = Past(k)
  BY DEF Log, Past
<1>4. \A k \in Levels : \A e \in Past(k) : e \in Entries /\ e.stamp \in Nat /\ e.stamp <= stamps
  BY <1>0, InTypes DEF OrderInv, StreamInOrder, Past
<1>5. \A k \in Levels : StreamInOrder(k)'
  BY <1>0, <1>1, <1>3, <1>4 DEF OrderInv, StreamInOrder
<1>6. \A h \in Loggers : LoggerInOrder(h)'
  <2> SUFFICES ASSUME NEW h \in Loggers PROVE LoggerInOrder(h)'
    OBVIOUS
  <2>1. CASE h = g
    <3>1. logger'[h] = new
      BY <2>1, <1>0, <1>3 DEF PipeTypeOK
    <3> QED
      BY <2>1, <3>1, <1>1, <1>3, <1>4 DEF LoggerInOrder
  <2>2. CASE h # g
    <3>1. logger'[h] = logger[h] /\ logger[h] \in Entries \cup {NoEntry}
      BY <2>2, <1>0, <1>3 DEF PipeTypeOK
    <3>2. logger[h] # NoEntry => logger[h].stamp \in Nat
      BY <3>1, <1>0, InTypes
    <3> QED
      BY <3>1, <3>2, <1>0, <1>1, <1>3 DEF OrderInv, LoggerInOrder
  <2> QED
    BY <2>1, <2>2
<1>7. OrderInv'
  BY <1>0, <1>3, <1>5, <1>6 DEF OrderInv, EmptyBatch
<1>8. EndedIsEnded' /\ AcceptedIsAccounted'
  BY <1>0 DEF Log, EndedIsEnded, AcceptedIsAccounted, BatchEntries
<1> QED
  BY <1>2, <1>7, <1>8 DEF PipeInv

\* The hand-over, accepted or not.
LEMMA HandOverKeeps ==
  ASSUME PipeInv, NEW g \in Loggers, LogfWithLabels(g) \/ PublishAsync(g)
  PROVE  PipeInv'
<1>0. PipeTypeOK /\ OrderInv /\ EndedIsEnded /\ AcceptedIsAccounted
  BY DEF PipeInv
<1> DEFINE e == logger[g]
<1>1. /\ e \in Entries /\ e # NoEntry /\ logger' = [logger EXCEPT ![g] = NoEntry]
      /\ mode' = mode /\ stamps' = stamps /\ batch' = batch /\ remote' = remote
      /\ exchange' = exchange /\ stopped' = stopped /\ closing' = closing /\ failed' = failed
      /\ \/ queue' = queue /\ accepted' = accepted
         \/ Len(queue) < QueueSize /\ queue' = Append(queue, e) /\ accepted' = accepted \cup {e}
  BY <1>0 DEF LogfWithLabels, PublishAsync, PipeTypeOK
<1>2. /\ e.by = g /\ e.stamp \in Nat /\ e.stamp <= stamps
      /\ \A l \in Levels : \A x \in Past(l) : x.by = g => x.stamp < e.stamp
  BY <1>0, <1>1, InTypes DEF OrderInv, LoggerInOrder
<1>3. /\ ToSet(queue) \subseteq ToSet(queue') /\ ToSet(queue') \subseteq ToSet(queue) \cup {e}
      /\ queue' \in Seq(Entries) /\ Len(queue') <= QueueSize
      /\ \A x \in accepted' \ accepted : x \in ToSet(queue')
  <2>1. queue \in Seq(Entries) /\ Len(queue) \in Nat /\ QueueSize \in Nat /\ Len(queue) <= QueueSize
    BY <1>0, InTypes DEF PipeTypeOK
  <2>2. CASE queue' = queue /\ accepted' = accepted
    BY <2>1, <2>2
  <2>3. CASE Len(queue) < QueueSize /\ queue' = Append(queue, e) /\ accepted' = accepted \cup {e}
    <3>1. /\ Append(queue, e) \in Seq(Entries) /\ Len(Append(queue, e)) = Len(queue) + 1
          /\ ToSet(Append(queue, e)) = ToSet(queue) \cup {e}
      BY <2>1, <1>1, OfAppend
    <3> QED
      BY <2>1, <2>3, <3>1
  <2> QED
    BY <1>1, <2>2, <2>3
<1>4. PipeTypeOK'
  BY <1>0, <1>1, <1>3 DEF PipeTypeOK
<1>5. \A l \in Levels : Past(l)' \subseteq Past(l) \cup {e}
  BY <1>1, <1>3 DEF Past
<1>6. Sorted(queue)'
  <2>1. CASE Levels = {}
    BY <2>1, <1>1, InTypes, <1>0
  <2>2. ASSUME NEW l \in Levels PROVE Earlier(ToSet(queue), {e})
    BY <1>2 DEF Earlier, Past
  <2> QED
    BY <1>0, <1>1, <2>1, <2>2, OfAppend, InTypes DEF OrderInv
<1>7. \A l \in Levels : StreamInOrder(l)'
  <2> SUFFICES ASSUME NEW l \in Levels PROVE StreamInOrder(l)'
    OBVIOUS
  <2>1. StreamInOrder(l)
    BY <1>0 DEF OrderInv
  <2>2. \A x \in ToSet(remote[l]) \cup ToSet(batch[l]) : x.by = e.by => x.stamp < e.stamp
    BY <1>2 DEF Past
  <2>3. Earlier(ToSet(remote[l]), ToSet(queue')) /\ Earlier(ToSet(batch[l]), ToSet(queue'))
    BY <2>1, <2>2, <1>3 DEF StreamInOrder, Earlier
  <2>4. \A x \in Past(l)' : x.stamp <= stamps
    BY <2>1, <1>2, <1>5 DEF StreamInOrder
  <2> QED
    BY <2>1, <2>3, <2>4, <1>1 DEF StreamInOrder
\* Another goroutine's entry is not compared with this one.
<1>8. \A h \in Loggers : LoggerInOrder(h)'
  <2> SUFFICES ASSUME NEW h \in Loggers, h # g PROVE LoggerInOrder(h)'
    BY <1>0, <1>1 DEF LoggerInOrder, PipeTypeOK
  <2>1. logger'[h] = logger[h]
    BY <1>0, <1>1 DEF PipeTypeOK
  <2> QED
    BY <2>1, <1>0, <1>1, <1>2, <1>5 DEF OrderInv, LoggerInOrder
<1>9. OrderInv'
  BY <1>0, <1>1, <1>6, <1>7, <1>8 DEF OrderInv, EmptyBatch
<1>10. EndedIsEnded' /\ AcceptedIsAccounted'
  <2>1. EndedIsEnded'
    BY <1>0, <1>1 DEF EndedIsEnded
  <2>2. BatchEntries' = BatchEntries
    BY <1>1 DEF BatchEntries
  <2> QED
    BY <1>0, <1>1, <1>3, <2>1, <2>2 DEF AcceptedIsAccounted
<1> QED
  BY <1>4, <1>9, <1>10 DEF PipeInv
\* Steps that move no entry.
LEMMA QuietKeeps ==
  ASSUME PipeInv, Timer \/ Stop \/ Close \/ Closed
  PROVE  PipeInv'
<1>0. PipeTypeOK /\ OrderInv /\ EndedIsEnded /\ AcceptedIsAccounted
  BY DEF PipeInv
<1>1. /\ mode' = mode /\ logger' = logger /\ stamps' = stamps /\ queue' = queue /\ batch' = batch
      /\ remote' = remote /\ accepted' = accepted /\ failed' = failed
  BY DEF Timer, Stop, Close, Closed
<1>2. PipeTypeOK'
  BY <1>0 DEF Timer, Stop, Close, Closed, PipeTypeOK
<1>3. OrderInv' /\ AcceptedIsAccounted'
  BY <1>0, <1>1 DEF OrderInv, StreamInOrder, LoggerInOrder, Past, EmptyBatch,
                    AcceptedIsAccounted, BatchEntries
<1>4. EndedIsEnded'
  BY <1>0 DEF Timer, Stop, Close, Closed, EndedIsEnded, PipeTypeOK, RemoteWriters
<1> QED
  BY <1>2, <1>3, <1>4 DEF PipeInv

\* The loggers' entries stay later when nothing comes into their past.
LEMMA LoggersKeep ==
  ASSUME OrderInv, logger' = logger, stamps' = stamps,
         \A l \in Levels : \A e \in Past(l)' : \E k \in Levels : e \in Past(k)
  PROVE  \A g \in Loggers : LoggerInOrder(g)'
  BY DEF OrderInv, LoggerInOrder

\* Only the direct writer has an exchange goroutine.
LEMMA TakeIsDirect == PipeInv /\ exchange # "ended" => mode = "direct"
  BY DEF PipeInv, PipeTypeOK, EndedIsEnded, RemoteWriters

LEMMA TakeKeeps ==
  ASSUME PipeInv, Take
  PROVE  PipeInv'
<1>0. PipeTypeOK /\ OrderInv /\ EndedIsEnded /\ AcceptedIsAccounted
  BY DEF PipeInv
<1> DEFINE e == Head(queue)
           k == e.level
<1>1. /\ queue \in Seq(Entries) /\ queue # <<>> /\ e \in Entries /\ k \in Levels
      /\ queue' = Tail(queue) /\ batch' = [batch EXCEPT ![k] = Append(@, e)]
      /\ mode' = mode /\ logger' = logger /\ stamps' = stamps /\ remote' = remote
      /\ stopped' = stopped /\ closing' = closing /\ accepted' = accepted /\ failed' = failed
      /\ exchange = "selects" /\ exchange' \in {"pushes", "selects"}
  BY <1>0, InTypes, OfTail DEF Take, Add
<1>2. /\ Tail(queue) \in Seq(Entries) /\ Len(Tail(queue)) <= QueueSize
      /\ ToSet(queue) = {e} \cup ToSet(queue') /\ Sorted(queue') /\ Earlier({e}, ToSet(queue'))
  <2>1. /\ Tail(queue) \in Seq(Entries) /\ Len(Tail(queue)) = Len(queue) - 1
        /\ ToSet(queue) = {Head(queue)} \cup ToSet(Tail(queue))
        /\ Sorted(queue) => Sorted(Tail(queue)) /\ Earlier({Head(queue)}, ToSet(Tail(queue)))
    BY <1>1, OfTail
  <2>2. Len(queue) \in Nat /\ QueueSize \in Nat /\ Len(queue) <= QueueSize /\ Sorted(queue)
    BY <1>0, InTypes DEF OrderInv, PipeTypeOK
  <2> QED
    BY <1>1, <2>1, <2>2
<1>a. \A q \in Seq(Entries) :
        /\ Append(q, e) \in Seq(Entries) /\ ToSet(Append(q, e)) = ToSet(q) \cup {e}
        /\ Sorted(q) /\ Earlier(ToSet(q), {e}) => Sorted(Append(q, e))
  BY <1>1, OfAppend
<1>b. \A l \in Levels : remote[l] \in Seq(Entries) /\ batch[l] \in Seq(Entries)
  BY <1>0, InTypes
<1> HIDE DEF e, k
<1>3. \A l \in Levels :
        /\ batch'[l] \in Seq(Entries)
        /\ ToSet(batch'[l]) = IF l = k THEN ToSet(batch[l]) \cup {e} ELSE ToSet(batch[l])
        /\ batch'[l] = IF l = k THEN Append(batch[l], e) ELSE batch[l]
  <2>1. \A l \in Levels : batch'[l] = IF l = k THEN Append(batch[l], e) ELSE batch[l]
    BY <1>0, <1>1 DEF PipeTypeOK
  <2> QED
    BY <1>a, <1>b, <2>1
<1>c. /\ \A l \in Levels : /\ ToSet(batch'[l]) \subseteq ToSet(batch[l]) \cup {e}
                           /\ ToSet(batch[l]) \subseteq ToSet(batch'[l])
      /\ e \in ToSet(batch'[k]) /\ e \in ToSet(queue) /\ ToSet(queue') \subseteq ToSet(queue)
  <2>1. ASSUME NEW l \in Levels
        PROVE  /\ ToSet(batch'[l]) \subseteq ToSet(batch[l]) \cup {e}
               /\ ToSet(batch[l]) \subseteq ToSet(batch'[l])
    <3>1. CASE l = k
      BY <1>3, <3>1
    <3>2. CASE l # k
      BY <1>3, <3>2
    <3> QED
      BY <3>1, <3>2
  <2>2. e \in ToSet(batch'[k])
    <3>1. k \in Levels
      BY <1>1
    <3>2. ToSet(batch'[k]) = ToSet(batch[k]) \cup {e}
      BY <3>1, <1>3
    <3> QED
      BY <3>2
  <2> QED
    BY <1>1, <1>2, <2>1, <2>2
<1>d. \A l \in Levels : Past(l)' \subseteq Past(l)
  BY <1>1, <1>c DEF Past
<1>4. PipeTypeOK'
  <2>1. batch' \in [Levels -> Seq(Entries)]
    BY <1>0, <1>1, <1>3 DEF PipeTypeOK
  <2> QED
    BY <1>0, <1>1, <1>2, <2>1 DEF PipeTypeOK
<1>5. \A l \in Levels : StreamInOrder(l)'
  <2> SUFFICES ASSUME NEW l \in Levels PROVE StreamInOrder(l)'
    OBVIOUS
  <2>1. StreamInOrder(l) /\ e \in ToSet(queue) /\ ToSet(queue') \subseteq ToSet(queue)
    BY <1>0, <1>2 DEF OrderInv
  <2>2. Earlier(ToSet(batch[l]), {e}) /\ Earlier(ToSet(remote[l]), {e})
    BY <2>1 DEF StreamInOrder, Earlier
  <2>3. Sorted(batch'[l])
    BY <1>a, <1>b, <1>3, <2>1, <2>2 DEF StreamInOrder
  <2>4. Earlier(ToSet(remote[l]), ToSet(batch'[l])) /\ Earlier(ToSet(batch'[l]), ToSet(queue'))
    BY <1>2, <1>3, <2>1, <2>2 DEF StreamInOrder, Earlier
  <2>5. Earlier(ToSet(remote[l]), ToSet(queue')) /\ \A x \in Past(l)' : x.stamp <= stamps
    BY <1>c, <1>d, <2>1 DEF StreamInOrder, Earlier
  <2> QED
    BY <1>1, <2>1, <2>3, <2>4, <2>5 DEF StreamInOrder
<1>6. \A g \in Loggers : LoggerInOrder(g)'
  BY <1>d, <1>0, <1>1, LoggersKeep
<1>7. OrderInv'
  BY <1>0, <1>1, <1>2, <1>5, <1>6, TakeIsDirect DEF OrderInv
<1>8. EndedIsEnded'
  BY <1>0, <1>1 DEF EndedIsEnded
<1>9. AcceptedIsAccounted'
  <2>1. BatchEntries \cup {e} \subseteq BatchEntries'
    BY <1>1, <1>c DEF BatchEntries
  <2> QED
    BY <1>0, <1>1, <1>2, <2>1 DEF AcceptedIsAccounted
<1> QED
  BY <1>4, <1>7, <1>8, <1>9 DEF PipeInv

\* Stored streams are appended whole; an error leaves them in `failed` too.
LEMMA PushKeeps ==
  ASSUME PipeInv, Push
  PROVE  PipeInv'
<1>0. PipeTypeOK /\ OrderInv /\ EndedIsEnded /\ AcceptedIsAccounted
  BY DEF PipeInv
<1> PICK stored \in BOOLEAN, answered \in BOOLEAN : (answered => stored) /\ Pushed(stored, answered)
  BY DEF Push
<1>1. /\ mode' = mode /\ logger' = logger /\ stamps' = stamps /\ queue' = queue
      /\ stopped' = stopped /\ closing' = closing /\ accepted' = accepted
      /\ batch' = EmptyBatch /\ exchange \in {"pushes", "flushes"}
      /\ exchange' = IF exchange = "pushes" THEN "selects" ELSE "ended"
      /\ remote' = IF stored THEN [l \in Levels |-> remote[l] \o batch[l]] ELSE remote
      /\ failed' = IF answered THEN failed ELSE failed \cup BatchEntries
  BY DEF Push, Pushed
<1>2. \A l \in Levels :
        /\ remote'[l] = IF stored THEN remote[l] \o batch[l] ELSE remote[l]
        /\ remote'[l] \in Seq(Entries)
        /\ ToSet(remote[l]) \subseteq ToSet(remote'[l])
        /\ ToSet(remote'[l]) \subseteq ToSet(remote[l]) \cup ToSet(batch[l])
        /\ stored => ToSet(remote'[l]) = ToSet(remote[l]) \cup ToSet(batch[l])
        /\ batch'[l] = <<>> /\ ToSet(batch'[l]) = {}
  BY <1>0, <1>1, InTypes, OfConcat, OfEmpty DEF EmptyBatch
<1>3. PipeTypeOK'
  <2>1. remote' \in [Levels -> Seq(Entries)]
    BY <1>0, <1>1, <1>2 DEF PipeTypeOK
  <2>2. batch' \in [Levels -> Seq(Entries)]
    BY <1>1, OfEmpty DEF EmptyBatch
  <2>3. failed' \subseteq Entries
    BY <1>0, <1>1, InTypes DEF PipeTypeOK, BatchEntries
  <2> QED
    BY <1>0, <1>1, <2>1, <2>2, <2>3 DEF PipeTypeOK
<1>4. \A l \in Levels : StreamInOrder(l)'
  <2> SUFFICES ASSUME NEW l \in Levels PROVE StreamInOrder(l)'
    OBVIOUS
  <2>1. StreamInOrder(l)
    BY <1>0 DEF OrderInv
  <2>2. Sorted(remote'[l])
    BY <1>0, <1>2, <2>1, InTypes, OfConcat DEF StreamInOrder
  <2>3. Sorted(batch'[l])
    BY <1>2, OfEmpty
  <2>4. Earlier(ToSet(remote'[l]), ToSet(queue))
    BY <1>2, <2>1 DEF StreamInOrder, Earlier
  <2>5. \A x \in Past(l)' : x.stamp <= stamps
    BY <1>1, <1>2, <2>1 DEF StreamInOrder, Past
  <2> QED
    BY <1>1, <1>2, <2>2, <2>3, <2>4, <2>5 DEF StreamInOrder, Earlier
<1>5. \A g \in Loggers : LoggerInOrder(g)'
  <2>1. \A l \in Levels : Past(l)' \subseteq Past(l)
    BY <1>1, <1>2 DEF Past
  <2> QED
    BY <2>1, <1>0, <1>1, LoggersKeep
<1>6. OrderInv'
  BY <1>0, <1>1, <1>4, <1>5 DEF OrderInv, EmptyBatch
<1>7. EndedIsEnded'
  BY <1>0, <1>1 DEF EndedIsEnded
<1>8. AcceptedIsAccounted'
  <2>1. UNION {ToSet(remote[l]) : l \in Levels} \subseteq UNION {ToSet(remote[l]) : l \in Levels}'
    BY <1>2
  <2>2. CASE stored
    <3>1. BatchEntries \subseteq UNION {ToSet(remote[l]) : l \in Levels}'
      BY <1>2, <2>2 DEF BatchEntries
    <3> QED
      BY <1>0, <1>1, <2>1, <3>1 DEF AcceptedIsAccounted
  <2>3. CASE ~stored
    BY <1>0, <1>1, <2>1, <2>3 DEF AcceptedIsAccounted
  <2> QED
    BY <2>2, <2>3
<1> QED
  BY <1>3, <1>6, <1>7, <1>8 DEF PipeInv

\* The bridge writer has no batch: its buffer goes straight to the stream.
LEMMA FlushKeeps ==
  ASSUME PipeInv, Flush
  PROVE  PipeInv'
<1>0. PipeTypeOK /\ OrderInv /\ EndedIsEnded /\ AcceptedIsAccounted
  BY DEF PipeInv
<1> DEFINE e == Head(queue)
           k == e.level
<1>1. /\ queue \in Seq(Entries) /\ queue # <<>> /\ e \in Entries /\ k \in Levels
      /\ queue' = Tail(queue) /\ batch' = batch /\ batch = EmptyBatch
      /\ mode' = mode /\ logger' = logger /\ stamps' = stamps /\ exchange' = exchange
      /\ stopped' = stopped /\ closing' = closing /\ accepted' = accepted
      /\ \/ remote' = [remote EXCEPT ![k] = Append(@, e)] /\ failed' = failed
         \/ remote' = remote /\ failed' = failed \cup {e}
  BY <1>0, InTypes, OfTail DEF Flush, OrderInv
<1>2. /\ Tail(queue) \in Seq(Entries) /\ Len(Tail(queue)) <= QueueSize
      /\ ToSet(queue) = {e} \cup ToSet(queue') /\ Sorted(queue') /\ Earlier({e}, ToSet(queue'))
  <2>1. /\ Tail(queue) \in Seq(Entries) /\ Len(Tail(queue)) = Len(queue) - 1
        /\ ToSet(queue) = {Head(queue)} \cup ToSet(Tail(queue))
        /\ Sorted(queue) => Sorted(Tail(queue)) /\ Earlier({Head(queue)}, ToSet(Tail(queue)))
    BY <1>1, OfTail
  <2>2. Len(queue) \in Nat /\ QueueSize \in Nat /\ Len(queue) <= QueueSize /\ Sorted(queue)
    BY <1>0, InTypes DEF OrderInv, PipeTypeOK
  <2> QED
    BY <1>1, <2>1, <2>2
<1>a. \A q \in Seq(Entries) :
        /\ Append(q, e) \in Seq(Entries) /\ ToSet(Append(q, e)) = ToSet(q) \cup {e}
        /\ Sorted(q) /\ Earlier(ToSet(q), {e}) => Sorted(Append(q, e))
  BY <1>1, OfAppend
<1>b. \A l \in Levels : remote[l] \in Seq(Entries) /\ batch[l] \in Seq(Entries)
  BY <1>0, InTypes
<1> HIDE DEF e, k
<1>3. \A l \in Levels :
        /\ remote'[l] \in Seq(Entries)
        /\ remote'[l] = remote[l] \/ (l = k /\ remote'[l] = Append(remote[l], e))
        /\ ToSet(remote'[l]) \subseteq ToSet(remote[l]) \cup {e}
        /\ ToSet(remote[l]) \subseteq ToSet(remote'[l])
        /\ ToSet(batch[l]) = {}
  <2>1. \A l \in Levels : remote'[l] = remote[l] \/ (l = k /\ remote'[l] = Append(remote[l], e))
    BY <1>0, <1>1 DEF PipeTypeOK
  <2> QED
    BY <1>1, <1>a, <1>b, <2>1, OfEmpty DEF EmptyBatch
<1>4. PipeTypeOK'
  <2>1. remote' \in [Levels -> Seq(Entries)]
    BY <1>0, <1>1, <1>3 DEF PipeTypeOK
  <2>2. failed' \subseteq Entries
    BY <1>0, <1>1 DEF PipeTypeOK
  <2> QED
    BY <1>0, <1>1, <1>2, <2>1, <2>2 DEF PipeTypeOK
<1>5. \A l \in Levels : StreamInOrder(l)'
  <2> SUFFICES ASSUME NEW l \in Levels PROVE StreamInOrder(l)'
    OBVIOUS
  <2>1. StreamInOrder(l) /\ e \in ToSet(queue) /\ ToSet(queue') \subseteq ToSet(queue)
    BY <1>0, <1>2 DEF OrderInv
  <2>2. Earlier(ToSet(remote[l]), {e})
    BY <2>1 DEF StreamInOrder, Earlier
  <2>3. Sorted(remote'[l])
    BY <1>a, <1>b, <1>3, <2>1, <2>2 DEF StreamInOrder
  <2>4. Earlier(ToSet(remote'[l]), ToSet(queue'))
    BY <1>2, <1>3, <2>1 DEF StreamInOrder, Earlier
  <2>5. \A x \in Past(l)' : x.stamp <= stamps
    BY <1>1, <1>3, <2>1 DEF StreamInOrder, Past
  <2> QED
    BY <1>1, <1>3, <2>1, <2>3, <2>4, <2>5 DEF StreamInOrder, Earlier
<1>6. \A g \in Loggers : LoggerInOrder(g)'
  <2>1. \A l \in Levels : Past(l)' \subseteq Past(l)
    BY <1>1, <1>2, <1>3 DEF Past
  <2> QED
    BY <2>1, <1>0, <1>1, LoggersKeep
<1>7. OrderInv'
  BY <1>0, <1>1, <1>2, <1>5, <1>6 DEF OrderInv, EmptyBatch
<1>8. EndedIsEnded'
  BY <1>0, <1>1 DEF EndedIsEnded
<1>9. AcceptedIsAccounted'
  <2>1. BatchEntries' = BatchEntries
    BY <1>1 DEF BatchEntries
  <2>2. UNION {ToSet(remote[l]) : l \in Levels} \subseteq UNION {ToSet(remote[l]) : l \in Levels}'
    BY <1>3
  <2>3. e \in failed' \cup UNION {ToSet(remote[l]) : l \in Levels}'
    <3>1. CASE remote' = remote /\ failed' = failed \cup {e}
      BY <3>1
    <3>2. CASE remote' = [remote EXCEPT ![k] = Append(@, e)]
      <4>1. remote'[k] = Append(remote[k], e)
        BY <3>2, <1>0, <1>1 DEF PipeTypeOK
      <4>2. e \in ToSet(remote'[k])
        BY <4>1, <1>a, <1>b, <1>1
      <4> QED
        BY <4>2, <1>1
    <3> QED
      BY <1>1, <3>1, <3>2
  <2> QED
    BY <1>0, <1>1, <1>2, <2>1, <2>2, <2>3 DEF AcceptedIsAccounted
<1> QED
  BY <1>4, <1>7, <1>8, <1>9 DEF PipeInv

LEMMA PipeStepKeeps == PipeInv /\ [PipeNext]_pipeVars => PipeInv'
<1> SUFFICES ASSUME PipeInv, [PipeNext]_pipeVars PROVE PipeInv'
  OBVIOUS
<1>1. CASE UNCHANGED pipeVars
  BY <1>1 DEF PipeInv, PipeTypeOK, OrderInv, StreamInOrder, LoggerInOrder, Past, EmptyBatch,
              EndedIsEnded, AcceptedIsAccounted, BatchEntries, pipeVars
<1> QED
  BY <1>1, LogKeeps, HandOverKeeps, QuietKeeps, TakeKeeps, PushKeeps, FlushKeeps DEF PipeNext

LEMMA PipeInvHolds == PipeSpec => []PipeInv
  BY PipeInitHolds, PipeStepKeeps, PTL DEF PipeSpec

-----------------------------------------------------------------------------

\* Types of promtail/client.go:107-120 and logbridge.go:39-47; the queue is bounded.
THEOREM PipeTypeCorrect == PipeSpec => []PipeTypeOK
<1>1. PipeInv => PipeTypeOK
  BY DEF PipeInv
<1> QED
  BY <1>1, PipeInvHolds, PTL

LEMMA PipeIsInOrder == PipeInv => InOrderOnce
  BY DEF PipeInv, OrderInv, StreamInOrder, Sorted, InOrderOnce

\* Every stream has the entries of a goroutine in order and once (client.go:198-226).
THEOREM StreamsInOrder == PipeSpec => []InOrderOnce
  BY PipeIsInOrder, PipeInvHolds, PTL

\* What the queue took is never gone in silence (client.go:146, 203-206).
THEOREM NothingInSilence == PipeSpec => []AcceptedIsAccounted
<1>1. PipeInv => AcceptedIsAccounted
  BY DEF PipeInv
<1> QED
  BY <1>1, PipeInvHolds, PTL

\* The exchange of the direct writer has ended before Close returns.
LEMMA PipeStepIsQuiet ==
  PipeInv /\ [PipeNext]_pipeVars
    => [mode = "direct" /\ closing = "done" => UNCHANGED <<remote, failed>>]_pipeVars
<1> SUFFICES ASSUME PipeInv, [PipeNext]_pipeVars
             PROVE  [mode = "direct" /\ closing = "done" => UNCHANGED <<remote, failed>>]_pipeVars
  OBVIOUS
<1>1. mode = "direct" /\ closing = "done" => exchange = "ended"
  BY DEF PipeInv, EndedIsEnded
<1> QED
  BY <1>1 DEF PipeNext, Log, LogfWithLabels, PublishAsync, Take, Timer, Stop, Push, Flush, Close, Closed

\* After Close of the direct writer nothing is pushed (client.go:175-181, 229-240).
THEOREM CloseIsLast == PipeSpec => QuietAfterClose
  BY PipeStepIsQuiet, PipeInvHolds, PTL DEF PipeSpec, QuietAfterClose
==============================================================================
