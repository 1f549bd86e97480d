------------------------------- MODULE LogPipe -------------------------------
(***************************************************************************)
(* pkg/log: the log writer of a service.  Setup gives logx a MultiWriter   *)
(* around one remote writer: "direct" is logloki on the promtail client    *)
(* (a queue, a goroutine that batches it, a push to Loki), "bridge" is     *)
(* iotlogbridge (PublishAsync to JetStream).  LogBridge goes on from the   *)
(* stream.  The writer is closed when main returns.                        *)
(***************************************************************************)
EXTENDS Integers, Sequences, SequencesExt, FiniteSets

CONSTANTS
  Loggers,        \* goroutines that log
  Levels,         \* levels that have a cached stream
  QueueSize,      \* exchangeQueueSize (1024), or what nats.go buffers
  SendBatchSize,
  MaxEntries      \* bound: entries logged

ASSUME PipeAssumption ==
  /\ QueueSize \in Nat \ {0} /\ SendBatchSize \in Nat \ {0} /\ MaxEntries \in Nat

NoEntry == [by |-> "none", stamp |-> 0, level |-> "none"]
Entries == [by : Loggers, stamp : 1 .. MaxEntries, level : Levels]

VARIABLES
  mode,      \* LokiConf.Mode
  logger,    \* goroutine -> the entry it has stamped and not yet handed over
  stamps,    \* entries stamped so far: the time
  queue,     \* the queue of the client, or the buffer of the connection
  batch,     \* level -> entries of the stream: logStreamBatch
  exchange,  \* the goroutine of the client: "selects", "pushes", "flushes" (at stop), "ended"
  stopped,   \* isStopped, closed
  closing,   \* Close: "no", "waits", "done"
  remote,    \* level -> entries that Loki or the stream has stored
  accepted,  \* history: entries that were handed over
  failed     \* history: entries of pushes and publications that failed with an error

pipeVars == <<mode, logger, stamps, queue, batch, exchange, stopped, closing,
              remote, accepted, failed>>

\* reset: an empty stream for every level.
EmptyBatch == [l \in Levels |-> <<>>]

BatchEntries == UNION {ToSet(batch[l]) : l \in Levels}
CountEntries == Cardinality(BatchEntries)

\* Setup makes the one that LokiConf.Mode asks for.
RemoteWriters == {"direct", "bridge"}

PipeInit ==
  /\ mode \in RemoteWriters
  /\ logger = [g \in Loggers |-> NoEntry]
  /\ stamps = 0 /\ queue = <<>> /\ batch = EmptyBatch
  /\ exchange = IF mode = "direct" THEN "selects" ELSE "ended"
  /\ stopped = FALSE /\ closing = "no"
  /\ remote = EmptyBatch /\ accepted = {} /\ failed = {}

-----------------------------------------------------------------------------
(* A goroutine logs.                                                       *)

\* MultiWriter calls its writer, which looks whether it is closed and takes the
\* time.  The hand-over is a later step, without a lock in between.
Log(g, l) ==
  /\ logger[g] = NoEntry /\ ~stopped /\ stamps < MaxEntries
  /\ stamps' = stamps + 1
  /\ logger' = [logger EXCEPT ![g] = [by |-> g, stamp |-> stamps + 1, level |-> l]]
  /\ UNCHANGED <<mode, queue, batch, exchange, stopped, closing, remote, accepted, failed>>

\* Mutant: one more entry than the queue holds.
MutantLogfWithLabels(g) ==
  /\ mode = "direct" /\ logger[g] # NoEntry
  /\ logger' = [logger EXCEPT ![g] = NoEntry]
  /\ Len(queue) <= QueueSize
  /\ queue' = Append(queue, logger[g]) /\ accepted' = accepted \cup {logger[g]}
  /\ UNCHANGED <<mode, stamps, batch, exchange, stopped, closing, remote, failed>>

\* The entry is queued, or dropped without a word when the queue is full.
LogfWithLabels(g) ==
  /\ mode = "direct" /\ logger[g] # NoEntry
  /\ logger' = [logger EXCEPT ![g] = NoEntry]
  /\ IF Len(queue) < QueueSize
       THEN queue' = Append(queue, logger[g]) /\ accepted' = accepted \cup {logger[g]}
       ELSE UNCHANGED <<queue, accepted>>
  /\ UNCHANGED <<mode, stamps, batch, exchange, stopped, closing, remote, failed>>

\* The entry is buffered by the connection; an error (a full buffer, a connection
\* whose Drain has come far enough) is printed and the entry is gone.
PublishAsync(g) ==
  /\ mode = "bridge" /\ logger[g] # NoEntry
  /\ logger' = [logger EXCEPT ![g] = NoEntry]
  /\ \/ /\ Len(queue) < QueueSize
        /\ queue' = Append(queue, logger[g]) /\ accepted' = accepted \cup {logger[g]}
     \/ /\ Len(queue) = QueueSize \/ closing = "done"
        /\ UNCHANGED <<queue, accepted>>
  /\ UNCHANGED <<mode, stamps, batch, exchange, stopped, closing, remote, failed>>

-----------------------------------------------------------------------------
(* The exchange goroutine.                                                 *)

\* An entry without labels goes to the stream of its level.
Add(e) == batch' = [batch EXCEPT ![e.level] = Append(@, e)]

Take ==
  /\ exchange = "selects" /\ queue # <<>>
  /\ queue' = Tail(queue)
  /\ Add(Head(queue))
  /\ exchange' = IF CountEntries + 1 >= SendBatchSize THEN "pushes" ELSE "selects"
  /\ UNCHANGED <<mode, logger, stamps, stopped, closing, remote, accepted, failed>>

\* Mutant: the timer resets the batch and does not push it.
MutantTimer ==
  /\ exchange = "selects" /\ CountEntries > 0
  /\ batch' = EmptyBatch
  /\ UNCHANGED <<mode, logger, stamps, queue, exchange, stopped, closing, remote, accepted, failed>>

\* batchTimer fires.
Timer ==
  /\ exchange = "selects" /\ CountEntries > 0
  /\ exchange' = "pushes"
  /\ UNCHANGED <<mode, logger, stamps, queue, batch, stopped, closing, remote, accepted, failed>>

\* stopSignal is closed: the batch is pushed, what is in the queue is not.
Stop ==
  /\ exchange = "selects" /\ stopped
  /\ exchange' = IF CountEntries > 0 THEN "flushes" ELSE "ended"
  /\ UNCHANGED <<mode, logger, stamps, queue, batch, stopped, closing, remote, accepted, failed>>

\* Mutant: the batch of a push that failed is kept for the next one.
MutantPushed(stored, answered) ==
  /\ remote' = IF stored THEN [l \in Levels |-> remote[l] \o batch[l]] ELSE remote
  /\ failed' = IF answered THEN failed ELSE failed \cup BatchEntries
  /\ batch' = IF answered THEN EmptyBatch ELSE batch

\* Push ends: Loki has the streams or not, and the client has its answer or an
\* error; the batch is reset either way.
Pushed(stored, answered) ==
  /\ remote' = IF stored THEN [l \in Levels |-> remote[l] \o batch[l]] ELSE remote
  /\ failed' = IF answered THEN failed ELSE failed \cup BatchEntries
  /\ batch' = EmptyBatch

Push ==
  /\ exchange \in {"pushes", "flushes"}
  /\ \E stored, answered \in BOOLEAN : (answered => stored) /\ Pushed(stored, answered)
  /\ exchange' = IF exchange = "pushes" THEN "selects" ELSE "ended"
  /\ UNCHANGED <<mode, logger, stamps, queue, stopped, closing, accepted>>

\* The connection sends what it has buffered; a message may be lost on the way,
\* and its acknowledgement is never looked at.
Flush ==
  /\ mode = "bridge" /\ queue # <<>>
  /\ queue' = Tail(queue)
  /\ LET e == Head(queue) IN
       \/ /\ remote' = [remote EXCEPT ![e.level] = Append(@, e)]
          /\ UNCHANGED failed
       \/ /\ failed' = failed \cup {e}
          /\ UNCHANGED remote
  /\ UNCHANGED <<mode, logger, stamps, batch, exchange, stopped, closing, accepted>>

-----------------------------------------------------------------------------
(* Close.                                                                  *)

\* Mutant: Close does not wait for stopAwaiter.
MutantClose ==
  /\ closing = "no"
  /\ stopped' = TRUE /\ closing' = "done"
  /\ UNCHANGED <<mode, logger, stamps, queue, batch, exchange, remote, accepted, failed>>

\* The flag, and the signal or Drain, which does not wait.
Close ==
  /\ closing = "no"
  /\ stopped' = TRUE
  /\ closing' = IF mode = "direct" THEN "waits" ELSE "done"
  /\ UNCHANGED <<mode, logger, stamps, queue, batch, exchange, remote, accepted, failed>>

\* Mutant: the loop waits for an empty queue and a new entry that never comes.
MutantClosed ==
  /\ closing = "waits" /\ exchange = "ended" /\ queue # <<>>
  /\ closing' = "done"
  /\ UNCHANGED <<mode, logger, stamps, queue, batch, exchange, stopped, remote, accepted, failed>>

\* <-stopAwaiter.
Closed ==
  /\ closing = "waits" /\ exchange = "ended"
  /\ closing' = "done"
  /\ UNCHANGED <<mode, logger, stamps, queue, batch, exchange, stopped, remote, accepted, failed>>

PipeNext ==
  \/ \E g \in Loggers : (\E l \in Levels : Log(g, l)) \/ LogfWithLabels(g) \/ PublishAsync(g)
  \/ Take \/ Timer \/ Stop \/ Push \/ Flush \/ Close \/ Closed

\* The goroutines go on and Loki answers, one way or the other: the http client
\* of the exchanger has no time limit of its own.
PipeFairness ==
  /\ WF_pipeVars(Take \/ Timer \/ Stop)
  /\ WF_pipeVars(Push) /\ WF_pipeVars(Closed)

PipeSpec == PipeInit /\ [][PipeNext]_pipeVars /\ PipeFairness

-----------------------------------------------------------------------------
(* Properties.                                                             *)

\* The types of the writer's state (promtail/client.go:107-120, logbridge.go:39-47).
PipeTypeOK ==
  /\ mode \in RemoteWriters /\ stopped \in BOOLEAN
  /\ logger \in [Loggers -> Entries \cup {NoEntry}]
  /\ stamps \in 0 .. MaxEntries
  /\ queue \in Seq(Entries) /\ Len(queue) <= QueueSize
  /\ batch \in [Levels -> Seq(Entries)] /\ remote \in [Levels -> Seq(Entries)]
  /\ exchange \in {"selects", "pushes", "flushes", "ended"}
  /\ closing \in {"no", "waits", "done"}
  /\ accepted \subseteq Entries /\ failed \subseteq Entries

\* A stream holds the entries of one goroutine in the order it logged them, and
\* none twice, over failed pushes whose streams Loki has stored (client.go:198-226,
\* logbridge.go:119): nothing is ever pushed again.
InOrderOnce ==
  \A l \in Levels : \A i, j \in DOMAIN remote[l] :
    i < j /\ remote[l][i].by = remote[l][j].by => remote[l][i].stamp < remote[l][j].stamp

\* An entry the queue has accepted is in the process, or stored, or part of a
\* push that ended with an error: only a full queue drops in silence
\* (client.go:146, client.go:203-206).
AcceptedIsAccounted ==
  accepted \subseteq ToSet(queue) \cup BatchEntries \cup failed
                     \cup UNION {ToSet(remote[l]) : l \in Levels}

\* When Close of the direct writer has returned, nothing more is pushed: what
\* was still in the queue, or came late, is lost (client.go:175-181, 229-240).
QuietAfterClose ==
  [][mode = "direct" /\ closing = "done" => UNCHANGED <<remote, failed>>]_pipeVars

\* Close returns as long as Loki answers, however many goroutines log meanwhile
\* (client.go:131, 175-181).
CloseReturns == closing = "waits" ~> closing = "done"
=============================================================================
