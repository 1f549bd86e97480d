# rainIot: TLA+ models, model checking and proofs

rainIot is an IoT back end in Go: devices hold WebSocket connections to the
`iotws` gateways, which pass messages on to `iotdevice`, while `iotcron` balances
connections between gateways and `iotlogbridge` carries logs from NATS JetStream
to Loki. This directory models its concurrent core in TLA+, checks the models
with TLC and proves with TLAPS all that TLC checks except liveness.

Paths below are relative to `src/`. `PROJECT.json` lists the runs with their
properties, the source lines behind every definition (`map`), the mutant that
breaks each property (`mutants`), the hazards, the findings and the theorems.

## 1. Inventory

| Component | State | Operations | Talks to | What is hard |
|---|---|---|---|---|
| **iotws gateway** (`app/iotws/cmd/internal/ws`, `handler/iotwshandler.go`) | sockets, their sessions, `SoketMap` (connId to socket), `count` | upgrade, `OnMessage`, `OnClose`, `ServerOnClose`, `CloseAll` | devicecli, redis | callbacks of one socket in parallel, two sockets of one device, crash, shutdown |
| **route refresh** (`logic/cron/iotconnsnlogic.go`) | a snapshot of connIds, the pipeline's results | every 5 min: range, `SET XX` pipeline, close the first failed connection | table, redis `conn:<sn>` | three reads of the table at three times, partial errors |
| **login** (`app/iotdevice/.../iotloginlogic.go`) | redis `conn:<sn>` with a TTL of 6 min | set the route of a known sn | database, redis | the answer is lost after the route is set |
| **devicecli** (`pkg/devicecli/devicecli.go`) | mode, three clients, the chain slice, a RW lock | `Push` with fallback, `Reload` | transports | a slice walked without the lock and rewritten in place, overlapping reloads |
| **transports** (`pkg/devicecli/{httpc,grpc,mq}`) | HTTP round robin, NATS connection | `Push` with retries | iotdevice | retries of what was already done |
| **iotdevice** (`handler`, `handler/nats`, `server`, `logic`) | NATS workers | dispatch by cmd over HTTP, gRPC and NATS | redis, database, NATS | redelivery, Ack and Nak, a message refused for ever, a cmd found by its bytes |
| **balance** (`iotcron` planner, `iotws` worker, `pkg/cache/publish.go`) | counts per server in redis, asynq tasks | publish count, plan, hand connections over | gateways, devices | stale counts, map order, arithmetic; nothing connects its parts |
| **log bridge** (`app/iotlogbridge`, `pkg/log/iotlogbridge`) | channel, batch, JetStream consumer | publish, deliver, flush, push, Ack/Nak | JetStream, Loki | an Ack before the push, crash, redelivery, refused push, full channel |
| **promtail client** (`pkg/log/promtail`) | queue, batch, timer | log, flush, stop | Loki | drop when full, stop with a queue |
| **redis lock** (`pkg/cache/lock.go`) | a key with a TTL | lock, blocking lock, unlock | redis | expiry, lost answer; no caller yet |
| **configuration, registry, resolvers** (`pkg/configcli`, `pkg/registry`, `pkg/devicecli/grpc/{instances,rpcn}`, `svc/servicecontext.go`) | configuration, lists of addresses | start-up, hot update, subscribe, build and close a resolver | nacos, grpc | a callback before start-up is through, documents that cannot be read or lack the key, lists that overtake one another in the pipe, goroutines of a closed resolver |
| **log writers** (`pkg/log/setup.go`, `logmulti`, `logloki`) | the writer of logx | log, close | promtail client, JetStream | an entry handed over after Close |
| **brokers** (`pkg/queue`), wiring, helpers, generated code | – | – | – | – |

Interactions: a message from a device is a callback in iotws that calls
`devicecli.Push` synchronously; iotdevice answers with the connId (only the HTTP
transport carries an answer) and writes `conn:<sn>`, which iotdevice and `/notice`
callers read to find the gateway; the cron of each gateway renews `conn:<sn>` for
every entry of its table and closes a connection whose key is gone; `count` is
meant for redis and the balancer (section 5 says why it does not get there).

What makes each component correct:

* *gateway*: the counter is the number of live, logged-in sockets; the table has
  no dead socket and loses no live one; shutdown reaches every socket; an
  entry's route is restored or its socket closed; an offline device loses its route.
* *devicecli*: the chain is what the mode says, in priority order; a Push tries
  each client once in that order; no NATS client is leaked or used after Close.
* *log bridge*: main.go promises that a message is settled only when Loki has it.
  The code keeps less: a settled message is at Loki or in memory until a failed push
  or a crash takes it, every other one gets to Loki in the end; the channel, the
  batch and the unanswered messages stay bounded.
* *transports and iotdevice*: a message reported as delivered was handled or is
  with NATS, or was dropped there for want of a readable cmd; it is handled twice
  only when an answer was lost; a push ends; a message that is refused for ever
  does not keep a login from being handled.
* *balance*: what receivers are promised is what they lack; right numbers lift
  nobody above the mean.
* *lock*: mutual exclusion within the TTL, and the key goes away.
* *log writers*: a stream has the entries of a goroutine in order and none twice;
  an accepted entry is stored or belongs to a push that failed; Close ends it all.
* *configuration, resolvers*: the newest list that can be read reaches the
  connection, none is replaced by an older one, and a closed resolver leaves no
  goroutine.

## 2. Modules

| Module | Models |
|---|---|
| `WsGateway` | gateways, sockets, callbacks, table, routes, refresh, shutdown and crash |
| `WsLedger` | abstract: what the counter promises to the balancer |
| `WsGatewayProps` | properties of `WsGateway`, refinement mapping to `WsLedger` |
| `LogBridge` | writer, JetStream, callback, channel, `flushLoop`, Loki, crash; its properties and refinement mapping |
| `LogDelivery` | abstract: what the log pipeline promises, early acknowledgement included |
| `DeviceCli` | `Push` and `Reload` on a shared slice; its properties |
| `IotDevice` | the nodes of iotdevice, their two NATS subjects, what becomes of a message |
| `Transports` | extends `IotDevice` by the senders: gRPC, NATS and HTTP with their retries; the properties of both |
| `RedisLock` | the lock in redis and its expiry; its properties |
| `Balance` | the planner of iotcron and the worker of iotws; its properties |
| `LogPipe` | the two log writers of a service, up to Loki or the stream; its properties |
| `Discovery` | configuration at start-up and under way, the two gRPC resolvers; its properties |
| `MCWsGateway`, `MCLogBridge`, `MCDeviceCli`, `MCUpstream` | model values and symmetry for TLC |
| `MCServices` | `RedisLock`, `Balance`, `LogPipe` and `Discovery` in one run |
| `WsGatewayProofs`, `LogBridgeProofs`, `DeviceCliProofs`, `TransportsProofs`, `BalanceProofs`, `LogPipeProofs`, `DiscoveryProofs` | theorems about the module they are named after, with the inductive invariants they need |
| `ServicesProofs` | theorems about `RedisLock`, and about `MCServices` from those of its four parts |

Operators whose name begins with `Mutant` are deliberate errors, each next to
the definition it replaces; no specification uses them.

### WsGateway

A process is a socket or a worker. A socket's `pc` follows its goroutine: the
upgrade handler (`Storage` when the URL has a connId), the ReadLoop (`reading`),
then `OnClose`. A worker is the goroutine of one `OnMessage`. Labels stand where
another goroutine can see or change something:

| pc | code |
|---|---|
| `store`, `count` | the two statements of `connection.Storage` |
| `push` | `Fn` of a socket that has a connId is under way |
| `login`, `granted` | `Fn("", msg)` is under way; iotdevice has set the route |
| `fail` | `Fn` failed, the deferred `ServerOnClose` is next |
| `unroute`, `decr`, `delete` | `redis.Del`, then the two statements of `connection.Del`, for `OnClose` and `ServerOnClose` |
| `hangup` | `NetConn().Close()` at the end of `ServerOnClose` |

`soketMap`, `count`, `conn` are the code's `SoketMap`, `count` and the redis key
`conn:<sn>`. `fired` replaces time: the TTL (6 min) is longer than the refresh
period (5 min), so a key expires only when every running gateway has started a
refresh since it was set. `owed` is a history variable for `CloseAllReachesAll`.

Choices worth knowing:

* `Recv` merges the dispatch with the load of the session's connId. Both come
  before the first call and nothing observes the moment between them.
* The route is set in one step just before `Fn` returns (`LoginSet`), as the last
  thing the login does; the answer may still be lost (`LoginFails` at `granted`).
* `RangeVisit` visits one key at a time: `sync.Map.Range` is no snapshot.
* A missed ping, an expired deadline, a failed write and a peer that leaves are
  one action, `Disconnect`. `OnPing` and `OnPong` only extend the deadline.
* `CloseFailed` ends the refresh, as the `return` at iotconnsnlogic.go:54-55 does.
* `Exit` may happen at any time, with or without a stop signal. A call that an
  exited gateway had under way at iotdevice is dropped with it.
* Environment constants, none of them in the code: `Exclusive` (a device has one
  socket at a time, a socket one device), `RedisFaults`, `NodeFaults`.
  `ParallelEnabled` is the configuration field of that name (default true).

### LogBridge

`st` is what JetStream knows of a message, `ch` and `buf` are the channel and
the batch of a bridge, `phase` where `flushLoop` is. The subscription at
main.go:163-181 does not pass `nats.ManualAck()`, so nats.go acknowledges a message
when the callback returns, that is, when the copy is in the channel
(`PutAndAck`). There is no other configuration and the model has none. The copy may still be
unsettled: the acknowledgement is lost, or `flushLoop`'s own is faster. Only then do the Ack
and Nak of `flushLoop` (`AnswerNext`) mean anything. `AckWaitOver` may come at any
time, so copies of one message pile up. A push that returns an error may have
been stored. An answer may be lost.

Counters: `MaxFaults` bounds crashes and copies that nats.go does not settle; the
copies of a message are bounded by the sizes of the channel and the batch, as in
the code. `BatchSize` is the configuration field; the channel and `MaxAckPending`
are twice that.

### DeviceCli

`arr` has one backing array per capacity, because `append` to an empty slice
gives capacities 1, 2 and 4 and never shrinks, and `d.chain[:0]` keeps the
array. `chain` is the slice header. A slot is a two-word interface, and
`AppendInPlace` writes it in two steps when its type changes: between them a
reader without the lock may see a mixture (`Torn`), whose use is a panic at best.
`NilNats` is the nil `*deviceNatsCli` of a failed `mq.NewDeviceCli` that `Reload`
assigns to an interface variable: it is not equal to nil, enters the chain, and
panics when used. Only the NATS client has a `Close()` of the interface's
signature, so only NATS clients have identities. `Reload` has no caller in
the repository yet; its comment says it is to be called from a configuration
callback, which is what the model does, from several goroutines.

`stale` and `overlap` are history variables: whether a commit happened since the
Push began, and whether two calls of Reload have overlapped.

### IotDevice and Transports

A node is either in `StartRouter`, which consumes and never returns as long as
the broker works, or serves HTTP and gRPC: `StartRouter` ends in `select {}`, and
the servers are started after it. `node` says which; `"routes"` is a node
whose second `Subscribe` has failed. With `rabbitmq` as the broker, `Subscribe`
and `Publish` panic, as nothing sets the context and the publisher they use.

`ingress` and `cmdq` count the copies of a message under the subject and
under `<subject>_login`. The first consumer publishes on the second subject and
acknowledges after that; `cmdStream` is whether the stream of the second subject
exists, which the subscriber makes. What a message carries is in `what` and `found`: the
cmd that JSON and protojson read, and whether `extractCmd`, which looks for the
bytes `"cmd":"`, finds a registered one. They differ when there is a space after
the colon, or when other data has those bytes in front.

`worker` is the message a node's second consumer has in its hands: `Receive` takes
it and `ProcessMessage` ends with an Ack or, when the logic fails, with a Nack that
brings the copy back at once. A subscription hands out one message at a time
(`SubscribersCount` is not set), so the limit of parallel workers is never reached and
is left out.

A `requests` member is a call that a node has or will have: the sender may have
timed out since. `push[m]` is the sender's call of `Push`: `i` is the client of the
chain, `tries` its attempts, `tried` the HTTP instances it has asked, `spent`
whether the one `bytes.Buffer` of the HTTP request has been read. `Pick` reads the
round-robin counter and `Increment` writes it, with other pushes in between.
`lost` counts the answers and acknowledgements of a message that were lost,
`faults` bounds them together with the crashes.

Facts of the code the model keeps: an error of the logic is final for gRPC (a
fallback follows) and a *success* for HTTP, where it is a status 400; a body that
breaks off ends HTTP without another attempt; a request without instances
fails at once; an address picked twice uses up an attempt.

### RedisLock

`Lock` is SET NX with a TTL, `BlockUntilLock` repeats it every 5 s up to its limit,
`Unlock` deletes the key without looking whose it is. Any answer may be lost and
any delete may fail. Time is `Tick`; `outlived` records that a key has expired in
its holder's hands. The repository has no caller: `Clients` unlock what they
locked, after any time.

### Balance

`IotwsBalanced(f)` starts the planner with the map `f` of numbers of connections,
true or stale; `NextSender` and `Give` are the two loops, in every order a Go map
may have. When a receiver takes all the sender has left, the code lowers the
deficit but neither empties the sender nor ends the loop, so the same connections
are promised to the next receiver again, and the model does that. `ProcessTask` is the worker's whole task: the
slots of `GetConnByCount`, of which the first stays nil, cut into parts. It may
run again when its last write to redis fails. `exact` records whether the numbers
were right when planned and no task has been repeated.

Two links are missing in the source. `TryBalance` looks for keys with a `KEYS`
pattern that has no wildcard, finds nothing and never calls `IotwsBalanced`; and
what `cache/publish.go` publishes is not what the asynq worker receives. Both
ends are modelled as written, the links are external.

### LogPipe

`mode` is the writer that `Setup` makes. A goroutine that logs first passes the
check of the closed flag and takes its time stamp (`Log`), and hands its entry over
in a later step (`LogfWithLabels` to the queue of the promtail client,
`PublishAsync` to the connection), with anything in between. `exchange` is the
goroutine that batches the queue; `Pushed` has the four ways in which a push ends.
`Close` of the direct writer waits for the goroutine, that of the bridge writer
drains in the background. `LogBridge` goes on from the stream.

### Discovery

`source` is the version nacos has: of the document of the configuration, or of the
instances in the registry. `listed` are the documents from which `json.Unmarshal` takes
a list for `iotdevice.grpc`. Its error is ignored (servicecontext.go:35 and 42) and it
decodes into the live map, so any other document, be it unreadable or without
the key, leaves the list there is (`Merged`). `config` is the document the list in
use is from, `given` the last one of those the listener was told that has a list.

`boot` follows `NewServiceContext`: fetch the configuration, listen for changes, and
apply what was fetched *without* the lock the callback takes; `early` records that the
last list came before that. It ends in the registry, whose successful registration
logs through a nil `Logger` and ends the process.

A resolver has a feeder (a ticker for `instances`, a callback for `nacos`), an
unbuffered pipe (`offer`, `held`) and `populateEndpoints`. An address list is
that of a version: `Healthy` of it is what `Build` of the nacos resolver selects
(rpcn/builder.go:35), `Whole` what its callback offers, which does not ask who is healthy. A
callback with an error drops its list (`missed`). `told` and `heard` are what nacos
has told a listener: it calls again when that is out of date. Only `ConfigModel =
"nacos"` is modelled: without it the configuration is a file and never changes.

## 3. Runs

| Run | Configuration | Shows |
|---|---|---|
| `gateway_sequential` | `ParallelEnabled` off; 1 gateway, 2 sockets, 2 devices, 1 worker; redis and node faults; overlap | `TypeOK`, `CountIsRegistered`, `NoDeadEntry`, `EntryLostOnlyByOverlap`, and that the counter implements `WsLedger`. 1.2 million states |
| `gateway_live` | as above without faults, under fairness | `EntryIsRefreshedOrClosed`, `OfflineRouteExpires`. 305,000 states |
| `gateway_parallel` | `ParallelEnabled` on, one socket per device at a time; 2 sockets, 2 workers, node faults | `CloseAllReachesAll`, `RegisteredIsFound`, `EntryIsAuthenticated`. 876,000 states |
| `gateway_late_login` | `ParallelEnabled` on, 1 device | violates `NoDeadEntry` (finding 1) |
| `gateway_overlap_stop` | two sockets of one device, a stop | violates `CloseAllReachesAll` (finding 2) |
| `logbridge` | 1 bridge, 3 messages, 1 of them unreadable, batches of 2, 3 crashes or copies not settled early, under fairness | `TypeOK`, `AckedIsHeld`, `AckingIsStored`, `Bounded`, and `PromiseKept`: the bridge implements `LogDelivery`, liveness included. 207,000 states |
| `logbridge_autoack` | batches of 1, 1 fault | violates `AckedIsStored` (finding 3) |
| `devicecli` | 2 reloaders, 1 pusher, 3 reloads, NATS may fail to connect; every initial mode | `TypeOK`, `ChainIsCurrent`, `CurMatchesMode`, `NatsAccounted`, `UndisturbedPush`. 2.6 million states |
| `devicecli_reload` | the same | violates `TriedInOrder` (finding 4) |
| `upstream` | 2 messages of which one is a login, with and without a cmd that `extractCmd` finds, 2 nodes, the chain gRPC, NATS, HTTP, 1 fault, under fairness | `UpTypeOK`, `OkIsCovered`, `HandledOnce`, `TriesAll`, `PushReturns`, `NatsHandled`. 214,000 states |
| `upstream_spaced` | the same | violates `LoginIsKept` (finding 5) |
| `services` | one of four parts: the lock with 3 clients; the balance of 4 servers; a log writer with 2 goroutines, 2 levels and 3 entries; 2 resolvers and 2 versions; under fairness | `ServicesTypeOK`; lock: `OneHolderUntilOutlived`, `KeyExpires`; balance: `DeficitAccounted`, `ReceiverWithinMean`; log: `InOrderOnce`, `AcceptedIsAccounted`, `QuietAfterClose`, `CloseReturns`; discovery: `ConfigIsLatest`, `AddressesCatchUp`, `NeverBack`, `NoGoroutineLeft`. 119,000 states |

*Why the bounds are enough.* Interference in the gateway is between two sockets
of one connId, between two callbacks of one socket, and between a callback and
the refresh or the shutdown: two sockets, two workers and one gateway give all
pairs. A second gateway meets the first only through `conn:<sn>`, whose deletion
and overwriting redis faults, expiry and overlapping sockets already cause. The
proofs cover any number of each. In the log bridge a channel of four with
two readable messages is full only by redelivery, the case that matters; three
faults let both messages of a batch come back and the bridge crash with them. That the
unanswered messages stay within `MaxAckPending`, four, is not put to the test with
three messages: this part of `Bounded` rests on the proof. Three reloads are what it takes to
change a mode and change it back between the snapshot and the commit of another
Reload, and the three transports fill arrays of every capacity.

In `upstream` one retry of gRPC and NATS instead of three and two attempts of
HTTP instead of three still have a first attempt, a further one and the change
to the next transport, and with two nodes the round robin wraps around, repeats
an address and finds a second instance. One fault is what tells a message
handled twice because of a loss from one handled twice for nothing; the
proof of `HandledOnce` covers any number. The messages start as a login beside a
stranger's login, which is refused and comes back for ever, or as a login that
`extractCmd` does not find beside an unknown cmd whose data has the bytes of a
registered one; `broker` with either.

In `services` the variable `part` picks one component in the initial state and the
others stand still: they share no state in the code, so a product would show
nothing more. The lock: two waiters besides the holder, a TTL of 4 ticks and
a time limit of 2, the proportions of 10 s and 5 s. The balance: four servers
with 0 or 300 connections have every split into senders and receivers, also the
one where the senders' excess is promised twice; numbers a planner is called
with are any of these, true or not. The log: 3 entries for a queue and a
batch of 2 each. Discovery: a resolver and its successor, a version and its
successor, each with or without a list; the second one may come at any moment of
start-up or of the pipe.

*Deadlock* is checked for `devicecli`. It is switched off for the gateway, whose
sockets are used up when no fault restarts anything, for the log bridge,
which rests when every message is settled, for `upstream`, whose pushes end, and for `services`, where a closed log
writer, a planner whose rounds are used up and the last resolver are at their end.

*Fairness.* Gateway: a goroutine that can run does; a call to iotdevice returns
because every transport has a timeout (5 s for gRPC, 3 s for HTTP, bounded retries
for NATS); cron keeps firing until the listener stops it; time passes, so a key
that nothing renews expires; go-zero kills a process told to stop when its grace
period is over. Peers owe nothing. Log bridge: AckWait passes; `flushLoop` runs on
and its ticker ticks, which includes that a push returns, with whatever
outcome, although `pushToLoki` has no timeout (the hazard at main.go:289); JetStream
delivers a message again and again, and not every acknowledgement of it is
lost (strong fairness of `Settles`). Nothing is said of Loki: it may refuse
every push. Transports (`UpFairness`): somebody goes on while anybody can, but for new
calls, faults and the workers of NATS; a worker of a node gets to its Ack or Nack.
JetStream does not pass over a login for ever in favour of others, nor does its logic fail for ever
when it is tried again and again (strong fairness of `Receive` and of a successful
`ProcessMessage`): that the Nack of a refused message is answered with the same message first is
the server's choice, and that redis and the database come back the environment's; the code decides neither.
Nothing is assumed of messages that are no logins. Services: time passes and a context that is
done ends its `select`; the goroutines of the log writer go on and Loki answers
(the exchanger's http client has no time limit either); nacos tells a listener
what has changed, tickers tick, and the goroutines of the resolvers run. That a
planner is called, an entry logged, a writer or a resolver closed is owed by nobody.

## 4. What is proved

For every value of the constants that satisfies the modules' `ASSUME`s.

`WsGatewayProofs`

* `TypeCorrect` and `EntriesAuthenticated`, in every configuration, from the
  inductive `BaseInv`. The property alone is not inductive: `StoreEntry` needs
  the session to be set before (`Named`), and that sockets and workers keep to
  their own labels (`Placed`).
* `SequentialCount` and `SequentialNoDeadEntry` when `ParallelEnabled` is off,
  from the inductive `SeqInv`. `OneCallback` says that the ReadLoop runs one
  callback of a socket at a time and that the socket's session is its own
  meanwhile; `OwnName` that the connId a closing socket removes is its session's.
  The counter follows the *set* of registered sockets, by `CountUp`, `CountDown`
  and `CountKept`. With `ParallelEnabled` on, `OneCallback` is false and so is
  `NoDeadEntry` (finding 1).
* `SequentialEntryLost` when `ParallelEnabled` is off. `EntryLostOnlyByOverlap` speaks
  of registered sockets, which a socket becomes one step after its entry is
  written; what every step keeps is the same from the write on (`StoredIsEntry`).
* `SequentialLedger` when `ParallelEnabled` is off: every behaviour of the gateways is
  one of `WsLedger`. The steps that write the counter map to the ledger's, a crash
  to the loss of all sockets of a node, every other step to a stutter.
* `ExclusiveIsFound` and `ExclusiveCloseAll` when `Exclusive` holds, callbacks in
  parallel or not, from the inductive `ExclusiveInv`. `Exclusive` guards the step in
  which a connId is claimed; `Apart` is what it amounts to afterwards: whatever
  callbacks of a socket are under way, they hold one connId, and no other
  active socket holds that. So only a `Del` of the socket's own removes its entry: that
  of `OnClose`, which finds the network connection closed (`ClosedBefore`), or that
  of a `ServerOnClose`, which closes it next. `OwedIsFound` follows `CloseAll` through its range: a socket that
  was registered at the stop signal has its entry still ahead of the range, or is
  being closed. Without `Exclusive` finding 2 refutes it.
* `SequentialCloseAll` when `ParallelEnabled` is off, whatever devices overlap: what
  finding 2 leaves of `CloseAllReachesAll`. A socket that `CloseAll` does not reach
  had its connId in common with another socket of the node (`Overlapped`). At the
  stop signal a registered socket without an entry has been overwritten
  (`StoredIsEntry`); `OwedUnlessOverlapped` follows the others through the range, where only a
  `Del` of the same connId can remove the entry, and `OnClose` makes it
  for a connection that is closed already (`ClosedBefore`). No run checks it: it is the
  complement of finding 2, whose run has `CloseAllReachesAll` violated.

`LogBridgeProofs`

* `TypeCorrect`, `AcksFollowStores` and `SettledIsHeld`, from the inductive
  `BridgeInv`; its third part, `NakingIsDropped`, is what lets a refused batch
  shrink while it is answered.
* `SizesHold`: a delivery is the only step that makes a message pending, and
  `select` leaves room for one copy in the batch.
* `ImplementsLogDelivery`: every behaviour of the bridges is one of `LogDelivery`,
  safety part. Needs besides that what a bridge holds was published
  (`HeldIsSent`), and what each step does to the union of what all bridges hold
  (`NextTaken`): a copy that leaves a batch may leave another copy of its message behind.

`DeviceCliProofs`

* `TypeCorrect`, `ChainFollowsFields`, `FieldsFollowMode`, `NoClientLost` and
  `TriesInOrder`, for any callers of `Push` and `Reload` and any number of reloads,
  from the inductive `CliInv`. Its parts: `Locked` (at most one reload is past its
  commit, and `rest` is what it has still to append), `Rebuilt` (what is already
  in the slice and what `rest` has make up the clients of the fields, in order),
  `Snapshot` (what an unlocked reload carries fits its mode), `Walks` (an
  undisturbed Push holds the current slice and has tried what is in front of its
  place), and, as long as no reloads have overlapped, `Alone` and `NatsAccounted`.
  The slice is reasoned about slot by slot: that an append in place does not
  disturb the slots before it, and one that grows moves them.

`TransportsProofs`

* `UpTypeCorrect`; `SuccessIsCovered`; and `HandledOnceButForLosses` for any number
  of messages, nodes, retries and faults, from the inductive `UpInv`. `HandledOnce` is
  not inductive: a handling may still be on its way in a request, in a copy under
  either subject or in an attempt yet to come. `Weighed` counts them all: handled
  + requests + copies + an open push is never more than one more than the losses.
  That needs that the requests are finite in number, and no two stand for the
  attempt a sender waits for (`PushOK`, `RequestOK`).
* `HttpTriesAll` for any number of instances and attempts, from `WalkInv`. The counter is
  shared, so a Push does not know where it began: `Behind` measures an instance's
  distance behind the counter's present value, modulo the number of instances,
  and `Walked` says that the instances a Push has tried are exactly those at
  distance 1 to *k* after *k* attempts. That is as many as attempts until the walk
  has come round. `Meets` is why `met` is a sound account of interference: no two
  Pushes are between the read and the write of the counter unnoticed. The
  assumption `HttpTries > 0` is needed, and the code's constant is 3.
* `PushIsBounded`, the safety part of `PushReturns`: every step of a Push, be it a
  timeout, a lost connection or a fallback, lowers `StepsLeft`, which is three times the
  attempts that its present and its later clients have left, and the phase of
  the attempt under way. It is a natural number (`StepsAreCounted`), so a Push that
  takes steps ends; that it takes them is fairness.

`BalanceProofs`

* `BalanceTypesHold`, `DeficitIsAccounted` and `ReceiverStaysWithinMean` for any servers
  and any numbers of connections, from the inductive `BalanceInv`. `DeficitAccounted`
  is inductive once the planner's shape is known (`PlannerShape`: receivers are below
  the range, so their deficit is positive at first, and is never overdrawn). `ReceiverWithinMean`
  is not: while messages are under way, what counts is what they may still bring.
  `Exactly` says that as long as everything was right and ran once, the numbers
  planned with are the numbers there are until the plan is published, and after
  that each receiver's connections together with what outstanding messages have for it
  (`Owed`) stay within the mean. A worker moves no more than its message says
  (`MovesAtMost`), because it tells each receiver at most its amount (`ToldAtMost`).
  `BalanceTypesHold` contains that no worker sends away more connections than it has
  (`MovesHasThem`): the slots of two receivers in `conns` do not overlap.
* The sums are folds, and what a fold computes is shown here without induction over
  data: `SumExists` and `SumsAgree` make the fold a recursive function on the subsets
  of its domain, by the smallest subset that would be a counterexample; the
  lemmas about sums (`SumOfSplit`, `SumOfChange`, `SumOfAtMost`, ...) follow from that, and
  the rest uses only those.

`LogPipeProofs`

* `PipeTypeCorrect`, `StreamsInOrder`, `NothingInSilence` and `CloseIsLast`, from the
  inductive `PipeInv`. `OrderInv` follows the entries of a goroutine through stream, batch,
  queue and hand: each place has older entries than the next, and none twice.
  `EndedIsEnded` ties the end of Close to that of the goroutine.

`DiscoveryProofs`

* `DiscTypeCorrect`, `ConfigCatchesUp` and `ListsOnlyGrow`, for any set of documents
  with a list, from the inductive `DiscInv`: what start-up and the callback have
  left of the documents in each phase (`Started`; a callback on its way says nothing
  yet, `Pending`), and that of a list that is applied, one that is held, one that is
  offered and the source each is as old as the next or older (`InThePipe`).
* `ToldListsArrive` is the safety part of `AddressesCatchUp` for nacos: a resolver whose
  subscription has nothing left to tell, and whose pipe is empty, has the list of the
  source or its healthy instances, unless the last callback came with an error
  (`RestIsCurrent`). What the client was told last is the newest in the
  pipe (`Heard`, `Newest`), so no list is lost on its way. The resolver of the
  instances never rests: its ticker keeps reading.

`ServicesProofs`

* `LockTypeCorrect` and `LockExcludes`; `OneHolderUntilOutlived` is inductive with the types.
* `KeyIsBounded`, the safety part of `KeyExpires`: a key in redis is younger than
  `LockTime` (`AgeInv`), and while it lives nobody renews it or takes it over, so time only brings
  it nearer to its end (`KeyOnlyAges`). That time passes is fairness.
* `ServicesTypeCorrect` and `ServicesAreSafe`: what the theorems above say of the lock,
  the balance, the log writers and the resolvers holds of `ServicesSpec` too, the
  specification the run `services` checks. A step of one is a stutter of the
  others, so each inductive invariant is kept by its own lemma.

Only model-checked: liveness (`EntryIsRefreshedOrClosed`,
`OfflineRouteExpires`, the fair part of `PromiseKept`, `PushReturns`, `NatsHandled`,
`KeyExpires`, `CloseReturns`, `AddressesCatchUp`, `NoGoroutineLeft`), which is out of the
prover's reach. Of `PushReturns`, `KeyExpires` and `AddressesCatchUp` the safety part is
proved, as said above: what is left to TLC is that somebody goes on. Every
invariant and every action property of the passing runs is proved.
The theorems whose names begin with `Sequential` or `Exclusive` assume a
configuration: without it the findings of section 5 are counterexamples.

## 5. Findings

1. **A late login leaves an entry behind** (`gateway_late_login`). With
   `ParallelEnabled` (config.go:38, the default) `OnClose` may run while
   `OnMessage` waits for iotdevice. It finds no connId in the session and cleans
   nothing; then `OnMessage` stores the entry and counts it. The dead entry stays,
   and the cron renews its route for as long as the process lives.
2. **Shutdown misses sockets** (`gateway_overlap_stop`). `Storage` overwrites
   and `Del` removes by connId alone. When a device reconnects before its old
   socket is closed, a live socket has no entry, and `CloseAll`, `/notice` and the
   refresh do not see it.
3. **Messages are acknowledged before they are stored** (`logbridge_autoack`).
   `QueueSubscribe` without `nats.ManualAck()` acknowledges when the callback
   returns, so a crash or a refused push loses what main.go:2 promises to keep.
   What is left is `PromiseKept`: only a message that was not acknowledged early is safe.
4. **Push walks a slice that Reload rewrites** (`devicecli_reload`).
   `d.chain[:0]` reuses the array of a running Push, which may then repeat or leave
   out a client or read a half-written interface.
5. **A login is dropped for a space** (`upstream_spaced`). `extractCmd` looks for the
   bytes `"cmd":"` and not, as handleNatsMessage.go:35 says, for the field of the JSON
   payload. A login with a space after the colon is legal for gRPC, HTTP and protojson; over
   NATS `Push` returns no error, and the first consumer acknowledges and drops it.

Besides these, facts met while modelling that no run is spent on:

* *devicecli.* The typed nil of `Reload` (devicecli.go:150); because
  `NatsAccounted` holds only without overlap, the NATS client lost or reused after
  Close when overlapping reloads change the mode and change it back (devicecli.go:158).
* *transports.* A further HTTP attempt sends an empty body, gets status 400 and
  reports success (httpClient.go:100): the last disjunct of `OkIsCovered`.
* *iotdevice.* A node that consumes never serves (routes.go:83). The stream made
  on connection does not cover `<subject>_login`. The rabbitmq broker panics when it is first used.
* *registry.* A successful registration logs through a nil `Logger` and ends the
  process with its instance still in the registry (registry/nacos/nacosClient.go:89
  and 115); `handleShutdown`, in the line after it, is never reached. An error of
  the registration is ignored (servicecontext.go). The callback of the
  configuration in iotdevice takes no lock at all.
* *configuration.* The error of `json.Unmarshal` is ignored and it merges into the live
  map (servicecontext.go:35 and 42), so an unreadable document changes nothing and
  a removed key keeps its list: `ConfigIsLatest` and `AddressesCatchUp` say so. Start-up may
  overwrite the list of a callback with the older one it fetched, until the next document with a list
  comes: the second disjunct of `ConfigIsLatest`.
* *nacos resolver.* `Build` selects the healthy instances, the callback does not filter,
  and with an error it drops its list (rpcn/builder.go:35 and 48-57).
* *balance.* `KEYS` without a wildcard, a planner nobody calls, messages that do not
  reach the worker, the loop that promises the same connections again, the
  division by zero of an empty map, and `SETXX` on a key that nothing creates.
* *logs.* `logx.SetWriter` replaces the file writer, although the comments promise
  both (双写). An entry that is logged while the direct writer stops, or is
  in its queue then, is lost.

## 6. Plan

Done: the gateway, the log bridge, devicecli, the transports with iotdevice, the lock,
the balance, the log writers and discovery, each with its proofs.

Left, in this order:

1. What of `NoDeadEntry` and `CountIsRegistered` is left with `ParallelEnabled`: a dead
   entry belongs to a socket that closed while its login was under way. To say so
   takes a history variable, the logins under way at `OnClose`.
2. A run in which the typed nil of `Reload` must not enter the chain.
3. A push of logs that never returns: what of `PromiseKept` is left without the
   assumption that it does.

## 7. Not modelled

Payloads, logging, alarms, middleware, error texts and tracing change no state
the properties tell apart; `pkg/util` starts goroutines with a recover, and
`pkg/wscli` is an unfinished client. `Iotsync` renews with `SETXX` a key nothing
creates, and so does nothing. Of `pkg/registry/nacos` only whether start-up goes
on is modelled: its cache of lists is used by nobody and its shutdown cannot
be reached. Of `pkg/queue`, `Publish` and `Subscribe` are modelled; the consume loop
and `Close` of `rabbitmq` cannot be reached, and `amqp` is not used. The device model
and the protobuf code are generated. `/notice` and `/ping` only read the
table: `RegisteredIsFound` is what they rely on. A redis cluster is taken to be one
store, and JetStream to keep what it has acknowledged.
