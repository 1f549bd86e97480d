------------------------------ MODULE WsGateway ------------------------------
(***************************************************************************)
(* The iotws WebSocket gateways: the sockets each node holds, the node's   *)
(* connection table and its counter (ws/connection.go), the gws callbacks  *)
(* that write them (ws/gateway.go), the upgrade handler, the login that    *)
(* iotdevice answers, the redis keys conn:<sn> that route a device to a    *)
(* node, the five-minute refresh of those keys, and the graceful shutdown. *)
(*                                                                         *)
(* A process is a socket (its upgrade handler, then its ReadLoop, then     *)
(* OnClose) or a worker (the goroutine that runs one OnMessage).  A socket *)
(* value stands for one connection and is never used again.                *)
(***************************************************************************)
EXTENDS Integers, FiniteSets

CONSTANTS
  Nodes,            \* iotws processes; a node's name is its ServiceName
  Sockets,          \* the connections that will ever be upgraded
  Devices,          \* device serial numbers; a connId is a serial number
  Workers,          \* OnMessage goroutines that may run at once
  ParallelEnabled,  \* WsConf.ParallelEnabled
  Exclusive,        \* environment: one socket per device and one device per socket
  RedisFaults,      \* environment: a redis command may fail
  NodeFaults,       \* environment: nodes are stopped, crash and start again
  NoNode, NoSocket, NoId

ASSUME ConstantsAssumption ==
  /\ IsFiniteSet(Sockets)
  /\ Sockets \cap Workers = {}
  /\ {ParallelEnabled, Exclusive, RedisFaults, NodeFaults} \subseteq BOOLEAN
  /\ NoNode \notin Nodes /\ NoSocket \notin Sockets /\ NoId \notin Devices

VARIABLES
  pc,        \* where each process is
  arg,       \* the process's local connId
  task,      \* worker -> the socket whose message it handles
  node,      \* socket -> the node that upgraded it
  session,   \* socket -> the "connId" of its session
  up,        \* socket -> its network connection has not been closed
  soketMap,  \* node -> device -> socket: the connection table
  count,     \* node -> connection.count
  conn,      \* device -> value of the redis key conn:<sn>
  fired,     \* device -> nodes whose refresh fired since conn[d] was set
  cron,      \* node -> phase of the refresh
  todo,      \* node -> connIds the phase has yet to handle
  ids,       \* node -> connectionIds
  missing,   \* node -> connIds whose SET XX found no key
  errored,   \* node -> connIds whose SET XX failed otherwise
  closing,   \* node -> the shutdown listener has started
  sweep,     \* node -> connIds CloseAll has yet to visit
  owed       \* history: node -> sockets registered when it was told to stop

procVars == <<pc, arg, task>>
sockVars == <<node, session, up>>
tableVars == <<soketMap, count>>
routeVars == <<conn, fired>>
cronVars == <<cron, todo, ids, missing, errored>>
stopVars == <<closing, sweep, owed>>
vars == <<procVars, sockVars, tableVars, routeVars, cronVars, stopVars>>

Procs == Sockets \cup Workers

PCs == {"unused", "reading", "gone", "idle", "push", "login", "granted",
        "fail", "hangup", "store", "count", "unroute", "decr", "delete"}

TypeOK ==
  /\ pc \in [Procs -> PCs]
  /\ arg \in [Procs -> Devices \cup {NoId}]
  /\ task \in [Workers -> Sockets \cup {NoSocket}]
  /\ node \in [Sockets -> Nodes \cup {NoNode}]
  /\ session \in [Sockets -> Devices \cup {NoId}]
  /\ up \in [Sockets -> BOOLEAN]
  /\ soketMap \in [Nodes -> [Devices -> Sockets \cup {NoSocket}]]
  /\ count \in [Nodes -> Int]
  /\ conn \in [Devices -> Nodes \cup {NoNode}]
  /\ fired \in [Devices -> SUBSET Nodes]
  /\ cron \in [Nodes -> {"idle", "range", "exec", "close"}]
  /\ todo \in [Nodes -> SUBSET Devices]
  /\ ids \in [Nodes -> SUBSET Devices]
  /\ missing \in [Nodes -> SUBSET Devices]
  /\ errored \in [Nodes -> SUBSET Devices]
  /\ closing \in [Nodes -> BOOLEAN]
  /\ sweep \in [Nodes -> SUBSET Devices]
  /\ owed \in [Nodes -> SUBSET Sockets]

Init ==
  /\ pc = [p \in Procs |-> IF p \in Sockets THEN "unused" ELSE "idle"]
  /\ arg = [p \in Procs |-> NoId]
  /\ task = [w \in Workers |-> NoSocket]
  /\ node = [s \in Sockets |-> NoNode]
  /\ session = [s \in Sockets |-> NoId]
  /\ up = [s \in Sockets |-> FALSE]
  /\ soketMap = [n \in Nodes |-> [d \in Devices |-> NoSocket]]
  /\ count = [n \in Nodes |-> 0]
  /\ conn = [d \in Devices |-> NoNode]
  /\ fired = [d \in Devices |-> {}]
  /\ cron = [n \in Nodes |-> "idle"]
  /\ todo = [n \in Nodes |-> {}]
  /\ ids = [n \in Nodes |-> {}]
  /\ missing = [n \in Nodes |-> {}]
  /\ errored = [n \in Nodes |-> {}]
  /\ closing = [n \in Nodes |-> FALSE]
  /\ sweep = [n \in Nodes |-> {}]
  /\ owed = [n \in Nodes |-> {}]

-----------------------------------------------------------------------------

Sock(p) == IF p \in Sockets THEN p ELSE task[p]

\* The workers whose OnMessage handles a message of s.
WorkersOn(s) == {w \in Workers : task[w] = s}

\* s has been counted in and not yet counted out: it has a connId, no Storage
\* of it is under way, and OnClose has not reached its decrement.
Registered(s) ==
  /\ session[s] # NoId
  /\ pc[s] \in {"reading", "unroute", "decr"}
  /\ \A w \in WorkersOn(s) : pc[w] \notin {"store", "count"}

RegisteredAt(n) == {s \in Sockets : node[s] = n /\ Registered(s)}

\* A process that a callback started runs on: it goes to label l.
Goto(p, l) == pc' = [pc EXCEPT ![p] = l]

\* OnMessage returns: the goroutine ends.
Return(w) ==
  /\ Goto(w, "idle")
  /\ arg' = [arg EXCEPT ![w] = NoId]
  /\ task' = [task EXCEPT ![w] = NoSocket]

\* SET conn:<d> to node n with a fresh time to live.
SetConn(d, n) ==
  /\ conn' = [conn EXCEPT ![d] = n]
  /\ fired' = [fired EXCEPT ![d] = {}]

\* The environment, when Exclusive: a device has one socket at a time, callbacks
\* that still run included, and a socket logs in one device.
MayClaim(s, d) ==
  Exclusive =>
    /\ \A w \in WorkersOn(s) : {arg[w], session[s]} \subseteq {d, NoId}
    /\ \A t \in Sockets \ {s} :
         /\ pc[t] \notin {"unused", "gone"} => session[t] # d
         /\ \A w \in WorkersOn(t) : d \notin {arg[w], session[t]}

-----------------------------------------------------------------------------
(* The upgrade handler, and what the peer and the network do.              *)

\* The request is upgraded; a connId in the URL becomes the session's before
\* the ReadLoop starts.
Upgrade(s, n, d) ==
  /\ pc[s] = "unused"
  /\ d # NoId => MayClaim(s, d)
  /\ node' = [node EXCEPT ![s] = n]
  /\ up' = [up EXCEPT ![s] = TRUE]
  /\ session' = [session EXCEPT ![s] = d]
  /\ arg' = [arg EXCEPT ![s] = d]
  /\ Goto(s, IF d = NoId THEN "reading" ELSE "store")
  /\ UNCHANGED <<task, tableVars, routeVars, cronVars, stopVars>>

\* The peer leaves, the deadline passes or a write fails: gws closes the
\* network connection.
Disconnect(s) ==
  /\ up[s]
  /\ up' = [up EXCEPT ![s] = FALSE]
  /\ UNCHANGED <<procVars, node, session, tableVars, routeVars, cronVars, stopVars>>

\* Storage: Store, then AddInt64; no other call separates the two.
StoreEntry(p) ==
  /\ pc[p] = "store"
  /\ soketMap' = [soketMap EXCEPT ![node[Sock(p)]][arg[p]] = Sock(p)]
  /\ Goto(p, "count")
  /\ UNCHANGED <<arg, task, sockVars, count, routeVars, cronVars, stopVars>>

AddCount(p) ==
  /\ pc[p] = "count"
  /\ count' = [count EXCEPT ![node[Sock(p)]] = @ + 1]
  /\ IF p \in Sockets THEN Goto(p, "reading") /\ UNCHANGED <<arg, task>>
                      ELSE Return(p)
  /\ UNCHANGED <<sockVars, soketMap, routeVars, cronVars, stopVars>>

-----------------------------------------------------------------------------
(* OnMessage.                                                              *)

\* A message is dispatched to a worker, which loads the session's connId.
\* Without ParallelEnabled the ReadLoop itself runs OnMessage.
Recv(w, s) ==
  /\ pc[w] = "idle" /\ pc[s] = "reading" /\ up[s]
  /\ ~ParallelEnabled => WorkersOn(s) = {}
  /\ task' = [task EXCEPT ![w] = s]
  /\ arg' = [arg EXCEPT ![w] = session[s]]
  /\ Goto(w, IF session[s] = NoId THEN "login" ELSE "push")
  /\ UNCHANGED <<sockVars, tableVars, routeVars, cronVars, stopVars>>

\* case true: the message goes to iotdevice; a login among them sets a route.
PushLogin(w, d) ==
  /\ pc[w] = "push"
  /\ Exclusive => d = arg[w]
  /\ SetConn(d, node[task[w]])
  /\ Return(w)
  /\ UNCHANGED <<sockVars, tableVars, cronVars, stopVars>>

\* Any other message, or an error: only the reply is written.
PushOther(w) ==
  /\ pc[w] = "push"
  /\ Return(w)
  /\ UNCHANGED <<sockVars, tableVars, routeVars, cronVars, stopVars>>

\* case false, Fn("", msg): iotdevice accepts the login of d and sets its route.
LoginSet(w, d) ==
  /\ pc[w] = "login"
  /\ MayClaim(task[w], d)
  /\ SetConn(d, node[task[w]])
  /\ arg' = [arg EXCEPT ![w] = d]
  /\ Goto(w, "granted")
  /\ UNCHANGED <<task, sockVars, tableVars, cronVars, stopVars>>

\* Fn fails: before the route was set (empty or unknown sn, redis, transport)
\* or after it (the answer is lost).
LoginFails(w) ==
  /\ pc[w] \in {"login", "granted"}
  /\ arg' = [arg EXCEPT ![w] = NoId]
  /\ Goto(w, "fail")
  /\ UNCHANGED <<task, sockVars, tableVars, routeVars, cronVars, stopVars>>

\* Fn answers without a connId: another command, or a transport whose answer
\* carries no body (gRPC, NATS).
LoginNoBody(w) ==
  /\ pc[w] \in {"login", "granted"}
  /\ Return(w)
  /\ UNCHANGED <<sockVars, tableVars, routeVars, cronVars, stopVars>>

\* Mutant: Storage without Session().Store.
MutantLoginOk(w) ==
  /\ pc[w] = "granted"
  /\ Goto(w, "store")
  /\ UNCHANGED <<arg, task, node, session, up, tableVars, routeVars, cronVars, stopVars>>

\* extractSn finds the sn: Session().Store, then Storage.
LoginOk(w) ==
  /\ pc[w] = "granted"
  /\ session' = [session EXCEPT ![task[w]] = arg[w]]
  /\ Goto(w, "store")
  /\ UNCHANGED <<arg, task, node, up, tableVars, routeVars, cronVars, stopVars>>

-----------------------------------------------------------------------------
(* Closing.                                                                *)

\* The deferred ServerOnClose loads the session's connId.
ServerOnClose(w) ==
  /\ pc[w] = "fail"
  /\ arg' = [arg EXCEPT ![w] = session[task[w]]]
  /\ Goto(w, IF session[task[w]] = NoId THEN "hangup" ELSE "unroute")
  /\ UNCHANGED <<task, sockVars, tableVars, routeVars, cronVars, stopVars>>

\* Mutant: the ReadLoop does not wait for the callback it started.
MutantOnClose(s) ==
  /\ pc[s] = "reading" /\ ~up[s]
  /\ arg' = [arg EXCEPT ![s] = session[s]]
  /\ Goto(s, IF session[s] = NoId THEN "gone" ELSE "unroute")
  /\ UNCHANGED <<task, sockVars, tableVars, routeVars, cronVars, stopVars>>

\* The ReadLoop's last act.
OnClose(s) ==
  /\ pc[s] = "reading" /\ ~up[s]
  /\ ~ParallelEnabled => WorkersOn(s) = {}
  /\ arg' = [arg EXCEPT ![s] = session[s]]
  /\ Goto(s, IF session[s] = NoId THEN "gone" ELSE "unroute")
  /\ UNCHANGED <<task, sockVars, tableVars, routeVars, cronVars, stopVars>>

\* redis.Del of conn:<connId>, whatever its value; its error is dropped.
Unroute(p) ==
  /\ pc[p] = "unroute"
  /\ \/ conn' = [conn EXCEPT ![arg[p]] = NoNode]
     \/ RedisFaults /\ UNCHANGED conn
  /\ Goto(p, "decr")
  /\ UNCHANGED <<arg, task, sockVars, tableVars, fired, cronVars, stopVars>>

\* Mutant: only a connId that has an entry is counted out.
MutantDecrCount(p) ==
  /\ pc[p] = "decr"
  /\ IF soketMap[node[Sock(p)]][arg[p]] = NoSocket
       THEN UNCHANGED count
       ELSE count' = [count EXCEPT ![node[Sock(p)]] = @ - 1]
  /\ Goto(p, "delete")
  /\ UNCHANGED <<arg, task, sockVars, soketMap, routeVars, cronVars, stopVars>>

\* connection.Del: AddInt64, ...
DecrCount(p) ==
  /\ pc[p] = "decr"
  /\ count' = [count EXCEPT ![node[Sock(p)]] = @ - 1]
  /\ Goto(p, "delete")
  /\ UNCHANGED <<arg, task, sockVars, soketMap, routeVars, cronVars, stopVars>>

\* Mutant: the entry stays.
MutantKeepEntry(p) ==
  /\ pc[p] = "delete"
  /\ Goto(p, IF p \in Sockets THEN "gone" ELSE "hangup")
  /\ UNCHANGED <<arg, task, sockVars, tableVars, routeVars, cronVars, stopVars>>

\* Mutant: ServerOnClose ends without NetConn().Close().
MutantNoHangUp(p) ==
  /\ pc[p] = "delete"
  /\ soketMap' = [soketMap EXCEPT ![node[Sock(p)]][arg[p]] = NoSocket]
  /\ IF p \in Sockets THEN Goto(p, "gone") /\ UNCHANGED <<arg, task>> ELSE Return(p)
  /\ UNCHANGED <<sockVars, count, routeVars, cronVars, stopVars>>

\* ... then Delete, whatever socket the entry is.
DeleteEntry(p) ==
  /\ pc[p] = "delete"
  /\ soketMap' = [soketMap EXCEPT ![node[Sock(p)]][arg[p]] = NoSocket]
  /\ Goto(p, IF p \in Sockets THEN "gone" ELSE "hangup")
  /\ UNCHANGED <<arg, task, sockVars, count, routeVars, cronVars, stopVars>>

\* The end of ServerOnClose: NetConn().Close().
HangUp(w) ==
  /\ pc[w] = "hangup"
  /\ up' = [up EXCEPT ![task[w]] = FALSE]
  /\ Return(w)
  /\ UNCHANGED <<node, session, tableVars, routeVars, cronVars, stopVars>>

-----------------------------------------------------------------------------
(* The refresh every five minutes (iotconnsnlogic.Iotsync).                *)

\* CloseAll has visited every entry, and the listener has stopped the cron.
Stopped(n) == closing[n] /\ sweep[n] = {}

CronFire(n) ==
  /\ cron[n] = "idle" /\ ~Stopped(n)
  /\ cron' = [cron EXCEPT ![n] = "range"]
  /\ todo' = [todo EXCEPT ![n] = Devices]
  /\ fired' = [d \in Devices |-> fired[d] \cup {n}]
  /\ UNCHANGED <<procVars, sockVars, tableVars, conn, ids, missing, errored, stopVars>>

\* Range visits keys one at a time and is no snapshot of the table.
RangeVisit(n, d) ==
  /\ cron[n] = "range" /\ d \in todo[n]
  /\ todo' = [todo EXCEPT ![n] = @ \ {d}]
  /\ ids' = [ids EXCEPT ![n] = IF soketMap[n][d] = NoSocket THEN @ ELSE @ \cup {d}]
  /\ UNCHANGED <<procVars, sockVars, tableVars, routeVars, cron, missing, errored, stopVars>>

PipeExec(n) ==
  /\ cron[n] = "range" /\ todo[n] = {}
  /\ cron' = [cron EXCEPT ![n] = "exec"]
  /\ todo' = [todo EXCEPT ![n] = ids[n]]
  /\ UNCHANGED <<procVars, sockVars, tableVars, routeVars, ids, missing, errored, stopVars>>

\* Mutant: the key's value becomes the connId instead of the service name.
MutantSetXX(n, d) ==
  /\ cron[n] = "exec" /\ d \in todo[n] /\ conn[d] # NoNode
  /\ todo' = [todo EXCEPT ![n] = @ \ {d}]
  /\ SetConn(d, d)
  /\ UNCHANGED <<procVars, sockVars, tableVars, cron, ids, missing, errored, stopVars>>

\* SET conn:<d> XX: overwrites the key, whoever owns it, if there is one.
SetXX(n, d) ==
  /\ cron[n] = "exec" /\ d \in todo[n]
  /\ todo' = [todo EXCEPT ![n] = @ \ {d}]
  /\ \/ conn[d] # NoNode /\ SetConn(d, n) /\ UNCHANGED <<missing, errored>>
     \/ /\ conn[d] = NoNode
        /\ missing' = [missing EXCEPT ![n] = @ \cup {d}]
        /\ UNCHANGED <<routeVars, errored>>
     \/ /\ RedisFaults
        /\ errored' = [errored EXCEPT ![n] = @ \cup {d}]
        /\ UNCHANGED <<routeVars, missing>>
  /\ UNCHANGED <<procVars, sockVars, tableVars, cron, ids, stopVars>>

\* The refresh of n is over.
CronEnds(n) ==
  /\ cron' = [cron EXCEPT ![n] = "idle"]
  /\ todo' = [todo EXCEPT ![n] = {}]
  /\ ids' = [ids EXCEPT ![n] = {}]
  /\ missing' = [missing EXCEPT ![n] = {}]
  /\ errored' = [errored EXCEPT ![n] = {}]

\* Exec returns the first error of the pipeline: a fatal one ends the refresh,
\* redis.Nil or none lets every failed connId be handled.
ExecFatal(n) ==
  /\ cron[n] = "exec" /\ todo[n] = {} /\ errored[n] # {}
  /\ CronEnds(n)
  /\ UNCHANGED <<procVars, sockVars, tableVars, routeVars, stopVars>>

ExecReturn(n) ==
  /\ cron[n] = "exec" /\ todo[n] = {}
  /\ errored[n] # {} => missing[n] # {}
  /\ cron' = [cron EXCEPT ![n] = "close"]
  /\ todo' = [todo EXCEPT ![n] = missing[n] \cup errored[n]]
  /\ UNCHANGED <<procVars, sockVars, tableVars, routeVars, ids, missing, errored, stopVars>>

\* A failed connId that has left the table is skipped ...
SkipFailed(n, d) ==
  /\ cron[n] = "close" /\ d \in todo[n] /\ soketMap[n][d] = NoSocket
  /\ todo' = [todo EXCEPT ![n] = @ \ {d}]
  /\ UNCHANGED <<procVars, sockVars, tableVars, routeVars, cron, ids, missing, errored, stopVars>>

\* Mutant: Iotsync does not return, and Del runs after the close.
MutantCloseFailed(n, d) ==
  /\ cron[n] = "close" /\ d \in todo[n] /\ soketMap[n][d] # NoSocket
  /\ up' = [up EXCEPT ![soketMap[n][d]] = FALSE]
  /\ soketMap' = [soketMap EXCEPT ![n][d] = NoSocket]
  /\ CronEnds(n)
  /\ UNCHANGED <<procVars, node, session, count, routeVars, stopVars>>

\* Mutant: the failed connection is not closed.
MutantCloseNone(n, d) ==
  /\ cron[n] = "close" /\ d \in todo[n] /\ soketMap[n][d] # NoSocket
  /\ CronEnds(n)
  /\ UNCHANGED <<procVars, sockVars, tableVars, routeVars, stopVars>>

\* ... the first one found has its connection closed, and Iotsync returns.
CloseFailed(n, d) ==
  /\ cron[n] = "close" /\ d \in todo[n] /\ soketMap[n][d] # NoSocket
  /\ up' = [up EXCEPT ![soketMap[n][d]] = FALSE]
  /\ CronEnds(n)
  /\ UNCHANGED <<procVars, node, session, tableVars, routeVars, stopVars>>

NoneFailed(n) ==
  /\ cron[n] = "close" /\ todo[n] = {}
  /\ CronEnds(n)
  /\ UNCHANGED <<procVars, sockVars, tableVars, routeVars, stopVars>>

\* The time to live (6 min) exceeds the refresh period (5 min): every running
\* node has fired at least once before a key expires.
Expire(d) ==
  /\ conn[d] # NoNode /\ \A n \in Nodes : n \in fired[d] \/ Stopped(n)
  /\ conn' = [conn EXCEPT ![d] = NoNode]
  /\ UNCHANGED <<procVars, sockVars, tableVars, fired, cronVars, stopVars>>

-----------------------------------------------------------------------------
(* Shutdown and crash of a node.                                           *)

StopSignal(n) ==
  /\ NodeFaults /\ ~closing[n]
  /\ closing' = [closing EXCEPT ![n] = TRUE]
  /\ sweep' = [sweep EXCEPT ![n] = Devices]
  /\ owed' = [owed EXCEPT ![n] = RegisteredAt(n)]
  /\ UNCHANGED <<procVars, sockVars, tableVars, routeVars, cronVars>>

\* Mutant: the closing frame is written, the connection stays open.
MutantCloseAllVisit(n, d) ==
  /\ d \in sweep[n]
  /\ sweep' = [sweep EXCEPT ![n] = @ \ {d}]
  /\ UNCHANGED <<procVars, sockVars, tableVars, routeVars, cronVars, closing, owed>>

\* CloseAll: Range again, each socket found is closed.
CloseAllVisit(n, d) ==
  /\ d \in sweep[n]
  /\ sweep' = [sweep EXCEPT ![n] = @ \ {d}]
  /\ IF soketMap[n][d] = NoSocket
       THEN UNCHANGED up
       ELSE up' = [up EXCEPT ![soketMap[n][d]] = FALSE]
  /\ UNCHANGED <<procVars, node, session, tableVars, routeVars, cronVars, closing, owed>>

\* The process ends, after a stop signal or without one, and starts again:
\* what redis holds stays, everything in memory is lost.
Exit(n) ==
  LET lost == {s \in Sockets : node[s] = n}
      dead == lost \cup {w \in Workers : task[w] \in lost}
  IN /\ NodeFaults
     /\ pc' = [p \in Procs |-> IF p \notin dead THEN pc[p]
                               ELSE IF p \in Sockets THEN "gone" ELSE "idle"]
     /\ arg' = [p \in Procs |-> IF p \in dead THEN NoId ELSE arg[p]]
     /\ task' = [w \in Workers |-> IF w \in dead THEN NoSocket ELSE task[w]]
     /\ up' = [s \in Sockets |-> up[s] /\ s \notin lost]
     /\ soketMap' = [soketMap EXCEPT ![n] = [d \in Devices |-> NoSocket]]
     /\ count' = [count EXCEPT ![n] = 0]
     /\ fired' = [d \in Devices |-> fired[d] \cup {n}]
     /\ CronEnds(n)
     /\ closing' = [closing EXCEPT ![n] = FALSE]
     /\ sweep' = [sweep EXCEPT ![n] = {}]
     /\ owed' = [owed EXCEPT ![n] = {}]
     /\ UNCHANGED <<node, session, conn>>

-----------------------------------------------------------------------------

\* What a socket's or a worker's goroutine does by itself.
SocketStep(s) ==
  \/ StoreEntry(s) \/ AddCount(s)
  \/ OnClose(s) \/ Unroute(s) \/ DecrCount(s) \/ DeleteEntry(s)

WorkerStep(w) ==
  \/ \E d \in Devices : PushLogin(w, d) \/ LoginSet(w, d)
  \/ PushOther(w) \/ LoginFails(w) \/ LoginNoBody(w) \/ LoginOk(w)
  \/ StoreEntry(w) \/ AddCount(w)
  \/ ServerOnClose(w) \/ Unroute(w) \/ DecrCount(w) \/ DeleteEntry(w) \/ HangUp(w)

CronStep(n) ==
  \/ CronFire(n) \/ PipeExec(n) \/ ExecFatal(n) \/ ExecReturn(n) \/ NoneFailed(n)
  \/ \E d \in Devices : \/ RangeVisit(n, d) \/ SetXX(n, d)
                        \/ SkipFailed(n, d) \/ CloseFailed(n, d)

Next ==
  \/ \E s \in Sockets, n \in Nodes, d \in Devices \cup {NoId} : Upgrade(s, n, d)
  \/ \E s \in Sockets : Disconnect(s) \/ SocketStep(s)
  \/ \E w \in Workers, s \in Sockets : Recv(w, s)
  \/ \E w \in Workers : WorkerStep(w)
  \/ \E n \in Nodes : CronStep(n) \/ StopSignal(n) \/ Exit(n)
  \/ \E n \in Nodes, d \in Devices : CloseAllVisit(n, d)
  \/ \E d \in Devices : Expire(d)

Spec == Init /\ [][Next]_vars

\* Goroutines run on, calls to iotdevice return (every transport has a
\* timeout), the cron keeps firing, time passes, and a process told to stop is
\* killed when its grace period is over.  The peer owes nothing.
Fairness ==
  /\ \A s \in Sockets : WF_vars(SocketStep(s))
  /\ \A w \in Workers : WF_vars(WorkerStep(w))
  /\ \A n \in Nodes : WF_vars(CronStep(n))
  /\ \A n \in Nodes : WF_vars(\E d \in Devices : CloseAllVisit(n, d))
  /\ \A n \in Nodes : WF_vars(Stopped(n) /\ Exit(n))
  /\ \A d \in Devices : WF_vars(Expire(d))

FairSpec == Spec /\ Fairness
=============================================================================
