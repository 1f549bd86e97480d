--------------------------- MODULE WsGatewayProofs ---------------------------
(***************************************************************************)
(* Theorems about WsGateway for every set of nodes, sockets, devices and   *)
(* workers.  BaseInv is inductive in every configuration; SeqInv when      *)
(* ParallelEnabled is FALSE, and with it the entries' history and the      *)
(* refinement of WsLedger; ExclusiveInv when a device has one socket at a  *)
(* time, whatever callbacks of it run in parallel.                         *)
(***************************************************************************)
EXTENDS WsGatewayProps, FiniteSetTheorems, TLAPS

-----------------------------------------------------------------------------
(* The inductive invariants.                                               *)

\* Goroutines are where their kind can be, and one that is busy has a socket
\* that some node has upgraded.
Placed ==
  /\ \A s \in Sockets :
       /\ pc[s] \in {"unused", "reading", "gone", "store", "count", "unroute",
                     "decr", "delete"}
       /\ node[s] \in Nodes <=> pc[s] # "unused"
  /\ \A w \in Workers :
       /\ pc[w] \notin {"unused", "reading", "gone"}
       /\ pc[w] # "idle" => task[w] \in Sockets /\ pc[task[w]] # "unused"

\* A process inside Storage or Del, or with a granted login, holds a connId;
\* inside Storage, its socket's session has one too.
Named ==
  \A p \in Procs :
    /\ pc[p] \in {"granted", "store", "count", "unroute", "decr", "delete"} =>
         arg[p] \in Devices
    /\ pc[p] \in {"store", "count"} => session[Sock(p)] \in Devices

\* Inductive in every configuration.
BaseInv == TypeOK /\ Placed /\ Named /\ EntryIsAuthenticated

\* Without ParallelEnabled the ReadLoop runs one callback at a time: at most one
\* worker has a message of a socket, which is reading, and while it logs in no
\* one else writes the socket's session.
OneCallback ==
  /\ \A w \in Workers :
       /\ pc[w] \in {"idle", "push", "login", "granted", "fail", "hangup", "store", "count"}
       /\ pc[w] = "idle" <=> task[w] = NoSocket
       /\ pc[w] # "idle" => pc[task[w]] = "reading"
       /\ pc[w] \in {"login", "granted", "fail", "hangup"} => session[task[w]] = NoId
       /\ pc[w] \in {"store", "count"} => session[task[w]] = arg[w]
  /\ \A v, w \in Workers : task[v] = task[w] /\ task[v] # NoSocket => v = w

\* A socket's own steps use its session's connId, which it has from Storage on.
OwnName ==
  \A s \in Sockets :
    /\ pc[s] = "unused" => session[s] = NoId
    /\ pc[s] \in {"store", "count", "unroute", "decr", "delete"} => arg[s] = session[s]

\* Inductive when the gateway is sequential.
SeqInv == BaseInv /\ OneCallback /\ OwnName /\ NoDeadEntry /\ CountIsRegistered

\* s has stored its entry and not yet come to its delete.
Stored(s) ==
  /\ session[s] # NoId
  /\ pc[s] \in {"reading", "count", "unroute", "decr"}
  /\ \A w \in WorkersOn(s) : pc[w] # "store"

\* EntryLostOnlyByOverlap from the Store on, and not only from the count on:
\* kept by every step of a sequential gateway.
StoredIsEntry ==
  \A s \in Sockets :
    Stored(s) /\ soketMap[node[s]][session[s]] # s => Overlapped(s)

\* Callbacks of s may still run: its own, or those of its messages.
Active(s) == pc[s] \notin {"unused", "gone"} \/ WorkersOn(s) # {}

\* d is the connId of s, or of a callback of s.
Claims(s, d) == d # NoId /\ (session[s] = d \/ \E w \in WorkersOn(s) : arg[w] = d)

\* What Exclusive asks of the environment when a connId is claimed holds on: a
\* socket has one device, and a device one socket.
Apart ==
  /\ \A w \in Workers : pc[w] = "idle" => task[w] = NoSocket
  /\ \A s \in Sockets, d, e \in Devices : Claims(s, d) /\ Claims(s, e) => d = e
  /\ \A s, t \in Sockets, d \in Devices :
       Active(s) /\ Active(t) /\ Claims(s, d) /\ Claims(t, d) => s = t

\* Only a socket whose network connection is closed reaches OnClose.
ClosedBefore ==
  \A s \in Sockets : pc[s] \in {"unroute", "decr", "delete", "gone"} => ~up[s]

\* RegisteredIsFound from the Store on.
StoredIsFound ==
  \A s \in Sockets :
    Stored(s) => soketMap[node[s]][session[s]] = s \/ BeingClosed(s)

\* CloseAll has yet to visit the entry of every socket that it owes a close.
OwedIsFound ==
  \A n \in Nodes : closing[n] =>
    \A s \in owed[n] :
      /\ node[s] = n /\ session[s] \in Devices
      /\ \/ soketMap[n][session[s]] = s /\ session[s] \in sweep[n]
         \/ BeingClosed(s)

\* Inductive when Exclusive holds, callbacks in parallel or not.
ExclusiveInv ==
  BaseInv /\ OwnName /\ Apart /\ ClosedBefore /\ StoredIsFound /\ OwedIsFound

\* CloseAll has yet to visit the entry of every socket that it owes a close and that
\* no other socket has shared its connId with.
OwedUnlessOverlapped ==
  \A n \in Nodes : closing[n] =>
    \A s \in owed[n] :
      /\ node[s] = n /\ session[s] \in Devices
      /\ \/ soketMap[n][session[s]] = s /\ session[s] \in sweep[n]
         \/ ~up[s]
         \/ Overlapped(s)

USE ConstantsAssumption
    DEF Procs, PCs, procVars, sockVars, tableVars, routeVars, cronVars, stopVars,
        Goto, Return, SetConn, CronEnds, Sock, Overlapped

-----------------------------------------------------------------------------
(* Every configuration.                                                    *)

LEMMA BaseInit == Init => BaseInv
  BY DEF Init, BaseInv, TypeOK, Placed, Named, EntryIsAuthenticated

\* Storage ends: the upgrade handler enters the ReadLoop, a worker returns.
LEMMA BaseAddCount ==
  ASSUME BaseInv, NEW p \in Procs, AddCount(p)
  PROVE  BaseInv'
<1> USE DEF BaseInv, TypeOK, Placed, Named, EntryIsAuthenticated
<1>1. count' \in [Nodes -> Int] /\ UNCHANGED <<sockVars, soketMap, routeVars, cronVars, stopVars>>
  BY DEF AddCount
<1>2. CASE p \in Sockets
  <2>1. pc' = [pc EXCEPT ![p] = "reading"] /\ UNCHANGED <<arg, task>> /\ pc[p] = "count"
    BY <1>2 DEF AddCount
  <2> QED BY <1>1, <1>2, <2>1
<1>3. CASE p \in Workers
  <2>1. /\ p \notin Sockets
        /\ pc' = [pc EXCEPT ![p] = "idle"]
        /\ arg' = [arg EXCEPT ![p] = NoId]
        /\ task' = [task EXCEPT ![p] = NoSocket]
    BY <1>3 DEF AddCount
  <2>2. TypeOK'
    BY <1>1, <1>3, <2>1
  <2>3. Placed' /\ Named' /\ EntryIsAuthenticated'
    BY <1>1, <1>3, <2>1
  <2> QED BY <2>2, <2>3
<1> QED BY <1>2, <1>3

\* A Del of the redis key, which may fail.
LEMMA BaseUnroute ==
  ASSUME BaseInv, NEW p \in Procs, Unroute(p)
  PROVE  BaseInv'
<1> USE DEF BaseInv
<1>1. TypeOK'
  BY DEF Unroute, TypeOK
<1>2. Placed' /\ Named' /\ EntryIsAuthenticated'
  BY DEF Unroute, TypeOK, Placed, Named, EntryIsAuthenticated
<1> QED BY <1>1, <1>2

\* A SET XX finds the key and overwrites it, finds none, or fails.
LEMMA BaseSetXX ==
  ASSUME BaseInv, NEW n \in Nodes, NEW d \in Devices, SetXX(n, d)
  PROVE  BaseInv'
<1> USE DEF BaseInv
<1>1. TypeOK'
  <2>1. todo' \in [Nodes -> SUBSET Devices]
    BY DEF SetXX, TypeOK
  <2>2. CASE conn[d] # NoNode /\ SetConn(d, n) /\ UNCHANGED <<missing, errored>>
    BY <2>1, <2>2 DEF SetXX, TypeOK
  <2>3. CASE missing' = [missing EXCEPT ![n] = @ \cup {d}] /\ UNCHANGED <<routeVars, errored>>
    BY <2>1, <2>3 DEF SetXX, TypeOK
  <2>4. CASE errored' = [errored EXCEPT ![n] = @ \cup {d}] /\ UNCHANGED <<routeVars, missing>>
    BY <2>1, <2>4 DEF SetXX, TypeOK
  <2> QED BY <2>2, <2>3, <2>4 DEF SetXX
<1>2. Placed' /\ Named' /\ EntryIsAuthenticated'
  BY DEF SetXX, Placed, Named, EntryIsAuthenticated
<1> QED BY <1>1, <1>2

LEMMA BaseCloseAllVisit ==
  ASSUME BaseInv, NEW n \in Nodes, NEW d \in Devices, CloseAllVisit(n, d)
  PROVE  BaseInv'
<1> USE DEF BaseInv
<1>1. TypeOK'
  BY DEF CloseAllVisit, TypeOK
<1>2. Placed' /\ Named' /\ EntryIsAuthenticated'
  BY DEF CloseAllVisit, Placed, Named, EntryIsAuthenticated
<1> QED BY <1>1, <1>2

LEMMA BaseNext == BaseInv /\ [Next]_vars => BaseInv'
<1> SUFFICES ASSUME BaseInv, [Next]_vars PROVE BaseInv'
  OBVIOUS
<1> USE DEF BaseInv, TypeOK, Placed, Named, EntryIsAuthenticated
<1>1. ASSUME NEW s \in Sockets, NEW n \in Nodes, NEW d \in Devices \cup {NoId}, Upgrade(s, n, d)
      PROVE  BaseInv'
  BY <1>1 DEF Upgrade
<1>2. ASSUME NEW s \in Sockets, Disconnect(s)
      PROVE  BaseInv'
  BY <1>2 DEF Disconnect
<1>3. ASSUME NEW s \in Sockets, OnClose(s)
      PROVE  BaseInv'
  BY <1>3 DEF OnClose
<1>4. ASSUME NEW p \in Procs, StoreEntry(p)
      PROVE  BaseInv'
  BY <1>4 DEF StoreEntry
<1>6. ASSUME NEW p \in Procs, DecrCount(p)
      PROVE  BaseInv'
  BY <1>6 DEF DecrCount
<1>7. ASSUME NEW p \in Procs, DeleteEntry(p)
      PROVE  BaseInv'
  BY <1>7 DEF DeleteEntry
<1>8. ASSUME NEW w \in Workers, NEW s \in Sockets, Recv(w, s)
      PROVE  BaseInv'
  BY <1>8 DEF Recv
<1>9. ASSUME NEW w \in Workers, NEW d \in Devices, PushLogin(w, d)
      PROVE  BaseInv'
  BY <1>9 DEF PushLogin
<1>10. ASSUME NEW w \in Workers, NEW d \in Devices, LoginSet(w, d)
       PROVE  BaseInv'
  BY <1>10 DEF LoginSet
<1>11. ASSUME NEW w \in Workers, PushOther(w)
       PROVE  BaseInv'
  BY <1>11 DEF PushOther
<1>12. ASSUME NEW w \in Workers, LoginFails(w)
       PROVE  BaseInv'
  BY <1>12 DEF LoginFails
<1>13. ASSUME NEW w \in Workers, LoginNoBody(w)
       PROVE  BaseInv'
  BY <1>13 DEF LoginNoBody
<1>14. ASSUME NEW w \in Workers, LoginOk(w)
       PROVE  BaseInv'
  BY <1>14 DEF LoginOk
<1>15. ASSUME NEW w \in Workers, ServerOnClose(w)
       PROVE  BaseInv'
  BY <1>15 DEF ServerOnClose
<1>16. ASSUME NEW w \in Workers, HangUp(w)
       PROVE  BaseInv'
  BY <1>16 DEF HangUp
<1>17. ASSUME NEW n \in Nodes, CronFire(n)
       PROVE  BaseInv'
  BY <1>17 DEF CronFire
<1>18. ASSUME NEW n \in Nodes, PipeExec(n)
       PROVE  BaseInv'
  BY <1>18 DEF PipeExec
<1>19. ASSUME NEW n \in Nodes, ExecFatal(n)
       PROVE  BaseInv'
  BY <1>19 DEF ExecFatal
<1>20. ASSUME NEW n \in Nodes, ExecReturn(n)
       PROVE  BaseInv'
  BY <1>20 DEF ExecReturn
<1>21. ASSUME NEW n \in Nodes, NoneFailed(n)
       PROVE  BaseInv'
  BY <1>21 DEF NoneFailed
<1>22. ASSUME NEW n \in Nodes, NEW d \in Devices, RangeVisit(n, d)
       PROVE  BaseInv'
  BY <1>22 DEF RangeVisit
<1>23. ASSUME NEW n \in Nodes, NEW d \in Devices, SkipFailed(n, d)
       PROVE  BaseInv'
  BY <1>23 DEF SkipFailed
<1>24. ASSUME NEW n \in Nodes, NEW d \in Devices, CloseFailed(n, d)
       PROVE  BaseInv'
  BY <1>24 DEF CloseFailed
<1>25. ASSUME NEW n \in Nodes, StopSignal(n)
       PROVE  BaseInv'
  BY <1>25 DEF StopSignal, RegisteredAt
<1>26. ASSUME NEW n \in Nodes, Exit(n)
       PROVE  BaseInv'
  BY <1>26 DEF Exit
<1>27. ASSUME NEW d \in Devices, Expire(d)
       PROVE  BaseInv'
  BY <1>27 DEF Expire
<1>28. CASE UNCHANGED vars
  BY <1>28 DEF vars
<1> QED
  BY <1>1, <1>2, <1>3, <1>4, <1>6, <1>7, <1>8, <1>9, <1>10,
     <1>11, <1>12, <1>13, <1>14, <1>15, <1>16, <1>17, <1>18, <1>19, <1>20,
     <1>21, <1>22, <1>23, <1>24, <1>25, <1>26, <1>27, <1>28,
     BaseAddCount, BaseUnroute, BaseSetXX, BaseCloseAllVisit
  DEF Next, SocketStep, WorkerStep, CronStep

\* Every variable keeps its type, whatever the configuration.
THEOREM TypeCorrect == Spec => []TypeOK
<1>1. BaseInv => TypeOK
  BY DEF BaseInv
<1> QED BY <1>1, BaseInit, BaseNext, PTL DEF Spec

\* Whatever callbacks run in parallel, a socket is in a table only if it is of
\* that node and its session has a connId (gateway.go:118-121).
THEOREM EntriesAuthenticated == Spec => []EntryIsAuthenticated
<1>1. BaseInv => EntryIsAuthenticated
  BY DEF BaseInv
<1> QED BY <1>1, BaseInit, BaseNext, PTL DEF Spec

-----------------------------------------------------------------------------
(* The counter follows the set of registered sockets.                      *)

LEMMA RegisteredFinite == \A n \in Nodes : IsFiniteSet(RegisteredAt(n))
  BY FS_Subset DEF RegisteredAt

\* A worker that enters and leaves no Storage changes no socket's registration.
LEMMA RegisteredKept ==
  ASSUME NEW w \in Workers, NEW t \in Sockets,
         pc'[t] = pc[t], session'[t] = session[t],
         pc[w] \notin {"store", "count"}, pc'[w] \notin {"store", "count"},
         \A v \in Workers \ {w} : pc'[v] = pc[v] /\ task'[v] = task[v]
  PROVE  Registered(t)' <=> Registered(t)
  BY DEF Registered, WorkersOn

LEMMA CountKept ==
  ASSUME CountIsRegistered, UNCHANGED count,
         \A n \in Nodes : RegisteredAt(n)' = RegisteredAt(n)
  PROVE  CountIsRegistered'
  BY DEF CountIsRegistered

LEMMA CountUp ==
  ASSUME CountIsRegistered, TypeOK, NEW m \in Nodes, NEW s \in Sockets,
         s \notin RegisteredAt(m),
         count' = [count EXCEPT ![m] = @ + 1],
         \A n \in Nodes : RegisteredAt(n)' =
           IF n = m THEN RegisteredAt(n) \cup {s} ELSE RegisteredAt(n)
  PROVE  CountIsRegistered'
<1>1. Cardinality(RegisteredAt(m) \cup {s}) = Cardinality(RegisteredAt(m)) + 1
  BY RegisteredFinite, FS_AddElement
<1> QED BY <1>1 DEF CountIsRegistered, TypeOK

LEMMA CountDown ==
  ASSUME CountIsRegistered, TypeOK, NEW m \in Nodes, NEW s \in RegisteredAt(m),
         count' = [count EXCEPT ![m] = @ - 1],
         \A n \in Nodes : RegisteredAt(n)' =
           IF n = m THEN RegisteredAt(n) \ {s} ELSE RegisteredAt(n)
  PROVE  CountIsRegistered'
<1>1. Cardinality(RegisteredAt(m) \ {s}) = Cardinality(RegisteredAt(m)) - 1
  BY RegisteredFinite, FS_RemoveElement
<1> QED BY <1>1 DEF CountIsRegistered, TypeOK

-----------------------------------------------------------------------------
(* The sequential gateway: each step keeps SeqInv.                         *)

LEMMA SeqInit == Init => SeqInv
<1> SUFFICES ASSUME Init PROVE SeqInv
  OBVIOUS
<1>1. OneCallback /\ OwnName /\ NoDeadEntry
  BY DEF Init, OneCallback, OwnName, NoDeadEntry
<1>2. \A n \in Nodes : RegisteredAt(n) = {} /\ count[n] = 0
  BY DEF Init, RegisteredAt, Registered
<1> QED BY <1>1, <1>2, BaseInit, FS_EmptySet DEF SeqInv, CountIsRegistered

\* A new socket is not registered before its Storage ends.
LEMMA SeqUpgrade ==
  ASSUME SeqInv, BaseInv', ~ParallelEnabled, NEW s \in Sockets, NEW n \in Nodes, NEW d \in Devices \cup {NoId}, Upgrade(s, n, d)
  PROVE  SeqInv'
<1> USE DEF SeqInv, BaseInv, Upgrade, TypeOK, Placed, Named
<1>1. OneCallback' /\ OwnName'
  BY DEF OneCallback, OwnName, WorkersOn
<1>2. NoDeadEntry'
  BY DEF NoDeadEntry, OwnName, OneCallback, EntryIsAuthenticated
<1>3. \A m \in Nodes : RegisteredAt(m)' = RegisteredAt(m)
  BY DEF RegisteredAt, Registered, WorkersOn, OneCallback, OwnName
<1>4. CountIsRegistered'
  BY <1>3, CountKept
<1> QED BY <1>1, <1>2, <1>4 DEF SeqInv

\* A registered socket that begins OnClose is still counted; one without a connId
\* is gone and was never counted.
LEMMA SeqOnClose ==
  ASSUME SeqInv, BaseInv', ~ParallelEnabled, NEW s \in Sockets, OnClose(s)
  PROVE  SeqInv'
<1> USE DEF SeqInv, BaseInv, OnClose, TypeOK, Placed, Named
<1>1. OneCallback' /\ OwnName'
  BY DEF OneCallback, OwnName, WorkersOn
<1>2. NoDeadEntry'
  BY DEF NoDeadEntry, OwnName, OneCallback, EntryIsAuthenticated
<1>3. \A m \in Nodes : RegisteredAt(m)' = RegisteredAt(m)
  BY DEF RegisteredAt, Registered, WorkersOn, OneCallback, OwnName
<1>4. CountIsRegistered'
  BY <1>3, CountKept
<1> QED BY <1>1, <1>2, <1>4 DEF SeqInv

\* The entry is the socket whose session has the connId.
LEMMA SeqStoreEntry ==
  ASSUME SeqInv, BaseInv', ~ParallelEnabled, NEW p \in Procs, StoreEntry(p)
  PROVE  SeqInv'
<1> USE DEF SeqInv, BaseInv, StoreEntry, TypeOK, Placed, Named
<1>1. OneCallback' /\ OwnName'
  BY DEF OneCallback, OwnName, WorkersOn
<1>2. NoDeadEntry'
  BY DEF NoDeadEntry, OwnName, OneCallback, EntryIsAuthenticated
<1>3. \A m \in Nodes : RegisteredAt(m)' = RegisteredAt(m)
  BY DEF RegisteredAt, Registered, WorkersOn, OneCallback, OwnName
<1>4. CountIsRegistered'
  BY <1>3, CountKept
<1> QED BY <1>1, <1>2, <1>4 DEF SeqInv

\* The socket becomes registered.
LEMMA SeqAddCount ==
  ASSUME SeqInv, BaseInv', ~ParallelEnabled, NEW p \in Procs, AddCount(p)
  PROVE  SeqInv'
<1>0. TypeOK /\ Placed /\ Named /\ OneCallback /\ OwnName /\ NoDeadEntry /\ CountIsRegistered
  BY DEF SeqInv, BaseInv
<1> PICK s : s = Sock(p)
  OBVIOUS
<1>1. /\ s \in Sockets /\ node[s] \in Nodes /\ pc[p] = "count"
      /\ count' = [count EXCEPT ![node[s]] = @ + 1]
      /\ UNCHANGED <<node, session, soketMap>>
  BY <1>0 DEF AddCount, TypeOK, Placed
<1>2. \/ /\ p = s
         /\ pc' = [pc EXCEPT ![s] = "reading"]
         /\ UNCHANGED <<arg, task>>
      \/ /\ p \in Workers /\ p \notin Sockets /\ pc[s] = "reading" /\ task[p] = s
         /\ pc' = [pc EXCEPT ![p] = "idle"]
         /\ arg' = [arg EXCEPT ![p] = NoId]
         /\ task' = [task EXCEPT ![p] = NoSocket]
  BY <1>0, <1>1 DEF AddCount, OneCallback
<1>3. OneCallback'
  <2>1. CASE p = s
    <3>1. \A w \in Workers : pc'[w] = pc[w] /\ task'[w] = task[w] /\ arg'[w] = arg[w]
      BY <1>0, <1>1, <1>2, <2>1 DEF TypeOK
    <3>2. ASSUME NEW w \in Workers PROVE task[w] # s
      <4>1. pc[s] = "count" /\ s # NoSocket
        BY <1>1, <2>1
      <4>2. (pc[w] = "idle" <=> task[w] = NoSocket) /\ (pc[w] # "idle" => pc[task[w]] = "reading")
        BY <1>0 DEF OneCallback
      <4> QED BY <4>1, <4>2
    <3>3. \A t \in Sockets \ {s} : pc'[t] = pc[t]
      BY <1>0, <1>2, <2>1 DEF TypeOK
    <3> QED BY <1>0, <1>1, <3>1, <3>2, <3>3 DEF OneCallback, TypeOK
  <2>2. CASE p # s
    <3>1. \A w \in Workers \ {p} : pc'[w] = pc[w] /\ task'[w] = task[w] /\ arg'[w] = arg[w]
      BY <1>0, <1>2, <2>2 DEF TypeOK
    <3>2. p \in Workers => pc'[p] = "idle" /\ task'[p] = NoSocket
      BY <1>0, <1>2, <2>2 DEF TypeOK
    <3>3. \A t \in Sockets : pc'[t] = pc[t]
      BY <1>0, <1>2, <2>2 DEF TypeOK
    <3>4. \A v, w \in Workers : task'[v] = task'[w] /\ task'[v] # NoSocket => v = w
      BY <1>0, <1>2, <2>2, <3>1, <3>2 DEF OneCallback
    <3>5. ASSUME NEW w \in Workers \ {p}
          PROVE  /\ pc'[w] # "idle" => pc'[task'[w]] = "reading"
                 /\ pc'[w] \in {"login", "granted", "fail", "hangup"} => session'[task'[w]] = NoId
                 /\ pc'[w] \in {"store", "count"} => session'[task'[w]] = arg'[w]
      BY <1>0, <1>1, <3>1, <3>3 DEF OneCallback, Placed
    <3> QED BY <1>0, <3>1, <3>2, <3>4, <3>5 DEF OneCallback
  <2> QED BY <2>1, <2>2
<1>4. OwnName' /\ NoDeadEntry'
  <2>1. CASE p = s
    <3>1. \A t \in Sockets : arg'[t] = arg[t] /\ (t # s => pc'[t] = pc[t])
      BY <1>0, <1>1, <1>2, <2>1 DEF TypeOK
    <3>2. pc'[s] = "reading" /\ pc[s] = "count"
      BY <1>0, <1>1, <1>2, <2>1 DEF TypeOK
    <3>3. OwnName'
      BY <1>0, <1>1, <3>1, <3>2 DEF OwnName
    <3>4. NoDeadEntry'
      BY <1>0, <1>1, <3>1, <3>2 DEF NoDeadEntry, TypeOK
    <3> QED BY <3>3, <3>4
  <2>2. CASE p # s
    BY <1>0, <1>1, <1>2, <2>2 DEF OwnName, NoDeadEntry, TypeOK
  <2> QED BY <2>1, <2>2
<1>5. CountIsRegistered'
  <2>1. \A w \in Workers : task[w] = s => w = p
    <3> SUFFICES ASSUME NEW w \in Workers, task[w] = s PROVE w = p
      OBVIOUS
    <3>1. CASE p = s
      BY <1>0, <1>1, <3>1 DEF OneCallback
    <3>2. CASE p # s
      BY <1>0, <1>1, <1>2, <3>2 DEF OneCallback
    <3> QED BY <3>1, <3>2
  <2>2. session[s] # NoId
    BY <1>0, <1>1 DEF Named
  <2>3. pc'[s] = "reading" /\ (p \in Workers => pc'[p] = "idle")
    BY <1>0, <1>1, <1>2 DEF TypeOK
  <2>4. \A w \in Workers \ {p} : task'[w] = task[w] /\ pc'[w] = pc[w]
    BY <1>0, <1>1, <1>2 DEF TypeOK
  <2>5. ~Registered(s)
    BY <1>1, <1>2 DEF Registered, WorkersOn
  <2>6. Registered(s)'
    BY <1>1, <2>1, <2>2, <2>3, <2>4 DEF Registered, WorkersOn
  <2>7. ASSUME NEW t \in Sockets, t # s
        PROVE  Registered(t)' <=> Registered(t)
    <3>1. pc'[t] = pc[t] /\ session'[t] = session[t]
      BY <1>0, <1>1, <1>2, <2>7 DEF TypeOK
    <3>2. p \in Workers => t \notin {task[p], task'[p]}
      BY <1>0, <1>1, <1>2, <2>7 DEF TypeOK
    <3> QED BY <2>4, <3>1, <3>2 DEF Registered, WorkersOn
  <2>8. \A n \in Nodes : RegisteredAt(n)' =
          IF n = node[s] THEN RegisteredAt(n) \cup {s} ELSE RegisteredAt(n)
    BY <1>1, <2>6, <2>7 DEF RegisteredAt
  <2>9. s \notin RegisteredAt(node[s])
    BY <2>5 DEF RegisteredAt
  <2> HIDE DEF RegisteredAt
  <2> QED BY <1>0, <1>1, <2>8, <2>9, CountUp
<1>6. BaseInv'
  OBVIOUS
<1> QED BY <1>3, <1>4, <1>5, <1>6 DEF SeqInv

LEMMA SeqUnroute ==
  ASSUME SeqInv, BaseInv', ~ParallelEnabled, NEW p \in Procs, Unroute(p)
  PROVE  SeqInv'
<1> USE DEF SeqInv, BaseInv, Unroute, TypeOK, Placed, Named
<1>1. OneCallback' /\ OwnName'
  BY DEF OneCallback, OwnName, WorkersOn
<1>2. NoDeadEntry'
  BY DEF NoDeadEntry, OwnName, OneCallback, EntryIsAuthenticated
<1>3. \A m \in Nodes : RegisteredAt(m)' = RegisteredAt(m)
  BY DEF RegisteredAt, Registered, WorkersOn, OneCallback, OwnName
<1>4. CountIsRegistered'
  BY <1>3, CountKept
<1> QED BY <1>1, <1>2, <1>4 DEF SeqInv

\* OnClose counts the socket out.
LEMMA SeqDecrCount ==
  ASSUME SeqInv, BaseInv', ~ParallelEnabled, NEW p \in Procs, DecrCount(p)
  PROVE  SeqInv'
<1> USE DEF SeqInv, BaseInv, DecrCount, TypeOK, Placed, Named
<1>1. OneCallback' /\ OwnName'
  BY DEF OneCallback, OwnName, WorkersOn
<1>2. NoDeadEntry'
  BY DEF NoDeadEntry, OwnName, OneCallback, EntryIsAuthenticated
<1>3. CountIsRegistered'
  <2>1. p \in Sockets
    BY DEF OneCallback
  <2>2. node[p] \in Nodes /\ p \in RegisteredAt(node[p])
    <3>1. pc[p] = "decr" /\ session[p] # NoId /\ node[p] \in Nodes
      BY <2>1 DEF OwnName
    <3>2. \A w \in WorkersOn(p) : pc[w] = "idle"
      BY <2>1, <3>1 DEF WorkersOn, OneCallback
    <3> QED BY <2>1, <3>1, <3>2 DEF RegisteredAt, Registered
  <2>5. pc' = [pc EXCEPT ![p] = "delete"] /\ UNCHANGED <<node, session, task>>
    BY <2>1
  <2>6. ~Registered(p)' /\ \A t \in Sockets \ {p} : Registered(t)' <=> Registered(t)
    BY <2>1, <2>5 DEF Registered, WorkersOn
  <2>3. \A m \in Nodes : RegisteredAt(m)' =
          IF m = node[p] THEN RegisteredAt(m) \ {p} ELSE RegisteredAt(m)
    BY <2>5, <2>6 DEF RegisteredAt
  <2>4. count' = [count EXCEPT ![node[p]] = @ - 1]
    BY <2>1
  <2>7. TypeOK /\ CountIsRegistered
    OBVIOUS
  <2> HIDE DEF TypeOK, DecrCount, SeqInv, BaseInv, Placed, Named
  <2> QED BY <2>2, <2>3, <2>4, <2>7, CountDown
<1> QED BY <1>1, <1>2, <1>3 DEF SeqInv

\* The entry of the socket's connId goes, whichever socket it was.
LEMMA SeqDeleteEntry ==
  ASSUME SeqInv, BaseInv', ~ParallelEnabled, NEW p \in Procs, DeleteEntry(p)
  PROVE  SeqInv'
<1> USE DEF SeqInv, BaseInv, DeleteEntry, TypeOK, Placed, Named
<1>1. OneCallback' /\ OwnName'
  BY DEF OneCallback, OwnName, WorkersOn
<1>2. NoDeadEntry'
  BY DEF NoDeadEntry, OwnName, OneCallback, EntryIsAuthenticated
<1>3. \A m \in Nodes : RegisteredAt(m)' = RegisteredAt(m)
  BY DEF RegisteredAt, Registered, WorkersOn, OneCallback, OwnName
<1>4. CountIsRegistered'
  BY <1>3, CountKept
<1> QED BY <1>1, <1>2, <1>4 DEF SeqInv

\* The session decides the branch, and no other worker has a message of s.
LEMMA SeqRecv ==
  ASSUME SeqInv, BaseInv', ~ParallelEnabled, NEW w \in Workers, NEW s \in Sockets, Recv(w, s)
  PROVE  SeqInv'
<1> USE DEF SeqInv, BaseInv, Recv, TypeOK, Placed, Named
<1>1. OneCallback' /\ OwnName'
  BY DEF OneCallback, OwnName, WorkersOn
<1>2. NoDeadEntry'
  BY DEF NoDeadEntry, OwnName, OneCallback, EntryIsAuthenticated
<1>3. \A t \in Sockets : Registered(t)' <=> Registered(t)
  <2> TAKE t \in Sockets
  <2>1. pc'[t] = pc[t] /\ session'[t] = session[t]
    OBVIOUS
  <2>2. pc[w] \notin {"store", "count"} /\ pc'[w] \notin {"store", "count"}
    OBVIOUS
  <2>3. \A v \in Workers \ {w} : pc'[v] = pc[v] /\ task'[v] = task[v]
    OBVIOUS
  <2> QED BY <2>1, <2>2, <2>3, RegisteredKept
<1>4. CountIsRegistered'
  <2>1. \A m \in Nodes : RegisteredAt(m)' = RegisteredAt(m)
    BY <1>3 DEF RegisteredAt
  <2> QED BY <2>1, CountKept
<1> QED BY <1>1, <1>2, <1>4 DEF SeqInv

LEMMA SeqPushLogin ==
  ASSUME SeqInv, BaseInv', ~ParallelEnabled, NEW w \in Workers, NEW d \in Devices, PushLogin(w, d)
  PROVE  SeqInv'
<1> USE DEF SeqInv, BaseInv, PushLogin, TypeOK, Placed, Named
<1>1. OneCallback' /\ OwnName'
  BY DEF OneCallback, OwnName, WorkersOn
<1>2. NoDeadEntry'
  BY DEF NoDeadEntry, OwnName, OneCallback, EntryIsAuthenticated
<1>3. \A t \in Sockets : Registered(t)' <=> Registered(t)
  <2> TAKE t \in Sockets
  <2>1. pc'[t] = pc[t] /\ session'[t] = session[t]
    OBVIOUS
  <2>2. pc[w] \notin {"store", "count"} /\ pc'[w] \notin {"store", "count"}
    OBVIOUS
  <2>3. \A v \in Workers \ {w} : pc'[v] = pc[v] /\ task'[v] = task[v]
    OBVIOUS
  <2> QED BY <2>1, <2>2, <2>3, RegisteredKept
<1>4. CountIsRegistered'
  <2>1. \A m \in Nodes : RegisteredAt(m)' = RegisteredAt(m)
    BY <1>3 DEF RegisteredAt
  <2> QED BY <2>1, CountKept
<1> QED BY <1>1, <1>2, <1>4 DEF SeqInv

LEMMA SeqLoginSet ==
  ASSUME SeqInv, BaseInv', ~ParallelEnabled, NEW w \in Workers, NEW d \in Devices, LoginSet(w, d)
  PROVE  SeqInv'
<1> USE DEF SeqInv, BaseInv, LoginSet, TypeOK, Placed, Named
<1>1. OneCallback' /\ OwnName'
  BY DEF OneCallback, OwnName, WorkersOn
<1>2. NoDeadEntry'
  BY DEF NoDeadEntry, OwnName, OneCallback, EntryIsAuthenticated
<1>3. \A m \in Nodes : RegisteredAt(m)' = RegisteredAt(m)
  BY DEF RegisteredAt, Registered, WorkersOn, OneCallback, OwnName
<1>4. CountIsRegistered'
  BY <1>3, CountKept
<1> QED BY <1>1, <1>2, <1>4 DEF SeqInv

LEMMA SeqPushOther ==
  ASSUME SeqInv, BaseInv', ~ParallelEnabled, NEW w \in Workers, PushOther(w)
  PROVE  SeqInv'
<1> USE DEF SeqInv, BaseInv, PushOther, TypeOK, Placed, Named
<1>1. OneCallback' /\ OwnName'
  BY DEF OneCallback, OwnName, WorkersOn
<1>2. NoDeadEntry'
  BY DEF NoDeadEntry, OwnName, OneCallback, EntryIsAuthenticated
<1>3. \A t \in Sockets : Registered(t)' <=> Registered(t)
  <2> TAKE t \in Sockets
  <2>1. pc'[t] = pc[t] /\ session'[t] = session[t]
    OBVIOUS
  <2>2. pc[w] \notin {"store", "count"} /\ pc'[w] \notin {"store", "count"}
    OBVIOUS
  <2>3. \A v \in Workers \ {w} : pc'[v] = pc[v] /\ task'[v] = task[v]
    OBVIOUS
  <2> QED BY <2>1, <2>2, <2>3, RegisteredKept
<1>4. CountIsRegistered'
  <2>1. \A m \in Nodes : RegisteredAt(m)' = RegisteredAt(m)
    BY <1>3 DEF RegisteredAt
  <2> QED BY <2>1, CountKept
<1> QED BY <1>1, <1>2, <1>4 DEF SeqInv

LEMMA SeqLoginFails ==
  ASSUME SeqInv, BaseInv', ~ParallelEnabled, NEW w \in Workers, LoginFails(w)
  PROVE  SeqInv'
<1> USE DEF SeqInv, BaseInv, LoginFails, TypeOK, Placed, Named
<1>1. OneCallback' /\ OwnName'
  BY DEF OneCallback, OwnName, WorkersOn
<1>2. NoDeadEntry'
  BY DEF NoDeadEntry, OwnName, OneCallback, EntryIsAuthenticated
<1>3. \A m \in Nodes : RegisteredAt(m)' = RegisteredAt(m)
  BY DEF RegisteredAt, Registered, WorkersOn, OneCallback, OwnName
<1>4. CountIsRegistered'
  BY <1>3, CountKept
<1> QED BY <1>1, <1>2, <1>4 DEF SeqInv

LEMMA SeqLoginNoBody ==
  ASSUME SeqInv, BaseInv', ~ParallelEnabled, NEW w \in Workers, LoginNoBody(w)
  PROVE  SeqInv'
<1> USE DEF SeqInv, BaseInv, LoginNoBody, TypeOK, Placed, Named
<1>1. OneCallback' /\ OwnName'
  BY DEF OneCallback, OwnName, WorkersOn
<1>2. NoDeadEntry'
  BY DEF NoDeadEntry, OwnName, OneCallback, EntryIsAuthenticated
<1>3. \A m \in Nodes : RegisteredAt(m)' = RegisteredAt(m)
  BY DEF RegisteredAt, Registered, WorkersOn, OneCallback, OwnName
<1>4. CountIsRegistered'
  BY <1>3, CountKept
<1> QED BY <1>1, <1>2, <1>4 DEF SeqInv

\* The session gets its connId; the worker now owes a Storage.
LEMMA SeqLoginOk ==
  ASSUME SeqInv, BaseInv', ~ParallelEnabled, NEW w \in Workers, LoginOk(w)
  PROVE  SeqInv'
<1> USE DEF SeqInv, BaseInv, LoginOk, TypeOK, Placed, Named
<1>1. OneCallback' /\ OwnName'
  BY DEF OneCallback, OwnName, WorkersOn
<1>2. NoDeadEntry'
  BY DEF NoDeadEntry, OwnName, OneCallback, EntryIsAuthenticated
<1>3. \A m \in Nodes : RegisteredAt(m)' = RegisteredAt(m)
  BY DEF RegisteredAt, Registered, WorkersOn, OneCallback, OwnName
<1>4. CountIsRegistered'
  BY <1>3, CountKept
<1> QED BY <1>1, <1>2, <1>4 DEF SeqInv

LEMMA SeqServerOnClose ==
  ASSUME SeqInv, BaseInv', ~ParallelEnabled, NEW w \in Workers, ServerOnClose(w)
  PROVE  SeqInv'
<1> USE DEF SeqInv, BaseInv, ServerOnClose, TypeOK, Placed, Named
<1>1. OneCallback' /\ OwnName'
  BY DEF OneCallback, OwnName, WorkersOn
<1>2. NoDeadEntry'
  BY DEF NoDeadEntry, OwnName, OneCallback, EntryIsAuthenticated
<1>3. \A m \in Nodes : RegisteredAt(m)' = RegisteredAt(m)
  BY DEF RegisteredAt, Registered, WorkersOn, OneCallback, OwnName
<1>4. CountIsRegistered'
  BY <1>3, CountKept
<1> QED BY <1>1, <1>2, <1>4 DEF SeqInv

LEMMA SeqHangUp ==
  ASSUME SeqInv, BaseInv', ~ParallelEnabled, NEW w \in Workers, HangUp(w)
  PROVE  SeqInv'
<1> USE DEF SeqInv, BaseInv, HangUp, TypeOK, Placed, Named
<1>1. OneCallback' /\ OwnName'
  BY DEF OneCallback, OwnName, WorkersOn
<1>2. NoDeadEntry'
  BY DEF NoDeadEntry, OwnName, OneCallback, EntryIsAuthenticated
<1>3. \A t \in Sockets : Registered(t)' <=> Registered(t)
  <2> TAKE t \in Sockets
  <2>1. pc'[t] = pc[t] /\ session'[t] = session[t]
    OBVIOUS
  <2>2. pc[w] \notin {"store", "count"} /\ pc'[w] \notin {"store", "count"}
    OBVIOUS
  <2>3. \A v \in Workers \ {w} : pc'[v] = pc[v] /\ task'[v] = task[v]
    OBVIOUS
  <2> QED BY <2>1, <2>2, <2>3, RegisteredKept
<1>4. CountIsRegistered'
  <2>1. \A m \in Nodes : RegisteredAt(m)' = RegisteredAt(m)
    BY <1>3 DEF RegisteredAt
  <2> QED BY <2>1, CountKept
<1> QED BY <1>1, <1>2, <1>4 DEF SeqInv

\* The node loses its sockets, its table and its counter at once.
LEMMA SeqExit ==
  ASSUME SeqInv, BaseInv', ~ParallelEnabled, NEW n \in Nodes, Exit(n)
  PROVE  SeqInv'
<1> USE DEF SeqInv, BaseInv, Exit, TypeOK, Placed, Named
<1>1. OneCallback' /\ OwnName'
  BY DEF OneCallback, OwnName, WorkersOn
<1>2. NoDeadEntry'
  BY DEF NoDeadEntry, OwnName, OneCallback, EntryIsAuthenticated
<1>3. CountIsRegistered'
  <2>1. \A m \in Nodes : RegisteredAt(m)' = IF m = n THEN {} ELSE RegisteredAt(m)
    BY DEF RegisteredAt, Registered, WorkersOn, OneCallback, OwnName
  <2>2. \A m \in Nodes : count'[m] = IF m = n THEN 0 ELSE count[m]
    OBVIOUS
  <2>3. \A m \in Nodes \ {n} : count'[m] = Cardinality(RegisteredAt(m)')
    BY <2>1, <2>2 DEF CountIsRegistered
  <2>4. count'[n] = 0 /\ RegisteredAt(n)' = {}
    BY <2>1, <2>2
  <2>5. count'[n] = Cardinality(RegisteredAt(n)')
    BY <2>4, FS_EmptySet
  <2> QED BY <2>3, <2>5 DEF CountIsRegistered
<1> QED BY <1>1, <1>2, <1>3 DEF SeqInv

\* What the refresh, the shutdown, redis and the network do leaves the
\* processes, the sessions, the table and the counter alone.
LEMMA SeqAlone ==
  ASSUME SeqInv, BaseInv',
         UNCHANGED <<procVars, node, session, tableVars>>
  PROVE  SeqInv'
<1> USE DEF SeqInv
<1>1. OneCallback' /\ OwnName' /\ NoDeadEntry'
  BY DEF OneCallback, OwnName, NoDeadEntry
<1>2. \A n \in Nodes : RegisteredAt(n)' = RegisteredAt(n)
  BY DEF RegisteredAt, Registered, WorkersOn
<1> QED BY <1>1, <1>2, CountKept

LEMMA SeqNext ==
  ASSUME ~ParallelEnabled
  PROVE  SeqInv /\ [Next]_vars => SeqInv'
<1> SUFFICES ASSUME SeqInv, [Next]_vars PROVE SeqInv'
  OBVIOUS
<1>1. BaseInv'
  BY BaseNext DEF SeqInv
<1>2. ASSUME NEW s \in Sockets,
             \/ \E n \in Nodes, d \in Devices \cup {NoId} : Upgrade(s, n, d)
             \/ SocketStep(s)
      PROVE  SeqInv'
  BY <1>1, <1>2, SeqUpgrade, SeqStoreEntry, SeqAddCount, SeqOnClose, SeqUnroute,
     SeqDecrCount, SeqDeleteEntry DEF SocketStep
<1>3. ASSUME NEW w \in Workers, WorkerStep(w) \/ \E s \in Sockets : Recv(w, s)
      PROVE  SeqInv'
  BY <1>1, <1>3, SeqRecv, SeqPushLogin, SeqPushOther, SeqLoginSet, SeqLoginFails,
     SeqLoginNoBody, SeqLoginOk, SeqStoreEntry, SeqAddCount, SeqServerOnClose,
     SeqUnroute, SeqDecrCount, SeqDeleteEntry, SeqHangUp DEF WorkerStep
<1>4. ASSUME NEW n \in Nodes,
             CronStep(n) \/ StopSignal(n) \/ \E d \in Devices : CloseAllVisit(n, d)
      PROVE  SeqInv'
  BY <1>1, <1>4, SeqAlone
  DEF CronStep, CronFire, PipeExec, ExecFatal, ExecReturn, NoneFailed, RangeVisit,
      SetXX, SkipFailed, CloseFailed, StopSignal, CloseAllVisit
<1>5. ASSUME \/ \E d \in Devices : Expire(d)
             \/ \E s \in Sockets : Disconnect(s)
             \/ UNCHANGED vars
      PROVE  SeqInv'
  BY <1>1, <1>5, SeqAlone DEF Expire, Disconnect, vars
<1> QED BY <1>1, <1>2, <1>3, <1>4, <1>5, SeqExit DEF Next

\* With ParallelEnabled off, the counter of every node is the number of its
\* registered sockets, however connections overlap, fail or crash.
THEOREM SequentialCount ==
  ASSUME ~ParallelEnabled
  PROVE  Spec => []CountIsRegistered
<1>1. SeqInv => CountIsRegistered
  BY DEF SeqInv
<1> QED BY <1>1, SeqInit, SeqNext, PTL DEF Spec

\* With ParallelEnabled off, OnClose takes a socket out of the table for good.
THEOREM SequentialNoDeadEntry ==
  ASSUME ~ParallelEnabled
  PROVE  Spec => []NoDeadEntry
<1>1. SeqInv => NoDeadEntry
  BY DEF SeqInv
<1> QED BY <1>1, SeqInit, SeqNext, PTL DEF Spec

-----------------------------------------------------------------------------
(* The sequential gateway implements the ledger, and loses entries only to *)
(* sockets that share a connId.                                            *)

LEMMA StoredKept ==
  ASSUME NEW w \in Workers, NEW t \in Sockets,
         pc'[t] = pc[t], session'[t] = session[t],
         pc[w] # "store", pc'[w] # "store",
         \A v \in Workers \ {w} : pc'[v] = pc[v] /\ task'[v] = task[v]
  PROVE  Stored(t)' <=> Stored(t)
  BY DEF Stored, WorkersOn

\* Whatever a process does outside Storage's count and Del's decrement, no
\* socket is counted in or out and none but Store makes an entry.
LEMMA SeqStages ==
  ASSUME SeqInv, SeqInv', ~ParallelEnabled, NEW p \in Procs,
         \/ \E n \in Nodes, d \in Devices \cup {NoId} : p \in Sockets /\ Upgrade(p, n, d)
         \/ p \in Sockets /\ OnClose(p)
         \/ Unroute(p) \/ DeleteEntry(p) \/ StoreEntry(p)
         \/ p \in Workers /\ \/ \E s \in Sockets : Recv(p, s)
                             \/ \E d \in Devices : PushLogin(p, d) \/ LoginSet(p, d)
                             \/ PushOther(p) \/ LoginFails(p) \/ LoginNoBody(p)
                             \/ LoginOk(p) \/ ServerOnClose(p) \/ HangUp(p)
  PROVE  \A t \in Sockets : (Registered(t)' <=> Registered(t)) /\ (Stored(t)' => Stored(t) \/ pc[p] = "store")
<1> SUFFICES ASSUME NEW t \in Sockets
             PROVE  (Registered(t)' <=> Registered(t)) /\ (Stored(t)' => Stored(t) \/ pc[p] = "store")
  OBVIOUS
<1> USE DEF SeqInv, BaseInv, TypeOK, Placed, Named, OneCallback, OwnName, Registered, Stored, WorkersOn
<1>1. ASSUME NEW n \in Nodes, NEW d \in Devices \cup {NoId}, p \in Sockets, Upgrade(p, n, d)
      PROVE  (Registered(t)' <=> Registered(t)) /\ (Stored(t)' => Stored(t))
  BY <1>1 DEF Upgrade
<1>2. CASE p \in Sockets /\ OnClose(p)
  BY <1>2 DEF OnClose
<1>3. CASE Unroute(p)
  BY <1>3 DEF Unroute
<1>4. CASE DeleteEntry(p)
  BY <1>4 DEF DeleteEntry
<1>5. CASE StoreEntry(p)
  BY <1>5 DEF StoreEntry
<1>6. CASE p \in Workers /\ \/ \E s \in Sockets : Recv(p, s)
                            \/ \E d \in Devices : PushLogin(p, d)
                            \/ PushOther(p) \/ LoginNoBody(p) \/ HangUp(p)
  <2>1. p \in Workers /\ pc'[t] = pc[t] /\ session'[t] = session[t]
    BY <1>6 DEF Recv, PushLogin, PushOther, LoginNoBody, HangUp
  <2>2. pc[p] \notin {"store", "count"} /\ pc'[p] \notin {"store", "count"}
    BY <1>6 DEF Recv, PushLogin, PushOther, LoginNoBody, HangUp
  <2>3. \A v \in Workers \ {p} : pc'[v] = pc[v] /\ task'[v] = task[v]
    BY <1>6 DEF Recv, PushLogin, PushOther, LoginNoBody, HangUp
  <2> HIDE DEF Registered, Stored
  <2> QED BY <2>1, <2>2, <2>3, RegisteredKept, StoredKept
<1>7. ASSUME p \in Workers, NEW d \in Devices, LoginSet(p, d)
      PROVE  (Registered(t)' <=> Registered(t)) /\ (Stored(t)' => Stored(t))
  BY <1>7 DEF LoginSet
<1>8. CASE p \in Workers /\ LoginFails(p)
  BY <1>8 DEF LoginFails
<1>9. CASE p \in Workers /\ LoginOk(p)
  BY <1>9 DEF LoginOk
<1>10. CASE p \in Workers /\ ServerOnClose(p)
  BY <1>10 DEF ServerOnClose
<1> QED
  BY <1>1, <1>2, <1>3, <1>4, <1>5, <1>6, <1>7, <1>8, <1>9, <1>10

\* Storage's count and Del's decrement: only that one socket is counted, and
\* none gets an entry.
LEMMA SeqCounts ==
  ASSUME SeqInv, SeqInv', ~ParallelEnabled, NEW p \in Procs, AddCount(p) \/ DecrCount(p)
  PROVE  \A t \in Sockets :
           /\ t # Sock(p) => (Registered(t)' <=> Registered(t))
           /\ Stored(t)' => Stored(t)
<1> USE DEF SeqInv, BaseInv, TypeOK, Placed, Named, OneCallback, OwnName
<1>1. CASE p \in Sockets
  BY <1>1 DEF AddCount, DecrCount, Registered, Stored, WorkersOn
<1>2. CASE p \in Workers
  <2>1. /\ p \notin Sockets /\ AddCount(p) /\ pc[p] = "count" /\ task[p] \in Sockets
        /\ pc' = [pc EXCEPT ![p] = "idle"] /\ task' = [task EXCEPT ![p] = NoSocket]
        /\ session' = session
    BY <1>2 DEF AddCount, DecrCount
  <2>2. \A v \in Workers \ {p} : pc'[v] = pc[v] /\ task'[v] = task[v]
    BY <2>1
  <2>3. \A t \in Sockets : pc'[t] = pc[t] /\ session'[t] = session[t]
    BY <2>1
  <2>4. \A t \in Sockets : WorkersOn(t)' = WorkersOn(t) \ {p}
    BY <2>1 DEF WorkersOn
  <2>5. \A t \in Sockets \ {task[p]} : WorkersOn(t)' = WorkersOn(t) /\ p \notin WorkersOn(t)
    BY <2>1, <2>4 DEF WorkersOn
  <2>6. \A t \in Sockets : WorkersOn(t) \subseteq Workers
    BY DEF WorkersOn
  <2> QED BY <1>2, <2>1, <2>2, <2>3, <2>4, <2>5, <2>6 DEF Registered, Stored
<1> QED BY <1>1, <1>2

LEMMA StoredInit == Init => StoredIsEntry
  BY DEF Init, StoredIsEntry, Stored

\* No table is written: an entry there stays, and so does who took its place.
LEMMA StoredTableKept ==
  ASSUME SeqInv, StoredIsEntry, UNCHANGED soketMap,
         \A t \in Sockets : Stored(t)' => Stored(t),
         \A t \in Sockets : pc[t] # "unused" => node'[t] = node[t],
         \A t \in Sockets : session[t] # NoId => session'[t] = session[t]
  PROVE  StoredIsEntry'
<1> SUFFICES ASSUME NEW s \in Sockets, Stored(s)', soketMap'[node'[s]][session'[s]] # s
             PROVE  \E t \in Sockets \ {s} : node'[t] = node'[s] /\ session'[t] = session'[s]
  BY DEF StoredIsEntry
<1>1. Stored(s) /\ node'[s] = node[s] /\ session'[s] = session[s] /\ node[s] \in Nodes
      /\ session[s] # NoId
  BY DEF Stored, SeqInv, BaseInv, Placed
<1>2. PICK t \in Sockets \ {s} : node[t] = node[s] /\ session[t] = session[s]
  BY <1>1 DEF StoredIsEntry
<1>3. node'[t] = node[t] /\ session'[t] = session[t]
  BY <1>1, <1>2 DEF SeqInv, BaseInv, Placed
<1> QED BY <1>1, <1>2, <1>3

LEMMA StoredNext ==
  ASSUME ~ParallelEnabled
  PROVE  SeqInv /\ SeqInv' /\ StoredIsEntry /\ [Next]_vars => StoredIsEntry'
<1> SUFFICES ASSUME SeqInv, SeqInv', StoredIsEntry, [Next]_vars PROVE StoredIsEntry'
  OBVIOUS
<1> USE DEF SeqInv, BaseInv, TypeOK, Placed, Named
\* The entry is the socket's; the other sockets of that node and connId share it.
<1>1. ASSUME NEW p \in Procs, StoreEntry(p) PROVE StoredIsEntry'
  <2> SUFFICES ASSUME NEW s \in Sockets, Stored(s)', soketMap'[node'[s]][session'[s]] # s
               PROVE  \E t \in Sockets \ {s} : node'[t] = node'[s] /\ session'[t] = session'[s]
    BY DEF StoredIsEntry
  <2>1. /\ node' = node /\ session' = session /\ Sock(p) \in Sockets
        /\ node[Sock(p)] \in Nodes /\ arg[p] = session[Sock(p)] /\ arg[p] \in Devices
        /\ soketMap' = [soketMap EXCEPT ![node[Sock(p)]][arg[p]] = Sock(p)]
    BY <1>1 DEF StoreEntry, OneCallback, OwnName
  <2>2. node[s] \in Nodes /\ session[s] \in Devices
    BY <2>1 DEF Stored
  <2>3. CASE node[s] = node[Sock(p)] /\ session[s] = arg[p]
    <3>1. Sock(p) # s
      BY <2>1, <2>2, <2>3
    <3> QED BY <2>1, <2>3, <3>1
  <2>4. CASE ~(node[s] = node[Sock(p)] /\ session[s] = arg[p])
    <3>1. soketMap'[node[s]][session[s]] = soketMap[node[s]][session[s]]
      BY <2>1, <2>2, <2>4
    <3>2. s # Sock(p)
      BY <2>1, <2>4
    <3>3. Stored(s)
      <4>1. pc'[s] = pc[s] /\ \A w \in WorkersOn(s) : w \in WorkersOn(s)' /\ w # p
        BY <1>1, <3>2 DEF StoreEntry, WorkersOn
      <4>2. \A w \in WorkersOn(s) : pc'[w] = pc[w]
        BY <1>1, <4>1 DEF StoreEntry, WorkersOn
      <4> QED BY <2>1, <4>1, <4>2 DEF Stored
    <3> QED BY <2>1, <3>1, <3>3 DEF StoredIsEntry
  <2> QED BY <2>3, <2>4
\* OnClose deletes under its own connId: whom it hits shares that connId.
<1>2. ASSUME NEW p \in Procs, DeleteEntry(p) PROVE StoredIsEntry'
  <2> SUFFICES ASSUME NEW s \in Sockets, Stored(s)', soketMap'[node'[s]][session'[s]] # s
               PROVE  \E t \in Sockets \ {s} : node'[t] = node'[s] /\ session'[t] = session'[s]
    BY DEF StoredIsEntry
  <2>1. /\ node' = node /\ session' = session /\ p \in Sockets /\ Sock(p) = p
        /\ node[p] \in Nodes /\ arg[p] = session[p] /\ arg[p] \in Devices
        /\ soketMap' = [soketMap EXCEPT ![node[p]][arg[p]] = NoSocket]
    BY <1>2 DEF DeleteEntry, OneCallback, OwnName
  <2>2. pc'[p] = "gone" /\ p # s
    BY <1>2, <2>1 DEF DeleteEntry, Stored
  <2>3. Stored(s) /\ node[s] \in Nodes /\ session[s] \in Devices
    <3>1. Stored(s) \/ pc[p] = "store"
      <4> HIDE DEF SeqInv, BaseInv, TypeOK, Placed, Named
      <4> QED BY <1>2, SeqStages
    <3>2. pc[p] = "delete"
      BY <1>2 DEF DeleteEntry
    <3> QED BY <3>1, <3>2, <2>2 DEF Stored
  <2>4. CASE node[s] = node[p] /\ session[s] = arg[p]
    BY <2>1, <2>2, <2>4
  <2>5. CASE ~(node[s] = node[p] /\ session[s] = arg[p])
    <3>1. soketMap'[node[s]][session[s]] = soketMap[node[s]][session[s]]
      BY <2>1, <2>3, <2>5
    <3> QED BY <2>1, <2>3, <3>1 DEF StoredIsEntry
  <2> QED BY <2>4, <2>5
\* The sockets and the table of that node are gone; the others are as they were.
<1>3. ASSUME NEW n \in Nodes, Exit(n) PROVE StoredIsEntry'
  <2> SUFFICES ASSUME NEW s \in Sockets, Stored(s)', soketMap'[node'[s]][session'[s]] # s
               PROVE  \E t \in Sockets \ {s} : node'[t] = node'[s] /\ session'[t] = session'[s]
    BY DEF StoredIsEntry
  <2>1. node' = node /\ session' = session /\ soketMap' = [soketMap EXCEPT ![n] = [d \in Devices |-> NoSocket]]
    BY <1>3 DEF Exit
  <2>2. node[s] # n /\ pc'[s] = pc[s]
    BY <1>3 DEF Exit, Stored
  <2>3. \A w \in Workers : task[w] = s => task'[w] = s /\ pc'[w] = pc[w]
    <3> TAKE w \in Workers
    <3>1. w \notin Sockets
      OBVIOUS
    <3> QED BY <1>3, <2>2, <3>1 DEF Exit
  <2>4. Stored(s)
    BY <2>1, <2>2, <2>3 DEF Stored, WorkersOn
  <2>5. soketMap'[node[s]][session[s]] = soketMap[node[s]][session[s]]
    BY <2>1, <2>2, <2>4 DEF Stored
  <2> QED BY <2>1, <2>4, <2>5 DEF StoredIsEntry
<1>4. ASSUME NEW s \in Sockets, NEW n \in Nodes, NEW d \in Devices \cup {NoId}, Upgrade(s, n, d)
      PROVE  StoredIsEntry'
  <2>1. \A t \in Sockets : Stored(t)' => Stored(t)
    BY <1>4, SeqStages DEF Upgrade
  <2>2. pc[s] = "unused" /\ session[s] = NoId /\ soketMap' = soketMap
        /\ node' = [node EXCEPT ![s] = n] /\ session' = [session EXCEPT ![s] = d]
    BY <1>4 DEF Upgrade, OwnName
  <2>3. \A t \in Sockets : /\ pc[t] # "unused" => node'[t] = node[t]
                           /\ session[t] # NoId => session'[t] = session[t]
    BY <2>2
  <2> QED BY <2>1, <2>2, <2>3, StoredTableKept
<1>5. ASSUME NEW w \in Workers, LoginOk(w) PROVE StoredIsEntry'
  <2>1. \A t \in Sockets : Stored(t)' => Stored(t)
    BY <1>5, SeqStages DEF LoginOk
  <2>2. session[task[w]] = NoId /\ soketMap' = soketMap /\ node' = node
        /\ session' = [session EXCEPT ![task[w]] = arg[w]]
    BY <1>5 DEF LoginOk, OneCallback
  <2>3. \A t \in Sockets : session[t] # NoId => session'[t] = session[t]
    BY <2>2
  <2> QED BY <2>1, <2>2, <2>3, StoredTableKept
<1>6. ASSUME NEW p \in Procs,
             \/ p \in Sockets /\ OnClose(p)
             \/ Unroute(p)
             \/ p \in Workers /\ \/ \E s \in Sockets : Recv(p, s)
                                 \/ \E d \in Devices : PushLogin(p, d) \/ LoginSet(p, d)
                                 \/ PushOther(p) \/ LoginFails(p) \/ LoginNoBody(p)
                                 \/ ServerOnClose(p) \/ HangUp(p)
      PROVE  StoredIsEntry'
  <2>1. UNCHANGED <<node, session, soketMap>> /\ pc[p] # "store"
    BY <1>6 DEF OnClose, Unroute, Recv, PushLogin, LoginSet, PushOther, LoginFails,
                LoginNoBody, ServerOnClose, HangUp
  <2>2. \A t \in Sockets : Stored(t)' => Stored(t)
    BY <1>6, <2>1, SeqStages
  <2> QED BY <2>1, <2>2, StoredTableKept
<1>7. ASSUME NEW p \in Procs, AddCount(p) \/ DecrCount(p) PROVE StoredIsEntry'
  <2>1. UNCHANGED <<node, session, soketMap>>
    BY <1>7 DEF AddCount, DecrCount
  <2>2. \A t \in Sockets : Stored(t)' => Stored(t)
    BY <1>7, SeqCounts
  <2> QED BY <2>1, <2>2, StoredTableKept
<1>8. ASSUME UNCHANGED <<procVars, node, session, tableVars>> PROVE StoredIsEntry'
  BY <1>8, StoredTableKept DEF Stored, WorkersOn
<1>9. ASSUME NEW n \in Nodes, CronStep(n) \/ StopSignal(n) \/ \E d \in Devices : CloseAllVisit(n, d)
      PROVE  UNCHANGED <<procVars, node, session, tableVars>>
  BY <1>9 DEF CronStep, CronFire, PipeExec, ExecFatal, ExecReturn, NoneFailed, RangeVisit,
              SetXX, SkipFailed, CloseFailed, StopSignal, CloseAllVisit
<1>10. ASSUME \/ \E d \in Devices : Expire(d)
              \/ \E s \in Sockets : Disconnect(s)
              \/ UNCHANGED vars
       PROVE  UNCHANGED <<procVars, node, session, tableVars>>
  BY <1>10 DEF Expire, Disconnect, vars
<1>11. ASSUME NEW s \in Sockets, SocketStep(s) PROVE StoredIsEntry'
  BY <1>1, <1>2, <1>6, <1>7, <1>11 DEF SocketStep
<1>12. ASSUME NEW w \in Workers, WorkerStep(w) \/ \E s \in Sockets : Recv(w, s)
       PROVE  StoredIsEntry'
  BY <1>1, <1>2, <1>5, <1>6, <1>7, <1>12 DEF WorkerStep
<1> HIDE DEF SeqInv, BaseInv, TypeOK, Placed, Named
<1> QED
  BY <1>3, <1>4, <1>8, <1>9, <1>10, <1>11, <1>12 DEF Next

\* With ParallelEnabled off, a registered socket loses its entry only to another
\* one of its node with its connId (connection.go:35-38).
THEOREM SequentialEntryLost ==
  ASSUME ~ParallelEnabled
  PROVE  Spec => []EntryLostOnlyByOverlap
<1>1. StoredIsEntry => EntryLostOnlyByOverlap
  BY DEF StoredIsEntry, EntryLostOnlyByOverlap, Registered, Stored
<1> QED BY <1>1, SeqInit, SeqNext, StoredInit, StoredNext, PTL DEF Spec

-----------------------------------------------------------------------------
(* CloseAll of a sequential gateway.                                       *)

LEMMA SeqClosedInit == Init => ClosedBefore /\ OwedUnlessOverlapped
  BY DEF Init, ClosedBefore, OwedUnlessOverlapped

\* Only an upgrade opens a network connection, and only OnClose ends a ReadLoop.
LEMMA SeqClosedNext ==
  ASSUME ~ParallelEnabled
  PROVE  SeqInv /\ ClosedBefore /\ [Next]_vars => ClosedBefore'
<1> SUFFICES ASSUME SeqInv, ClosedBefore, [Next]_vars PROVE ClosedBefore'
  OBVIOUS
<1> USE DEF ClosedBefore
<1>1. ASSUME NEW s \in Sockets, NEW n \in Nodes, NEW d \in Devices \cup {NoId}, Upgrade(s, n, d)
      PROVE  ClosedBefore'
  BY <1>1 DEF Upgrade, SeqInv, BaseInv, TypeOK
<1>2. ASSUME NEW s \in Sockets, OnClose(s) PROVE ClosedBefore'
  BY <1>2 DEF OnClose, SeqInv, BaseInv, TypeOK
<1>3. ASSUME NEW p \in Procs,
             StoreEntry(p) \/ AddCount(p) \/ Unroute(p) \/ DecrCount(p) \/ DeleteEntry(p)
      PROVE  ClosedBefore'
  <2>1. up' = up /\ pc[p] \notin {"unused", "reading"}
    BY <1>3 DEF StoreEntry, AddCount, Unroute, DecrCount, DeleteEntry
  <2>2. \A t \in Sockets : pc'[t] # pc[t] =>
          pc'[t] \in {"count", "reading"} \/ pc[t] \in {"unroute", "decr", "delete"}
    BY <1>3 DEF StoreEntry, AddCount, Unroute, DecrCount, DeleteEntry, SeqInv, BaseInv, TypeOK
  <2> QED BY <2>1, <2>2
<1>4. ASSUME NEW w \in Workers,
             \/ \E s \in Sockets : Recv(w, s)
             \/ \E d \in Devices : PushLogin(w, d) \/ LoginSet(w, d)
             \/ PushOther(w) \/ LoginFails(w) \/ LoginNoBody(w) \/ LoginOk(w)
             \/ ServerOnClose(w) \/ HangUp(w)
      PROVE  ClosedBefore'
  <2>1. \A t \in Sockets : pc'[t] = pc[t]
    BY <1>4 DEF Recv, PushLogin, LoginSet, PushOther, LoginFails, LoginNoBody, LoginOk,
                ServerOnClose, HangUp, SeqInv, BaseInv, TypeOK
  <2>2. \A t \in Sockets : up'[t] => up[t]
    BY <1>4 DEF Recv, PushLogin, LoginSet, PushOther, LoginFails, LoginNoBody, LoginOk,
                ServerOnClose, HangUp, SeqInv, BaseInv, TypeOK
  <2> QED BY <2>1, <2>2
<1>5. ASSUME NEW n \in Nodes, CronStep(n) \/ StopSignal(n) \/ \E d \in Devices : CloseAllVisit(n, d)
      PROVE  ClosedBefore'
  <2>1. pc' = pc /\ \A t \in Sockets : up'[t] => up[t]
    BY <1>5 DEF CronStep, CronFire, PipeExec, ExecFatal, ExecReturn, NoneFailed, RangeVisit,
                SetXX, SkipFailed, CloseFailed, StopSignal, CloseAllVisit, SeqInv, BaseInv, TypeOK
  <2> QED BY <2>1
<1>6. ASSUME \/ \E d \in Devices : Expire(d)
             \/ \E s \in Sockets : Disconnect(s)
             \/ UNCHANGED vars
      PROVE  ClosedBefore'
  <2>1. pc' = pc /\ \A t \in Sockets : up'[t] => up[t]
    BY <1>6 DEF Expire, Disconnect, vars, SeqInv, BaseInv, TypeOK
  <2> QED BY <2>1
<1>7. ASSUME NEW n \in Nodes, Exit(n) PROVE ClosedBefore'
  <2>1. \A t \in Sockets : pc'[t] # pc[t] => ~up'[t]
    BY <1>7 DEF Exit
  <2>2. \A t \in Sockets : up'[t] => up[t]
    BY <1>7 DEF Exit
  <2> QED BY <2>1, <2>2
<1> QED
  BY <1>1, <1>2, <1>3, <1>4, <1>5, <1>6, <1>7 DEF Next, SocketStep, WorkerStep

\* No table is written: who is owed a close stays found, closed or overlapped.
LEMMA SeqOwedKept ==
  ASSUME SeqInv, OwedUnlessOverlapped, UNCHANGED <<soketMap, stopVars>>,
         \A t \in Sockets : pc[t] # "unused" => node'[t] = node[t] /\ (up'[t] => up[t]),
         \A t \in Sockets : session[t] # NoId => session'[t] = session[t]
  PROVE  OwedUnlessOverlapped'
<1> SUFFICES ASSUME NEW n \in Nodes, closing'[n], NEW s \in owed'[n]
             PROVE  /\ node'[s] = n /\ session'[s] \in Devices
                    /\ \/ soketMap'[n][session'[s]] = s /\ session'[s] \in sweep'[n]
                       \/ ~up'[s]
                       \/ Overlapped(s)'
  BY DEF OwedUnlessOverlapped
<1>1. /\ s \in Sockets /\ node[s] = n /\ session[s] \in Devices
      /\ \/ soketMap[n][session[s]] = s /\ session[s] \in sweep[n]
         \/ ~up[s]
         \/ Overlapped(s)
  BY DEF OwedUnlessOverlapped, SeqInv, BaseInv, TypeOK
<1>2. pc[s] # "unused" /\ node'[s] = n /\ session'[s] = session[s]
  BY <1>1 DEF SeqInv, BaseInv, Placed
<1>3. ASSUME NEW t \in Sockets \ {s}, node[t] = node[s], session[t] = session[s]
      PROVE  Overlapped(s)'
  BY <1>1, <1>2, <1>3 DEF SeqInv, BaseInv, Placed
<1> QED BY <1>1, <1>2, <1>3

\* A Store puts another socket in the entry of one that is owed a close only if
\* they share a connId.
LEMMA SeqOwedStore ==
  ASSUME SeqInv, OwedUnlessOverlapped, NEW p \in Procs, StoreEntry(p)
  PROVE  OwedUnlessOverlapped'
<1> SUFFICES ASSUME NEW n \in Nodes, closing[n], NEW s \in owed[n]
             PROVE  /\ node[s] = n /\ session[s] \in Devices
                    /\ \/ soketMap'[n][session[s]] = s /\ session[s] \in sweep[n]
                       \/ ~up[s]
                       \/ Overlapped(s)
  BY DEF OwedUnlessOverlapped, StoreEntry
<1>1. /\ s \in Sockets /\ node[s] = n /\ session[s] \in Devices
      /\ \/ soketMap[n][session[s]] = s /\ session[s] \in sweep[n]
         \/ ~up[s]
         \/ Overlapped(s)
  BY DEF OwedUnlessOverlapped, SeqInv, BaseInv, TypeOK
<1>2. /\ Sock(p) \in Sockets /\ arg[p] = session[Sock(p)]
      /\ soketMap' = [soketMap EXCEPT ![node[Sock(p)]][arg[p]] = Sock(p)]
  BY DEF StoreEntry, SeqInv, OneCallback, OwnName, BaseInv, Placed
<1>3. CASE node[Sock(p)] = n /\ session[Sock(p)] = session[s]
  <2>1. CASE Sock(p) = s
    BY <1>1, <1>2, <1>3, <2>1 DEF SeqInv, BaseInv, TypeOK
  <2>2. CASE Sock(p) # s
    BY <1>1, <1>2, <1>3, <2>2
  <2> QED BY <2>1, <2>2
<1>4. CASE ~(node[Sock(p)] = n /\ session[Sock(p)] = session[s])
  <2>1. soketMap'[n][session[s]] = soketMap[n][session[s]]
    BY <1>1, <1>2, <1>4 DEF SeqInv, BaseInv, TypeOK
  <2> QED BY <1>1, <2>1
<1> QED BY <1>3, <1>4

\* The Del of a socket's OnClose takes away its own entry, and its network
\* connection is closed, or that of one it shares its connId with.
LEMMA SeqOwedDelete ==
  ASSUME SeqInv, ClosedBefore, OwedUnlessOverlapped, NEW p \in Procs, DeleteEntry(p)
  PROVE  OwedUnlessOverlapped'
<1> SUFFICES ASSUME NEW n \in Nodes, closing[n], NEW s \in owed[n]
             PROVE  /\ node[s] = n /\ session[s] \in Devices
                    /\ \/ soketMap'[n][session[s]] = s /\ session[s] \in sweep[n]
                       \/ ~up[s]
                       \/ Overlapped(s)
  BY DEF OwedUnlessOverlapped, DeleteEntry
<1>1. /\ s \in Sockets /\ node[s] = n /\ session[s] \in Devices
      /\ \/ soketMap[n][session[s]] = s /\ session[s] \in sweep[n]
         \/ ~up[s]
         \/ Overlapped(s)
  BY DEF OwedUnlessOverlapped, SeqInv, BaseInv, TypeOK
<1>2. /\ p \in Sockets /\ arg[p] = session[p] /\ ~up[p]
      /\ soketMap' = [soketMap EXCEPT ![node[p]][arg[p]] = NoSocket]
  BY DEF DeleteEntry, SeqInv, OneCallback, OwnName, ClosedBefore
<1>3. CASE node[p] = n /\ session[p] = session[s]
  BY <1>1, <1>2, <1>3
<1>4. CASE ~(node[p] = n /\ session[p] = session[s])
  <2>1. soketMap'[n][session[s]] = soketMap[n][session[s]]
    BY <1>1, <1>2, <1>4 DEF SeqInv, BaseInv, TypeOK
  <2> QED BY <1>1, <2>1
<1> QED BY <1>3, <1>4

\* The stop signal finds every registered socket in its entry or overlapped, and
\* CloseAll has all of the table to visit.
LEMMA SeqOwedStopSignal ==
  ASSUME SeqInv, StoredIsEntry, OwedUnlessOverlapped, NEW m \in Nodes, StopSignal(m)
  PROVE  OwedUnlessOverlapped'
<1>1. /\ closing' = [closing EXCEPT ![m] = TRUE] /\ sweep' = [sweep EXCEPT ![m] = Devices]
      /\ owed' = [owed EXCEPT ![m] = RegisteredAt(m)]
      /\ UNCHANGED <<procVars, sockVars, tableVars>>
  BY DEF StopSignal
<1>2. ASSUME NEW n \in Nodes, closing'[n], NEW s \in owed'[n], n # m
      PROVE  closing[n] /\ s \in owed[n] /\ sweep'[n] = sweep[n]
  BY <1>1, <1>2 DEF SeqInv, BaseInv, TypeOK
<1>3. ASSUME NEW s \in RegisteredAt(m)
      PROVE  /\ s \in Sockets /\ node[s] = m /\ session[s] \in Devices
             /\ soketMap[m][session[s]] = s \/ Overlapped(s)
  <2>1. s \in Sockets /\ node[s] = m /\ Registered(s)
    BY <1>3 DEF RegisteredAt
  <2>2. Stored(s) /\ session[s] \in Devices
    BY <2>1 DEF Registered, Stored, SeqInv, BaseInv, TypeOK
  <2> QED BY <2>1, <2>2 DEF StoredIsEntry
<1>4. owed'[m] = RegisteredAt(m) /\ sweep'[m] = Devices
  BY <1>1 DEF SeqInv, BaseInv, TypeOK
<1> QED BY <1>1, <1>2, <1>3, <1>4 DEF OwedUnlessOverlapped

\* CloseAll closes the socket that it finds under a connId.
LEMMA SeqOwedCloseAllVisit ==
  ASSUME SeqInv, OwedUnlessOverlapped, NEW m \in Nodes, NEW d \in Devices, CloseAllVisit(m, d)
  PROVE  OwedUnlessOverlapped'
<1> SUFFICES ASSUME NEW n \in Nodes, closing[n], NEW s \in owed[n]
             PROVE  /\ node[s] = n /\ session[s] \in Devices
                    /\ \/ soketMap[n][session[s]] = s /\ session[s] \in sweep'[n]
                       \/ ~up'[s]
                       \/ Overlapped(s)
  BY DEF OwedUnlessOverlapped, CloseAllVisit
<1>1. /\ s \in Sockets /\ node[s] = n /\ session[s] \in Devices
      /\ \/ soketMap[n][session[s]] = s /\ session[s] \in sweep[n]
         \/ ~up[s]
         \/ Overlapped(s)
  BY DEF OwedUnlessOverlapped, SeqInv, BaseInv, TypeOK
<1>2. sweep' = [sweep EXCEPT ![m] = @ \ {d}]
  BY DEF CloseAllVisit
<1>3. up'[s] => up[s]
  BY <1>1 DEF CloseAllVisit, SeqInv, BaseInv, TypeOK
<1>4. CASE n = m /\ session[s] = d /\ soketMap[n][session[s]] = s
  BY <1>1, <1>4 DEF CloseAllVisit, SeqInv, BaseInv, TypeOK
<1>5. CASE ~(n = m /\ session[s] = d)
  <2>1. session[s] \in sweep[n] => session[s] \in sweep'[n]
    BY <1>1, <1>2, <1>5 DEF SeqInv, BaseInv, TypeOK
  <2> QED BY <1>1, <1>3, <2>1
<1> QED BY <1>1, <1>3, <1>4, <1>5

\* A node that ends owes nothing; the other nodes are as they were.
LEMMA SeqOwedExit ==
  ASSUME SeqInv, OwedUnlessOverlapped, NEW m \in Nodes, Exit(m)
  PROVE  OwedUnlessOverlapped'
<1>1. /\ closing' = [closing EXCEPT ![m] = FALSE] /\ owed' = [owed EXCEPT ![m] = {}]
      /\ sweep' = [sweep EXCEPT ![m] = {}]
      /\ soketMap' = [soketMap EXCEPT ![m] = [d \in Devices |-> NoSocket]]
      /\ UNCHANGED <<node, session>> /\ \A t \in Sockets : up'[t] => up[t]
  BY DEF Exit
<1> SUFFICES ASSUME NEW n \in Nodes, closing'[n], NEW s \in owed'[n]
             PROVE  /\ node[s] = n /\ session[s] \in Devices
                    /\ \/ soketMap'[n][session[s]] = s /\ session[s] \in sweep'[n]
                       \/ ~up'[s]
                       \/ Overlapped(s)
  BY <1>1 DEF OwedUnlessOverlapped
<1>2. n # m /\ closing[n] /\ s \in owed[n] /\ s \in Sockets
  BY <1>1 DEF SeqInv, BaseInv, TypeOK
<1>3. sweep'[n] = sweep[n] /\ soketMap'[n] = soketMap[n]
  BY <1>1, <1>2 DEF SeqInv, BaseInv, TypeOK
<1> QED BY <1>1, <1>2, <1>3 DEF OwedUnlessOverlapped

LEMMA SeqOwedNext ==
  ASSUME ~ParallelEnabled
  PROVE  SeqInv /\ ClosedBefore /\ StoredIsEntry /\ OwedUnlessOverlapped /\ [Next]_vars
           => OwedUnlessOverlapped'
<1> SUFFICES ASSUME SeqInv, ClosedBefore, StoredIsEntry, OwedUnlessOverlapped, [Next]_vars
             PROVE  OwedUnlessOverlapped'
  OBVIOUS
<1>1. ASSUME NEW s \in Sockets, NEW n \in Nodes, NEW d \in Devices \cup {NoId}, Upgrade(s, n, d)
      PROVE  OwedUnlessOverlapped'
  <2>1. /\ pc[s] = "unused" /\ session[s] = NoId /\ UNCHANGED <<soketMap, stopVars>>
        /\ node' = [node EXCEPT ![s] = n] /\ session' = [session EXCEPT ![s] = d]
        /\ up' = [up EXCEPT ![s] = TRUE]
    BY <1>1 DEF Upgrade, SeqInv, OwnName
  <2>2. \A t \in Sockets : /\ pc[t] # "unused" => node'[t] = node[t] /\ (up'[t] => up[t])
                           /\ session[t] # NoId => session'[t] = session[t]
    BY <2>1 DEF SeqInv, BaseInv, TypeOK
  <2> QED BY <2>1, <2>2, SeqOwedKept
<1>2. ASSUME NEW w \in Workers, LoginOk(w) PROVE OwedUnlessOverlapped'
  <2>1. /\ session[task[w]] = NoId /\ UNCHANGED <<node, up, soketMap, stopVars>>
        /\ session' = [session EXCEPT ![task[w]] = arg[w]]
    BY <1>2 DEF LoginOk, SeqInv, OneCallback
  <2>2. \A t \in Sockets : session[t] # NoId => session'[t] = session[t]
    BY <2>1 DEF SeqInv, BaseInv, TypeOK
  <2> QED BY <2>1, <2>2, SeqOwedKept
\* The other steps write neither the table, nor a session, nor what CloseAll owes.
<1>3. ASSUME UNCHANGED <<node, session, soketMap, stopVars>>,
             \A t \in Sockets : up'[t] => up[t]
      PROVE  OwedUnlessOverlapped'
  BY <1>3, SeqOwedKept
<1>4. ASSUME NEW p \in Procs,
             \/ p \in Sockets /\ (OnClose(p) \/ Disconnect(p))
             \/ AddCount(p) \/ Unroute(p) \/ DecrCount(p)
      PROVE  OwedUnlessOverlapped'
  <2>1. UNCHANGED <<node, session, soketMap, stopVars>> /\ \A t \in Sockets : up'[t] => up[t]
    BY <1>4 DEF OnClose, Disconnect, AddCount, Unroute, DecrCount, SeqInv, BaseInv, TypeOK
  <2> QED BY <1>3, <2>1
<1>5. ASSUME NEW w \in Workers,
             \/ \E s \in Sockets : Recv(w, s)
             \/ \E d \in Devices : PushLogin(w, d) \/ LoginSet(w, d)
             \/ PushOther(w) \/ LoginFails(w) \/ LoginNoBody(w)
             \/ ServerOnClose(w) \/ HangUp(w)
      PROVE  OwedUnlessOverlapped'
  <2>1. UNCHANGED <<node, session, soketMap, stopVars>> /\ \A t \in Sockets : up'[t] => up[t]
    BY <1>5 DEF Recv, PushLogin, LoginSet, PushOther, LoginFails, LoginNoBody, ServerOnClose,
                HangUp, SeqInv, BaseInv, TypeOK
  <2> QED BY <1>3, <2>1
<1>6. ASSUME NEW n \in Nodes, CronStep(n) PROVE OwedUnlessOverlapped'
  <2>1. UNCHANGED <<node, session, soketMap, stopVars>> /\ \A t \in Sockets : up'[t] => up[t]
    BY <1>6 DEF CronStep, CronFire, PipeExec, ExecFatal, ExecReturn, NoneFailed, RangeVisit,
                SetXX, SkipFailed, CloseFailed, SeqInv, BaseInv, TypeOK
  <2> QED BY <1>3, <2>1
<1>7. ASSUME (\E d \in Devices : Expire(d)) \/ UNCHANGED vars PROVE OwedUnlessOverlapped'
  <2>1. UNCHANGED <<node, session, up, soketMap, stopVars>>
    BY <1>7 DEF Expire, vars
  <2> QED BY <1>3, <2>1
<1>8. ASSUME NEW s \in Sockets, Disconnect(s) \/ SocketStep(s) PROVE OwedUnlessOverlapped'
  BY <1>4, <1>8, SeqOwedStore, SeqOwedDelete DEF SocketStep
<1>9. ASSUME NEW w \in Workers, WorkerStep(w) \/ \E s \in Sockets : Recv(w, s)
      PROVE  OwedUnlessOverlapped'
  BY <1>2, <1>4, <1>5, <1>9, SeqOwedStore, SeqOwedDelete DEF WorkerStep
<1>10. ASSUME NEW n \in Nodes, \/ CronStep(n) \/ StopSignal(n) \/ Exit(n)
                               \/ \E d \in Devices : CloseAllVisit(n, d)
       PROVE  OwedUnlessOverlapped'
  BY <1>6, <1>10, SeqOwedStopSignal, SeqOwedExit, SeqOwedCloseAllVisit
<1> QED BY <1>1, <1>7, <1>8, <1>9, <1>10 DEF Next

\* With ParallelEnabled off, CloseAll leaves open no socket registered at the stop
\* signal but one that shared its connId with another (gateway.go:65-69,
\* connection.go:29-38).
THEOREM SequentialCloseAll ==
  ASSUME ~ParallelEnabled
  PROVE  Spec => []OnlyOverlappedMissed
<1>1. SeqInv /\ OwedUnlessOverlapped => OnlyOverlappedMissed
  <2> SUFFICES ASSUME SeqInv, OwedUnlessOverlapped, NEW n \in Nodes, Stopped(n), NEW s \in owed[n]
               PROVE  BeingClosed(s) \/ Overlapped(s)
    BY DEF OnlyOverlappedMissed
  <2>1. closing[n] /\ sweep[n] = {}
    BY DEF Stopped
  <2> QED BY <2>1 DEF OwedUnlessOverlapped, BeingClosed
<1> QED
  BY <1>1, SeqInit, SeqNext, StoredInit, StoredNext, SeqClosedInit, SeqClosedNext, SeqOwedNext,
     PTL DEF Spec

-----------------------------------------------------------------------------
(* The refinement of WsLedger.                                             *)

LEMMA LedgerInit == Init => Ledger!Init
  BY DEF Init, Ledger!Init, Reg, Registered

\* What the ledger sees of a step that counts no socket in or out.
LEMMA RegKept ==
  ASSUME \A t \in Sockets : /\ Registered(t)' <=> Registered(t)
                            /\ pc'[t] \in {"delete", "gone"} <=> pc[t] \in {"delete", "gone"}
  PROVE  Reg' = Reg
  BY DEF Reg

\* What it sees when one socket is counted in or out.
LEMMA RegSet ==
  ASSUME NEW s \in Sockets, NEW v, Reg'[s] = v,
         \A t \in Sockets \ {s} : /\ Registered(t)' <=> Registered(t)
                                  /\ pc'[t] \in {"delete", "gone"} <=> pc[t] \in {"delete", "gone"}
  PROVE  Reg' = [Reg EXCEPT ![s] = v]
<1>1. \A t \in Sockets \ {s} : Reg'[t] = Reg[t]
  BY DEF Reg
<1>2. Reg = [t \in Sockets |-> Reg[t]] /\ Reg' = [t \in Sockets |-> Reg'[t]]
  BY DEF Reg
<1> HIDE DEF Reg
<1> QED BY <1>1, <1>2

\* Every step of a sequential gateway is a step of the ledger, or none.
LEMMA LedgerNext ==
  ASSUME ~ParallelEnabled, SeqInv, SeqInv', [Next]_vars
  PROVE  [Ledger!Next]_(Ledger!lvars)
<1> DEFINE Stutters == node' = node /\ count' = count /\ Reg' = Reg
<1> USE DEF SeqInv, BaseInv, TypeOK, Placed, Named
<1>1. ASSUME NEW s \in Sockets, NEW n \in Nodes, NEW d \in Devices \cup {NoId}, Upgrade(s, n, d)
      PROVE  Ledger!Arrive(s, n)
  <2>1. /\ pc[s] = "unused" /\ node[s] = NoNode /\ count' = count
        /\ node' = [node EXCEPT ![s] = n]
        /\ pc' = [pc EXCEPT ![s] = IF d = NoId THEN "reading" ELSE "store"]
    BY <1>1 DEF Upgrade
  <2>2. \A t \in Sockets : Registered(t)' <=> Registered(t)
    BY <1>1, SeqStages DEF Upgrade
  <2>3. Reg' = Reg
    BY <2>1, <2>2, RegKept
  <2> QED BY <2>1, <2>3 DEF Ledger!Arrive
\* The count makes the socket registered.
<1>2. ASSUME NEW p \in Procs, AddCount(p), NEW s \in Sockets, s = Sock(p)
      PROVE  Ledger!Join(s)
  <2>1. /\ node' = node /\ session' = session /\ node[s] \in Nodes /\ session[s] # NoId
        /\ count' = [count EXCEPT ![node[s]] = @ + 1]
    BY <1>2 DEF AddCount
  <2>2. pc'[s] = "reading" /\ pc[s] \notin {"delete", "gone"}
    BY <1>2 DEF AddCount, OneCallback
  <2>3. \A t \in Sockets \ {s} : (Registered(t)' <=> Registered(t)) /\ pc'[t] = pc[t]
    <3>1. \A t \in Sockets \ {s} : Registered(t)' <=> Registered(t)
      BY <1>2, SeqCounts
    <3>2. \A t \in Sockets \ {s} : pc'[t] = pc[t]
      BY <1>2 DEF AddCount
    <3> QED BY <3>1, <3>2
  <2>4. ~Registered(s)
    BY <1>2 DEF AddCount, Registered, WorkersOn
  <2>5. \A w \in Workers : task'[w] = s => pc'[w] \notin {"store", "count"}
    <3>1. CASE p \in Sockets
      BY <1>2, <3>1 DEF AddCount, OneCallback
    <3>2. CASE p \in Workers
      BY <1>2, <3>2 DEF AddCount, OneCallback
    <3> QED BY <3>1, <3>2
  <2>6. Registered(s)'
    BY <2>1, <2>2, <2>5 DEF Registered, WorkersOn
  <2>7. Reg[s] = "new" /\ Reg'[s] = "in"
    BY <2>2, <2>4, <2>6 DEF Reg
  <2>8. Reg' = [Reg EXCEPT ![s] = "in"]
    <3> HIDE DEF SeqInv, BaseInv, TypeOK, Placed, Named
    <3> QED BY <2>3, <2>7, RegSet
  <2> QED BY <2>1, <2>7, <2>8 DEF Ledger!Join
\* Del's decrement takes it out.
<1>3. ASSUME NEW p \in Procs, DecrCount(p)
      PROVE  p \in Sockets /\ Ledger!Leave(p)
  <2>1. /\ p \in Sockets /\ node' = node /\ node[p] \in Nodes /\ pc[p] = "decr"
        /\ count' = [count EXCEPT ![node[p]] = @ - 1]
        /\ pc' = [pc EXCEPT ![p] = "delete"]
    BY <1>3 DEF DecrCount, OneCallback
  <2>2. \A t \in Sockets \ {p} : Registered(t)' <=> Registered(t)
    BY <1>3, <2>1, SeqCounts
  <2>3. \A w \in WorkersOn(p) : pc[w] = "idle"
    BY <2>1 DEF WorkersOn, OneCallback
  <2>4. Registered(p)
    BY <2>1, <2>3 DEF Registered, OwnName
  <2>5. ~Registered(p)' /\ pc'[p] = "delete"
    BY <2>1 DEF Registered
  <2>6. Reg[p] = "in" /\ Reg'[p] = "out"
    BY <2>1, <2>4, <2>5 DEF Reg
  <2>7. \A t \in Sockets \ {p} : pc'[t] = pc[t]
    BY <2>1
  <2>8. Reg' = [Reg EXCEPT ![p] = "out"]
    BY <2>1, <2>2, <2>6, <2>7, RegSet
  <2> QED BY <2>1, <2>6, <2>8 DEF Ledger!Leave
\* OnClose of a socket that never logged in.
<1>4. ASSUME NEW s \in Sockets, OnClose(s)
      PROVE  Ledger!Leave(s) \/ Stutters
  <2>1. /\ pc[s] = "reading" /\ node' = node /\ node[s] \in Nodes /\ count' = count
        /\ pc' = [pc EXCEPT ![s] = IF session[s] = NoId THEN "gone" ELSE "unroute"]
    BY <1>4 DEF OnClose
  <2>2. \A t \in Sockets : Registered(t)' <=> Registered(t)
    BY <1>4, SeqStages
  <2>3. CASE session[s] = NoId
    <3>1. ~Registered(s)
      BY <2>3 DEF Registered
    <3>2. Reg[s] = "new" /\ Reg'[s] = "out"
      BY <2>1, <2>2, <2>3, <3>1 DEF Reg
    <3>3. \A t \in Sockets \ {s} : pc'[t] = pc[t]
      BY <2>1
    <3>4. Reg' = [Reg EXCEPT ![s] = "out"]
      <4> HIDE DEF SeqInv, BaseInv, TypeOK, Placed, Named, Reg, Registered
      <4>1. \A t \in Sockets \ {s} : pc'[t] \in {"delete", "gone"} <=> pc[t] \in {"delete", "gone"}
        BY <3>3
      <4> QED BY <2>2, <3>2, <4>1, RegSet
    <3>5. count' = [count EXCEPT ![node[s]] = @]
      <4>1. count \in [Nodes -> Int] /\ count' = count
        BY <2>1
      <4> HIDE DEF SeqInv
      <4> QED BY <4>1, <2>1
    <3> QED BY <2>1, <3>2, <3>4, <3>5 DEF Ledger!Leave
  <2>4. CASE session[s] # NoId
    BY <2>1, <2>2, <2>4, RegKept
  <2> QED BY <2>3, <2>4
\* The node loses its sockets and its counter.
<1>5. ASSUME NEW n \in Nodes, Exit(n)
      PROVE  Ledger!Restart(n)
  <2>1. node' = node /\ count' = [count EXCEPT ![n] = 0] /\ session' = session
    BY <1>5 DEF Exit
  <2>2. \A s \in Sockets : pc'[s] = IF node[s] = n THEN "gone" ELSE pc[s]
    BY <1>5 DEF Exit
  <2>3. \A s \in Sockets : node[s] # n => (Registered(s)' <=> Registered(s))
    BY <1>5, <2>2 DEF Exit, Registered, WorkersOn, OneCallback
  <2>4. \A s \in Sockets : node[s] = n => ~Registered(s)'
    BY <2>2 DEF Registered
  <2>5. Reg' = [s \in Sockets |-> IF node[s] = n THEN "out" ELSE Reg[s]]
    BY <2>2, <2>3, <2>4 DEF Reg
  <2> QED BY <2>1, <2>5 DEF Ledger!Restart
<1>6. ASSUME NEW p \in Procs,
             \/ Unroute(p) \/ DeleteEntry(p) \/ StoreEntry(p)
             \/ p \in Workers /\ \/ \E s \in Sockets : Recv(p, s)
                                 \/ \E d \in Devices : PushLogin(p, d) \/ LoginSet(p, d)
                                 \/ PushOther(p) \/ LoginFails(p) \/ LoginNoBody(p)
                                 \/ LoginOk(p) \/ ServerOnClose(p) \/ HangUp(p)
      PROVE  Stutters
  <2>1. \A t \in Sockets : Registered(t)' <=> Registered(t)
    <3> HIDE DEF SeqInv, BaseInv, TypeOK, Placed, Named
    <3> QED BY <1>6, SeqStages
  <2>2. node' = node /\ count' = count
    BY <1>6 DEF Unroute, DeleteEntry, StoreEntry, Recv, PushLogin, LoginSet, PushOther,
                LoginFails, LoginNoBody, LoginOk, ServerOnClose, HangUp
  <2>3. \A t \in Sockets : pc'[t] \in {"delete", "gone"} <=> pc[t] \in {"delete", "gone"}
    <3>1. CASE Unroute(p)
      BY <3>1 DEF Unroute
    <3>2. CASE DeleteEntry(p)
      BY <3>2 DEF DeleteEntry, OneCallback
    <3>3. CASE StoreEntry(p)
      BY <3>3 DEF StoreEntry
    <3>4. CASE p \in Workers /\ \A t \in Sockets : pc'[t] = pc[t]
      BY <3>4
    <3>5. CASE p \in Workers /\ \/ \E s \in Sockets : Recv(p, s)
                                \/ \E d \in Devices : PushLogin(p, d) \/ LoginSet(p, d)
                                \/ PushOther(p) \/ LoginFails(p) \/ LoginNoBody(p)
                                \/ LoginOk(p) \/ ServerOnClose(p) \/ HangUp(p)
      BY <3>5 DEF Recv, PushLogin, LoginSet, PushOther, LoginFails, LoginNoBody, LoginOk,
                  ServerOnClose, HangUp
    <3> QED BY <1>6, <3>1, <3>2, <3>3, <3>5
  <2> QED BY <2>1, <2>2, <2>3, RegKept
<1>7. ASSUME UNCHANGED <<procVars, node, session, tableVars>> PROVE Stutters
  BY <1>7, RegKept DEF Registered, WorkersOn
<1>8. ASSUME \/ \E n \in Nodes : \/ CronStep(n) \/ StopSignal(n)
                                 \/ \E d \in Devices : CloseAllVisit(n, d)
             \/ \E d \in Devices : Expire(d)
             \/ \E s \in Sockets : Disconnect(s)
             \/ UNCHANGED vars
      PROVE  UNCHANGED <<procVars, node, session, tableVars>>
  BY <1>8 DEF CronStep, CronFire, PipeExec, ExecFatal, ExecReturn, NoneFailed, RangeVisit,
              SetXX, SkipFailed, CloseFailed, StopSignal, CloseAllVisit, Expire, Disconnect, vars
<1> HIDE DEF SeqInv, BaseInv, TypeOK, Placed, Named
<1>9. Stutters => UNCHANGED Ledger!lvars
  BY DEF Ledger!lvars
<1>10. ASSUME NEW p \in Procs, AddCount(p) PROVE Ledger!Next
  <2>1. Sock(p) \in Sockets
    BY <1>10 DEF AddCount, SeqInv, BaseInv, Placed, TypeOK
  <2> QED BY <1>2, <1>10, <2>1 DEF Ledger!Next
<1>11. ASSUME NEW s \in Sockets, SocketStep(s) PROVE [Ledger!Next]_(Ledger!lvars)
  BY <1>3, <1>4, <1>6, <1>9, <1>10, <1>11 DEF SocketStep, Ledger!Next
<1>12. ASSUME NEW w \in Workers, WorkerStep(w) \/ \E s \in Sockets : Recv(w, s)
       PROVE  [Ledger!Next]_(Ledger!lvars)
  BY <1>3, <1>6, <1>9, <1>10, <1>12 DEF WorkerStep, Ledger!Next
<1> QED
  BY <1>1, <1>5, <1>7, <1>8, <1>9, <1>11, <1>12 DEF Next, Ledger!Next

\* With ParallelEnabled off, the gateway's counter implements the ledger: a socket
\* is counted in once, counted out once, and never comes back (connection.go,
\* gateway.go).
THEOREM SequentialLedger ==
  ASSUME ~ParallelEnabled
  PROVE  Spec => LedgerSpec
<1> QED BY SeqInit, SeqNext, LedgerInit, LedgerNext, PTL DEF Spec, LedgerSpec, Ledger!Spec

-----------------------------------------------------------------------------
(* One socket per device and one device per socket: what shutdown closes   *)
(* and what /notice finds, callbacks in parallel or not.                   *)

\* A close under way is not undone.
ClosesOn ==
  \A t \in Sockets : pc[t] # "unused" /\ BeingClosed(t) => BeingClosed(t)'

\* A socket keeps its node, and its session the connId it has got.
NamesOn ==
  \A t \in Sockets : /\ pc[t] # "unused" => node'[t] = node[t]
                     /\ session[t] # NoId => session'[t] = session[t]

\* A socket's entry goes only while the socket is being closed.
EntriesOn ==
  \A t \in Sockets :
    pc[t] # "unused" /\ session[t] # NoId /\ soketMap[node[t]][session[t]] = t =>
      soketMap'[node[t]][session[t]] = t \/ BeingClosed(t)'

\* Who has stored its entry from now on has it now.
StoresOn ==
  \A t \in Sockets : Stored(t)' => Stored(t) \/ soketMap'[node'[t]][session'[t]] = t

\* A shutdown that goes on has the same sockets to close and entries to visit.
StopsOn ==
  \A n \in Nodes : closing'[n] => closing[n] /\ owed'[n] = owed[n] /\ sweep'[n] = sweep[n]

LEMMA ExclusiveKept ==
  ASSUME ExclusiveInv, BaseInv', OwnName', Apart', ClosedBefore',
         ClosesOn, NamesOn, EntriesOn, StoresOn, StopsOn
  PROVE  ExclusiveInv'
<1> USE DEF ExclusiveInv, BaseInv, TypeOK, Placed
<1>1. StoredIsFound'
  <2> SUFFICES ASSUME NEW s \in Sockets, Stored(s)'
               PROVE  soketMap'[node'[s]][session'[s]] = s \/ BeingClosed(s)'
    BY DEF StoredIsFound
  <2>1. CASE Stored(s)
    <3>1. pc[s] # "unused" /\ session[s] # NoId /\ node'[s] = node[s] /\ session'[s] = session[s]
      BY <2>1 DEF Stored, NamesOn
    <3>2. soketMap[node[s]][session[s]] = s \/ BeingClosed(s)
      BY <2>1 DEF StoredIsFound
    <3> QED BY <3>1, <3>2 DEF EntriesOn, ClosesOn
  <2> QED BY <2>1 DEF StoresOn
<1>2. OwedIsFound'
  <2> SUFFICES ASSUME NEW n \in Nodes, closing'[n], NEW s \in owed'[n]
               PROVE  /\ node'[s] = n /\ session'[s] \in Devices
                      /\ \/ soketMap'[n][session'[s]] = s /\ session'[s] \in sweep'[n]
                         \/ BeingClosed(s)'
    BY DEF OwedIsFound
  <2>1. /\ s \in Sockets /\ node[s] = n /\ session[s] \in Devices
        /\ (soketMap[n][session[s]] = s /\ session[s] \in sweep[n]) \/ BeingClosed(s)
    BY DEF StopsOn, OwedIsFound
  <2>2. pc[s] # "unused" /\ node'[s] = node[s] /\ session'[s] = session[s]
    BY <2>1 DEF NamesOn
  <2> QED BY <2>1, <2>2 DEF EntriesOn, ClosesOn, StopsOn
<1> QED BY <1>1, <1>2

LEMMA ApartKept ==
  ASSUME Apart, \A w \in Workers : pc'[w] = "idle" => task'[w] = NoSocket,
         \A t \in Sockets : Active(t)' => Active(t),
         \A t \in Sockets, d \in Devices : Claims(t, d)' => Claims(t, d)
  PROVE  Apart'
  BY DEF Apart

\* A process inside Storage or Del is alone with its connId.
LEMMA AloneWithId ==
  ASSUME ExclusiveInv, NEW p \in Procs,
         pc[p] \in {"granted", "store", "count", "unroute", "decr", "delete"}
  PROVE  /\ Sock(p) \in Sockets /\ node[Sock(p)] \in Nodes /\ arg[p] \in Devices
         /\ pc[Sock(p)] # "unused"
         /\ session[Sock(p)] \in {NoId, arg[p]}
         /\ \A t \in Sockets : Active(t) /\ Claims(t, arg[p]) => t = Sock(p)
<1> USE DEF ExclusiveInv, BaseInv, TypeOK, Placed, Named
<1>1. Sock(p) \in Sockets /\ node[Sock(p)] \in Nodes /\ arg[p] \in Devices /\ pc[Sock(p)] # "unused"
  OBVIOUS
<1>2. CASE p \in Sockets
  <2>1. session[p] = arg[p] /\ Claims(p, arg[p]) /\ Active(p)
    BY <1>1, <1>2 DEF OwnName, Claims, Active
  <2> QED BY <1>1, <1>2, <2>1 DEF Apart
<1>3. CASE p \notin Sockets
  <2>1. p \in WorkersOn(task[p]) /\ task[p] = Sock(p)
    BY <1>3 DEF WorkersOn
  <2>2. Claims(Sock(p), arg[p]) /\ Active(Sock(p))
    BY <1>1, <2>1 DEF Claims, Active
  <2>3. session[Sock(p)] # NoId => Claims(Sock(p), session[Sock(p)]) /\ session[Sock(p)] \in Devices
    BY <1>1 DEF Claims
  <2> HIDE DEF Sock
  <2> QED BY <1>1, <2>2, <2>3 DEF Apart
<1> QED BY <1>2, <1>3

\* The steps of the callbacks that write neither a session nor the table, and
\* claim no connId that their socket does not have.
LEMMA ExclusiveQuiet ==
  ASSUME ExclusiveInv, BaseInv', NEW p \in Procs,
         \/ p \in Sockets /\ OnClose(p)
         \/ Unroute(p) \/ DecrCount(p) \/ AddCount(p)
         \/ p \in Workers /\ \/ \E s \in Sockets : Recv(p, s)
                             \/ \E d \in Devices : PushLogin(p, d)
                             \/ PushOther(p) \/ LoginFails(p) \/ LoginNoBody(p)
                             \/ ServerOnClose(p) \/ HangUp(p)
  PROVE  ExclusiveInv'
<1> USE DEF ExclusiveInv, BaseInv, TypeOK, Placed, Named
<1>1. /\ UNCHANGED <<node, session, soketMap, closing, owed, sweep>>
      /\ \A t \in Sockets : up'[t] => up[t]
      /\ \A q \in Procs \ {p} : pc'[q] = pc[q]
      /\ p \in Workers \/ UNCHANGED <<task, up>>
      /\ \A w \in Workers \ {p} : task'[w] = task[w]
  BY DEF OnClose, Unroute, DecrCount, AddCount, Recv, PushLogin, PushOther, LoginFails,
         LoginNoBody, ServerOnClose, HangUp
<1>2. NamesOn /\ EntriesOn /\ StopsOn
  BY <1>1 DEF NamesOn, EntriesOn, StopsOn
<1>3. /\ pc[p] # "store" /\ \A q \in Procs \ {p} : arg'[q] = arg[q]
      /\ p \in Sockets =>
           /\ pc[p] # "unused" /\ pc'[p] # "unused"
           /\ pc'[p] \in {"unroute", "decr", "delete", "gone"} => ~up[p]
           /\ pc'[p] \in {"store", "count", "unroute", "decr", "delete"} => arg'[p] = session[p]
           /\ pc'[p] \in {"reading", "count", "unroute", "decr"} =>
                pc[p] \in {"reading", "count", "unroute", "decr"}
  <2>1. CASE p \in Sockets
    BY <2>1 DEF OwnName, ClosedBefore, OnClose, Unroute, DecrCount, AddCount
  <2>2. CASE p \in Workers
    <3>1. p \notin Sockets
      BY <2>2
    <3> QED
      BY <2>2, <3>1 DEF Unroute, DecrCount, AddCount, Recv, PushLogin, PushOther, LoginFails,
                        LoginNoBody, ServerOnClose, HangUp
  <2> QED BY <2>1, <2>2
<1>4. p \in Workers =>
        /\ pc'[p] # "store"
        /\ pc[p] \in {"unroute", "decr", "delete", "hangup"} =>
             \/ pc'[p] \in {"unroute", "decr", "delete", "hangup"} /\ task'[p] = task[p]
             \/ ~up'[task[p]]
  <2>1. CASE p \in Workers /\ HangUp(p)
    BY <2>1 DEF HangUp
  <2>2. CASE p \in Workers /\ ~HangUp(p)
    <3>1. p \notin Sockets
      BY <2>2
    <3> QED
      BY <2>2, <3>1 DEF Unroute, DecrCount, AddCount, Recv, PushLogin, PushOther, LoginFails,
                        LoginNoBody, ServerOnClose
  <2> QED BY <2>1, <2>2
<1>6. OwnName' /\ ClosedBefore'
  <2> SUFFICES ASSUME NEW s \in Sockets
               PROVE  /\ pc'[s] = "unused" => session'[s] = NoId
                      /\ pc'[s] \in {"store", "count", "unroute", "decr", "delete"} => arg'[s] = session'[s]
                      /\ pc'[s] \in {"unroute", "decr", "delete", "gone"} => ~up'[s]
    BY DEF OwnName, ClosedBefore
  <2>1. CASE s = p
    BY <1>1, <1>3, <2>1
  <2>2. CASE s # p
    BY <1>1, <1>3, <2>2 DEF OwnName, ClosedBefore
  <2> QED BY <2>1, <2>2
<1>7. ClosesOn
  <2> SUFFICES ASSUME NEW t \in Sockets, BeingClosed(t) PROVE BeingClosed(t)'
    BY DEF ClosesOn
  <2>1. CASE ~up[t]
    BY <1>1, <2>1 DEF BeingClosed
  <2>2. ASSUME NEW w \in Workers, task[w] = t, pc[w] \in {"unroute", "decr", "delete", "hangup"}
        PROVE  BeingClosed(t)'
    <3>1. CASE w = p
      BY <1>4, <2>2, <3>1 DEF BeingClosed, WorkersOn
    <3>2. CASE w # p
      BY <1>1, <2>2, <3>2 DEF BeingClosed, WorkersOn
    <3> QED BY <3>1, <3>2
  <2> QED BY <2>1, <2>2 DEF BeingClosed, WorkersOn
<1>8. StoresOn
  <2> SUFFICES ASSUME NEW t \in Sockets, Stored(t)' PROVE Stored(t)
    BY DEF StoresOn
  <2>1. \A w \in Workers : task[w] = t /\ pc[w] = "store" => task'[w] = t /\ pc'[w] = "store"
    BY <1>1, <1>3
  <2> QED BY <1>1, <1>3, <2>1 DEF Stored, WorkersOn
<1>5. Apart'
  <2>1. \A w \in Workers : pc'[w] = "idle" => task'[w] = NoSocket
    BY <1>1 DEF Apart, Unroute, DecrCount, AddCount, Recv, PushLogin,
           PushOther, LoginFails, LoginNoBody, ServerOnClose, HangUp
  <2>2. \A t \in Sockets : Active(t)' => Active(t)
    BY <1>1 DEF Active, WorkersOn, OnClose, Unroute, DecrCount, AddCount, Recv, PushLogin,
           PushOther, LoginFails, LoginNoBody, ServerOnClose, HangUp
  <2>3. \A t \in Sockets, d \in Devices : Claims(t, d)' => Claims(t, d)
    BY <1>1 DEF Claims, WorkersOn, OnClose, Unroute, DecrCount, AddCount, Recv, PushLogin,
           PushOther, LoginFails, LoginNoBody, ServerOnClose, HangUp
  <2> QED BY <2>1, <2>2, <2>3, ApartKept
<1> QED BY <1>2, <1>5, <1>6, <1>7, <1>8, ExclusiveKept

\* The callbacks of a socket write no other socket's entry.
LEMMA ExclusiveStoreEntry ==
  ASSUME ExclusiveInv, BaseInv', NEW p \in Procs, StoreEntry(p)
  PROVE  ExclusiveInv'
<1> PICK s : s = Sock(p)
  OBVIOUS
<1>1. /\ s \in Sockets /\ node[s] \in Nodes /\ arg[p] \in Devices /\ session[s] = arg[p]
      /\ \A t \in Sockets : Active(t) /\ Claims(t, arg[p]) => t = s
  <2>1. session[s] # NoId
    BY DEF StoreEntry, ExclusiveInv, BaseInv, Named
  <2> QED BY <2>1, AloneWithId DEF StoreEntry
<1> USE DEF ExclusiveInv, BaseInv, TypeOK, Placed
<1>2. /\ UNCHANGED <<arg, task, node, session, up, closing, owed, sweep>>
      /\ pc' = [pc EXCEPT ![p] = "count"] /\ pc[p] = "store"
      /\ soketMap' = [soketMap EXCEPT ![node[s]][arg[p]] = s]
  BY DEF StoreEntry
<1>3. OwnName' /\ ClosedBefore' /\ ClosesOn /\ NamesOn /\ StopsOn
  BY <1>2 DEF OwnName, ClosedBefore, ClosesOn, NamesOn, StopsOn, BeingClosed, WorkersOn
<1>4. Apart'
  <2>1. \A w \in Workers : pc'[w] = "idle" => task'[w] = NoSocket
    BY <1>2 DEF Apart
  <2>2. \A t \in Sockets : Active(t)' => Active(t)
    BY <1>2 DEF Active, WorkersOn
  <2>3. \A t \in Sockets, d \in Devices : Claims(t, d)' => Claims(t, d)
    BY <1>2 DEF Claims, WorkersOn
  <2> QED BY <2>1, <2>2, <2>3, ApartKept
<1>5. EntriesOn
  <2> SUFFICES ASSUME NEW t \in Sockets, pc[t] # "unused", session[t] # NoId,
                      soketMap[node[t]][session[t]] = t, t # s
               PROVE  soketMap'[node[t]][session[t]] = t \/ BeingClosed(t)'
    BY <1>1, <1>2 DEF EntriesOn
  <2>1. CASE Active(t)
    <3>1. session[t] # arg[p]
      BY <1>1, <2>1 DEF Claims
    <3> QED BY <1>1, <1>2, <3>1
  <2>2. CASE ~Active(t)
    <3>1. ~up'[t]
      BY <1>2, <2>2 DEF Active, ClosedBefore
    <3> QED BY <3>1 DEF BeingClosed
  <2> QED BY <2>1, <2>2
<1>6. StoresOn
  <2> SUFFICES ASSUME NEW t \in Sockets, Stored(t)', t # s PROVE Stored(t)
    BY <1>1, <1>2 DEF StoresOn
  <2>1. pc'[t] = pc[t]
    BY <1>2
  <2>2. \A w \in Workers : task[w] = t /\ pc[w] = "store" => pc'[w] = "store"
    BY <1>2
  <2> QED BY <1>2, <2>1, <2>2 DEF Stored, WorkersOn
<1> QED BY <1>3, <1>4, <1>5, <1>6, ExclusiveKept

\* Who deletes an entry is the socket itself, which is closed, or a callback of
\* it that then hangs up.
LEMMA ExclusiveDeleteEntry ==
  ASSUME ExclusiveInv, BaseInv', NEW p \in Procs, DeleteEntry(p)
  PROVE  ExclusiveInv'
<1> PICK s : s = Sock(p)
  OBVIOUS
<1>1. /\ s \in Sockets /\ node[s] \in Nodes /\ arg[p] \in Devices
      /\ \A t \in Sockets : Active(t) /\ Claims(t, arg[p]) => t = s
  BY AloneWithId DEF DeleteEntry
<1> USE DEF ExclusiveInv, BaseInv, TypeOK, Placed
<1>2. /\ UNCHANGED <<arg, task, node, session, up, closing, owed, sweep>>
      /\ pc' = [pc EXCEPT ![p] = IF p \in Sockets THEN "gone" ELSE "hangup"] /\ pc[p] = "delete"
      /\ soketMap' = [soketMap EXCEPT ![node[s]][arg[p]] = NoSocket]
  BY DEF DeleteEntry
<1>3. OwnName' /\ ClosedBefore' /\ ClosesOn /\ NamesOn /\ StopsOn
  BY <1>2 DEF OwnName, ClosedBefore, ClosesOn, NamesOn, StopsOn, BeingClosed, WorkersOn
<1>4. Apart'
  <2>1. \A w \in Workers : pc'[w] = "idle" => task'[w] = NoSocket
    BY <1>2 DEF Apart
  <2>2. \A t \in Sockets : Active(t)' => Active(t)
    BY <1>2 DEF Active, WorkersOn
  <2>3. \A t \in Sockets, d \in Devices : Claims(t, d)' => Claims(t, d)
    BY <1>2 DEF Claims, WorkersOn
  <2> QED BY <2>1, <2>2, <2>3, ApartKept
<1>5. EntriesOn
  <2> SUFFICES ASSUME NEW t \in Sockets, pc[t] # "unused", session[t] # NoId,
                      soketMap[node[t]][session[t]] = t
               PROVE  soketMap'[node[t]][session[t]] = t \/ BeingClosed(t)'
    BY <1>1, <1>2 DEF EntriesOn
  <2>1. CASE t = s
    <3>1. CASE p \in Sockets
      BY <1>2, <2>1, <3>1 DEF ClosedBefore, BeingClosed
    <3>2. CASE p \in Workers /\ p \notin Sockets
      BY <1>2, <2>1, <3>2 DEF BeingClosed, WorkersOn
    <3> QED BY <3>1, <3>2
  <2>2. CASE t # s /\ Active(t)
    <3>1. session[t] # arg[p]
      BY <1>1, <2>2 DEF Claims
    <3> QED BY <1>1, <1>2, <3>1
  <2>3. CASE ~Active(t)
    <3>1. ~up'[t]
      BY <1>2, <2>3 DEF Active, ClosedBefore
    <3> QED BY <3>1 DEF BeingClosed
  <2> QED BY <2>1, <2>2, <2>3
<1>6. StoresOn
  <2> SUFFICES ASSUME NEW t \in Sockets, Stored(t)' PROVE Stored(t)
    BY DEF StoresOn
  <2>1. pc[t] \in {"reading", "count", "unroute", "decr"}
    BY <1>2 DEF Stored
  <2>2. \A w \in Workers : task[w] = t /\ pc[w] = "store" => pc'[w] = "store"
    BY <1>2
  <2> QED BY <1>2, <2>1, <2>2 DEF Stored, WorkersOn
<1> QED BY <1>3, <1>4, <1>5, <1>6, ExclusiveKept

\* A session that has a connId gets the same one again.
LEMMA ExclusiveLoginOk ==
  ASSUME ExclusiveInv, BaseInv', NEW w \in Workers, LoginOk(w)
  PROVE  ExclusiveInv'
<1>1. /\ task[w] \in Sockets /\ arg[w] \in Devices /\ session[task[w]] \in {NoId, arg[w]}
      /\ w \notin Sockets /\ pc[task[w]] # "unused"
  BY AloneWithId DEF LoginOk
<1> USE DEF ExclusiveInv, BaseInv, TypeOK, Placed, Named
<1>2. /\ UNCHANGED <<arg, task, node, up, soketMap, closing, owed, sweep>>
      /\ pc' = [pc EXCEPT ![w] = "store"] /\ pc[w] = "granted"
      /\ session' = [session EXCEPT ![task[w]] = arg[w]]
  BY DEF LoginOk
<1>3. ClosedBefore' /\ ClosesOn /\ NamesOn /\ EntriesOn /\ StopsOn
  BY <1>1, <1>2 DEF ClosedBefore, ClosesOn, NamesOn, EntriesOn, StopsOn, BeingClosed, WorkersOn
<1>4. OwnName'
  BY <1>1, <1>2 DEF OwnName
<1>5. Apart'
  <2>1. \A v \in Workers : pc'[v] = "idle" => task'[v] = NoSocket
    BY <1>2 DEF Apart
  <2>2. \A t \in Sockets : Active(t)' => Active(t)
    BY <1>1, <1>2 DEF Active, WorkersOn
  <2>3. \A t \in Sockets, d \in Devices : Claims(t, d)' => Claims(t, d)
    BY <1>1, <1>2 DEF Claims, WorkersOn
  <2> QED BY <2>1, <2>2, <2>3, ApartKept
<1>6. StoresOn
  <2> SUFFICES ASSUME NEW t \in Sockets, Stored(t)' PROVE Stored(t)
    BY DEF StoresOn
  <2>1. t # task[w]
    BY <1>2 DEF Stored, WorkersOn
  <2>2. \A v \in Workers : task[v] = t /\ pc[v] = "store" => pc'[v] = "store"
    BY <1>2
  <2> QED BY <1>1, <1>2, <2>1, <2>2 DEF Stored, WorkersOn
<1> QED BY <1>3, <1>4, <1>5, <1>6, ExclusiveKept

\* A connId in the URL of the upgrade, which no other socket has.
LEMMA ExclusiveUpgrade ==
  ASSUME Exclusive, ExclusiveInv, BaseInv', NEW s \in Sockets, NEW n \in Nodes,
         NEW d \in Devices \cup {NoId}, Upgrade(s, n, d)
  PROVE  ExclusiveInv'
<1> USE DEF ExclusiveInv, BaseInv, TypeOK, Placed, Named
<1>1. /\ UNCHANGED <<task, soketMap, closing, owed, sweep>> /\ pc[s] = "unused"
      /\ pc' = [pc EXCEPT ![s] = IF d = NoId THEN "reading" ELSE "store"]
      /\ node' = [node EXCEPT ![s] = n] /\ session' = [session EXCEPT ![s] = d]
      /\ up' = [up EXCEPT ![s] = TRUE] /\ arg' = [arg EXCEPT ![s] = d]
      /\ session[s] = NoId
  BY DEF Upgrade, OwnName
<1>2. \A w \in Workers : task[w] # s /\ pc'[w] = pc[w] /\ arg'[w] = arg[w]
  BY <1>1 DEF Apart
<1>3. OwnName' /\ ClosedBefore' /\ ClosesOn /\ NamesOn /\ EntriesOn /\ StopsOn
  BY <1>1, <1>2 DEF OwnName, ClosedBefore, ClosesOn, NamesOn, EntriesOn, StopsOn, BeingClosed, WorkersOn
<1>4. StoresOn
  <2> SUFFICES ASSUME NEW t \in Sockets, Stored(t)' PROVE Stored(t)
    BY DEF StoresOn
  <2>1. t # s
    BY <1>1 DEF Stored
  <2> QED BY <1>1, <1>2, <2>1 DEF Stored, WorkersOn
<1>5. Apart'
  <2>1. \A v \in Workers : pc'[v] = "idle" => task'[v] = NoSocket
    BY <1>1, <1>2 DEF Apart
  <2>2. \A t \in Sockets \ {s}, e \in Devices : (Claims(t, e)' <=> Claims(t, e)) /\ (Active(t)' <=> Active(t))
    BY <1>1, <1>2 DEF Claims, Active, WorkersOn
  <2>3. \A e \in Devices : Claims(s, e)' => e = d
    BY <1>1, <1>2 DEF Claims, WorkersOn
  <2>4. d \in Devices => \A t \in Sockets \ {s} : ~(Active(t) /\ Claims(t, d))
    <3> SUFFICES ASSUME d \in Devices, NEW t \in Sockets \ {s}, Active(t), Claims(t, d) PROVE FALSE
      OBVIOUS
    <3>1. MayClaim(s, d)
      BY DEF Upgrade
    <3>2. /\ pc[t] \notin {"unused", "gone"} => session[t] # d
          /\ \A w \in WorkersOn(t) : d # arg[w] /\ d # session[t]
      BY <3>1 DEF MayClaim
    <3> QED BY <3>2 DEF Active, Claims
  <2> HIDE DEF Claims, Active
  <2>5. ASSUME NEW t \in Sockets, NEW e \in Devices, NEW f \in Devices, Claims(t, e)', Claims(t, f)'
        PROVE  e = f
    <3>1. CASE t = s
      BY <2>3, <2>5, <3>1
    <3>2. CASE t # s
      <4>1. Claims(t, e) /\ Claims(t, f)
        BY <2>2, <2>5, <3>2
      <4> QED BY <4>1 DEF Apart
    <3> QED BY <3>1, <3>2
  <2>6. \A t, u \in Sockets, e \in Devices :
          Active(t)' /\ Active(u)' /\ Claims(t, e)' /\ Claims(u, e)' => t = u
    <3> SUFFICES ASSUME NEW t \in Sockets, NEW u \in Sockets, NEW e \in Devices,
                        Active(t)', Active(u)', Claims(t, e)', Claims(u, e)', t # u
                 PROVE  FALSE
      OBVIOUS
    <3>1. CASE t = s
      BY <2>2, <2>3, <2>4, <3>1
    <3>2. CASE u = s
      BY <2>2, <2>3, <2>4, <3>2
    <3>3. CASE t # s /\ u # s
      BY <2>2, <3>3 DEF Apart
    <3> QED BY <3>1, <3>2, <3>3
  <2> QED BY <2>1, <2>5, <2>6 DEF Apart
<1> QED BY <1>3, <1>4, <1>5, ExclusiveKept

\* A login claims the connId for its socket.
LEMMA ExclusiveLoginSet ==
  ASSUME Exclusive, ExclusiveInv, BaseInv', NEW w \in Workers, NEW d \in Devices, LoginSet(w, d)
  PROVE  ExclusiveInv'
<1> USE DEF ExclusiveInv, BaseInv, TypeOK, Placed, Named
<1> PICK s \in Sockets : s = task[w]
  BY DEF LoginSet
<1>1. /\ UNCHANGED <<task, sockVars, soketMap, closing, owed, sweep>> /\ pc[w] = "login"
      /\ pc' = [pc EXCEPT ![w] = "granted"] /\ arg' = [arg EXCEPT ![w] = d] /\ w \notin Sockets
      /\ MayClaim(s, d)
  BY DEF LoginSet
<1>2. OwnName' /\ ClosedBefore' /\ ClosesOn /\ NamesOn /\ EntriesOn /\ StopsOn
  BY <1>1 DEF OwnName, ClosedBefore, ClosesOn, NamesOn, EntriesOn, StopsOn, BeingClosed, WorkersOn
<1>3. StoresOn
  BY <1>1 DEF StoresOn, Stored, WorkersOn
<1>4. Apart'
  <2>1. \A v \in Workers : pc'[v] = "idle" => task'[v] = NoSocket
    BY <1>1 DEF Apart
  <2>2. \A t \in Sockets : Active(t)' <=> Active(t)
    BY <1>1 DEF Active, WorkersOn
  <2>3. \A t \in Sockets \ {s}, e \in Devices : Claims(t, e)' <=> Claims(t, e)
    BY <1>1 DEF Claims, WorkersOn
  <2>4. \A e \in Devices : Claims(s, e)' => e = d
    <3>1. w \in WorkersOn(s) /\ \A v \in WorkersOn(s) : arg[v] \in {d, NoId} /\ session[s] \in {d, NoId}
      BY <1>1 DEF MayClaim, WorkersOn
    <3>2. session[s] \in {d, NoId}
      BY <3>1
    <3> QED BY <1>1, <3>1, <3>2 DEF Claims, WorkersOn
  <2>5. \A t \in Sockets \ {s} : ~(Active(t) /\ Claims(t, d))
    <3> SUFFICES ASSUME NEW t \in Sockets \ {s}, Active(t), Claims(t, d) PROVE FALSE
      OBVIOUS
    <3>1. /\ pc[t] \notin {"unused", "gone"} => session[t] # d
          /\ \A v \in WorkersOn(t) : d # arg[v] /\ d # session[t]
      BY <1>1 DEF MayClaim
    <3> QED BY <3>1 DEF Active, Claims
  <2> HIDE DEF Claims, Active
  <2>6. ASSUME NEW t \in Sockets, NEW e \in Devices, NEW f \in Devices, Claims(t, e)', Claims(t, f)'
        PROVE  e = f
    <3>1. CASE t = s
      BY <2>4, <2>6, <3>1
    <3>2. CASE t # s
      <4>1. Claims(t, e) /\ Claims(t, f)
        BY <2>3, <2>6, <3>2
      <4> QED BY <4>1 DEF Apart
    <3> QED BY <3>1, <3>2
  <2>7. \A t, u \in Sockets, e \in Devices :
          Active(t)' /\ Active(u)' /\ Claims(t, e)' /\ Claims(u, e)' => t = u
    <3> SUFFICES ASSUME NEW t \in Sockets, NEW u \in Sockets, NEW e \in Devices,
                        Active(t)', Active(u)', Claims(t, e)', Claims(u, e)', t # u
                 PROVE  FALSE
      OBVIOUS
    <3>1. CASE t = s
      BY <2>2, <2>3, <2>4, <2>5, <3>1
    <3>2. CASE u = s
      BY <2>2, <2>3, <2>4, <2>5, <3>2
    <3>3. CASE t # s /\ u # s
      BY <2>2, <2>3, <3>3 DEF Apart
    <3> QED BY <3>1, <3>2, <3>3
  <2> QED BY <2>1, <2>6, <2>7 DEF Apart
<1> QED BY <1>2, <1>3, <1>4, ExclusiveKept

\* The node's sockets are closed, with the callbacks they had.
LEMMA ExclusiveExit ==
  ASSUME ExclusiveInv, BaseInv', NEW n \in Nodes, Exit(n)
  PROVE  ExclusiveInv'
<1> USE DEF ExclusiveInv, BaseInv, TypeOK, Placed, Named
<1>1. /\ node' = node /\ session' = session
      /\ \A t \in Sockets : /\ pc'[t] = IF node[t] = n THEN "gone" ELSE pc[t]
                            /\ arg'[t] = IF node[t] = n THEN NoId ELSE arg[t]
                            /\ up'[t] <=> up[t] /\ node[t] # n
      /\ soketMap' = [soketMap EXCEPT ![n] = [d \in Devices |-> NoSocket]]
      /\ closing' = [closing EXCEPT ![n] = FALSE]
      /\ sweep' = [sweep EXCEPT ![n] = {}] /\ owed' = [owed EXCEPT ![n] = {}]
  BY DEF Exit
<1>2. \A w \in Workers :
        IF task[w] \in Sockets /\ node[task[w]] = n
          THEN pc'[w] = "idle" /\ task'[w] = NoSocket /\ arg'[w] = NoId
          ELSE pc'[w] = pc[w] /\ task'[w] = task[w] /\ arg'[w] = arg[w]
  <2> TAKE w \in Workers
  <2>1. w \notin Sockets
    OBVIOUS
  <2> QED BY <2>1 DEF Exit
<1>3. NoSocket \notin Sockets /\ NoNode \notin Nodes
  OBVIOUS
<1>0. OwnName /\ ClosedBefore
  OBVIOUS
<1>4. OwnName' /\ ClosedBefore'
  <2> HIDE DEF ExclusiveInv, BaseInv, TypeOK, Placed, Named
  <2> SUFFICES ASSUME NEW s \in Sockets
               PROVE  /\ pc'[s] = "unused" => session'[s] = NoId
                      /\ pc'[s] \in {"store", "count", "unroute", "decr", "delete"} => arg'[s] = session'[s]
                      /\ pc'[s] \in {"unroute", "decr", "delete", "gone"} => ~up'[s]
    BY DEF OwnName, ClosedBefore
  <2>1. CASE node[s] = n
    <3>1. pc'[s] = "gone" /\ ~up'[s]
      BY <1>1, <2>1
    <3> QED BY <3>1
  <2>2. CASE node[s] # n
    <3>1. pc'[s] = pc[s] /\ arg'[s] = arg[s] /\ session'[s] = session[s] /\ (up'[s] => up[s])
      BY <1>1, <2>2
    <3> QED BY <1>0, <3>1 DEF OwnName, ClosedBefore
  <2> QED BY <2>1, <2>2
<1>5. ClosesOn
  <2> SUFFICES ASSUME NEW t \in Sockets, BeingClosed(t), up'[t] PROVE BeingClosed(t)'
    BY DEF ClosesOn, BeingClosed
  <2>1. up[t] /\ node[t] # n
    BY <1>1
  <2>2. PICK w \in Workers : task[w] = t /\ pc[w] \in {"unroute", "decr", "delete", "hangup"}
    BY <2>1 DEF BeingClosed, WorkersOn
  <2>3. task'[w] = t /\ pc'[w] = pc[w]
    BY <1>2, <2>1, <2>2
  <2> QED BY <2>2, <2>3 DEF BeingClosed, WorkersOn
<1>6. NamesOn /\ StopsOn
  BY <1>1 DEF NamesOn, StopsOn
<1>7. EntriesOn
  <2> SUFFICES ASSUME NEW t \in Sockets, pc[t] # "unused", session[t] # NoId,
                      soketMap[node[t]][session[t]] = t
               PROVE  soketMap'[node[t]][session[t]] = t \/ ~up'[t]
    BY DEF EntriesOn, BeingClosed
  <2> QED BY <1>1
<1>8. StoresOn
  <2> SUFFICES ASSUME NEW t \in Sockets, Stored(t)' PROVE Stored(t)
    BY DEF StoresOn
  <2>1. node[t] # n /\ pc'[t] = pc[t]
    BY <1>1 DEF Stored
  <2>2. \A v \in Workers : task[v] = t /\ pc[v] = "store" => task'[v] = t /\ pc'[v] = "store"
    BY <1>2, <2>1
  <2> QED BY <1>1, <2>1, <2>2 DEF Stored, WorkersOn
<1>9. Apart'
  <2>1. \A v \in Workers : pc'[v] = "idle" => task'[v] = NoSocket
    BY <1>2 DEF Apart
  <2>2. \A t \in Sockets : Active(t)' => Active(t)
    BY <1>1, <1>2, <1>3 DEF Active, WorkersOn
  <2>3. \A t \in Sockets, d \in Devices : Claims(t, d)' => Claims(t, d)
    BY <1>1, <1>2, <1>3 DEF Claims, WorkersOn
  <2> QED BY <2>1, <2>2, <2>3, ApartKept
<1> QED BY <1>4, <1>5, <1>6, <1>7, <1>8, <1>9, ExclusiveKept

\* Every registered socket is under its connId, or is being closed.
LEMMA ExclusiveStopSignal ==
  ASSUME ExclusiveInv, BaseInv', NEW n \in Nodes, StopSignal(n)
  PROVE  ExclusiveInv'
<1> USE DEF ExclusiveInv, BaseInv, TypeOK, Placed
<1>1. /\ UNCHANGED <<procVars, sockVars, tableVars>>
      /\ closing' = [closing EXCEPT ![n] = TRUE] /\ sweep' = [sweep EXCEPT ![n] = Devices]
      /\ owed' = [owed EXCEPT ![n] = RegisteredAt(n)]
  BY DEF StopSignal
<1>2. OwnName' /\ Apart' /\ ClosedBefore' /\ StoredIsFound'
  BY <1>1 DEF OwnName, Apart, ClosedBefore, StoredIsFound, Stored, BeingClosed, WorkersOn, Active, Claims
<1>3. OwedIsFound'
  <2> SUFFICES ASSUME NEW m \in Nodes, closing'[m], NEW s \in owed'[m]
               PROVE  /\ node[s] = m /\ session[s] \in Devices
                      /\ (soketMap[m][session[s]] = s /\ session[s] \in sweep'[m]) \/ BeingClosed(s)
    BY <1>1 DEF OwedIsFound, BeingClosed, WorkersOn
  <2>1. CASE m = n
    <3>1. s \in Sockets /\ node[s] = n /\ Registered(s)
      BY <1>1, <2>1 DEF RegisteredAt
    <3>2. session[s] \in Devices /\ Stored(s)
      BY <3>1 DEF Registered, Stored
    <3> QED BY <1>1, <2>1, <3>1, <3>2 DEF StoredIsFound
  <2>2. CASE m # n
    BY <1>1, <2>2 DEF OwedIsFound
  <2> QED BY <2>1, <2>2
<1> QED BY <1>2, <1>3

\* The entry visited is closed; what it was for others is left.
LEMMA ExclusiveCloseAllVisit ==
  ASSUME ExclusiveInv, BaseInv', NEW n \in Nodes, NEW d \in Devices, CloseAllVisit(n, d)
  PROVE  ExclusiveInv'
<1> USE DEF ExclusiveInv, BaseInv, TypeOK, Placed
<1>1. /\ UNCHANGED <<procVars, node, session, soketMap, closing, owed>>
      /\ sweep' = [sweep EXCEPT ![n] = @ \ {d}]
      /\ \A t \in Sockets : (up'[t] => up[t]) /\ (soketMap[n][d] = t => ~up'[t])
  <2>1. CASE soketMap[n][d] = NoSocket
    BY <2>1 DEF CloseAllVisit
  <2>2. CASE soketMap[n][d] # NoSocket
    BY <2>2 DEF CloseAllVisit
  <2> QED BY <2>1, <2>2
<1>2. OwnName' /\ Apart' /\ ClosedBefore'
  <2>1. OwnName' /\ Apart'
    <3>1. OwnName /\ Apart /\ UNCHANGED <<pc, arg, task, session>>
      BY <1>1
    <3> HIDE DEF ExclusiveInv, BaseInv, TypeOK, Placed
    <3> QED BY <3>1 DEF OwnName, Apart, WorkersOn, Active, Claims
  <2>2. ClosedBefore'
    <3>1. ClosedBefore /\ pc' = pc /\ \A t \in Sockets : up'[t] => up[t]
      BY <1>1
    <3> HIDE DEF ExclusiveInv, BaseInv, TypeOK, Placed
    <3> QED BY <3>1, Zenon DEF ClosedBefore
  <2> QED BY <2>1, <2>2
<1>3. \A t \in Sockets : BeingClosed(t) => BeingClosed(t)'
  BY <1>1 DEF BeingClosed, WorkersOn
<1>4. StoredIsFound'
  BY <1>1, <1>3 DEF StoredIsFound, Stored, WorkersOn
<1>5. OwedIsFound'
  <2> SUFFICES ASSUME NEW m \in Nodes, closing[m], NEW s \in owed[m]
               PROVE  /\ node[s] = m /\ session[s] \in Devices
                      /\ (soketMap[m][session[s]] = s /\ session[s] \in sweep'[m]) \/ BeingClosed(s)'
    BY <1>1 DEF OwedIsFound
  <2>1. /\ s \in Sockets /\ node[s] = m /\ session[s] \in Devices
        /\ (soketMap[m][session[s]] = s /\ session[s] \in sweep[m]) \/ BeingClosed(s)
    BY DEF OwedIsFound
  <2>2. CASE m = n /\ session[s] = d
    BY <1>1, <1>3, <2>1, <2>2 DEF BeingClosed
  <2>3. CASE ~(m = n /\ session[s] = d)
    BY <1>1, <1>3, <2>1, <2>3
  <2> QED BY <2>2, <2>3
<1> QED BY <1>2, <1>4, <1>5

\* Redis, the refresh and the network at most close connections.
LEMMA ExclusiveAlone ==
  ASSUME ExclusiveInv, BaseInv',
         UNCHANGED <<procVars, node, session, tableVars, stopVars>>,
         \A t \in Sockets : up'[t] => up[t]
  PROVE  ExclusiveInv'
<1>1. OwnName' /\ Apart' /\ ClosedBefore'
  BY DEF ExclusiveInv, OwnName, Apart, ClosedBefore, WorkersOn, Active, Claims
<1>2. ClosesOn /\ NamesOn /\ EntriesOn /\ StoresOn /\ StopsOn
  BY DEF ClosesOn, NamesOn, EntriesOn, StoresOn, StopsOn, Stored, BeingClosed, WorkersOn
<1> QED BY <1>1, <1>2, ExclusiveKept

LEMMA ExclusiveInit == Init => ExclusiveInv
<1> SUFFICES ASSUME Init PROVE ExclusiveInv
  OBVIOUS
<1>1. OwnName /\ ClosedBefore /\ StoredIsFound /\ OwedIsFound
  BY DEF Init, OwnName, ClosedBefore, StoredIsFound, OwedIsFound, Stored
<1>2. Apart
  BY DEF Init, Apart, Active, Claims, WorkersOn
<1> QED BY <1>1, <1>2, BaseInit DEF ExclusiveInv

LEMMA ExclusiveNext ==
  ASSUME Exclusive
  PROVE  ExclusiveInv /\ [Next]_vars => ExclusiveInv'
<1> SUFFICES ASSUME ExclusiveInv, [Next]_vars PROVE ExclusiveInv'
  OBVIOUS
<1>1. BaseInv'
  BY BaseNext DEF ExclusiveInv
<1>2. ASSUME NEW s \in Sockets,
             \/ \E n \in Nodes, d \in Devices \cup {NoId} : Upgrade(s, n, d)
             \/ SocketStep(s)
      PROVE  ExclusiveInv'
  BY <1>1, <1>2, ExclusiveUpgrade, ExclusiveStoreEntry, ExclusiveDeleteEntry, ExclusiveQuiet
  DEF SocketStep
<1>3. ASSUME NEW w \in Workers, WorkerStep(w) \/ \E s \in Sockets : Recv(w, s)
      PROVE  ExclusiveInv'
  BY <1>1, <1>3, ExclusiveLoginSet, ExclusiveLoginOk, ExclusiveStoreEntry,
     ExclusiveDeleteEntry, ExclusiveQuiet DEF WorkerStep
<1>4. ASSUME NEW n \in Nodes, CronStep(n)
      PROVE  ExclusiveInv'
  <2>1. UNCHANGED <<procVars, node, session, tableVars, stopVars>>
    BY <1>4 DEF CronStep, CronFire, PipeExec, ExecFatal, ExecReturn, NoneFailed, RangeVisit,
                SetXX, SkipFailed, CloseFailed
  <2>2. \A t \in Sockets : up'[t] => up[t]
    <3>1. CASE \E d \in Devices : CloseFailed(n, d)
      <4>1. up \in [Sockets -> BOOLEAN]
        BY DEF ExclusiveInv, BaseInv, TypeOK
      <4> QED BY <3>1, <4>1 DEF CloseFailed
    <3>2. CASE ~\E d \in Devices : CloseFailed(n, d)
      BY <1>4, <3>2 DEF CronStep, CronFire, PipeExec, ExecFatal, ExecReturn, NoneFailed,
                        RangeVisit, SetXX, SkipFailed
    <3> QED BY <3>1, <3>2
  <2> QED BY <1>1, <2>1, <2>2, ExclusiveAlone
<1>5. ASSUME NEW s \in Sockets, Disconnect(s)
      PROVE  ExclusiveInv'
  <2>1. UNCHANGED <<procVars, node, session, tableVars, stopVars>>
    BY <1>5 DEF Disconnect
  <2>2. \A t \in Sockets : up'[t] => up[t]
    BY <1>5 DEF Disconnect, ExclusiveInv, BaseInv, TypeOK
  <2> QED BY <1>1, <2>1, <2>2, ExclusiveAlone
<1>6. ASSUME (\E d \in Devices : Expire(d)) \/ UNCHANGED vars
      PROVE  ExclusiveInv'
  <2>1. UNCHANGED <<procVars, sockVars, tableVars, stopVars>>
    BY <1>6 DEF Expire, vars
  <2> QED BY <1>1, <2>1, ExclusiveAlone
<1> QED
  BY <1>1, <1>2, <1>3, <1>4, <1>5, <1>6, ExclusiveExit, ExclusiveStopSignal, ExclusiveCloseAllVisit
  DEF Next

\* With one socket per device and one device per socket, /notice and /ping find
\* every registered socket that is not being closed, whatever callbacks run in
\* parallel (iotnoticelogic.go:31-44).
THEOREM ExclusiveIsFound ==
  ASSUME Exclusive
  PROVE  Spec => []RegisteredIsFound
<1>1. ExclusiveInv => RegisteredIsFound
  BY DEF ExclusiveInv, StoredIsFound, RegisteredIsFound, Registered, Stored
<1> QED BY <1>1, ExclusiveInit, ExclusiveNext, PTL DEF Spec

\* Under the same condition CloseAll closes every socket that was registered
\* when the node was told to stop (gateway.go:65-69).
THEOREM ExclusiveCloseAll ==
  ASSUME Exclusive
  PROVE  Spec => []CloseAllReachesAll
<1>1. ExclusiveInv => CloseAllReachesAll
  BY DEF ExclusiveInv, OwedIsFound, CloseAllReachesAll, Stopped
<1> QED BY <1>1, ExclusiveInit, ExclusiveNext, PTL DEF Spec
=============================================================================
