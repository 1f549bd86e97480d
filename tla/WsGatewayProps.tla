---------------------------- MODULE WsGatewayProps ----------------------------
(* The correctness properties of WsGateway, and the ledger it implements. *)
EXTENDS WsGateway

\* The counter that iotsync publishes and ProcessTask compares with the mean
\* (connection.go:25-38) is at every moment the number of registered sockets of
\* the node, although two callbacks and the upgrade handler change it.
CountIsRegistered == \A n \in Nodes : count[n] = Cardinality(RegisteredAt(n))

\* gateway.go:68-69: closing a connection runs OnClose, which takes it out of
\* the table.  No entry keeps a connection that is gone, of another node, or
\* whose session has another connId: /notice would write to it.
NoDeadEntry ==
  \A n \in Nodes, d \in Devices :
    soketMap[n][d] # NoSocket =>
      LET s == soketMap[n][d]
      IN node[s] = n /\ session[s] = d /\ pc[s] # "gone"

\* Another socket of the same node has had the same connId.
Overlapped(s) == \E t \in Sockets \ {s} : node[t] = node[s] /\ session[t] = session[s]

\* connection.Del removes whatever socket a connId has (connection.go:35-38): a
\* registered socket loses its entry only if another socket of the node had the
\* same connId at some time.
EntryLostOnlyByOverlap ==
  \A s \in Sockets :
    Registered(s) /\ soketMap[node[s]][session[s]] # s => Overlapped(s)

\* The ledger: a socket is "in" while it is registered, "out" when its node
\* counted it out or lost it.
Reg == [s \in Sockets |-> IF Registered(s) THEN "in"
                          ELSE IF pc[s] \in {"delete", "gone"} THEN "out"
                          ELSE "new"]

Ledger == INSTANCE WsLedger WITH at <- node, num <- count, reg <- Reg

\* The gateway's counter implements the ledger (connection.go, gateway.go).
LedgerSpec == Ledger!Spec

\* iotconnsnlogic.go:32-60: no open socket is an entry for ever without a route:
\* the route is brought back to the entry's node, the entry leaves the table, or
\* the socket is closed so that the device logs in again.
EntryIsRefreshedOrClosed ==
  \A n \in Nodes, d \in Devices, s \in Sockets :
    []<>(conn[d] = n \/ soketMap[n][d] # s \/ ~up[s])

\* conn:<sn> has a time to live and only an entry renews it: with no socket
\* left, no device keeps a route (iotconnsnlogic.go:65-99, gateway.go:80-91).
OfflineRouteExpires ==
  \A d \in Devices :
    []<>(conn[d] = NoNode \/ \E s \in Sockets : pc[s] \notin {"unused", "gone"})

\* ServerOnClose has taken s's entry away, or is about to, and then hangs up.
BeingClosed(s) ==
  ~up[s] \/ \E w \in WorkersOn(s) : pc[w] \in {"unroute", "decr", "delete", "hangup"}

\* gateway.go:65-69, CloseAll "gracefully closes all WebSocket connections":
\* when it returns, every socket that was registered at the stop signal is
\* closed, or a failed login is closing it.
CloseAllReachesAll ==
  \A n \in Nodes : Stopped(n) => \A s \in owed[n] : BeingClosed(s)

\* Where connections overlap CloseAll does miss sockets, but only those: one that was
\* registered at the stop signal and is left open shares its connId with another of
\* the node, whose entry CloseAll found in its place (connection.go:29-38, gateway.go:65-69).
OnlyOverlappedMissed ==
  \A n \in Nodes : Stopped(n) => \A s \in owed[n] : BeingClosed(s) \/ Overlapped(s)

\* /notice and /ping find a device by its entry (iotnoticelogic.go:31-44).  A
\* registered socket is found under its session's connId unless it is being
\* closed, even when callbacks of the socket run in parallel.
RegisteredIsFound ==
  \A s \in Sockets :
    Registered(s) => soketMap[node[s]][session[s]] = s \/ BeingClosed(s)

\* Session().Store comes before Storage (gateway.go:118-121): whoever finds a
\* socket in a node's table finds one of that node that has logged in.
EntryIsAuthenticated ==
  \A n \in Nodes, d \in Devices :
    LET s == soketMap[n][d]
    IN s # NoSocket => node[s] = n /\ session[s] # NoId
=============================================================================
