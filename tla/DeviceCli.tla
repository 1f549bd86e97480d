------------------------------ MODULE DeviceCli ------------------------------
(***************************************************************************)
(* pkg/devicecli: the client through which iotws pushes messages upstream. *)
(* Push copies the slice header of d.chain under the read lock and then    *)
(* walks the slice without it; Reload makes and closes clients outside the *)
(* lock and rewrites the slice in place under it (d.chain[:0]).            *)
(*                                                                         *)
(* A slice is [cap, len]: append gives a slice of capacity 0, 1, 2 an      *)
(* array of 1, 2, 4 slots, and capacities never shrink, so there is one    *)
(* backing array per capacity.  A slot is an interface of two words: while *)
(* it is written, a reader without the lock may see a mixture (Torn).      *)
(***************************************************************************)
EXTENDS Integers, Sequences, FiniteSets

CONSTANTS
  Pushers,      \* goroutines that call Push
  Reloaders,    \* goroutines that call Reload
  MQConfigured, \* d.mqConfig # nil
  MqMayFail,    \* mq.NewDeviceCli may return an error
  MaxReloads    \* bound: calls of Reload

ASSUME CliAssumption ==
  /\ MaxReloads \in Nat /\ {MQConfigured, MqMayFail} \subseteq BOOLEAN
  /\ "free" \notin Reloaders

VARIABLES
  mode,     \* d.mode: the transports of the model
  cur,      \* transport -> d.grpc, d.nats, d.http
  arr,      \* capacity -> slots of the backing array
  chain,    \* d.chain
  rest,     \* clients that rebuildChain has still to append
  half,     \* rebuildChain is between the two words of a slot
  lock,     \* who holds the write lock
  open,     \* NATS clients that are connected
  made,     \* NATS clients made so far
  reload,   \* reloader -> its local variables
  push,     \* pusher -> its local variables
  calls,    \* calls of Reload so far
  overlap   \* history: two calls of Reload have overlapped

vars == <<mode, cur, arr, chain, rest, half, lock, open, made, reload, push, calls, overlap>>

Transports == {"grpc", "nats", "http"}
Modes == (SUBSET Transports) \ {{}}

\* grpc and httpc have no Close() of the interface's type and no state here.
None == <<"none", 0>>
Torn == <<"torn", 0>>
NilNats == <<"nats", 0>>   \* a nil *deviceNatsCli in a DeviceCli: it is not nil
Nats(i) == <<"nats", i>>
Made(t) == <<t, 1>>
Clients == {Made("grpc"), Made("http"), NilNats} \cup {Nats(i) : i \in 1 .. MaxReloads + 1}

Caps == {0, 1, 2, 4}
Grown(n) == CHOOSE c \in Caps : c > n /\ \A d \in Caps : d > n => c <= d

Rank(t) == CASE t = "grpc" -> 1 [] t = "nats" -> 2 [] t = "http" -> 3

\* Mutant: the fields are not compared with nil.
MutantInOrder(c) == <<c["grpc"], c["nats"], c["http"]>>

\* The clients of c that are not nil, in the order of priority.
InOrder(c) ==
  LET part(t) == IF c[t] = None THEN <<>> ELSE <<c[t]>>
  IN part("grpc") \o part("nats") \o part("http")

\* What append leaves of an array when seq is built from a nil slice.
Fresh(seq) ==
  LET size == IF seq = <<>> THEN 0 ELSE IF Len(seq) <= 2 THEN Len(seq) ELSE 4 IN
  [arr |-> [k \in Caps |-> [i \in 1 .. k |-> IF k = size /\ i <= Len(seq) THEN seq[i] ELSE None]],
   chain |-> [cap |-> size, len |-> Len(seq)]]

Slices == UNION {[cap : {k}, len : 0 .. k] : k \in Caps}

Idle == [pc |-> "idle"]
Panicked == [pc |-> "panic"]

Init ==
  /\ mode \in Modes
  /\ \E ok \in {MQConfigured /\ "nats" \in mode, MQConfigured /\ "nats" \in mode /\ ~MqMayFail} :
       /\ cur = [t \in Transports |->
                   IF t \notin mode \/ (t = "nats" /\ ~ok) THEN None ELSE Made(t)]
       /\ open = IF ok THEN {1} ELSE {}
  /\ arr = Fresh(InOrder(cur)).arr
  /\ chain = Fresh(InOrder(cur)).chain
  /\ rest = <<>> /\ half = FALSE /\ lock = "free"
  /\ made = 1
  /\ reload = [r \in Reloaders |-> Idle]
  /\ push = [p \in Pushers |-> Idle]
  /\ calls = 0 /\ overlap = FALSE

-----------------------------------------------------------------------------
(* Reload.                                                                 *)

cvars == <<mode, cur, arr, chain, rest, half, lock>>

\* Mutant: a NATS client is made although there is one.
MutantReload(r) ==
  /\ reload[r].pc = "idle" /\ lock = "free" /\ calls < MaxReloads
  /\ calls' = calls + 1
  /\ \E new \in {m \in Modes \ {mode} : "nats" \in m} :
       /\ made' = made + 1
       /\ open' = open \cup {made + 1}
       /\ reload' = [reload EXCEPT ![r] =
            [pc |-> "commit", old |-> mode, new |-> new, had |-> cur, nats |-> Nats(made + 1)]]
  /\ overlap' = (overlap \/ \E s \in Reloaders \ {r} : reload[s].pc # "idle")
  /\ UNCHANGED <<cvars, push>>

\* The snapshot under the read lock, and the clients made outside it.
Reload(r) ==
  /\ reload[r].pc = "idle" /\ lock = "free" /\ calls < MaxReloads
  /\ calls' = calls + 1
  /\ \E new \in Modes \ {mode} :
     LET wants == "nats" \in new /\ cur["nats"] = None /\ MQConfigured IN
     \E ok \in {TRUE, ~MqMayFail} :
       /\ made' = IF wants /\ ok THEN made + 1 ELSE made
       /\ open' = IF wants /\ ok THEN open \cup {made + 1} ELSE open
       /\ reload' = [reload EXCEPT ![r] =
            [pc |-> "commit", old |-> mode, new |-> new, had |-> cur,
             nats |-> IF ~wants THEN None ELSE IF ok THEN Nats(made + 1) ELSE NilNats]]
  /\ overlap' = (overlap \/ \E s \in Reloaders \ {r} : reload[s].pc # "idle")
  /\ UNCHANGED <<cvars, push>>

Finish(r, next) == reload' = [reload EXCEPT ![r] = next]

\* closeIfPossible: a nil client is skipped, but NilNats is not nil.
Close(r, c) ==
  /\ open' = open \ {i \in open : c = Nats(i)}
  /\ Finish(r, IF c = NilNats THEN Panicked ELSE Idle)

\* Another Reload has changed the mode: the new clients are closed.
Discard(r) ==
  /\ reload[r].pc = "commit" /\ lock = "free" /\ mode # reload[r].old
  /\ Close(r, reload[r].nats)
  /\ UNCHANGED <<cvars, made, push, calls, overlap>>

\* Mutant: an old client is kept whatever the new mode.
MutantKept(l, t) ==
  IF l.had[t] # None THEN l.had[t]
  ELSE IF t \notin l.new THEN None
  ELSE IF t = "nats" THEN l.nats ELSE Made(t)

\* The client that the new mode has for t: the old one, the new one or nil.
Kept(l, t) ==
  IF t \notin l.new THEN None
  ELSE IF l.had[t] # None THEN l.had[t]
  ELSE IF t = "nats" THEN l.nats ELSE Made(t)

\* Mutant: d.chain is not cut.
MutantCommit(r) ==
  /\ reload[r].pc = "commit" /\ lock = "free" /\ mode = reload[r].old
  /\ lock' = r
  /\ cur' = [t \in Transports |-> Kept(reload[r], t)]
  /\ mode' = reload[r].new
  /\ rest' = InOrder(cur')
  /\ Finish(r, [reload[r] EXCEPT !.pc = "rebuild"])
  /\ push' = [p \in Pushers |-> IF push[p].pc = "idle" THEN Idle ELSE [push[p] EXCEPT !.stale = TRUE]]
  /\ UNCHANGED <<arr, chain, half, open, made, calls, overlap>>

\* The fields are assigned and d.chain is cut to length 0.
Commit(r) ==
  /\ reload[r].pc = "commit" /\ lock = "free" /\ mode = reload[r].old
  /\ lock' = r
  /\ cur' = [t \in Transports |-> Kept(reload[r], t)]
  /\ mode' = reload[r].new
  /\ chain' = [chain EXCEPT !.len = 0]
  /\ rest' = InOrder(cur')
  /\ Finish(r, [reload[r] EXCEPT !.pc = "rebuild"])
  /\ push' = [p \in Pushers |-> IF push[p].pc = "idle" THEN Idle ELSE [push[p] EXCEPT !.stale = TRUE]]
  /\ UNCHANGED <<arr, half, open, made, calls, overlap>>

\* append: in place, word by word, or into a larger array nobody else has.
AppendInPlace(r) ==
  LET k == chain.cap  i == chain.len + 1 IN
  /\ lock = r /\ rest # <<>> /\ i <= k
  /\ IF half \/ arr[k][i] = Head(rest) \/ arr[k][i][1] = Head(rest)[1]
       THEN /\ arr' = [arr EXCEPT ![k][i] = Head(rest)]
            /\ chain' = [chain EXCEPT !.len = i]
            /\ rest' = Tail(rest)
            /\ half' = FALSE
       ELSE /\ arr' = [arr EXCEPT ![k][i] = Torn]
            /\ half' = TRUE
            /\ UNCHANGED <<chain, rest>>
  /\ UNCHANGED <<mode, cur, lock, open, made, reload, push, calls, overlap>>

AppendGrows(r) ==
  LET k == chain.cap  i == chain.len + 1 IN
  /\ lock = r /\ rest # <<>> /\ i > k
  /\ arr' = [arr EXCEPT ![Grown(k)] =
               [j \in 1 .. Grown(k) |->
                  IF j < i THEN arr[k][j] ELSE IF j = i THEN Head(rest) ELSE None]]
  /\ chain' = [cap |-> Grown(k), len |-> i]
  /\ rest' = Tail(rest)
  /\ UNCHANGED <<mode, cur, half, lock, open, made, reload, push, calls, overlap>>

\* The lock is released.
Unlock(r) ==
  /\ lock = r /\ rest = <<>>
  /\ lock' = "free"
  /\ Finish(r, IF "nats" \in reload[r].old \ reload[r].new
                 THEN [reload[r] EXCEPT !.pc = "close"] ELSE Idle)
  /\ UNCHANGED <<mode, cur, arr, chain, rest, half, open, made, push, calls, overlap>>

\* The NATS client that the new mode does not have is closed.
CloseOld(r) ==
  /\ reload[r].pc = "close"
  /\ Close(r, reload[r].had["nats"])
  /\ UNCHANGED <<cvars, made, push, calls, overlap>>

-----------------------------------------------------------------------------
(* Push.                                                                   *)

\* The slice header is copied under the read lock.
Push(p) ==
  /\ push[p].pc = "idle" /\ lock = "free"
  /\ push' = [push EXCEPT ![p] =
       [pc |-> IF chain.len = 0 THEN "none" ELSE "walk",
        view |-> chain, i |-> 1, tried |-> <<>>, stale |-> FALSE]]
  /\ UNCHANGED <<cvars, open, made, reload, calls, overlap>>

\* How the push of a client can end; a client that is closed only fails.
Outcomes(c) ==
  IF c \in {Torn, NilNats} THEN {"panic"}
  ELSE IF c[1] = "nats" /\ c[2] \notin open THEN {"failed"} ELSE {"ok", "failed"}

\* Mutant: the last client is never fallen back to.
MutantTry(p) ==
  LET l == push[p]
      c == arr[l.view.cap][l.i] IN
  /\ l.pc = "walk"
  /\ \E o \in Outcomes(c) :
       push' = [push EXCEPT ![p] =
         [l EXCEPT !.tried = Append(@, c[1]),
                   !.pc = IF o = "failed" /\ l.i < l.view.len - 1 THEN "walk" ELSE o,
                   !.i = IF o = "failed" /\ l.i < l.view.len - 1 THEN @ + 1 ELSE @]]
  /\ UNCHANGED <<cvars, open, made, reload, calls, overlap>>

\* The next client of the slice is tried.
Try(p) ==
  LET l == push[p]
      c == arr[l.view.cap][l.i] IN
  /\ l.pc = "walk"
  /\ \E o \in Outcomes(c) :
       push' = [push EXCEPT ![p] =
         [l EXCEPT !.tried = Append(@, c[1]),
                   !.pc = IF o = "failed" /\ l.i < l.view.len THEN "walk" ELSE o,
                   !.i = IF o = "failed" /\ l.i < l.view.len THEN @ + 1 ELSE @]]
  /\ UNCHANGED <<cvars, open, made, reload, calls, overlap>>

\* The answer goes back to the gateway.
Return(p) ==
  /\ push[p].pc \in {"none", "ok", "failed", "panic"}
  /\ push' = [push EXCEPT ![p] = Idle]
  /\ UNCHANGED <<cvars, open, made, reload, calls, overlap>>

-----------------------------------------------------------------------------

Next ==
  \/ \E r \in Reloaders :
       \/ Reload(r) \/ Discard(r) \/ Commit(r) \/ AppendInPlace(r) \/ AppendGrows(r)
       \/ Unlock(r) \/ CloseOld(r)
  \/ \E p \in Pushers : Push(p) \/ Try(p) \/ Return(p)

Spec == Init /\ [][Next]_vars
-----------------------------------------------------------------------------

LocalsOfReload ==
  [pc : {"commit", "rebuild", "close"}, old : Modes, new : Modes,
   had : [Transports -> Clients \cup {None}], nats : Clients \cup {None}]

LocalsOfPush ==
  [pc : {"none", "walk", "ok", "failed", "panic"}, view : Slices, i : 1 .. 4,
   tried : Seq(Transports \cup {"torn"}), stale : BOOLEAN]

TypeOK ==
  /\ mode \in Modes
  /\ cur \in [Transports -> Clients \cup {None}]
  /\ DOMAIN arr = Caps /\ \A k \in Caps : arr[k] \in [1 .. k -> Clients \cup {None, Torn}]
  /\ chain \in Slices /\ rest \in Seq(Clients)
  /\ half \in BOOLEAN /\ lock \in Reloaders \cup {"free"}
  /\ reload \in [Reloaders -> LocalsOfReload \cup {Idle, Panicked}]
  /\ push \in [Pushers -> LocalsOfPush \cup {Idle}]
  /\ open \subseteq 1 .. made /\ made \in 1 .. MaxReloads + 1
  /\ calls \in 0 .. MaxReloads /\ overlap \in BOOLEAN

Slots(sl) == [i \in 1 .. sl.len |-> arr[sl.cap][i]]

\* devicecli.go:216-228: whenever the write lock is free, the chain is the
\* clients of the fields in the order of priority, whatever array it is in and
\* whichever calls of Reload met.
ChainIsCurrent == lock = "free" => Slots(chain) = InOrder(cur)

\* devicecli.go:157-192: calls of Reload that commit, drop their result or take
\* over the clients of an older snapshot leave clients of the mode only, and
\* grpc and http whenever the mode has them.
CurMatchesMode ==
  /\ \A t \in Transports : cur[t] # None => t \in mode /\ cur[t][1] = t
  /\ \A t \in mode \ {"nats"} : cur[t] # None

\* devicecli.go:127-204: calls of Reload that do not overlap never leave a
\* closed NATS client in use and never lose a connected one: it is in use, or a
\* Reload is about to use or to close it.
InHand(r) ==
  CASE reload[r].pc = "commit" -> {reload[r].nats}
    [] reload[r].pc = "close" -> {reload[r].had["nats"]}
    [] reload[r].pc = "rebuild" /\ "nats" \notin mode -> {reload[r].had["nats"]}
    [] OTHER -> {}

NatsAccounted ==
  ~overlap =>
    /\ \A i \in 1 .. made : cur["nats"] = Nats(i) => i \in open
    /\ \A i \in open : Nats(i) \in {cur["nats"]} \cup UNION {InHand(r) : r \in Reloaders}

Kinds(seq) == [i \in 1 .. Len(seq) |-> seq[i][1]]

\* devicecli.go:230-261: a Push that no Reload overlaps tries the clients of
\* the fields from the first on, one after the other, and fails only when it
\* has tried all of them.
UndisturbedPush ==
  \A p \in Pushers :
    push[p].pc # "idle" /\ ~push[p].stale =>
      /\ push[p].tried = SubSeq(Kinds(InOrder(cur)), 1, Len(push[p].tried))
      /\ push[p].pc \in {"failed", "none"} => Len(push[p].tried) = Len(InOrder(cur))

\* devicecli.go:75 and 230: Push falls back along the priority grpc, nats, http:
\* no client is tried again, none before one of a higher priority, and none is a
\* mixture of two.
TriedInOrder ==
  \A p \in Pushers :
    push[p].pc # "idle" =>
      LET tr == push[p].tried IN
      /\ \A i \in 1 .. Len(tr) : tr[i] # "torn"
      /\ \A i, j \in 1 .. Len(tr) : i < j => Rank(tr[i]) < Rank(tr[j])
=============================================================================
