--------------------------- MODULE DeviceCliProofs ---------------------------
(***************************************************************************)
(* Theorems about DeviceCli, for any pushers, reloaders and numbers of     *)
(* reloads.  A chain that is being rebuilt is its first slots and what is  *)
(* still to append (Rebuilt); a Push without a commit since it began still *)
(* walks the chain itself (Walks); a call of Reload that no other has      *)
(* overlapped finds the fields as it has copied them (Alone).              *)
(***************************************************************************)
EXTENDS DeviceCli, SequenceTheorems, TLAPS

\* One call of Reload at most is between Commit and Unlock, and it has the lock.
Locked ==
  /\ \A r \in Reloaders : reload[r].pc = "rebuild" <=> lock = r
  /\ lock = "free" => rest = <<>> /\ half = FALSE
  /\ half = TRUE => rest # <<>> /\ chain.len < chain.cap

\* The chain and what is still to append to it are the clients of the fields.
Rebuilt ==
  /\ chain.len + Len(rest) = Len(InOrder(cur))
  /\ \A i \in 1 .. chain.len : arr[chain.cap][i] = InOrder(cur)[i]
  /\ \A i \in 1 .. Len(rest) : rest[i] = InOrder(cur)[chain.len + i]

\* What a Reload has seen and made fits the modes it goes from and to.
Snapshot(l) ==
  /\ \A t \in Transports : l.had[t] # None => t \in l.old /\ l.had[t][1] = t
  /\ l.nats # None => "nats" \in l.new /\ l.nats[1] = "nats"
  /\ l.pc = "close" => "nats" \notin l.new

\* Where a Push is, and what it has done when no Reload has committed since.
Walks(l) ==
  /\ l.view.cap <= chain.cap
  /\ \A j \in 1 .. l.view.len : arr[l.view.cap][j] # None
  /\ l.pc = "walk" => l.i <= l.view.len
  /\ l.stale = FALSE =>
       /\ lock = "free" /\ l.view = chain
       /\ Len(l.tried) = (IF l.pc = "walk" THEN l.i - 1 ELSE IF l.pc = "none" THEN 0 ELSE l.i)
       /\ Len(l.tried) <= chain.len
       /\ \A j \in 1 .. Len(l.tried) : l.tried[j] = InOrder(cur)[j][1]
       /\ l.pc = "failed" => l.i = l.view.len
       /\ l.pc = "none" => l.view.len = 0

\* A call of Reload that no other has overlapped finds everything as it left it.
Alone ==
  /\ \A r, s \in Reloaders : r # s => reload[r].pc = "idle" \/ reload[s].pc = "idle"
  /\ \A r \in Reloaders :
       /\ reload[r].pc = "commit" =>
            /\ reload[r].old = mode /\ reload[r].had = cur
            /\ \A i \in 1 .. made : reload[r].nats = Nats(i) => i \in open
            /\ reload[r].nats # None => cur["nats"] = None
       /\ reload[r].pc \in {"rebuild", "close"} => reload[r].new = mode

CliInv ==
  /\ TypeOK /\ made <= calls + 1
  /\ Locked /\ Rebuilt
  /\ \A r \in Reloaders : reload[r].pc \in {"commit", "rebuild", "close"} => Snapshot(reload[r])
  /\ CurMatchesMode
  /\ \A p \in Pushers : push[p].pc # "idle" => Walks(push[p])
  /\ ~overlap => Alone
  /\ NatsAccounted

-----------------------------------------------------------------------------
(* Clients and slices.                                                     *)

LEMMA ClientKinds ==
  /\ \A c \in Clients : c[1] \in Transports /\ c # None /\ c # Torn
  /\ None \notin Clients /\ Torn \notin Clients /\ None # Torn /\ NilNats \in Clients
  /\ Torn[1] = "torn"
  /\ \A t \in Transports : Made(t)[1] = t /\ Made(t) # None /\ Made(t) # NilNats
  /\ Made("grpc") \in Clients /\ Made("http") \in Clients
  /\ \A i : Nats(i)[1] = "nats" /\ Nats(i) # None
  /\ \A i \in 1 .. MaxReloads + 1 : Nats(i) \in Clients
  /\ \A i \in Nat \ {0} : Nats(i) # NilNats
BY CliAssumption DEF Clients, Transports, None, Torn, NilNats, Nats, Made

LEMMA NatsDiffer == \A i, j : Nats(i) = Nats(j) => i = j
BY DEF Nats

LEMMA MadeIsNats == Made("nats") = Nats(1)
BY DEF Made, Nats

LEMMA GrownCaps == Grown(0) = 1 /\ Grown(1) = 2 /\ Grown(2) = 4
<1>1. \A c, d \in Caps : (c > 0 /\ \A e \in Caps : e > 0 => c <= e) /\ (d > 0 /\ \A e \in Caps : e > 0 => d <= e) => c = 1
  BY DEF Caps
<1>2. Grown(0) = 1
  BY DEF Grown, Caps
<1>3. Grown(1) = 2
  BY DEF Grown, Caps
<1>4. Grown(2) = 4
  BY DEF Grown, Caps
<1> QED
  BY <1>2, <1>3, <1>4

LEMMA SliceShape ==
  /\ \A s \in Slices : s.cap \in Caps /\ s.len \in Nat /\ s.len <= s.cap
  /\ \A k \in Caps : \A n \in 0 .. k : [cap |-> k, len |-> n] \in Slices
  /\ \A s \in Slices : \A n \in 0 .. s.cap : [s EXCEPT !.len = n] \in Slices
BY DEF Slices, Caps

\* The chain of any clients: at most three, none of them nil.
LEMMA InOrderShape ==
  ASSUME NEW c \in [Transports -> Clients \cup {None}]
  PROVE  /\ InOrder(c) \in Seq(Clients) /\ Len(InOrder(c)) \in 0 .. 3
         /\ \A i \in 1 .. Len(InOrder(c)) : InOrder(c)[i] \in Clients
<1> DEFINE has(t) == c[t] # None
<1>0. /\ has("grpc") => c["grpc"] \in Clients
      /\ has("nats") => c["nats"] \in Clients
      /\ has("http") => c["http"] \in Clients
  BY DEF Transports
<1> HIDE DEF Clients
<1>1. CASE has("grpc") /\ has("nats") /\ has("http")
  BY <1>0, <1>1 DEF InOrder
<1>2. CASE has("grpc") /\ has("nats") /\ ~has("http")
  BY <1>0, <1>2 DEF InOrder
<1>3. CASE has("grpc") /\ ~has("nats") /\ has("http")
  BY <1>0, <1>3 DEF InOrder
<1>4. CASE has("grpc") /\ ~has("nats") /\ ~has("http")
  BY <1>0, <1>4 DEF InOrder
<1>5. CASE ~has("grpc") /\ has("nats") /\ has("http")
  BY <1>0, <1>5 DEF InOrder
<1>6. CASE ~has("grpc") /\ has("nats") /\ ~has("http")
  BY <1>0, <1>6 DEF InOrder
<1>7. CASE ~has("grpc") /\ ~has("nats") /\ has("http")
  BY <1>0, <1>7 DEF InOrder
<1>8. CASE ~has("grpc") /\ ~has("nats") /\ ~has("http")
  BY <1>0, <1>8 DEF InOrder
<1> QED
  BY <1>1, <1>2, <1>3, <1>4, <1>5, <1>6, <1>7, <1>8

-----------------------------------------------------------------------------
(* Push.                                                                   *)

\* What does not speak of the pushers stays when only they move.
LEMMA OnlyPush ==
  ASSUME CliInv, UNCHANGED <<cvars, open, made, reload, calls, overlap>>,
         push' \in [Pushers -> LocalsOfPush \cup {Idle}],
         \A p \in Pushers : push'[p].pc # "idle" => Walks(push'[p])
  PROVE  CliInv'
<1>1. TypeOK' /\ (made <= calls + 1)'
  BY DEF CliInv, TypeOK, cvars
<1>2. Locked' /\ Rebuilt' /\ CurMatchesMode'
  BY DEF CliInv, Locked, Rebuilt, CurMatchesMode, cvars
<1>3. (\A r \in Reloaders : reload[r].pc \in {"commit", "rebuild", "close"} => Snapshot(reload[r]))'
  BY DEF CliInv, Snapshot
<1>4. (~overlap => Alone)' /\ NatsAccounted'
  BY DEF CliInv, Alone, NatsAccounted, InHand, cvars
<1>5. (\A p \in Pushers : push[p].pc # "idle" => Walks(push[p]))'
  BY DEF Walks, cvars
<1> QED
  BY <1>1, <1>2, <1>3, <1>4, <1>5 DEF CliInv

\* Whoever has a Push under way has its local variables.
LEMMA LocalsAre ==
  ASSUME TypeOK, NEW p \in Pushers, push[p].pc # "idle"
  PROVE  push[p] \in LocalsOfPush
BY DEF TypeOK, Idle

\* The clients of the chain, while nothing is left to append.
LEMMA ChainSlots ==
  ASSUME CliInv
  PROVE  /\ chain \in Slices /\ chain.cap \in Caps /\ chain.len \in Nat /\ chain.len <= chain.cap
         /\ \A j \in 1 .. chain.len : arr[chain.cap][j] \in Clients /\ arr[chain.cap][j] # None
<1>1. cur \in [Transports -> Clients \cup {None}] /\ chain \in Slices /\ rest \in Seq(Clients)
  BY DEF CliInv, TypeOK
<1>2. chain.cap \in Caps /\ chain.len \in Nat /\ chain.len <= chain.cap
  BY <1>1, SliceShape
<1>3. /\ Len(InOrder(cur)) \in Nat
      /\ \A i \in 1 .. Len(InOrder(cur)) : InOrder(cur)[i] \in Clients
  BY <1>1, InOrderShape
<1>4. /\ chain.len + Len(rest) = Len(InOrder(cur)) /\ Len(rest) \in Nat
      /\ \A i \in 1 .. chain.len : arr[chain.cap][i] = InOrder(cur)[i]
  BY <1>1 DEF CliInv, Rebuilt
<1>5. \A j \in 1 .. chain.len : arr[chain.cap][j] \in Clients
  BY <1>2, <1>3, <1>4
<1> QED
  BY <1>1, <1>2, <1>5, ClientKinds

LEMMA PushKeeps ==
  ASSUME CliInv, NEW p \in Pushers, Push(p) PROVE CliInv'
<1>1. UNCHANGED <<cvars, open, made, reload, calls, overlap>> /\ lock = "free"
  BY DEF Push
<1> DEFINE new == [pc |-> IF chain.len = 0 THEN "none" ELSE "walk",
                   view |-> chain, i |-> 1, tried |-> <<>>, stale |-> FALSE]
<1>2. push' = [push EXCEPT ![p] = new]
  BY DEF Push
<1>3. new \in LocalsOfPush
  BY ChainSlots DEF LocalsOfPush
<1>4. Walks(new)
  <2>1. new.pc = (IF chain.len = 0 THEN "none" ELSE "walk") /\ new.view = chain /\ new.i = 1
        /\ new.tried = <<>> /\ new.stale = FALSE
    OBVIOUS
  <2> HIDE DEF new
  <2>2. \A j \in 1 .. chain.len : arr[chain.cap][j] # None
    BY ChainSlots
  <2> QED
    BY <1>1, <2>1, <2>2, ChainSlots, SliceShape DEF Walks, Caps
<1>5. push \in [Pushers -> LocalsOfPush \cup {Idle}]
  BY DEF CliInv, TypeOK
<1> HIDE DEF new
<1>6. push' \in [Pushers -> LocalsOfPush \cup {Idle}]
  BY <1>2, <1>3, <1>5
<1>7. \A q \in Pushers : push'[q].pc # "idle" => Walks(push'[q])
  BY <1>2, <1>4, <1>5 DEF CliInv
<1> QED
  BY <1>1, <1>6, <1>7, OnlyPush

LEMMA ReturnKeeps ==
  ASSUME CliInv, NEW p \in Pushers, Return(p) PROVE CliInv'
<1>1. UNCHANGED <<cvars, open, made, reload, calls, overlap>> /\ push' = [push EXCEPT ![p] = Idle]
  BY DEF Return
<1>2. push \in [Pushers -> LocalsOfPush \cup {Idle}] /\ Idle.pc = "idle"
  BY DEF CliInv, TypeOK, Idle
<1>3. push' \in [Pushers -> LocalsOfPush \cup {Idle}]
  BY <1>1, <1>2
<1>4. \A q \in Pushers : push'[q].pc # "idle" => Walks(push'[q])
  BY <1>1, <1>2 DEF CliInv
<1> QED
  BY <1>1, <1>3, <1>4, OnlyPush

LEMMA Appended ==
  ASSUME NEW S, NEW t \in Seq(S), NEW x \in S
  PROVE  /\ Len(Append(t, x)) = Len(t) + 1 /\ Append(t, x)[Len(t) + 1] = x
         /\ \A j \in 1 .. Len(t) : Append(t, x)[j] = t[j]
OBVIOUS

LEMMA TryKeeps ==
  ASSUME CliInv, NEW p \in Pushers, Try(p) PROVE CliInv'
<1> DEFINE l == push[p]
           c == arr[l.view.cap][l.i]
<1>1. l.pc = "walk" /\ UNCHANGED <<cvars, open, made, reload, calls, overlap>>
  BY DEF Try
<1>2. PICK o \in Outcomes(c) :
        push' = [push EXCEPT ![p] =
          [l EXCEPT !.tried = Append(l.tried, c[1]),
                    !.pc = IF o = "failed" /\ l.i < l.view.len THEN "walk" ELSE o,
                    !.i = IF o = "failed" /\ l.i < l.view.len THEN l.i + 1 ELSE l.i]]
  BY DEF Try
<1>3. o \in {"ok", "failed", "panic"}
  BY DEF Outcomes
<1> DEFINE more == o = "failed" /\ l.i < l.view.len
           new == [l EXCEPT !.tried = Append(l.tried, c[1]), !.pc = IF more THEN "walk" ELSE o,
                            !.i = IF more THEN l.i + 1 ELSE l.i]
<1>4. push \in [Pushers -> LocalsOfPush \cup {Idle}] /\ l \in LocalsOfPush /\ Walks(l)
  BY <1>1, LocalsAre DEF CliInv, TypeOK
<1>5. /\ l.view \in Slices /\ l.view.cap \in Caps /\ l.view.len \in Nat /\ l.view.len <= l.view.cap
      /\ l.i \in 1 .. 4 /\ l.i <= l.view.len /\ l.tried \in Seq(Transports \cup {"torn"})
      /\ l.stale \in BOOLEAN
  BY <1>1, <1>4, SliceShape DEF LocalsOfPush, Walks
<1>6. c \in Clients \cup {Torn}
  <2>1. c # None
    BY <1>4, <1>5 DEF Walks
  <2>2. arr[l.view.cap] \in [1 .. l.view.cap -> Clients \cup {None, Torn}] /\ l.i \in 1 .. l.view.cap
    <3>1. \A k \in Caps : arr[k] \in [1 .. k -> Clients \cup {None, Torn}]
      BY DEF CliInv, TypeOK
    <3> HIDE DEF l, c
    <3>2. l.i \in 1 .. l.view.cap
      BY <1>5 DEF Caps
    <3>3. arr[l.view.cap] \in [1 .. l.view.cap -> Clients \cup {None, Torn}]
      BY <1>5, <3>1
    <3> QED
      BY <3>2, <3>3
  <2> QED
    BY <2>1, <2>2
<1>7. c[1] \in Transports \cup {"torn"}
  BY <1>6, ClientKinds
<1>8. /\ new.pc = (IF more THEN "walk" ELSE o) /\ new.i = (IF more THEN l.i + 1 ELSE l.i)
      /\ new.tried = Append(l.tried, c[1]) /\ new.view = l.view /\ new.stale = l.stale
  BY <1>4 DEF LocalsOfPush
<1>9. new \in LocalsOfPush
  <2>1. Append(l.tried, c[1]) \in Seq(Transports \cup {"torn"})
    BY <1>5, <1>7
  <2>2. (IF more THEN l.i + 1 ELSE l.i) \in 1 .. 4
    BY <1>5 DEF Caps
  <2>3. (IF more THEN "walk" ELSE o) \in {"none", "walk", "ok", "failed", "panic"}
    BY <1>3
  <2> HIDE DEF c, more
  <2> QED
    BY <1>4, <2>1, <2>2, <2>3 DEF LocalsOfPush
<1>10. Walks(new)
  <2>1. ASSUME l.stale = FALSE
        PROVE  /\ Len(l.tried) = l.i - 1 /\ l.view = chain /\ lock = "free"
               /\ c = InOrder(cur)[l.i]
    <3>1. l.view = chain /\ Len(l.tried) = l.i - 1 /\ lock = "free"
      BY <2>1, <1>1, <1>4 DEF Walks
    <3>2. \A i \in 1 .. chain.len : arr[chain.cap][i] = InOrder(cur)[i]
      BY DEF CliInv, Rebuilt
    <3> QED
      BY <3>1, <3>2, <1>5
  <2>2. ASSUME l.stale = FALSE
        PROVE  /\ \A j \in 1 .. Len(new.tried) : new.tried[j] = InOrder(cur)[j][1]
               /\ Len(new.tried) = l.i
    <3>1. /\ Len(new.tried) = Len(l.tried) + 1 /\ new.tried[Len(l.tried) + 1] = c[1]
          /\ \A j \in 1 .. Len(l.tried) : new.tried[j] = l.tried[j]
      <4> DEFINE S == Transports \cup {"torn"}
      <4>1. l.tried \in Seq(S) /\ c[1] \in S
        BY <1>5, <1>7
      <4>2. new.tried = Append(l.tried, c[1])
        BY <1>8
      <4> HIDE DEF S, l, c, new
      <4> QED
        BY <4>1, <4>2, Appended
    <3>2. /\ \A j \in 1 .. Len(l.tried) : l.tried[j] = InOrder(cur)[j][1]
          /\ Len(l.tried) = l.i - 1 /\ c = InOrder(cur)[l.i]
      BY <2>1, <2>2, <1>4 DEF Walks
    <3>3. Len(new.tried) = l.i /\ l.i \in Nat /\ Len(l.tried) \in Nat
      <4>1. l.i \in 1 .. 4
        BY <1>5
      <4>2. Len(new.tried) = Len(l.tried) + 1
        BY <3>1
      <4>3. Len(l.tried) = l.i - 1
        BY <3>2
      <4> HIDE DEF l, c, new
      <4> QED
        BY <4>1, <4>2, <4>3
    <3> HIDE DEF l, new, c
    <3> QED
      BY <3>1, <3>2, <3>3
  <2> HIDE DEF new, c
  <2>3. /\ new.view.cap <= chain.cap
        /\ \A j \in 1 .. new.view.len : arr[new.view.cap][j] # None
        /\ new.pc = "walk" => new.i <= new.view.len
    BY <1>3, <1>4, <1>5, <1>8 DEF Walks
  <2>4. ASSUME new.stale = FALSE
        PROVE  /\ lock = "free" /\ new.view = chain
               /\ Len(new.tried) = (IF new.pc = "walk" THEN new.i - 1
                                    ELSE IF new.pc = "none" THEN 0 ELSE new.i)
               /\ Len(new.tried) <= chain.len
               /\ new.pc = "failed" => new.i = new.view.len
               /\ new.pc = "none" => new.view.len = 0
    <3>1. l.stale = FALSE
      BY <2>4, <1>8
    <3>2. lock = "free" /\ l.view = chain /\ Len(new.tried) = l.i
      BY <3>1, <2>1, <2>2
    <3>3. l.i <= l.view.len /\ l.i \in Nat /\ l.view.len \in Nat
      BY <1>5
    <3> HIDE DEF l, more
    <3>4. CASE more
      BY <3>2, <3>3, <3>4, <1>8 DEF more
    <3>5. CASE ~more
      BY <3>2, <3>3, <3>5, <1>3, <1>8 DEF more
    <3> QED
      BY <3>4, <3>5
  <2> QED
    BY <2>2, <2>3, <2>4, <1>8 DEF Walks
<1>11. push' \in [Pushers -> LocalsOfPush \cup {Idle}]
  BY <1>2, <1>4, <1>9
<1>12. \A q \in Pushers : push'[q].pc # "idle" => Walks(push'[q])
  BY <1>2, <1>4, <1>10 DEF CliInv
<1> QED
  BY <1>1, <1>11, <1>12, OnlyPush

-----------------------------------------------------------------------------
(* Reload.                                                                 *)

Under == {"commit", "rebuild", "close"}

\* A call of Reload that is under way has its local variables.
LEMMA ReloadLocals ==
  ASSUME TypeOK, NEW r \in Reloaders, reload[r].pc \in Under
  PROVE  /\ reload[r] \in LocalsOfReload
         /\ reload[r].old \in Modes /\ reload[r].new \in Modes
         /\ reload[r].had \in [Transports -> Clients \cup {None}]
         /\ reload[r].nats \in Clients \cup {None}
<1>1. reload[r] \in LocalsOfReload \cup {Idle, Panicked}
  BY DEF TypeOK
<1>2. reload[r] \in LocalsOfReload
  BY <1>1 DEF Idle, Panicked, Under
<1> QED
  BY <1>2 DEF LocalsOfReload

\* What a Reload may have made when it comes to its commit.
LEMMA ReloadMakes ==
  ASSUME NEW r \in Reloaders, Reload(r)
  PROVE  \E new \in Modes \ {mode}, n \in {None, NilNats, Nats(made + 1)} :
           /\ reload' = [reload EXCEPT ![r] =
                [pc |-> "commit", old |-> mode, new |-> new, had |-> cur, nats |-> n]]
           /\ n # None => "nats" \in new /\ cur["nats"] = None
           /\ \/ n \in {None, NilNats} /\ made' = made /\ open' = open
              \/ n = Nats(made + 1) /\ made' = made + 1 /\ open' = open \cup {made + 1}
<1> DEFINE wants(new) == "nats" \in new /\ cur["nats"] = None /\ MQConfigured
           nats(new, ok) == IF ~wants(new) THEN None ELSE IF ok THEN Nats(made + 1) ELSE NilNats
<1>1. PICK new \in Modes \ {mode}, ok \in {TRUE, ~MqMayFail} :
        /\ made' = IF wants(new) /\ ok THEN made + 1 ELSE made
        /\ open' = IF wants(new) /\ ok THEN open \cup {made + 1} ELSE open
        /\ reload' = [reload EXCEPT ![r] =
             [pc |-> "commit", old |-> mode, new |-> new, had |-> cur, nats |-> nats(new, ok)]]
  BY Zenon DEF Reload
<1>2. CASE ~wants(new)
  <2>1. nats(new, ok) = None /\ made' = made /\ open' = open
    BY <1>1, <1>2, Zenon
  <2> QED
    BY <1>1, <2>1, Zenon
<1>3. CASE wants(new) /\ ok
  <2>1. nats(new, ok) = Nats(made + 1) /\ made' = made + 1 /\ open' = open \cup {made + 1}
    BY <1>1, <1>3, Zenon
  <2> QED
    BY <1>1, <1>3, <2>1, Zenon
<1>4. CASE wants(new) /\ ~ok
  <2>1. nats(new, ok) = NilNats /\ made' = made /\ open' = open
    BY <1>1, <1>4, Zenon
  <2> QED
    BY <1>1, <1>4, <2>1, Zenon
<1> QED
  BY <1>2, <1>3, <1>4, Zenon

\* With nobody between commit and close, every NATS client is that of the chain.
LEMMA NothingInHand ==
  ASSUME CliInv, ~overlap, \A r \in Reloaders : reload[r].pc \in {"idle", "panic"}
  PROVE  /\ \A i \in 1 .. made : cur["nats"] = Nats(i) => i \in open
         /\ \A i \in open : Nats(i) = cur["nats"]
<1>1. \A r \in Reloaders : InHand(r) = {}
  BY DEF InHand
<1> QED
  BY <1>1 DEF CliInv, NatsAccounted

LEMMA ReloadKeeps ==
  ASSUME CliInv, NEW r \in Reloaders, Reload(r) PROVE CliInv'
<1>1. PICK new \in Modes \ {mode}, n \in {None, NilNats, Nats(made + 1)} :
        /\ reload' = [reload EXCEPT ![r] =
             [pc |-> "commit", old |-> mode, new |-> new, had |-> cur, nats |-> n]]
        /\ n # None => "nats" \in new /\ cur["nats"] = None
        /\ \/ n \in {None, NilNats} /\ made' = made /\ open' = open
           \/ n = Nats(made + 1) /\ made' = made + 1 /\ open' = open \cup {made + 1}
  BY ReloadMakes
<1>2. /\ reload[r].pc = "idle" /\ lock = "free" /\ calls < MaxReloads /\ calls' = calls + 1
      /\ UNCHANGED <<mode, cur, arr, chain, rest, half, lock, push>>
  BY DEF Reload, cvars
<1>3. ~overlap' => ~overlap /\ \A s \in Reloaders \ {r} : reload[s].pc = "idle"
  BY Zenon DEF Reload
<1>4. /\ TypeOK /\ made \in Nat /\ made >= 1 /\ made <= calls + 1 /\ calls \in Nat
      /\ MaxReloads \in Nat /\ open \subseteq 1 .. made
      /\ mode \in Modes /\ cur \in [Transports -> Clients \cup {None}]
      /\ reload \in [Reloaders -> LocalsOfReload \cup {Idle, Panicked}]
  BY CliAssumption DEF CliInv, TypeOK
<1> DEFINE l == [pc |-> "commit", old |-> mode, new |-> new, had |-> cur, nats |-> n]
<1>5. n \in Clients \cup {None} /\ (n # None => n[1] = "nats")
  <2>1. made + 1 \in 1 .. MaxReloads + 1
    BY <1>2, <1>4
  <2> QED
    BY <1>1, <2>1, ClientKinds DEF NilNats
<1>6. l \in LocalsOfReload
  BY <1>4, <1>5 DEF LocalsOfReload
<1>7. /\ reload'[r].pc = "commit" /\ reload'[r].old = mode /\ reload'[r].had = cur
      /\ reload'[r].new = new /\ reload'[r].nats = n
      /\ \A s \in Reloaders \ {r} : reload'[s] = reload[s]
      /\ reload' \in [Reloaders -> LocalsOfReload \cup {Idle, Panicked}]
  BY <1>1, <1>4, <1>6
<1> HIDE DEF l
<1>8. TypeOK' /\ (made <= calls + 1)'
  <2>1. open' \subseteq 1 .. made' /\ made' \in 1 .. MaxReloads + 1 /\ calls' \in 0 .. MaxReloads
        /\ made' <= calls' + 1
    <3>1. \/ made' = made /\ open' = open
          \/ made' = made + 1 /\ open' = open \cup {made + 1}
      BY <1>1
    <3>2. calls < MaxReloads /\ calls' = calls + 1
      BY <1>2
    <3>3. made \in Nat /\ made >= 1 /\ made <= calls + 1 /\ calls \in Nat /\ MaxReloads \in Nat
      BY <1>4
    <3>4. made' \in 1 .. MaxReloads + 1 /\ calls' \in 0 .. MaxReloads /\ made' <= calls' + 1
      BY <3>1, <3>2, <3>3
    <3>5. open' \subseteq 1 .. made'
      <4>1. ASSUME NEW i \in open PROVE i \in 1 .. made /\ i \in 1 .. made + 1
        BY <1>4, <3>3
      <4> QED
        BY <3>1, <3>3, <4>1
    <3> QED
      BY <3>4, <3>5
  <2>2. overlap' \in BOOLEAN
    BY Zenon DEF Reload
  <2> QED
    BY <1>2, <1>7, <2>1, <2>2 DEF CliInv, TypeOK
<1>9. Locked' /\ Rebuilt' /\ CurMatchesMode' /\ (\A p \in Pushers : push[p].pc # "idle" => Walks(push[p]))'
  <2>1. Locked'
    BY <1>2, <1>7, CliAssumption DEF CliInv, Locked
  <2> QED
    BY <2>1, <1>2 DEF CliInv, Rebuilt, CurMatchesMode, Walks
<1>10. (\A s \in Reloaders : reload[s].pc \in {"commit", "rebuild", "close"} => Snapshot(reload[s]))'
  <2>1. Snapshot(reload'[r])
    BY <1>1, <1>5, <1>7 DEF Snapshot, CliInv, CurMatchesMode
  <2> QED
    BY <2>1, <1>7 DEF CliInv, Snapshot
<1>11. ASSUME ~overlap'
       PROVE  /\ \A s \in Reloaders : reload[s].pc = "idle"
              /\ \A i \in 1 .. made : cur["nats"] = Nats(i) => i \in open
              /\ \A i \in open : Nats(i) = cur["nats"]
  BY <1>2, <1>3, <1>11, NothingInHand
<1>12. \A i \in 1 .. made' : n = Nats(i) => i \in open'
  BY <1>1, <1>4, ClientKinds, NatsDiffer
<1>13. (~overlap => Alone)'
  <2> SUFFICES ASSUME ~overlap' PROVE Alone'
    OBVIOUS
  <2>1. \A s \in Reloaders \ {r} : reload'[s].pc = "idle"
    BY <1>7, <1>11
  <2> QED
    BY <1>1, <1>2, <1>7, <1>12, <2>1 DEF Alone
<1>14. NatsAccounted'
  <2> SUFFICES ASSUME ~overlap'
               PROVE  /\ \A i \in 1 .. made' : cur'["nats"] = Nats(i) => i \in open'
                      /\ \A i \in open' : Nats(i) \in {cur'["nats"]} \cup UNION {InHand(s)' : s \in Reloaders}
    BY DEF NatsAccounted
  <2>1. InHand(r)' = {n}
    BY <1>7 DEF InHand
  <2>2. \A i \in 1 .. made' : cur'["nats"] = Nats(i) => i \in open'
    BY <1>1, <1>2, <1>4, <1>11, ClientKinds
  <2>3. \A i \in open' : Nats(i) = cur'["nats"] \/ Nats(i) \in InHand(r)'
    BY <1>1, <1>2, <1>11, <2>1
  <2> QED
    BY <2>2, <2>3
<1> QED
  BY <1>8, <1>9, <1>10, <1>13, <1>14 DEF CliInv

\* A Reload ends and closes the client c: it drops what it has made, or the client
\* that its mode does not have any more.
LEMMA CloseKeeps ==
  ASSUME CliInv, NEW r \in Reloaders, NEW c, reload[r].pc \in {"commit", "close"}, Close(r, c),
         UNCHANGED <<cvars, made, push, calls, overlap>>,
         ~overlap => reload[r].pc = "close" /\ c = reload[r].had["nats"]
  PROVE  CliInv'
<1>1. UNCHANGED <<mode, cur, arr, chain, rest, half, lock, made, push, calls, overlap>>
  BY DEF cvars
<1>2. /\ TypeOK /\ open \subseteq 1 .. made
      /\ reload \in [Reloaders -> LocalsOfReload \cup {Idle, Panicked}]
  BY DEF CliInv, TypeOK
<1>3. /\ reload'[r] \in {Idle, Panicked} /\ reload'[r].pc \in {"idle", "panic"}
      /\ \A s \in Reloaders \ {r} : reload'[s] = reload[s]
      /\ reload' \in [Reloaders -> LocalsOfReload \cup {Idle, Panicked}]
  <2>1. \/ reload' = [reload EXCEPT ![r] = Idle]
        \/ reload' = [reload EXCEPT ![r] = Panicked]
    BY DEF Close, Finish
  <2>2. Idle.pc = "idle" /\ Panicked.pc = "panic"
    BY DEF Idle, Panicked
  <2> QED
    BY <1>2, <2>1, <2>2
<1>4. open' = open \ {i \in open : c = Nats(i)}
  BY DEF Close
<1>5. TypeOK' /\ (made <= calls + 1)'
  BY <1>1, <1>2, <1>3, <1>4 DEF CliInv, TypeOK
<1>6. Locked' /\ Rebuilt' /\ CurMatchesMode' /\ (\A p \in Pushers : push[p].pc # "idle" => Walks(push[p]))'
  <2>1. Locked'
    BY <1>1, <1>3 DEF CliInv, Locked
  <2> QED
    BY <2>1, <1>1 DEF CliInv, Rebuilt, CurMatchesMode, Walks
<1>7. (\A s \in Reloaders : reload[s].pc \in {"commit", "rebuild", "close"} => Snapshot(reload[s]))'
  BY <1>3 DEF CliInv, Snapshot
<1>8. ASSUME ~overlap
      PROVE  Alone /\ cur["nats"] = None /\ InHand(r) = {c} /\ \A s \in Reloaders \ {r} : InHand(s) = {} /\ reload[s].pc = "idle"
  <2>1. Alone /\ reload[r].pc = "close" /\ c = reload[r].had["nats"]
    BY <1>8 DEF CliInv
  <2>2. Snapshot(reload[r]) /\ reload[r].new = mode
    BY <2>1 DEF CliInv, Alone
  <2>3. "nats" \notin mode
    BY <2>1, <2>2 DEF Snapshot
  <2>4. cur["nats"] = None
    BY <2>3 DEF CliInv, CurMatchesMode, Transports
  <2>5. \A s \in Reloaders \ {r} : reload[s].pc = "idle"
    BY <2>1 DEF Alone
  <2>6. InHand(r) = {c} /\ \A s \in Reloaders \ {r} : InHand(s) = {}
    BY <2>1, <2>5 DEF InHand
  <2> QED
    BY <2>1, <2>4, <2>5, <2>6
<1>9. (~overlap => Alone)'
  <2> SUFFICES ASSUME ~overlap PROVE Alone'
    BY <1>1
  <2>1. \A s \in Reloaders \ {r} : reload'[s].pc = "idle"
    BY <1>3, <1>8
  <2> QED
    BY <1>3, <2>1 DEF Alone
<1>10. NatsAccounted'
  <2> SUFFICES ASSUME ~overlap
               PROVE  /\ \A i \in 1 .. made : cur["nats"] = Nats(i) => i \in open'
                      /\ \A i \in open' : Nats(i) \in {cur["nats"]} \cup UNION {InHand(s)' : s \in Reloaders}
    BY <1>1 DEF NatsAccounted
  <2>1. \A i \in open : Nats(i) \in {c}
    <3>1. \A i \in open : Nats(i) \in {cur["nats"]} \cup UNION {InHand(s) : s \in Reloaders}
      BY DEF CliInv, NatsAccounted
    <3> QED
      BY <3>1, <1>8, ClientKinds
  <2>2. open' = {}
    BY <1>4, <2>1
  <2> QED
    BY <2>2, <1>8, ClientKinds
<1> QED
  BY <1>5, <1>6, <1>7, <1>9, <1>10 DEF CliInv

LEMMA DiscardKeeps ==
  ASSUME CliInv, NEW r \in Reloaders, Discard(r) PROVE CliInv'
<1>1. ~overlap => reload[r].old = mode
  BY DEF CliInv, Alone, Discard
<1> QED
  BY <1>1, CloseKeeps DEF Discard

LEMMA CloseOldKeeps ==
  ASSUME CliInv, NEW r \in Reloaders, CloseOld(r) PROVE CliInv'
BY CloseKeeps DEF CloseOld

\* The commit of a Reload: from here to its Unlock it has the lock.
LEMMA CommitKeeps ==
  ASSUME CliInv, NEW r \in Reloaders, Commit(r) PROVE CliInv'
<1> DEFINE l == reload[r]
<1>1. /\ l.pc = "commit" /\ lock = "free" /\ mode = l.old /\ lock' = r /\ mode' = l.new
      /\ cur' = [t \in Transports |-> Kept(l, t)] /\ rest' = InOrder(cur')
      /\ UNCHANGED <<arr, half, open, made, calls, overlap>>
  BY DEF Commit
<1>2. /\ TypeOK /\ reload \in [Reloaders -> LocalsOfReload \cup {Idle, Panicked}]
      /\ chain \in Slices /\ push \in [Pushers -> LocalsOfPush \cup {Idle}]
  BY DEF CliInv, TypeOK
<1>3. /\ l \in LocalsOfReload /\ l.new \in Modes /\ l.had \in [Transports -> Clients \cup {None}]
      /\ l.nats \in Clients \cup {None} /\ Snapshot(l)
  BY <1>1, <1>2, ReloadLocals DEF Under, CliInv
<1>4. /\ reload'[r] = [l EXCEPT !.pc = "rebuild"]
      /\ \A s \in Reloaders \ {r} : reload'[s] = reload[s]
  BY <1>2 DEF Commit, Finish
<1>5. /\ reload'[r] \in LocalsOfReload /\ reload'[r].pc = "rebuild" /\ reload'[r].old = l.old
      /\ reload'[r].new = l.new /\ reload'[r].had = l.had /\ reload'[r].nats = l.nats
  BY <1>3, <1>4 DEF LocalsOfReload
<1>6. reload' \in [Reloaders -> LocalsOfReload \cup {Idle, Panicked}]
  <2>1. reload' = [reload EXCEPT ![r] = reload'[r]]
    BY <1>2 DEF Commit, Finish
  <2> QED
    BY <1>2, <1>5, <2>1
<1>7. chain' \in Slices /\ chain'.len = 0 /\ chain'.cap = chain.cap
  <2>1. chain' = [chain EXCEPT !.len = 0]
    BY DEF Commit
  <2>2. chain.cap \in Caps /\ chain = [cap |-> chain.cap, len |-> chain.len]
    BY <1>2 DEF Slices
  <2>3. chain' = [cap |-> chain.cap, len |-> 0]
    BY <2>1, <2>2
  <2> QED
    BY <2>2, <2>3, SliceShape DEF Caps
<1>8. \A p \in Pushers :
        /\ push[p].pc = "idle" => push'[p] = Idle
        /\ push[p].pc # "idle" =>
             /\ push'[p] \in LocalsOfPush /\ push'[p].pc = push[p].pc /\ push'[p].stale = TRUE
             /\ push'[p].view = push[p].view /\ push'[p].i = push[p].i
  <2> TAKE p \in Pushers
  <2>1. push'[p] = IF push[p].pc = "idle" THEN Idle ELSE [push[p] EXCEPT !.stale = TRUE]
    BY DEF Commit
  <2>2. push[p].pc # "idle" => push[p] \in LocalsOfPush
    BY <1>2, LocalsAre
  <2> QED
    BY <2>1, <2>2 DEF LocalsOfPush
<1>9. push' \in [Pushers -> LocalsOfPush \cup {Idle}]
  <2>1. push' = [p \in Pushers |-> push'[p]]
    BY DEF Commit
  <2>2. \A p \in Pushers : push'[p] \in LocalsOfPush \cup {Idle}
    BY <1>8
  <2> QED
    BY <2>1, <2>2
<1> HIDE DEF l
<1>10. cur' \in [Transports -> Clients \cup {None}]
       /\ (\A t \in Transports : cur'[t] # None => t \in l.new /\ cur'[t][1] = t)
       /\ (\A t \in l.new \ {"nats"} : cur'[t] # None)
  <2>1. \A t \in Transports : Kept(l, t) \in Clients \cup {None}
    BY <1>3, ClientKinds DEF Kept, Transports
  <2>2. \A t \in Transports : Kept(l, t) # None => t \in l.new /\ Kept(l, t)[1] = t
    BY <1>3, ClientKinds DEF Kept, Snapshot
  <2>3. \A t \in l.new \ {"nats"} : Kept(l, t) # None
    BY <1>3, ClientKinds DEF Kept, Modes
  <2>4. l.new \subseteq Transports
    BY <1>3 DEF Modes
  <2> QED
    BY <1>1, <2>1, <2>2, <2>3, <2>4
<1>11. /\ rest' \in Seq(Clients) /\ Len(rest') \in Nat
  BY <1>1, <1>10, InOrderShape
<1>12. TypeOK' /\ (made <= calls + 1)'
  BY <1>1, <1>3, <1>6, <1>7, <1>9, <1>10, <1>11 DEF CliInv, TypeOK
<1>13. Locked'
  <2>1. half = FALSE /\ \A s \in Reloaders : reload[s].pc # "rebuild"
    BY <1>1, CliAssumption DEF CliInv, Locked
  <2> QED
    BY <1>1, <1>4, <1>5, <2>1, CliAssumption DEF Locked
<1>14. Rebuilt'
  BY <1>1, <1>7, <1>11 DEF Rebuilt
<1>15. (\A s \in Reloaders : reload[s].pc \in {"commit", "rebuild", "close"} => Snapshot(reload[s]))'
  <2>1. Snapshot(reload'[r])
    BY <1>3, <1>5 DEF Snapshot
  <2>2. \A s \in Reloaders \ {r} : reload'[s] = reload[s]
    BY <1>4
  <2> QED
    BY <2>1, <2>2 DEF CliInv, Snapshot
<1>16. CurMatchesMode'
  BY <1>1, <1>10 DEF CurMatchesMode
<1>17. (\A p \in Pushers : push[p].pc # "idle" => Walks(push[p]))'
  <2> SUFFICES ASSUME NEW p \in Pushers, push'[p].pc # "idle" PROVE Walks(push[p])'
    BY DEF Walks
  <2>1. push[p].pc # "idle"
    BY <1>8 DEF Idle
  <2>2. Walks(push[p])
    BY <2>1 DEF CliInv
  <2> QED
    BY <1>1, <1>7, <1>8, <2>1, <2>2 DEF Walks
<1>18. ASSUME ~overlap
       PROVE  Alone /\ \A s \in Reloaders \ {r} : reload[s].pc = "idle"
  BY <1>1, <1>18 DEF CliInv, Alone, l
<1>19. (~overlap => Alone)'
  <2> SUFFICES ASSUME ~overlap PROVE Alone'
    BY <1>1
  <2>1. \A s \in Reloaders \ {r} : reload'[s].pc = "idle"
    BY <1>4, <1>18
  <2> QED
    BY <1>1, <1>5, <2>1 DEF Alone
<1>20. NatsAccounted'
  <2> SUFFICES ASSUME ~overlap
               PROVE  /\ \A i \in 1 .. made : cur'["nats"] = Nats(i) => i \in open
                      /\ \A i \in open : Nats(i) \in {cur'["nats"]} \cup UNION {InHand(s)' : s \in Reloaders}
    BY <1>1 DEF NatsAccounted
  <2>1. /\ l.had = cur /\ \A i \in 1 .. made : l.nats = Nats(i) => i \in open
        /\ l.nats # None => cur["nats"] = None
    BY <1>1, <1>18 DEF Alone, l
  <2>2. InHand(r) = {l.nats} /\ \A s \in Reloaders \ {r} : InHand(s) = {}
    BY <1>1, <1>18 DEF InHand, l
  <2>3. /\ \A i \in 1 .. made : cur["nats"] = Nats(i) => i \in open
        /\ \A i \in open : Nats(i) = cur["nats"] \/ Nats(i) = l.nats
    BY <2>2 DEF CliInv, NatsAccounted
  <2>4. cur'["nats"] = Kept(l, "nats")
    BY <1>1 DEF Transports
  <2>5. CASE "nats" \in l.new
    <3>1. cur'["nats"] = IF cur["nats"] # None THEN cur["nats"] ELSE l.nats
      BY <2>1, <2>4, <2>5 DEF Kept
    <3> QED
      BY <2>1, <2>3, <3>1, ClientKinds
  <2>6. CASE "nats" \notin l.new
    <3>1. cur'["nats"] = None /\ l.nats = None
      BY <2>4, <2>6, <1>3 DEF Kept, Snapshot
    <3>2. InHand(r)' = {cur["nats"]}
      BY <1>1, <1>5, <2>1, <2>6 DEF InHand
    <3> QED
      BY <2>3, <3>1, <3>2, ClientKinds
  <2> QED
    BY <2>5, <2>6
<1> QED
  BY <1>12, <1>13, <1>14, <1>15, <1>16, <1>17, <1>19, <1>20 DEF CliInv

-----------------------------------------------------------------------------
(* rebuildChain.                                                           *)

\* What does not speak of the chain stays while the lock is held.
LEMMA OnlyChain ==
  ASSUME CliInv, lock # "free", UNCHANGED <<mode, cur, lock, open, made, reload, push, calls, overlap>>,
         DOMAIN arr' = Caps, \A k \in Caps : arr'[k] \in [1 .. k -> Clients \cup {None, Torn}],
         chain' \in Slices, rest' \in Seq(Clients), half' \in BOOLEAN,
         half' = TRUE => rest' # <<>> /\ chain'.len < chain'.cap,
         chain.cap <= chain'.cap,
         \A k \in Caps : k <= chain.cap =>
           \A j \in 1 .. k : arr'[k][j] = arr[k][j] \/ arr'[k][j] # None,
         Rebuilt'
  PROVE  CliInv'
<1>1. TypeOK' /\ (made <= calls + 1)'
  BY DEF CliInv, TypeOK
<1>2. Locked'
  BY DEF CliInv, Locked
<1>3. CurMatchesMode' /\ (\A s \in Reloaders : reload[s].pc \in {"commit", "rebuild", "close"} => Snapshot(reload[s]))'
  BY DEF CliInv, CurMatchesMode, Snapshot
<1>4. (~overlap => Alone)' /\ NatsAccounted'
  BY DEF CliInv, Alone, NatsAccounted, InHand
<1>5. (\A p \in Pushers : push[p].pc # "idle" => Walks(push[p]))'
  <2> SUFFICES ASSUME NEW p \in Pushers, push[p].pc # "idle" PROVE Walks(push[p])'
    BY DEF Walks
  <2> DEFINE l == push[p]
  <2>1. l \in LocalsOfPush /\ Walks(l) /\ l.view \in Slices /\ l.stale \in BOOLEAN
    BY LocalsAre DEF CliInv, LocalsOfPush
  <2>2. l.view.cap \in Caps /\ l.view.len \in Nat /\ l.view.len <= l.view.cap
    BY <2>1, SliceShape
  <2>3. l.stale = TRUE /\ l.view.cap <= chain.cap /\ (l.pc = "walk" => l.i <= l.view.len)
        /\ \A j \in 1 .. l.view.len : arr[l.view.cap][j] # None
    BY <2>1 DEF Walks
  <2>4. chain.cap \in Caps /\ chain'.cap \in Caps
    BY ChainSlots, SliceShape
  <2> HIDE DEF l
  <2>5. l.view.cap <= chain'.cap
    BY <2>2, <2>3, <2>4 DEF Caps
  <2>6. \A j \in 1 .. l.view.len : arr'[l.view.cap][j] # None
    <3> TAKE j \in 1 .. l.view.len
    <3>1. j \in 1 .. l.view.cap
      BY <2>2 DEF Caps
    <3> QED
      BY <2>2, <2>3, <3>1
  <2>7. Walks(l)'
    BY <2>3, <2>5, <2>6 DEF Walks, l
  <2> QED
    BY <2>7 DEF l
<1> QED
  BY <1>1, <1>2, <1>3, <1>4, <1>5 DEF CliInv

\* What is left to append while the lock is held.
LEMMA RestShape ==
  ASSUME CliInv, rest # <<>>
  PROVE  /\ rest \in Seq(Clients) /\ Len(rest) \in Nat /\ Len(rest) >= 1 /\ chain.len + Len(rest) <= 3
         /\ Head(rest) = rest[1] /\ rest[1] \in Clients /\ rest[1] = InOrder(cur)[chain.len + 1]
         /\ Tail(rest) \in Seq(Clients) /\ Len(Tail(rest)) = Len(rest) - 1
         /\ \A i \in 1 .. Len(rest) - 1 : Tail(rest)[i] = InOrder(cur)[chain.len + 1 + i]
         /\ chain.len + Len(rest) = Len(InOrder(cur))
<1>1. cur \in [Transports -> Clients \cup {None}] /\ rest \in Seq(Clients)
  BY DEF CliInv, TypeOK
<1>2. Len(InOrder(cur)) \in 0 .. 3
  BY <1>1, InOrderShape
<1>3. chain.len \in Nat
  BY ChainSlots
<1>4. /\ chain.len + Len(rest) = Len(InOrder(cur))
      /\ \A i \in 1 .. Len(rest) : rest[i] = InOrder(cur)[chain.len + i]
  BY DEF CliInv, Rebuilt
<1>5. Len(rest) \in Nat /\ Len(rest) >= 1 /\ Head(rest) = rest[1] /\ rest[1] \in Clients
  BY <1>1
<1>6. /\ Tail(rest) \in Seq(Clients) /\ Len(Tail(rest)) = Len(rest) - 1
      /\ \A i \in 1 .. Len(rest) - 1 : Tail(rest)[i] = rest[i + 1]
  BY <1>1
<1>7. \A i \in 1 .. Len(rest) - 1 : Tail(rest)[i] = InOrder(cur)[chain.len + 1 + i]
  <2> TAKE i \in 1 .. Len(rest) - 1
  <2>1. i + 1 \in 1 .. Len(rest) /\ chain.len + (i + 1) = chain.len + 1 + i
    BY <1>3, <1>5
  <2>2. rest[i + 1] = InOrder(cur)[chain.len + (i + 1)]
    BY <2>1, <1>4
  <2> QED
    BY <1>6, <2>1, <2>2
<1>8. chain.len + Len(rest) <= 3
  BY <1>2, <1>3, <1>4
<1> QED
  BY <1>1, <1>4, <1>5, <1>6, <1>7, <1>8

LEMMA AppendInPlaceKeeps ==
  ASSUME CliInv, NEW r \in Reloaders, AppendInPlace(r) PROVE CliInv'
<1> DEFINE k == chain.cap
           i == chain.len + 1
<1>1. /\ lock = r /\ rest # <<>> /\ i <= k
      /\ UNCHANGED <<mode, cur, lock, open, made, reload, push, calls, overlap>>
  BY DEF AppendInPlace
<1>2. /\ chain \in Slices /\ k \in Caps /\ chain.len \in Nat /\ chain = [cap |-> k, len |-> chain.len]
      /\ \A n \in Caps : arr[n] \in [1 .. n -> Clients \cup {None, Torn}]
      /\ i \in 1 .. k
  <2>1. chain \in Slices /\ k \in Caps /\ chain.len \in Nat
    BY ChainSlots
  <2>2. chain = [cap |-> k, len |-> chain.len]
    BY <2>1 DEF Slices
  <2>3. i \in 1 .. k
    BY <2>1, <1>1 DEF Caps
  <2> QED
    BY <2>1, <2>2, <2>3 DEF CliInv, TypeOK
<1>3. PICK x \in {Head(rest), Torn} :
        /\ arr' = [arr EXCEPT ![k][i] = x]
        /\ \/ x = Head(rest) /\ chain' = [chain EXCEPT !.len = i] /\ rest' = Tail(rest) /\ half' = FALSE
           \/ half' = TRUE /\ UNCHANGED <<chain, rest>>
  BY Zenon DEF AppendInPlace
<1>4. x \in Clients \cup {Torn} /\ x # None
  BY <1>1, <1>3, RestShape, ClientKinds
<1> HIDE DEF i, k
<1>5. /\ DOMAIN arr' = Caps /\ arr'[k] = [arr[k] EXCEPT ![i] = x]
      /\ \A n \in Caps \ {k} : arr'[n] = arr[n]
  <2>1. DOMAIN arr = Caps
    BY DEF CliInv, TypeOK
  <2> QED
    BY <1>2, <1>3, <2>1
<1>6. /\ arr'[k][i] = x /\ arr'[k] \in [1 .. k -> Clients \cup {None, Torn}]
      /\ \A j \in 1 .. k : j # i => arr'[k][j] = arr[k][j]
  BY <1>2, <1>4, <1>5
<1>7. \A n \in Caps : arr'[n] \in [1 .. n -> Clients \cup {None, Torn}]
  BY <1>2, <1>5, <1>6
<1>8. \A n \in Caps : \A j \in 1 .. n : arr'[n][j] = arr[n][j] \/ arr'[n][j] # None
  BY <1>4, <1>5, <1>6
<1>9. \A j \in 1 .. chain.len : arr'[k][j] = InOrder(cur)[j]
  <2>1. \A j \in 1 .. chain.len : arr[k][j] = InOrder(cur)[j]
    BY DEF CliInv, Rebuilt, k
  <2>2. \A j \in 1 .. chain.len : j \in 1 .. k /\ j # i
    BY <1>1, <1>2 DEF i, k, Caps
  <2> QED
    BY <2>1, <2>2, <1>6
<1>10. lock # "free"
  BY <1>1, CliAssumption
<1>11. CASE x = Head(rest) /\ chain' = [chain EXCEPT !.len = i] /\ rest' = Tail(rest) /\ half' = FALSE
  <2>1. chain' = [cap |-> k, len |-> i]
    BY <1>2, <1>11
  <2>2. chain' \in Slices /\ chain'.cap = k /\ chain'.len = i
    BY <1>2, <2>1, SliceShape DEF Caps
  <2>3. Rebuilt'
    <3>1. \A j \in 1 .. i : arr'[k][j] = InOrder(cur)[j]
      <4>1. arr'[k][i] = InOrder(cur)[i]
        BY <1>1, <1>6, <1>11, RestShape DEF i
      <4> QED
        BY <4>1, <1>2, <1>9 DEF i
    <3>2. i + Len(rest') = Len(InOrder(cur))
      BY <1>1, <1>2, <1>11, RestShape DEF i
    <3>3. \A j \in 1 .. Len(rest') : rest'[j] = InOrder(cur)[i + j]
      BY <1>1, <1>11, RestShape DEF i
    <3> QED
      BY <1>1, <2>2, <3>1, <3>2, <3>3 DEF Rebuilt
  <2>4. rest' \in Seq(Clients)
    BY <1>1, <1>11, RestShape
  <2>5. chain.cap <= chain'.cap
    BY <1>2, <2>2 DEF k, Caps
  <2> QED
    BY <1>1, <1>5, <1>7, <1>8, <1>10, <1>11, <2>2, <2>3, <2>4, <2>5, OnlyChain
<1>12. CASE half' = TRUE /\ UNCHANGED <<chain, rest>>
  <2>1. Rebuilt'
    BY <1>1, <1>9, <1>12 DEF CliInv, Rebuilt, k
  <2>2. rest' \in Seq(Clients) /\ rest' # <<>> /\ chain'.len < chain'.cap /\ chain.cap <= chain'.cap
    BY <1>1, <1>2, <1>12, RestShape DEF i, k, Caps
  <2> QED
    BY <1>1, <1>2, <1>5, <1>7, <1>8, <1>10, <1>12, <2>1, <2>2, OnlyChain
<1> QED
  BY <1>3, <1>11, <1>12

LEMMA AppendGrowsKeeps ==
  ASSUME CliInv, NEW r \in Reloaders, AppendGrows(r) PROVE CliInv'
<1> DEFINE k == chain.cap
           i == chain.len + 1
           g == Grown(k)
           bigger == [j \in 1 .. g |-> IF j < i THEN arr[k][j] ELSE IF j = i THEN Head(rest) ELSE None]
<1>1. /\ lock = r /\ rest # <<>> /\ i > k
      /\ arr' = [arr EXCEPT ![g] = bigger] /\ chain' = [cap |-> g, len |-> i] /\ rest' = Tail(rest)
      /\ UNCHANGED <<mode, cur, half, lock, open, made, reload, push, calls, overlap>>
  BY DEF AppendGrows
<1>2. /\ chain \in Slices /\ k \in Caps /\ chain.len \in Nat /\ chain.len <= k
      /\ DOMAIN arr = Caps /\ \A n \in Caps : arr[n] \in [1 .. n -> Clients \cup {None, Torn}]
  BY ChainSlots DEF CliInv, TypeOK
<1>3. chain.len = k /\ k \in {0, 1, 2} /\ i = k + 1
  <2>1. chain.len + Len(rest) <= 3 /\ Len(rest) >= 1 /\ Len(rest) \in Nat
    BY <1>1, RestShape
  <2> QED
    BY <1>1, <1>2, <2>1 DEF Caps
<1> HIDE DEF bigger, g
<1>4. g \in Caps /\ g > k /\ i \in 1 .. g /\ k < g
  BY <1>3, GrownCaps DEF g, Caps
<1>5. Head(rest) \in Clients /\ Head(rest) # None /\ Head(rest) = InOrder(cur)[i]
  BY <1>1, RestShape, ClientKinds
<1> HIDE DEF i, k
<1>6. /\ bigger \in [1 .. g -> Clients \cup {None, Torn}]
      /\ \A j \in 1 .. k : bigger[j] = arr[k][j]
      /\ bigger[i] = InOrder(cur)[i]
  <2>1. k \in Nat /\ g \in Nat /\ i = k + 1 /\ i <= g
    BY <1>3, <1>4 DEF Caps
  <2>2. \A j \in 1 .. k : j < i /\ j \in 1 .. g
    BY <2>1
  <2>3. \A j \in 1 .. g : j < i => j \in 1 .. k
    BY <2>1
  <2>4. ASSUME NEW j \in 1 .. g PROVE bigger[j] \in Clients \cup {None, Torn}
    <3>1. bigger[j] = IF j < i THEN arr[k][j] ELSE IF j = i THEN Head(rest) ELSE None
      BY DEF bigger
    <3>2. j < i => arr[k][j] \in Clients \cup {None, Torn}
      BY <1>2, <2>3
    <3> QED
      BY <3>1, <3>2, <1>5
  <2>5. bigger = [j \in 1 .. g |-> bigger[j]]
    BY DEF bigger
  <2>6. \A j \in 1 .. k : bigger[j] = arr[k][j]
    BY <2>2 DEF bigger
  <2>7. bigger[i] = InOrder(cur)[i]
    BY <2>1, <1>4, <1>5 DEF bigger
  <2> QED
    BY <2>4, <2>5, <2>6, <2>7
<1>7. /\ DOMAIN arr' = Caps /\ arr'[g] = bigger /\ \A n \in Caps : n # g => arr'[n] = arr[n]
  BY <1>1, <1>2, <1>4
<1>8. /\ \A n \in Caps : arr'[n] \in [1 .. n -> Clients \cup {None, Torn}]
      /\ \A n \in Caps : n <= k => arr'[n] = arr[n]
  <2>1. \A n \in Caps : n <= k => n # g
    BY <1>3, <1>4 DEF Caps
  <2> QED
    BY <1>2, <1>6, <1>7, <2>1
<1>9. chain' \in Slices /\ chain'.cap = g /\ chain'.len = i
  BY <1>1, <1>4, SliceShape DEF Caps
<1>10. Rebuilt'
  <2>1. \A j \in 1 .. i : arr'[g][j] = InOrder(cur)[j]
    <3>1. \A j \in 1 .. k : arr[k][j] = InOrder(cur)[j]
      BY <1>3 DEF CliInv, Rebuilt, k
    <3> QED
      BY <1>3, <1>6, <1>7, <3>1
  <2>2. i + Len(rest') = Len(InOrder(cur))
    BY <1>1, <1>2, RestShape DEF i
  <2>3. \A j \in 1 .. Len(rest') : rest'[j] = InOrder(cur)[i + j]
    BY <1>1, RestShape DEF i
  <2> QED
    BY <1>1, <1>9, <2>1, <2>2, <2>3 DEF Rebuilt
<1>11. half' = FALSE
  BY <1>1, <1>3 DEF CliInv, Locked, TypeOK, k
<1>12. rest' \in Seq(Clients) /\ lock # "free" /\ chain.cap <= chain'.cap
  BY <1>1, <1>3, <1>4, <1>9, RestShape, CliAssumption DEF k, Caps
<1> QED
  BY <1>1, <1>7, <1>8, <1>9, <1>10, <1>11, <1>12, OnlyChain DEF k

LEMMA UnlockKeeps ==
  ASSUME CliInv, NEW r \in Reloaders, Unlock(r) PROVE CliInv'
<1> DEFINE l == reload[r]
           next == IF "nats" \in l.old \ l.new THEN [l EXCEPT !.pc = "close"] ELSE Idle
<1>1. /\ lock = r /\ rest = <<>> /\ lock' = "free" /\ reload' = [reload EXCEPT ![r] = next]
      /\ UNCHANGED <<mode, cur, arr, chain, rest, half, open, made, push, calls, overlap>>
  BY DEF Unlock, Finish
<1>2. TypeOK /\ reload \in [Reloaders -> LocalsOfReload \cup {Idle, Panicked}]
  BY DEF CliInv, TypeOK
<1>3. l.pc = "rebuild" /\ l \in LocalsOfReload /\ Snapshot(l)
  <2>1. l.pc = "rebuild"
    BY <1>1 DEF CliInv, Locked
  <2> QED
    BY <2>1, <1>2, ReloadLocals DEF Under, CliInv
<1>4. \/ /\ "nats" \in l.old \ l.new /\ next \in LocalsOfReload /\ next.pc = "close"
         /\ next.old = l.old /\ next.new = l.new /\ next.had = l.had /\ next.nats = l.nats
      \/ "nats" \notin l.old \ l.new /\ next = Idle /\ next.pc = "idle"
  BY <1>3 DEF LocalsOfReload, Idle
<1> HIDE DEF next, l
<1>5. /\ reload'[r] = next /\ \A s \in Reloaders \ {r} : reload'[s] = reload[s]
      /\ reload' \in [Reloaders -> LocalsOfReload \cup {Idle, Panicked}]
  BY <1>1, <1>2, <1>4
<1>6. TypeOK' /\ (made <= calls + 1)'
  BY <1>1, <1>5 DEF CliInv, TypeOK
<1>7. Locked'
  <2>1. \A s \in Reloaders \ {r} : reload'[s].pc # "rebuild"
    BY <1>1, <1>5 DEF CliInv, Locked
  <2>2. reload'[r].pc # "rebuild"
    BY <1>4, <1>5
  <2>3. half = FALSE
    BY <1>1 DEF CliInv, Locked, TypeOK
  <2> QED
    BY <1>1, <2>1, <2>2, <2>3, CliAssumption DEF Locked
<1>8. Rebuilt' /\ CurMatchesMode'
  BY <1>1 DEF CliInv, Rebuilt, CurMatchesMode
<1>9. (\A s \in Reloaders : reload[s].pc \in {"commit", "rebuild", "close"} => Snapshot(reload[s]))'
  <2>1. next.pc = "close" => Snapshot(next)
    BY <1>3, <1>4 DEF Snapshot
  <2> QED
    BY <2>1, <1>4, <1>5 DEF CliInv, Snapshot
<1>10. (\A p \in Pushers : push[p].pc # "idle" => Walks(push[p]))'
  <2> SUFFICES ASSUME NEW p \in Pushers, push[p].pc # "idle" PROVE Walks(push[p])'
    BY <1>1 DEF Walks
  <2>1. Walks(push[p]) /\ push[p].stale # FALSE
    BY <1>1, CliAssumption DEF CliInv, Walks
  <2> QED
    BY <2>1, <1>1 DEF Walks
<1>11. ASSUME ~overlap
       PROVE  Alone /\ l.new = mode /\ \A s \in Reloaders \ {r} : reload[s].pc = "idle"
  BY <1>3, <1>11 DEF CliInv, Alone, l
<1>12. (~overlap => Alone)'
  <2> SUFFICES ASSUME ~overlap PROVE Alone'
    BY <1>1
  <2>1. \A s \in Reloaders \ {r} : reload'[s].pc = "idle"
    BY <1>5, <1>11
  <2>2. next.pc \in {"idle", "close"} /\ (next.pc = "close" => next.new = mode)
    BY <1>4, <1>11
  <2> QED
    BY <1>1, <1>5, <2>1, <2>2 DEF Alone
<1>13. NatsAccounted'
  <2> SUFFICES ASSUME ~overlap
               PROVE  /\ \A i \in 1 .. made : cur["nats"] = Nats(i) => i \in open
                      /\ \A i \in open : Nats(i) \in {cur["nats"]} \cup UNION {InHand(s)' : s \in Reloaders}
    BY <1>1 DEF NatsAccounted
  <2>1. \A s \in Reloaders \ {r} : InHand(s) = {}
    BY <1>11 DEF InHand
  <2>2. InHand(r) = IF "nats" \notin l.new THEN {l.had["nats"]} ELSE {}
    BY <1>3, <1>11 DEF InHand, l
  <2>3. /\ \A i \in 1 .. made : cur["nats"] = Nats(i) => i \in open
        /\ \A i \in open : Nats(i) = cur["nats"] \/ Nats(i) \in InHand(r)
    BY <2>1 DEF CliInv, NatsAccounted
  <2>4. CASE "nats" \in l.old \ l.new
    <3>1. InHand(r)' = {l.had["nats"]}
      BY <2>4, <1>4, <1>5 DEF InHand
    <3> QED
      BY <2>2, <2>3, <2>4, <3>1
  <2>5. CASE "nats" \in l.new
    BY <2>2, <2>3, <2>5
  <2>6. CASE "nats" \notin l.old /\ "nats" \notin l.new
    <3>1. l.had["nats"] = None
      BY <1>3, <2>6 DEF Snapshot, Transports
    <3> QED
      BY <2>2, <2>3, <2>6, <3>1, ClientKinds
  <2> QED
    BY <2>4, <2>5, <2>6
<1> QED
  BY <1>6, <1>7, <1>8, <1>9, <1>10, <1>12, <1>13 DEF CliInv

-----------------------------------------------------------------------------
(* The start.                                                              *)

\* What append makes of a nil slice has the clients it was given.
LEMMA FreshSlots ==
  ASSUME NEW seq \in Seq(Clients), Len(seq) \in 0 .. 3
  PROVE  /\ DOMAIN Fresh(seq).arr = Caps
         /\ \A k \in Caps : Fresh(seq).arr[k] \in [1 .. k -> Clients \cup {None, Torn}]
         /\ Fresh(seq).chain \in Slices /\ Fresh(seq).chain.len = Len(seq)
         /\ \A i \in 1 .. Len(seq) : Fresh(seq).arr[Fresh(seq).chain.cap][i] = seq[i]
<1> DEFINE size == IF seq = <<>> THEN 0 ELSE IF Len(seq) <= 2 THEN Len(seq) ELSE 4
           a == [k \in Caps |-> [i \in 1 .. k |-> IF k = size /\ i <= Len(seq) THEN seq[i] ELSE None]]
<1>1. Fresh(seq) = [arr |-> a, chain |-> [cap |-> size, len |-> Len(seq)]]
  BY DEF Fresh
<1>2. Fresh(seq).arr = a /\ Fresh(seq).chain = [cap |-> size, len |-> Len(seq)]
  BY <1>1
<1>3. Len(seq) \in 0 .. 3 /\ (seq = <<>> <=> Len(seq) = 0) /\ \A i \in 1 .. Len(seq) : seq[i] \in Clients
  <2>1. seq = <<>> <=> Len(seq) = 0
    BY EmptySeq
  <2>2. \A i \in 1 .. Len(seq) : seq[i] \in Clients
    OBVIOUS
  <2> QED
    BY <2>1, <2>2, Zenon
<1>4. size \in Caps /\ Len(seq) \in 0 .. size
  BY <1>3 DEF Caps
<1> HIDE DEF size
<1>5. [cap |-> size, len |-> Len(seq)] \in Slices
  BY <1>4, SliceShape
<1>6. DOMAIN a = Caps /\ \A k \in Caps : a[k] \in [1 .. k -> Clients \cup {None, Torn}]
  <2> SUFFICES ASSUME NEW k \in Caps PROVE a[k] \in [1 .. k -> Clients \cup {None, Torn}]
    OBVIOUS
  <2>1. a[k] = [i \in 1 .. k |-> IF k = size /\ i <= Len(seq) THEN seq[i] ELSE None]
    OBVIOUS
  <2>2. k \in Nat
    BY DEF Caps
  <2>3. \A i \in 1 .. k : i <= Len(seq) => seq[i] \in Clients
    BY <1>3, <2>2
  <2> HIDE DEF a
  <2> QED
    BY <2>1, <2>3
<1>7. \A i \in 1 .. Len(seq) : a[size][i] = seq[i]
  <2>1. \A i \in 1 .. Len(seq) : i \in 1 .. size /\ i <= Len(seq)
    BY <1>3, <1>4 DEF Caps
  <2> QED
    BY <1>4, <2>1
<1>8. Fresh(seq).chain.cap = size /\ Fresh(seq).chain.len = Len(seq)
  BY <1>2
<1> HIDE DEF a
<1> QED
  BY <1>2, <1>5, <1>6, <1>7, <1>8

LEMMA InitHolds == Init => CliInv
<1> SUFFICES ASSUME Init PROVE CliInv
  OBVIOUS
<1>1. PICK ok \in {MQConfigured /\ "nats" \in mode, MQConfigured /\ "nats" \in mode /\ ~MqMayFail} :
        /\ cur = [t \in Transports |->
                    IF t \notin mode \/ (t = "nats" /\ ~ok) THEN None ELSE Made(t)]
        /\ open = IF ok THEN {1} ELSE {}
  BY Zenon DEF Init
<1>2. ok => "nats" \in mode
  BY Zenon
<1>3. /\ mode \in Modes /\ rest = <<>> /\ half = FALSE /\ lock = "free" /\ made = 1 /\ calls = 0
      /\ overlap = FALSE /\ MaxReloads \in Nat
      /\ reload = [r \in Reloaders |-> Idle] /\ push = [p \in Pushers |-> Idle]
      /\ arr = Fresh(InOrder(cur)).arr /\ chain = Fresh(InOrder(cur)).chain
  BY CliAssumption DEF Init
<1>4. Made("nats") = Nats(1) /\ Nats(1) \in Clients
  BY <1>3, ClientKinds, MadeIsNats
<1>5. cur \in [Transports -> Clients \cup {None}]
  <2>1. \A t \in Transports : Made(t) \in Clients
    BY <1>4, ClientKinds DEF Transports
  <2> QED
    BY <1>1, <2>1
<1>6. InOrder(cur) \in Seq(Clients) /\ Len(InOrder(cur)) \in 0 .. 3
  BY <1>5, InOrderShape
<1>7. /\ DOMAIN arr = Caps /\ \A k \in Caps : arr[k] \in [1 .. k -> Clients \cup {None, Torn}]
      /\ chain \in Slices /\ chain.len = Len(InOrder(cur))
      /\ \A i \in 1 .. Len(InOrder(cur)) : arr[chain.cap][i] = InOrder(cur)[i]
  BY <1>3, <1>6, FreshSlots
<1>8. \A r \in Reloaders : reload[r] = Idle /\ reload[r].pc = "idle"
  BY <1>3 DEF Idle
<1>9. \A p \in Pushers : push[p] = Idle /\ push[p].pc = "idle"
  BY <1>3 DEF Idle
<1>10. TypeOK
  <2>1. open \subseteq 1 .. made /\ made \in 1 .. MaxReloads + 1 /\ calls \in 0 .. MaxReloads
    BY <1>1, <1>3
  <2>2. /\ reload \in [Reloaders -> LocalsOfReload \cup {Idle, Panicked}]
        /\ push \in [Pushers -> LocalsOfPush \cup {Idle}]
    BY <1>3
  <2>3. rest \in Seq(Clients)
    BY <1>3
  <2> QED
    BY <1>3, <1>5, <1>7, <2>1, <2>2, <2>3 DEF TypeOK
<1>11. Locked /\ Rebuilt
  <2>1. Locked
    BY <1>3, <1>8, CliAssumption DEF Locked
  <2>2. Rebuilt
    BY <1>3, <1>6, <1>7 DEF Rebuilt
  <2> QED
    BY <2>1, <2>2
<1>12. CurMatchesMode
  BY <1>1, <1>3, ClientKinds DEF CurMatchesMode, Modes
<1>13. Alone
  BY <1>8 DEF Alone
<1>14. NatsAccounted
  <2>1. ok => cur["nats"] = Nats(1)
    BY <1>1, <1>2, <1>4 DEF Transports
  <2>2. ~ok => cur["nats"] = None
    BY <1>1 DEF Transports
  <2>3. \A i \in 1 .. made : cur["nats"] = Nats(i) => i \in open
    BY <1>1, <1>3, <2>2, ClientKinds
  <2>4. \A i \in open : Nats(i) = cur["nats"]
    BY <1>1, <2>1
  <2> QED
    BY <2>3, <2>4 DEF NatsAccounted
<1> QED
  BY <1>3, <1>8, <1>9, <1>10, <1>11, <1>12, <1>13, <1>14 DEF CliInv

LEMMA StepKeeps == CliInv /\ [Next]_vars => CliInv'
<1> SUFFICES ASSUME CliInv, [Next]_vars PROVE CliInv'
  OBVIOUS
<1>1. CASE \E r \in Reloaders :
             \/ Reload(r) \/ Discard(r) \/ Commit(r) \/ AppendInPlace(r) \/ AppendGrows(r)
             \/ Unlock(r) \/ CloseOld(r)
  BY <1>1, ReloadKeeps, DiscardKeeps, CommitKeeps, AppendInPlaceKeeps, AppendGrowsKeeps,
     UnlockKeeps, CloseOldKeeps
<1>2. CASE \E p \in Pushers : Push(p) \/ Try(p) \/ Return(p)
  BY <1>2, PushKeeps, TryKeeps, ReturnKeeps
<1>3. CASE UNCHANGED vars
  <2>1. UNCHANGED <<cvars, open, made, reload, calls, overlap>> /\ push' = push
    BY <1>3 DEF vars, cvars
  <2>2. push' \in [Pushers -> LocalsOfPush \cup {Idle}]
    BY <2>1 DEF CliInv, TypeOK
  <2> QED
    BY <2>1, <2>2, OnlyPush DEF CliInv
<1> QED
  BY <1>1, <1>2, <1>3 DEF Next

LEMMA InvHolds == Spec => []CliInv
  BY InitHolds, StepKeeps, PTL DEF Spec

-----------------------------------------------------------------------------

\* The types of the fields, the slices and the local variables (devicecli.go:85-261).
THEOREM TypeCorrect == Spec => []TypeOK
<1>1. CliInv => TypeOK
  BY DEF CliInv
<1> QED
  BY <1>1, InvHolds, PTL

\* Whenever rebuildChain has released the lock, d.chain is the clients of the fields in
\* the order of priority, in whichever array (devicecli.go:216-228).
THEOREM ChainFollowsFields == Spec => []ChainIsCurrent
<1>1. CliInv => ChainIsCurrent
  <2> SUFFICES ASSUME CliInv, lock = "free" PROVE Slots(chain) = InOrder(cur)
    BY DEF ChainIsCurrent
  <2>1. rest = <<>> /\ cur \in [Transports -> Clients \cup {None}]
    BY DEF CliInv, Locked, TypeOK
  <2>2. InOrder(cur) \in Seq(Clients) /\ chain.len \in Nat
    BY <2>1, InOrderShape, ChainSlots
  <2>3. chain.len = Len(InOrder(cur)) /\ \A i \in 1 .. chain.len : arr[chain.cap][i] = InOrder(cur)[i]
    BY <2>1, <2>2 DEF CliInv, Rebuilt
  <2>4. InOrder(cur) = [i \in 1 .. chain.len |-> InOrder(cur)[i]]
    BY <2>2, <2>3
  <2>5. Slots(chain) = [i \in 1 .. chain.len |-> arr[chain.cap][i]]
    BY DEF Slots
  <2> QED
    BY <2>3, <2>4, <2>5
<1> QED
  BY <1>1, InvHolds, PTL

\* Reloads that commit, or drop their result, leave the clients of the mode, whatever
\* they overlap with (devicecli.go:157-192).
THEOREM FieldsFollowMode == Spec => []CurMatchesMode
<1>1. CliInv => CurMatchesMode
  BY DEF CliInv
<1> QED
  BY <1>1, InvHolds, PTL

\* Reloads that do not overlap neither use a closed NATS client nor lose a connected
\* one (devicecli.go:127-204).
THEOREM NoClientLost == Spec => []NatsAccounted
<1>1. CliInv => NatsAccounted
  BY DEF CliInv
<1> QED
  BY <1>1, InvHolds, PTL

\* A Push that no commit disturbs tries the clients of the fields one after the other
\* and gives up only after the last (devicecli.go:230-261).
THEOREM TriesInOrder == Spec => []UndisturbedPush
<1>1. CliInv => UndisturbedPush
  <2> SUFFICES ASSUME CliInv, NEW p \in Pushers, push[p].pc # "idle", ~push[p].stale
               PROVE  /\ push[p].tried = SubSeq(Kinds(InOrder(cur)), 1, Len(push[p].tried))
                      /\ push[p].pc \in {"failed", "none"} => Len(push[p].tried) = Len(InOrder(cur))
    BY DEF UndisturbedPush
  <2> DEFINE tried == push[p].tried
             all == InOrder(cur)
  <2>1. push[p] \in LocalsOfPush /\ Walks(push[p]) /\ push[p].stale = FALSE
    BY LocalsAre DEF CliInv, LocalsOfPush
  <2>2. lock = "free" /\ push[p].view = chain /\ Len(tried) <= chain.len
        /\ \A j \in 1 .. Len(tried) : tried[j] = all[j][1]
    BY <2>1 DEF Walks
  <2>3. tried \in Seq(Transports \cup {"torn"}) /\ Len(tried) \in Nat /\ chain.len \in Nat
    BY <2>1, ChainSlots DEF LocalsOfPush
  <2>4. rest = <<>> /\ cur \in [Transports -> Clients \cup {None}]
    BY <2>2 DEF CliInv, Locked, TypeOK
  <2>5. all \in Seq(Clients) /\ chain.len = Len(all)
    BY <2>3, <2>4, InOrderShape DEF CliInv, Rebuilt
  <2>6. push[p].pc \in {"failed", "none"} => Len(tried) = chain.len
    BY <2>1, <2>2 DEF Walks
  <2>7. tried = SubSeq(Kinds(all), 1, Len(tried))
    <3> HIDE DEF tried, all
    <3>1. \A i \in 1 .. Len(all) : all[i][1] \in Transports
      BY <2>5, ClientKinds
    <3>2. Kinds(all) \in Seq(Transports) /\ Len(Kinds(all)) = Len(all)
          /\ \A i \in 1 .. Len(all) : Kinds(all)[i] = all[i][1]
      BY <2>5, <3>1 DEF Kinds
    <3>3. SubSeq(Kinds(all), 1, Len(tried)) = [i \in 1 .. Len(tried) |-> Kinds(all)[i]]
      BY <2>2, <2>3, <2>5, <3>2
    <3>4. tried = [i \in 1 .. Len(tried) |-> tried[i]]
      BY <2>3
    <3>5. \A i \in 1 .. Len(tried) : tried[i] = Kinds(all)[i]
      BY <2>2, <2>3, <2>5, <3>2
    <3> QED
      BY <3>3, <3>4, <3>5
  <2> QED
    BY <2>5, <2>6, <2>7
<1> QED
  BY <1>1, InvHolds, PTL
=============================================================================
