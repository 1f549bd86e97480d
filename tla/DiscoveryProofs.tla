--------------------------- MODULE DiscoveryProofs ---------------------------
(***************************************************************************)
(* Theorems about Discovery.  Started says what start-up and the callback  *)
(* of the configuration leave to each other; InThePipe orders the lists on *)
(* their way through a resolver: none is older than the one before it, and *)
(* none newer than what the next one would be read from.                   *)
(***************************************************************************)
EXTENDS Discovery, TLAPS

\* The callback is about to apply a list.
Pending == callback \in listed

\* The versions are never newer than what they come from.
VersionsInOrder ==
  /\ fetched <= source /\ config <= told /\ given <= told /\ told <= source
  /\ callback # NoVersion => callback = told
  /\ Pending => given = callback
  /\ boot \in {"start", "client", "fetched"} =>
       told = NoVersion /\ given = NoVersion /\ config = NoVersion /\ callback = NoVersion /\ ~early
  /\ boot \in {"listens", "applies"} => fetched <= told

\* What the callback, and start-up after it, have left of the documents.
Started ==
  /\ VersionsInOrder
  /\ boot \in {"listens", "applies"} /\ ~early => config = NoVersion
  /\ boot \in {"listens", "applies"} /\ ~early /\ ~Pending =>
       given = IF fetched \in listed THEN fetched ELSE NoVersion
  /\ boot \in {"listens", "applies"} /\ early /\ ~Pending => config = given
  /\ boot \in {"registry", "registers", "up"} /\ ~Pending =>
       config = given \/ (early /\ config = fetched /\ fetched \in listed)

\* Where a resolver takes its next list from.
Limit == IF kind = "instances" THEN Whole(config) ELSE Whole(source)

\* Which of the resolver's goroutines there are.
Shaped(b) ==
  /\ conn[b] # "no" => boot = "up"
  /\ feeder[b] = "runs" => kind = "instances" /\ conn[b] \in {"open", "closed"}
  /\ subscribed[b] => kind = "nacos" /\ conn[b] = "open"
  /\ conn[b] = "subscribes" => kind = "nacos"
  /\ conn[b] = "no" => initial[b] = NoList
  /\ conn[b] \in {"no", "sends"} =>
       offer[b] = NoList /\ held[b] = NoList /\ addresses[b] = NoList

Ordered(b) ==
  /\ initial[b] <= Limit /\ offer[b] <= Limit /\ held[b] <= Limit /\ addresses[b] <= Limit
  /\ held[b] # NoList => addresses[b] <= held[b]
  /\ offer[b] # NoList => held[b] <= offer[b] /\ addresses[b] <= offer[b]

InThePipe == \A b \in Builds : Shaped(b) /\ Ordered(b)

DiscInv == DiscTypeOK /\ Started /\ InThePipe

-----------------------------------------------------------------------------

LEMMA BuildsAreNumbers ==
  /\ MaxVersion \in Nat \ {0} /\ MaxBuilds \in Nat \ {0}
  /\ Versions \subseteq Nat /\ NoVersion \in Versions /\ 1 \in Versions
  /\ NoVersion = 0 /\ \A v \in Versions : 0 <= v
  BY DiscAssumption DEF Versions, NoVersion

\* Every version has its lists; their numbers follow the versions.
LEMMA ListsAreNumbers ==
  /\ Lists \subseteq Nat /\ NoList \in Lists /\ NoList = 0
  /\ \A v \in Versions : /\ Healthy(v) \in Lists /\ Whole(v) \in Lists
                         /\ Healthy(v) # NoList /\ Whole(v) # NoList /\ Healthy(v) <= Whole(v)
  /\ \A v, w \in Nat : v <= w => Whole(v) <= Whole(w)
<1>1. MaxVersion \in Nat /\ Versions = 0 .. MaxVersion
  BY DiscAssumption DEF Versions, NoVersion
<1>2. Lists = 0 .. 2 * MaxVersion + 2
  BY <1>1 DEF Lists, Whole, NoList
<1>3. ASSUME NEW v \in Versions
      PROVE  /\ Healthy(v) \in Lists /\ Whole(v) \in Lists
             /\ Healthy(v) # NoList /\ Whole(v) # NoList /\ Healthy(v) <= Whole(v)
  BY <1>1, <1>2 DEF Healthy, Whole, NoList
<1>4. \A v, w \in Nat : v <= w => Whole(v) <= Whole(w)
  BY DEF Whole
<1> QED
  BY <1>1, <1>2, <1>3, <1>4 DEF NoList

LEMMA DiscInitHolds == DiscInit => DiscInv
<1> SUFFICES ASSUME DiscInit PROVE DiscInv
  OBVIOUS
<1>1. DiscTypeOK
  BY BuildsAreNumbers, ListsAreNumbers DEF DiscInit, DiscTypeOK
<1>2. Started
  BY BuildsAreNumbers DEF DiscInit, Started, VersionsInOrder, Pending
<1>3. InThePipe
  <2>1. Limit \in Nat /\ NoList = 0
    BY BuildsAreNumbers, ListsAreNumbers DEF DiscInit, Limit
  <2> QED
    BY <2>1 DEF DiscInit, InThePipe, Shaped, Ordered
<1> QED
  BY <1>1, <1>2, <1>3 DEF DiscInv

\* The variables of start-up and the configuration, and those of the resolvers.
ConfTypeOK ==
  /\ kind \in {"instances", "nacos"} /\ early \in BOOLEAN
  /\ boot \in {"start", "client", "fetched", "listens", "applies", "registry", "registers", "up", "fatal"}
  /\ source \in Versions /\ fetched \in Versions /\ config \in Versions
  /\ told \in Versions /\ given \in Versions /\ callback \in Versions
  /\ listed \subseteq Versions \ {NoVersion}

ResolverTypeOK ==
  /\ conn \in [Builds -> {"no", "failed", "sends", "subscribes", "open", "closed"}]
  /\ subscribed \in [Builds -> BOOLEAN] /\ missed \in [Builds -> BOOLEAN]
  /\ feeder \in [Builds -> {"no", "runs", "ended"}] /\ populate \in [Builds -> {"no", "runs", "ended"}]
  /\ initial \in [Builds -> Lists] /\ heard \in [Builds -> Versions]
  /\ offer \in [Builds -> Lists] /\ held \in [Builds -> Lists]
  /\ addresses \in [Builds -> Lists]

LEMMA TypeParts == DiscTypeOK <=> ConfTypeOK /\ ResolverTypeOK
  BY DEF DiscTypeOK, ConfTypeOK, ResolverTypeOK

\* Start-up and the configuration leave the resolvers alone.
LEMMA BootLeaves ==
  ASSUME SourceChanges \/ BootStep
  PROVE  /\ kind' = kind /\ listed' = listed /\ conn' = conn /\ initial' = initial /\ subscribed' = subscribed
         /\ heard' = heard /\ missed' = missed /\ feeder' = feeder /\ offer' = offer /\ populate' = populate
         /\ held' = held /\ addresses' = addresses
  BY DEF SourceChanges, BootStep, SyncConfig, NewNacosClient, GetConfig, ListenConfig, Unmarshal, Unmarshaled,
         NewRegistry, InitRegisterInstance, Notify, OnChange, resolvers, pipeline

\* What they do to their own, among them that the list of a service that is up only grows.
LEMMA BootKeeps ==
  ASSUME ConfTypeOK, Started, SourceChanges \/ BootStep
  PROVE  /\ ConfTypeOK' /\ Started'
         /\ boot = "up" => boot' = "up" /\ source <= source' /\ config <= config'
<1>0. /\ source \in Nat /\ fetched \in Nat /\ config \in Nat /\ told \in Nat /\ given \in Nat /\ callback \in Nat
      /\ MaxVersion \in Nat /\ Versions = 0 .. MaxVersion /\ NoVersion = 0 /\ NoVersion \notin listed
  BY BuildsAreNumbers DEF ConfTypeOK, Versions
<1> USE DEF ConfTypeOK, Started, VersionsInOrder, Pending, confVars, Tell, Merged
<1>1. CASE SourceChanges
  BY <1>0, <1>1 DEF SourceChanges
<1>2. CASE SyncConfig
  BY <1>0, <1>2 DEF SyncConfig, NewNacosClient
<1>3. CASE GetConfig
  BY <1>0, <1>3 DEF GetConfig
<1>4. CASE ListenConfig
  BY <1>0, <1>4 DEF ListenConfig
<1>5. CASE Unmarshal
  BY <1>0, <1>5 DEF Unmarshal
<1>6. CASE Unmarshaled
  BY <1>0, <1>6 DEF Unmarshaled
<1>7. CASE NewRegistry
  BY <1>0, <1>7 DEF NewRegistry
<1>8. CASE InitRegisterInstance
  BY <1>0, <1>8 DEF InitRegisterInstance
<1>9. CASE Notify
  BY <1>0, <1>9 DEF Notify
<1>10. CASE OnChange
  <2>a. callback \in listed => early' = (boot = "listens" \/ boot = "applies")
    BY <1>10, Zenon DEF OnChange
  <2>b. callback \notin listed => early' = early
    BY <1>10, Zenon DEF OnChange
  <2>1. /\ early' \in BOOLEAN
        /\ callback \in listed => (early' <=> boot \in {"listens", "applies"})
        /\ callback \notin listed => (early' <=> early)
    <3>1. early \in BOOLEAN
      BY DEF ConfTypeOK
    <3>2. callback \in listed => early' \in BOOLEAN
      BY <2>a, Zenon
    <3>3. callback \in listed => (early' <=> boot \in {"listens", "applies"})
      BY <2>a, Zenon
    <3>4. callback \notin listed => early' \in BOOLEAN /\ (early' <=> early)
      BY <2>b, <3>1, Zenon
    <3> QED
      BY <3>2, <3>3, <3>4
  <2>2. boot' \in {boot, "fatal"} /\ (boot' = "fatal" => boot \in {"applies", "fatal"})
    BY <1>10 DEF OnChange
  <2>3. /\ callback \in listed => config' = callback
        /\ callback \notin listed => config' = config
        /\ callback' = NoVersion /\ callback # NoVersion /\ boot # "fatal"
        /\ UNCHANGED <<kind, listed, source, fetched, told, given>>
    BY <1>10 DEF OnChange
  <2>4. CASE callback \in listed
    BY <1>0, <2>1, <2>2, <2>3, <2>4
  <2>5. CASE callback \notin listed
    BY <1>0, <2>1, <2>2, <2>3, <2>5
  <2> QED
    BY <2>4, <2>5
<1> QED
  BY <1>1, <1>2, <1>3, <1>4, <1>5, <1>6, <1>7, <1>8, <1>9, <1>10 DEF BootStep

\* The lists of a service that is up only grow, so what is in a pipe stays in order.
LEMMA BootKeepsPipe ==
  ASSUME DiscInv, SourceChanges \/ BootStep
  PROVE  InThePipe'
<1> USE BuildsAreNumbers, ListsAreNumbers
<1>1. ConfTypeOK /\ Started /\ ConfTypeOK' /\ ResolverTypeOK
  BY BootKeeps, TypeParts DEF DiscInv
<1>2. boot = "up" => boot' = "up" /\ source <= source' /\ config <= config'
  BY <1>1, BootKeeps
<1>3. Limit \in Nat /\ Limit' \in Nat /\ (boot = "up" => Limit <= Limit')
  <2>1. /\ source \in Nat /\ config \in Nat /\ source' \in Nat /\ config' \in Nat /\ kind' = kind
    BY <1>1, BootLeaves DEF ConfTypeOK
  <2>2. \A v \in Nat : Whole(v) \in Nat
    BY DEF Whole
  <2>3. Limit = (IF kind = "instances" THEN Whole(config) ELSE Whole(source))
    BY DEF Limit
  <2>4. Limit' = (IF kind = "instances" THEN Whole(config') ELSE Whole(source'))
    BY <2>1 DEF Limit, Whole
  <2>5. boot = "up" => Whole(config) <= Whole(config') /\ Whole(source) <= Whole(source')
    BY <1>2, <2>1
  <2> QED
    BY <2>1, <2>2, <2>3, <2>4, <2>5
<1> SUFFICES ASSUME NEW b \in Builds PROVE Shaped(b)' /\ Ordered(b)'
  BY DEF InThePipe
<1>4. Shaped(b) /\ Ordered(b)
  BY DEF DiscInv, InThePipe
<1>5. Shaped(b)'
  BY BootLeaves, <1>2, <1>4 DEF Shaped
<1>6. /\ initial[b] \in Nat /\ offer[b] \in Nat /\ held[b] \in Nat /\ addresses[b] \in Nat
      /\ conn[b] \in {"no", "failed", "sends", "subscribes", "open", "closed"}
  BY <1>1 DEF ResolverTypeOK
<1>7. Ordered(b)'
  <2>1. CASE conn[b] = "no"
    BY <2>1, BootLeaves, <1>3, <1>4 DEF Shaped, Ordered
  <2>2. CASE conn[b] # "no"
    BY <2>2, BootLeaves, <1>3, <1>4, <1>6 DEF Shaped, Ordered
  <2> QED
    BY <2>1, <2>2
<1> QED
  BY <1>5, <1>7

\* A resolver leaves the configuration alone.
LEMMA ResolverLeaves ==
  ASSUME NEW b \in Builds, ResolverStep(b)
  PROVE  /\ kind' = kind /\ listed' = listed /\ source' = source /\ boot' = boot /\ fetched' = fetched
         /\ config' = config /\ told' = told /\ given' = given /\ callback' = callback /\ early' = early
  BY DEF ResolverStep, BuildInstances, BuildNacos, ReceiveInitial, Subscribe, SubscribeCallback,
         Ticker, Receive, UpdateState, CloseResolver, FeederEnds, PopulateEnds, pipeline, confVars

\* A step of one resolver leaves the others alone.
LEMMA ResolversApart ==
  ASSUME NEW b \in Builds, NEW a \in Builds, a # b, ResolverTypeOK, ResolverStep(b)
  PROVE  /\ conn'[a] = conn[a] /\ initial'[a] = initial[a] /\ subscribed'[a] = subscribed[a]
         /\ feeder'[a] = feeder[a] /\ offer'[a] = offer[a] /\ held'[a] = held[a]
         /\ addresses'[a] = addresses[a]
<1> USE DEF ResolverTypeOK, pipeline
<1>1. CASE BuildInstances(b)  BY <1>1 DEF BuildInstances
<1>2. CASE BuildNacos(b)  BY <1>2 DEF BuildNacos
<1>3. CASE ReceiveInitial(b)  BY <1>3 DEF ReceiveInitial
<1>4. CASE Subscribe(b)  BY <1>4 DEF Subscribe
<1>5. CASE SubscribeCallback(b)  BY <1>5 DEF SubscribeCallback
<1>6. CASE Ticker(b)  BY <1>6 DEF Ticker
<1>7. CASE Receive(b)  BY <1>7 DEF Receive
<1>8. CASE UpdateState(b)  BY <1>8 DEF UpdateState
<1>9. CASE CloseResolver(b)  BY <1>9 DEF CloseResolver
<1>10. CASE FeederEnds(b)  BY <1>10 DEF FeederEnds
<1>11. CASE PopulateEnds(b)  BY <1>11 DEF PopulateEnds
<1> QED
  BY <1>1, <1>2, <1>3, <1>4, <1>5, <1>6, <1>7, <1>8, <1>9, <1>10, <1>11 DEF ResolverStep

LEMMA ResolverTypes ==
  ASSUME ConfTypeOK, ResolverTypeOK, NEW b \in Builds, ResolverStep(b)
  PROVE  ResolverTypeOK'
<1> USE BuildsAreNumbers, ListsAreNumbers DEF ConfTypeOK, ResolverTypeOK, pipeline
<1>1. CASE BuildInstances(b)  BY <1>1 DEF BuildInstances
<1>2. CASE BuildNacos(b)  BY <1>2 DEF BuildNacos
<1>3. CASE ReceiveInitial(b)  BY <1>3 DEF ReceiveInitial
<1>4. CASE Subscribe(b)  BY <1>4 DEF Subscribe
<1>5. CASE SubscribeCallback(b)
  <2>1. heard' \in [Builds -> Versions]
    BY <1>5 DEF SubscribeCallback
  <2>2. missed' = [missed EXCEPT ![b] = FALSE] \/ missed' = [missed EXCEPT ![b] = TRUE]
    BY <1>5 DEF SubscribeCallback
  <2>3. missed' \in [Builds -> BOOLEAN]
    BY <2>2
  <2>4. offer' = [offer EXCEPT ![b] = Whole(source)] \/ offer' = offer
    BY <1>5 DEF SubscribeCallback
  <2>5. offer' \in [Builds -> Lists]
    BY <2>4
  <2> QED
    BY <1>5, <2>1, <2>3, <2>5 DEF SubscribeCallback
<1>6. CASE Ticker(b)  BY <1>6 DEF Ticker
<1>7. CASE Receive(b)  BY <1>7 DEF Receive
<1>8. CASE UpdateState(b)  BY <1>8 DEF UpdateState
<1>9. CASE CloseResolver(b)  BY <1>9 DEF CloseResolver
<1>10. CASE FeederEnds(b)  BY <1>10 DEF FeederEnds
<1>11. CASE PopulateEnds(b)  BY <1>11 DEF PopulateEnds
<1> QED
  BY <1>1, <1>2, <1>3, <1>4, <1>5, <1>6, <1>7, <1>8, <1>9, <1>10, <1>11 DEF ResolverStep

\* Nor does it put its own lists out of order.
LEMMA ResolverKeeps ==
  ASSUME DiscInv, NEW b \in Builds, ResolverStep(b)
  PROVE  Shaped(b)' /\ Ordered(b)' /\ addresses[b] <= addresses'[b]
<1>1. /\ Limit' = Limit /\ Limit \in Nat /\ boot' = boot /\ kind' = kind /\ source' = source /\ config' = config
      /\ Whole(source) \in Nat /\ Whole(config) \in Nat /\ Healthy(source) \in Nat /\ Healthy(source) <= Whole(source)
  BY ResolverLeaves, ListsAreNumbers, TypeParts DEF Limit, DiscInv, ConfTypeOK
<1>2. ResolverTypeOK /\ Shaped(b) /\ Ordered(b)
  BY TypeParts DEF DiscInv, InThePipe
<1>3. /\ initial[b] \in Nat /\ offer[b] \in Nat /\ held[b] \in Nat /\ addresses[b] \in Nat
      /\ NoList = 0
      /\ conn[b] \in {"no", "failed", "sends", "subscribes", "open", "closed"}
  BY <1>2, ListsAreNumbers DEF ResolverTypeOK
<1> USE <1>1, <1>2, <1>3 DEF ResolverTypeOK, Shaped, Ordered, pipeline
<1>4. CASE BuildInstances(b)  BY <1>4 DEF BuildInstances, CanBuild, Limit
<1>5. CASE BuildNacos(b)  BY <1>5 DEF BuildNacos, CanBuild, Limit
<1>6. CASE ReceiveInitial(b)
  <2>1. /\ conn[b] = "sends" /\ boot = "up" /\ ~subscribed[b] /\ UNCHANGED <<subscribed, initial>>
        /\ conn'[b] = IF kind = "nacos" THEN "subscribes" ELSE "open"
        /\ feeder'[b] = IF kind = "nacos" THEN "no" ELSE "runs"
    BY <1>6 DEF ReceiveInitial
  <2>2. kind \in {"instances", "nacos"}
    BY TypeParts DEF DiscInv, ConfTypeOK
  <2>3. Shaped(b)'
    BY <2>1, <2>2 DEF Shaped
  <2>4. Ordered(b)' /\ addresses[b] <= addresses'[b]
    BY <1>6 DEF ReceiveInitial
  <2> QED
    BY <2>3, <2>4
<1>7. CASE Subscribe(b)
  BY <1>7 DEF Subscribe
<1>8. CASE SubscribeCallback(b)  BY <1>8 DEF SubscribeCallback, Limit
<1>9. CASE Ticker(b)  BY <1>9 DEF Ticker, Limit
<1>10. CASE Receive(b)  BY <1>10 DEF Receive
<1>11. CASE UpdateState(b)  BY <1>11 DEF UpdateState
<1>12. CASE CloseResolver(b)  BY <1>12 DEF CloseResolver
<1>13. CASE FeederEnds(b)  BY <1>13 DEF FeederEnds
<1>14. CASE PopulateEnds(b)  BY <1>14 DEF PopulateEnds
<1> QED
  BY <1>4, <1>5, <1>6, <1>7, <1>8, <1>9, <1>10, <1>11, <1>12, <1>13, <1>14 DEF ResolverStep

LEMMA DiscStepKeeps == DiscInv /\ [DiscNext]_discVars => DiscInv'
<1> SUFFICES ASSUME DiscInv, [DiscNext]_discVars PROVE DiscInv'
  OBVIOUS
<1>1. CASE SourceChanges \/ BootStep
  <2>1. ResolverTypeOK'
    BY <1>1, BootLeaves, TypeParts DEF DiscInv, ResolverTypeOK
  <2>2. ConfTypeOK' /\ Started'
    BY <1>1, BootKeeps, TypeParts DEF DiscInv
  <2> QED
    BY <1>1, <2>1, <2>2, TypeParts, BootKeepsPipe DEF DiscInv, DiscTypeOK, ConfTypeOK, ResolverTypeOK
<1>2. ASSUME NEW b \in Builds, ResolverStep(b) PROVE DiscInv'
  <2>1. ConfTypeOK' /\ ResolverTypeOK'
    BY <1>2, ResolverTypes, ResolverLeaves, TypeParts DEF DiscInv, ConfTypeOK
  <2>2. DiscTypeOK'
    BY <2>1 DEF DiscTypeOK, ConfTypeOK, ResolverTypeOK
  <2>3. Started'
    BY <1>2, ResolverLeaves DEF DiscInv, Started, VersionsInOrder, Pending
  <2>4. ASSUME NEW a \in Builds PROVE Shaped(a)' /\ Ordered(a)'
    <3>1. CASE a = b
      BY <3>1, <1>2, ResolverKeeps
    <3>2. CASE a # b
      <4>1. Limit' = Limit /\ boot' = boot /\ kind' = kind
        BY <1>2, ResolverLeaves DEF Limit
      <4>2. Shaped(a) /\ Ordered(a) /\ ResolverTypeOK
        BY TypeParts DEF DiscInv, InThePipe
      <4> QED
        BY <1>2, <3>2, <4>1, <4>2, ResolversApart DEF Shaped, Ordered
    <3> QED
      BY <3>1, <3>2
  <2> QED
    BY <2>2, <2>3, <2>4 DEF DiscInv, InThePipe
<1>3. CASE UNCHANGED discVars
  BY <1>3 DEF DiscInv, DiscTypeOK, Started, VersionsInOrder, Pending, InThePipe, Shaped, Ordered, Limit, discVars, confVars, pipeline
<1> QED
  BY <1>1, <1>2, <1>3 DEF DiscNext

LEMMA DiscInvHolds == DiscSpec => []DiscInv
  BY DiscInitHolds, DiscStepKeeps, PTL DEF DiscSpec

\* Types of servicecontext.go:32-65 and of the two resolvers.
THEOREM DiscTypeCorrect == DiscSpec => []DiscTypeOK
<1>1. DiscInv => DiscTypeOK
  BY DEF DiscInv
<1> QED
  BY <1>1, DiscInvHolds, PTL

\* Whichever documents have a list: a service that is up has that of the last one its
\* listener was told with one, or the fetched one put over it by start-up, and then no
\* other has come since (servicecontext.go:33-43).
THEOREM ConfigCatchesUp == DiscSpec => []ConfigIsLatest
<1>1. DiscInv => ConfigIsLatest
  BY DEF DiscInv, DiscTypeOK, Started, Pending, ConfigIsLatest
<1> QED
  BY <1>1, DiscInvHolds, PTL

\* A resolver takes only newer lists, and leaves the others' alone.
LEMMA ListsGrow ==
  DiscInv /\ [DiscNext]_discVars => [\A b \in Builds : addresses[b] <= addresses'[b]]_discVars
<1> SUFFICES ASSUME DiscInv, [DiscNext]_discVars
             PROVE  [\A b \in Builds : addresses[b] <= addresses'[b]]_discVars
  OBVIOUS
<1>1. \A b \in Builds : addresses[b] \in Nat
  BY ListsAreNumbers DEF DiscInv, DiscTypeOK
<1>2. CASE SourceChanges \/ BootStep
  <2>1. addresses' = addresses
    BY <1>2, BootLeaves
  <2> QED
    BY <1>1, <2>1
<1>3. ASSUME NEW b \in Builds, ResolverStep(b)
      PROVE  \A a \in Builds : addresses[a] <= addresses'[a]
  <2>1. addresses[b] <= addresses'[b]
    BY <1>3, ResolverKeeps
  <2>2. \A a \in Builds : a # b => addresses'[a] = addresses[a]
    BY <1>3, ResolversApart, TypeParts DEF DiscInv
  <2> QED
    BY <1>1, <2>1, <2>2
<1> QED
  BY <1>2, <1>3 DEF DiscNext

\* No list of addresses is replaced by an older one (rpcn/builder.go:45-67).
THEOREM ListsOnlyGrow == DiscSpec => NeverBack
  BY ListsGrow, DiscInvHolds, PTL DEF DiscSpec, NeverBack

-----------------------------------------------------------------------------
(* What the registry has told a resolver is not lost on its way.           *)

\* The last list on its way through the pipe, or the last that came out of it.
Newest(b) ==
  IF offer[b] # NoList THEN offer[b]
  ELSE IF held[b] # NoList THEN held[b] ELSE addresses[b]

\* What its client was told last is the newest list of a resolver: the healthy ones
\* until Subscribe, these or all of them afterwards.
Heard(b) ==
  /\ heard[b] <= source
  /\ conn[b] \in {"no", "failed", "sends", "subscribes"} => ~missed[b]
  /\ conn[b] \in {"no", "failed"} => heard[b] = NoVersion
  /\ kind = "nacos" /\ conn[b] = "sends" => initial[b] = Healthy(heard[b])
  /\ conn[b] = "subscribes" => Newest(b) = Healthy(heard[b])
  /\ subscribed[b] /\ ~missed[b] /\ heard[b] # NoVersion =>
       Newest(b) \in {Healthy(heard[b]), Whole(heard[b])}

ToldInv == DiscInv /\ source # NoVersion /\ \A b \in Builds : Heard(b)

\* A resolver whose subscription has nothing left to tell, and whose pipe is empty,
\* has the list of the source, unless the last callback came with an error.
RestIsCurrent ==
  \A b \in Builds :
    subscribed[b] /\ ~missed[b] /\ ~(heard[b] < source) /\ offer[b] = NoList /\ held[b] = NoList =>
      addresses[b] \in {Healthy(source), Whole(source)}

LEMMA ToldInit == DiscInit => ToldInv
  BY DiscInitHolds, BuildsAreNumbers DEF DiscInit, ToldInv, Heard

LEMMA ResolverTells ==
  ASSUME ToldInv, NEW b \in Builds, ResolverStep(b)
  PROVE  Heard(b)'
<1>1. /\ source' = source /\ kind' = kind /\ source \in Nat /\ source # NoVersion
      /\ kind \in {"instances", "nacos"} /\ ResolverTypeOK /\ Shaped(b) /\ Heard(b)
  BY ResolverLeaves, BuildsAreNumbers, TypeParts DEF ToldInv, DiscInv, InThePipe, ConfTypeOK
<1>2. /\ heard[b] \in Nat /\ offer[b] \in Nat /\ held[b] \in Nat /\ addresses[b] \in Nat
      /\ NoVersion = 0 /\ NoList = 0 /\ Healthy(heard[b]) # NoList /\ Whole(source) # NoList
      /\ missed[b] \in BOOLEAN
      /\ conn[b] \in {"no", "failed", "sends", "subscribes", "open", "closed"}
  BY <1>1, BuildsAreNumbers, ListsAreNumbers DEF ToldInv, DiscInv, DiscTypeOK, ResolverTypeOK
<1> USE <1>1, <1>2 DEF ResolverTypeOK, Shaped, Heard, Newest, pipeline
<1>4. CASE BuildInstances(b)  BY <1>4 DEF BuildInstances, CanBuild
<1>5. CASE BuildNacos(b)  BY <1>5 DEF BuildNacos, CanBuild
<1>6. CASE ReceiveInitial(b)
  <2>1. /\ conn[b] = "sends" /\ ~subscribed[b] /\ offer[b] = NoList /\ ~missed[b]
        /\ UNCHANGED <<subscribed, heard, missed, offer, initial>>
        /\ held'[b] = initial[b] /\ conn'[b] = IF kind = "nacos" THEN "subscribes" ELSE "open"
    BY <1>6 DEF ReceiveInitial
  <2> QED
    BY <2>1
<1>7. CASE Subscribe(b)
  <2>1. /\ conn[b] = "subscribes" /\ conn'[b] = "open" /\ heard'[b] \in {heard[b], NoVersion}
        /\ UNCHANGED <<missed, offer, held, addresses>>
    BY <1>7 DEF Subscribe
  <2> QED
    BY <2>1
<1>8. CASE SubscribeCallback(b)  BY <1>8 DEF SubscribeCallback
<1>9. CASE Ticker(b)  BY <1>9 DEF Ticker
<1>10. CASE Receive(b)  BY <1>10 DEF Receive
<1>11. CASE UpdateState(b)  BY <1>11 DEF UpdateState
<1>12. CASE CloseResolver(b)  BY <1>12 DEF CloseResolver
<1>13. CASE FeederEnds(b)  BY <1>13 DEF FeederEnds
<1>14. CASE PopulateEnds(b)  BY <1>14 DEF PopulateEnds
<1> QED
  BY <1>4, <1>5, <1>6, <1>7, <1>8, <1>9, <1>10, <1>11, <1>12, <1>13, <1>14 DEF ResolverStep

LEMMA ResolverTellsNoOther ==
  ASSUME ResolverTypeOK, NEW b \in Builds, NEW a \in Builds, a # b, ResolverStep(b)
  PROVE  heard'[a] = heard[a] /\ missed'[a] = missed[a]
  BY DEF ResolverStep, ResolverTypeOK, BuildInstances, BuildNacos, ReceiveInitial, Subscribe, SubscribeCallback,
         Ticker, Receive, UpdateState, CloseResolver, FeederEnds, PopulateEnds

LEMMA ToldNext == ToldInv /\ [DiscNext]_discVars => ToldInv'
<1> SUFFICES ASSUME ToldInv, [DiscNext]_discVars PROVE ToldInv'
  OBVIOUS
<1>1. DiscInv' /\ source \in Nat /\ NoVersion = 0 /\ \A b \in Builds : heard[b] \in Nat
  BY DiscStepKeeps, BuildsAreNumbers DEF ToldInv, DiscInv, DiscTypeOK
<1>2. CASE SourceChanges \/ BootStep
  <2>1. source' = source \/ source' = source + 1
    BY <1>2 DEF SourceChanges, BootStep, SyncConfig, GetConfig, ListenConfig, Unmarshal, Unmarshaled,
                NewRegistry, InitRegisterInstance, Notify, OnChange
  <2>2. source' # NoVersion /\ source <= source'
    BY <1>1, <2>1 DEF ToldInv
  <2>3. source' \in Nat
    BY <1>1, <2>1
  <2> QED
    BY <1>1, <1>2, <2>2, <2>3, BootLeaves DEF ToldInv, Heard, Newest
<1>3. ASSUME NEW b \in Builds, ResolverStep(b) PROVE ToldInv'
  <2>1. source' = source /\ kind' = kind
    BY <1>3, ResolverLeaves
  <2>2. ASSUME NEW a \in Builds, a # b PROVE Heard(a)'
    <3>1. ResolverTypeOK /\ Heard(a)
      BY TypeParts DEF ToldInv, DiscInv
    <3> QED
      BY <1>3, <2>1, <2>2, <3>1, ResolversApart, ResolverTellsNoOther DEF Heard, Newest
  <2> QED
    BY <1>1, <1>3, <2>1, <2>2, ResolverTells DEF ToldInv
<1>4. CASE UNCHANGED discVars
  BY <1>1, <1>4 DEF ToldInv, Heard, Newest, discVars, pipeline
<1> QED
  BY <1>2, <1>3, <1>4 DEF DiscNext

\* No list that the registry has told a resolver is lost on its way, but by a callback
\* with an error: at rest its connection has the list of the source, or its healthy
\* ones, whatever else went through the pipe (rpcn/builder.go:32-67, rpcn/resolver.go:19-45).
THEOREM ToldListsArrive == DiscSpec => []RestIsCurrent
<1>1. ToldInv => RestIsCurrent
  <2> SUFFICES ASSUME ToldInv, NEW b \in Builds, subscribed[b], ~missed[b], ~(heard[b] < source),
                      offer[b] = NoList, held[b] = NoList
               PROVE  addresses[b] \in {Healthy(source), Whole(source)}
    BY DEF RestIsCurrent
  <2>1. source \in Nat /\ heard[b] \in Nat /\ heard[b] <= source
    BY BuildsAreNumbers DEF ToldInv, Heard, DiscInv, DiscTypeOK
  <2>2. heard[b] = source /\ heard[b] # NoVersion
    BY <2>1 DEF ToldInv
  <2> QED
    BY <2>2 DEF ToldInv, Heard, Newest
<1> QED
  BY <1>1, ToldInit, ToldNext, PTL DEF DiscSpec
==============================================================================
