------------------------------ MODULE Discovery ------------------------------
(***************************************************************************)
(* How iotws learns the addresses of iotdevice.                            *)
(*                                                                         *)
(* Kind "instances": the list is in the configuration, which               *)
(* configcli.SyncConfig fetches at start-up and a callback renews          *)
(* (servicecontext.go); the resolver polls it (grpc/instances).            *)
(* Kind "nacos": the resolver asks the registry and subscribes (grpc/rpcn).*)
(*                                                                         *)
(* A version of the source is a document of the configuration, or the      *)
(* instances of the registry.  External: nacos tells a listener when what  *)
(* it was told last is out of date, one callback at a time, and grpc       *)
(* builds a resolver, closes it when the connection is idle, and builds    *)
(* another.                                                                *)
(***************************************************************************)
EXTENDS Integers

CONSTANTS
  MaxBuilds,    \* bound: resolvers built
  MaxVersion    \* bound: versions of the source

ASSUME DiscAssumption == {MaxBuilds, MaxVersion} \subseteq Nat \ {0}

Builds == 1 .. MaxBuilds
NoVersion == 0
Versions == NoVersion .. MaxVersion

\* The list of a version, and what HealthyOnly leaves of it; numbered in the order
\* in which they may follow each other.  Whole(NoVersion) is that of the file.
NoList == 0
Healthy(v) == 2 * v + 1
Whole(v) == 2 * v + 2
Lists == NoList .. Whole(MaxVersion)

VARIABLES
  kind,       \* c.Rpc.Model
  source,     \* the version nacos has
  listed,     \* the documents from which json.Unmarshal takes a list
  boot,       \* where NewServiceContext is
  fetched,    \* what GetConfig returned
  config,     \* the document that c.DeviceServerMap["iotdevice.grpc"] is from
  told,       \* what the listener of the configuration was told last
  given,      \* history: the last of what it was told that has a list
  callback,   \* what OnChange is about to apply
  early,      \* history: the last list came before start-up had applied what it fetched
  conn,       \* resolver -> its life
  initial,    \* resolver -> the list Build puts into the pipe
  subscribed, \* resolver -> the registry calls it back
  heard,      \* resolver -> what nacos told its client last
  missed,     \* history: resolver -> the last callback came with an error
  feeder,     \* resolver -> the goroutine of the ticker
  offer,      \* resolver -> what the feeder or the callback offers to the pipe
  populate,   \* resolver -> populateEndpoints
  held,       \* resolver -> what populateEndpoints has received
  addresses   \* resolver -> the state of the ClientConn

confVars == <<boot, fetched, config, told, given, callback, early>>
pipeline == <<offer, populate, held, addresses>>
discVars == <<kind, listed, source, confVars, conn, initial, subscribed, heard, missed, feeder, pipeline>>

DiscInit ==
  /\ kind \in {"instances", "nacos"}
  /\ source = 1
  /\ listed \in IF kind = "instances" THEN SUBSET (Versions \ {NoVersion}) ELSE {{}}
  /\ boot = IF kind = "instances" THEN "start" ELSE "registry"
  /\ fetched = NoVersion /\ config = NoVersion
  /\ told = NoVersion /\ given = NoVersion /\ callback = NoVersion
  /\ early = FALSE
  /\ conn = [b \in Builds |-> "no"]
  /\ subscribed = [b \in Builds |-> FALSE] /\ missed = subscribed
  /\ feeder = [b \in Builds |-> "no"] /\ populate = [b \in Builds |-> "no"]
  /\ heard = [b \in Builds |-> NoVersion]
  /\ initial = [b \in Builds |-> NoList] /\ offer = initial /\ held = initial /\ addresses = initial

\* Instances come and go, or somebody edits the configuration.
SourceChanges ==
  /\ source < MaxVersion
  /\ source' = source + 1
  /\ UNCHANGED <<kind, listed, confVars, conn, initial, subscribed, heard, missed, feeder, pipeline>>

-----------------------------------------------------------------------------
(* Start-up and the configuration.                                         *)

resolvers == <<conn, initial, subscribed, heard, missed, feeder, pipeline>>

\* json.Unmarshal(data, c), its error ignored: a document without a list - one it
\* cannot read, or one whose map has no such key - leaves the list c has.
Merged(v) == IF v \in listed THEN v ELSE config

\* The listener of the configuration is told of a version.
Tell(v) ==
  /\ told' = v
  /\ given' = IF v \in listed THEN v ELSE given

\* The client of the configuration; its error ends the process (log.Fatalf).
NewNacosClient == boot' \in {"client", "fatal"}

\* configcli.SyncConfig makes its client, and goes on with GetConfig and ListenConfig.
SyncConfig ==
  /\ boot = "start"
  /\ NewNacosClient
  /\ UNCHANGED <<kind, listed, source, fetched, config, told, given, callback, early, resolvers>>

GetConfig ==
  /\ boot = "client"
  /\ \/ boot' = "fetched" /\ fetched' = source
     \/ boot' = "fatal" /\ UNCHANGED fetched
  /\ UNCHANGED <<kind, listed, source, config, told, given, callback, early, resolvers>>

\* Mutant: the listener is taken to know what nacos has by now.
MutantListenConfig ==
  /\ boot = "fetched"
  /\ boot' = "listens" /\ Tell(source)
  /\ UNCHANGED <<kind, listed, source, fetched, config, callback, early, resolvers>>

\* The listener starts from what was fetched.
ListenConfig ==
  /\ boot = "fetched"
  /\ \/ boot' = "listens" /\ Tell(fetched)
     \/ boot' = "fatal" /\ UNCHANGED <<told, given>>
  /\ UNCHANGED <<kind, listed, source, fetched, config, callback, early, resolvers>>

Notify ==
  /\ told # NoVersion /\ told < source /\ callback = NoVersion
  /\ callback' = source /\ Tell(source)
  /\ UNCHANGED <<kind, listed, source, boot, fetched, config, early, resolvers>>

\* The callback unmarshals into c under its lock.  Start-up does not take that
\* lock: two writers of one map may end the process.
OnChange ==
  /\ callback # NoVersion /\ boot # "fatal"
  /\ config' = Merged(callback) /\ callback' = NoVersion
  /\ boot' \in {boot} \cup (IF boot = "applies" THEN {"fatal"} ELSE {})
  /\ early' = IF callback \in listed THEN boot = "listens" \/ boot = "applies" ELSE early
  /\ UNCHANGED <<kind, listed, source, fetched, told, given, resolvers>>

\* json.Unmarshal into c without the lock begins ...
Unmarshal ==
  /\ boot = "listens"
  /\ boot' = "applies"
  /\ UNCHANGED <<kind, listed, source, fetched, config, told, given, callback, early, resolvers>>

\* ... and ends; after a callback before that either list may be what is left.
Unmarshaled ==
  /\ boot = "applies"
  /\ boot' = "registry"
  /\ config' \in {Merged(fetched)} \cup (IF early THEN {config} ELSE {})
  /\ UNCHANGED <<kind, listed, source, fetched, told, given, callback, early, resolvers>>

\* Without a registry the process goes on; without a nacos client it ends.
NewRegistry ==
  /\ boot = "registry"
  /\ boot' \in {"registers", "fatal"} \cup (IF kind = "instances" THEN {"up"} ELSE {})
  /\ UNCHANGED <<kind, listed, source, fetched, config, told, given, callback, early, resolvers>>

\* An error of the registration is ignored.  After a registration that succeeds
\* the next line logs through a nil Logger, and the process ends.
InitRegisterInstance ==
  /\ boot = "registers"
  /\ boot' \in {"up", "fatal"}
  /\ UNCHANGED <<kind, listed, source, fetched, config, told, given, callback, early, resolvers>>

-----------------------------------------------------------------------------
(* A resolver.                                                             *)

\* grpc builds a resolver when the one before is gone.
CanBuild(b) ==
  /\ boot = "up" /\ conn[b] = "no"
  /\ \A a \in 1 .. b - 1 : conn[a] \in {"closed", "failed"}

BuildInstances(b) ==
  /\ kind = "instances" /\ CanBuild(b)
  /\ conn' = [conn EXCEPT ![b] = "sends"]
  /\ initial' = [initial EXCEPT ![b] = Whole(config)]
  /\ populate' = [populate EXCEPT ![b] = "runs"]
  /\ UNCHANGED <<kind, listed, source, confVars, subscribed, heard, missed, feeder, offer, held, addresses>>

\* Mutant: Subscribe before the first list is sent.
MutantBuildNacos(b) ==
  /\ kind = "nacos" /\ CanBuild(b)
  /\ conn' = [conn EXCEPT ![b] = "sends"]
  /\ initial' = [initial EXCEPT ![b] = Healthy(source)]
  /\ populate' = [populate EXCEPT ![b] = "runs"]
  /\ subscribed' = [subscribed EXCEPT ![b] = TRUE]
  /\ UNCHANGED <<kind, listed, source, confVars, heard, missed, feeder, offer, held, addresses>>

\* SelectInstances, of the healthy ones; its error is that of Build.
BuildNacos(b) ==
  /\ kind = "nacos" /\ CanBuild(b)
  /\ \/ /\ conn' = [conn EXCEPT ![b] = "sends"]
        /\ initial' = [initial EXCEPT ![b] = Healthy(source)]
        /\ heard' = [heard EXCEPT ![b] = source]
        /\ populate' = [populate EXCEPT ![b] = "runs"]
     \/ /\ conn' = [conn EXCEPT ![b] = "failed"]
        /\ UNCHANGED <<initial, heard, populate>>
  /\ UNCHANGED <<kind, listed, source, confVars, subscribed, missed, feeder, offer, held, addresses>>

\* populateEndpoints receives from Build.
ReceiveInitial(b) ==
  /\ conn[b] = "sends" /\ populate[b] = "runs" /\ held[b] = NoList
  /\ held' = [held EXCEPT ![b] = initial[b]]
  /\ conn' = [conn EXCEPT ![b] = IF kind = "nacos" THEN "subscribes" ELSE "open"]
  /\ feeder' = [feeder EXCEPT ![b] = IF kind = "nacos" THEN "no" ELSE "runs"]
  /\ UNCHANGED <<kind, listed, source, confVars, initial, subscribed, heard, missed, offer, populate, addresses>>

\* An error of Subscribe is only logged: the list then stays as it is.  The client
\* calls back at once, or when there is something else than Build has selected.
Subscribe(b) ==
  /\ conn[b] = "subscribes"
  /\ conn' = [conn EXCEPT ![b] = "open"]
  /\ \E ok \in BOOLEAN : subscribed' = [subscribed EXCEPT ![b] = ok]
  /\ \E v \in {heard[b], NoVersion} : heard' = [heard EXCEPT ![b] = v]
  /\ UNCHANGED <<kind, listed, source, confVars, initial, missed, feeder, pipeline>>

\* The callback of the subscription: it does not ask who is healthy, and with an
\* error it drops the list.
SubscribeCallback(b) ==
  /\ subscribed[b] /\ offer[b] = NoList /\ heard[b] < source
  /\ heard' = [heard EXCEPT ![b] = source]
  /\ \/ /\ offer' = [offer EXCEPT ![b] = Whole(source)]
        /\ missed' = [missed EXCEPT ![b] = FALSE]
     \/ /\ missed' = [missed EXCEPT ![b] = TRUE]
        /\ UNCHANGED offer
  /\ UNCHANGED <<kind, listed, source, confVars, conn, initial, subscribed, feeder, populate, held, addresses>>

\* Mutant: the feeder repeats the list it was built with.
MutantTicker(b) ==
  /\ feeder[b] = "runs" /\ offer[b] = NoList
  /\ offer' = [offer EXCEPT ![b] = initial[b]]
  /\ UNCHANGED <<kind, listed, source, confVars, conn, initial, subscribed, heard, missed, feeder, populate, held, addresses>>

\* ticker.C: b.fn() reads the list under the read lock.
Ticker(b) ==
  /\ feeder[b] = "runs" /\ offer[b] = NoList
  /\ offer' = [offer EXCEPT ![b] = Whole(config)]
  /\ UNCHANGED <<kind, listed, source, confVars, conn, initial, subscribed, heard, missed, feeder, populate, held, addresses>>

\* populateEndpoints receives from the feeder or from the callback.
Receive(b) ==
  /\ populate[b] = "runs" /\ held[b] = NoList /\ offer[b] # NoList
  /\ held' = [held EXCEPT ![b] = offer[b]]
  /\ offer' = [offer EXCEPT ![b] = NoList]
  /\ UNCHANGED <<kind, listed, source, confVars, conn, initial, subscribed, heard, missed, feeder, populate, addresses>>

\* grpc ignores the state of a resolver it has closed.
UpdateState(b) ==
  /\ held[b] # NoList
  /\ held' = [held EXCEPT ![b] = NoList]
  /\ addresses' = IF conn[b] = "closed" THEN addresses ELSE [addresses EXCEPT ![b] = held[b]]
  /\ UNCHANGED <<kind, listed, source, confVars, conn, initial, subscribed, heard, missed, feeder, offer, populate>>

\* Unsubscribe, or close(closeCh); then cancel.
CloseResolver(b) ==
  /\ conn[b] = "open"
  /\ conn' = [conn EXCEPT ![b] = "closed"]
  /\ subscribed' = [subscribed EXCEPT ![b] = FALSE]
  /\ UNCHANGED <<kind, listed, source, confVars, initial, heard, missed, feeder, pipeline>>

\* Mutant: the inner select of the feeder and of the callback has no ctx.Done.
MutantFeederEnds(b) ==
  /\ conn[b] = "closed" /\ feeder[b] = "runs" /\ offer[b] = NoList
  /\ feeder' = [feeder EXCEPT ![b] = "ended"]
  /\ UNCHANGED <<kind, listed, source, confVars, conn, initial, subscribed, heard, missed, pipeline>>

\* ctx.Done in a select of the feeder or of the callback.
FeederEnds(b) ==
  /\ conn[b] = "closed" /\ (feeder[b] = "runs" \/ offer[b] # NoList)
  /\ feeder' = [feeder EXCEPT ![b] = "ended"]
  /\ offer' = [offer EXCEPT ![b] = NoList]
  /\ UNCHANGED <<kind, listed, source, confVars, conn, initial, subscribed, heard, missed, populate, held, addresses>>

\* ctx.Done in populateEndpoints.
PopulateEnds(b) ==
  /\ conn[b] = "closed" /\ populate[b] = "runs" /\ held[b] = NoList
  /\ populate' = [populate EXCEPT ![b] = "ended"]
  /\ UNCHANGED <<kind, listed, source, confVars, conn, initial, subscribed, heard, missed, feeder, offer, held, addresses>>

BootStep ==
  \/ SyncConfig \/ GetConfig \/ ListenConfig \/ Unmarshal \/ Unmarshaled
  \/ NewRegistry \/ InitRegisterInstance \/ Notify \/ OnChange

ResolverStep(b) ==
  \/ BuildInstances(b) \/ BuildNacos(b) \/ ReceiveInitial(b) \/ Subscribe(b)
  \/ SubscribeCallback(b) \/ Ticker(b) \/ Receive(b) \/ UpdateState(b)
  \/ CloseResolver(b) \/ FeederEnds(b) \/ PopulateEnds(b)

DiscNext == SourceChanges \/ BootStep \/ \E b \in Builds : ResolverStep(b)

\* Goroutines are scheduled, timers fire, nacos tells what has changed.
DiscFairness ==
  /\ WF_discVars(Notify) /\ WF_discVars(OnChange)
  /\ \A b \in Builds :
       /\ WF_discVars(SubscribeCallback(b)) /\ WF_discVars(Ticker(b))
       /\ WF_discVars(Receive(b)) /\ WF_discVars(UpdateState(b))
       /\ WF_discVars(FeederEnds(b)) /\ WF_discVars(PopulateEnds(b))

DiscSpec == DiscInit /\ [][DiscNext]_discVars /\ DiscFairness

-----------------------------------------------------------------------------
(* Properties.                                                             *)

\* The types of the state of the configuration and the resolvers
\* (servicecontext.go:32-65, instances/builder.go:18-49, rpcn/builder.go:23-77).
DiscTypeOK ==
  /\ kind \in {"instances", "nacos"} /\ early \in BOOLEAN
  /\ boot \in {"start", "client", "fetched", "listens", "applies", "registry", "registers", "up", "fatal"}
  /\ {source, fetched, config, told, given, callback} \subseteq Versions
  /\ listed \subseteq Versions \ {NoVersion}
  /\ conn \in [Builds -> {"no", "failed", "sends", "subscribes", "open", "closed"}]
  /\ {subscribed, missed} \subseteq [Builds -> BOOLEAN]
  /\ {feeder, populate} \subseteq [Builds -> {"no", "runs", "ended"}]
  /\ heard \in [Builds -> Versions]
  /\ {initial, offer, held, addresses} \subseteq [Builds -> Lists]

\* Once a service is up and no callback runs, its list is from the last document
\* its listener was told that has one, changes between GetConfig and ListenConfig
\* included: documents that cannot be read or have no such key leave it alone, and
\* only start-up, which applies what it fetched without the lock, can put an older
\* one over that of a callback, until the next document with a list comes
\* (configcli/nacos/nacosClient.go:55-73, iotws servicecontext.go:33-43).
ConfigIsLatest ==
  kind = "instances" /\ boot = "up" /\ callback = NoVersion =>
    config = given \/ (early /\ config = fetched /\ fetched \in listed)

\* The lists with which a resolver is up to date.
Current ==
  IF kind = "nacos" THEN {Healthy(source), Whole(source)}
  ELSE IF source \in listed /\ ~(early /\ given = source) THEN {Whole(source)} ELSE {Whole(config)}

\* The addresses of an open resolver catch up with the registry, or with the
\* configuration and this with a document that has a list, over versions that
\* change while others are on their way through the pipe; unless Subscribe failed,
\* or the last callback of the registry came with an error
\* (instances/builder.go:29-46, rpcn/builder.go:48-67, servicecontext.go:33-43).
AddressesCatchUp ==
  \A b \in Builds :
    conn[b] = "open" /\ (kind = "nacos" => subscribed[b])
      ~> addresses[b] \in Current \/ missed[b] \/ conn[b] = "closed"

\* No address list of a connection is replaced by an older one, and none of the
\* callback by the healthy ones of Build: the first list and those of the ticker or
\* the callback share one pipe (rpcn/builder.go:45-67).
NeverBack == [][\A b \in Builds : addresses[b] <= addresses'[b]]_discVars

\* A closed resolver leaves no goroutine behind, wherever its feeder, its callback
\* and populateEndpoints were (instances/resolver.go:18-42, rpcn/resolver.go:19-45).
NoGoroutineLeft ==
  \A b \in Builds :
    conn[b] = "closed" ~> feeder[b] # "runs" /\ populate[b] = "ended" /\ offer[b] = NoList
=============================================================================
