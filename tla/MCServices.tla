----------------------------- MODULE MCServices -----------------------------
(***************************************************************************)
(* One model for RedisLock, Balance, LogPipe and Discovery.  They share no *)
(* state, so their product would show nothing that the four do not: `part` *)
(* says which of them runs, and the others stay in one initial state.      *)
(***************************************************************************)
EXTENDS RedisLock, Balance, LogPipe, Discovery

CONSTANTS c1, c2, c3, s1, s2, s3, s4, g1, g2, info, error

VARIABLE part

servicesVars == <<part, lockVars, balanceVars, pipeVars, discVars>>

OthersThanLock == <<part, balanceVars, pipeVars, discVars>>
OthersThanBalance == <<part, lockVars, pipeVars, discVars>>
OthersThanPipe == <<part, lockVars, balanceVars, discVars>>
OthersThanDisc == <<part, lockVars, balanceVars, pipeVars>>

ServicesInit ==
  /\ part \in {"lock", "balance", "log", "discovery"}
  /\ LockInit /\ BalanceInit /\ PipeInit /\ DiscInit
  /\ part = "balance" \/ (lastat = "none" /\ \A s \in Servers : conns[s] = 0)
  /\ part = "log" \/ mode = "direct"
  /\ part = "discovery" \/ kind = "nacos"

ServicesNext ==
  \/ part = "lock" /\ LockNext /\ UNCHANGED OthersThanLock
  \/ part = "balance" /\ BalanceNext /\ UNCHANGED OthersThanBalance
  \/ part = "log" /\ PipeNext /\ UNCHANGED OthersThanPipe
  \/ part = "discovery" /\ DiscNext /\ UNCHANGED OthersThanDisc

\* The fairness of each component, as long as it is the one that runs.
InLock(A) == part = "lock" /\ A /\ UNCHANGED OthersThanLock
InPipe(A) == part = "log" /\ A /\ UNCHANGED OthersThanPipe
InDisc(A) == part = "discovery" /\ A /\ UNCHANGED OthersThanDisc

ServicesFairness ==
  /\ WF_servicesVars(InLock(Tick)) /\ \A c \in Clients : WF_servicesVars(InLock(GiveUp(c)))
  /\ WF_servicesVars(InPipe(Take \/ Timer \/ Stop)) /\ WF_servicesVars(InPipe(Push)) /\ WF_servicesVars(InPipe(Closed))
  /\ WF_servicesVars(InDisc(Notify)) /\ WF_servicesVars(InDisc(OnChange))
  /\ \A b \in Builds :
       /\ WF_servicesVars(InDisc(SubscribeCallback(b))) /\ WF_servicesVars(InDisc(Ticker(b))) /\ WF_servicesVars(InDisc(Receive(b)))
       /\ WF_servicesVars(InDisc(UpdateState(b))) /\ WF_servicesVars(InDisc(FeederEnds(b))) /\ WF_servicesVars(InDisc(PopulateEnds(b)))

ServicesSpec == ServicesInit /\ [][ServicesNext]_servicesVars /\ ServicesFairness

-----------------------------------------------------------------------------

\* The types of the four components (lock.go, iotwsBalancedlogic.go and
\* wsBalancedlogic.go, promtail/client.go and logbridge.go, the two resolvers).
ServicesTypeOK == LockTypeOK /\ BalanceTypeOK /\ PipeTypeOK /\ DiscTypeOK
=============================================================================
