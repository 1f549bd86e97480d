--------------------------- MODULE ServicesProofs ---------------------------
(***************************************************************************)
(* Theorems about RedisLock, for any clients and any limits, and about the *)
(* model of all four services: each of them keeps its own inductive        *)
(* invariant there, as the others leave its variables alone.               *)
(***************************************************************************)
EXTENDS MCServices, BalanceProofs, LogPipeProofs, DiscoveryProofs

-----------------------------------------------------------------------------
(* The lock.                                                               *)

LEMMA LockInitHolds == LockInit => LockTypeOK /\ OneHolderUntilOutlived
<1>1. 0 \in 0 .. LockTime /\ 0 \in 0 .. MaxWait
  BY LockAssumption
<1> QED
  BY <1>1, LockAssumption DEF LockInit, LockTypeOK, OneHolderUntilOutlived

\* A SET NX keeps the holder to the one whose key it is: it needs that there is
\* no key, and then nobody holds the lock.
LEMMA LockKeeps ==
  ASSUME LockTypeOK, OneHolderUntilOutlived, NEW c \in Clients, NEW answered \in BOOLEAN,
         Lock(c, answered), UNCHANGED <<waited, outlived>>
  PROVE  LockTypeOK' /\ OneHolderUntilOutlived'
<1>1. LockTypeOK'
  BY LockAssumption DEF Lock, LockTypeOK
<1>2. OneHolderUntilOutlived'
  <2> SUFFICES ASSUME ~outlived', NEW d \in Clients, locker'[d] = "held"
               PROVE  lockKey' = d
    BY DEF OneHolderUntilOutlived
  <2>1. locker[d] # "held"
    BY LockAssumption DEF OneHolderUntilOutlived, Lock
  <2>2. d = c
    BY <2>1 DEF Lock, LockTypeOK
  <2> QED
    BY <2>2 DEF Lock
<1> QED
  BY <1>1, <1>2

LEMMA LockStepKeeps ==
  LockTypeOK /\ OneHolderUntilOutlived /\ [LockNext]_lockVars
    => LockTypeOK' /\ OneHolderUntilOutlived'
<1> SUFFICES ASSUME LockTypeOK, OneHolderUntilOutlived, [LockNext]_lockVars
             PROVE  LockTypeOK' /\ OneHolderUntilOutlived'
  OBVIOUS
<1>1. ASSUME NEW c \in Clients, TryLock(c)
      PROVE  LockTypeOK' /\ OneHolderUntilOutlived'
  BY <1>1, LockKeeps DEF TryLock
<1>2. ASSUME NEW c \in Clients, BlockUntilLock(c)
      PROVE  LockTypeOK' /\ OneHolderUntilOutlived'
  BY <1>2, LockAssumption DEF BlockUntilLock, LockTypeOK, OneHolderUntilOutlived
<1>3. ASSUME NEW c \in Clients, Retry(c)
      PROVE  LockTypeOK' /\ OneHolderUntilOutlived'
  BY <1>3, LockKeeps DEF Retry
<1>4. ASSUME NEW c \in Clients, GiveUp(c)
      PROVE  LockTypeOK' /\ OneHolderUntilOutlived'
  BY <1>4 DEF GiveUp, LockTypeOK, OneHolderUntilOutlived
\* DEL: the key that goes is the holder's own.
<1>5. ASSUME NEW c \in Clients, Unlock(c)
      PROVE  LockTypeOK' /\ OneHolderUntilOutlived'
  BY <1>5, LockAssumption DEF Unlock, LockTypeOK, OneHolderUntilOutlived
<1>6. ASSUME Tick
      PROVE  LockTypeOK' /\ OneHolderUntilOutlived'
  <2>1. LockTypeOK'
    <3>1. lockKey' \in Clients \cup {NoClient} /\ age' \in 0 .. LockTime
      BY <1>6, LockAssumption DEF Tick, LockTypeOK
    <3>2. waited' \in [Clients -> 0 .. MaxWait]
      <4>1. \A c \in Clients : locker[c] = "waits" => waited[c] + 1 \in 0 .. MaxWait
        BY <1>6, LockAssumption DEF Tick, LockTypeOK
      <4> QED
        BY <1>6, <4>1 DEF Tick, LockTypeOK
    <3>3. outlived' \in BOOLEAN /\ locker' \in [Clients -> {"idle", "waits", "held"}]
      BY <1>6, Zenon DEF Tick, LockTypeOK
    <3> QED
      BY <3>1, <3>2, <3>3 DEF LockTypeOK
  <2>2. OneHolderUntilOutlived'
    BY <1>6, LockAssumption DEF Tick, LockTypeOK, OneHolderUntilOutlived
  <2> QED
    BY <2>1, <2>2
<1>7. CASE UNCHANGED lockVars
  BY <1>7 DEF lockVars, LockTypeOK, OneHolderUntilOutlived
<1> QED
  BY <1>1, <1>2, <1>3, <1>4, <1>5, <1>6, <1>7 DEF LockNext, LockStep

\* lock.go:17-64 keeps to its types.
THEOREM LockTypeCorrect == LockSpec => []LockTypeOK
<1>1. LockSpec => [](LockTypeOK /\ OneHolderUntilOutlived)
  BY LockInitHolds, LockStepKeeps, PTL DEF LockSpec
<1> QED
  BY <1>1, PTL

\* Mutual exclusion of lock.go:17-64 while nobody outlives the key: it is inductive
\* with the types, as an expired key is either nobody's or counted in `outlived`.
THEOREM LockExcludes == LockSpec => []OneHolderUntilOutlived
<1>1. LockSpec => [](LockTypeOK /\ OneHolderUntilOutlived)
  BY LockInitHolds, LockStepKeeps, PTL DEF LockSpec
<1> QED
  BY <1>1, PTL

\* A key that is there has not come to its time to live.
AgeInv == lockKey # NoClient => age < LockTime

\* While a key lives nobody renews it or takes it over, and time brings it nearer to
\* its end.
KeyOnlyAges ==
  lockKey # NoClient /\ lockKey' # NoClient =>
    lockKey' = lockKey /\ age' \in {age, age + 1} /\ (Tick => age' = age + 1)

LEMMA KeyAges ==
  LockTypeOK /\ AgeInv /\ [LockNext]_lockVars => AgeInv' /\ [KeyOnlyAges]_lockVars
<1> SUFFICES ASSUME LockTypeOK, AgeInv, [LockNext]_lockVars PROVE AgeInv' /\ [KeyOnlyAges]_lockVars
  OBVIOUS
<1>0. age \in Nat /\ LockTime \in Nat /\ 0 < LockTime
  BY LockAssumption DEF LockTypeOK
<1>1. ASSUME Tick PROVE AgeInv' /\ KeyOnlyAges
  BY <1>0, <1>1 DEF Tick, AgeInv, KeyOnlyAges
<1>2. ASSUME NEW c \in Clients, LockStep(c)
      PROVE  \/ lockKey' = lockKey /\ age' = age
             \/ lockKey = NoClient /\ age' = 0
             \/ lockKey' = NoClient
  BY <1>2 DEF LockStep, TryLock, BlockUntilLock, Retry, GiveUp, Unlock, Lock
<1>3. CASE UNCHANGED lockVars
  BY <1>3 DEF lockVars, AgeInv
<1>4. ASSUME ~Tick, NEW c \in Clients, LockStep(c) PROVE AgeInv' /\ KeyOnlyAges
  BY <1>0, <1>2, <1>4 DEF AgeInv, KeyOnlyAges
<1> QED
  BY <1>1, <1>3, <1>4 DEF LockNext

\* A key lives for LockTime ticks at most, whatever waiters, lost answers and failed
\* deletes there are: nobody renews it (lock.go:18-26, 37-52).
THEOREM KeyIsBounded == LockSpec => []AgeInv /\ [][KeyOnlyAges]_lockVars
<1>1. LockInit => AgeInv
  BY DEF LockInit, AgeInv
<1>2. LockSpec => [](LockTypeOK /\ OneHolderUntilOutlived)
  BY LockInitHolds, LockStepKeeps, PTL DEF LockSpec
<1> QED
  BY <1>1, <1>2, KeyAges, PTL DEF LockSpec

-----------------------------------------------------------------------------
(* The four services.                                                      *)

LockInv == LockTypeOK /\ OneHolderUntilOutlived
ServicesInv == LockInv /\ BalanceInv /\ PipeInv /\ DiscInv

\* A step of one is a step of its own or none for each of the others.
LEMMA ServicesStep ==
  [ServicesNext]_servicesVars =>
    /\ [LockNext]_lockVars /\ [BalanceNext]_balanceVars
    /\ [PipeNext]_pipeVars /\ [DiscNext]_discVars
  BY DEF ServicesNext, servicesVars, OthersThanLock, OthersThanBalance, OthersThanPipe, OthersThanDisc

LEMMA ServicesKeep == ServicesInv /\ [ServicesNext]_servicesVars => ServicesInv'
  BY ServicesStep, LockStepKeeps, StepBalanced, PipeStepKeeps, DiscStepKeeps DEF ServicesInv, LockInv

LEMMA ServicesHold == ServicesSpec => []ServicesInv
<1>1. ServicesInit => ServicesInv
  BY LockInitHolds, InitBalanced, PipeInitHolds, DiscInitHolds DEF ServicesInit, ServicesInv, LockInv
<1> QED
  BY <1>1, ServicesKeep, PTL DEF ServicesSpec

\* The four services keep to their types side by side (lock.go, iotwsBalancedlogic.go
\* and wsBalancedlogic.go, promtail/client.go and logbridge.go, the two resolvers).
THEOREM ServicesTypeCorrect == ServicesSpec => []ServicesTypeOK
<1>1. ServicesInv => ServicesTypeOK
  BY TypesAreRight DEF ServicesInv, LockInv, BalanceInv, PipeInv, DiscInv, ServicesTypeOK
<1> QED
  BY <1>1, ServicesHold, PTL

\* What each of them keeps alone it keeps in the model of all four: the lock, the
\* planner and its workers, the log writers and the resolvers share no variable
\* (iotcron, iotws and iotlogbridge are processes of their own, lock.go is called by
\* none of them).
THEOREM ServicesAreSafe ==
  ServicesSpec =>
    /\ [](/\ OneHolderUntilOutlived /\ DeficitAccounted /\ ReceiverWithinMean
          /\ InOrderOnce /\ AcceptedIsAccounted /\ ConfigIsLatest)
    /\ QuietAfterClose /\ NeverBack
<1>1. ServicesInv => /\ OneHolderUntilOutlived /\ DeficitAccounted /\ ReceiverWithinMean
                     /\ InOrderOnce /\ AcceptedIsAccounted /\ ConfigIsLatest
  BY BalancedIsWithinMean, PipeIsInOrder
     DEF ServicesInv, LockInv, BalanceInv, PipeInv, DiscInv, DiscTypeOK, Started, Pending, ConfigIsLatest
<1>2. ServicesInv /\ [ServicesNext]_servicesVars =>
        /\ [mode = "direct" /\ closing = "done" => UNCHANGED <<remote, failed>>]_pipeVars
        /\ [\A b \in Builds : addresses[b] <= addresses'[b]]_discVars
  BY ServicesStep, PipeStepIsQuiet, ListsGrow DEF ServicesInv
<1> QED
  BY <1>1, <1>2, ServicesHold, PTL DEF ServicesSpec, QuietAfterClose, NeverBack
==============================================================================
