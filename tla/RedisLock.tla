------------------------------ MODULE RedisLock ------------------------------
(***************************************************************************)
(* pkg/cache/lock.go: the lock in redis.  Lock sets the key with NX and a  *)
(* time to live, BlockUntilLock repeats it until a time limit, and Unlock  *)
(* deletes the key without looking whose it is (the value is "").          *)
(* Nothing in the repository calls it: the clients are any callers that    *)
(* unlock what they locked, after any time.                                *)
(***************************************************************************)
EXTENDS Integers, FiniteSets

CONSTANTS
  Clients,
  NoClient,
  MaxWait,   \* ticks of maxWaitTime (5 s)
  LockTime   \* ticks of LockTimne (10 s)

ASSUME LockAssumption ==
  /\ NoClient \notin Clients
  /\ MaxWait \in Nat \ {0} /\ LockTime \in Nat /\ LockTime > MaxWait

VARIABLES
  lockKey,   \* whose SET made the key, or NoClient when there is no key
  age,       \* ticks since the key was set
  locker,    \* client -> where it is
  waited,    \* client -> ticks since it called BlockUntilLock
  outlived   \* history: a key has expired while its client held the lock

lockVars == <<lockKey, age, locker, waited, outlived>>

LockInit ==
  /\ lockKey = NoClient /\ age = 0
  /\ locker = [c \in Clients |-> "idle"]
  /\ waited = [c \in Clients |-> 0]
  /\ outlived = FALSE

-----------------------------------------------------------------------------

\* Mutant: SET without NX.
MutantLock(c, answered) ==
  /\ lockKey' = c /\ age' = 0
  /\ locker' = IF answered THEN [locker EXCEPT ![c] = "held"] ELSE locker

\* SET NX as it takes effect; its answer may be lost, and the caller then has an error.
Lock(c, answered) ==
  /\ lockKey = NoClient
  /\ lockKey' = c /\ age' = 0
  /\ locker' = IF answered THEN [locker EXCEPT ![c] = "held"] ELSE locker

\* Lock called alone.  Refused, it changes nothing.
TryLock(c) ==
  /\ locker[c] = "idle"
  /\ \E answered \in BOOLEAN : Lock(c, answered)
  /\ UNCHANGED <<waited, outlived>>

BlockUntilLock(c) ==
  /\ locker[c] = "idle"
  /\ locker' = [locker EXCEPT ![c] = "waits"]
  /\ waited' = [waited EXCEPT ![c] = 0]
  /\ UNCHANGED <<lockKey, age, outlived>>

\* A round of the loop that finds no key: taken, or set with the answer lost.
\* The next rounds of the same call then find the caller's own key.
Retry(c) ==
  /\ locker[c] = "waits"
  /\ \E answered \in BOOLEAN : Lock(c, answered)
  /\ UNCHANGED <<waited, outlived>>

\* timeoutCtx is done: BlockUntilLock returns an error.
GiveUp(c) ==
  /\ locker[c] = "waits" /\ waited[c] = MaxWait
  /\ locker' = [locker EXCEPT ![c] = "idle"]
  /\ UNCHANGED <<lockKey, age, waited, outlived>>

\* DEL takes effect, or fails; the caller goes on either way.
Unlock(c) ==
  /\ locker[c] = "held"
  /\ locker' = [locker EXCEPT ![c] = "idle"]
  /\ \/ lockKey' = NoClient /\ age' = 0
     \/ UNCHANGED <<lockKey, age>>
  /\ UNCHANGED <<waited, outlived>>

\* Time: a key older than LockTime expires, and a waiter past its limit gives up first.
Tick ==
  /\ \A c \in Clients : locker[c] = "waits" => waited[c] < MaxWait
  /\ waited' = [c \in Clients |-> IF locker[c] = "waits" THEN waited[c] + 1 ELSE waited[c]]
  /\ IF lockKey # NoClient /\ age + 1 >= LockTime
       THEN /\ lockKey' = NoClient /\ age' = 0
            /\ outlived' = (outlived \/ locker[lockKey] = "held")
       ELSE /\ age' = IF lockKey = NoClient THEN age ELSE age + 1
            /\ UNCHANGED <<lockKey, outlived>>
  /\ UNCHANGED locker

LockStep(c) ==
  \/ TryLock(c) \/ BlockUntilLock(c) \/ Retry(c) \/ GiveUp(c) \/ Unlock(c)

LockNext ==
  \/ \E c \in Clients : LockStep(c)
  \/ Tick

\* Time passes, and a select on a context that is done returns.
LockFairness ==
  /\ WF_lockVars(Tick)
  /\ \A c \in Clients : WF_lockVars(GiveUp(c))

LockSpec == LockInit /\ [][LockNext]_lockVars /\ LockFairness

-----------------------------------------------------------------------------
(* Properties.                                                             *)

\* The types of the lock's state (lock.go:17-64).
LockTypeOK ==
  /\ lockKey \in Clients \cup {NoClient}
  /\ age \in 0 .. LockTime
  /\ locker \in [Clients -> {"idle", "waits", "held"}]
  /\ waited \in [Clients -> 0 .. MaxWait]
  /\ outlived \in BOOLEAN

\* The lock excludes until somebody holds it longer than its key lives: before
\* that, lost answers and failed deletes included, there is one holder at most
\* and the key is his, so no Unlock deletes another client's key (lock.go:20
\* NX and TTL, lock.go:59 DEL).
OneHolderUntilOutlived ==
  ~outlived => \A c \in Clients : locker[c] = "held" => lockKey = c

\* The key always goes away: the SET of a waiter does not renew it, a client that
\* never learned that it has the lock or never unlocks does not keep it
\* (lock.go:18-26, 37-52).
KeyExpires == lockKey # NoClient ~> lockKey = NoClient
=============================================================================
