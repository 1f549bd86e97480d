------------------------------- MODULE Balance -------------------------------
(***************************************************************************)
(* The balance of connections between the iotws servers: the planner of    *)
(* iotcron that says who gives connections to whom                         *)
(* (iotwsBalancedlogic.go), and the worker of a server that tells devices  *)
(* to go elsewhere (wsBalancedlogic.go, connection.go).                    *)
(*                                                                         *)
(* Two links are missing in src/ and are external here: nothing calls      *)
(* IotwsBalanced, which the model calls with a map from servers to numbers *)
(* of connections, true or stale, and nothing hands its messages           *)
(* (cache/publish.go) to the asynq worker that decodes them.  A device     *)
(* told to go elsewhere goes there.                                        *)
(***************************************************************************)
EXTENDS Integers, FiniteSets, Sequences, Functions, FiniteSetsExt

CONSTANTS
  Servers,
  Numbers,     \* numbers of connections a server may start with, or be thought to have
  MaxRounds    \* bound: runs of the planner

ASSUME BalanceAssumption ==
  /\ IsFiniteSet(Servers) /\ Numbers \subseteq Nat /\ MaxRounds \in Nat

VARIABLES
  conns,     \* server -> its connections: c.count and the table
  lastat,    \* the key of the last balance: "none", "recent" or "old"
  planner,   \* where the planner is
  seen,      \* wsBalancedMap
  deficit,   \* receiveWsserver
  sender,    \* the server of the outer loop, with what it has left to give
  senders,   \* disconnectWsserver without those the outer loop has done
  todo,      \* receivers the inner loop has not seen yet
  plan,      \* server -> its message: receivers and amounts, in order
  tasks,     \* messages the workers have still to process
  rounds,
  exact      \* history: the numbers were right, and no task was repeated or late

planVars == <<seen, deficit, sender, senders, todo, plan>>
balanceVars == <<conns, lastat, planner, planVars, tasks, rounds, exact>>

SumOf(f) == FoldFunction(+, 0, f)
NoSender == [name |-> "none", left |-> 0]
NoPlan == [s \in Servers |-> <<>>]

BalanceInit ==
  /\ conns \in [Servers -> Numbers]
  /\ lastat \in {"none", "old"}
  /\ planner = "idle"
  /\ seen = <<>> /\ deficit = <<>>
  /\ sender = NoSender /\ senders = <<>> /\ todo = {}
  /\ plan = NoPlan /\ tasks = {}
  /\ rounds = 0 /\ exact = TRUE

-----------------------------------------------------------------------------
(* iotwsBalancedlogic.go: the planner.                                     *)

\* Five minutes pass.
LastatAges ==
  /\ lastat = "recent"
  /\ lastat' = "old"
  /\ UNCHANGED <<conns, planner, planVars, tasks, rounds, exact>>

\* A missing or recent time ends it, and so does KEYS: its pattern has no wildcard,
\* no server's key is the bare prefix, and there is nothing to read and remove.
TryBalance ==
  /\ planner = "idle" /\ lastat = "old" /\ rounds < MaxRounds
  /\ rounds' = rounds + 1
  /\ UNCHANGED <<conns, lastat, planner, planVars, tasks, exact>>

MeanOf(f) == SumOf(f) \div Cardinality(DOMAIN f)
Mean == MeanOf(seen)
Offset(mean) == mean \div 5

\* Mutant: receivers are filled up to the end of the range instead of the mean.
MutantIotwsBalanced(f) ==
  /\ planner = "idle" /\ rounds < MaxRounds
  /\ DOMAIN f # {} /\ Offset(MeanOf(f)) > 20
  /\ rounds' = rounds + 1 /\ planner' = "plans" /\ seen' = f /\ plan' = NoPlan
  /\ exact' = (tasks = {} /\ \A s \in DOMAIN f : f[s] = conns[s])
  /\ LET mean == MeanOf(f) offset == Offset(mean) IN
     /\ deficit' = [s \in {x \in DOMAIN f : f[x] < mean - offset} |-> mean + offset - f[s]]
     /\ senders' = [s \in {x \in DOMAIN f : f[x] > mean + offset} |-> f[s] - mean]
  /\ UNCHANGED <<conns, lastat, sender, todo, tasks>>

\* IotwsBalanced with the map f and its sum: the division by zero of an empty map,
\* the return when a fifth of the mean is 20 or less, the servers out of range.
IotwsBalanced(f) ==
  /\ planner = "idle" /\ rounds < MaxRounds
  /\ rounds' = rounds + 1 /\ seen' = f /\ plan' = NoPlan
  /\ exact' = (tasks = {} /\ \A s \in DOMAIN f : f[s] = conns[s])
  /\ IF DOMAIN f = {} \/ Offset(MeanOf(f)) <= 20
       THEN /\ planner' = IF DOMAIN f = {} THEN "panic" ELSE "idle"
            /\ deficit' = <<>> /\ senders' = <<>>
       ELSE LET mean == MeanOf(f) offset == Offset(mean) IN
            /\ planner' = "plans"
            /\ deficit' = [s \in {x \in DOMAIN f : f[x] < mean - offset} |-> mean - f[s]]
            /\ senders' = [s \in {x \in DOMAIN f : f[x] > mean + offset} |-> f[s] - mean]
  /\ UNCHANGED <<conns, lastat, sender, todo, tasks>>

\* The outer loop, in the order of a map: any.
NextSender(s) ==
  /\ planner = "plans" /\ todo = {} /\ s \in DOMAIN senders
  /\ sender' = [name |-> s, left |-> senders[s]]
  /\ senders' = Restrict(senders, DOMAIN senders \ {s})
  /\ todo' = DOMAIN deficit
  /\ UNCHANGED <<conns, lastat, planner, seen, deficit, plan, tasks, rounds, exact>>

\* Mutant: the branch that satisfies the sender leaves the receiver's deficit.
MutantGive(r) ==
  /\ planner = "plans" /\ r \in todo
  /\ todo' = todo \ {r}
  /\ LET amount == IF deficit[r] < sender.left THEN deficit[r] ELSE sender.left IN
     IF amount = 0 THEN UNCHANGED <<deficit, sender, plan>>
     ELSE /\ deficit' = IF deficit[r] < sender.left THEN [deficit EXCEPT ![r] = 0] ELSE deficit
          /\ sender' = IF deficit[r] < sender.left
                         THEN [sender EXCEPT !.left = @ - amount] ELSE sender
          /\ plan' = [plan EXCEPT ![sender.name] = Append(@, [to |-> r, amount |-> amount])]
  /\ UNCHANGED <<conns, lastat, planner, seen, senders, tasks, rounds, exact>>

\* The inner loop.  The branch that places all of the sender's excess does not
\* end the loop and leaves totalws as it is: the next receiver gets it again.
Give(r) ==
  /\ planner = "plans" /\ r \in todo
  /\ todo' = todo \ {r}
  /\ LET amount == IF deficit[r] < sender.left THEN deficit[r] ELSE sender.left IN
     IF deficit[r] = 0 THEN UNCHANGED <<deficit, sender, plan>>
     ELSE /\ deficit' = [deficit EXCEPT ![r] = @ - amount]
          /\ sender' = IF deficit[r] < sender.left
                         THEN [sender EXCEPT !.left = @ - amount] ELSE sender
          /\ plan' = [plan EXCEPT ![sender.name] = Append(@, [to |-> r, amount |-> amount])]
  /\ UNCHANGED <<conns, lastat, planner, seen, senders, tasks, rounds, exact>>

\* A message for every server that has to give.
Publish ==
  /\ planner = "plans" /\ todo = {} /\ DOMAIN senders = {}
  /\ planner' = "idle"
  /\ tasks' = tasks \cup {[at |-> s, mean |-> Mean, parts |-> plan[s]] :
                         s \in {x \in DOMAIN seen : seen[x] > Mean + Offset(Mean)}}
  /\ UNCHANGED <<conns, lastat, planVars, rounds, exact>>

-----------------------------------------------------------------------------
(* wsBalancedlogic.go: the worker of server m.at with the message m.       *)

Before(m, i) == SumOf([j \in 1 .. i - 1 |-> m.parts[j].amount])

\* The connections told to go to the i-th receiver.  GetConnByCount leaves the
\* first slot nil and fills the others while there are connections: the slots
\* from Before(m, i) on that are the i-th receiver's, and are filled.
Told(m, i) ==
  Cardinality(Before(m, i) .. Before(m, i) + m.parts[i].amount - 1 \cap 1 .. conns[m.at])

PartsOf(parts, r) == {i \in DOMAIN parts : parts[i].to = r}

\* The connections of m.at that go to server r.
Moves(m, r) == SumOf([i \in PartsOf(m.parts, r) |-> Told(m, i)])

\* ProcessTask: nothing when less than 20 above the mean (the test in per cent
\* divides before it subtracts and always passes); the messages; SET lastat,
\* whose failure makes asynq run the whole task again.
ProcessTask(m) ==
  /\ m \in tasks
  /\ IF conns[m.at] - m.mean < 20
       THEN /\ tasks' = tasks \ {m}
            /\ UNCHANGED <<conns, lastat, exact>>
       ELSE LET moved == [r \in Servers |-> Moves(m, r)] IN
            /\ conns' = [r \in Servers |->
                            IF r = m.at THEN conns[r] - SumOf(moved) ELSE conns[r] + moved[r]]
            /\ \/ tasks' = tasks \ {m} /\ lastat' = "recent" /\ UNCHANGED exact
               \/ exact' = FALSE /\ UNCHANGED <<tasks, lastat>>
  /\ UNCHANGED <<planner, planVars, rounds>>

BalanceNext ==
  \/ \E s \in Servers : NextSender(s) \/ Give(s)
  \/ \E S \in SUBSET Servers : \E f \in [S -> Numbers] : IotwsBalanced(f)
  \/ LastatAges \/ TryBalance \/ Publish
  \/ \E m \in tasks : ProcessTask(m)

BalanceSpec == BalanceInit /\ [][BalanceNext]_balanceVars

-----------------------------------------------------------------------------
(* Properties.                                                             *)

\* The types of the state of the planner and the workers (iotwsBalancedlogic.go:31-114,
\* wsBalancedlogic.go:32-85).
BalanceTypeOK ==
  /\ conns \in [Servers -> Nat]
  /\ lastat \in {"none", "recent", "old"}
  /\ planner \in {"idle", "plans", "panic"}
  /\ todo \subseteq Servers
  /\ \A f \in {seen, deficit, senders} : DOMAIN f \subseteq Servers /\ \A s \in DOMAIN f : f[s] \in Nat
  /\ sender = NoSender \/ sender \in [name : Servers, left : Nat]
  /\ \A s \in Servers : plan[s] \in Seq([to : Servers, amount : Nat])
  /\ \A m \in tasks : m.at \in Servers /\ m.mean \in Nat
  /\ rounds \in 0 .. MaxRounds /\ exact \in BOOLEAN

\* What the messages have for receiver r, and the plan so far.
Amount(parts, r) == SumOf([i \in PartsOf(parts, r) |-> parts[i].amount])
Given(r) == SumOf([s \in Servers |-> Amount(plan[s], r)])

\* Whatever the order of the maps, what is still open of a receiver and what the
\* senders were told to give it make up exactly what it lacks to the mean: no
\* receiver is promised to two senders (iotwsBalancedlogic.go:79-95).
DeficitAccounted ==
  planner = "plans" => \A r \in DOMAIN deficit : deficit[r] + Given(r) = Mean - seen[r]

\* A plan made from right numbers and run once by every worker lifts no receiver
\* above the mean, although GetConnByCount gives a slot without a connection and
\* a sender may be told to give more than its excess (wsBalancedlogic.go:45-78).
ReceiverWithinMean ==
  exact /\ planner = "idle" => \A r \in DOMAIN deficit : conns[r] <= Mean
=============================================================================
