----------------------------- MODULE LogDelivery -----------------------------
(***************************************************************************)
(* What iotlogbridge promises once JetStream has a message.  JetStream may *)
(* settle a message (never send it again) as soon as a bridge has taken    *)
(* it; from then on the message is in a bridge's memory until the store    *)
(* has it, and it is gone only with a push that failed or with a bridge    *)
(* that crashed.  A message that is not settled is sent until it is        *)
(* stored.                                                                 *)
(***************************************************************************)
CONSTANTS Msgs, Bad

VARIABLES
  published,   \* messages the stream has
  taken,       \* messages in the memory of a bridge
  stored,      \* messages the store has, once or more often
  gone,        \* messages of failed pushes and of crashed bridges
  settled      \* messages that will not be delivered again

avars == <<published, taken, stored, gone, settled>>

Init ==
  /\ published = {} /\ taken = {} /\ stored = {} /\ gone = {} /\ settled = {}

Publish(m) ==
  /\ published' = published \cup {m}
  /\ UNCHANGED <<taken, stored, gone, settled>>

\* A message that cannot be read is settled and goes nowhere.
Discard(m) ==
  /\ m \in published \cap Bad
  /\ settled' = settled \cup {m}
  /\ UNCHANGED <<published, taken, stored, gone>>

\* A message comes into memory once more, and may be settled with that.
Take(m) ==
  /\ m \in published \ (Bad \cup settled)
  /\ taken' = taken \cup {m}
  /\ settled' \in {settled, settled \cup {m}}
  /\ UNCHANGED <<published, stored, gone>>

\* One push stores messages that are in memory.
Store(S) ==
  /\ S \subseteq taken
  /\ stored' = stored \cup S
  /\ UNCHANGED <<published, taken, gone, settled>>

\* One push fails, whether the store has the messages or not.
Refuse(S) ==
  /\ S \subseteq taken
  /\ stored' \in {stored, stored \cup S}
  /\ gone' = gone \cup S
  /\ UNCHANGED <<published, taken, settled>>

\* A crash: S was in memory, and what another bridge has too stays there.
Lose(S) ==
  /\ S \subseteq taken
  /\ gone' = gone \cup S
  /\ \E kept \in SUBSET S : taken' = (taken \ S) \cup kept
  /\ UNCHANGED <<published, stored, settled>>

\* A message leaves memory, or a copy of it does, after its push; it is
\* settled with that only if it is stored.
Answer(m) ==
  /\ m \in taken \cap (stored \cup gone)
  /\ taken' \in {taken, taken \ {m}}
  /\ settled' \in {settled, settled \cup ({m} \cap stored)}
  /\ UNCHANGED <<published, stored, gone>>

Next ==
  \/ \E m \in Msgs : Publish(m) \/ Discard(m) \/ Take(m) \/ Answer(m)
  \/ \E S \in SUBSET taken : Store(S) \/ Refuse(S) \/ Lose(S)

Spec == Init /\ [][Next]_avars

\* Every readable message is stored in the end, but for one that is settled and
\* was in a failed push or a crashed bridge.
FairSpec ==
  Spec /\ \A m \in Msgs \ Bad : m \in published ~> m \in stored \/ m \in gone \cap settled
=============================================================================
