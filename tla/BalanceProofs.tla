---------------------------- MODULE BalanceProofs ----------------------------
(***************************************************************************)
(* Theorems about Balance, for any servers and numbers of connections.     *)
(* First what SumOf computes: the fold is a recursive function on subsets, *)
(* and what is said of it goes from the smallest subsets up.               *)
(***************************************************************************)
EXTENDS Balance, FiniteSetTheorems, SequenceTheorems, WellFoundedInduction, TLAPS

-----------------------------------------------------------------------------
(* The fold of SumOf.                                                      *)

One(s) == CHOOSE x \in s : TRUE

\* g sums f over the subsets of T.
IsSum(g, f, T) == g = [s \in SUBSET T |-> IF s = {} THEN 0 ELSE f[One(s)] + g[s \ {One(s)}]]

LEMMA OneIsIn == ASSUME NEW s, s # {} PROVE One(s) \in s
  BY Zenon DEF One

\* Of subsets of a finite set one is smallest.
LEMMA SmallestSubset ==
  ASSUME NEW S, IsFiniteSet(S), NEW B, B \subseteq SUBSET S, B # {}
  PROVE  \E T \in B : \A U \in B : U \subseteq T => U = T
<1>1. IsWellFoundedOn(StrictSubsetOrdering(S), SUBSET S)
  BY FS_StrictSubsetOrderingWellFounded, FS_FiniteSubsetsOfFinite
<1>2. PICK T \in B : \A U \in B : ~(<<U, T>> \in StrictSubsetOrdering(S))
  BY <1>1, WFMin
<1>3. ASSUME NEW U \in B, U \subseteq T PROVE U = T
  BY <1>2, <1>3 DEF StrictSubsetOrdering
<1> QED
  BY <1>3

\* Sums over the subsets of two sets agree where both are defined.
LEMMA SumsAgree ==
  ASSUME NEW f, NEW g, NEW h, NEW T, NEW U, IsFiniteSet(T), IsSum(g, f, T), IsSum(h, f, U),
         NEW s \in SUBSET T, s \in SUBSET U
  PROVE  g[s] = h[s]
<1> DEFINE B == {t \in SUBSET T : t \in SUBSET U /\ g[t] # h[t]}
<1> SUFFICES ASSUME B # {} PROVE FALSE
  OBVIOUS
<1>1. PICK t \in B : \A u \in B : u \subseteq t => u = t
  <2>1. B \subseteq SUBSET T
    OBVIOUS
  <2> HIDE DEF B
  <2> QED
    BY <2>1, SmallestSubset
<1>2. t # {}
  BY <1>1 DEF IsSum
<1>3. g[t] = f[One(t)] + g[t \ {One(t)}] /\ h[t] = f[One(t)] + h[t \ {One(t)}]
  BY <1>1, <1>2 DEF IsSum
<1>4. One(t) \in t
  BY <1>2, OneIsIn
<1>5. t \ {One(t)} \subseteq t /\ t \ {One(t)} # t
  BY <1>4
<1>6. t \ {One(t)} \notin B
  BY <1>1, <1>5
<1>7. g[t \ {One(t)}] = h[t \ {One(t)}]
  BY <1>1, <1>6
<1> QED
  BY <1>1, <1>3, <1>7

LEMMA SumExists ==
  ASSUME NEW f, NEW S, IsFiniteSet(S)
  PROVE  \E g : IsSum(g, f, S)
<1> DEFINE B == {T \in SUBSET S : ~\E g : IsSum(g, f, T)}
<1> SUFFICES ASSUME B # {} PROVE FALSE
  OBVIOUS
<1>1. PICK T \in B : \A U \in B : U \subseteq T => U = T
  <2>1. B \subseteq SUBSET S
    OBVIOUS
  <2> HIDE DEF B
  <2> QED
    BY <2>1, SmallestSubset
<1> DEFINE G(u) == CHOOSE g : IsSum(g, f, u)
           h == [s \in SUBSET T |-> IF s = {} THEN 0
                                    ELSE f[One(s)] + G(s \ {One(s)})[s \ {One(s)}]]
<1>2. ASSUME NEW u \in SUBSET T, u # T PROVE IsSum(G(u), f, u)
  <2>1. u \notin B
    BY <1>1, <1>2
  <2>2. \E g : IsSum(g, f, u)
    BY <2>1, <1>1, <1>2
  <2> QED
    BY <2>2
<1>3. ASSUME NEW u \in SUBSET T, u # T PROVE h[u] = G(u)[u]
  <2>1. IsSum(G(u), f, u) /\ IsFiniteSet(u)
    BY <1>1, <1>2, <1>3, FS_Subset
  <2>2. CASE u = {}
    BY <2>1, <2>2 DEF IsSum
  <2>3. CASE u # {}
    <3> DEFINE v == u \ {One(u)}
    <3>1. v \in SUBSET u /\ v \in SUBSET v /\ v \in SUBSET T /\ v # T
      BY <2>3, <1>3, OneIsIn
    <3>2. IsSum(G(v), f, v)
      BY <3>1, <1>2
    <3> HIDE DEF G
    <3>3. G(u)[v] = G(v)[v]
      BY <2>1, <3>1, <3>2, SumsAgree
    <3>4. G(u)[u] = f[One(u)] + G(u)[v]
      BY <2>1, <2>3 DEF IsSum
    <3>5. h[u] = f[One(u)] + G(v)[v]
      BY <2>3
    <3> QED
      BY <3>3, <3>4, <3>5
  <2> QED
    BY <2>2, <2>3
<1>4. ASSUME NEW s \in SUBSET T, s # {} PROVE h[s] = f[One(s)] + h[s \ {One(s)}]
  <2>1. s \ {One(s)} \in SUBSET T /\ s \ {One(s)} # T
    BY <1>4, OneIsIn
  <2>2. h[s \ {One(s)}] = G(s \ {One(s)})[s \ {One(s)}]
    BY <2>1, <1>3
  <2> HIDE DEF G
  <2> QED
    BY <1>4, <2>2
<1>5. IsSum(h, f, T)
  <2>1. h[{}] = 0 /\ h = [s \in SUBSET T |-> h[s]]
    OBVIOUS
  <2> HIDE DEF h
  <2>2. [s \in SUBSET T |-> h[s]]
        = [s \in SUBSET T |-> IF s = {} THEN 0 ELSE f[One(s)] + h[s \ {One(s)}]]
    BY <2>1, <1>4
  <2> QED
    BY <2>1, <2>2 DEF IsSum
<1> QED
  BY <1>1, <1>5

\* SumOf is the sum over the domain.
LEMMA SumOfIs ==
  ASSUME NEW f, NEW g, IsFiniteSet(DOMAIN f), IsSum(g, f, DOMAIN f)
  PROVE  SumOf(f) = g[DOMAIN f]
<1> DEFINE iter == CHOOSE iter : iter = [s \in SUBSET (DOMAIN f) |->
                     IF s = {} THEN 0
                     ELSE f[CHOOSE x \in s : TRUE] + iter[s \ {CHOOSE x \in s : TRUE}]]
<1>1. SumOf(f) = iter[DOMAIN f]
  BY Zenon DEF SumOf, FoldFunction, FoldFunctionOnSet, MapThenFoldSet
<1>2. IsSum(iter, f, DOMAIN f)
  BY Zenon DEF IsSum, One
<1> HIDE DEF iter
<1> QED
  BY <1>1, <1>2, SumsAgree

-----------------------------------------------------------------------------
(* What SumOf computes.                                                    *)

LEMMA SumOfNothing == ASSUME NEW f, DOMAIN f = {} PROVE SumOf(f) = 0
<1>1. PICK g : IsSum(g, f, {})
  BY SumExists, FS_EmptySet
<1>2. SumOf(f) = g[{}]
  BY <1>1, SumOfIs, FS_EmptySet
<1> QED
  BY <1>1, <1>2 DEF IsSum

LEMMA SumOfOne ==
  ASSUME NEW f, NEW S, IsFiniteSet(S), S # {}, DOMAIN f = S
  PROVE  SumOf(f) = f[One(S)] + SumOf(Restrict(f, S \ {One(S)}))
<1> DEFINE T == S \ {One(S)}
           r == Restrict(f, T)
<1>1. T \subseteq S /\ T # S /\ IsFiniteSet(T) /\ DOMAIN r = T
  BY OneIsIn, FS_Subset DEF Restrict
<1>2. PICK g : IsSum(g, f, S)
  BY SumExists
<1>3. PICK h : IsSum(h, r, T)
  BY <1>1, SumExists
<1>4. IsSum(h, f, T)
  <2>1. \A s \in SUBSET T : s # {} => r[One(s)] = f[One(s)]
    BY OneIsIn DEF Restrict
  <2> HIDE DEF r, T
  <2>2. [s \in SUBSET T |-> IF s = {} THEN 0 ELSE r[One(s)] + h[s \ {One(s)}]]
        = [s \in SUBSET T |-> IF s = {} THEN 0 ELSE f[One(s)] + h[s \ {One(s)}]]
    BY <2>1
  <2> QED
    BY <1>3, <2>2 DEF IsSum
<1> HIDE DEF r
<1>5. SumOf(f) = g[S] /\ SumOf(r) = h[T]
  BY <1>1, <1>2, <1>3, SumOfIs
<1>6. h[T] = g[T]
  BY <1>1, <1>2, <1>4, SumsAgree
<1>7. g[S] = f[One(S)] + g[T]
  BY <1>2 DEF IsSum
<1> QED
  BY <1>5, <1>6, <1>7 DEF r

\* A sum of natural numbers is one.
LEMMA SumOfType ==
  ASSUME NEW S, IsFiniteSet(S), NEW f \in [S -> Nat]
  PROVE  SumOf(f) \in Nat
<1> DEFINE B == {T \in SUBSET S : SumOf(Restrict(f, T)) \notin Nat}
<1>1. ASSUME B # {} PROVE FALSE
  <2>1. PICK T \in B : \A U \in B : U \subseteq T => U = T
    <3>1. B \subseteq SUBSET S
      OBVIOUS
    <3> HIDE DEF B
    <3> QED
      BY <1>1, <3>1, SmallestSubset
  <2>2. DOMAIN Restrict(f, T) = T /\ IsFiniteSet(T)
    BY <2>1, FS_Subset DEF Restrict
  <2>3. T # {}
    <3>1. DOMAIN Restrict(f, {}) = {}
      BY DEF Restrict
    <3>2. SumOf(Restrict(f, {})) \in Nat
      BY <3>1, SumOfNothing
    <3> QED
      BY <2>1, <3>2, Zenon
  <2> DEFINE U == T \ {One(T)}
  <2>4. U \subseteq T /\ U # T /\ One(T) \in T
    BY <2>3, OneIsIn
  <2>5. SumOf(Restrict(f, T)) = Restrict(f, T)[One(T)] + SumOf(Restrict(Restrict(f, T), U))
    BY <2>2, <2>3, SumOfOne
  <2>6. Restrict(Restrict(f, T), U) = Restrict(f, U) /\ Restrict(f, T)[One(T)] \in Nat
    BY <2>1, <2>4 DEF Restrict
  <2>7. SumOf(Restrict(f, U)) \in Nat
    BY <2>1, <2>4
  <2> QED
    BY <2>1, <2>5, <2>6, <2>7
<1>2. Restrict(f, S) = f
  BY DEF Restrict
<1> QED
  BY <1>1, <1>2

\* Any element may be counted first.
LEMMA SumOfSplit ==
  ASSUME NEW S, IsFiniteSet(S), NEW f \in [S -> Nat], NEW x \in S
  PROVE  SumOf(f) = f[x] + SumOf(Restrict(f, S \ {x}))
<1> DEFINE sum(T) == SumOf(Restrict(f, T))
           B == {T \in SUBSET S : \E y \in T : sum(T) # f[y] + sum(T \ {y})}
<1>0. \A T \in SUBSET S : IsFiniteSet(T) /\ sum(T) \in Nat
  <2> SUFFICES ASSUME NEW T \in SUBSET S PROVE IsFiniteSet(T) /\ sum(T) \in Nat
    OBVIOUS
  <2>1. IsFiniteSet(T) /\ Restrict(f, T) \in [T -> Nat]
    BY FS_Subset DEF Restrict
  <2> QED
    BY <2>1, SumOfType
<1>1. ASSUME NEW T \in SUBSET S, T # {} PROVE sum(T) = f[One(T)] + sum(T \ {One(T)})
  <2>1. One(T) \in T /\ DOMAIN Restrict(f, T) = T /\ IsFiniteSet(T)
    BY <1>0, <1>1, OneIsIn DEF Restrict
  <2>2. sum(T) = Restrict(f, T)[One(T)] + SumOf(Restrict(Restrict(f, T), T \ {One(T)}))
    BY <1>1, <2>1, SumOfOne
  <2>3. /\ Restrict(f, T)[One(T)] = f[One(T)]
        /\ Restrict(Restrict(f, T), T \ {One(T)}) = Restrict(f, T \ {One(T)})
    BY <2>1 DEF Restrict
  <2> QED
    BY <2>2, <2>3
<1> HIDE DEF sum
<1>2. ASSUME B # {} PROVE FALSE
  <2>1. PICK T \in B : \A U \in B : U \subseteq T => U = T
    <3>1. B \subseteq SUBSET S
      OBVIOUS
    <3> HIDE DEF B
    <3> QED
      BY <1>2, <3>1, SmallestSubset
  <2>2. PICK y \in T : sum(T) # f[y] + sum(T \ {y})
    BY <2>1
  <2> DEFINE z == One(T)
  <2>3. z \in T /\ sum(T) = f[z] + sum(T \ {z}) /\ z # y
    BY <2>1, <2>2, <1>1, OneIsIn
  <2> HIDE DEF z
  <2>4. T \ {z} \notin B /\ T \ {y} \notin B
    BY <2>1, <2>2, <2>3
  <2>5. sum(T \ {z}) = f[y] + sum((T \ {z}) \ {y})
    BY <2>1, <2>2, <2>3, <2>4
  <2>6. sum(T \ {y}) = f[z] + sum((T \ {y}) \ {z})
    BY <2>1, <2>2, <2>3, <2>4
  <2>7. (T \ {z}) \ {y} = (T \ {y}) \ {z}
    OBVIOUS
  <2>8. /\ f[y] \in Nat /\ f[z] \in Nat /\ sum((T \ {z}) \ {y}) \in Nat
    BY <2>1, <2>2, <2>3, <1>0
  <2> QED
    BY <2>2, <2>3, <2>5, <2>6, <2>7, <2>8
<1>3. sum(S) = f[x] + sum(S \ {x})
  BY <1>2
<1>4. Restrict(f, S) = f
  BY DEF Restrict
<1> QED
  BY <1>3, <1>4 DEF sum

\* Two functions that differ at one place.
LEMMA SumOfChange ==
  ASSUME NEW S, IsFiniteSet(S), NEW f \in [S -> Nat], NEW g \in [S -> Nat], NEW x \in S,
         \A y \in S \ {x} : f[y] = g[y]
  PROVE  SumOf(f) + g[x] = SumOf(g) + f[x]
<1>1. Restrict(f, S \ {x}) = Restrict(g, S \ {x})
  BY DEF Restrict
<1>2. Restrict(f, S \ {x}) \in [S \ {x} -> Nat] /\ IsFiniteSet(S \ {x})
  BY FS_Subset DEF Restrict
<1>3. SumOf(Restrict(f, S \ {x})) \in Nat
  BY <1>2, SumOfType
<1>4. /\ SumOf(f) = f[x] + SumOf(Restrict(f, S \ {x}))
      /\ SumOf(g) = g[x] + SumOf(Restrict(g, S \ {x}))
  BY SumOfSplit
<1> QED
  BY <1>1, <1>3, <1>4

\* A function over one element more.
LEMMA SumOfMore ==
  ASSUME NEW S, IsFiniteSet(S), NEW f \in [S -> Nat], NEW x, x \notin S,
         NEW g \in [S \cup {x} -> Nat], \A y \in S : g[y] = f[y]
  PROVE  SumOf(g) = SumOf(f) + g[x] /\ SumOf(f) \in Nat
<1>1. IsFiniteSet(S \cup {x})
  BY FS_AddElement
<1>2. (S \cup {x}) \ {x} = S /\ Restrict(g, S) = f
  BY DEF Restrict
<1>3. SumOf(g) = g[x] + SumOf(Restrict(g, (S \cup {x}) \ {x}))
  BY <1>1, SumOfSplit
<1>4. SumOf(f) \in Nat
  BY SumOfType
<1> QED
  BY <1>2, <1>3, <1>4

\* The same for one more argument of a function that is restricted.
LEMMA RestrictOneMore ==
  ASSUME NEW S, IsFiniteSet(S), NEW x, x \notin S, NEW T, T = S \cup {x}, NEW h,
         Restrict(h, S) \in [S -> Nat], Restrict(h, T) \in [T -> Nat],
         \A y \in S : Restrict(h, T)[y] = Restrict(h, S)[y]
  PROVE  /\ SumOf(Restrict(h, T)) = SumOf(Restrict(h, S)) + Restrict(h, T)[x]
         /\ SumOf(Restrict(h, S)) \in Nat
<1> DEFINE f == Restrict(h, S)
           g == Restrict(h, T)
<1>1. /\ IsFiniteSet(S) /\ x \notin S /\ g \in [S \cup {x} -> Nat] /\ f \in [S -> Nat]
      /\ \A y \in S : g[y] = f[y]
  OBVIOUS
<1> HIDE DEF f, g
<1>2. SumOf(g) = SumOf(f) + g[x] /\ SumOf(f) \in Nat
  BY ONLY <1>1, SumOfMore
<1> QED
  BY <1>2 DEF f, g

\* Sums are monotonic.
LEMMA SumOfAtMost ==
  ASSUME NEW S, IsFiniteSet(S), NEW f \in [S -> Nat], NEW g \in [S -> Nat],
         \A x \in S : f[x] <= g[x]
  PROVE  SumOf(f) <= SumOf(g)
<1> DEFINE B == {T \in SUBSET S : ~(SumOf(Restrict(f, T)) <= SumOf(Restrict(g, T)))}
<1>1. ASSUME B # {} PROVE FALSE
  <2>1. PICK T \in B : \A U \in B : U \subseteq T => U = T
    <3>1. B \subseteq SUBSET S
      OBVIOUS
    <3> HIDE DEF B
    <3> QED
      BY <1>1, <3>1, SmallestSubset
  <2>2. T # {}
    <3>1. DOMAIN Restrict(f, {}) = {} /\ DOMAIN Restrict(g, {}) = {}
      BY DEF Restrict
    <3>2. SumOf(Restrict(f, {})) <= SumOf(Restrict(g, {}))
      BY <3>1, SumOfNothing
    <3> QED
      BY <2>1, <3>2, Zenon
  <2>3. PICK x \in T : TRUE
    BY <2>2
  <2> DEFINE U == T \ {x}
  <2>4. /\ IsFiniteSet(T) /\ IsFiniteSet(U) /\ U \notin B /\ x \notin U /\ U \cup {x} = T
    BY <2>1, <2>3, FS_Subset
  <2>5. SumOf(Restrict(f, U)) <= SumOf(Restrict(g, U))
    BY <2>1, <2>4
  <2>6. /\ Restrict(f, U) \in [U -> Nat] /\ Restrict(g, U) \in [U -> Nat]
        /\ Restrict(f, T) \in [U \cup {x} -> Nat] /\ Restrict(g, T) \in [U \cup {x} -> Nat]
        /\ \A y \in U : Restrict(f, T)[y] = Restrict(f, U)[y] /\ Restrict(g, T)[y] = Restrict(g, U)[y]
        /\ Restrict(f, T)[x] = f[x] /\ Restrict(g, T)[x] = g[x] /\ f[x] <= g[x]
        /\ f[x] \in Nat /\ g[x] \in Nat
    BY <2>1, <2>3, <2>4 DEF Restrict
  <2> HIDE DEF U
  <2>7. /\ SumOf(Restrict(f, T)) = SumOf(Restrict(f, U)) + Restrict(f, T)[x]
        /\ SumOf(Restrict(f, U)) \in Nat
    BY <2>4, <2>6, RestrictOneMore
  <2>8. /\ SumOf(Restrict(g, T)) = SumOf(Restrict(g, U)) + Restrict(g, T)[x]
        /\ SumOf(Restrict(g, U)) \in Nat
    BY <2>4, <2>6, RestrictOneMore
  <2> HIDE DEF B
  <2>9. ~(SumOf(Restrict(f, T)) <= SumOf(Restrict(g, T)))
    BY <2>1 DEF B
  <2> QED
    BY <2>5, <2>6, <2>7, <2>8, <2>9
<1>2. Restrict(f, S) = f /\ Restrict(g, S) = g
  BY DEF Restrict
<1> QED
  BY <1>1, <1>2

LEMMA SumOfZeros ==
  ASSUME NEW S, IsFiniteSet(S), NEW f, f = [x \in S |-> 0]
  PROVE  SumOf(f) = 0
<1> DEFINE B == {T \in SUBSET S : SumOf(Restrict(f, T)) # 0}
<1>1. ASSUME B # {} PROVE FALSE
  <2>1. PICK T \in B : \A U \in B : U \subseteq T => U = T
    <3>1. B \subseteq SUBSET S
      OBVIOUS
    <3> HIDE DEF B
    <3> QED
      BY <1>1, <3>1, SmallestSubset
  <2>2. PICK x \in T : TRUE
    <3>1. DOMAIN Restrict(f, {}) = {}
      BY DEF Restrict
    <3>2. SumOf(Restrict(f, {})) = 0
      BY <3>1, SumOfNothing
    <3> QED
      BY <2>1, <3>2
  <2> DEFINE U == T \ {x}
  <2>3. /\ IsFiniteSet(T) /\ IsFiniteSet(U) /\ U \notin B /\ x \notin U /\ U \cup {x} = T
    BY <2>1, <2>2, FS_Subset
  <2>4. /\ Restrict(f, U) \in [U -> Nat] /\ Restrict(f, T) \in [U \cup {x} -> Nat]
        /\ \A y \in U : Restrict(f, T)[y] = Restrict(f, U)[y]
        /\ Restrict(f, T)[x] = 0 /\ SumOf(Restrict(f, U)) = 0
    BY <2>1, <2>2, <2>3 DEF Restrict
  <2> HIDE DEF U
  <2>5. SumOf(Restrict(f, T)) = SumOf(Restrict(f, U)) + Restrict(f, T)[x]
    BY <2>3, <2>4, SumOfMore
  <2> QED
    BY <2>1, <2>4, <2>5
<1>2. Restrict(f, S) = f
  BY DEF Restrict
<1> QED
  BY <1>1, <1>2

-----------------------------------------------------------------------------
(* The parts of a message.                                                 *)

Parts == [to : Servers, amount : Nat]

LEMMA SmallestNumber ==
  ASSUME NEW T, T \subseteq Nat, T # {}
  PROVE  \E x \in T : \A y \in T : x <= y
<1>1. PICK x \in T : \A y \in T : ~(<<y, x>> \in OpToRel(<, Nat))
  BY NatLessThanWellFounded, WFMin
<1>2. \A y \in T : ~(y < x)
  BY <1>1 DEF OpToRel
<1> QED
  BY <1>2

LEMMA PartsOfFinite ==
  ASSUME NEW parts \in Seq(Parts), NEW r
  PROVE  /\ IsFiniteSet(PartsOf(parts, r)) /\ PartsOf(parts, r) \subseteq 1 .. Len(parts)
         /\ Len(parts) \in Nat /\ \A i \in 1 .. Len(parts) : parts[i] \in Parts /\ parts[i].amount \in Nat
<1>1. DOMAIN parts = 1 .. Len(parts) /\ Len(parts) \in Nat
      /\ \A i \in 1 .. Len(parts) : parts[i] \in Parts
  BY LenProperties, ElementOfSeq
<1>2. IsFiniteSet(1 .. Len(parts))
  BY <1>1, FS_Interval
<1>3. PartsOf(parts, r) \subseteq 1 .. Len(parts)
  BY <1>1 DEF PartsOf
<1>4. \A i \in 1 .. Len(parts) : parts[i].amount \in Nat
  BY <1>1 DEF Parts
<1> QED
  BY <1>1, <1>2, <1>3, <1>4, FS_Subset

LEMMA AmountType ==
  ASSUME NEW parts \in Seq(Parts), NEW r
  PROVE  Amount(parts, r) \in Nat
<1>1. [i \in PartsOf(parts, r) |-> parts[i].amount] \in [PartsOf(parts, r) -> Nat]
  BY PartsOfFinite
<1> QED
  BY <1>1, PartsOfFinite, SumOfType DEF Amount

\* A message without parts gives nobody anything.
LEMMA AmountOfNone == ASSUME NEW r PROVE Amount(<<>>, r) = 0
<1>1. DOMAIN [i \in PartsOf(<<>>, r) |-> <<>>[i].amount] = {}
  BY DEF PartsOf
<1> QED
  BY <1>1, SumOfNothing DEF Amount

\* A part that is appended counts for its receiver.
LEMMA AmountAppend ==
  ASSUME NEW parts \in Seq(Parts), NEW p \in Parts, NEW r
  PROVE  Amount(Append(parts, p), r) = Amount(parts, r) + IF p.to = r THEN p.amount ELSE 0
<1> DEFINE new == Append(parts, p)
           k == Len(parts) + 1
           f == [i \in PartsOf(parts, r) |-> parts[i].amount]
           g == [i \in PartsOf(new, r) |-> new[i].amount]
<1>1. /\ new \in Seq(Parts) /\ Len(new) = k /\ Len(parts) \in Nat /\ new[k] = p
      /\ \A i \in 1 .. Len(parts) : new[i] = parts[i]
      /\ DOMAIN new = 1 .. k /\ DOMAIN parts = 1 .. Len(parts)
  BY AppendProperties, LenProperties
<1>2. IsFiniteSet(PartsOf(parts, r)) /\ k \notin PartsOf(parts, r) /\ PartsOf(parts, r) \subseteq 1 .. Len(parts)
  BY <1>1, PartsOfFinite
<1>3. PartsOf(new, r) = IF p.to = r THEN PartsOf(parts, r) \cup {k} ELSE PartsOf(parts, r)
  <2>1. \A i : i \in 1 .. k <=> i \in 1 .. Len(parts) \/ i = k
    BY <1>1
  <2> HIDE DEF k, new
  <2> QED
    BY <1>1, <2>1 DEF PartsOf
<1>4. f \in [PartsOf(parts, r) -> Nat] /\ g \in [PartsOf(new, r) -> Nat]
  <2> HIDE DEF new
  <2> QED
    BY <1>1, PartsOfFinite
<1>5. \A i \in PartsOf(parts, r) : g[i] = f[i] /\ f[i] = new[i].amount
  BY <1>1, <1>2, <1>3
<1>6. Amount(parts, r) = SumOf(f) /\ Amount(new, r) = SumOf(g) /\ Amount(parts, r) \in Nat
  BY AmountType DEF Amount
<1>7. CASE p.to = r
  <2>1. g[k] = p.amount
    BY <1>1, <1>3, <1>7
  <2> HIDE DEF f, g, k, new
  <2> DEFINE S == PartsOf(parts, r)
  <2>2. /\ IsFiniteSet(S) /\ k \notin S /\ g \in [S \cup {k} -> Nat] /\ f \in [S -> Nat]
        /\ \A i \in S : g[i] = f[i]
    BY <1>2, <1>3, <1>4, <1>5, <1>7
  <2> HIDE DEF S
  <2>3. SumOf(g) = SumOf(f) + g[k] /\ SumOf(f) \in Nat
    BY ONLY <2>2, SumOfMore
  <2> QED
    BY <1>6, <1>7, <2>1, <2>3 DEF new
<1>8. CASE p.to # r
  <2>1. g = f
    <3>1. PartsOf(new, r) = PartsOf(parts, r)
      BY <1>3, <1>8
    <3> QED
      BY <3>1, <1>5
  <2> HIDE DEF f, g
  <2> QED
    BY <1>6, <1>8, <2>1
<1> QED
  BY <1>7, <1>8

-----------------------------------------------------------------------------
(* What the worker makes of a message.                                     *)

Message(m) == m.parts \in Seq(Parts) /\ m.at \in Servers /\ conns[m.at] \in Nat

\* The slots of the parts follow each other.
LEMMA BeforeCounts ==
  ASSUME NEW m, Message(m)
  PROVE  /\ Before(m, 1) = 0
         /\ \A i \in 1 .. Len(m.parts) :
              Before(m, i) \in Nat /\ Before(m, i + 1) = Before(m, i) + m.parts[i].amount
<1>1. Before(m, 1) = 0
  <2>1. DOMAIN [j \in 1 .. 1 - 1 |-> m.parts[j].amount] = {}
    OBVIOUS
  <2> QED
    BY <2>1, SumOfNothing DEF Before
<1>2. ASSUME NEW i \in 1 .. Len(m.parts)
      PROVE  Before(m, i) \in Nat /\ Before(m, i + 1) = Before(m, i) + m.parts[i].amount
  <2> DEFINE f == [j \in 1 .. i - 1 |-> m.parts[j].amount]
             g == [j \in 1 .. (i + 1) - 1 |-> m.parts[j].amount]
  <2>1. /\ Len(m.parts) \in Nat /\ i \in Nat /\ IsFiniteSet(1 .. i - 1)
        /\ \A j \in 1 .. Len(m.parts) : m.parts[j].amount \in Nat
    <3>1. /\ Len(m.parts) \in Nat
          /\ \A j \in 1 .. Len(m.parts) : m.parts[j].amount \in Nat
      BY PartsOfFinite DEF Message
    <3>2. i \in Nat /\ i - 1 \in Int /\ 1 \in Int
      BY <3>1
    <3> QED
      BY <3>1, <3>2, FS_Interval
  <2>2. 1 .. (i + 1) - 1 = (1 .. i - 1) \cup {i} /\ i \notin 1 .. i - 1
    BY <2>1
  <2>3. f \in [1 .. i - 1 -> Nat]
    BY <2>1
  <2>4. g \in [(1 .. i - 1) \cup {i} -> Nat] /\ (\A j \in 1 .. i - 1 : g[j] = f[j])
        /\ g[i] = m.parts[i].amount
    BY <2>1, <2>2
  <2>5. Before(m, i) = SumOf(f) /\ Before(m, i + 1) = SumOf(g)
    BY DEF Before
  <2> HIDE DEF f, g
  <2> DEFINE S == 1 .. i - 1
  <2>6. /\ IsFiniteSet(S) /\ i \notin S /\ f \in [S -> Nat] /\ g \in [S \cup {i} -> Nat]
        /\ \A j \in S : g[j] = f[j]
    BY <2>1, <2>2, <2>3, <2>4
  <2> HIDE DEF S
  <2>7. SumOf(g) = SumOf(f) + g[i] /\ SumOf(f) \in Nat
    BY ONLY <2>6, SumOfMore
  <2> QED
    BY <2>4, <2>5, <2>7
<1> QED
  BY <1>1, <1>2

\* No receiver is sent more connections than its part says.
LEMMA ToldAtMost ==
  ASSUME NEW m, Message(m), NEW i \in 1 .. Len(m.parts)
  PROVE  Told(m, i) \in Nat /\ Told(m, i) <= m.parts[i].amount
<1> DEFINE b == Before(m, i)
           n == m.parts[i].amount
<1>1. b \in Nat /\ n \in Nat
  BY BeforeCounts, PartsOfFinite DEF Message
<1> HIDE DEF b, n
<1>2. IsFiniteSet(b .. b + n - 1) /\ Cardinality(b .. b + n - 1) = n
  <2>1. b + n - 1 \in Int /\ b \in Int
    BY <1>1
  <2>2. Cardinality(b .. b + n - 1) = IF b > b + n - 1 THEN 0 ELSE (b + n - 1) - b + 1
    BY <2>1, FS_Interval
  <2> QED
    BY <1>1, <2>1, <2>2, FS_Interval
<1>3. (b .. b + n - 1) \cap (1 .. conns[m.at]) \subseteq b .. b + n - 1
  OBVIOUS
<1>4. LET told == Cardinality((b .. b + n - 1) \cap (1 .. conns[m.at])) IN told \in Nat /\ told <= n
  BY <1>1, <1>2, <1>3, FS_Subset, FS_CardinalityType
<1> QED
  BY <1>4 DEF Told, b, n

LEMMA MovesAtMost ==
  ASSUME NEW m, Message(m), NEW r
  PROVE  Moves(m, r) \in Nat /\ Moves(m, r) <= Amount(m.parts, r)
<1> DEFINE S == PartsOf(m.parts, r)
           f == [i \in S |-> Told(m, i)]
           g == [i \in S |-> m.parts[i].amount]
<1>1. IsFiniteSet(S) /\ S \subseteq 1 .. Len(m.parts)
  BY PartsOfFinite DEF Message
<1> HIDE DEF S
<1>2. f \in [S -> Nat] /\ g \in [S -> Nat] /\ \A i \in S : f[i] <= g[i]
  BY <1>1, ToldAtMost, PartsOfFinite DEF Message
<1>3. Moves(m, r) = SumOf(f) /\ Amount(m.parts, r) = SumOf(g)
  BY DEF Moves, Amount, S
<1> HIDE DEF f, g
<1> QED
  BY <1>1, <1>2, <1>3, SumOfAtMost, SumOfType

\* The connections that go to r with the first k parts.
ToldUpTo(m, k, r) == SumOf([i \in {i \in PartsOf(m.parts, r) : i <= k} |-> Told(m, i)])

LEMMA ToldUpToType ==
  ASSUME NEW m, Message(m), NEW k, NEW r
  PROVE  ToldUpTo(m, k, r) \in Nat
<1> DEFINE S == {i \in PartsOf(m.parts, r) : i <= k}
           f == [i \in S |-> Told(m, i)]
<1>1. IsFiniteSet(PartsOf(m.parts, r)) /\ S \in SUBSET PartsOf(m.parts, r) /\ S \subseteq 1 .. Len(m.parts)
  BY PartsOfFinite DEF Message
<1>2. IsFiniteSet(S)
  BY <1>1, FS_Subset
<1> HIDE DEF S
<1>3. f \in [S -> Nat]
  BY <1>1, ToldAtMost
<1>4. SumOf(f) \in Nat
  BY <1>2, <1>3, SumOfType
<1> QED
  BY <1>4 DEF ToldUpTo, S

LEMMA ToldUpToNext ==
  ASSUME NEW m, Message(m), NEW k \in 1 .. Len(m.parts), NEW r
  PROVE  ToldUpTo(m, k, r) = ToldUpTo(m, k - 1, r) + IF m.parts[k].to = r THEN Told(m, k) ELSE 0
<1> DEFINE S == {i \in PartsOf(m.parts, r) : i <= k - 1}
           T == {i \in PartsOf(m.parts, r) : i <= k}
           f == [i \in S |-> Told(m, i)]
           g == [i \in T |-> Told(m, i)]
<1>1. /\ IsFiniteSet(PartsOf(m.parts, r)) /\ Len(m.parts) \in Nat /\ k \in Nat
      /\ PartsOf(m.parts, r) \subseteq 1 .. Len(m.parts)
      /\ k \in PartsOf(m.parts, r) <=> m.parts[k].to = r
  <2>1. DOMAIN m.parts = 1 .. Len(m.parts)
    BY LenProperties DEF Message
  <2>2. k \in PartsOf(m.parts, r) <=> m.parts[k].to = r
    BY <2>1 DEF PartsOf
  <2>3. /\ IsFiniteSet(PartsOf(m.parts, r)) /\ Len(m.parts) \in Nat
        /\ PartsOf(m.parts, r) \subseteq 1 .. Len(m.parts)
    BY PartsOfFinite DEF Message
  <2> QED
    BY <2>2, <2>3
<1>2. IsFiniteSet(S) /\ S \subseteq 1 .. Len(m.parts) /\ k \notin S
  BY <1>1, FS_Subset
<1>3. T = IF m.parts[k].to = r THEN S \cup {k} ELSE S
  <2>1. \A i \in PartsOf(m.parts, r) : i <= k <=> i <= k - 1 \/ i = k
    BY <1>1
  <2> QED
    BY <1>1, <2>1
<1>4. ToldUpTo(m, k, r) = SumOf(g) /\ ToldUpTo(m, k - 1, r) = SumOf(f)
  BY DEF ToldUpTo
<1>5. ToldUpTo(m, k - 1, r) \in Nat
  BY ToldUpToType
<1>6. CASE m.parts[k].to = r
  <2>1. T = S \cup {k}
    BY <1>3, <1>6
  <2> HIDE DEF S, T
  <2>2. /\ f \in [S -> Nat] /\ g \in [S \cup {k} -> Nat] /\ g[k] = Told(m, k)
        /\ \A i \in S : g[i] = f[i]
    <3>1. \A i \in S \cup {k} : Told(m, i) \in Nat
      BY <1>2, ToldAtMost
    <3> QED
      BY <3>1, <2>1
  <2> HIDE DEF f, g
  <2>3. SumOf(g) = SumOf(f) + g[k] /\ SumOf(f) \in Nat
    BY ONLY <2>2, <1>2, SumOfMore
  <2> QED
    BY <1>4, <1>6, <2>2, <2>3
<1>7. CASE m.parts[k].to # r
  <2>1. T = S
    BY <1>3, <1>7
  <2> HIDE DEF S, T
  <2>2. g = f
    BY <2>1
  <2> HIDE DEF f, g
  <2> QED
    BY <1>4, <1>5, <1>7, <2>2
<1> QED
  BY <1>6, <1>7

\* The slots of the first k parts that have a connection.
Filled(m, k) == (0 .. Before(m, k + 1) - 1) \cap (1 .. conns[m.at])

LEMMA FilledType ==
  ASSUME NEW m, Message(m), NEW k
  PROVE  IsFiniteSet(Filled(m, k)) /\ Cardinality(Filled(m, k)) \in Nat
         /\ Cardinality(Filled(m, k)) <= conns[m.at]
<1> DEFINE c == conns[m.at]
<1>1. c \in Nat /\ c \in Int /\ 1 \in Int
  BY DEF Message
<1> HIDE DEF c
<1>2. IsFiniteSet(1 .. c) /\ Cardinality(1 .. c) = c
  BY <1>1, FS_Interval
<1>3. Filled(m, k) \in SUBSET (1 .. c)
  BY DEF Filled, c
<1>4. IsFiniteSet(Filled(m, k)) /\ Cardinality(Filled(m, k)) <= c
  BY <1>2, <1>3, FS_Subset
<1> QED
  BY <1>4, FS_CardinalityType DEF c

LEMMA FilledNext ==
  ASSUME NEW m, Message(m), NEW k \in 1 .. Len(m.parts)
  PROVE  Cardinality(Filled(m, k)) = Cardinality(Filled(m, k - 1)) + Told(m, k)
<1> DEFINE a == Before(m, k)
           n == m.parts[k].amount
           c == conns[m.at]
           told == (a .. a + n - 1) \cap (1 .. c)
<1>1. /\ a \in Nat /\ n \in Nat /\ c \in Nat /\ Before(m, k + 1) = a + n
      /\ Told(m, k) = Cardinality(told) /\ k \in Nat
  <2>1. Len(m.parts) \in Nat /\ n \in Nat /\ c \in Nat
    BY PartsOfFinite DEF Message
  <2>2. a \in Nat /\ Before(m, k + 1) = a + n
    BY BeforeCounts
  <2>3. Told(m, k) = Cardinality(told)
    BY DEF Told
  <2> QED
    BY <2>1, <2>2, <2>3
<1>2. Before(m, (k - 1) + 1) = a
  <2>1. (k - 1) + 1 = k
    BY <1>1
  <2> QED
    BY <2>1
<1>3. /\ Filled(m, k) = (0 .. a + n - 1) \cap (1 .. c)
      /\ Filled(m, k - 1) = (0 .. a - 1) \cap (1 .. c)
  BY <1>1, <1>2 DEF Filled
<1>4. IsFiniteSet(Filled(m, k)) /\ IsFiniteSet(Filled(m, k - 1)) /\ Cardinality(Filled(m, k - 1)) \in Nat
  BY FilledType
<1> HIDE DEF a, n, c
<1>5. Filled(m, k) = Filled(m, k - 1) \cup told /\ Filled(m, k - 1) \cap told = {}
  BY <1>1, <1>3
<1> HIDE DEF told
<1>6. IsFiniteSet(told)
  <2>1. told \in SUBSET Filled(m, k)
    BY <1>5
  <2> QED
    BY <2>1, <1>4, FS_Subset
<1>7. Cardinality(Filled(m, k)) = Cardinality(Filled(m, k - 1)) + Cardinality(told) - Cardinality({})
  BY <1>4, <1>5, <1>6, FS_Union
<1>8. Cardinality({}) = 0 /\ Cardinality(told) \in Nat
  BY <1>6, FS_EmptySet, FS_CardinalityType
<1> QED
  BY <1>1, <1>4, <1>7, <1>8

\* The worker sends no connection to two servers: all that go are among those it has.
LEMMA MovesHasThem ==
  ASSUME NEW m, Message(m), IsFiniteSet(Servers)
  PROVE  /\ SumOf([r \in Servers |-> Moves(m, r)]) \in Nat
         /\ SumOf([r \in Servers |-> Moves(m, r)]) <= conns[m.at]
<1> DEFINE n == Len(m.parts)
           upto(k) == [r \in Servers |-> ToldUpTo(m, k, r)]
           B == {k \in 0 .. n : SumOf(upto(k)) # Cardinality(Filled(m, k))}
<1>0. n \in Nat /\ \A i \in 1 .. n : m.parts[i].to \in Servers
  BY PartsOfFinite DEF Message, Parts
<1>1. ASSUME NEW k PROVE upto(k) \in [Servers -> Nat] /\ SumOf(upto(k)) \in Nat
  <2>1. upto(k) \in [Servers -> Nat]
    BY ToldUpToType
  <2> HIDE DEF upto
  <2> QED
    BY <2>1, SumOfType
<1>2. SumOf(upto(0)) = Cardinality(Filled(m, 0))
  <2>1. ASSUME NEW r PROVE ToldUpTo(m, 0, r) = 0
    <3>1. {i \in PartsOf(m.parts, r) : i <= 0} = {}
      BY PartsOfFinite DEF Message
    <3>2. DOMAIN [i \in {i \in PartsOf(m.parts, r) : i <= 0} |-> Told(m, i)] = {}
      BY <3>1
    <3> QED
      BY <3>2, SumOfNothing DEF ToldUpTo
  <2>2. upto(0) = [r \in Servers |-> 0]
    BY <2>1
  <2>3. SumOf(upto(0)) = 0
    <3> HIDE DEF upto
    <3> QED
      BY <2>2, SumOfZeros
  <2>4. Filled(m, 0) = {}
    <3>1. Before(m, 0 + 1) = 0
      BY BeforeCounts
    <3> QED
      BY <3>1 DEF Filled
  <2> QED
    BY <2>3, <2>4, FS_EmptySet
<1>3. ASSUME NEW k \in 1 .. n, SumOf(upto(k - 1)) = Cardinality(Filled(m, k - 1))
      PROVE  SumOf(upto(k)) = Cardinality(Filled(m, k))
  <2> DEFINE x == m.parts[k].to
             f == upto(k)
             g == upto(k - 1)
  <2>1. x \in Servers /\ Told(m, k) \in Nat
    BY <1>0, ToldAtMost
  <2>2. f \in [Servers -> Nat] /\ g \in [Servers -> Nat] /\ SumOf(f) \in Nat /\ SumOf(g) \in Nat
    BY <1>1
  <2>3. (\A r \in Servers \ {x} : f[r] = g[r]) /\ f[x] = g[x] + Told(m, k)
    <3>1. \A r \in Servers : f[r] = g[r] + IF x = r THEN Told(m, k) ELSE 0
      BY ToldUpToNext
    <3> HIDE DEF f, g
    <3> QED
      BY <2>1, <2>2, <3>1
  <2>4. Cardinality(Filled(m, k)) = Cardinality(Filled(m, k - 1)) + Told(m, k)
    BY FilledNext
  <2>5. SumOf(g) = Cardinality(Filled(m, k - 1))
    BY <1>3
  <2> SUFFICES SumOf(f) = Cardinality(Filled(m, k))
    OBVIOUS
  <2> HIDE DEF f, g, x
  <2>6. SumOf(f) + g[x] = SumOf(g) + f[x]
    BY <2>1, <2>2, <2>3, SumOfChange
  <2>7. g[x] \in Nat /\ f[x] \in Nat
    BY <2>1, <2>2
  <2> QED
    BY <2>1, <2>2, <2>3, <2>4, <2>5, <2>6, <2>7
<1>4. B = {}
  <2> SUFFICES ASSUME B # {} PROVE FALSE
    OBVIOUS
  <2>1. B \subseteq Nat
    BY <1>0
  <2>2. PICK k \in B : \A j \in B : k <= j
    <3> HIDE DEF B
    <3> QED
      BY <2>1, SmallestNumber
  <2>3. k \in 0 .. n /\ SumOf(upto(k)) # Cardinality(Filled(m, k))
    BY <2>2
  <2>4. k # 0
    BY <2>3, <1>2
  <2>5. k \in 1 .. n /\ k - 1 \in 0 .. n /\ ~(k <= k - 1)
    BY <2>3, <2>4, <1>0
  <2>6. k - 1 \notin B
    BY <2>2, <2>5
  <2>7. SumOf(upto(k - 1)) = Cardinality(Filled(m, k - 1))
    BY <2>5, <2>6
  <2> QED
    BY <2>3, <2>5, <2>7, <1>3
<1>5. SumOf(upto(n)) = Cardinality(Filled(m, n))
  <2>1. n \in 0 .. n
    BY <1>0
  <2> QED
    BY <2>1, <1>4
<1>6. [r \in Servers |-> Moves(m, r)] = upto(n)
  <2>1. ASSUME NEW r \in Servers PROVE Moves(m, r) = ToldUpTo(m, n, r)
    <3>1. {i \in PartsOf(m.parts, r) : i <= n} = PartsOf(m.parts, r)
      BY <1>0, PartsOfFinite DEF Message
    <3> QED
      BY <3>1 DEF Moves, ToldUpTo
  <2> QED
    BY <2>1
<1> HIDE DEF upto
<1> QED
  BY <1>1, <1>5, <1>6, FilledType

-----------------------------------------------------------------------------
(* The invariant.                                                          *)

OverRange == {x \in DOMAIN seen : seen[x] > Mean + Offset(Mean)}
TaskOf(s) == [at |-> s, mean |-> Mean, parts |-> plan[s]]

\* What server s still has to give to r.
Owes(s, r) == IF TaskOf(s) \in tasks THEN Amount(plan[s], r) ELSE 0
Owed(r) == SumOf([s \in Servers |-> Owes(s, r)])

NumberMap(f) == DOMAIN f \subseteq Servers /\ f \in [DOMAIN f -> Nat]

PlannerTypes ==
  /\ planner \in {"idle", "plans", "panic"} /\ rounds \in 0 .. MaxRounds
  /\ NumberMap(seen) /\ NumberMap(deficit) /\ NumberMap(senders)
  /\ sender = NoSender \/ sender \in [name : Servers, left : Nat]
  /\ plan \in [Servers -> Seq(Parts)]
WorkerTypes ==
  /\ conns \in [Servers -> Nat] /\ lastat \in {"none", "recent", "old"}
  /\ exact \in BOOLEAN
  /\ \A m \in tasks : m.at \in Servers /\ m.mean \in Nat /\ m.parts \in Seq(Parts)

\* The receivers are below the range of the mean, and the inner loop is about them.
PlannerShape ==
  /\ todo \subseteq DOMAIN deficit
  /\ todo # {} => sender \in [name : Servers, left : Nat]
  /\ planner # "plans" => todo = {}
  /\ planner = "plans" => DOMAIN seen # {}
  /\ \A r \in DOMAIN deficit : r \in DOMAIN seen /\ seen[r] < Mean - Offset(Mean)

\* As long as the planner's numbers are right nothing moves but by its messages.
Exactly ==
  /\ exact /\ planner = "plans" => tasks = {} /\ \A s \in DOMAIN seen : seen[s] = conns[s]
  /\ exact /\ planner = "idle" =>
       /\ tasks \subseteq {TaskOf(s) : s \in OverRange}
       /\ \A r \in DOMAIN deficit : conns[r] + Owed(r) <= Mean

BalanceInv == PlannerTypes /\ WorkerTypes /\ PlannerShape /\ DeficitAccounted /\ Exactly

LEMMA ServersFinite == IsFiniteSet(Servers) /\ Numbers \subseteq Nat /\ MaxRounds \in Nat
  BY BalanceAssumption

LEMMA MeanType ==
  ASSUME NEW f, NumberMap(f), DOMAIN f # {}
  PROVE  MeanOf(f) \in Nat /\ Offset(MeanOf(f)) \in Nat
<1> DEFINE S == DOMAIN f
           n == Cardinality(S)
<1>1. IsFiniteSet(S) /\ f \in [S -> Nat]
  BY ServersFinite, FS_Subset DEF NumberMap
<1>2. SumOf(f) \in Nat /\ n \in Nat /\ n # 0
  BY <1>1, SumOfType, FS_CardinalityType, FS_EmptySet
<1>3. \A a \in Nat, b \in Nat \ {0} : a \div b \in Nat
  OBVIOUS
<1>4. MeanOf(f) \in Nat
  BY <1>2, <1>3 DEF MeanOf
<1> QED
  BY <1>3, <1>4 DEF Offset

\* The invariant has the types.
LEMMA TypesAreRight == PlannerTypes /\ WorkerTypes /\ PlannerShape => BalanceTypeOK
<1> SUFFICES ASSUME PlannerTypes, WorkerTypes, PlannerShape PROVE BalanceTypeOK
  OBVIOUS
<1>1. \A f \in {seen, deficit, senders} : DOMAIN f \subseteq Servers /\ \A s \in DOMAIN f : f[s] \in Nat
  BY DEF PlannerTypes, NumberMap
<1>2. todo \subseteq Servers
  BY <1>1 DEF PlannerShape
<1>3. \A s \in Servers : plan[s] \in Seq([to : Servers, amount : Nat])
  BY DEF PlannerTypes, Parts
<1> QED
  BY <1>1, <1>2, <1>3 DEF BalanceTypeOK, PlannerTypes, WorkerTypes

\* A plan gives natural numbers.
LEMMA GivenType ==
  ASSUME plan \in [Servers -> Seq(Parts)], NEW r
  PROVE  Given(r) \in Nat
<1>1. [s \in Servers |-> Amount(plan[s], r)] \in [Servers -> Nat]
  BY AmountType
<1> QED
  BY <1>1, ServersFinite, SumOfType DEF Given

\* A part more in the message of n is given to its receiver, and to nobody else.
LEMMA GivenGrows ==
  ASSUME plan \in [Servers -> Seq(Parts)], NEW n \in Servers, NEW p \in Parts,
         plan' = [plan EXCEPT ![n] = Append(@, p)], NEW r
  PROVE  Given(r)' = Given(r) + IF p.to = r THEN p.amount ELSE 0
<1> DEFINE f == [s \in Servers |-> Amount(plan'[s], r)]
           g == [s \in Servers |-> Amount(plan[s], r)]
<1>1. /\ \A s \in Servers : plan[s] \in Seq(Parts)
      /\ plan'[n] = Append(plan[n], p) /\ \A s \in Servers \ {n} : plan'[s] = plan[s]
  OBVIOUS
<1>2. \A s \in Servers : plan'[s] \in Seq(Parts)
  BY <1>1, AppendProperties
<1>3. f \in [Servers -> Nat] /\ g \in [Servers -> Nat]
  BY <1>1, <1>2, AmountType
<1>4. Given(r)' = SumOf(f) /\ Given(r) = SumOf(g)
  BY DEF Given, Amount, PartsOf
<1>5. (\A s \in Servers \ {n} : f[s] = g[s]) /\ f[n] = g[n] + IF p.to = r THEN p.amount ELSE 0
  BY <1>1, AmountAppend
<1> HIDE DEF f, g
<1>6. SumOf(f) + g[n] = SumOf(g) + f[n] /\ SumOf(f) \in Nat /\ SumOf(g) \in Nat
  BY <1>3, <1>5, ServersFinite, SumOfChange, SumOfType
<1>7. p.amount \in Nat /\ f[n] \in Nat /\ g[n] \in Nat
  BY <1>3 DEF Parts
<1> DEFINE more == IF p.to = r THEN p.amount ELSE 0
<1>8. more \in Nat /\ f[n] = g[n] + more
  BY <1>5, <1>7
<1> HIDE DEF more
<1>9. SumOf(f) = SumOf(g) + more
  <2>1. \A a, b, c, d, e \in Nat : a + c = b + d /\ d = c + e => a = b + e
    OBVIOUS
  <2> QED
    BY ONLY <2>1, <1>6, <1>7, <1>8
<1> QED
  BY <1>4, <1>9 DEF more

-----------------------------------------------------------------------------
(* The steps of the planner.                                               *)

\* An empty map of numbers.
LEMMA NothingIsNumberMap == NumberMap(<<>>) /\ DOMAIN <<>> = {}
  BY DEF NumberMap

\* A plan without parts gives nothing.
LEMMA NoPlanGivesNothing ==
  ASSUME NEW r, plan = NoPlan
  PROVE  Given(r) = 0 /\ plan \in [Servers -> Seq(Parts)]
<1>1. [s \in Servers |-> Amount(plan[s], r)] = [s \in Servers |-> 0]
  BY AmountOfNone DEF NoPlan
<1>2. SumOf([s \in Servers |-> 0]) = 0
  BY ServersFinite, SumOfZeros
<1>3. <<>> \in Seq(Parts)
  BY EmptySeq
<1> QED
  BY <1>1, <1>2, <1>3 DEF Given, NoPlan

LEMMA InitBalanced == BalanceInit => BalanceInv
<1> SUFFICES ASSUME BalanceInit PROVE BalanceInv
  OBVIOUS
<1>1. /\ planner = "idle" /\ seen = <<>> /\ deficit = <<>> /\ senders = <<>> /\ todo = {}
      /\ sender = NoSender /\ plan = NoPlan /\ tasks = {} /\ rounds = 0 /\ exact = TRUE
      /\ conns \in [Servers -> Numbers] /\ lastat \in {"none", "old"}
  BY DEF BalanceInit
<1>2. PlannerTypes
  BY <1>1, NothingIsNumberMap, NoPlanGivesNothing, ServersFinite DEF PlannerTypes
<1>3. WorkerTypes
  BY <1>1, ServersFinite DEF WorkerTypes
<1>4. PlannerShape /\ DeficitAccounted /\ Exactly
  BY <1>1, NothingIsNumberMap DEF PlannerShape, DeficitAccounted, Exactly
<1> QED
  BY <1>2, <1>3, <1>4 DEF BalanceInv

\* The planner reads its numbers: what the receivers lack is all still open.
LEMMA IotwsBalancedKeeps ==
  ASSUME BalanceInv, NEW S \in SUBSET Servers, NEW f \in [S -> Numbers], IotwsBalanced(f)
  PROVE  BalanceInv'
<1> DEFINE mean == MeanOf(f)
           offset == Offset(mean)
<1>1. /\ planner = "idle" /\ rounds < MaxRounds /\ rounds' = rounds + 1 /\ seen' = f
      /\ plan' = NoPlan /\ exact' = (tasks = {} /\ \A s \in DOMAIN f : f[s] = conns[s])
      /\ conns' = conns /\ lastat' = lastat /\ sender' = sender /\ todo' = todo /\ tasks' = tasks
  BY DEF IotwsBalanced
<1>2. NumberMap(f) /\ DOMAIN f = S /\ todo = {}
  BY <1>1, ServersFinite DEF NumberMap, BalanceInv, PlannerShape
<1>3. \A r : Given(r)' = 0
  <2>1. ASSUME NEW r PROVE SumOf([s \in Servers |-> Amount(NoPlan[s], r)]) = 0
    <3>1. [s \in Servers |-> Amount(NoPlan[s], r)] = [s \in Servers |-> 0]
      BY AmountOfNone DEF NoPlan
    <3> QED
      BY <3>1, ServersFinite, SumOfZeros
  <2> QED
    BY <1>1, <2>1 DEF Given, Amount, PartsOf
<1>4. plan' \in [Servers -> Seq(Parts)] /\ rounds' \in 0 .. MaxRounds /\ exact' \in BOOLEAN
  <2>1. <<>> \in Seq(Parts)
    BY EmptySeq
  <2>2. exact' \in BOOLEAN
    BY <1>1, Zenon
  <2>3. rounds' \in 0 .. MaxRounds
    BY <1>1, ServersFinite DEF BalanceInv, PlannerTypes
  <2> QED
    BY <1>1, <2>1, <2>2, <2>3 DEF NoPlan
<1>5. WorkerTypes'
  BY <1>1, <1>4 DEF BalanceInv, WorkerTypes
<1>6. CASE DOMAIN f = {} \/ offset <= 20
  <2>1. /\ planner' \in {"idle", "panic"} /\ deficit' = <<>> /\ senders' = <<>>
    BY <1>6 DEF IotwsBalanced
  <2>2. PlannerTypes'
    BY <1>1, <1>2, <1>4, <2>1, NothingIsNumberMap DEF BalanceInv, PlannerTypes, NumberMap
  <2>3. PlannerShape' /\ DeficitAccounted'
    BY <1>1, <1>2, <2>1, NothingIsNumberMap DEF PlannerShape, DeficitAccounted
  <2>4. Exactly'
    <3>1. exact' => tasks' = {}
      BY <1>1
    <3> QED
      BY <2>1, <3>1, NothingIsNumberMap DEF Exactly
  <2> QED
    BY <1>5, <2>2, <2>3, <2>4 DEF BalanceInv
<1>7. CASE ~(DOMAIN f = {} \/ offset <= 20)
  <2> DEFINE low == {x \in DOMAIN f : f[x] < mean - offset}
             high == {x \in DOMAIN f : f[x] > mean + offset}
  <2>1. /\ planner' = "plans" /\ deficit' = [s \in low |-> mean - f[s]]
        /\ senders' = [s \in high |-> f[s] - mean]
    BY <1>7 DEF IotwsBalanced
  <2>2. mean \in Nat /\ offset \in Nat /\ Mean' = mean /\ Offset(Mean)' = offset
    <3>1. mean \in Nat /\ offset \in Nat
      BY <1>2, <1>7, MeanType
    <3>2. Mean' = mean
      BY <1>1 DEF Mean, MeanOf
    <3> QED
      BY <3>1, <3>2 DEF Offset
  <2> HIDE DEF mean, offset
  <2>3. \A s \in DOMAIN f : f[s] \in Nat
    BY <1>2 DEF NumberMap
  <2>4. NumberMap(deficit') /\ NumberMap(senders') /\ DOMAIN deficit' = low
    BY <2>1, <2>2, <2>3, <1>2 DEF NumberMap
  <2>5. PlannerTypes'
    BY <1>1, <1>2, <1>4, <2>1, <2>4 DEF BalanceInv, PlannerTypes, NumberMap
  <2>6. PlannerShape'
    <3>1. \A r \in DOMAIN deficit' : r \in DOMAIN seen' /\ seen'[r] < Mean' - Offset(Mean)'
      BY <1>1, <2>2, <2>4
    <3> QED
      BY <1>1, <1>2, <1>7, <2>1, <3>1 DEF PlannerShape
  <2>7. DeficitAccounted'
    <3>1. ASSUME NEW r \in DOMAIN deficit' PROVE deficit'[r] + Given(r)' = Mean' - seen'[r]
      BY <1>1, <1>3, <2>1, <2>2, <2>3, <2>4
    <3> QED
      BY <3>1 DEF DeficitAccounted
  <2>8. Exactly'
    <3>1. exact' => tasks' = {} /\ \A s \in DOMAIN seen' : seen'[s] = conns'[s]
      BY <1>1
    <3> QED
      BY <2>1, <3>1 DEF Exactly
  <2> QED
    BY <1>5, <2>5, <2>6, <2>7, <2>8 DEF BalanceInv
<1> QED
  BY <1>6, <1>7

\* Steps that leave the planner, the connections and the tasks alone.
LEMMA TimesKeep ==
  ASSUME BalanceInv, LastatAges \/ TryBalance \/ UNCHANGED balanceVars
  PROVE  BalanceInv'
<1>1. /\ conns' = conns /\ planner' = planner /\ tasks' = tasks /\ exact' = exact /\ seen' = seen
      /\ deficit' = deficit /\ sender' = sender /\ senders' = senders /\ todo' = todo /\ plan' = plan
  BY DEF LastatAges, TryBalance, balanceVars, planVars
<1>2. rounds' \in 0 .. MaxRounds /\ lastat' \in {"none", "recent", "old"}
  <2>1. rounds \in 0 .. MaxRounds /\ lastat \in {"none", "recent", "old"}
    BY DEF BalanceInv, PlannerTypes, WorkerTypes
  <2> QED
    BY <2>1, ServersFinite DEF LastatAges, TryBalance, balanceVars
<1>3. Mean' = Mean /\ Offset(Mean)' = Offset(Mean) /\ OverRange' = OverRange
  BY <1>1 DEF Mean, MeanOf, Offset, OverRange
<1>4. \A r : Given(r)' = Given(r) /\ Owed(r)' = Owed(r)
  BY <1>1, <1>3 DEF Given, Owed, Owes, TaskOf, Amount, PartsOf
<1>5. PlannerTypes' /\ WorkerTypes' /\ PlannerShape'
  BY <1>1, <1>2, <1>3 DEF BalanceInv, PlannerTypes, WorkerTypes, PlannerShape, NumberMap
<1>6. DeficitAccounted'
  BY <1>1, <1>3, <1>4 DEF BalanceInv, DeficitAccounted
<1>7. Exactly'
  <2>1. \A s : TaskOf(s)' = TaskOf(s)
    BY <1>1, <1>3 DEF TaskOf
  <2> QED
    BY <1>1, <1>3, <1>4, <2>1 DEF BalanceInv, Exactly
<1> QED
  BY <1>5, <1>6, <1>7 DEF BalanceInv

LEMMA NextSenderKeeps ==
  ASSUME BalanceInv, NEW s \in Servers, NextSender(s)
  PROVE  BalanceInv'
<1>1. /\ planner = "plans" /\ todo = {} /\ s \in DOMAIN senders
      /\ sender' = [name |-> s, left |-> senders[s]]
      /\ senders' = Restrict(senders, DOMAIN senders \ {s}) /\ todo' = DOMAIN deficit
      /\ conns' = conns /\ lastat' = lastat /\ planner' = planner /\ seen' = seen
      /\ deficit' = deficit /\ plan' = plan /\ tasks' = tasks /\ rounds' = rounds /\ exact' = exact
  BY DEF NextSender
<1>2. NumberMap(senders) /\ senders[s] \in Nat
  BY <1>1 DEF BalanceInv, PlannerTypes, NumberMap
<1>3. NumberMap(senders')
  BY <1>1, <1>2 DEF NumberMap, Restrict
<1>4. sender' \in [name : Servers, left : Nat]
  BY <1>1, <1>2
<1>5. Mean' = Mean /\ Offset(Mean)' = Offset(Mean) /\ \A r : Given(r)' = Given(r)
  BY <1>1 DEF Mean, MeanOf, Offset, Given, Amount, PartsOf
<1>6. PlannerTypes'
  BY <1>1, <1>3, <1>4 DEF BalanceInv, PlannerTypes, NumberMap
<1>7. WorkerTypes'
  BY <1>1 DEF BalanceInv, WorkerTypes
<1>8. PlannerShape'
  BY <1>1, <1>4, <1>5 DEF BalanceInv, PlannerShape
<1>9. DeficitAccounted'
  BY <1>1, <1>5 DEF BalanceInv, DeficitAccounted
<1>10. Exactly'
  BY <1>1 DEF BalanceInv, Exactly
<1> QED
  BY <1>6, <1>7, <1>8, <1>9, <1>10 DEF BalanceInv

\* What a sender gives to a receiver is what the receiver lacks less.
LEMMA GiveKeeps ==
  ASSUME BalanceInv, NEW r \in Servers, Give(r)
  PROVE  BalanceInv'
<1> DEFINE amount == IF deficit[r] < sender.left THEN deficit[r] ELSE sender.left
           n == sender.name
           p == [to |-> r, amount |-> amount]
<1>1. /\ planner = "plans" /\ r \in todo /\ todo' = todo \ {r}
      /\ IF deficit[r] = 0 THEN UNCHANGED <<deficit, sender, plan>>
         ELSE /\ deficit' = [deficit EXCEPT ![r] = @ - amount]
              /\ sender' = IF deficit[r] < sender.left THEN [sender EXCEPT !.left = @ - amount] ELSE sender
              /\ plan' = [plan EXCEPT ![n] = Append(@, p)]
      /\ conns' = conns /\ lastat' = lastat /\ planner' = planner /\ seen' = seen
      /\ senders' = senders /\ tasks' = tasks /\ rounds' = rounds /\ exact' = exact
  BY DEF Give
<1>2. /\ sender \in [name : Servers, left : Nat] /\ r \in DOMAIN deficit /\ DOMAIN seen # {}
      /\ NumberMap(deficit) /\ plan \in [Servers -> Seq(Parts)]
  BY <1>1 DEF BalanceInv, PlannerShape, PlannerTypes
<1>3. deficit[r] \in Nat /\ sender.left \in Nat /\ n \in Servers /\ deficit \in [DOMAIN deficit -> Nat]
  BY <1>2 DEF NumberMap
<1>4. amount \in Nat /\ amount <= deficit[r] /\ amount <= sender.left
  BY <1>3
<1>5. Mean' = Mean /\ Offset(Mean)' = Offset(Mean) /\ Mean \in Nat
  BY <1>1, <1>2, MeanType DEF Mean, MeanOf, Offset, BalanceInv, PlannerTypes
<1>6. \A x \in DOMAIN deficit : deficit[x] \in Nat /\ seen[x] \in Nat /\ deficit[x] + Given(x) = Mean - seen[x]
                                /\ Given(x) \in Nat
  BY <1>1, <1>2, GivenType DEF NumberMap, BalanceInv, PlannerShape, PlannerTypes, DeficitAccounted
<1>7. /\ NumberMap(deficit') /\ DOMAIN deficit' = DOMAIN deficit
      /\ sender' \in [name : Servers, left : Nat] /\ plan' \in [Servers -> Seq(Parts)]
      /\ \A x \in DOMAIN deficit : deficit'[x] + Given(x)' = Mean - seen[x]
  <2>1. CASE deficit[r] = 0
    <3>1. deficit' = deficit /\ sender' = sender /\ plan' = plan
      BY <1>1, <2>1
    <3>2. \A x : Given(x)' = Given(x)
      BY <3>1 DEF Given, Amount, PartsOf
    <3> QED
      BY <1>2, <1>6, <3>1, <3>2 DEF NumberMap
  <2>2. CASE deficit[r] # 0
    <3>1. p \in Parts /\ p.to = r /\ p.amount = amount
      BY <1>4 DEF Parts
    <3>2. /\ deficit' = [deficit EXCEPT ![r] = @ - amount]
          /\ sender' = IF deficit[r] < sender.left THEN [sender EXCEPT !.left = @ - amount] ELSE sender
          /\ plan' = [plan EXCEPT ![n] = Append(@, p)]
      BY <1>1, <2>2
    <3> HIDE DEF amount, p
    <3>3. plan' \in [Servers -> Seq(Parts)]
      <4>1. Append(plan[n], p) \in Seq(Parts)
        BY <1>2, <1>3, <3>1, AppendProperties
      <4> QED
        BY <1>2, <3>2, <4>1
    <3>4. sender' \in [name : Servers, left : Nat]
      <4>1. sender.left - amount \in Nat
        BY <1>3, <1>4
      <4> QED
        BY <1>2, <3>2, <4>1
    <3>5. /\ DOMAIN deficit' = DOMAIN deficit /\ deficit'[r] = deficit[r] - amount
          /\ \A x \in DOMAIN deficit \ {r} : deficit'[x] = deficit[x]
          /\ deficit' \in [DOMAIN deficit -> Nat]
      BY <1>2, <1>3, <1>4, <3>2
    <3>6. NumberMap(deficit')
      BY <1>2, <3>5 DEF NumberMap
    <3>7. \A x : Given(x)' = Given(x) + IF r = x THEN amount ELSE 0
      BY <1>2, <1>3, <3>1, <3>2, GivenGrows
    <3>8. ASSUME NEW x \in DOMAIN deficit PROVE deficit'[x] + Given(x)' = Mean - seen[x]
      <4>1. CASE x = r
        BY <4>1, <1>4, <1>5, <1>6, <3>5, <3>7
      <4>2. CASE x # r
        BY <4>2, <1>4, <1>5, <1>6, <3>5, <3>7
      <4> QED
        BY <4>1, <4>2
    <3> QED
      BY <3>3, <3>4, <3>5, <3>6, <3>8
  <2> QED
    BY <2>1, <2>2
<1>8. PlannerTypes'
  BY <1>1, <1>7 DEF BalanceInv, PlannerTypes, NumberMap
<1>9. WorkerTypes'
  BY <1>1 DEF BalanceInv, WorkerTypes
<1>10. PlannerShape'
  BY <1>1, <1>5, <1>7 DEF BalanceInv, PlannerShape
<1>11. DeficitAccounted'
  BY <1>1, <1>5, <1>7 DEF DeficitAccounted
<1>12. Exactly'
  BY <1>1 DEF BalanceInv, Exactly
<1> QED
  BY <1>8, <1>9, <1>10, <1>11, <1>12 DEF BalanceInv

\* The messages hold no more than the plan gives.
LEMMA OwedAtMostGiven ==
  ASSUME plan \in [Servers -> Seq(Parts)], NEW r
  PROVE  Owed(r) \in Nat /\ Owed(r) <= Given(r)
<1> DEFINE f == [s \in Servers |-> Owes(s, r)]
           g == [s \in Servers |-> Amount(plan[s], r)]
<1>1. g \in [Servers -> Nat]
  BY AmountType
<1>2. f \in [Servers -> Nat] /\ \A s \in Servers : f[s] <= g[s]
  <2>1. ASSUME NEW s \in Servers PROVE Owes(s, r) \in Nat /\ Owes(s, r) <= Amount(plan[s], r)
    <3>1. Amount(plan[s], r) \in Nat
      BY AmountType
    <3> QED
      BY <3>1 DEF Owes
  <2> QED
    BY <2>1
<1>3. Owed(r) = SumOf(f) /\ Given(r) = SumOf(g)
  BY DEF Owed, Given
<1> HIDE DEF f, g
<1> QED
  BY <1>1, <1>2, <1>3, ServersFinite, SumOfAtMost, SumOfType

LEMMA PublishKeeps ==
  ASSUME BalanceInv, Publish
  PROVE  BalanceInv'
<1>1. /\ planner = "plans" /\ todo = {} /\ DOMAIN senders = {} /\ planner' = "idle"
      /\ tasks' = tasks \cup {TaskOf(s) : s \in OverRange}
      /\ conns' = conns /\ lastat' = lastat /\ seen' = seen /\ deficit' = deficit
      /\ sender' = sender /\ senders' = senders /\ todo' = todo /\ plan' = plan
      /\ rounds' = rounds /\ exact' = exact
  BY DEF Publish, planVars, TaskOf, OverRange
<1>2. /\ NumberMap(seen) /\ DOMAIN seen # {} /\ plan \in [Servers -> Seq(Parts)]
  BY <1>1 DEF BalanceInv, PlannerTypes, PlannerShape
<1>3. Mean' = Mean /\ Offset(Mean)' = Offset(Mean) /\ Mean \in Nat
  BY <1>1, <1>2, MeanType DEF Mean, MeanOf, Offset
<1>4. \A r : Given(r)' = Given(r)
  BY <1>1 DEF Given, Amount, PartsOf
<1>5. OverRange' = OverRange /\ \A s : TaskOf(s)' = TaskOf(s)
  BY <1>1, <1>3 DEF OverRange, TaskOf
<1>6. PlannerTypes' /\ PlannerShape'
  BY <1>1, <1>3 DEF BalanceInv, PlannerTypes, PlannerShape, NumberMap
<1>7. WorkerTypes'
  <2>1. ASSUME NEW s \in OverRange
        PROVE  TaskOf(s).at \in Servers /\ TaskOf(s).mean \in Nat /\ TaskOf(s).parts \in Seq(Parts)
    BY <1>2, <1>3 DEF OverRange, TaskOf, NumberMap
  <2>2. \A m \in tasks' : m.at \in Servers /\ m.mean \in Nat /\ m.parts \in Seq(Parts)
    BY <1>1, <2>1 DEF BalanceInv, WorkerTypes
  <2> QED
    BY <1>1, <2>2 DEF BalanceInv, WorkerTypes
<1>8. DeficitAccounted'
  BY <1>1 DEF DeficitAccounted
<1>9. Exactly'
  <2> SUFFICES ASSUME exact = TRUE
               PROVE  /\ tasks' \subseteq {TaskOf(s) : s \in OverRange}
                      /\ \A r \in DOMAIN deficit : conns[r] + Owed(r)' <= Mean
    BY <1>1, <1>3, <1>5 DEF Exactly, BalanceInv, WorkerTypes
  <2>1. tasks = {} /\ \A s \in DOMAIN seen : seen[s] = conns[s]
    BY <1>1 DEF BalanceInv, Exactly
  <2>2. ASSUME NEW r \in DOMAIN deficit PROVE conns[r] + Owed(r)' <= Mean
    <3>1. Owed(r)' \in Nat /\ Owed(r)' <= Given(r)'
      <4>1. plan' \in [Servers -> Seq(Parts)]
        BY <1>1, <1>2
      <4>2. (plan \in [Servers -> Seq(Parts)] => Owed(r) \in Nat /\ Owed(r) <= Given(r))'
        BY OwedAtMostGiven, PTL
      <4> QED
        BY <4>1, <4>2
    <3>2. deficit[r] + Given(r) = Mean - seen[r] /\ r \in DOMAIN seen
      BY <1>1 DEF BalanceInv, DeficitAccounted, PlannerShape
    <3>3. deficit[r] \in Nat /\ seen[r] \in Nat /\ conns[r] = seen[r] /\ Given(r) \in Nat
      BY <1>2, <2>1, <3>2, GivenType DEF BalanceInv, PlannerTypes, NumberMap
    <3> QED
      BY <1>3, <1>4, <3>1, <3>2, <3>3
  <2> QED
    BY <1>1, <2>1, <2>2
<1> QED
  BY <1>6, <1>7, <1>8, <1>9 DEF BalanceInv

-----------------------------------------------------------------------------
(* The step of a worker.                                                   *)

LEMMA ProcessTaskKeeps ==
  ASSUME BalanceInv, NEW m \in tasks, ProcessTask(m)
  PROVE  BalanceInv'
<1> DEFINE moved == [r \in Servers |-> Moves(m, r)]
<1>1. /\ planner' = planner /\ seen' = seen /\ deficit' = deficit /\ sender' = sender
      /\ senders' = senders /\ todo' = todo /\ plan' = plan /\ rounds' = rounds
  BY DEF ProcessTask, planVars
<1>2. /\ m.at \in Servers /\ m.mean \in Nat /\ m.parts \in Seq(Parts) /\ conns \in [Servers -> Nat]
      /\ lastat \in {"none", "recent", "old"} /\ exact \in BOOLEAN
      /\ plan \in [Servers -> Seq(Parts)]
  BY DEF BalanceInv, WorkerTypes, PlannerTypes
<1>3. Message(m)
  BY <1>2 DEF Message
<1>4. /\ \A r \in Servers : moved[r] \in Nat /\ moved[r] <= Amount(m.parts, r)
      /\ SumOf(moved) \in Nat /\ SumOf(moved) <= conns[m.at]
  BY <1>3, MovesAtMost, MovesHasThem, ServersFinite
<1>5. /\ tasks' = tasks \/ tasks' = tasks \ {m}
      /\ exact' = TRUE => exact = TRUE /\ tasks' = tasks \ {m}
      /\ exact' \in BOOLEAN /\ lastat' \in {"none", "recent", "old"}
      /\ \/ conns' = conns
         \/ conns' = [r \in Servers |-> IF r = m.at THEN conns[r] - SumOf(moved) ELSE conns[r] + moved[r]]
  <2>1. CASE conns[m.at] - m.mean < 20
    BY <2>1, <1>2 DEF ProcessTask
  <2>2. CASE ~(conns[m.at] - m.mean < 20)
    <3>1. conns' = [r \in Servers |-> IF r = m.at THEN conns[r] - SumOf(moved) ELSE conns[r] + moved[r]]
      BY <2>2 DEF ProcessTask
    <3>2. \/ tasks' = tasks \ {m} /\ lastat' = "recent" /\ exact' = exact
          \/ exact' = FALSE /\ tasks' = tasks /\ lastat' = lastat
      BY <2>2 DEF ProcessTask
    <3> HIDE DEF moved
    <3> QED
      BY <1>2, <3>1, <3>2
  <2> QED
    BY <2>1, <2>2
<1> HIDE DEF moved
<1>6. /\ conns' \in [Servers -> Nat]
      /\ \A r \in Servers \ {m.at} : conns'[r] <= conns[r] + Amount(m.parts, r)
  <2>0. \A r \in Servers : conns[r] \in Nat /\ Amount(m.parts, r) \in Nat
    BY <1>2, AmountType
  <2>1. CASE conns' = conns
    BY <2>0, <2>1, <1>2
  <2>2. CASE conns' = [r \in Servers |-> IF r = m.at THEN conns[r] - SumOf(moved) ELSE conns[r] + moved[r]]
    <3>1. ASSUME NEW r \in Servers PROVE conns'[r] \in Nat
      <4>1. CASE r = m.at
        BY <4>1, <2>0, <2>2, <1>4
      <4>2. CASE r # m.at
        BY <4>2, <2>0, <2>2, <1>4
      <4> QED
        BY <4>1, <4>2
    <3>2. conns' \in [Servers -> Nat]
      BY <2>2, <3>1
    <3>3. ASSUME NEW r \in Servers \ {m.at} PROVE conns'[r] <= conns[r] + Amount(m.parts, r)
      <4>1. conns'[r] = conns[r] + moved[r]
        BY <2>2
      <4> QED
        BY <4>1, <2>0, <1>4
    <3> QED
      BY <3>2, <3>3
  <2> QED
    BY <1>5, <2>1, <2>2
<1>7. Mean' = Mean /\ Offset(Mean)' = Offset(Mean)
      /\ (\A r : Given(r)' = Given(r)) /\ OverRange' = OverRange /\ \A s : TaskOf(s)' = TaskOf(s)
  <2>1. Mean' = Mean /\ Offset(Mean)' = Offset(Mean)
    BY <1>1 DEF Mean, MeanOf, Offset
  <2> QED
    BY <1>1, <2>1 DEF Given, Amount, PartsOf, OverRange, TaskOf
<1>8. PlannerTypes' /\ PlannerShape' /\ DeficitAccounted'
  BY <1>1, <1>7 DEF BalanceInv, PlannerTypes, PlannerShape, NumberMap, DeficitAccounted
<1>9. WorkerTypes'
  BY <1>5, <1>6 DEF BalanceInv, WorkerTypes
<1>10. Exactly'
  <2> SUFFICES ASSUME exact' = TRUE PROVE Exactly'
    BY <1>5 DEF Exactly
  <2>1. exact = TRUE /\ tasks' = tasks \ {m}
    BY <1>5
  <2>2. planner # "plans"
    BY <2>1 DEF BalanceInv, Exactly
  <2> SUFFICES ASSUME planner = "idle"
               PROVE  /\ tasks' \subseteq {TaskOf(s) : s \in OverRange}
                      /\ \A r \in DOMAIN deficit : conns'[r] + Owed(r)' <= Mean
    BY <1>1, <1>7, <2>2 DEF Exactly
  <2>3. /\ tasks \subseteq {TaskOf(s) : s \in OverRange}
        /\ \A r \in DOMAIN deficit : conns[r] + Owed(r) <= Mean
    BY <2>1 DEF BalanceInv, Exactly
  <2>4. PICK s \in OverRange : m = TaskOf(s)
    BY <2>3
  <2>5. m.at = s /\ m.parts = plan[s] /\ s \in DOMAIN seen /\ seen[s] > Mean + Offset(Mean)
        /\ DOMAIN seen # {} /\ NumberMap(seen)
    BY <2>4 DEF TaskOf, OverRange, BalanceInv, PlannerTypes
  <2>6. Mean \in Nat /\ Offset(Mean) \in Nat /\ s \in Servers
    BY <2>5, <1>2, MeanType DEF Mean
  <2>7. ASSUME NEW r \in DOMAIN deficit PROVE conns'[r] + Owed(r)' <= Mean
    <3>1. r \in Servers /\ r # s
      <4>1. r \in DOMAIN seen /\ seen[r] < Mean - Offset(Mean) /\ seen[r] \in Nat /\ seen[s] \in Nat
        BY <2>5 DEF BalanceInv, PlannerShape, NumberMap
      <4> QED
        BY <4>1, <2>5, <2>6 DEF NumberMap
    <3>2. conns'[r] <= conns[r] + Amount(plan[s], r) /\ conns'[r] \in Nat /\ conns[r] \in Nat
          /\ Amount(plan[s], r) \in Nat
      BY <3>1, <2>5, <1>2, <1>6, AmountType
    <3> DEFINE f == [x \in Servers |-> Owes(x, r)]
               g == [x \in Servers |-> Owes(x, r)']
    <3>3. f \in [Servers -> Nat] /\ g \in [Servers -> Nat]
      <4>1. \A x \in Servers : Amount(plan[x], r) \in Nat
        BY <1>2, AmountType
      <4>2. \A x \in Servers : Owes(x, r) \in Nat
        BY <4>1 DEF Owes
      <4>3. \A x \in Servers : Owes(x, r)' = IF TaskOf(x) \in tasks' THEN Amount(plan[x], r) ELSE 0
        BY <1>1, <1>7 DEF Owes, Amount, PartsOf
      <4> QED
        BY <4>1, <4>2, <4>3
    <3>4. /\ \A x \in Servers \ {s} : f[x] = g[x]
          /\ f[s] = Amount(plan[s], r) /\ g[s] = 0
      <4>1. \A x \in Servers : Owes(x, r)' = IF TaskOf(x) \in tasks' THEN Amount(plan[x], r) ELSE 0
        BY <1>1, <1>7 DEF Owes, Amount, PartsOf
      <4>2. \A x \in Servers \ {s} : TaskOf(x) \in tasks' <=> TaskOf(x) \in tasks
        <5>1. \A x \in Servers \ {s} : TaskOf(x) # m
          BY <2>4 DEF TaskOf
        <5> QED
          BY <5>1, <2>1
      <4>3. TaskOf(s) \in tasks /\ TaskOf(s) \notin tasks'
        BY <2>1, <2>4
      <4> QED
        BY <2>6, <4>1, <4>2, <4>3 DEF Owes
    <3>5. Owed(r) = SumOf(f) /\ Owed(r)' = SumOf(g)
      BY DEF Owed
    <3> HIDE DEF f, g
    <3>6. SumOf(f) + g[s] = SumOf(g) + f[s] /\ SumOf(f) \in Nat /\ SumOf(g) \in Nat
      BY <2>6, <3>3, <3>4, ServersFinite, SumOfChange, SumOfType
    <3>7. Owed(r) = Owed(r)' + Amount(plan[s], r) /\ Owed(r)' \in Nat
      BY <3>2, <3>4, <3>5, <3>6
    <3>8. conns[r] + Owed(r) <= Mean
      BY <2>3
    <3> QED
      BY <2>6, <3>2, <3>7, <3>8
  <2> QED
    BY <2>1, <2>3, <2>7
<1> QED
  BY <1>8, <1>9, <1>10 DEF BalanceInv

-----------------------------------------------------------------------------

LEMMA StepBalanced == BalanceInv /\ [BalanceNext]_balanceVars => BalanceInv'
<1> SUFFICES ASSUME BalanceInv, [BalanceNext]_balanceVars PROVE BalanceInv'
  OBVIOUS
<1>1. ASSUME NEW s \in Servers, NextSender(s) \/ Give(s) PROVE BalanceInv'
  BY <1>1, NextSenderKeeps, GiveKeeps
<1>2. ASSUME NEW S \in SUBSET Servers, NEW f \in [S -> Numbers], IotwsBalanced(f) PROVE BalanceInv'
  BY <1>2, IotwsBalancedKeeps
<1>3. CASE LastatAges \/ TryBalance \/ UNCHANGED balanceVars
  BY <1>3, TimesKeep
<1>4. CASE Publish
  BY <1>4, PublishKeeps
<1>5. ASSUME NEW m \in tasks, ProcessTask(m) PROVE BalanceInv'
  BY <1>5, ProcessTaskKeeps
<1> QED
  BY <1>1, <1>2, <1>3, <1>4, <1>5 DEF BalanceNext

LEMMA BalanceHolds == BalanceSpec => []BalanceInv
  BY InitBalanced, StepBalanced, PTL DEF BalanceSpec

\* The types of iotwsBalancedlogic.go:31-114 and wsBalancedlogic.go:32-85, for any
\* servers; with them, no worker sends away more connections than it has, whatever a
\* message asks of it and however often it is run.
THEOREM BalanceTypesHold == BalanceSpec => []BalanceTypeOK
<1>1. BalanceInv => BalanceTypeOK
  BY TypesAreRight DEF BalanceInv
<1> QED
  BY <1>1, BalanceHolds, PTL

\* Whatever the order of the maps, what a receiver lacks to the mean is divided into
\* what it was promised and what is still open (iotwsBalancedlogic.go:79-95), for any
\* number of servers and of connections.
THEOREM DeficitIsAccounted == BalanceSpec => []DeficitAccounted
<1>1. BalanceInv => DeficitAccounted
  BY DEF BalanceInv
<1> QED
  BY <1>1, BalanceHolds, PTL

LEMMA BalancedIsWithinMean == BalanceInv => ReceiverWithinMean
<1> SUFFICES ASSUME BalanceInv, exact = TRUE, planner = "idle", NEW r \in DOMAIN deficit
             PROVE  conns[r] <= Mean
  BY DEF ReceiverWithinMean, BalanceInv, WorkerTypes
<1>1. conns[r] + Owed(r) <= Mean
  BY DEF BalanceInv, Exactly
<1>2. Owed(r) \in Nat
  BY OwedAtMostGiven DEF BalanceInv, PlannerTypes
<1>3. r \in Servers /\ conns[r] \in Nat /\ r \in DOMAIN seen /\ NumberMap(seen)
  BY DEF BalanceInv, PlannerTypes, WorkerTypes, PlannerShape, NumberMap
<1>4. Mean \in Nat
  BY <1>3, MeanType DEF Mean
<1> QED
  BY <1>1, <1>2, <1>3, <1>4

\* Right numbers and every message run once lift no receiver above the mean, while
\* the workers run in any order (wsBalancedlogic.go:45-78).
THEOREM ReceiverStaysWithinMean == BalanceSpec => []ReceiverWithinMean
  BY BalancedIsWithinMean, BalanceHolds, PTL
=============================================================================
