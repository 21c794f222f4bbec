---------------------------- MODULE SumTheorems ----------------------------
(***************************************************************************)
(* Sums of the values of a function over a finite set of indices, as the   *)
(* balances, deposits and shares of the contracts are added up.  The sum   *)
(* is the community modules' fold, a function defined by recursion on      *)
(* subsets.  That it exists and what it computes is shown without          *)
(* induction, by looking at a smallest set that would be an exception.     *)
(***************************************************************************)
EXTENDS Integers, Functions, FiniteSetsExt, FiniteSetTheorems, WellFoundedInduction, TLAPS

Sum(f, S) == FoldFunctionOnSet(LAMBDA x, y : x + y, 0, f, S)

\* The element the fold takes from a set first.
Pick(s) == CHOOSE x \in s : TRUE

\* g adds up f over every subset of S, in the order in which Pick takes them.
IsSum(g, f, S) == g = [s \in SUBSET S |-> IF s = {} THEN 0 ELSE f[Pick(s)] + g[s \ {Pick(s)}]]

\* The recursive function of the fold.
Adds(f, S) == CHOOSE g : IsSum(g, f, S)

-----------------------------------------------------------------------------
LEMMA SumIsChoice ==
    ASSUME NEW f, NEW S
    PROVE  Sum(f, S) = Adds(f, S)[S]
BY DEF Sum, FoldFunctionOnSet, MapThenFoldSet, Adds, IsSum, Pick

LEMMA PickIsMember ==
    ASSUME NEW S, S # {}
    PROVE  Pick(S) \in S
BY DEF Pick

\* A nonempty set of finite sets has one that contains no other.
LEMMA SmallestSet ==
    ASSUME NEW S, IsFiniteSet(S), NEW B, B \subseteq SUBSET S, B # {}
    PROVE  \E T \in B : \A U \in B : U \subseteq T => U = T
<1>1. IsWellFoundedOn(StrictSubsetOrdering(S), SUBSET S)
  BY FS_StrictSubsetOrderingWellFounded, FS_FiniteSubsetsOfFinite
<1>2. PICK T \in B : \A U \in B : ~ (<<U, T>> \in StrictSubsetOrdering(S))
  BY <1>1, WFMin
<1> QED
  BY <1>2 DEF StrictSubsetOrdering

LEMMA IsSumAt ==
    ASSUME NEW f, NEW S, NEW g, IsSum(g, f, S), NEW T \in SUBSET S
    PROVE  g[T] = IF T = {} THEN 0 ELSE f[Pick(T)] + g[T \ {Pick(T)}]
BY DEF IsSum

\* Functions that add up f over two sets agree on what both contain.
LEMMA SumsAgree ==
    ASSUME NEW f, NEW S, IsFiniteSet(S), NEW A \in SUBSET S, NEW g, IsSum(g, f, S),
           NEW h, IsSum(h, f, A)
    PROVE  \A T \in SUBSET A : g[T] = h[T]
<1> DEFINE B == {T \in SUBSET A : g[T] # h[T]}
<1> SUFFICES ASSUME B # {} PROVE FALSE
  OBVIOUS
<1>1. PICK T \in B : \A U \in B : U \subseteq T => U = T
  <2> HIDE DEF B
  <2>1. B \subseteq SUBSET S
    BY DEF B
  <2> QED
    BY <2>1, SmallestSet
<1>2. T \in SUBSET A /\ T \in SUBSET S /\ g[T] # h[T]
  BY <1>1
<1>3. T # {}
  <2>1. g[{}] = 0 /\ h[{}] = 0
    <3>1. {} \in SUBSET S /\ {} \in SUBSET A
      OBVIOUS
    <3> QED
      BY <3>1, IsSumAt
  <2> QED
    BY <1>2, <2>1
<1>4. Pick(T) \in T
  BY <1>3, PickIsMember
<1>5. T \ {Pick(T)} \notin B
  BY <1>1, <1>4
<1>6. g[T \ {Pick(T)}] = h[T \ {Pick(T)}]
  BY <1>2, <1>5
<1> QED
  BY <1>2, <1>3, <1>6, IsSumAt

\* The function the fold is defined by exists for every finite set.
LEMMA AddsExists ==
    ASSUME NEW f, NEW S, IsFiniteSet(S)
    PROVE  IsSum(Adds(f, S), f, S)
<1> DEFINE Missing(T) == \A g : ~IsSum(g, f, T)
           B == {T \in SUBSET S : Missing(T)}
<1>1. B = {}
  <2> SUFFICES ASSUME B # {} PROVE FALSE
    OBVIOUS
  <2>1. PICK T \in B : \A U \in B : U \subseteq T => U = T
    <3> HIDE DEF B
    <3>1. B \subseteq SUBSET S
      BY DEF B
    <3> QED
      BY <3>1, SmallestSet
  <2>2. T \in SUBSET S /\ Missing(T) /\ IsFiniteSet(T)
    BY <2>1, FS_Subset
  <2>3. ASSUME NEW U \in SUBSET T, U # T PROVE IsSum(Adds(f, U), f, U) /\ IsFiniteSet(U)
    <3>1. \E g : IsSum(g, f, U)
      BY <2>1, <2>2, <2>3
    <3> QED
      BY <2>2, <3>1, FS_Subset DEF Adds
  <2> DEFINE g == [s \in SUBSET T |->
                      IF s = {} THEN 0 ELSE f[Pick(s)] + Adds(f, s \ {Pick(s)})[s \ {Pick(s)}]]
  <2>4. ASSUME NEW U \in SUBSET T, U # T PROVE g[U] = Adds(f, U)[U]
    <3>1. CASE U = {}
      BY <2>3, <2>4, <3>1, IsSumAt
    <3>2. CASE U # {}
      <4>1. Pick(U) \in U
        BY <3>2, PickIsMember
      <4> DEFINE V == U \ {Pick(U)}
      <4>2. V \in SUBSET U /\ V \in SUBSET T /\ V # T
        BY <4>1, <2>4
      <4>3. Adds(f, U)[U] = f[Pick(U)] + Adds(f, U)[V]
        BY <2>3, <2>4, <3>2, IsSumAt
      <4>4. Adds(f, U)[V] = Adds(f, V)[V]
        <5>1. /\ IsSum(Adds(f, U), f, U) /\ IsSum(Adds(f, V), f, V) /\ IsFiniteSet(U)
              /\ V \in SUBSET U /\ V \in SUBSET V
          BY <2>3, <2>4, <4>2
        <5> QED
          BY <5>1, SumsAgree
      <4>5. g[U] = f[Pick(U)] + Adds(f, V)[V]
        BY <3>2
      <4> QED
        BY <4>3, <4>4, <4>5
    <3> QED
      BY <3>1, <3>2
  <2>5. g = [s \in SUBSET T |-> IF s = {} THEN 0 ELSE f[Pick(s)] + g[s \ {Pick(s)}]]
    <3>1. ASSUME NEW s \in SUBSET T, s # {} PROVE g[s \ {Pick(s)}] = Adds(f, s \ {Pick(s)})[s \ {Pick(s)}]
      <4>1. s \ {Pick(s)} \in SUBSET T /\ s \ {Pick(s)} # T
        BY <3>1, PickIsMember
      <4> QED
        BY <2>4, <4>1
    <3> QED
      BY <3>1
  <2>6. IsSum(g, f, T)
    BY <2>5 DEF IsSum
  <2> QED
    BY <2>2, <2>6
<1>2. \E g : IsSum(g, f, S)
  BY <1>1
<1> QED
  BY <1>2 DEF Adds

-----------------------------------------------------------------------------
LEMMA SumEmpty == ASSUME NEW f PROVE Sum(f, {}) = 0
<1>1. IsSum(Adds(f, {}), f, {})
  BY AddsExists, FS_EmptySet
<1>2. {} \in SUBSET {}
  OBVIOUS
<1> QED
  BY <1>1, <1>2, IsSumAt, SumIsChoice

\* The fold's own equation.
LEMMA SumPick ==
    ASSUME NEW f, NEW S, IsFiniteSet(S), S # {}
    PROVE  Sum(f, S) = f[Pick(S)] + Sum(f, S \ {Pick(S)})
<1> DEFINE U == S \ {Pick(S)}
<1>1. IsSum(Adds(f, S), f, S) /\ IsSum(Adds(f, U), f, U)
  BY AddsExists, FS_RemoveElement
<1>2. U \in SUBSET S /\ U \in SUBSET U /\ S \in SUBSET S
  OBVIOUS
<1>3. Adds(f, S)[U] = Adds(f, U)[U]
  <2> HIDE DEF U
  <2> QED
    BY <1>1, <1>2, SumsAgree
<1>4. Adds(f, S)[S] = f[Pick(S)] + Adds(f, S)[U]
  BY <1>1, <1>2, IsSumAt
<1> QED
  BY <1>3, <1>4, SumIsChoice

\* Only the values over S count.
LEMMA SumSame ==
    ASSUME NEW f, NEW g, NEW S, IsFiniteSet(S), \A x \in S : f[x] = g[x]
    PROVE  Sum(f, S) = Sum(g, S)
<1> DEFINE B == {T \in SUBSET S : Sum(f, T) # Sum(g, T)}
<1>1. B = {}
  <2> SUFFICES ASSUME B # {} PROVE FALSE
    OBVIOUS
  <2>1. PICK T \in B : \A U \in B : U \subseteq T => U = T
    <3> HIDE DEF B
    <3>1. B \subseteq SUBSET S
      BY DEF B
    <3> QED
      BY <3>1, SmallestSet
  <2>2. T \in SUBSET S /\ Sum(f, T) # Sum(g, T) /\ IsFiniteSet(T)
    BY <2>1, FS_Subset
  <2>3. T # {}
    BY <2>2, SumEmpty
  <2>4. Pick(T) \in T /\ T \ {Pick(T)} \notin B
    BY <2>1, <2>3, PickIsMember
  <2>5. Sum(f, T \ {Pick(T)}) = Sum(g, T \ {Pick(T)}) /\ f[Pick(T)] = g[Pick(T)]
    BY <2>2, <2>4
  <2> QED
    BY <2>2, <2>3, <2>5, SumPick
<1> QED
  BY <1>1

\* A sum stays in a set of numbers that has zero and is closed under addition.
LEMMA SumClosed ==
    ASSUME NEW f, NEW S, IsFiniteSet(S), NEW N, 0 \in N, \A a, b \in N : a + b \in N,
           \A x \in S : f[x] \in N
    PROVE  Sum(f, S) \in N
<1> DEFINE B == {T \in SUBSET S : Sum(f, T) \notin N}
<1>1. B = {}
  <2> SUFFICES ASSUME B # {} PROVE FALSE
    OBVIOUS
  <2>1. PICK T \in B : \A U \in B : U \subseteq T => U = T
    <3> HIDE DEF B
    <3>1. B \subseteq SUBSET S
      BY DEF B
    <3> QED
      BY <3>1, SmallestSet
  <2>2. T \in SUBSET S /\ Sum(f, T) \notin N /\ IsFiniteSet(T)
    BY <2>1, FS_Subset
  <2>3. T # {}
    BY <2>2, SumEmpty
  <2>4. Pick(T) \in T /\ T \ {Pick(T)} \notin B
    BY <2>1, <2>3, PickIsMember
  <2>5. Sum(f, T \ {Pick(T)}) \in N /\ f[Pick(T)] \in N
    BY <2>2, <2>4
  <2> QED
    BY <2>2, <2>3, <2>5, SumPick
<1> QED
  BY <1>1

LEMMA SumInt ==
    ASSUME NEW f, NEW S, IsFiniteSet(S), \A x \in S : f[x] \in Int
    PROVE  Sum(f, S) \in Int
<1>1. 0 \in Int /\ \A a, b \in Int : a + b \in Int
  OBVIOUS
<1> QED
  BY <1>1, SumClosed

LEMMA SumNat ==
    ASSUME NEW f, NEW S, IsFiniteSet(S), \A x \in S : f[x] \in Nat
    PROVE  Sum(f, S) \in Nat
<1>1. 0 \in Nat /\ \A a, b \in Nat : a + b \in Nat
  OBVIOUS
<1> QED
  BY <1>1, SumClosed

LEMMA SumZero ==
    ASSUME NEW f, NEW S, IsFiniteSet(S), \A x \in S : f[x] = 0
    PROVE  Sum(f, S) = 0
<1>1. 0 \in {0} /\ \A a, b \in {0} : a + b \in {0}
  OBVIOUS
<1>2. Sum(f, S) \in {0}
  BY <1>1, SumClosed
<1> QED
  BY <1>2

\* The order in which the summands are taken is no matter.
LEMMA SumRemove ==
    ASSUME NEW f, NEW S, IsFiniteSet(S), \A x \in S : f[x] \in Int, NEW x \in S
    PROVE  Sum(f, S) = f[x] + Sum(f, S \ {x})
<1> DEFINE B == {T \in SUBSET S : \E y \in T : Sum(f, T) # f[y] + Sum(f, T \ {y})}
<1>1. B = {}
  <2> SUFFICES ASSUME B # {} PROVE FALSE
    OBVIOUS
  <2>1. PICK T \in B : \A U \in B : U \subseteq T => U = T
    <3> HIDE DEF B
    <3>1. B \subseteq SUBSET S
      BY DEF B
    <3> QED
      BY <3>1, SmallestSet
  <2>2. T \in SUBSET S /\ IsFiniteSet(T)
    BY <2>1, FS_Subset
  <2>3. PICK y \in T : Sum(f, T) # f[y] + Sum(f, T \ {y})
    BY <2>1
  <2> DEFINE p == Pick(T)
  <2>4. p \in T /\ Sum(f, T) = f[p] + Sum(f, T \ {p})
    BY <2>2, <2>3, PickIsMember, SumPick
  <2> HIDE DEF p
  <2>5. p # y
    BY <2>3, <2>4
  <2>6. T \ {p} \notin B /\ T \ {y} \notin B
    BY <2>1, <2>3, <2>4
  <2> DEFINE rest == Sum(f, T \ {p, y})
  <2>7. Sum(f, T \ {p}) = f[y] + rest /\ Sum(f, T \ {y}) = f[p] + rest
    <3>1. /\ Sum(f, T \ {p}) = f[y] + Sum(f, (T \ {p}) \ {y})
          /\ Sum(f, T \ {y}) = f[p] + Sum(f, (T \ {y}) \ {p})
      BY <2>2, <2>3, <2>4, <2>5, <2>6
    <3>2. (T \ {p}) \ {y} = T \ {p, y} /\ (T \ {y}) \ {p} = T \ {p, y}
      OBVIOUS
    <3> QED
      BY <3>1, <3>2
  <2>8. f[p] \in Int /\ f[y] \in Int /\ rest \in Int
    <3>1. IsFiniteSet(T \ {p, y})
      BY <2>2, FS_Subset
    <3> QED
      BY <2>2, <2>3, <2>4, <3>1, SumInt
  <2> HIDE DEF rest, B
  <2> QED
    BY <2>3, <2>4, <2>7, <2>8
<1> QED
  BY <1>1

\* A sum changes by as much as the one summand that changes.
THEOREM SumChange ==
    ASSUME NEW S, IsFiniteSet(S), NEW f \in [S -> Int], NEW g \in [S -> Int], NEW x \in S,
           \A y \in S \ {x} : g[y] = f[y]
    PROVE  /\ Sum(g, S) = Sum(f, S) - f[x] + g[x]
           /\ Sum(f, S) \in Int /\ Sum(g, S) \in Int
<1>1. IsFiniteSet(S \ {x})
  BY FS_RemoveElement
<1>2. Sum(g, S \ {x}) = Sum(f, S \ {x})
  BY <1>1, SumSame
<1>3. Sum(g, S) = g[x] + Sum(g, S \ {x}) /\ Sum(f, S) = f[x] + Sum(f, S \ {x})
  BY SumRemove
<1>4. Sum(f, S \ {x}) \in Int /\ Sum(f, S) \in Int /\ Sum(g, S) \in Int
  BY <1>1, SumInt
<1> QED
  BY <1>2, <1>3, <1>4

\* No natural summand exceeds the sum.
LEMMA SumBounds ==
    ASSUME NEW S, IsFiniteSet(S), NEW f, \A y \in S : f[y] \in Nat, NEW x \in S
    PROVE  f[x] <= Sum(f, S) /\ Sum(f, S) \in Nat
<1>1. IsFiniteSet(S \ {x})
  BY FS_RemoveElement
<1>2. Sum(f, S \ {x}) \in Nat /\ Sum(f, S) \in Nat
  BY <1>1, SumNat
<1>3. Sum(f, S) = f[x] + Sum(f, S \ {x})
  BY SumRemove
<1> QED
  BY <1>2, <1>3

-----------------------------------------------------------------------------
\* The community modules' other names for the sum.
LEMMA FoldIsSum ==
    ASSUME NEW S, NEW T, NEW f \in [S -> T]
    PROVE  FoldFunction(LAMBDA x, y : x + y, 0, f) = Sum(f, S)
BY DEF Sum, FoldFunction

LEMMA MapIsSum ==
    ASSUME NEW S, NEW f
    PROVE  MapThenSumSet(LAMBDA x : f[x], S) = Sum(f, S)
BY DEF Sum, MapThenSumSet, FoldFunctionOnSet, MapThenFoldSet
=============================================================================
