----------------------------- MODULE OrdersRows -----------------------------
(***************************************************************************)
(* What the operations of the exchange do to its rows, for any number of   *)
(* orders and matches: sums over finite sets, rounding and fills           *)
(* (computeFillAmounts), what an order has given and gotten                *)
(* (getOrderAmountsRemaining), and the effect of every handler on the      *)
(* tables orders and matches.                                              *)
(***************************************************************************)
EXTENDS OrdersInv, FiniteSetTheorems, WellFoundedInduction, TLAPS

-----------------------------------------------------------------------------
(* Sums over finite sets.                                                   *)

\* Induction over the subsets of a finite set, one element at a time.
LEMMA SubsetInduction ==
  ASSUME NEW S, IsFiniteSet(S), NEW P,
         \A T \in SUBSET S : (\A U \in SUBSET T : U # T => U \in P) => T \in P
  PROVE  S \in P
<1> DEFINE Q == {T \in SUBSET S : T \notin P}
<1>1. IsWellFoundedOn(StrictSubsetOrdering(S), SUBSET S)
  BY Zenon, FS_StrictSubsetOrderingWellFounded, FS_FiniteSubsetsOfFinite
<1>2. SUFFICES ASSUME Q # {} PROVE FALSE
  BY <1>2
<1>3. Q \subseteq SUBSET S
  OBVIOUS
<1> HIDE DEF Q
<1>4. PICK T \in Q : \A U \in Q : ~(<<U, T>> \in StrictSubsetOrdering(S))
  BY <1>1, <1>2, <1>3, WFMin
<1>5. T \in SUBSET S /\ T \notin P
  BY <1>4 DEF Q
<1>6. ASSUME NEW U \in SUBSET T, U # T PROVE U \in P
  <2>1. U \in SUBSET S /\ <<U, T>> \in StrictSubsetOrdering(S)
    BY <1>5, <1>6, Zenon DEF StrictSubsetOrdering
  <2>2. U \notin Q
    BY <1>4, <2>1
  <2> QED BY <2>1, <2>2 DEF Q
<1> QED BY <1>5, <1>6

Pick(s) == CHOOSE x \in s : TRUE

\* g tabulates the sums of f over the subsets of S.
Tabulates(f, g, S) ==
    g = [s \in SUBSET S |-> IF s = {} THEN 0 ELSE f[Pick(s)] + g[s \ {Pick(s)}]]

\* The element that a fold takes next is one of the set.
LEMMA PickIsIn ==
  ASSUME NEW s, s # {}
  PROVE  Pick(s) \in s
BY Zenon DEF Pick

\* The fold behind Sum, written as a recursive function of the set left to add up.
LEMMA SumIsTabulated ==
  ASSUME NEW f, NEW S
  PROVE  SumFunctionOnSet(f, S) = (CHOOSE g : Tabulates(f, g, S))[S]
BY Zenon DEF SumFunctionOnSet, FoldFunctionOnSet, MapThenFoldSet, Tabulates, Pick

\* What a table says of each subset.
Steps(f, g, S) ==
    /\ g[{}] = 0
    /\ \A s \in SUBSET S : s # {} => g[s] = f[Pick(s)] + g[s \ {Pick(s)}]

\* One step of that recursion.
LEMMA TabulatedStep ==
  ASSUME NEW f, NEW g, NEW S, Tabulates(f, g, S)
  PROVE  Steps(f, g, S)
<1>1. g = [t \in SUBSET S |-> IF t = {} THEN 0 ELSE f[Pick(t)] + g[t \ {Pick(t)}]]
  BY Zenon DEF Tabulates
<1>2. \A s \in SUBSET S : g[s] = IF s = {} THEN 0 ELSE f[Pick(s)] + g[s \ {Pick(s)}]
  BY <1>1, Zenon
<1>3. {} \in SUBSET S
  OBVIOUS
<1> QED BY <1>2, <1>3, Zenon DEF Steps

\* The recursion agrees on a subset with the recursion over the larger set.
LEMMA StepsOfSubset ==
  ASSUME NEW f, NEW g, NEW S, Steps(f, g, S), NEW T \in SUBSET S
  PROVE  Steps(f, g, T)
BY Zenon DEF Steps

\* Two tables agree where both are defined.
LEMMA TablesAgree ==
  ASSUME NEW f, NEW g, NEW h, NEW U, IsFiniteSet(U), Steps(f, g, U), Steps(f, h, U)
  PROVE  g[U] = h[U]
<1> DEFINE P == {V \in SUBSET U : g[V] = h[V]}
<1>1. ASSUME NEW V \in SUBSET U, \A W \in SUBSET V : W # V => W \in P
      PROVE  V \in P
  <2>1. CASE V = {}
    BY <2>1 DEF Steps
  <2>2. CASE V # {}
    <3>1. Pick(V) \in V
      BY <2>2, PickIsIn
    <3>2. (V \ {Pick(V)}) \in SUBSET V /\ V \ {Pick(V)} # V
      BY <3>1
    <3>3. g[V \ {Pick(V)}] = h[V \ {Pick(V)}]
      BY <1>1, <3>2
    <3>4. g[V] = f[Pick(V)] + g[V \ {Pick(V)}] /\ h[V] = f[Pick(V)] + h[V \ {Pick(V)}]
      BY <2>2, Zenon DEF Steps
    <3> QED BY <3>3, <3>4
  <2> QED BY <2>1, <2>2
<1> HIDE DEF P
<1>2. U \in P
  BY <1>1, SubsetInduction
<1> QED BY <1>2 DEF P

\* Every finite set has a table.
LEMMA TableExists ==
  ASSUME NEW f, NEW S, IsFiniteSet(S)
  PROVE  \E g : Tabulates(f, g, S)
<1> DEFINE P == {T \in SUBSET S : \E g : Tabulates(f, g, T)}
<1>1. ASSUME NEW T \in SUBSET S, \A U \in SUBSET T : U # T => U \in P
      PROVE  T \in P
  <2> DEFINE tab(U) == CHOOSE g : Tabulates(f, g, U)
             g == [s \in SUBSET T |-> IF s = {} THEN 0
                                      ELSE f[Pick(s)] + tab(s \ {Pick(s)})[s \ {Pick(s)}]]
  <2>1. ASSUME NEW U \in SUBSET T, U # T
        PROVE  Tabulates(f, tab(U), U)
    BY <1>1, <2>1, Zenon
  <2>2. ASSUME NEW U \in SUBSET T, U # T
        PROVE  g[U] = tab(U)[U]
    <3>1. Tabulates(f, tab(U), U)
      BY <2>1, <2>2
    <3> HIDE DEF tab
    <3>2. CASE U = {}
      <4>1. tab(U)[U] = 0
        BY Zenon, <3>1, <3>2, TabulatedStep DEF Steps
      <4>2. g[U] = 0
        BY <3>2
      <4> QED BY <4>1, <4>2
    <3>3. CASE U # {}
      <4> DEFINE V == U \ {Pick(U)}
      <4>1. Pick(U) \in U
        BY <3>3, PickIsIn
      <4>2. V \in SUBSET T /\ V # T /\ V \in SUBSET U /\ V \in SUBSET V
        BY <4>1
      <4>3. Tabulates(f, tab(V), V)
        BY <2>1, <4>2
      <4>4. IsFiniteSet(V)
        BY <4>2, FS_Subset
      <4> HIDE DEF V
      <4>5. Steps(f, tab(U), U) /\ Steps(f, tab(V), V)
        BY <3>1, <4>3, TabulatedStep
      <4>6. Steps(f, tab(U), V)
        BY <4>2, <4>5, StepsOfSubset
      <4>8. tab(U)[V] = tab(V)[V]
        BY <4>4, <4>5, <4>6, TablesAgree
      <4>9. tab(U)[U] = f[Pick(U)] + tab(U)[V]
        BY <4>5, <3>3 DEF Steps, V
      <4>7. g[U] = f[Pick(U)] + tab(V)[V]
        BY <3>3 DEF V
      <4> QED BY <4>7, <4>8, <4>9
    <3> QED BY <3>2, <3>3
  <2>3. \A s \in SUBSET T : s # {} =>
           tab(s \ {Pick(s)})[s \ {Pick(s)}] = g[s \ {Pick(s)}]
    <3> HIDE DEF g, tab
    <3> TAKE s \in SUBSET T
    <3> HAVE s # {}
    <3>1. Pick(s) \in s
      BY PickIsIn
    <3>2. (s \ {Pick(s)}) \in SUBSET T /\ s \ {Pick(s)} # T
      BY <3>1
    <3> QED BY <2>2, <3>2
  <2>4. g = [s \in SUBSET T |-> IF s = {} THEN 0 ELSE f[Pick(s)] + g[s \ {Pick(s)}]]
    <3>1. \A s \in SUBSET T : g[s] = IF s = {} THEN 0 ELSE f[Pick(s)] + g[s \ {Pick(s)}]
      <4>1. \A s \in SUBSET T : g[s] = IF s = {} THEN 0
                                       ELSE f[Pick(s)] + tab(s \ {Pick(s)})[s \ {Pick(s)}]
        BY Zenon
      <4> HIDE DEF g, tab
      <4> QED BY <4>1, <2>3, Zenon
    <3>2. g = [s \in SUBSET T |-> g[s]]
      OBVIOUS
    <3> HIDE DEF g
    <3> QED BY <3>1, <3>2, Zenon
  <2>5. Tabulates(f, g, T)
    BY <2>4, Zenon DEF Tabulates
  <2> HIDE DEF g
  <2> QED BY <2>5
<1> HIDE DEF P
<1>2. S \in P
  BY <1>1, SubsetInduction
<1> QED BY <1>2 DEF P

-----------------------------------------------------------------------------
(* The sum of the values of f at the elements of a finite set.             *)

\* One table holds the sums of all subsets.
LEMMA SumsAreTabulated ==
  ASSUME NEW f, NEW S, IsFiniteSet(S)
  PROVE  \E g : Steps(f, g, S) /\ \A T \in SUBSET S : Sum(f, T) = g[T]
<1> DEFINE tab(T) == CHOOSE g : Tabulates(f, g, T)
<1>1. ASSUME NEW T \in SUBSET S
      PROVE  IsFiniteSet(T) /\ Steps(f, tab(T), T) /\ Sum(f, T) = tab(T)[T]
  <2>1. IsFiniteSet(T)
    BY FS_Subset
  <2>2. \E g : Tabulates(f, g, T)
    BY <2>1, TableExists
  <2>3. Tabulates(f, tab(T), T)
    BY <2>2, Zenon
  <2>4. Sum(f, T) = tab(T)[T]
    BY SumIsTabulated, Zenon DEF Sum
  <2> HIDE DEF tab
  <2>5. Steps(f, tab(T), T)
    BY <2>3, TabulatedStep
  <2> QED BY <2>1, <2>4, <2>5
<1> HIDE DEF tab
<1>2. Steps(f, tab(S), S)
  BY <1>1, Zenon
<1>3. ASSUME NEW T \in SUBSET S PROVE Sum(f, T) = tab(S)[T]
  <2>1. Steps(f, tab(S), T)
    BY <1>2, StepsOfSubset
  <2> QED BY <1>1, <2>1, TablesAgree
<1> QED BY <1>2, <1>3

\* The empty sum, and the element CHOOSE takes first.
LEMMA SumEmpty ==
  ASSUME NEW f
  PROVE  Sum(f, {}) = 0
<1>1. IsFiniteSet({})
  BY FS_EmptySet
<1>2. PICK g : Steps(f, g, {}) /\ \A T \in SUBSET {} : Sum(f, T) = g[T]
  BY <1>1, SumsAreTabulated
<1>3. {} \in SUBSET {}
  OBVIOUS
<1> QED BY <1>2, <1>3 DEF Steps

\* A sum is the term of one element and the sum of the others.
LEMMA SumPick ==
  ASSUME NEW f, NEW S, IsFiniteSet(S), S # {}
  PROVE  Sum(f, S) = f[Pick(S)] + Sum(f, S \ {Pick(S)})
<1>1. PICK g : Steps(f, g, S) /\ \A T \in SUBSET S : Sum(f, T) = g[T]
  BY SumsAreTabulated
<1>2. S \in SUBSET S /\ (S \ {Pick(S)}) \in SUBSET S
  OBVIOUS
<1>3. g[S] = f[Pick(S)] + g[S \ {Pick(S)}]
  BY <1>1, <1>2, Zenon DEF Steps
<1> QED BY <1>1, <1>2, <1>3, Zenon

\* The sum of integers is an integer.
LEMMA SumType ==
  ASSUME NEW f, NEW S, IsFiniteSet(S), \A x \in S : f[x] \in Int
  PROVE  Sum(f, S) \in Int
<1> DEFINE P == {T \in SUBSET S : Sum(f, T) \in Int}
<1>1. ASSUME NEW T \in SUBSET S, \A U \in SUBSET T : U # T => U \in P
      PROVE  T \in P
  <2>1. CASE T = {}
    BY <2>1, SumEmpty
  <2>2. CASE T # {}
    <3>1. Pick(T) \in T /\ IsFiniteSet(T)
      BY <2>2, PickIsIn, FS_Subset
    <3>2. (T \ {Pick(T)}) \in SUBSET T /\ T \ {Pick(T)} # T
      BY <3>1
    <3>3. Sum(f, T \ {Pick(T)}) \in Int
      BY <1>1, <3>2
    <3>4. Sum(f, T) = f[Pick(T)] + Sum(f, T \ {Pick(T)})
      BY <2>2, <3>1, SumPick
    <3>5. f[Pick(T)] \in Int
      BY <3>1
    <3>6. Sum(f, T) \in Int
      BY <3>3, <3>4, <3>5
    <3> QED BY <3>6
  <2> QED BY <2>1, <2>2
<1> HIDE DEF P
<1>2. S \in P
  BY <1>1, SubsetInduction
<1> QED BY <1>2 DEF P

\* Any element can be taken out first.
LEMMA SumRemove ==
  ASSUME NEW f, NEW S, IsFiniteSet(S), \A y \in S : f[y] \in Int, NEW x \in S
  PROVE  Sum(f, S) = Sum(f, S \ {x}) + f[x]
<1> DEFINE P == {T \in SUBSET S : \A y \in T : Sum(f, T) = Sum(f, T \ {y}) + f[y]}
<1>t. ASSUME NEW T \in SUBSET S PROVE IsFiniteSet(T) /\ Sum(f, T) \in Int
  <2>1. IsFiniteSet(T) /\ \A y \in T : f[y] \in Int
    BY FS_Subset
  <2> QED BY <2>1, SumType
<1>1. ASSUME NEW T \in SUBSET S, \A U \in SUBSET T : U # T => U \in P
      PROVE  T \in P
  <2>1. ASSUME NEW y \in T PROVE Sum(f, T) = Sum(f, T \ {y}) + f[y]
    <3> DEFINE c == Pick(T)
    <3>1. c \in T /\ T # {}
      BY PickIsIn
    <3>2. Sum(f, T) = f[c] + Sum(f, T \ {c})
      BY <1>t, <3>1, SumPick
    <3> HIDE DEF c
    <3>3. f[c] \in Int /\ f[y] \in Int
      BY <3>1
    <3>4. CASE y = c
      <4>1. Sum(f, T \ {c}) \in Int
        BY <1>t
      <4> QED BY SMTT(30), <3>2, <3>3, <3>4, <4>1
    <3>5. CASE y # c
      <4>1. /\ (T \ {c}) \in SUBSET T /\ T \ {c} # T /\ y \in T \ {c}
            /\ (T \ {y}) \in SUBSET T /\ T \ {y} # T /\ c \in T \ {y}
        BY <3>1, <3>5
      <4>2. Sum(f, T \ {c}) = Sum(f, (T \ {c}) \ {y}) + f[y]
        BY <1>1, <4>1
      <4>3. Sum(f, T \ {y}) = Sum(f, (T \ {y}) \ {c}) + f[c]
        BY <1>1, <4>1
      <4>4. (T \ {c}) \ {y} = (T \ {y}) \ {c}
        OBVIOUS
      <4>5. Sum(f, (T \ {y}) \ {c}) \in Int
        <5>1. ((T \ {y}) \ {c}) \in SUBSET S
          OBVIOUS
        <5> QED BY <1>t, <5>1
      <4> DEFINE rest == Sum(f, (T \ {y}) \ {c})
                 all == Sum(f, T)
                 less == Sum(f, T \ {y})
      <4>6. all = f[c] + (rest + f[y]) /\ less = rest + f[c] /\ rest \in Int
        BY Zenon, <3>2, <4>2, <4>3, <4>4, <4>5
      <4> HIDE DEF rest, all, less
      <4>7. all = less + f[y]
        BY <3>3, <4>6
      <4> QED BY <4>7 DEF all, less
    <3> QED BY <3>4, <3>5
  <2> QED BY <2>1
<1> HIDE DEF P
<1>2. S \in P
  BY <1>1, SubsetInduction
<1> QED BY <1>2 DEF P

\* ... and any element put in last.
LEMMA SumAdd ==
  ASSUME NEW f, NEW S, IsFiniteSet(S), NEW x, x \notin S,
         \A y \in S \cup {x} : f[y] \in Int
  PROVE  Sum(f, S \cup {x}) = Sum(f, S) + f[x]
<1>1. IsFiniteSet(S \cup {x})
  BY FS_AddElement
<1>2. x \in S \cup {x} /\ (S \cup {x}) \ {x} = S
  OBVIOUS
<1> DEFINE T == S \cup {x}
<1> HIDE DEF T
<1>3. Sum(f, T) = Sum(f, T \ {x}) + f[x]
  BY <1>1, <1>2, SumRemove DEF T
<1> QED BY <1>2, <1>3 DEF T

\* The sum depends only on the values at the elements.
LEMMA SumAgree ==
  ASSUME NEW f, NEW g, NEW S, IsFiniteSet(S), \A x \in S : f[x] = g[x]
  PROVE  Sum(f, S) = Sum(g, S)
<1> DEFINE P == {T \in SUBSET S : Sum(f, T) = Sum(g, T)}
<1>1. ASSUME NEW T \in SUBSET S, \A U \in SUBSET T : U # T => U \in P
      PROVE  T \in P
  <2>1. CASE T = {}
    BY <2>1, SumEmpty
  <2>2. CASE T # {}
    <3> DEFINE c == Pick(T)
    <3>1. c \in T /\ IsFiniteSet(T)
      BY <2>2, PickIsIn, FS_Subset
    <3>2. Sum(f, T) = f[c] + Sum(f, T \ {c}) /\ Sum(g, T) = g[c] + Sum(g, T \ {c})
      BY <2>2, <3>1, SumPick
    <3> HIDE DEF c
    <3>3. (T \ {c}) \in SUBSET T /\ T \ {c} # T
      BY <3>1
    <3>4. Sum(f, T \ {c}) = Sum(g, T \ {c})
      BY <1>1, <3>3
    <3>5. f[c] = g[c]
      BY <3>1
    <3>6. Sum(f, T) = Sum(g, T)
      BY <3>2, <3>4, <3>5, Zenon
    <3> QED BY <3>6
  <2> QED BY <2>1, <2>2
<1> HIDE DEF P
<1>2. S \in P
  BY <1>1, SubsetInduction
<1> QED BY <1>2 DEF P

\* A change at one element changes the sum by as much.
LEMMA SumUpdate ==
  ASSUME NEW f, NEW g, NEW S, IsFiniteSet(S), NEW x \in S,
         \A y \in S : f[y] \in Int /\ g[y] \in Int,
         \A y \in S : y # x => g[y] = f[y]
  PROVE  Sum(g, S) = Sum(f, S) - f[x] + g[x]
<1>1. Sum(f, S) = Sum(f, S \ {x}) + f[x] /\ Sum(g, S) = Sum(g, S \ {x}) + g[x]
  BY SumRemove
<1>2. IsFiniteSet(S \ {x}) /\ \A y \in S \ {x} : f[y] = g[y] /\ f[y] \in Int
  BY FS_RemoveElement
<1>3. Sum(f, S \ {x}) = Sum(g, S \ {x}) /\ Sum(f, S \ {x}) \in Int
  BY <1>2, SumAgree, SumType
<1>4. f[x] \in Int /\ g[x] \in Int
  OBVIOUS
<1> DEFINE a == Sum(f, S)
           b == Sum(g, S)
           r == Sum(f, S \ {x})
<1>5. a = r + f[x] /\ b = r + g[x] /\ r \in Int
  BY Zenon, <1>1, <1>3
<1> HIDE DEF a, b, r
<1>6. b = a - f[x] + g[x]
  BY <1>4, <1>5
<1> QED BY <1>6 DEF a, b

\* Sums over disjoint sets add up.
LEMMA SumUnion ==
  ASSUME NEW f, NEW S, IsFiniteSet(S), NEW T, IsFiniteSet(T), S \cap T = {},
         \A x \in S \cup T : f[x] \in Int
  PROVE  Sum(f, S \cup T) = Sum(f, S) + Sum(f, T)
<1> DEFINE P == {U \in SUBSET T : Sum(f, S \cup U) = Sum(f, S) + Sum(f, U)}
<1>s. Sum(f, S) \in Int
  BY SumType
<1>1. ASSUME NEW U \in SUBSET T, \A V \in SUBSET U : V # U => V \in P
      PROVE  U \in P
  <2>1. CASE U = {}
    <3>1. S \cup U = S /\ Sum(f, U) = 0
      BY <2>1, SumEmpty
    <3>2. Sum(f, S) = Sum(f, S) + 0
      BY <1>s
    <3>3. Sum(f, S \cup U) = Sum(f, S) + Sum(f, U)
      BY <3>1, <3>2, Zenon
    <3> QED BY <3>3
  <2>2. CASE U # {}
    <3>1. PICK c \in U : TRUE
      BY <2>2
    <3>2. IsFiniteSet(U) /\ IsFiniteSet(S \cup U)
      BY Zenon, FS_Subset, FS_Union
    <3>3. /\ c \in S \cup U /\ (S \cup U) \ {c} = S \cup (U \ {c})
          /\ (U \ {c}) \in SUBSET U /\ U \ {c} # U
      BY <3>1
    <3>4. /\ Sum(f, S \cup U) = Sum(f, (S \cup U) \ {c}) + f[c]
          /\ Sum(f, U) = Sum(f, U \ {c}) + f[c]
      BY SMTT(30), <3>1, <3>2, <3>3, SumRemove
    <3>5. Sum(f, S \cup (U \ {c})) = Sum(f, S) + Sum(f, U \ {c})
      BY <1>1, <3>3
    <3>6. IsFiniteSet(U \ {c}) /\ \A y \in U \ {c} : f[y] \in Int
      BY SMTT(30), <3>2, FS_RemoveElement
    <3>7. Sum(f, U \ {c}) \in Int /\ f[c] \in Int
      BY <3>6, SumType
    <3> DEFINE all == Sum(f, S \cup U)
               s == Sum(f, S)
               u == Sum(f, U)
               v == Sum(f, U \ {c})
    <3>8. all = (s + v) + f[c] /\ u = v + f[c] /\ s \in Int /\ v \in Int /\ f[c] \in Int
      BY Zenon, <1>s, <3>3, <3>4, <3>5, <3>7
    <3> HIDE DEF all, s, u, v
    <3>9. all = s + u
      BY <3>8
    <3> QED BY <3>9 DEF all, s, u
  <2> QED BY <2>1, <2>2
<1> HIDE DEF P
<1>2. T \in P
  BY <1>1, SubsetInduction
<1> QED BY <1>2 DEF P

\* The sum of naturals is a natural.
LEMMA SumNatural ==
  ASSUME NEW f, NEW S, IsFiniteSet(S), \A x \in S : f[x] \in Nat
  PROVE  Sum(f, S) \in Nat
<1> DEFINE P == {T \in SUBSET S : Sum(f, T) \in Nat}
<1>1. ASSUME NEW T \in SUBSET S, \A U \in SUBSET T : U # T => U \in P
      PROVE  T \in P
  <2>1. CASE T = {}
    BY <2>1, SumEmpty
  <2>2. CASE T # {}
    <3>1. Pick(T) \in T /\ IsFiniteSet(T)
      BY SMTT(30), <2>2, PickIsIn, FS_Subset
    <3>2. (T \ {Pick(T)}) \in SUBSET T /\ T \ {Pick(T)} # T
      BY <3>1
    <3>3. Sum(f, T \ {Pick(T)}) \in Nat
      BY <1>1, <3>2
    <3>4. Sum(f, T) = f[Pick(T)] + Sum(f, T \ {Pick(T)})
      BY SMTT(30), <2>2, <3>1, SumPick
    <3>5. f[Pick(T)] \in Nat
      BY <3>1
    <3>6. Sum(f, T) \in Nat
      BY SMTT(30), <3>3, <3>4, <3>5
    <3> QED BY <3>6
  <2> QED BY <2>1, <2>2
<1> HIDE DEF P
<1>2. S \in P
  BY <1>1, SubsetInduction
<1> QED BY <1>2 DEF P

\* Elements whose value is 0 do not count.
LEMMA SumOfZeros ==
  ASSUME NEW f, NEW S, IsFiniteSet(S), \A x \in S : f[x] = 0
  PROVE  Sum(f, S) = 0
<1> DEFINE P == {T \in SUBSET S : Sum(f, T) = 0}
<1>1. ASSUME NEW T \in SUBSET S, \A U \in SUBSET T : U # T => U \in P
      PROVE  T \in P
  <2>1. CASE T = {}
    BY <2>1, SumEmpty
  <2>2. CASE T # {}
    <3>1. Pick(T) \in T /\ IsFiniteSet(T)
      BY <2>2, PickIsIn, FS_Subset
    <3>2. (T \ {Pick(T)}) \in SUBSET T /\ T \ {Pick(T)} # T
      BY <3>1
    <3>3. Sum(f, T \ {Pick(T)}) = 0
      BY <1>1, <3>2
    <3>4. Sum(f, T) = f[Pick(T)] + Sum(f, T \ {Pick(T)})
      BY <2>2, <3>1, SumPick
    <3>5. f[Pick(T)] = 0
      BY <3>1
    <3>6. Sum(f, T) = 0
      BY <3>3, <3>4, <3>5
    <3> QED BY <3>6
  <2> QED BY <2>1, <2>2
<1> HIDE DEF P
<1>2. S \in P
  BY <1>1, SubsetInduction
<1> QED BY <1>2 DEF P

\* The sum of pointwise sums.
LEMMA SumPlus ==
  ASSUME NEW f, NEW g, NEW h, NEW S, IsFiniteSet(S),
         \A x \in S : f[x] \in Int /\ g[x] \in Int /\ h[x] = f[x] + g[x]
  PROVE  Sum(h, S) = Sum(f, S) + Sum(g, S)
<1> DEFINE P == {T \in SUBSET S : Sum(h, T) = Sum(f, T) + Sum(g, T)}
<1>1. ASSUME NEW T \in SUBSET S, \A U \in SUBSET T : U # T => U \in P
      PROVE  T \in P
  <2>1. CASE T = {}
    <3>1. Sum(h, T) = 0 /\ Sum(f, T) = 0 /\ Sum(g, T) = 0
      BY Zenon, <2>1, SumEmpty
    <3>2. Sum(h, T) = Sum(f, T) + Sum(g, T)
      BY <3>1
    <3> QED BY <3>2
  <2>2. CASE T # {}
    <3> DEFINE c == Pick(T)
               U == T \ {c}
    <3>1. c \in T /\ c \in S /\ IsFiniteSet(T)
      BY <2>2, PickIsIn, FS_Subset
    <3>2. U \in SUBSET T /\ U # T /\ U \in SUBSET S
      BY <3>1
    <3>3. IsFiniteSet(U) /\ \A x \in U : f[x] \in Int /\ g[x] \in Int
      BY <3>1, <3>2, FS_Subset
    <3>4. Sum(h, U) = Sum(f, U) + Sum(g, U)
      BY <1>1, <3>2
    <3>5. Sum(h, T) = h[c] + Sum(h, U) /\ Sum(f, T) = f[c] + Sum(f, U) /\ Sum(g, T) = g[c] + Sum(g, U)
      BY Zenon, <2>2, <3>1, SumPick
    <3> HIDE DEF c, U
    <3>6. Sum(f, U) \in Int /\ Sum(g, U) \in Int
      BY Zenon, <3>3, SumType
    <3>7. h[c] = f[c] + g[c] /\ f[c] \in Int /\ g[c] \in Int
      BY <3>1
    <3>8. Sum(h, T) = Sum(f, T) + Sum(g, T)
      BY SMTT(30), <3>4, <3>5, <3>6, <3>7
    <3> QED BY <3>8
  <2> QED BY <2>1, <2>2
<1> HIDE DEF P
<1>2. S \in P
  BY <1>1, SubsetInduction
<1> QED BY <1>2 DEF P

\* Summing over a part is summing a function that is 0 elsewhere over the whole.
LEMMA SumOfPart ==
  ASSUME NEW f, NEW g, NEW S, IsFiniteSet(S), NEW T \in SUBSET S,
         \A x \in T : f[x] \in Int /\ g[x] = f[x],
         \A x \in S \ T : g[x] = 0
  PROVE  Sum(g, S) = Sum(f, T)
<1>1. IsFiniteSet(T) /\ IsFiniteSet(S \ T)
  BY FS_Subset, FS_Difference
<1>2. T \cap (S \ T) = {} /\ T \cup (S \ T) = S /\ \A x \in T \cup (S \ T) : g[x] \in Int
  OBVIOUS
<1>3. Sum(g, T \cup (S \ T)) = Sum(g, T) + Sum(g, S \ T)
  BY Zenon, <1>1, <1>2, SumUnion
<1>4. Sum(g, S \ T) = 0
  BY Zenon, <1>1, SumOfZeros
<1>5. Sum(g, T) = Sum(f, T)
  BY Zenon, <1>1, SumAgree
<1>6. Sum(f, T) \in Int
  BY Zenon, <1>1, SumType
<1>7. Sum(g, S) = Sum(g, T) + Sum(g, S \ T)
  BY Zenon, <1>2, <1>3
<1> DEFINE whole == Sum(g, S)
           part == Sum(g, T)
           rest == Sum(g, S \ T)
           same == Sum(f, T)
<1> HIDE DEF whole, part, rest, same
<1>8. whole = part + rest /\ rest = 0 /\ part = same /\ same \in Int
  BY Zenon, <1>4, <1>5, <1>6, <1>7 DEF whole, part, rest, same
<1>9. whole = same
  BY <1>8
<1> QED BY Zenon, <1>9 DEF whole, same

\* SumFunction adds up all the values of a function.
LEMMA SumFunctionIsSum ==
  ASSUME NEW f, NEW S, DOMAIN f = S
  PROVE  SumFunction(f) = Sum(f, S)
BY Zenon DEF SumFunction, Sum

\* Numbered rows are finitely many.
LEMMA IntervalIsFinite ==
  ASSUME NEW n \in Nat
  PROVE  IsFiniteSet(1 .. n)
BY FS_Interval

\* A part of a finite set is finite.
LEMMA PartIsFinite ==
  ASSUME NEW S, IsFiniteSet(S), NEW T \in SUBSET S
  PROVE  IsFiniteSet(T)
BY Zenon, FS_Subset

-----------------------------------------------------------------------------
(* Rounding and fill amounts.                                              *)

\* Order is kept by a nonnegative factor.
LEMMA Scale ==
  ASSUME NEW a \in Int, NEW b \in Int, NEW c \in Nat, a <= b
  PROVE  a * c <= b * c
OBVIOUS

\* A positive factor can be cancelled from an inequality.
LEMMA Unscale ==
  ASSUME NEW a \in Int, NEW b \in Int, NEW c \in Nat \ {0}, a * c <= b * c
  PROVE  a <= b
OBVIOUS

\* The quotient and remainder of integer division.
LEMMA DivBounds ==
  ASSUME NEW a \in Nat, NEW b \in Nat \ {0}
  PROVE  /\ a \div b \in Nat
         /\ b * (a \div b) <= a /\ a < b * (a \div b) + b
OBVIOUS

\* BcRound is off by at most half a unit.
LEMMA RoundBounds ==
  ASSUME NEW n \in Nat, NEW d \in Nat \ {0}
  PROVE  /\ BcRound(n, d) \in Nat
         /\ (2 * BcRound(n, d) - 1) * d <= 2 * n
         /\ 2 * n < (2 * BcRound(n, d) + 1) * d
<1> DEFINE r == BcRound(n, d)
           a == 2 * n + d
           b == 2 * d
<1>1. a \in Nat /\ b \in Nat \ {0} /\ r = a \div b
  BY DEF BcRound
<1> HIDE DEF r, a, b
<1>2. r \in Nat /\ b * r <= a /\ a < b * r + b
  BY <1>1, DivBounds
<1>3. (2 * d) * r <= 2 * n + d /\ 2 * n + d < (2 * d) * r + 2 * d
  BY <1>2 DEF a, b
<1>4. (2 * r - 1) * d = (2 * d) * r - d /\ (2 * r + 1) * d = (2 * d) * r + d
  BY <1>2
<1>5. (2 * d) * r \in Int
  BY <1>2
<1>6. (2 * r - 1) * d <= 2 * n /\ 2 * n < (2 * r + 1) * d
  BY <1>3, <1>4, <1>5
<1> QED BY <1>2, <1>6 DEF r

\* Rounding n / d does not pass an integer that n / d does not pass.
LEMMA RoundStays ==
  ASSUME NEW n \in Nat, NEW d \in Nat \ {0}, NEW m \in Nat, n <= m * d
  PROVE  BcRound(n, d) <= m
<1> DEFINE r == BcRound(n, d)
<1>1. r \in Nat /\ (2 * r - 1) * d <= 2 * n
  BY RoundBounds
<1> HIDE DEF r
<1>2. SUFFICES ASSUME r >= m + 1 PROVE FALSE
  BY <1>1 DEF r
<1>3. (2 * m + 1) * d <= (2 * r - 1) * d
  BY <1>1, <1>2, Scale
<1>4. (2 * m + 1) * d = 2 * (m * d) + d /\ m * d \in Int
  OBVIOUS
<1> QED BY SMTT(30), <1>1, <1>3, <1>4

\* A rounded amount of zero was below half a unit.
LEMMA RoundIsPositive ==
  ASSUME NEW n \in Nat, NEW d \in Nat \ {0}
  PROVE  BcRound(n, d) > 0 <=> 2 * n >= d
<1> DEFINE r == BcRound(n, d)
<1>1. r \in Nat /\ (2 * r - 1) * d <= 2 * n /\ 2 * n < (2 * r + 1) * d
  BY RoundBounds
<1> HIDE DEF r
<1>2. ASSUME r > 0 PROVE 2 * n >= d
  <2>1. 1 * d <= (2 * r - 1) * d
    BY <1>1, <1>2, Scale
  <2> QED BY <1>1, <2>1
<1>3. ASSUME r = 0 PROVE 2 * n < d
  BY <1>1, <1>3
<1> QED BY <1>1, <1>2, <1>3 DEF r

\* The minimum and the maximum of a pair.
LEMMA MinOfTwo ==
  ASSUME NEW a \in Int, NEW b \in Int
  PROVE  /\ Min({a, b}) = (IF a <= b THEN a ELSE b)
         /\ Max({a, b}) = (IF a <= b THEN b ELSE a)
BY DEF Min, Max

\* A fill stays within both bounds, uses up one of them, and is off the taker's price by
\* less than half a unit.
LEMMA FillFacts ==
  ASSUME NEW mg \in Nat, NEW mt \in Nat, NEW p \in Nat \ {0}, NEW q \in Nat \ {0},
         NEW f, f = FillOf(mg, mt, p, q)
  PROVE  /\ f.give \in Nat /\ f.get \in Nat
         /\ f.give <= mg /\ f.get <= mt
         /\ f.give = mg \/ f.get = mt
         /\ (2 * f.give - 1) * q <= (2 * f.get + 1) * p
         /\ (2 * f.get - 1) * p <= (2 * f.give + 1) * q
<1>0. mg * q \in Nat /\ mt * p \in Nat
  OBVIOUS
<1>1. CASE mt * p > mg * q
  <2> DEFINE r == BcRound(mg * q, p)
  <2>1. f.give = mg /\ f.get = r
    BY <1>1 DEF FillOf
  <2>2. r \in Nat /\ (2 * r - 1) * p <= 2 * (mg * q) /\ 2 * (mg * q) < (2 * r + 1) * p
    BY Zenon, <1>0, RoundBounds
  <2>3. r <= mt
    BY <1>0, <1>1, RoundStays
  <2> HIDE DEF r
  <2>4. /\ (2 * mg - 1) * q = 2 * (mg * q) - q
        /\ (2 * mg + 1) * q = 2 * (mg * q) + q
    OBVIOUS
  <2>5. (2 * mg - 1) * q <= (2 * r + 1) * p /\ (2 * r - 1) * p <= (2 * mg + 1) * q
    <3>1. (2 * r + 1) * p \in Int /\ (2 * r - 1) * p \in Int
      BY <2>2
    <3> QED BY SMTT(30), <1>0, <2>2, <2>4, <3>1
  <2> QED BY SMTT(30), <2>1, <2>2, <2>3, <2>5
<1>2. CASE ~(mt * p > mg * q)
  <2> DEFINE r == BcRound(mt * p, q)
  <2>1. f.give = r /\ f.get = mt
    BY <1>2 DEF FillOf
  <2>2. r \in Nat /\ (2 * r - 1) * q <= 2 * (mt * p) /\ 2 * (mt * p) < (2 * r + 1) * q
    BY Zenon, <1>0, RoundBounds
  <2>3. r <= mg
    BY <1>0, <1>2, RoundStays
  <2> HIDE DEF r
  <2>4. /\ (2 * mt - 1) * p = 2 * (mt * p) - p
        /\ (2 * mt + 1) * p = 2 * (mt * p) + p
    OBVIOUS
  <2>5. (2 * r - 1) * q <= (2 * mt + 1) * p /\ (2 * mt - 1) * p <= (2 * r + 1) * q
    <3>1. (2 * r + 1) * q \in Int /\ (2 * r - 1) * q \in Int
      BY <2>2
    <3> QED BY SMTT(30), <1>0, <2>2, <2>4, <3>1
  <2> QED BY SMTT(30), <2>1, <2>2, <2>3, <2>5
<1> QED BY <1>1, <1>2

\* With smaller bounds a fill that rounded to zero still does.
LEMMA FillShrinks ==
  ASSUME NEW mg \in Nat, NEW mt \in Nat, NEW p \in Nat \ {0}, NEW q \in Nat \ {0},
         NEW mg2 \in Nat, NEW mt2 \in Nat, mg2 <= mg, mt2 <= mt,
         NEW f, f = FillOf(mg, mt, p, q), NEW f2, f2 = FillOf(mg2, mt2, p, q),
         f2.give > 0, f2.get > 0
  PROVE  f.give > 0 /\ f.get > 0
<1>0. /\ mg * q \in Nat /\ mt * p \in Nat /\ mg2 * q \in Nat /\ mt2 * p \in Nat
      /\ mg2 * q <= mg * q /\ mt2 * p <= mt * p
  BY Scale
<1>1. /\ f2.give \in Nat /\ f2.get \in Nat /\ f2.give <= mg2 /\ f2.get <= mt2
      /\ f.give \in Nat /\ f.get \in Nat
  BY Zenon, FillFacts
<1>2. mg2 > 0 /\ mt2 > 0 /\ p <= mt2 * p /\ q <= mg2 * q
  <2>1. mg2 > 0 /\ mt2 > 0
    BY <1>1
  <2>2. 1 * p <= mt2 * p /\ 1 * q <= mg2 * q
    BY <2>1, Scale
  <2> QED BY <2>1, <2>2
<1>3. 2 * (mg2 * q) >= p \/ mt2 * p <= mg2 * q
  <2>1. CASE mt2 * p > mg2 * q
    <3>1. f2.get = BcRound(mg2 * q, p)
      BY <2>1 DEF FillOf
    <3>2. BcRound(mg2 * q, p) > 0
      BY <3>1
    <3> QED BY SMTT(30), <1>0, <3>2, RoundIsPositive
  <2> QED BY <1>0, <2>1
<1>4. 2 * (mt2 * p) >= q \/ mt2 * p > mg2 * q
  <2>1. CASE ~(mt2 * p > mg2 * q)
    <3>1. f2.give = BcRound(mt2 * p, q)
      BY <2>1 DEF FillOf
    <3>2. BcRound(mt2 * p, q) > 0
      BY <3>1
    <3> QED BY SMTT(30), <1>0, <3>2, RoundIsPositive
  <2> QED BY <1>0, <2>1
<1>5. 2 * (mg * q) >= p /\ 2 * (mt * p) >= q
  BY SMTT(30), <1>0, <1>2, <1>3, <1>4
<1>6. BcRound(mg * q, p) > 0 /\ BcRound(mt * p, q) > 0
  BY SMTT(30), <1>0, <1>5, RoundIsPositive
<1>7. CASE mt * p > mg * q
  <2>1. f.give = mg /\ f.get = BcRound(mg * q, p)
    BY <1>7 DEF FillOf
  <2> QED BY SMTT(30), <1>2, <1>6, <2>1
<1>8. CASE ~(mt * p > mg * q)
  <2>1. f.give = BcRound(mt * p, q) /\ f.get = mt
    BY <1>8 DEF FillOf
  <2> QED BY SMTT(30), <1>2, <1>6, <2>1
<1> QED BY <1>7, <1>8

\* A fill at the taker's price respects the limit of a maker whose bid reaches it.
LEMMA MakerLimit ==
  ASSUME NEW give \in Nat, NEW get \in Nat, NEW p \in Nat \ {0}, NEW q \in Nat \ {0},
         NEW x \in Nat \ {0}, NEW y \in Nat \ {0},
         (2 * get - 1) * p <= (2 * give + 1) * q, q * y <= x * p
  PROVE  (2 * get - 1) * y <= (2 * give + 1) * x
<1> DEFINE a == 2 * get - 1
           b == 2 * give + 1
<1>1. a \in Int /\ b \in Nat /\ a * p <= b * q
  OBVIOUS
<1> HIDE DEF a, b
<1>2. (a * p) * y <= (b * q) * y
  BY <1>1, Scale
<1>3. (q * y) * b <= (x * p) * b
  BY <1>1, Scale
<1>4. /\ (a * p) * y = (a * y) * p /\ (b * q) * y = (q * y) * b
      /\ (x * p) * b = (b * x) * p
  BY <1>1
<1>5. a * y \in Int /\ b * x \in Int /\ (a * y) * p \in Int /\ (q * y) * b \in Int
      /\ (b * x) * p \in Int
  BY <1>1
<1>6. (a * y) * p <= (b * x) * p
  BY SMTT(30), <1>2, <1>3, <1>4, <1>5
<1>7. a * y <= b * x
  BY SMTT(30), <1>5, <1>6, Unscale
<1> QED BY <1>7 DEF a, b

-----------------------------------------------------------------------------
(* The inductive invariant. *)

-----------------------------------------------------------------------------
(* What the matches of an order add up to.                                 *)

\* The fields of a match row have their types.
LEMMA MatchRowFields ==
  ASSUME NEW ms \in Seq(MatchRow), NEW k \in 1 .. Len(ms)
  PROVE  /\ ms[k] \in MatchRow
         /\ ms[k].taker \in Nat /\ ms[k].maker \in Nat
         /\ ms[k].give \in Nat /\ ms[k].get \in Nat
         /\ ms[k].status \in {"valid", "pending_coinpay"}
         /\ ms[k].obligation \in {"none", "pending_coinpay", "fulfilled", "expired"}
         /\ ms[k].expiration \in Nat
<1>1. ms[k] \in MatchRow
  OBVIOUS
<1> QED BY Zenon, <1>1 DEF MatchRow

\* Every row counts for the two orders it names.
LEMMA MatchesOfRows ==
  ASSUME NEW ms \in Seq(MatchRow), NEW i
  PROVE  MatchesOf(ms, i) = {k \in 1 .. Len(ms) : i = ms[k].taker \/ i = ms[k].maker}
<1>1. \A k \in 1 .. Len(ms) : ms[k].status \in {"valid", "pending_coinpay"}
  BY Zenon, MatchRowFields
<1>2. DOMAIN ms = 1 .. Len(ms)
  OBVIOUS
<1> QED BY <1>1, <1>2 DEF MatchesOf

\* What an order has given and gotten, as sums over its matches.
LEMMA GivenIsSum ==
  ASSUME NEW ms, NEW i, NEW S, MatchesOf(ms, i) = S
  PROVE  /\ Given(ms, i) = Sum([k \in S |-> GivenBy(ms[k], i)], S)
         /\ Gotten(ms, i) = Sum([k \in S |-> GottenBy(ms[k], i)], S)
<1> DEFINE f == [k \in S |-> GivenBy(ms[k], i)]
           g == [k \in S |-> GottenBy(ms[k], i)]
<1>1. DOMAIN f = S /\ DOMAIN g = S
  BY Zenon
<1>2. Given(ms, i) = SumFunction(f) /\ Gotten(ms, i) = SumFunction(g)
  BY Zenon DEF Given, Gotten
<1> HIDE DEF f, g
<1>3. SumFunction(f) = Sum(f, S) /\ SumFunction(g) = Sum(g, S)
  BY Zenon, <1>1 DEF SumFunction, Sum
<1> QED BY <1>2, <1>3 DEF f, g

\* An order has finitely many matches.
LEMMA MatchesFinite ==
  ASSUME NEW ms \in Seq(MatchRow), NEW i
  PROVE  IsFiniteSet(MatchesOf(ms, i)) /\ MatchesOf(ms, i) \subseteq 1 .. Len(ms)
<1>1. MatchesOf(ms, i) \in SUBSET (1 .. Len(ms))
  BY DEF MatchesOf
<1>2. IsFiniteSet(1 .. Len(ms))
  BY FS_Interval
<1> QED BY SMTT(30), <1>1, <1>2, FS_Subset

\* A match moves natural amounts on both sides.
LEMMA MatchAmounts ==
  ASSUME NEW ms \in Seq(MatchRow), NEW i, NEW k \in 1 .. Len(ms)
  PROVE  GivenBy(ms[k], i) \in Nat /\ GottenBy(ms[k], i) \in Nat
<1>1. ms[k].give \in Nat /\ ms[k].get \in Nat
  BY Zenon, MatchRowFields
<1> QED BY <1>1, Zenon DEF GivenBy, GottenBy

\* What an order has given and gotten are natural numbers.
LEMMA GivenType ==
  ASSUME NEW ms \in Seq(MatchRow), NEW i
  PROVE  Given(ms, i) \in Nat /\ Gotten(ms, i) \in Nat
<1> DEFINE S == MatchesOf(ms, i)
           f == [k \in S |-> GivenBy(ms[k], i)]
           g == [k \in S |-> GottenBy(ms[k], i)]
<1>1. IsFiniteSet(S) /\ S \subseteq 1 .. Len(ms)
  BY MatchesFinite
<1>2. Given(ms, i) = Sum(f, S) /\ Gotten(ms, i) = Sum(g, S)
  BY ZenonT(30), GivenIsSum
<1>3. \A k \in S : f[k] \in Nat /\ g[k] \in Nat
  <2> TAKE k \in S
  <2>1. k \in 1 .. Len(ms) /\ f[k] = GivenBy(ms[k], i) /\ g[k] = GottenBy(ms[k], i)
    BY <1>1, Zenon
  <2> QED BY Zenon, <2>1, MatchAmounts
<1> HIDE DEF f, g, S
<1> QED BY Zenon, <1>1, <1>2, <1>3, SumNatural

\* A new match counts for its two orders.
LEMMA GivenByAppend ==
  ASSUME NEW ms \in Seq(MatchRow), NEW m \in MatchRow, NEW i
  PROVE  /\ i \in {m.taker, m.maker} =>
               /\ Given(Append(ms, m), i) = Given(ms, i) + GivenBy(m, i)
               /\ Gotten(Append(ms, m), i) = Gotten(ms, i) + GottenBy(m, i)
         /\ i \notin {m.taker, m.maker} =>
               /\ Given(Append(ms, m), i) = Given(ms, i)
               /\ Gotten(Append(ms, m), i) = Gotten(ms, i)
<1> DEFINE n == Len(ms) + 1
           new == Append(ms, m)
           S == MatchesOf(ms, i)
           T == MatchesOf(new, i)
           f == [k \in S |-> GivenBy(ms[k], i)]
           g == [k \in S |-> GottenBy(ms[k], i)]
           ff == [k \in T |-> GivenBy(new[k], i)]
           gg == [k \in T |-> GottenBy(new[k], i)]
<1>0. /\ new \in Seq(MatchRow) /\ Len(new) = n /\ new[n] = m /\ n \in Nat
      /\ \A k \in 1 .. Len(ms) : new[k] = ms[k]
  OBVIOUS
<1>1. /\ IsFiniteSet(S) /\ S \subseteq 1 .. Len(ms)
      /\ IsFiniteSet(T) /\ T \subseteq 1 .. n
  BY Zenon, <1>0, MatchesFinite
<1>2. /\ Given(ms, i) = Sum(f, S) /\ Gotten(ms, i) = Sum(g, S)
      /\ Given(new, i) = Sum(ff, T) /\ Gotten(new, i) = Sum(gg, T)
  BY Zenon, GivenIsSum
<1>3. n \notin S
  BY <1>1
<1>r. /\ S = {k \in 1 .. Len(ms) : i = ms[k].taker \/ i = ms[k].maker}
      /\ T = {k \in 1 .. n : i = new[k].taker \/ i = new[k].maker}
  <2> HIDE DEF new, n
  <2>1. S = {k \in 1 .. Len(ms) : i = ms[k].taker \/ i = ms[k].maker}
    BY Zenon, MatchesOfRows
  <2>2. T = {k \in 1 .. Len(new) : i = new[k].taker \/ i = new[k].maker}
    BY ZenonT(30), <1>0, MatchesOfRows
  <2> QED BY <1>0, <2>1, <2>2
<1>u. 1 .. n = (1 .. Len(ms)) \cup {n} /\ n \notin 1 .. Len(ms)
  OBVIOUS
<1>4. i \in {m.taker, m.maker} => T = S \cup {n}
  <2> HIDE DEF new, n, S, T
  <2> QED BY <1>0, <1>r, <1>u, Zenon
<1>5. i \notin {m.taker, m.maker} => T = S
  <2> HIDE DEF new, n, S, T
  <2> QED BY <1>0, <1>r, <1>u, Zenon
<1>6. \A k \in T : ff[k] \in Nat /\ gg[k] \in Nat
  <2> TAKE k \in T
  <2>1. k \in 1 .. Len(new) /\ ff[k] = GivenBy(new[k], i) /\ gg[k] = GottenBy(new[k], i)
    BY <1>0, <1>1, Zenon
  <2> QED BY Zenon, <1>0, <2>1, MatchAmounts
<1>7. S \subseteq T => \A k \in S : ff[k] = f[k] /\ gg[k] = g[k]
  <2> HIDE DEF new, n, S, T
  <2> QED BY <1>0, <1>1, Zenon
<1>8. n \in T => ff[n] = GivenBy(m, i) /\ gg[n] = GottenBy(m, i)
  BY <1>0
<1> HIDE DEF S, T, f, g, ff, gg, n, new
<1>9. CASE i \in {m.taker, m.maker}
  <2>1. T = S \cup {n}
    BY <1>4, <1>9
  <2>2. Sum(ff, S \cup {n}) = Sum(ff, S) + ff[n] /\ Sum(gg, S \cup {n}) = Sum(gg, S) + gg[n]
    BY SMTT(30), <1>1, <1>3, <1>6, <2>1, SumAdd
  <2>3. Sum(ff, S) = Sum(f, S) /\ Sum(gg, S) = Sum(g, S)
    BY SMTT(30), <1>1, <1>7, <2>1, SumAgree
  <2>4. ff[n] = GivenBy(m, i) /\ gg[n] = GottenBy(m, i)
    BY <1>8, <2>1
  <2> QED BY ZenonT(30), <1>2, <1>9, <2>1, <2>2, <2>3, <2>4 DEF new
<1>10. CASE i \notin {m.taker, m.maker}
  <2>1. T = S
    BY <1>5, <1>10
  <2>2. Sum(ff, S) = Sum(f, S) /\ Sum(gg, S) = Sum(g, S)
    BY ZenonT(30), <1>1, <1>7, <2>1, SumAgree
  <2> QED BY Zenon, <1>2, <1>10, <2>1, <2>2 DEF new
<1> QED BY <1>9, <1>10

\* A settled or lapsed obligation leaves the amounts of its match as they are.
LEMMA GivenIsKept ==
  ASSUME NEW ms \in Seq(MatchRow), NEW new \in Seq(MatchRow), Len(new) = Len(ms), NEW i,
         \A k \in 1 .. Len(ms) : /\ new[k].taker = ms[k].taker /\ new[k].maker = ms[k].maker
                                  /\ new[k].give = ms[k].give /\ new[k].get = ms[k].get
  PROVE  Given(new, i) = Given(ms, i) /\ Gotten(new, i) = Gotten(ms, i)
<1> DEFINE S == MatchesOf(ms, i)
           f == [k \in S |-> GivenBy(ms[k], i)]
           g == [k \in S |-> GottenBy(ms[k], i)]
           ff == [k \in S |-> GivenBy(new[k], i)]
           gg == [k \in S |-> GottenBy(new[k], i)]
<1>r. /\ MatchesOf(ms, i) = {k \in 1 .. Len(ms) : i = ms[k].taker \/ i = ms[k].maker}
      /\ MatchesOf(new, i) = {k \in 1 .. Len(new) : i = new[k].taker \/ i = new[k].maker}
  BY ZenonT(30), MatchesOfRows
<1>1. MatchesOf(new, i) = S
  BY <1>r
<1>2. IsFiniteSet(S) /\ S \subseteq 1 .. Len(ms)
  BY MatchesFinite
<1>3. /\ Given(ms, i) = Sum(f, S) /\ Gotten(ms, i) = Sum(g, S)
      /\ Given(new, i) = Sum(ff, S) /\ Gotten(new, i) = Sum(gg, S)
  BY ZenonT(30), <1>1, GivenIsSum
<1>4. \A k \in S : ff[k] = f[k] /\ gg[k] = g[k]
  BY <1>2 DEF GivenBy, GottenBy
<1> HIDE DEF S, f, g, ff, gg
<1>5. Sum(ff, S) = Sum(f, S) /\ Sum(gg, S) = Sum(g, S)
  BY ZenonT(30), <1>2, <1>4, SumAgree
<1> QED BY <1>3, <1>5

-----------------------------------------------------------------------------
(* The rows of the book.                                                   *)

\* The fields of an order row have their types.
LEMMA OrderRowFields ==
  ASSUME NEW os \in Seq(OrderRow), NEW i \in 1 .. Len(os)
  PROVE  /\ os[i] \in OrderRow
         /\ os[i].source \in Addresses
         /\ os[i].give \in Ticks \cup {Coin} /\ os[i].get \in Ticks \cup {Coin}
         /\ os[i].giveAmount \in Nat \ {0} /\ os[i].getAmount \in Nat \ {0}
         /\ os[i].giveOwn \in BOOLEAN /\ os[i].getOwn \in BOOLEAN
         /\ os[i].status \in Live \cup Final /\ os[i].sweep \in Addresses \cup {Nobody}
<1>1. os[i] \in OrderRow
  OBVIOUS
<1> QED BY Zenon, <1>1 DEF OrderRow

\* Writing a status, a sweep destination or an expiration keeps the payload.
LEMMA OrderRowUpdates ==
  ASSUME NEW o \in OrderRow, NEW s \in Live \cup Final, NEW a \in Addresses \cup {Nobody}, NEW n \in Nat
  PROVE  /\ [o EXCEPT !.status = s] \in OrderRow /\ SameOffer([o EXCEPT !.status = s], o)
         /\ [o EXCEPT !.status = s].status = s
         /\ [o EXCEPT !.status = s, !.sweep = a] \in OrderRow
         /\ SameOffer([o EXCEPT !.status = s, !.sweep = a], o)
         /\ [o EXCEPT !.status = s, !.sweep = a].status = s
         /\ [o EXCEPT !.expiration = n] \in OrderRow /\ SameOffer([o EXCEPT !.expiration = n], o)
         /\ [o EXCEPT !.expiration = n].status = o.status
<1>1. /\ [o EXCEPT !.status = s] \in OrderRow
      /\ [o EXCEPT !.status = s, !.sweep = a] \in OrderRow
      /\ [o EXCEPT !.expiration = n] \in OrderRow
  BY Zenon DEF OrderRow
<1>2. SameOffer([o EXCEPT !.status = s], o) /\ [o EXCEPT !.status = s].status = s
  BY Zenon DEF OrderRow, SameOffer
<1>3. SameOffer([o EXCEPT !.status = s, !.sweep = a], o) /\ [o EXCEPT !.status = s, !.sweep = a].status = s
  BY Zenon DEF OrderRow, SameOffer
<1>4. SameOffer([o EXCEPT !.expiration = n], o) /\ [o EXCEPT !.expiration = n].status = o.status
  BY Zenon DEF OrderRow, SameOffer
<1> QED BY Zenon, <1>1, <1>2, <1>3, <1>4

\* Every row has its own payload.
LEMMA SameOfferRefl ==
  ASSUME NEW o
  PROVE  SameOffer(o, o)
BY Zenon DEF SameOffer

\* An unchanged book keeps its rows.
LEMMA RowsStay ==
  ASSUME NEW os \in Seq(OrderRow)
  PROVE  RowsKept(os, os)
BY Zenon, SameOfferRefl DEF RowsKept

\* One row is written.
LEMMA RowWritten ==
  ASSUME NEW os \in Seq(OrderRow), NEW i \in 1 .. Len(os), NEW o \in OrderRow,
         SameOffer(o, os[i]), o.status = "open" => os[i].status = "open",
         NEW new, new = [os EXCEPT ![i] = o]
  PROVE  /\ RowsKept(os, new) /\ new[i] = o
         /\ \A j \in 1 .. Len(os) : j # i => new[j] = os[j]
<1>1. /\ new \in Seq(OrderRow) /\ Len(new) = Len(os) /\ new[i] = o
      /\ \A j \in 1 .. Len(os) : j # i => new[j] = os[j]
  OBVIOUS
<1>2. ASSUME NEW j \in 1 .. Len(os)
      PROVE  SameOffer(new[j], os[j]) /\ (new[j].status = "open" => os[j].status = "open")
  BY Zenon, <1>1, SameOfferRefl
<1> QED BY Zenon, <1>1, <1>2 DEF RowsKept

\* Every row is written.
LEMMA RowsWritten ==
  ASSUME NEW os \in Seq(OrderRow), NEW new, new = [i \in 1 .. Len(os) |-> new[i]],
         \A i \in 1 .. Len(os) : /\ new[i] \in OrderRow /\ SameOffer(new[i], os[i])
                                 /\ new[i].status = "open" => os[i].status = "open"
  PROVE  RowsKept(os, new)
<1>1. new \in Seq(OrderRow) /\ Len(new) = Len(os)
  OBVIOUS
<1> QED BY Zenon, <1>1 DEF RowsKept

\* The obligation of one match is resolved.
LEMMA MatchResolved ==
  ASSUME NEW ms \in Seq(MatchRow), NEW k \in 1 .. Len(ms), ms[k].obligation # "none",
         NEW m \in MatchRow, m.taker = ms[k].taker, m.maker = ms[k].maker,
         m.give = ms[k].give, m.get = ms[k].get, NEW new, new = [ms EXCEPT ![k] = m]
  PROVE  /\ AmountsKept(ms, new) /\ new[k] = m
         /\ \A l \in 1 .. Len(ms) : l # k => new[l] = ms[l]
<1>1. /\ new \in Seq(MatchRow) /\ Len(new) = Len(ms) /\ new[k] = m
      /\ \A l \in 1 .. Len(ms) : l # k => new[l] = ms[l]
  OBVIOUS
<1> QED BY Zenon, <1>1 DEF AmountsKept

\* Unchanged matches keep their amounts.
LEMMA MatchesStay ==
  ASSUME NEW ms \in Seq(MatchRow)
  PROVE  AmountsKept(ms, ms)
BY Zenon DEF AmountsKept

\* The rows of the book and of the matches are numbered from 1.
LEMMA Domains ==
  ASSUME BookTypes
  PROVE  /\ orders \in Seq(OrderRow) /\ DOMAIN orders = 1 .. Len(orders) /\ Len(orders) \in Nat
         /\ matches \in Seq(MatchRow) /\ DOMAIN matches = 1 .. Len(matches) /\ Len(matches) \in Nat
BY DEF BookTypes

\* SetStatus writes one status.
LEMMA SetStatusEffect ==
  ASSUME BookTypes, NEW i \in DOMAIN orders, NEW s \in Live \cup Final, SetStatus(i, s),
         s = "open" => orders[i].status = "open"
  PROVE  /\ RowsKept(orders, orders') /\ orders'[i].status = s
         /\ \A j \in DOMAIN orders : j # i => orders'[j] = orders[j]
<1>1. orders \in Seq(OrderRow) /\ DOMAIN orders = 1 .. Len(orders)
  BY Zenon, Domains
<1> DEFINE o == [orders[i] EXCEPT !.status = s]
<1>2. orders[i] \in OrderRow
  BY <1>1
<1>3. o \in OrderRow /\ SameOffer(o, orders[i]) /\ o.status = s
  BY Zenon, <1>2, OrderRowUpdates
<1>4. orders' = [orders EXCEPT ![i] = o]
  BY Zenon DEF SetStatus
<1> HIDE DEF o
<1> QED BY Zenon, <1>1, <1>3, <1>4, RowWritten

\* What CancelOrder and OrderExpire do to the rows: one open order waits, or is closed
\* and handed its give side.
LEMMA CancelEffect ==
  ASSUME BookTypes, NEW i \in DOMAIN orders, CancelOrder(i) \/ OrderExpire(i)
  PROVE  /\ RowsKept(orders, orders') /\ orders[i].status = "open"
         /\ \A j \in DOMAIN orders : j # i => orders'[j] = orders[j]
         /\ Pending(matches, i) # {} => orders'[i].status \in {"cancelling", "expiring"} /\ UNCHANGED ledger
         /\ Pending(matches, i) = {} => orders'[i].status \in Final /\ ReturnGiveSide(i)
         /\ UNCHANGED <<matches, now, phase, matching>> /\ phase # "match"
<1>1. /\ orders[i].status = "open" /\ phase # "match" /\ UNCHANGED <<matches, now, phase, matching>>
      /\ \/ Pending(matches, i) # {} /\ UNCHANGED ledger /\ (SetStatus(i, "cancelling") \/ SetStatus(i, "expiring"))
         \/ Pending(matches, i) = {} /\ ReturnGiveSide(i) /\ (SetStatus(i, "cancelled") \/ SetStatus(i, "expired"))
  BY Zenon DEF CancelOrder, OrderExpire, First, DueOrders
<1>2. ASSUME NEW s \in {"cancelling", "expiring", "cancelled", "expired"}, SetStatus(i, s)
      PROVE  /\ RowsKept(orders, orders') /\ orders'[i].status = s
             /\ \A j \in DOMAIN orders : j # i => orders'[j] = orders[j]
  BY <1>2, SetStatusEffect DEF Live, Final
<1>3. \A s \in {"cancelled", "expired"} : s \in Final
  BY DEF Final
<1> QED BY Zenon, <1>1, <1>2, <1>3

\* EditOrder changes neither the payload nor the status of an order.
LEMMA EditEffect ==
  ASSUME BookTypes, Lifetimes \subseteq Nat, NEW i \in DOMAIN orders, NEW life \in Lifetimes, EditOrder(i, life)
  PROVE  /\ RowsKept(orders, orders') /\ orders[i].status = "open"
         /\ \A j \in DOMAIN orders : orders'[j].status = orders[j].status
<1>1. orders \in Seq(OrderRow) /\ DOMAIN orders = 1 .. Len(orders)
  BY Zenon, Domains
<1> DEFINE o == [orders[i] EXCEPT !.expiration = now + life]
<1>2. orders[i] \in OrderRow
  BY <1>1
<1>3. now + life \in Nat
  BY DEF BookTypes
<1>4. o \in OrderRow /\ SameOffer(o, orders[i]) /\ o.status = orders[i].status
  BY Zenon, <1>2, <1>3 DEF OrderRow, SameOffer
<1>5. orders' = [orders EXCEPT ![i] = o] /\ orders[i].status = "open"
  BY Zenon DEF EditOrder
<1> HIDE DEF o
<1>6. RowsKept(orders, orders') /\ orders'[i] = o /\ \A j \in DOMAIN orders : j # i => orders'[j] = orders[j]
  BY Zenon, <1>1, <1>4, <1>5, RowWritten
<1> QED BY Zenon, <1>4, <1>5, <1>6

\* SweepOrders closes the open orders of one source, or lets them wait for their payments.
LEMMA SweepEffect ==
  ASSUME BookTypes, NEW a \in Addresses, NEW dest \in Addresses, SweepOrders(a, dest)
  PROVE  /\ RowsKept(orders, orders')
         /\ \A i \in DOMAIN orders :
               LET open == orders[i].status = "open" /\ orders[i].source = a IN
               /\ open /\ Pending(matches, i) # {} => orders'[i].status = "cancelling"
               /\ open /\ Pending(matches, i) = {} => orders'[i].status = "cancelled"
               /\ ~open => orders'[i] = orders[i]
<1>1. orders \in Seq(OrderRow) /\ DOMAIN orders = 1 .. Len(orders)
  BY Zenon, Domains
<1> DEFINE open(i) == orders[i].status = "open" /\ orders[i].source = a
           wait(i) == [orders[i] EXCEPT !.status = "cancelling", !.sweep = dest]
           close(i) == [orders[i] EXCEPT !.status = "cancelled"]
<1>2. /\ DOMAIN orders' = DOMAIN orders /\ orders' = [i \in DOMAIN orders |-> orders'[i]]
      /\ \A i \in DOMAIN orders :
            /\ open(i) /\ Pending(matches, i) # {} => orders'[i] = wait(i)
            /\ open(i) /\ Pending(matches, i) = {} => orders'[i] = close(i)
            /\ ~open(i) => orders'[i] = orders[i]
  BY Zenon DEF SweepOrders
<1>3. ASSUME NEW i \in DOMAIN orders
      PROVE  /\ wait(i) \in OrderRow /\ SameOffer(wait(i), orders[i]) /\ wait(i).status = "cancelling"
             /\ close(i) \in OrderRow /\ SameOffer(close(i), orders[i]) /\ close(i).status = "cancelled"
             /\ orders[i] \in OrderRow /\ SameOffer(orders[i], orders[i])
  <2>1. orders[i] \in OrderRow
    BY <1>1
  <2>2. "cancelling" \in Live \cup Final /\ "cancelled" \in Live \cup Final /\ 0 \in Nat
    BY DEF Live, Final
  <2> DEFINE o == orders[i]
  <2> HIDE DEF o
  <2>3. o \in OrderRow
    BY <2>1 DEF o
  <2>4. /\ [o EXCEPT !.status = "cancelling", !.sweep = dest] \in OrderRow
        /\ SameOffer([o EXCEPT !.status = "cancelling", !.sweep = dest], o)
        /\ [o EXCEPT !.status = "cancelling", !.sweep = dest].status = "cancelling"
    BY Zenon, <2>2, <2>3 DEF OrderRow, SameOffer
  <2>5. /\ [o EXCEPT !.status = "cancelled"] \in OrderRow
        /\ SameOffer([o EXCEPT !.status = "cancelled"], o)
        /\ [o EXCEPT !.status = "cancelled"].status = "cancelled"
    BY Zenon, <2>2, <2>3, OrderRowUpdates
  <2> QED BY Zenon, <2>1, <2>4, <2>5, SameOfferRefl DEF o
<1> HIDE DEF open, wait, close
<1>4. \A i \in 1 .. Len(orders) :
         /\ orders'[i] \in OrderRow /\ SameOffer(orders'[i], orders[i])
         /\ orders'[i].status = "open" => orders[i].status = "open"
  <2> TAKE i \in 1 .. Len(orders)
  <2>1. "cancelled" # "open" /\ "cancelling" # "open"
    OBVIOUS
  <2> QED BY Zenon, <1>1, <1>2, <1>3, <2>1
<1>5. RowsKept(orders, orders')
  BY SMTT(30), <1>1, <1>2, <1>4, RowsWritten
<1>6. \A i \in DOMAIN orders :
         /\ open(i) /\ Pending(matches, i) # {} => orders'[i].status = "cancelling"
         /\ open(i) /\ Pending(matches, i) = {} => orders'[i].status = "cancelled"
         /\ ~open(i) => orders'[i] = orders[i]
  BY ZenonT(30), <1>2, <1>3
<1> QED BY Zenon, <1>5, <1>6 DEF open

\* The two sides of a coin match: the seller gives a token, the buyer the coin.
LEMMA SellerAndBuyer ==
  ASSUME BookTypes, OffersAreReal, MatchesJoin,
         NEW k \in DOMAIN matches, matches[k].obligation # "none",
         NEW s, s = SellerOf(matches[k]), NEW b, b = BuyerOf(matches[k])
  PROVE  /\ s \in DOMAIN orders /\ b \in DOMAIN orders /\ s # b
         /\ {matches[k].taker, matches[k].maker} = {s, b}
         /\ orders[s].give \in Ticks /\ orders[s].give # Coin
         /\ orders[b].give = Coin /\ ~orders[b].giveOwn
<1> DEFINE m == matches[k]
<1>1. /\ m.taker \in DOMAIN orders /\ m.maker \in DOMAIN orders /\ m.taker # m.maker
      /\ orders[m.taker].give = orders[m.maker].get /\ orders[m.taker].get = orders[m.maker].give
      /\ orders[m.taker].give = Coin \/ orders[m.taker].get = Coin
  BY Zenon DEF MatchesJoin
<1>2. /\ orders[m.taker].give # orders[m.taker].get
      /\ orders[m.taker].giveOwn => orders[m.taker].give # Coin
      /\ orders[m.maker].giveOwn => orders[m.maker].give # Coin
  BY Zenon, <1>1 DEF OffersAreReal
<1>3. /\ orders[m.taker].give \in Ticks \cup {Coin}
      /\ orders[m.maker].give \in Ticks \cup {Coin}
      /\ orders[m.taker].giveOwn \in BOOLEAN /\ orders[m.maker].giveOwn \in BOOLEAN
  BY Zenon, <1>1, Domains, OrderRowFields
<1>4. CASE orders[m.taker].give = Coin
  <2>1. s = m.maker /\ b = m.taker
    BY Zenon, <1>4 DEF SellerOf, BuyerOf
  <2> QED BY Zenon, <1>1, <1>2, <1>3, <1>4, <2>1
<1>5. CASE orders[m.taker].give # Coin
  <2>1. s = m.taker /\ b = m.maker
    BY Zenon, <1>5 DEF SellerOf, BuyerOf
  <2> QED BY Zenon, <1>1, <1>2, <1>3, <1>5, <2>1
<1> QED BY <1>4, <1>5

\* Where a payment leaves an order.
SettledStatus(ms, s, b, i) ==
    CASE i = s /\ Finalizes(ms, s) -> FinalStatus(orders[s].status)
      [] i \in {s, b} /\ Done(ms, i) -> "complete"
      [] OTHER -> orders[i].status

\* What Coinpay does to the rows: one obligation is fulfilled, its seller is finalized if it
\* waited for it, and seller and buyer complete when nothing is left of them.
LEMMA CoinpayEffect ==
  ASSUME BookTypes, OffersAreReal, MatchesJoin, NEW k \in DOMAIN matches, Coinpay(k),
         NEW s, s = SellerOf(matches[k]), NEW b, b = BuyerOf(matches[k])
  PROVE  /\ RowsKept(orders, orders') /\ AmountsKept(matches, matches')
         /\ matches[k].obligation = "pending_coinpay" /\ matches'[k].obligation = "fulfilled"
         /\ \A l \in DOMAIN matches : l # k => matches'[l] = matches[l]
         /\ \A i \in DOMAIN orders : i \notin {s, b} => orders'[i].status = orders[i].status
         /\ Finalizes(matches', s) => orders'[s].status \in Final
         /\ ~Finalizes(matches', s) => orders'[s].status \in {orders[s].status, "complete"}
<1>0. orders \in Seq(OrderRow) /\ DOMAIN orders = 1 .. Len(orders) /\ matches \in Seq(MatchRow) /\ DOMAIN matches = 1 .. Len(matches)
  BY Zenon, Domains
<1> DEFINE new(i) == [orders[i] EXCEPT !.status = SettledStatus(matches', s, b, i)]
<1>1. /\ matches[k].obligation = "pending_coinpay"
      /\ matches' = [matches EXCEPT ![k].obligation = "fulfilled", ![k].status = "valid"]
      /\ orders' = [i \in DOMAIN orders |-> new(i)]
  <2> DEFINE ms == [matches EXCEPT ![k].obligation = "fulfilled", ![k].status = "valid"]
  <2>1. matches[k].obligation = "pending_coinpay" /\ matches' = ms
    BY Zenon DEF Coinpay
  <2>2. orders' = [i \in DOMAIN orders |->
                     [orders[i] EXCEPT !.status = SettledStatus(ms, SellerOf(matches[k]), BuyerOf(matches[k]), i)]]
    BY Zenon DEF Coinpay, SettledStatus
  <2> HIDE DEF ms
  <2>3. orders' = [i \in DOMAIN orders |-> new(i)]
    BY Zenon, <2>1, <2>2
  <2> QED BY Zenon, <2>1, <2>3 DEF ms
<1>2. /\ AmountsKept(matches, matches') /\ matches'[k].obligation = "fulfilled"
      /\ \A l \in DOMAIN matches : l # k => matches'[l] = matches[l]
  <2> DEFINE m == matches[k]
             mm == [m EXCEPT !.obligation = "fulfilled", !.status = "valid"]
  <2>1. m \in MatchRow
    BY Zenon, <1>0, MatchRowFields
  <2>2. matches' = [matches EXCEPT ![k] = mm]
    BY Zenon, <1>1
  <2> HIDE DEF m
  <2>3. /\ mm \in MatchRow /\ mm.obligation = "fulfilled"
        /\ mm.taker = m.taker /\ mm.maker = m.maker /\ mm.give = m.give /\ mm.get = m.get
    BY Zenon, <2>1 DEF MatchRow
  <2>4. matches[k].obligation # "none"
    BY <1>1
  <2> HIDE DEF mm
  <2>5. /\ AmountsKept(matches, matches') /\ matches'[k] = mm
        /\ \A l \in 1 .. Len(matches) : l # k => matches'[l] = matches[l]
    BY ZenonT(30), <1>0, <2>2, <2>3, <2>4, MatchResolved DEF m
  <2> QED BY Zenon, <1>0, <2>3, <2>5
<1>3. ASSUME NEW i \in DOMAIN orders
      PROVE  /\ SettledStatus(matches', s, b, i) \in Live \cup Final
             /\ SettledStatus(matches', s, b, i) = "open" => orders[i].status = "open"
             /\ i \notin {s, b} => SettledStatus(matches', s, b, i) = orders[i].status
             /\ i = s /\ Finalizes(matches', s) => SettledStatus(matches', s, b, i) \in Final
             /\ i = s /\ ~Finalizes(matches', s) => SettledStatus(matches', s, b, i) \in {orders[s].status, "complete"}
  <2>1. orders[i].status \in Live \cup Final
    BY Zenon, <1>0, OrderRowFields
  <2> QED BY <2>1 DEF SettledStatus, FinalStatus, Live, Final
<1>4. ASSUME NEW i \in DOMAIN orders
      PROVE  /\ orders'[i] = new(i) /\ new(i) \in OrderRow /\ SameOffer(new(i), orders[i])
             /\ new(i).status = SettledStatus(matches', s, b, i)
  <2> DEFINE o == orders[i]
             st == SettledStatus(matches', s, b, i)
  <2>1. o \in OrderRow
    BY Zenon, <1>0, OrderRowFields
  <2>2. st \in Live \cup Final
    BY Zenon, <1>3
  <2> HIDE DEF o, st
  <2>3. [o EXCEPT !.status = st] \in OrderRow /\ SameOffer([o EXCEPT !.status = st], o) /\ [o EXCEPT !.status = st].status = st
    BY Zenon, <2>1, <2>2 DEF OrderRow, SameOffer
  <2> QED BY Zenon, <1>1, <2>3 DEF o, st
<1>5. orders' = [i \in 1 .. Len(orders) |-> orders'[i]]
  BY Zenon, <1>0, <1>1
<1> HIDE DEF new
<1>6. RowsKept(orders, orders')
  <2>1. \A i \in 1 .. Len(orders) : /\ orders'[i] \in OrderRow /\ SameOffer(orders'[i], orders[i])
                                    /\ orders'[i].status = "open" => orders[i].status = "open"
    BY Zenon, <1>0, <1>3, <1>4
  <2> QED BY SMTT(30), <1>0, <1>5, <2>1, RowsWritten
<1>7. s \in DOMAIN orders
  <2>1. matches[k].obligation # "none"
    BY <1>1
  <2> QED BY Zenon, <2>1, SellerAndBuyer
<1>8. \A i \in DOMAIN orders : orders'[i].status = SettledStatus(matches', s, b, i)
  BY Zenon, <1>4
<1>9. \A i \in DOMAIN orders : i \notin {s, b} => orders'[i].status = orders[i].status
  BY Zenon, <1>3, <1>8
<1>10. /\ Finalizes(matches', s) => orders'[s].status \in Final
       /\ ~Finalizes(matches', s) => orders'[s].status \in {orders[s].status, "complete"}
  BY Zenon, <1>3, <1>7, <1>8
<1> QED BY Zenon, <1>1, <1>2, <1>6, <1>9, <1>10

\* What CoinpayExpire does to the rows: one obligation lapses and only its seller can be
\* finalized.
LEMMA CoinpayExpireEffect ==
  ASSUME BookTypes, OffersAreReal, MatchesJoin, NEW k \in DOMAIN matches, CoinpayExpire(k),
         NEW s, s = SellerOf(matches[k])
  PROVE  /\ RowsKept(orders, orders') /\ AmountsKept(matches, matches')
         /\ matches[k].obligation = "pending_coinpay" /\ matches'[k].obligation = "expired"
         /\ \A l \in DOMAIN matches : l # k => matches'[l] = matches[l]
         /\ \A i \in DOMAIN orders : i # s => orders'[i] = orders[i]
         /\ Finalizes(matches', s) => orders'[s].status \in Final
         /\ ~Finalizes(matches', s) => orders'[s].status = orders[s].status
<1>0. orders \in Seq(OrderRow) /\ DOMAIN orders = 1 .. Len(orders) /\ matches \in Seq(MatchRow) /\ DOMAIN matches = 1 .. Len(matches)
  BY Zenon, Domains
<1> DEFINE st == IF Finalizes(matches', s) THEN FinalStatus(orders[s].status) ELSE orders[s].status
<1>1. /\ matches[k].obligation = "pending_coinpay"
      /\ matches' = [matches EXCEPT ![k].obligation = "expired"]
      /\ SetStatus(s, st)
  BY Zenon DEF CoinpayExpire, First, DueObligations
<1>2. /\ AmountsKept(matches, matches') /\ matches'[k].obligation = "expired"
      /\ \A l \in DOMAIN matches : l # k => matches'[l] = matches[l]
  <2> DEFINE m == matches[k]
             mm == [m EXCEPT !.obligation = "expired"]
  <2>1. m \in MatchRow
    BY Zenon, <1>0, MatchRowFields
  <2>2. matches' = [matches EXCEPT ![k] = mm]
    BY Zenon, <1>1
  <2> HIDE DEF m
  <2>3. /\ mm \in MatchRow /\ mm.obligation = "expired"
        /\ mm.taker = m.taker /\ mm.maker = m.maker /\ mm.give = m.give /\ mm.get = m.get
    BY Zenon, <2>1 DEF MatchRow
  <2>4. matches[k].obligation # "none"
    BY <1>1
  <2> HIDE DEF mm
  <2>5. /\ AmountsKept(matches, matches') /\ matches'[k] = mm
        /\ \A l \in 1 .. Len(matches) : l # k => matches'[l] = matches[l]
    BY Zenon, <1>0, <2>2, <2>3, <2>4, MatchResolved DEF m
  <2> QED BY Zenon, <1>0, <2>3, <2>5
<1>3. s \in DOMAIN orders
  <2>1. matches[k].obligation # "none"
    BY <1>1
  <2> QED BY Zenon, <2>1, SellerAndBuyer
<1>4. /\ st \in Live \cup Final /\ (st = "open" => orders[s].status = "open")
      /\ Finalizes(matches', s) => st \in Final
      /\ ~Finalizes(matches', s) => st = orders[s].status
  <2>1. orders[s].status \in Live \cup Final
    BY Zenon, <1>0, <1>3, OrderRowFields
  <2> QED BY <2>1 DEF FinalStatus, Live, Final
<1> HIDE DEF st
<1>5. /\ RowsKept(orders, orders') /\ orders'[s].status = st
      /\ \A j \in DOMAIN orders : j # s => orders'[j] = orders[j]
  BY Zenon, <1>1, <1>3, <1>4, SetStatusEffect
<1> QED BY Zenon, <1>1, <1>2, <1>4, <1>5

\* The remainders of an order are those of the book and matches at hand.
LEMMA RemainsIsGives ==
  ASSUME NEW i
  PROVE  /\ GiveRemaining(matches, i) = Gives(orders, matches, i)
         /\ GetRemaining(matches, i) = Gets(orders, matches, i)
         /\ GiveRemaining(matches, i)' = Gives(orders', matches', i)
         /\ GetRemaining(matches, i)' = Gets(orders', matches', i)
BY Zenon DEF GiveRemaining, GetRemaining, Gives, Gets

\* The fill of two orders is that of the book and matches at hand.
LEMMA FillIsFillOn ==
  ASSUME NEW i, NEW j
  PROVE  /\ ComputeFillAmounts(i, j) = FillOn(orders, matches, i, j)
         /\ ComputeFillAmounts(i, j)' = FillOn(orders', matches', i, j)
<1>1. ComputeFillAmounts(i, j) = FillOn(orders, matches, i, j)
  BY Zenon DEF ComputeFillAmounts, FillOn, FillOf, GiveRemaining, GetRemaining, Gives, Gets
<1>2. ComputeFillAmounts(i, j)' = FillOn(orders', matches', i, j)
  BY Zenon DEF ComputeFillAmounts, FillOn, FillOf, GiveRemaining, GetRemaining, Gives, Gets
<1> QED BY <1>1, <1>2

\* The gates of fillMatch are those of the book and matches at hand.
LEMMA FillableIsTrades ==
  ASSUME NEW i, NEW j
  PROVE  /\ Fillable(i, j) <=> Trades(orders, matches, i, j)
         /\ Fillable(i, j)' <=> Trades(orders', matches', i, j)
<1>1. Fillable(i, j) <=> Trades(orders, matches, i, j)
  <2>1. HasFillRoom(i, j) <=> Room(orders, matches, i, j)
    BY Zenon, RemainsIsGives DEF HasFillRoom, Room
  <2>2. IsOwnershipFillExact(i, ComputeFillAmounts(i, j)) <=> Exact(orders, i, FillOn(orders, matches, i, j))
    BY Zenon, FillIsFillOn DEF IsOwnershipFillExact, Exact
  <2> QED BY Zenon, <2>1, <2>2, FillIsFillOn DEF Fillable, Trades
<1>2. Fillable(i, j)' <=> Trades(orders', matches', i, j)
  <2>1. HasFillRoom(i, j)' <=> Room(orders', matches', i, j)
    BY Zenon DEF HasFillRoom, Room, GiveRemaining, GetRemaining, Gives, Gets
  <2>2. IsOwnershipFillExact(i, ComputeFillAmounts(i, j))' <=> Exact(orders', i, FillOn(orders', matches', i, j))
    BY Zenon, FillIsFillOn DEF IsOwnershipFillExact, Exact
  <2> QED BY Zenon, <2>1, <2>2, FillIsFillOn DEF Fillable, Trades
<1> QED BY <1>1, <1>2

\* Remainders are integers within what was offered.
LEMMA RemainderTypes ==
  ASSUME NEW os \in Seq(OrderRow), NEW ms \in Seq(MatchRow), NEW i \in 1 .. Len(os)
  PROVE  /\ Gives(os, ms, i) \in Int /\ Gets(os, ms, i) \in Int
         /\ Gives(os, ms, i) <= os[i].giveAmount /\ Gets(os, ms, i) <= os[i].getAmount
<1>1. Given(ms, i) \in Nat /\ Gotten(ms, i) \in Nat
  BY Zenon, GivenType
<1>2. os[i].giveAmount \in Nat \ {0} /\ os[i].getAmount \in Nat \ {0}
  BY Zenon, OrderRowFields
<1> QED BY <1>1, <1>2 DEF Gives, Gets

\* A fill is within all four remainders and uses up one of them; it keeps the taker's
\* price, and the maker's limit when the bids cross, up to the rounding of one unit.
LEMMA FillIsFair ==
  ASSUME NEW os \in Seq(OrderRow), NEW ms \in Seq(MatchRow),
         NEW i \in 1 .. Len(os), NEW j \in 1 .. Len(os), Room(os, ms, i, j),
         NEW f, f = FillOn(os, ms, i, j)
  PROVE  /\ f.give \in Nat /\ f.get \in Nat
         /\ f.give <= Gives(os, ms, i) /\ f.give <= Gets(os, ms, j)
         /\ f.get <= Gets(os, ms, i) /\ f.get <= Gives(os, ms, j)
         /\ \/ f.give = Gives(os, ms, i) \/ f.give = Gets(os, ms, j)
            \/ f.get = Gets(os, ms, i) \/ f.get = Gives(os, ms, j)
         /\ (2 * f.give - 1) * os[i].getAmount <= (2 * f.get + 1) * os[i].giveAmount
         /\ (2 * f.get - 1) * os[j].getAmount <= (2 * f.give + 1) * os[j].giveAmount
<1> DEFINE a == Gives(os, ms, i)
           b == Gets(os, ms, i)
           c == Gives(os, ms, j)
           d == Gets(os, ms, j)
           p == os[i].giveAmount
           q == os[i].getAmount
           x == os[j].giveAmount
           y == os[j].getAmount
           mg == Min({d, a})
           mt == Min({c, b})
<1>1. /\ p \in Nat \ {0} /\ q \in Nat \ {0} /\ x \in Nat \ {0} /\ y \in Nat \ {0}
  BY Zenon, OrderRowFields
<1>2. a \in Int /\ b \in Int /\ c \in Int /\ d \in Int
  BY Zenon, RemainderTypes
<1>3. a > 0 /\ b > 0 /\ c > 0 /\ d > 0 /\ q * y <= x * p
  BY Zenon DEF Room
<1>4. f = FillOf(mg, mt, p, q)
  BY Zenon DEF FillOn
<1> HIDE DEF a, b, c, d, p, q, x, y
<1>5. mg = (IF d <= a THEN d ELSE a) /\ mt = (IF c <= b THEN c ELSE b)
  BY Zenon, <1>2, MinOfTwo
<1> HIDE DEF mg, mt
<1>6. /\ mg \in Nat /\ mt \in Nat /\ mg <= d /\ mg <= a /\ mt <= c /\ mt <= b
      /\ mg = d \/ mg = a
      /\ mt = c \/ mt = b
  BY SMTT(30), <1>2, <1>3, <1>5
<1>7. /\ f.give \in Nat /\ f.get \in Nat
      /\ f.give <= mg /\ f.get <= mt
      /\ f.give = mg \/ f.get = mt
      /\ (2 * f.give - 1) * q <= (2 * f.get + 1) * p
      /\ (2 * f.get - 1) * p <= (2 * f.give + 1) * q
  BY ZenonT(30), <1>1, <1>4, <1>6, FillFacts
<1> DEFINE u == f.give
           v == f.get
<1>8. u \in Nat /\ v \in Nat /\ (2 * v - 1) * p <= (2 * u + 1) * q
  BY Zenon, <1>7
<1> HIDE DEF u, v
<1>9. (2 * v - 1) * y <= (2 * u + 1) * x
  BY ZenonT(30), <1>1, <1>3, <1>8, MakerLimit
<1>10. /\ u <= mg /\ v <= mt /\ (u = mg \/ v = mt) 
       /\ (2 * u - 1) * q <= (2 * v + 1) * p
  BY Zenon, <1>7 DEF u, v
<1>11. /\ u <= a /\ u <= d /\ v <= b /\ v <= c
       /\ u = a \/ u = d \/ v = b \/ v = c
  BY SMTT(30), <1>2, <1>6, <1>8, <1>10
<1> QED BY ZenonT(30), <1>7, <1>9, <1>10, <1>11 DEF a, b, c, d, p, q, x, y, u, v

\* As more is matched, less remains.
LEMMA RemaindersShrink ==
  ASSUME NEW os \in Seq(OrderRow), NEW ms \in Seq(MatchRow), NEW mn \in Seq(MatchRow),
         NEW i \in 1 .. Len(os), NEW new, SameOffer(new[i], os[i]),
         Given(ms, i) <= Given(mn, i), Gotten(ms, i) <= Gotten(mn, i)
  PROVE  Gives(new, mn, i) <= Gives(os, ms, i) /\ Gets(new, mn, i) <= Gets(os, ms, i)
<1>1. Given(ms, i) \in Nat /\ Gotten(ms, i) \in Nat /\ Given(mn, i) \in Nat /\ Gotten(mn, i) \in Nat
  BY Zenon, GivenType
<1>2. /\ os[i].giveAmount \in Nat \ {0} /\ os[i].getAmount \in Nat \ {0}
      /\ new[i].giveAmount = os[i].giveAmount /\ new[i].getAmount = os[i].getAmount
  BY Zenon, OrderRowFields DEF SameOffer
<1> QED BY SMTT(30), <1>1, <1>2 DEF Gives, Gets

\* Two orders that can trade could trade before their remainders shrank.
LEMMA TradedBefore ==
  ASSUME NEW os \in Seq(OrderRow), NEW ms \in Seq(MatchRow),
         NEW new \in Seq(OrderRow), NEW mn \in Seq(MatchRow),
         NEW i \in 1 .. Len(os), NEW j \in 1 .. Len(os), i \in 1 .. Len(new), j \in 1 .. Len(new),
         SameOffer(new[i], os[i]), SameOffer(new[j], os[j]),
         \A x \in {i, j} : Given(ms, x) <= Given(mn, x) /\ Gotten(ms, x) <= Gotten(mn, x),
         Trades(new, mn, i, j)
  PROVE  Trades(os, ms, i, j)
<1> DEFINE a == Gives(os, ms, i)
           b == Gets(os, ms, i)
           c == Gives(os, ms, j)
           d == Gets(os, ms, j)
           a2 == Gives(new, mn, i)
           b2 == Gets(new, mn, i)
           c2 == Gives(new, mn, j)
           d2 == Gets(new, mn, j)
           p == os[i].giveAmount
           q == os[i].getAmount
           mg == Min({d, a})
           mt == Min({c, b})
           mg2 == Min({d2, a2})
           mt2 == Min({c2, b2})
           f == FillOn(os, ms, i, j)
           f2 == FillOn(new, mn, i, j)
<1>1. p \in Nat \ {0} /\ q \in Nat \ {0}
  BY Zenon, OrderRowFields
<1>2. /\ a \in Int /\ b \in Int /\ c \in Int /\ d \in Int
      /\ a2 \in Int /\ b2 \in Int /\ c2 \in Int /\ d2 \in Int
      /\ a <= p /\ b <= q
  BY Zenon, RemainderTypes
<1>3. a2 > 0 /\ b2 > 0 /\ c2 > 0 /\ d2 > 0
  BY Zenon DEF Trades, Room
<1>4. a2 <= a /\ b2 <= b /\ c2 <= c /\ d2 <= d
  BY Zenon, RemaindersShrink
<1>5. f = FillOf(mg, mt, p, q) /\ f2 = FillOf(mg2, mt2, p, q)
  BY Zenon DEF FillOn, SameOffer
<1>6. /\ mg = (IF d <= a THEN d ELSE a) /\ mt = (IF c <= b THEN c ELSE b)
      /\ mg2 = (IF d2 <= a2 THEN d2 ELSE a2) /\ mt2 = (IF c2 <= b2 THEN c2 ELSE b2)
  <2> HIDE DEF a, b, c, d, a2, b2, c2, d2
  <2> QED BY Zenon, <1>2, MinOfTwo
<1>7. f2.give > 0 /\ f2.get > 0 /\ Exact(new, i, f2)
  BY Zenon DEF Trades
<1>8. /\ os[i].give = os[j].get /\ os[i].get = os[j].give
      /\ <<OfferOf(os[i]), OfferOf(os[j])>> \notin Refused
      /\ os[i].getAmount * os[j].getAmount <= os[j].giveAmount * os[i].giveAmount
  <2>1. OfferOf(new[i]) = OfferOf(os[i]) /\ OfferOf(new[j]) = OfferOf(os[j])
    BY Zenon DEF OfferOf, SameOffer
  <2> QED BY Zenon, <2>1 DEF Trades, Room, SameOffer
<1>9. Exact(os, i, f2)
  BY Zenon, <1>7 DEF Exact, SameOffer
<1>10. (os[i].giveOwn \/ os[i].getOwn) => f2.give = p /\ f2.get = q
  BY Zenon, <1>9 DEF Exact
<1> HIDE DEF a, b, c, d, a2, b2, c2, d2, p, q, mg, mt, mg2, mt2, f, f2
<1>11. mg \in Nat /\ mt \in Nat /\ mg2 \in Nat /\ mt2 \in Nat /\ mg2 <= mg /\ mt2 <= mt /\ mg <= p /\ mt <= q
  BY SMTT(30), <1>1, <1>2, <1>3, <1>4, <1>6
<1>12. f.give > 0 /\ f.get > 0
  BY ZenonT(30), <1>1, <1>5, <1>7, <1>11, FillShrinks
<1>13. f2.give \in Nat /\ f2.get \in Nat /\ f2.give <= mg2 /\ f2.get <= mt2
  BY ZenonT(30), <1>1, <1>5, <1>11, FillFacts
<1>14. (os[i].giveOwn \/ os[i].getOwn) => mg2 = mg /\ mt2 = mt
  <2> DEFINE u == f2.give
             v == f2.get
  <2> HIDE DEF u, v
  <2>1. u \in Nat /\ v \in Nat /\ u <= mg2 /\ v <= mt2
    BY Zenon, <1>13 DEF u, v
  <2>2. u = p /\ v = q => mg2 = mg /\ mt2 = mt
    BY SMTT(30), <1>1, <1>11, <2>1
  <2> QED BY Zenon, <1>10, <2>2 DEF u, v
<1>15. (os[i].giveOwn \/ os[i].getOwn) => f.give = p /\ f.get = q
  BY ZenonT(30), <1>5, <1>10, <1>14
<1>16. Room(os, ms, i, j)
  <2>1. a > 0 /\ b > 0 /\ c > 0 /\ d > 0
    BY SMTT(30), <1>2, <1>3, <1>4
  <2> QED BY Zenon, <1>8, <2>1 DEF Room, a, b, c, d
<1> QED BY ZenonT(30), <1>8, <1>12, <1>15, <1>16 DEF Trades, Exact, f, p, q

\* What a new match takes from the remainders.
LEMMA RemaindersAfterMatch ==
  ASSUME BookTypes, RowsKept(orders, orders'), NEW i \in DOMAIN orders, NEW j \in DOMAIN orders, i # j,
         NEW m \in MatchRow, m.taker = i, m.maker = j, matches' = Append(matches, m)
  PROVE  /\ matches' \in Seq(MatchRow)
         /\ GiveRemaining(matches, i)' = GiveRemaining(matches, i) - m.give
         /\ GetRemaining(matches, i)' = GetRemaining(matches, i) - m.get
         /\ GiveRemaining(matches, j)' = GiveRemaining(matches, j) - m.get
         /\ GetRemaining(matches, j)' = GetRemaining(matches, j) - m.give
         /\ \A x \in DOMAIN orders \ {i, j} :
               /\ GiveRemaining(matches, x)' = GiveRemaining(matches, x)
               /\ GetRemaining(matches, x)' = GetRemaining(matches, x)
         /\ \A x \in DOMAIN orders : /\ Given(matches, x) <= Given(matches', x)
                                     /\ Gotten(matches, x) <= Gotten(matches', x)
<1>0. /\ orders \in Seq(OrderRow) /\ DOMAIN orders = 1 .. Len(orders)
      /\ matches \in Seq(MatchRow)
  BY Zenon, Domains
<1>1. matches' \in Seq(MatchRow)
  BY <1>0
<1>2. m.give \in Nat /\ m.get \in Nat
  BY Zenon DEF MatchRow
<1>3. /\ Given(matches', i) = Given(matches, i) + m.give /\ Gotten(matches', i) = Gotten(matches, i) + m.get
      /\ Given(matches', j) = Given(matches, j) + m.get /\ Gotten(matches', j) = Gotten(matches, j) + m.give
  <2>1. GivenBy(m, i) = m.give /\ GottenBy(m, i) = m.get /\ GivenBy(m, j) = m.get /\ GottenBy(m, j) = m.give
    BY Zenon DEF GivenBy, GottenBy
  <2>2. i \in {m.taker, m.maker} /\ j \in {m.taker, m.maker}
    BY Zenon
  <2>3. /\ Given(Append(matches, m), i) = Given(matches, i) + GivenBy(m, i)
        /\ Gotten(Append(matches, m), i) = Gotten(matches, i) + GottenBy(m, i)
    BY Zenon, <1>0, <2>2, GivenByAppend
  <2>4. /\ Given(Append(matches, m), j) = Given(matches, j) + GivenBy(m, j)
        /\ Gotten(Append(matches, m), j) = Gotten(matches, j) + GottenBy(m, j)
    BY Zenon, <1>0, <2>2, GivenByAppend
  <2> QED BY Zenon, <2>1, <2>3, <2>4
<1>4. \A x \in DOMAIN orders \ {i, j} : Given(matches', x) = Given(matches, x) /\ Gotten(matches', x) = Gotten(matches, x)
  <2> TAKE x \in DOMAIN orders \ {i, j}
  <2>1. x \notin {m.taker, m.maker}
    BY Zenon
  <2> QED BY ZenonT(30), <1>0, <2>1, GivenByAppend
<1>5. \A x \in DOMAIN orders : /\ Given(matches, x) \in Nat /\ Gotten(matches, x) \in Nat
                               /\ orders[x].giveAmount \in Nat /\ orders[x].getAmount \in Nat
                               /\ orders'[x].giveAmount = orders[x].giveAmount
                               /\ orders'[x].getAmount = orders[x].getAmount
  <2> TAKE x \in DOMAIN orders
  <2>1. SameOffer(orders'[x], orders[x])
    BY Zenon, <1>0 DEF RowsKept
  <2>2. orders[x].giveAmount \in Nat \ {0} /\ orders[x].getAmount \in Nat \ {0}
    BY Zenon, <1>0, OrderRowFields
  <2>3. Given(matches, x) \in Nat /\ Gotten(matches, x) \in Nat
    BY ZenonT(30), <1>0, GivenType
  <2> QED BY ZenonT(30), <2>1, <2>2, <2>3 DEF SameOffer
<1>6. ASSUME NEW x \in DOMAIN orders
      PROVE  Given(matches, x) <= Given(matches', x) /\ Gotten(matches, x) <= Gotten(matches', x)
  <2>1. CASE x = i
    BY SMTT(30), <1>2, <1>3, <1>5, <2>1
  <2>2. CASE x = j
    BY SMTT(30), <1>2, <1>3, <1>5, <2>2
  <2>3. CASE x \notin {i, j}
    <3>1. Given(matches', x) = Given(matches, x) /\ Gotten(matches', x) = Gotten(matches, x)
      BY ZenonT(30), <1>4, <2>3
    <3> QED BY SMTT(30), <1>5, <3>1
  <2> QED BY SMTT(30), <2>1, <2>2, <2>3
<1>7. /\ GiveRemaining(matches, i)' = GiveRemaining(matches, i) - m.give
      /\ GetRemaining(matches, i)' = GetRemaining(matches, i) - m.get
  <2>1. /\ Given(matches, i) \in Nat /\ Gotten(matches, i) \in Nat
        /\ orders[i].giveAmount \in Nat /\ orders[i].getAmount \in Nat
        /\ orders'[i].giveAmount = orders[i].giveAmount /\ orders'[i].getAmount = orders[i].getAmount
    BY Zenon, <1>5
  <2> QED BY SMTT(30), <1>2, <1>3, <2>1 DEF GiveRemaining, GetRemaining
<1>8. /\ GiveRemaining(matches, j)' = GiveRemaining(matches, j) - m.get
      /\ GetRemaining(matches, j)' = GetRemaining(matches, j) - m.give
  <2>1. /\ Given(matches, j) \in Nat /\ Gotten(matches, j) \in Nat
        /\ orders[j].giveAmount \in Nat /\ orders[j].getAmount \in Nat
        /\ orders'[j].giveAmount = orders[j].giveAmount /\ orders'[j].getAmount = orders[j].getAmount
    BY Zenon, <1>5
  <2> QED BY SMTT(30), <1>2, <1>3, <2>1 DEF GiveRemaining, GetRemaining
<1>9. \A x \in DOMAIN orders \ {i, j} :
               /\ GiveRemaining(matches, x)' = GiveRemaining(matches, x)
               /\ GetRemaining(matches, x)' = GetRemaining(matches, x)
  BY Zenon, <1>4, <1>5 DEF GiveRemaining, GetRemaining
<1> QED BY ZenonT(30), <1>1, <1>6, <1>7, <1>8, <1>9

\* The fill of two orders that can trade.
LEMMA FairFill ==
  ASSUME BookTypes, NEW i \in DOMAIN orders, NEW j \in DOMAIN orders, Fillable(i, j),
         NEW f, f = ComputeFillAmounts(i, j)
  PROVE  /\ f.give \in Nat /\ f.get \in Nat /\ f.give > 0 /\ f.get > 0
         /\ f.give <= GiveRemaining(matches, i) /\ f.give <= GetRemaining(matches, j)
         /\ f.get <= GetRemaining(matches, i) /\ f.get <= GiveRemaining(matches, j)
         /\ \/ f.give = GiveRemaining(matches, i) \/ f.give = GetRemaining(matches, j)
            \/ f.get = GetRemaining(matches, i) \/ f.get = GiveRemaining(matches, j)
         /\ PriceKept(f, orders[i], orders[j])
<1>0. /\ orders \in Seq(OrderRow) /\ DOMAIN orders = 1 .. Len(orders) /\ matches \in Seq(MatchRow)
  BY Zenon, Domains
<1>1. f = FillOn(orders, matches, i, j) /\ Trades(orders, matches, i, j)
  BY Zenon, FillIsFillOn, FillableIsTrades
<1>2. Room(orders, matches, i, j) /\ f.give > 0 /\ f.get > 0
  BY Zenon, <1>1 DEF Trades
<1>3. /\ f.give \in Nat /\ f.get \in Nat
      /\ f.give <= Gives(orders, matches, i) /\ f.give <= Gets(orders, matches, j)
      /\ f.get <= Gets(orders, matches, i) /\ f.get <= Gives(orders, matches, j)
      /\ \/ f.give = Gives(orders, matches, i) \/ f.give = Gets(orders, matches, j)
         \/ f.get = Gets(orders, matches, i) \/ f.get = Gives(orders, matches, j)
      /\ PriceKept(f, orders[i], orders[j])
  BY Zenon, <1>0, <1>1, <1>2, FillIsFair DEF PriceKept
<1> QED BY Zenon, <1>2, <1>3, RemainsIsGives

\* Remainders are integers.
LEMMA RemaindersAreIntegers ==
  ASSUME BookTypes, NEW i \in DOMAIN orders
  PROVE  GiveRemaining(matches, i) \in Int /\ GetRemaining(matches, i) \in Int
<1>1. Gives(orders, matches, i) \in Int /\ Gets(orders, matches, i) \in Int
  BY Zenon, Domains, RemainderTypes
<1> QED BY Zenon, <1>1, RemainsIsGives

\* The passes of a block differ.
LEMMA PhasesDiffer == "txs" # "match" /\ "orders" # "match" /\ "coinpays" # "match"
OBVIOUS

\* During a pass the taker and its candidates are different orders of the book.
LEMMA PassFacts ==
  ASSUME BookInv, phase = "match", NEW c \in candidates
  PROVE  /\ taker \in DOMAIN orders /\ c \in DOMAIN orders /\ taker # c
         /\ orders[taker].status = "open" \/ TakerExhausted
         /\ candidates \subseteq FindOrderMatches(orders, taker)
         /\ orders[c].status = "open" /\ orders[c].giveOwn = orders[taker].getOwn
         /\ orders[c].getOwn = orders[taker].giveOwn
<1>1. taker \in DOMAIN orders /\ (orders[taker].status = "open" \/ TakerExhausted)
      /\ candidates \subseteq FindOrderMatches(orders, taker)
  BY Zenon DEF PassIsOpen, BookInv
<1>2. c \in FindOrderMatches(orders, taker)
  BY Zenon, <1>1
<1> QED BY Zenon, <1>1, <1>2 DEF FindOrderMatches

\* A record with the fields of a match is a match row.
LEMMA MatchRowMade ==
  ASSUME NEW i \in Nat, NEW j \in Nat, NEW f, f.give \in Nat, f.get \in Nat, NEW e \in Nat,
         NEW s \in {"valid", "pending_coinpay"}, NEW ob \in {"none", "pending_coinpay", "fulfilled", "expired"},
         NEW m, m = [taker |-> i, maker |-> j, give |-> f.give, get |-> f.get,
                     status |-> s, obligation |-> ob, expiration |-> e]
  PROVE  IsMatchRow(m, i, j, f, ob)
<1>1. m \in MatchRow
  BY Zenon DEF MatchRow
<1>2. m.taker = i /\ m.maker = j /\ m.give = f.give /\ m.get = f.get /\ m.obligation = ob
  BY Zenon
<1> QED BY Zenon, <1>1, <1>2 DEF IsMatchRow

\* The row a fill adds.
LEMMA MatchOfPass ==
  ASSUME BookInv, OrdersAssumption, phase = "match", NEW c \in candidates, Fillable(taker, c),
         NEW f, f = ComputeFillAmounts(taker, c)
  PROVE  /\ IsMatchRow(NewMatch(taker, c, f, TRUE), taker, c, f, "pending_coinpay")
         /\ IsMatchRow(NewMatch(taker, c, f, FALSE), taker, c, f, "none")
<1>1. BookTypes
  BY Zenon DEF BookInv
<1>2. taker \in DOMAIN orders /\ c \in DOMAIN orders
  BY Zenon, PassFacts
<1>3. taker \in Nat /\ c \in Nat /\ now + COINPAY_EXPIRATION \in Nat
  BY SMTT(30), <1>1, <1>2, Domains DEF BookTypes, OrdersAssumption
<1>4. f.give \in Nat /\ f.get \in Nat
  BY ZenonT(30), <1>1, <1>2, FairFill
<1>5. NewMatch(taker, c, f, TRUE)
        = [taker |-> taker, maker |-> c, give |-> f.give, get |-> f.get, status |-> "pending_coinpay",
           obligation |-> "pending_coinpay", expiration |-> now + COINPAY_EXPIRATION]
  BY Zenon DEF NewMatch
<1>6. NewMatch(taker, c, f, FALSE)
        = [taker |-> taker, maker |-> c, give |-> f.give, get |-> f.get, status |-> "valid",
           obligation |-> "none", expiration |-> 0]
  BY Zenon DEF NewMatch
<1>7. 0 \in Nat
  OBVIOUS
<1>8. IsMatchRow(NewMatch(taker, c, f, TRUE), taker, c, f, "pending_coinpay")
  BY ZenonT(30), <1>3, <1>4, <1>5, MatchRowMade
<1>9. IsMatchRow(NewMatch(taker, c, f, FALSE), taker, c, f, "none")
  BY Zenon, <1>3, <1>4, <1>6, <1>7, MatchRowMade
<1> QED BY Zenon, <1>8, <1>9

\* What an instant settlement does to the rows: the two orders complete when they are done.
LEMMA InstantEffect ==
  ASSUME BookTypes, NEW c \in DOMAIN orders, taker \in DOMAIN orders, SettleInstantly(c)
  PROVE  /\ RowsKept(orders, orders')
         /\ \A k \in DOMAIN orders \ {taker, c} : orders'[k] = orders[k]
         /\ \A k \in {taker, c} : orders'[k].status \in {orders[k].status, "complete"}
         /\ orders'[taker].status = orders[taker].status \/ TakerExhausted'
<1>0. orders \in Seq(OrderRow) /\ DOMAIN orders = 1 .. Len(orders)
  BY Zenon, Domains
<1> DEFINE new(k) == IF k \in {taker, c} /\ Done(matches', k)
                     THEN [orders[k] EXCEPT !.status = "complete"] ELSE orders[k]
<1>1. orders' = [k \in DOMAIN orders |-> new(k)] /\ taker' = taker
  <2> DEFINE ms == Append(matches, NewMatch(taker, c, ComputeFillAmounts(taker, c), FALSE))
  <2>1. matches' = ms /\ taker' = taker
    BY Zenon DEF SettleInstantly
  <2>2. orders' = [k \in DOMAIN orders |->
                    IF k \in {taker, c} /\ Done(ms, k)
                    THEN [orders[k] EXCEPT !.status = "complete"] ELSE orders[k]]
    BY Zenon DEF SettleInstantly
  <2> HIDE DEF ms
  <2> QED BY Zenon, <2>1, <2>2
<1>2. ASSUME NEW k \in DOMAIN orders
      PROVE  /\ orders'[k] = new(k) /\ new(k) \in OrderRow /\ SameOffer(new(k), orders[k])
             /\ new(k).status \in {orders[k].status, "complete"}
  <2>1. orders'[k] = new(k)
    BY Zenon, <1>1
  <2> DEFINE o == orders[k]
  <2>2. o \in OrderRow
    BY Zenon, <1>0, OrderRowFields
  <2> HIDE DEF o
  <2>3. "complete" \in Live \cup Final
    BY DEF Live, Final
  <2>4. /\ [o EXCEPT !.status = "complete"] \in OrderRow /\ SameOffer([o EXCEPT !.status = "complete"], o)
        /\ [o EXCEPT !.status = "complete"].status = "complete"
    BY Zenon, <2>2, <2>3 DEF OrderRow, SameOffer
  <2>5. new(k) = [o EXCEPT !.status = "complete"] \/ new(k) = o
    BY Zenon DEF o
  <2> HIDE DEF new
  <2>6. /\ new(k) \in OrderRow /\ SameOffer(new(k), o) /\ new(k).status \in {o.status, "complete"}
    BY ZenonT(30), <2>2, <2>4, <2>5, SameOfferRefl
  <2> QED BY Zenon, <2>1, <2>6 DEF o
<1>3. orders' = [k \in 1 .. Len(orders) |-> orders'[k]]
  BY Zenon, <1>0, <1>1
<1>4. \A k \in DOMAIN orders \ {taker, c} : orders'[k] = orders[k]
  BY Zenon, <1>1
<1>5. orders'[taker].status = orders[taker].status \/ TakerExhausted'
  <2>1. CASE Done(matches', taker)
    <3>2. /\ GiveRemaining(matches', taker) = orders[taker].giveAmount - Given(matches', taker)
          /\ GetRemaining(matches', taker) = orders[taker].getAmount - Gotten(matches', taker)
      BY Zenon DEF GiveRemaining, GetRemaining
    <3>3. SameOffer(orders'[taker], orders[taker])
      BY Zenon, <1>2
    <3>4. /\ orders'[taker].giveAmount - Given(matches', taker) <= 0
             \/ orders'[taker].getAmount - Gotten(matches', taker) <= 0
      BY Zenon, <2>1, <3>2, <3>3 DEF Done, SameOffer
    <3> QED BY Zenon, <1>1, <3>4 DEF TakerExhausted, GiveRemaining, GetRemaining
  <2>2. CASE ~Done(matches', taker)
    BY Zenon, <1>2, <2>2
  <2> QED BY SMTT(30), <2>1, <2>2
<1> HIDE DEF new
<1>6. RowsKept(orders, orders')
  <2>1. \A k \in 1 .. Len(orders) : /\ orders'[k] \in OrderRow /\ SameOffer(orders'[k], orders[k])
                                    /\ orders'[k].status = "open" => orders[k].status = "open"
    <3>1. "open" # "complete"
      OBVIOUS
    <3> QED BY Zenon, <1>0, <1>2, <3>1
  <2> QED BY SMTT(30), <1>0, <1>3, <2>1, RowsWritten
<1> QED BY ZenonT(30), <1>2, <1>4, <1>5, <1>6

\* An order no match names is untouched.
LEMMA NothingGiven ==
  ASSUME NEW ms \in Seq(MatchRow), NEW i, \A k \in 1 .. Len(ms) : i # ms[k].taker /\ i # ms[k].maker
  PROVE  Given(ms, i) = 0 /\ Gotten(ms, i) = 0
<1>1. MatchesOf(ms, i) = {k \in 1 .. Len(ms) : i = ms[k].taker \/ i = ms[k].maker}
  BY Zenon, MatchesOfRows
<1>2. MatchesOf(ms, i) = {}
  BY Zenon, <1>1
<1>3. /\ Given(ms, i) = Sum([k \in {} |-> GivenBy(ms[k], i)], {})
      /\ Gotten(ms, i) = Sum([k \in {} |-> GottenBy(ms[k], i)], {})
  BY Zenon, <1>2, GivenIsSum
<1> QED BY Zenon, <1>3, SumEmpty

\* The row of a valid create is an open order with the payload of the offer.
LEMMA NewOrderRow ==
  ASSUME NEW o, o.source \in Addresses, o.give \in Ticks \cup {Coin}, o.get \in Ticks \cup {Coin},
         o.giveAmount \in Nat \ {0}, o.getAmount \in Nat \ {0}, o.giveOwn \in BOOLEAN, o.getOwn \in BOOLEAN,
         NEW e \in Nat, NEW r, r = NewOrder(o, e)
  PROVE  r \in OrderRow /\ r.status = "open" /\ SameOffer(r, o)
<1>1. "open" \in Live \cup Final /\ Nobody \in Addresses \cup {Nobody}
  BY DEF Live
<1>2. r \in OrderRow
  BY Zenon, <1>1 DEF OrderRow, NewOrder
<1>3. r.status = "open" /\ SameOffer(r, o)
  BY Zenon DEF SameOffer, NewOrder
<1> QED BY ZenonT(30), <1>2, <1>3

\* What a user offers has the types of a payload.
LEMMA OfferIsReal ==
  ASSUME OrdersAssumption, NEW o \in UNION Markets
  PROVE  /\ o.source \in Addresses /\ o.give \in Ticks \cup {Coin} /\ o.get \in Ticks \cup {Coin}
         /\ o.give # o.get /\ o.giveAmount \in Nat \ {0} /\ o.getAmount \in Nat \ {0}
         /\ o.giveOwn \in BOOLEAN /\ o.getOwn \in BOOLEAN /\ (o.giveOwn => o.give # Coin)
BY Zenon DEF OrdersAssumption

\* What CreateOrder does to the rows: one open order joins the book, its match pass begins, and
\* nothing has been given or gotten for it.
LEMMA CreateEffect ==
  ASSUME BookInv, OrdersAssumption, NEW o \in UNION Markets, NEW life \in Lifetimes, CreateOrder(o, life),
         NEW n, n = Len(orders) + 1
  PROVE  OrderJoins(n, o) /\ PassBegins(n) /\ UNCHANGED <<matches, now>> /\ Given(matches, n) = 0 /\ Gotten(matches, n) = 0
<1>0. /\ orders \in Seq(OrderRow) /\ DOMAIN orders = 1 .. Len(orders) /\ Len(orders) \in Nat
      /\ matches \in Seq(MatchRow) /\ DOMAIN matches = 1 .. Len(matches)
  BY Zenon, Domains DEF BookInv
<1> DEFINE e == now + life
           r == NewOrder(o, e)
<1>1. e \in Nat
  <2>1. now \in Nat /\ life \in Nat
    BY Zenon DEF BookInv, BookTypes, OrdersAssumption
  <2> QED BY <2>1
<1>3. orders' = Append(orders, r) /\ StartMatching(orders', Len(orders')) /\ phase = "txs" /\ UNCHANGED <<matches, now>>
  BY Zenon DEF CreateOrder
<1>e. r = NewOrder(o, e)
  BY Zenon
<1> HIDE DEF e, r
<1>2. r \in OrderRow /\ r.status = "open" /\ SameOffer(r, o)
  BY ZenonT(30), <1>1, <1>e, OfferIsReal, NewOrderRow
<1>4. /\ orders' \in Seq(OrderRow) /\ n \in Nat /\ n \notin DOMAIN orders
      /\ DOMAIN orders' = DOMAIN orders \cup {n} /\ Len(orders') = n /\ orders'[n] = r
      /\ \A i \in DOMAIN orders : orders'[i] = orders[i] /\ i < n
  BY SMTT(30), <1>0, <1>2, <1>3
<1>5. OrderJoins(n, o)
  BY Zenon, <1>2, <1>4 DEF OrderJoins
<1>6. PassBegins(n)
  BY Zenon, <1>3, <1>4 DEF StartMatching, PassBegins
<1>7. Given(matches, n) = 0 /\ Gotten(matches, n) = 0
  <2>1. \A k \in 1 .. Len(matches) : n # matches[k].taker /\ n # matches[k].maker
    BY ZenonT(30), <1>0, <1>4 DEF BookInv, Book, MatchesJoin
  <2> QED BY ZenonT(30), <1>0, <2>1, NothingGiven
<1> QED BY ZenonT(30), <1>3, <1>5, <1>6, <1>7

\* An order is live or final.
LEMMA LiveOrFinal ==
  /\ \A s : s \in Final => s \notin Live /\ s # "open"
  /\ {"open", "cancelling", "expiring"} = Live
BY DEF Live, Final
=============================================================================
