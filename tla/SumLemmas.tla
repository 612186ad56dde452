----------------------------- MODULE SumLemmas -----------------------------
(***************************************************************************)
(* Sums over finite sets: what SumFunctionOnSet of the community module    *)
(* Functions returns for every finite set, not only for those small enough *)
(* to be enumerated.  It is a recursive function on the subsets of the     *)
(* set, and what it computes is shown by induction on them.  The induction *)
(* is stated with a set of subsets in the place of a predicate.  An order  *)
(* of places gives each a position, that of the number of those before.    *)
(* Before them, two facts about numbers that the other proofs need too.    *)
(***************************************************************************)
EXTENDS Integers, FiniteSetTheorems, NaturalsInduction, WellFoundedInduction, TLAPS

IsLeast(l, S) == l \in S /\ \A k \in S : l <= k

(* A set of natural numbers that is not empty has a smallest one.          *)
LEMMA LeastExists == \A S \in SUBSET Nat : S # {} => \E l \in S : IsLeast(l, S)
  <1> SUFFICES ASSUME NEW S \in SUBSET Nat, S # {} PROVE \E l \in S : IsLeast(l, S)
    OBVIOUS
  <1>1. PICK l \in S : \A k \in S : <<k, l>> \notin OpToRel(<, Nat)
    BY WFMin, NatLessThanWellFounded, Zenon
  <1>2. \A k \in S : ~(k < l)
    BY <1>1, Zenon DEF OpToRel
  <1>3. IsLeast(l, S)
    BY <1>2 DEF IsLeast
  <1> QED
    BY <1>3

(* Induction up to n: a set that has 0, and with each number the next, has *)
(* all up to n.                                                            *)
LEMMA CountingUp ==
    ASSUME NEW n \in Nat, NEW S, 0 \in S, \A k \in 1 .. n : k - 1 \in S => k \in S
    PROVE  \A k \in 0 .. n : k \in S
  <1> DEFINE Missing == {k \in Nat : k <= n /\ k \notin S}
  <1>1. SUFFICES ASSUME Missing # {} PROVE FALSE
    OBVIOUS
  <1>2. PICK m \in Missing : \A k \in Missing : m <= k
    <2>1. Missing \in SUBSET Nat
      OBVIOUS
    <2> HIDE DEF Missing
    <2> QED
      BY <1>1, <2>1, LeastExists DEF IsLeast
  <1>3. m \in Nat /\ m <= n /\ m \notin S /\ m # 0
    OBVIOUS
  <1>4. m - 1 \in Nat /\ m - 1 <= n /\ ~(m <= m - 1) /\ m \in 1 .. n
    BY <1>3
  <1>5. m - 1 \notin Missing
    <2> HIDE DEF Missing
    <2> QED
      BY <1>2, <1>4
  <1> QED
    BY <1>3, <1>4, <1>5

(* A family of subsets of S that holds a set as soon as it holds all its   *)
(* strict subsets holds all of them.                                       *)
LEMMA SubsetInduction ==
    ASSUME NEW S, IsFiniteSet(S), NEW F,
           \A T \in SUBSET S : (\A U \in SUBSET T : U # T => U \in F) => T \in F
    PROVE  \A T \in SUBSET S : T \in F
  <1> DEFINE Missing == {T \in SUBSET S : T \notin F}
  <1>1. SUFFICES ASSUME Missing # {} PROVE FALSE
    OBVIOUS
  <1>2. IsWellFoundedOn(StrictSubsetOrdering(S), SUBSET S)
    BY FS_StrictSubsetOrderingWellFounded, FS_FiniteSubsetsOfFinite
  <1>3. PICK T \in Missing : \A U \in Missing : <<U, T>> \notin StrictSubsetOrdering(S)
    <2> HIDE DEF Missing
    <2>1. Missing \subseteq SUBSET S
      BY DEF Missing
    <2> QED
      BY <1>1, <1>2, <2>1, WFMin
  <1>4. ASSUME NEW U \in SUBSET T, U # T
        PROVE  U \in F
    BY <1>3, <1>4 DEF StrictSubsetOrdering
  <1> QED
    BY <1>3, <1>4

-----------------------------------------------------------------------------
(* The recursive function.                                                 *)

Pick(T) == CHOOSE x \in T : TRUE

(* g adds f up over the subsets of S, an element at a time.                *)
AddsUp(g, f, S) ==
    g = [T \in SUBSET S |-> IF T = {} THEN 0 ELSE f[Pick(T)] + g[T \ {Pick(T)}]]

(* An element of a set that is not empty.                                  *)
LEMMA PickIsElement == ASSUME NEW T, T # {} PROVE Pick(T) \in T
  BY DEF Pick

(* Two functions that add up agree where both are defined.                 *)
LEMMA AddsUpUnique ==
    ASSUME NEW f, NEW g, NEW h, NEW S, NEW R, AddsUp(g, f, S), AddsUp(h, f, R),
           IsFiniteSet(S), S \subseteq R
    PROVE  g[S] = h[S]
  <1> DEFINE Same == {T \in SUBSET S : g[T] = h[T]}
  <1>1. ASSUME NEW T \in SUBSET S, \A U \in SUBSET T : U # T => U \in Same
        PROVE  T \in Same
    <2>1. CASE T = {}
      BY <2>1 DEF AddsUp
    <2>2. CASE T # {}
      <3>1. Pick(T) \in T
        BY <2>2, PickIsElement
      <3>2. g[T \ {Pick(T)}] = h[T \ {Pick(T)}]
        BY <1>1, <3>1
      <3>3. g[T] = f[Pick(T)] + g[T \ {Pick(T)}]
        BY <2>2 DEF AddsUp
      <3>4. h[T] = f[Pick(T)] + h[T \ {Pick(T)}]
        BY <2>2 DEF AddsUp
      <3> QED
        BY <3>2, <3>3, <3>4
    <2> QED
      BY <2>1, <2>2
  <1>2. S \in Same
    <2> HIDE DEF Same
    <2> QED
      BY <1>1, SubsetInduction
  <1> QED
    BY <1>2

(* There is such a function on the subsets of every finite set.            *)
LEMMA AddsUpExists ==
    ASSUME NEW f, NEW S, IsFiniteSet(S)
    PROVE  \E g : AddsUp(g, f, S)
  <1> DEFINE Solved == {T \in SUBSET S : \E g : AddsUp(g, f, T)}
             G(T) == CHOOSE g : AddsUp(g, f, T)
  <1>1. ASSUME NEW T \in SUBSET S, \A U \in SUBSET T : U # T => U \in Solved
        PROVE  T \in Solved
    <2> DEFINE value(U) == IF U = {} THEN 0 ELSE f[Pick(U)] + G(U \ {Pick(U)})[U \ {Pick(U)}]
               g == [U \in SUBSET T |-> value(U)]
    <2>1. ASSUME NEW U \in SUBSET T, U # T
          PROVE  AddsUp(G(U), f, U)
      BY <1>1, <2>1
    <2>2. ASSUME NEW U \in SUBSET T, U # T
          PROVE  g[U] = G(U)[U]
      <3>1. CASE U = {}
        <4>1. AddsUp(G(U), f, U)
          BY <2>1, <2>2
        <4>2. G(U)[U] = 0
          <5> HIDE DEF G
          <5> QED
            BY <4>1, <3>1 DEF AddsUp
        <4> QED
          BY <4>2, <3>1
      <3>2. CASE U # {}
        <4> DEFINE V == U \ {Pick(U)}
        <4>1. Pick(U) \in U
          BY <3>2, PickIsElement
        <4>2. V \in SUBSET T /\ V # T /\ V \subseteq U /\ IsFiniteSet(V)
          BY <4>1, FS_Subset
        <4>3. AddsUp(G(V), f, V) /\ AddsUp(G(U), f, U)
          BY <2>1, <2>2, <4>2
        <4>4. G(V)[V] = G(U)[V]
          <5> HIDE DEF V, G
          <5> QED
            BY <4>2, <4>3, AddsUpUnique
        <4>5. G(U)[U] = f[Pick(U)] + G(U)[V]
          <5> HIDE DEF G
          <5> QED
            BY <3>2, <4>3 DEF AddsUp
        <4> QED
          BY <3>2, <4>4, <4>5
      <3> QED
        BY <3>1, <3>2
    <2>3. ASSUME NEW U \in SUBSET T, U # {}
          PROVE  value(U) = f[Pick(U)] + g[U \ {Pick(U)}]
      <3>1. Pick(U) \in U
        BY <2>3, PickIsElement
      <3>2. g[U \ {Pick(U)}] = G(U \ {Pick(U)})[U \ {Pick(U)}]
        <4> HIDE DEF g, G
        <4> QED
          BY <3>1, <2>2
      <3> QED
        BY <2>3, <3>2
    <2>4. AddsUp(g, f, T)
      <3>1. ASSUME NEW U \in SUBSET T
            PROVE  g[U] = IF U = {} THEN 0 ELSE f[Pick(U)] + g[U \ {Pick(U)}]
        <4>1. CASE U = {}
          BY <4>1
        <4>2. CASE U # {}
          <5>1. g[U] = value(U)
            OBVIOUS
          <5> HIDE DEF value, g
          <5> QED
            BY <2>3, <4>2, <5>1
        <4> QED
          BY <4>1, <4>2
      <3>2. g = [U \in SUBSET T |-> g[U]]
        OBVIOUS
      <3> HIDE DEF g
      <3> QED
        BY <3>1, <3>2 DEF AddsUp
    <2> QED
      BY <2>4
  <1>2. S \in Solved
    <2> HIDE DEF Solved
    <2> QED
      BY <1>1, SubsetInduction
  <1> QED
    BY <1>2

-----------------------------------------------------------------------------
(* The sum.                                                                *)

(* The sum is what the functions that add up return.                       *)
LEMMA SumIsWhatAddsUp ==
    ASSUME NEW f, NEW S, IsFiniteSet(S), NEW g, AddsUp(g, f, S)
    PROVE  SumFunctionOnSet(f, S) = g[S]
  <1> DEFINE h == CHOOSE h : AddsUp(h, f, S)
  <1>1. SumFunctionOnSet(f, S) = h[S]
    BY DEF SumFunctionOnSet, FoldFunctionOnSet, MapThenFoldSet, AddsUp, Pick
  <1>2. AddsUp(h, f, S)
    OBVIOUS
  <1> HIDE DEF h
  <1> QED
    BY <1>1, <1>2, AddsUpUnique

(* Nothing adds up to nothing.                                             *)
LEMMA SumOfNothing == ASSUME NEW f PROVE SumFunctionOnSet(f, {}) = 0
  <1>1. IsFiniteSet({})
    BY FS_EmptySet
  <1>2. PICK g : AddsUp(g, f, {})
    BY <1>1, AddsUpExists
  <1>3. g[{}] = 0
    BY <1>2 DEF AddsUp
  <1> QED
    BY <1>1, <1>2, <1>3, SumIsWhatAddsUp

(* One element apart from the others.                                      *)
LEMMA SumPick ==
    ASSUME NEW f, NEW S, IsFiniteSet(S), S # {}
    PROVE  SumFunctionOnSet(f, S) = f[Pick(S)] + SumFunctionOnSet(f, S \ {Pick(S)})
  <1> DEFINE T == S \ {Pick(S)}
  <1>1. IsFiniteSet(T) /\ T \in SUBSET S
    BY FS_Subset
  <1>2. PICK g : AddsUp(g, f, S)
    BY AddsUpExists
  <1>3. PICK h : AddsUp(h, f, T)
    <2> HIDE DEF T
    <2> QED
      BY <1>1, AddsUpExists
  <1>4. h[T] = g[T]
    <2> HIDE DEF T
    <2> QED
      BY <1>1, <1>2, <1>3, AddsUpUnique
  <1>5. g[S] = f[Pick(S)] + g[T]
    BY <1>2 DEF AddsUp
  <1>6. SumFunctionOnSet(f, S) = g[S]
    BY <1>2, SumIsWhatAddsUp
  <1>7. SumFunctionOnSet(f, T) = h[T]
    <2> HIDE DEF T
    <2> QED
      BY <1>1, <1>3, SumIsWhatAddsUp
  <1> QED
    BY <1>4, <1>5, <1>6, <1>7

(* A sum of integers is an integer.                                        *)
LEMMA SumIsInteger ==
    ASSUME NEW S, IsFiniteSet(S), NEW f, \A x \in S : f[x] \in Int
    PROVE  SumFunctionOnSet(f, S) \in Int
  <1> DEFINE Good == {T \in SUBSET S : SumFunctionOnSet(f, T) \in Int}
  <1>1. ASSUME NEW T \in SUBSET S, \A U \in SUBSET T : U # T => U \in Good
        PROVE  T \in Good
    <2>1. CASE T = {}
      BY <2>1, SumOfNothing
    <2>2. CASE T # {}
      <3>1. Pick(T) \in T /\ IsFiniteSet(T)
        BY <2>2, PickIsElement, FS_Subset
      <3>2. SumFunctionOnSet(f, T \ {Pick(T)}) \in Int
        BY <1>1, <3>1
      <3>3. SumFunctionOnSet(f, T) = f[Pick(T)] + SumFunctionOnSet(f, T \ {Pick(T)})
        BY <2>2, <3>1, SumPick
      <3> QED
        BY <3>1, <3>2, <3>3
    <2> QED
      BY <2>1, <2>2
  <1>2. S \in Good
    <2> HIDE DEF Good
    <2> QED
      BY <1>1, SubsetInduction
  <1> QED
    BY <1>2

(* A sum of naturals is a natural.                                         *)
LEMMA SumIsNatural ==
    ASSUME NEW S, IsFiniteSet(S), NEW f, \A x \in S : f[x] \in Nat
    PROVE  SumFunctionOnSet(f, S) \in Nat
  <1> DEFINE Good == {T \in SUBSET S : SumFunctionOnSet(f, T) \in Nat}
  <1>1. ASSUME NEW T \in SUBSET S, \A U \in SUBSET T : U # T => U \in Good
        PROVE  T \in Good
    <2>1. CASE T = {}
      BY <2>1, SumOfNothing
    <2>2. CASE T # {}
      <3>1. Pick(T) \in T /\ IsFiniteSet(T)
        BY <2>2, PickIsElement, FS_Subset
      <3>2. SumFunctionOnSet(f, T \ {Pick(T)}) \in Nat
        BY <1>1, <3>1
      <3>3. SumFunctionOnSet(f, T) = f[Pick(T)] + SumFunctionOnSet(f, T \ {Pick(T)})
        BY <2>2, <3>1, SumPick
      <3> QED
        BY <3>1, <3>2, <3>3
    <2> QED
      BY <2>1, <2>2
  <1>2. S \in Good
    <2> HIDE DEF Good
    <2> QED
      BY <1>1, SubsetInduction
  <1> QED
    BY <1>2

(* Functions that agree on a set have the same sum over it.                *)
LEMMA SumSame ==
    ASSUME NEW S, IsFiniteSet(S), NEW f, NEW g, \A x \in S : f[x] = g[x]
    PROVE  SumFunctionOnSet(f, S) = SumFunctionOnSet(g, S)
  <1> DEFINE Good == {T \in SUBSET S : SumFunctionOnSet(f, T) = SumFunctionOnSet(g, T)}
  <1>1. ASSUME NEW T \in SUBSET S, \A U \in SUBSET T : U # T => U \in Good
        PROVE  T \in Good
    <2>1. CASE T = {}
      BY <2>1, SumOfNothing
    <2>2. CASE T # {}
      <3>1. Pick(T) \in T /\ IsFiniteSet(T)
        BY <2>2, PickIsElement, FS_Subset
      <3>2. SumFunctionOnSet(f, T \ {Pick(T)}) = SumFunctionOnSet(g, T \ {Pick(T)})
        BY <1>1, <3>1
      <3>3. SumFunctionOnSet(f, T) = f[Pick(T)] + SumFunctionOnSet(f, T \ {Pick(T)})
        BY <2>2, <3>1, SumPick
      <3>4. SumFunctionOnSet(g, T) = g[Pick(T)] + SumFunctionOnSet(g, T \ {Pick(T)})
        BY <2>2, <3>1, SumPick
      <3> QED
        BY <3>1, <3>2, <3>3, <3>4
    <2> QED
      BY <2>1, <2>2
  <1>2. S \in Good
    <2> HIDE DEF Good
    <2> QED
      BY <1>1, SubsetInduction
  <1> QED
    BY <1>2

(* Any element may be added last: the order of the sum does not matter.    *)
LEMMA SumRemove ==
    ASSUME NEW S, IsFiniteSet(S), NEW f, \A y \in S : f[y] \in Int, NEW x \in S
    PROVE  SumFunctionOnSet(f, S) = f[x] + SumFunctionOnSet(f, S \ {x})
  <1> DEFINE Good == {T \in SUBSET S : \A z \in T :
                        SumFunctionOnSet(f, T) = f[z] + SumFunctionOnSet(f, T \ {z})}
  <1>1. ASSUME NEW T \in SUBSET S, \A U \in SUBSET T : U # T => U \in Good
        PROVE  T \in Good
    <2> SUFFICES ASSUME NEW z \in T
                 PROVE  SumFunctionOnSet(f, T) = f[z] + SumFunctionOnSet(f, T \ {z})
      OBVIOUS
    <2> DEFINE y == Pick(T)
    <2>1. y \in T /\ IsFiniteSet(T)
      BY PickIsElement, FS_Subset
    <2>2. SumFunctionOnSet(f, T) = f[y] + SumFunctionOnSet(f, T \ {y})
      BY <2>1, SumPick
    <2> HIDE DEF y
    <2>3. CASE z = y
      BY <2>2, <2>3
    <2>4. CASE z # y
      <3>1. T \ {y} \in Good /\ T \ {z} \in Good
        BY <1>1, <2>1
      <3>2. SumFunctionOnSet(f, T \ {y}) = f[z] + SumFunctionOnSet(f, (T \ {y}) \ {z})
        BY <3>1, <2>4
      <3>3. SumFunctionOnSet(f, T \ {z}) = f[y] + SumFunctionOnSet(f, (T \ {z}) \ {y})
        BY <3>1, <2>1, <2>4
      <3>4. (T \ {y}) \ {z} = (T \ {z}) \ {y}
        OBVIOUS
      <3>5. SumFunctionOnSet(f, (T \ {y}) \ {z}) \in Int
        <4>1. IsFiniteSet((T \ {y}) \ {z}) /\ \A v \in (T \ {y}) \ {z} : f[v] \in Int
          BY FS_Subset
        <4> QED
          BY <4>1, SumIsInteger
      <3>6. f[y] \in Int /\ f[z] \in Int
        BY <2>1
      <3> DEFINE rest == SumFunctionOnSet(f, (T \ {y}) \ {z})
      <3>7. SumFunctionOnSet(f, T) = f[y] + (f[z] + rest) /\ SumFunctionOnSet(f, T \ {z}) = f[y] + rest
        BY <2>2, <3>2, <3>3, <3>4
      <3>8. rest \in Int
        BY <3>5
      <3> HIDE DEF rest
      <3>9. f[y] + (f[z] + rest) = f[z] + (f[y] + rest)
        BY <3>6, <3>8
      <3> QED
        BY <3>7, <3>9
    <2> QED
      BY <2>3, <2>4
  <1>2. S \in Good
    <2> HIDE DEF Good
    <2> QED
      BY <1>1, SubsetInduction
  <1> QED
    BY <1>2

(* A change of one summand changes the sum by as much.                     *)
LEMMA SumChange ==
    ASSUME NEW S, IsFiniteSet(S), NEW f, NEW g, NEW x \in S,
           \A y \in S : f[y] \in Int /\ g[y] \in Int,
           \A y \in S \ {x} : g[y] = f[y]
    PROVE  SumFunctionOnSet(g, S) = SumFunctionOnSet(f, S) + g[x] - f[x]
  <1>1. IsFiniteSet(S \ {x})
    BY FS_Subset
  <1>2. SumFunctionOnSet(f, S \ {x}) = SumFunctionOnSet(g, S \ {x})
    BY <1>1, SumSame
  <1>3. SumFunctionOnSet(f, S \ {x}) \in Int
    BY <1>1, SumIsInteger
  <1>4. SumFunctionOnSet(f, S) = f[x] + SumFunctionOnSet(f, S \ {x})
    BY SumRemove
  <1>5. SumFunctionOnSet(g, S) = g[x] + SumFunctionOnSet(g, S \ {x})
    BY SumRemove
  <1> QED
    BY <1>2, <1>3, <1>4, <1>5

(* A sum of zeros is zero.                                                 *)
LEMMA SumOfZeros ==
    ASSUME NEW S, IsFiniteSet(S), NEW f, \A x \in S : f[x] = 0
    PROVE  SumFunctionOnSet(f, S) = 0
  <1> DEFINE Good == {T \in SUBSET S : SumFunctionOnSet(f, T) = 0}
  <1>1. ASSUME NEW T \in SUBSET S, \A U \in SUBSET T : U # T => U \in Good
        PROVE  T \in Good
    <2>1. CASE T = {}
      BY <2>1, SumOfNothing
    <2>2. CASE T # {}
      <3>1. Pick(T) \in T /\ IsFiniteSet(T)
        BY <2>2, PickIsElement, FS_Subset
      <3>2. SumFunctionOnSet(f, T \ {Pick(T)}) = 0
        BY <1>1, <3>1
      <3>3. SumFunctionOnSet(f, T) = f[Pick(T)] + SumFunctionOnSet(f, T \ {Pick(T)})
        BY <2>2, <3>1, SumPick
      <3> QED
        BY <3>1, <3>2, <3>3
    <2> QED
      BY <2>1, <2>2
  <1>2. S \in Good
    <2> HIDE DEF Good
    <2> QED
      BY <1>1, SubsetInduction
  <1> QED
    BY <1>2

-----------------------------------------------------------------------------
(* Orders, by counting.                                                    *)

(* Prior gives for each element of S those that come before it in a strict *)
(* order of all of them.                                                   *)
Orders(Prior, S) ==
    /\ \A i \in S : Prior[i] \subseteq S /\ i \notin Prior[i]
    /\ \A i, k \in S : i \in Prior[k] => Prior[i] \subseteq Prior[k]
    /\ \A i, k \in S : i # k => i \in Prior[k] \/ k \in Prior[i]

(* The position of each element in the order.                              *)
Position(Prior, i) == Cardinality(Prior[i]) + 1

(* Counting those before it gives each element a position of its own, in   *)
(* the order, and each position to an element.                             *)
LEMMA PositionsInOrder ==
    ASSUME NEW S, IsFiniteSet(S), NEW Prior, Orders(Prior, S)
    PROVE  /\ \A i \in S : Position(Prior, i) \in 1 .. Cardinality(S)
           /\ \A i, k \in S : i \in Prior[k] => Position(Prior, i) < Position(Prior, k)
           /\ \A i, k \in S : Position(Prior, i) = Position(Prior, k) => i = k
           /\ \A q \in 1 .. Cardinality(S) : \E i \in S : Position(Prior, i) = q
  <1> DEFINE pos == [i \in S |-> Position(Prior, i)]
  <1>1. /\ Cardinality(S) \in Nat /\ IsFiniteSet(1 .. Cardinality(S))
        /\ Cardinality(1 .. Cardinality(S)) = Cardinality(S)
    BY FS_CardinalityType, FS_Interval
  <1>2. ASSUME NEW i \in S
        PROVE  /\ IsFiniteSet(Prior[i]) /\ Cardinality(Prior[i]) \in Nat
               /\ Position(Prior, i) \in 1 .. Cardinality(S)
    <2>1. Prior[i] \subseteq S /\ i \notin Prior[i]
      BY DEF Orders
    <2>2. IsFiniteSet(Prior[i]) /\ Cardinality(Prior[i]) \in Nat
      BY <1>1, <2>1, FS_Subset, FS_CardinalityType
    <2>3. Cardinality(Prior[i]) <= Cardinality(S) /\ Cardinality(Prior[i]) # Cardinality(S)
      <3>1. i \in S
        OBVIOUS
      <3>2. Prior[i] # S
        BY <2>1, <3>1
      <3> QED
        BY <1>1, <2>1, <3>2, FS_Subset
    <2> QED
      BY <1>1, <2>2, <2>3 DEF Position
  <1>3. ASSUME NEW i \in S, NEW k \in S, i \in Prior[k]
        PROVE  Position(Prior, i) < Position(Prior, k)
    <2>1. Prior[i] \subseteq Prior[k] /\ i \notin Prior[i]
      BY <1>3 DEF Orders
    <2>2. Prior[i] # Prior[k]
      BY <1>3, <2>1
    <2>3. Cardinality(Prior[i]) <= Cardinality(Prior[k]) /\ Cardinality(Prior[i]) # Cardinality(Prior[k])
      BY <1>2, <2>1, <2>2, FS_Subset
    <2> QED
      BY <1>2, <2>3 DEF Position
  <1>4. \A i, k \in S : Position(Prior, i) = Position(Prior, k) => i = k
    <2> SUFFICES ASSUME NEW i \in S, NEW k \in S, i # k
                 PROVE  Position(Prior, i) # Position(Prior, k)
      OBVIOUS
    <2>1. i \in Prior[k] \/ k \in Prior[i]
      BY DEF Orders
    <2>2. Position(Prior, i) < Position(Prior, k) \/ Position(Prior, k) < Position(Prior, i)
      BY <1>3, <2>1
    <2>3. Position(Prior, i) \in Int /\ Position(Prior, k) \in Int
      BY <1>2
    <2> QED
      BY <2>2, <2>3
  <1>5. \A q \in 1 .. Cardinality(S) : \E i \in S : pos[i] = q
    <2>1. pos \in [S -> 1 .. Cardinality(S)]
      BY <1>2
    <2>2. \A i, k \in S : pos[i] = pos[k] => i = k
      BY <1>4
    <2> HIDE DEF pos
    <2>3. pos \in Injection(S, 1 .. Cardinality(S))
      BY <2>1, <2>2 DEF Injection, IsInjective
    <2>4. pos \in Surjection(S, 1 .. Cardinality(S))
      BY <1>1, <2>3, FS_Injection
    <2> QED
      BY <2>4 DEF Surjection
  <1> QED
    BY <1>2, <1>3, <1>4, <1>5
=============================================================================
