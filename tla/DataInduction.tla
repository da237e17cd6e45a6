--------------------------- MODULE DataInduction ---------------------------
(***************************************************************************)
(* Induction over natural numbers and finite sets, and the existence of    *)
(* functions that are defined by recursion over a finite set, as folds     *)
(* are.  The induction theorems of the library are about an operator; here *)
(* a property is the set of the data that have it, and a step of a fold is *)
(* a function, so that a proof can cite these lemmas with data of its own. *)
(***************************************************************************)
EXTENDS Integers, FiniteSets, TLAPS, FiniteSetTheorems, WellFoundedInduction

\* Among some natural numbers one is the least.
LEMMA LeastNumber ==
  ASSUME NEW S \in SUBSET Nat, S # {}
  PROVE  \E n \in S : \A m \in S : n <= m
<1> DEFINE R == OpToRel(<, Nat)
<1>1. IsWellFoundedOn(R, Nat)
  BY NatLessThanWellFounded
<1>2. R = {p \in Nat \X Nat : p[1] < p[2]}
  BY DEF OpToRel
<1> HIDE DEF R
<1>3. PICK n \in S : \A m \in S : ~(<<m, n>> \in R)
  BY <1>1, WFMin
<1>4. \A m \in S : ~(m < n)
  <2> TAKE m \in S
  <2>1. n \in Nat /\ m \in Nat
    OBVIOUS
  <2>2. <<m, n>> \notin {p \in Nat \X Nat : p[1] < p[2]}
    BY <1>2, <1>3
  <2> QED
    BY <2>1, <2>2
<1> QED
  BY <1>4

\* What zero has, and with each number the next one, all numbers have.
LEMMA NumberInduction ==
  ASSUME NEW S, 0 \in S, \A n \in Nat : n \in S => n + 1 \in S
  PROVE  Nat \subseteq S
<1> SUFFICES ASSUME Nat \ S # {}
    PROVE  FALSE
  OBVIOUS
<1>1. PICK n \in Nat \ S : \A m \in Nat \ S : n <= m
  BY LeastNumber
<1>2. n # 0 /\ n - 1 \in Nat
  BY <1>1
<1>3. n - 1 \in S
  BY <1>1, <1>2
<1> QED
  BY <1>1, <1>2, <1>3

\* What the empty set has, and with each set that with one more element, all
\* finite sets have.
LEMMA SetInduction ==
  ASSUME NEW S, IsFiniteSet(S), NEW P, {} \in P,
         \A T \in SUBSET S : \A x \in S \ T : T \in P => T \cup {x} \in P
  PROVE  S \in P
<1> DEFINE Good == {n \in Nat : \A T \in SUBSET S : Cardinality(T) = n => T \in P}
<1>1. 0 \in Good
  BY FS_Subset, FS_EmptySet
<1>2. ASSUME NEW n \in Nat, n \in Good
      PROVE  n + 1 \in Good
  <2> SUFFICES ASSUME NEW T \in SUBSET S, Cardinality(T) = n + 1
      PROVE  T \in P
    OBVIOUS
  <2>1. IsFiniteSet(T)
    BY FS_Subset
  <2> HIDE DEF Good
  <2>2. T # {}
    <3>1. T = {} => Cardinality(T) = 0
      BY FS_EmptySet
    <3> QED
      BY <3>1
  <2> PICK x \in T : TRUE
    BY <2>2
  <2> DEFINE U == T \ {x}
  <2>3. Cardinality(U) = n
    <3>1. Cardinality(U) = Cardinality(T) - 1
      BY <2>1, FS_RemoveElement
    <3> QED
      BY <3>1
  <2>4. U \in SUBSET S /\ x \in S \ U /\ T = U \cup {x}
    OBVIOUS
  <2>5. U \in P
    BY <1>2, <2>3, <2>4 DEF Good
  <2> QED
    BY <2>4, <2>5
<1> HIDE DEF Good
<1>3. Nat \subseteq Good
  BY <1>1, <1>2, NumberInduction
<1>4. Cardinality(S) \in Nat
  BY FS_CardinalityType
<1> QED
  BY <1>3, <1>4 DEF Good

\* pick says which element of a set comes first.
Picks(S, pick) == \A T \in SUBSET S : T # {} => pick[T] \in T

\* What the empty set has, and each set from which the fold's first element was
\* taken away hands on, all subsets of a finite set have.
LEMMA PickInduction ==
  ASSUME NEW S, IsFiniteSet(S), NEW pick, Picks(S, pick), NEW P, {} \in P,
         \A T \in SUBSET S : T # {} /\ T \ {pick[T]} \in P => T \in P
  PROVE  SUBSET S \subseteq P
<1> DEFINE Good == {n \in Nat : \A T \in SUBSET S : Cardinality(T) = n => T \in P}
<1>1. 0 \in Good
  BY FS_Subset, FS_EmptySet
<1>2. ASSUME NEW n \in Nat, n \in Good
      PROVE  n + 1 \in Good
  <2> SUFFICES ASSUME NEW T \in SUBSET S, Cardinality(T) = n + 1
      PROVE  T \in P
    OBVIOUS
  <2>1. IsFiniteSet(T)
    BY FS_Subset
  <2> HIDE DEF Good
  <2>2. T # {}
    <3>1. T = {} => Cardinality(T) = 0
      BY FS_EmptySet
    <3> QED
      BY <3>1
  <2> DEFINE x == pick[T]
  <2>3. x \in T
    BY <2>2 DEF Picks
  <2> HIDE DEF x
  <2>4. Cardinality(T \ {x}) = Cardinality(T) - 1
    BY <2>1, <2>3, FS_RemoveElement
  <2>5. T \ {x} \in SUBSET S /\ Cardinality(T \ {x}) = n
    BY <2>4
  <2>6. T \ {x} \in P
    BY <1>2, <2>5 DEF Good
  <2> QED
    BY <2>2, <2>6 DEF x
<1> HIDE DEF Good
<1>3. Nat \subseteq Good
  BY <1>1, <1>2, NumberInduction
<1>4. \A T \in SUBSET S : Cardinality(T) \in Nat
  BY FS_Subset, FS_CardinalityType
<1> QED
  BY <1>3, <1>4 DEF Good

\* The results, in D, of a fold over each of the subsets of S.
FoldResults(S, D, base, pick, step) ==
  {f \in [SUBSET S -> D] : \A T \in SUBSET S :
     f[T] = IF T = {} THEN base ELSE step[<<pick[T], f[T \ {pick[T]}]>>]}

\* A fold over the subsets of a finite set has a result for each of them.
LEMMA SetRecursion ==
  ASSUME NEW S, IsFiniteSet(S), NEW D, NEW base \in D,
         NEW pick, Picks(S, pick), NEW step \in [S \X D -> D]
  PROVE  FoldResults(S, D, base, pick, step) # {}
<1> USE DEF Picks
<1> DEFINE Small(n) == {T \in SUBSET S : Cardinality(T) <= n}
           Fits(f, T) == f[T] = IF T = {} THEN base
                                ELSE step[<<pick[T], f[T \ {pick[T]}]>>]
           Good == {n \in Nat : \E f \in [Small(n) -> D] : \A T \in Small(n) : Fits(f, T)}
<1>1. 0 \in Good
  <2> DEFINE f == [T \in Small(0) |-> base]
  <2>1. \A T \in Small(0) : T = {}
    BY FS_Subset, FS_EmptySet, FS_CardinalityType
  <2>2. f \in [Small(0) -> D] /\ \A T \in Small(0) : Fits(f, T)
    BY <2>1
  <2> QED
    BY <2>2
<1>2. ASSUME NEW n \in Nat, n \in Good
      PROVE  n + 1 \in Good
  <2>1. PICK f \in [Small(n) -> D] : \A T \in Small(n) : Fits(f, T)
    BY <1>2
  <2> DEFINE g == [T \in Small(n + 1) |->
                     IF T = {} THEN base ELSE step[<<pick[T], f[T \ {pick[T]}]>>]]
  <2>2. \A T \in Small(n + 1) : T # {} => pick[T] \in S /\ T \ {pick[T]} \in Small(n)
    <3> SUFFICES ASSUME NEW T \in Small(n + 1), T # {}
        PROVE  pick[T] \in S /\ T \ {pick[T]} \in Small(n)
      OBVIOUS
    <3>1. IsFiniteSet(T) /\ Cardinality(T) \in Nat /\ pick[T] \in T
      BY FS_Subset, FS_CardinalityType
    <3>2. Cardinality(T \ {pick[T]}) = Cardinality(T) - 1
      BY <3>1, FS_RemoveElement
    <3> QED
      BY <3>1, <3>2
  <2>3. \A T \in Small(n) : T \in Small(n + 1)
    <3> SUFFICES ASSUME NEW T \in Small(n)
        PROVE  T \in Small(n + 1)
      OBVIOUS
    <3>1. Cardinality(T) \in Nat
      BY FS_Subset, FS_CardinalityType
    <3> QED
      BY <3>1
  <2>4. \A T \in Small(n) : g[T] = f[T]
    BY <2>1, <2>3
  <2>5. g \in [Small(n + 1) -> D]
    <3> SUFFICES ASSUME NEW T \in Small(n + 1)
        PROVE  (IF T = {} THEN base ELSE step[<<pick[T], f[T \ {pick[T]}]>>]) \in D
      OBVIOUS
    <3> HIDE DEF Small
    <3> QED
      BY <2>2
  <2>6. \A T \in Small(n + 1) : Fits(g, T)
    <3> SUFFICES ASSUME NEW T \in Small(n + 1)
        PROVE  Fits(g, T)
      OBVIOUS
    <3>1. T # {} => g[T \ {pick[T]}] = f[T \ {pick[T]}]
      BY <2>2, <2>4
    <3> QED
      BY <3>1
  <2> HIDE DEF g, Fits, Small
  <2>7. \E h \in [Small(n + 1) -> D] : \A T \in Small(n + 1) : Fits(h, T)
    BY <2>5, <2>6
  <2> QED
    BY <2>7
<1> HIDE DEF Good
<1>3. Cardinality(S) \in Nat /\ Nat \subseteq Good
  BY <1>1, <1>2, NumberInduction, FS_CardinalityType
<1>4. Small(Cardinality(S)) = SUBSET S
  BY FS_Subset
<1> HIDE DEF Small, Fits
<1>5. PICK f \in [Small(Cardinality(S)) -> D] : \A T \in Small(Cardinality(S)) : Fits(f, T)
  BY <1>3 DEF Good
<1> QED
  BY <1>4, <1>5 DEF Fits, FoldResults

\* The results, in D, of a recursion on the numbers up to N.
RecursionResults(N, D, base, step) ==
  {f \in [0 .. N -> D] :
     f[0] = base /\ \A n \in 1 .. N : f[n] = step[<<n, f[n - 1]>>]}

\* A recursion on numbers has a result for each of them.
LEMMA NumberRecursion ==
  ASSUME NEW N \in Nat, NEW D, NEW base \in D, NEW step \in [Nat \X D -> D]
  PROVE  RecursionResults(N, D, base, step) # {}
<1> DEFINE Good == {n \in Nat : RecursionResults(n, D, base, step) # {}}
<1>1. 0 \in Good
  <2> DEFINE f == [n \in 0 .. 0 |-> base]
  <2>1. f \in RecursionResults(0, D, base, step)
    BY DEF RecursionResults
  <2> QED
    BY <2>1
<1>2. ASSUME NEW n \in Nat, n \in Good
      PROVE  n + 1 \in Good
  <2>1. PICK f \in RecursionResults(n, D, base, step) : TRUE
    BY <1>2
  <2>2. /\ f \in [0 .. n -> D] /\ f[0] = base
        /\ \A m \in 1 .. n : f[m] = step[<<m, f[m - 1]>>]
    BY <2>1 DEF RecursionResults
  <2> DEFINE last == step[<<n + 1, f[n]>>]
             g == [m \in 0 .. n + 1 |-> IF m = n + 1 THEN last ELSE f[m]]
  <2>3. last \in D
    BY <2>2
  <2> HIDE DEF last
  <2>4. g \in [0 .. n + 1 -> D] /\ g[n + 1] = last
    BY <2>2, <2>3
  <2>5. \A m \in 0 .. n : g[m] = f[m]
    OBVIOUS
  <2> HIDE DEF g
  <2>6. g[0] = base
    BY <2>2, <2>5
  <2>7. \A m \in 1 .. n + 1 : g[m] = step[<<m, g[m - 1]>>]
    <3> SUFFICES ASSUME NEW m \in 1 .. n + 1
        PROVE  g[m] = step[<<m, g[m - 1]>>]
      OBVIOUS
    <3>1. m - 1 \in 0 .. n /\ g[m - 1] = f[m - 1]
      BY <2>5
    <3>2. CASE m = n + 1
      BY <2>4, <3>1, <3>2 DEF last
    <3>3. CASE m # n + 1
      BY <2>2, <2>5, <3>1, <3>3
    <3> QED
      BY <3>2, <3>3
  <2>8. g \in RecursionResults(n + 1, D, base, step)
    BY <2>4, <2>6, <2>7 DEF RecursionResults
  <2> QED
    BY <2>8
<1> HIDE DEF Good
<1>3. N \in Good
  BY <1>1, <1>2, NumberInduction
<1> QED
  BY <1>3 DEF Good

\* The functions that sum the weights of each subset of S, whatever element they
\* take first.
SumsOf(S, w) ==
  {f \in [SUBSET S -> Nat] :
     /\ f[{}] = 0
     /\ \A T \in SUBSET S : T # {} => \E x \in T : f[T] = w[x] + f[T \ {x}]}

\* The order does not matter: every element adds its weight.
LEMMA SumOrder ==
  ASSUME NEW S, IsFiniteSet(S), NEW w \in [S -> Nat], NEW f \in SumsOf(S, w)
  PROVE  \A T \in SUBSET S : \A x \in T : f[T] = f[T \ {x}] + w[x]
<1>1. /\ f \in [SUBSET S -> Nat]
      /\ \A T \in SUBSET S : T # {} => \E x \in T : f[T] = w[x] + f[T \ {x}]
  BY DEF SumsOf
<1> DEFINE Adds(T) == \A x \in T : f[T] = f[T \ {x}] + w[x]
           Good == {n \in Nat : \A T \in SUBSET S : Cardinality(T) = n => Adds(T)}
<1>2. 0 \in Good
  <2>1. \A T \in SUBSET S : Cardinality(T) = 0 => T = {}
    BY FS_Subset, FS_EmptySet
  <2> QED
    BY <2>1
<1>3. ASSUME NEW n \in Nat, n \in Good
      PROVE  n + 1 \in Good
  <2> SUFFICES ASSUME NEW T \in SUBSET S, Cardinality(T) = n + 1, NEW x \in T
      PROVE  f[T] = f[T \ {x}] + w[x]
    OBVIOUS
  <2>1. IsFiniteSet(T)
    BY FS_Subset
  <2>2. \A z \in T : T \ {z} \in SUBSET S /\ Cardinality(T \ {z}) = n
    <3> SUFFICES ASSUME NEW z \in T
        PROVE  Cardinality(T \ {z}) = n
      OBVIOUS
    <3>1. Cardinality(T \ {z}) = Cardinality(T) - 1
      BY <2>1, FS_RemoveElement
    <3> QED
      BY <3>1
  <2>3. PICK y \in T : f[T] = w[y] + f[T \ {y}]
    BY <1>1
  <2>4. CASE y = x
    BY <1>1, <2>2, <2>3, <2>4
  <2>5. CASE y # x
    <3> DEFINE U == (T \ {x}) \ {y}
    <3>1. Adds(T \ {x}) /\ Adds(T \ {y})
      BY <1>3, <2>2
    <3>2. f[T \ {x}] = f[U] + w[y]
      BY <2>5, <3>1
    <3>3. U = (T \ {y}) \ {x}
      OBVIOUS
    <3>4. f[T \ {y}] = f[U] + w[x]
      BY <2>5, <3>1, <3>3
    <3>5. f[U] \in Nat /\ w[x] \in Nat /\ w[y] \in Nat
      BY <1>1
    <3> HIDE DEF U
    <3> QED
      BY <2>3, <3>2, <3>4, <3>5
  <2> QED
    BY <2>4, <2>5
<1> HIDE DEF Good
<1>4. Nat \subseteq Good
  BY <1>2, <1>3, NumberInduction
<1> SUFFICES ASSUME NEW T \in SUBSET S
    PROVE  Adds(T)
  OBVIOUS
<1>5. Cardinality(T) \in Nat
  BY FS_Subset, FS_CardinalityType
<1> QED
  BY <1>4, <1>5 DEF Good

\* The sum of a set does not depend on the larger set it is taken in.
LEMMA SumsAgree ==
  ASSUME NEW S, IsFiniteSet(S), NEW w \in [S -> Nat], NEW f \in SumsOf(S, w),
         NEW R \in SUBSET S, NEW v \in [R -> Nat], NEW g \in SumsOf(R, v),
         \A x \in R : v[x] = w[x]
  PROVE  g[R] = f[R]
<1> DEFINE P == {T \in SUBSET R : g[T] = f[T]}
<1>1. IsFiniteSet(R)
  BY FS_Subset
<1>2. {} \in P
  BY DEF SumsOf
<1>3. ASSUME NEW T \in SUBSET R, NEW x \in R \ T, T \in P
      PROVE  T \cup {x} \in P
  <2> DEFINE U == T \cup {x}
  <2>1. x \in U /\ U \in SUBSET R /\ U \in SUBSET S /\ U \ {x} = T
    OBVIOUS
  <2> HIDE DEF U
  <2>2. f[U] = f[T] + w[x]
    BY <2>1, SumOrder
  <2>3. g[U] = g[T] + v[x]
    BY <1>1, <2>1, SumOrder
  <2>4. g[U] = f[U]
    BY <1>3, <2>2, <2>3
  <2> QED
    BY <2>1, <2>4 DEF U
<1> HIDE DEF P
<1>4. R \in P
  BY <1>1, <1>2, <1>3, SetInduction
<1> QED
  BY <1>4 DEF P
=============================================================================
