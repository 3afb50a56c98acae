--------------------------- MODULE FiniteRecursion ---------------------------
(***************************************************************************)
(* Induction over the numbers up to a bound, the functions that recursion  *)
(* with a measure up to a bound defines, and the sums of natural numbers   *)
(* over finite sets: what the proofs about the other modules have in       *)
(* common.                                                                 *)
(***************************************************************************)
EXTENDS Integers, FiniteSets, Functions, TLAPS, FiniteSetTheorems

Least(I) == CHOOSE i \in I : \A j \in I : i <= j

\* The least of the numbers up to a bound exists: the intervals
\* up to such numbers, which are finite, are well-founded by inclusion.
LEMMA LeastOf ==
  ASSUME NEW n \in Nat, NEW I \in SUBSET (1..n), I # {}
  PROVE  Least(I) \in I /\ \A j \in I : Least(I) <= j
  <1> DEFINE T == {1..x : x \in I}
             R == StrictSubsetOrdering(1..n)
  <1>1. IsWellFoundedOn(R, FiniteSubsetsOf(1..n))
    BY FS_StrictSubsetOrderingWellFounded
  <1>2. T \subseteq FiniteSubsetsOf(1..n) /\ T # {}
    <2>1. \A x \in I : 1..x \subseteq 1..n /\ IsFiniteSet(1..x)
      BY FS_Interval
    <2> QED BY <2>1 DEF FiniteSubsetsOf
  <1> HIDE DEF R
  <1>3. PICK P \in T : \A Q \in T : ~(<<Q, P>> \in R)
    BY <1>1, <1>2, WFMin
  <1>4. PICK x \in I : P = 1..x
    BY <1>3
  <1>5. \A y \in I : x <= y
    <2> SUFFICES ASSUME NEW y \in I, y < x PROVE FALSE
      OBVIOUS
    <2>1. 1..y \in SUBSET (1..n) /\ 1..x \in SUBSET (1..n)
      OBVIOUS
    <2>2. 1..y \subseteq 1..x /\ 1..y # 1..x
      <3>1. x \in 1..x /\ x \notin 1..y
        OBVIOUS
      <3> QED BY <3>1
    <2>3. <<1..y, 1..x>> \in R
      BY <2>1, <2>2, FS_Interval DEF R, StrictSubsetOrdering
    <2> QED BY <2>3, <1>3, <1>4
  <1> QED BY <1>5 DEF Least


LEMMA Induction ==
  ASSUME NEW N \in Nat, NEW S \in SUBSET (0..N), 0 \in S,
         \A n \in 1..N : n - 1 \in S => n \in S
  PROVE  S = 0..N
  <1> DEFINE Bad == (1..N) \ S
  <1>1. CASE Bad # {}
    <2>1. PICK n : n = Least(Bad)
      OBVIOUS
    <2>2. n \in Bad /\ \A j \in Bad : n <= j
      BY <1>1, <2>1, LeastOf
    <2>3. n \in 1..N /\ n - 1 \in 0..N /\ n - 1 \notin Bad
      BY <2>2
    <2>4. n - 1 \in S
      BY <2>3
    <2> QED BY <2>2, <2>3, <2>4
  <1>2. CASE Bad = {}
    <2>1. ASSUME NEW n \in 0..N PROVE n \in S
      <3>1. n = 0 \/ n \in 1..N
        OBVIOUS
      <3> QED BY <1>2, <3>1
    <2> QED BY <2>1
  <1> QED BY <1>1, <1>2

Descends(R, V, size, Step) ==
  \A r \in R : \A f, g \in [R -> V] :
    (\A q \in R : size[q] < size[r] => f[q] = g[q])
      => Step[<<r, f>>] = Step[<<r, g>>]

HasSolution(R, V, Step) ==
  \E at \in [R -> V] : \A r \in R : at[r] = Step[<<r, at>>]

LEMMA Recursion ==
  ASSUME NEW R, NEW V, V # {}, NEW N \in Nat, NEW size \in [R -> 0..N],
         NEW Step \in [R \X [R -> V] -> V], Descends(R, V, size, Step)
  PROVE  HasSolution(R, V, Step)
  <1> DEFINE Defines(f, n) == \A r \in R : size[r] <= n => f[r] = Step[<<r, f>>]
             Next(f) == [r \in R |-> Step[<<r, f>>]]
             S == {n \in 0..N : \E f \in [R -> V] : Defines(f, n)}
  <1>1. \A f \in [R -> V] : Next(f) \in [R -> V]
    OBVIOUS
  <1>2. 0 \in S
    <2>1. PICK v \in V : TRUE
      OBVIOUS
    <2> DEFINE f == [r \in R |-> v]
    <2>2. f \in [R -> V]
      OBVIOUS
    <2>3. ASSUME NEW r \in R, size[r] <= 0 PROVE Step[<<r, Next(f)>>] = Step[<<r, f>>]
      <3>1. \A q \in R : ~(size[q] < size[r])
        BY <2>3
      <3> HIDE DEF f, Next
      <3> QED BY <1>1, <2>2, <3>1 DEF Descends
    <2>4. Defines(Next(f), 0)
      BY <2>3
    <2>5. \E g \in [R -> V] : Defines(g, 0)
      <3> HIDE DEF Defines, Next, f
      <3> QED BY <1>1, <2>2, <2>4
    <2> QED BY <2>5
  <1>3. ASSUME NEW n \in 1..N, n - 1 \in S PROVE n \in S
    <2>1. PICK f \in [R -> V] : Defines(f, n - 1)
      BY <1>3
    <2>2. ASSUME NEW r \in R, size[r] <= n PROVE Step[<<r, Next(f)>>] = Step[<<r, f>>]
      <3>1. ASSUME NEW q \in R, size[q] < size[r] PROVE f[q] = Next(f)[q]
        <4>1. size[q] <= n - 1
          BY <2>2, <3>1
        <4> QED BY <2>1, <4>1
      <3> HIDE DEF Next
      <3> QED BY <1>1, <2>2, <3>1 DEF Descends
    <2>3. Defines(Next(f), n)
      BY <2>2
    <2>4. \E g \in [R -> V] : Defines(g, n)
      <3> HIDE DEF Defines, Next
      <3> QED BY <1>1, <2>3
    <2> QED BY <2>4
  <1>4. N \in S
    <2> HIDE DEF S
    <2>1. S \subseteq 0..N
      BY DEF S
    <2> QED BY <1>2, <1>3, <2>1, Induction
  <1>5. PICK f \in [R -> V] : Defines(f, N)
    BY <1>4
  <1> QED BY <1>5 DEF HasSolution

-----------------------------------------------------------------------------
(***************************************************************************)
(* SumFunctionOnSet(f, S) takes the elements of S in some order.           *)
(***************************************************************************)
Some(s) == CHOOSE x \in s : TRUE

Adds(g, f, s) == IF s = {} THEN 0 ELSE f[Some(s)] + g[s \ {Some(s)}]

IsSummation(g, f, S) == g = [s \in SUBSET S |-> Adds(g, f, s)]

LEMMA SomeOf == ASSUME NEW s, s # {} PROVE Some(s) \in s
  BY DEF Some

LEMMA SumIsSummation ==
  ASSUME NEW f, NEW S
  PROVE  SumFunctionOnSet(f, S) = (CHOOSE g : IsSummation(g, f, S))[S]
  BY DEF SumFunctionOnSet, FoldFunctionOnSet, MapThenFoldSet, IsSummation, Adds, Some

LEMMA SummationExists ==
  ASSUME NEW S, IsFiniteSet(S), NEW f, \A x \in S : f[x] \in Nat
  PROVE  \E g \in [SUBSET S -> Nat] : IsSummation(g, f, S)
  <1> DEFINE R == SUBSET S
             N == Cardinality(S)
             size == [s \in R |-> Cardinality(s)]
             Step == [z \in R \X [R -> Nat] |-> Adds(z[2], f, z[1])]
  <1>1. N \in Nat /\ size \in [R -> 0..N]
    <2>1. ASSUME NEW s \in R PROVE Cardinality(s) \in Nat /\ Cardinality(s) <= N
      BY FS_Subset, FS_CardinalityType
    <2> QED BY <2>1, FS_CardinalityType
  <1>2. ASSUME NEW s \in R, s # {}
        PROVE  /\ Some(s) \in S /\ s \ {Some(s)} \in R
               /\ size[s \ {Some(s)}] < size[s]
    <2>1. Some(s) \in s
      BY <1>2, SomeOf
    <2>2. IsFiniteSet(s)
      BY FS_Subset
    <2>3. s \ {Some(s)} \in R
      OBVIOUS
    <2>4. Cardinality(s) \in Nat /\ Cardinality(s \ {Some(s)}) = Cardinality(s) - 1
      BY <2>1, <2>2, FS_RemoveElement, FS_CardinalityType
    <2> QED BY <2>1, <2>3, <2>4
  <1>3. Step \in [R \X [R -> Nat] -> Nat]
    <2>1. ASSUME NEW s \in R, NEW g \in [R -> Nat] PROVE Adds(g, f, s) \in Nat
      <3>1. CASE s = {}
        BY <3>1 DEF Adds
      <3>2. CASE s # {}
        <4>1. f[Some(s)] \in Nat /\ g[s \ {Some(s)}] \in Nat
          BY <3>2, <1>2
        <4> QED BY <3>2, <4>1 DEF Adds
      <3> QED BY <3>1, <3>2
    <2> QED BY <2>1
  <1>4. Descends(R, Nat, size, Step)
    <2> SUFFICES ASSUME NEW s \in R, NEW g \in [R -> Nat], NEW h \in [R -> Nat],
                        \A q \in R : size[q] < size[s] => g[q] = h[q]
                 PROVE  Step[<<s, g>>] = Step[<<s, h>>]
      <3> HIDE DEF Step, size, R
      <3> QED BY DEF Descends
    <2>1. Adds(g, f, s) = Adds(h, f, s)
      <3>1. CASE s = {}
        BY <3>1 DEF Adds
      <3>2. CASE s # {}
        <4>1. g[s \ {Some(s)}] = h[s \ {Some(s)}]
          <5> HIDE DEF size, R
          <5> QED BY <3>2, <1>2
        <4> QED BY <3>2, <4>1 DEF Adds
      <3> QED BY <3>1, <3>2
    <2> QED BY <2>1
  <1>5. PICK g \in [R -> Nat] : \A s \in R : g[s] = Step[<<s, g>>]
    <2>1. HasSolution(R, Nat, Step)
      <3> HIDE DEF Step, size, R, N
      <3> QED BY <1>1, <1>3, <1>4, Recursion
    <2> HIDE DEF Step, size, R
    <2> QED BY <2>1 DEF HasSolution
  <1>6. \A s \in R : g[s] = Adds(g, f, s)
    BY <1>5
  <1>7. g = [s \in R |-> Adds(g, f, s)]
    <2> HIDE DEF R
    <2> QED BY <1>5, <1>6
  <1> QED BY <1>7 DEF IsSummation

LEMMA SummationUnique ==
  ASSUME NEW S, IsFiniteSet(S), NEW T \in SUBSET S, NEW f, NEW g, NEW h,
         IsSummation(g, f, S), IsSummation(h, f, T)
  PROVE  g[T] = h[T]
  <1> DEFINE N == Cardinality(T)
             Same == {n \in 0..N : \A s \in SUBSET T : Cardinality(s) <= n => g[s] = h[s]}
  <1>1. IsFiniteSet(T) /\ N \in Nat
    BY FS_Subset, FS_CardinalityType
  <1>2. ASSUME NEW s \in SUBSET T
        PROVE  /\ g[s] = Adds(g, f, s) /\ h[s] = Adds(h, f, s)
               /\ IsFiniteSet(s) /\ Cardinality(s) \in Nat
    <2>1. s \in SUBSET S
      OBVIOUS
    <2> QED BY <1>1, <2>1, FS_Subset, FS_CardinalityType DEF IsSummation
  <1>3. 0 \in Same
    <2>1. ASSUME NEW s \in SUBSET T, Cardinality(s) <= 0 PROVE g[s] = h[s]
      <3>1. s = {}
        BY <2>1, <1>2, FS_EmptySet
      <3> QED BY <3>1, <1>2 DEF Adds
    <2> QED BY <2>1, <1>1
  <1>4. ASSUME NEW n \in 1..N, n - 1 \in Same PROVE n \in Same
    <2>1. ASSUME NEW s \in SUBSET T, Cardinality(s) <= n PROVE g[s] = h[s]
      <3>1. CASE s = {}
        BY <3>1, <1>2 DEF Adds
      <3>2. CASE s # {}
        <4> DEFINE t == s \ {Some(s)}
        <4>1. t \in SUBSET T /\ Cardinality(t) = Cardinality(s) - 1
          BY <3>2, <1>2, SomeOf, FS_RemoveElement
        <4>2. Cardinality(t) <= n - 1
          BY <2>1, <4>1, <1>2
        <4>3. g[t] = h[t]
          BY <1>4, <4>1, <4>2
        <4> QED BY <3>2, <4>3, <1>2 DEF Adds
      <3> QED BY <3>1, <3>2
    <2> QED BY <2>1
  <1>5. Same = 0..N
    <2> HIDE DEF N
    <2>1. Same \in SUBSET (0..N)
      OBVIOUS
    <2> HIDE DEF Same
    <2> QED BY <1>1, <1>3, <1>4, <2>1, Induction
  <1>6. N \in Same
    BY <1>1, <1>5
  <1> QED BY <1>6, <1>1

\* The sums over the subsets of a set are one function.
AreSums(g, f, S) ==
  /\ g \in [SUBSET S -> Nat]
  /\ \A T \in SUBSET S : g[T] = Adds(g, f, T)
  /\ \A T \in SUBSET S : SumFunctionOnSet(f, T) = g[T]

LEMMA Sums ==
  ASSUME NEW S, IsFiniteSet(S), NEW f, \A x \in S : f[x] \in Nat
  PROVE  \E g : AreSums(g, f, S)
  <1>1. PICK g \in [SUBSET S -> Nat] : IsSummation(g, f, S)
    BY SummationExists
  <1>2. \A T \in SUBSET S : g[T] = Adds(g, f, T)
    BY <1>1 DEF IsSummation
  <1>3. ASSUME NEW T \in SUBSET S PROVE SumFunctionOnSet(f, T) = g[T]
    <2>1. IsFiniteSet(T) /\ \A x \in T : f[x] \in Nat
      BY FS_Subset
    <2>2. \E h : IsSummation(h, f, T)
      BY <2>1, SummationExists
    <2>3. IsSummation((CHOOSE h : IsSummation(h, f, T)), f, T)
      BY <2>2
    <2>4. PICK h : h = (CHOOSE k : IsSummation(k, f, T))
      OBVIOUS
    <2>5. g[T] = h[T]
      BY <1>1, <2>3, <2>4, SummationUnique
    <2> QED BY <2>4, <2>5, SumIsSummation
  <1> QED BY <1>2, <1>3 DEF AreSums

\* Any element may be taken first.
AnyFirst(g, f, S) == \A T \in SUBSET S : \A x \in T : g[T] = f[x] + g[T \ {x}]

LEMMA SumAnyFirst ==
  ASSUME NEW S, IsFiniteSet(S), NEW f, \A x \in S : f[x] \in Nat,
         NEW g, AreSums(g, f, S)
  PROVE  AnyFirst(g, f, S)
  <1> DEFINE N == Cardinality(S)
             Good == {n \in 0..N : \A T \in SUBSET S : Cardinality(T) <= n =>
                                      \A x \in T : g[T] = f[x] + g[T \ {x}]}
  <1>1. N \in Nat
    BY FS_CardinalityType
  <1>2. ASSUME NEW T \in SUBSET S
        PROVE  /\ IsFiniteSet(T) /\ Cardinality(T) \in Nat /\ Cardinality(T) <= N
               /\ \A x \in T : T \ {x} \in SUBSET S /\ Cardinality(T \ {x}) = Cardinality(T) - 1
    BY FS_Subset, FS_CardinalityType, FS_RemoveElement
  <1>3. 0 \in Good
    <2>1. ASSUME NEW T \in SUBSET S, Cardinality(T) <= 0 PROVE T = {}
      BY <2>1, <1>2, FS_EmptySet
    <2> QED BY <2>1, <1>1
  <1>4. ASSUME NEW n \in 1..N, n - 1 \in Good PROVE n \in Good
    <2>1. ASSUME NEW T \in SUBSET S, Cardinality(T) <= n, NEW x \in T
          PROVE  g[T] = f[x] + g[T \ {x}]
      <3> DEFINE c == Some(T)
      <3>1. c \in T /\ g[T] = f[c] + g[T \ {c}]
        BY SomeOf DEF Adds, AreSums
      <3>2. CASE c = x
        BY <3>1, <3>2
      <3>3. CASE c # x
        <4>1. T \ {c} \in SUBSET S /\ T \ {x} \in SUBSET S /\ (T \ {c}) \ {x} \in SUBSET S
          OBVIOUS
        <4>2. Cardinality(T \ {c}) <= n - 1 /\ Cardinality(T \ {x}) <= n - 1
          BY <1>2, <2>1, <3>1
        <4>3. g[T \ {c}] = f[x] + g[(T \ {c}) \ {x}]
          BY <1>4, <3>3, <4>1, <4>2
        <4>4. g[T \ {x}] = f[c] + g[(T \ {x}) \ {c}]
          BY <1>4, <3>1, <3>3, <4>1, <4>2
        <4>5. (T \ {c}) \ {x} = (T \ {x}) \ {c}
          OBVIOUS
        <4>6. f[x] \in Nat /\ f[c] \in Nat /\ g[(T \ {c}) \ {x}] \in Nat
          BY <3>1, <4>1 DEF AreSums
        <4>7. g[T] = f[c] + g[T \ {c}]
          BY <3>1
        <4> HIDE DEF c
        <4> QED BY <4>3, <4>4, <4>5, <4>6, <4>7
      <3> QED BY <3>2, <3>3
    <2> QED BY <2>1
  <1>5. Good = 0..N
    <2>1. Good \in SUBSET (0..N)
      OBVIOUS
    <2> HIDE DEF N, Good
    <2> QED BY <1>1, <1>3, <1>4, <2>1, Induction
  <1>6. N \in Good
    <2> HIDE DEF N, Good
    <2> QED BY <1>1, <1>5
  <1> QED BY <1>6, <1>2 DEF AnyFirst

LEMMA SumOfNone == ASSUME NEW f PROVE SumFunctionOnSet(f, {}) = 0
  <1>1. IsFiniteSet({})
    BY FS_EmptySet
  <1>2. PICK g : AreSums(g, f, {})
    BY <1>1, Sums
  <1> QED BY <1>2 DEF AreSums, Adds

\* A sum of natural numbers over a finite set is one, is the same whichever
\* element is added first, and no less than that over a subset.
THEOREM SumOver ==
  ASSUME NEW S, IsFiniteSet(S), NEW f, \A x \in S : f[x] \in Nat
  PROVE  /\ SumFunctionOnSet(f, S) \in Nat
         /\ \A x \in S : SumFunctionOnSet(f, S) = f[x] + SumFunctionOnSet(f, S \ {x})
  <1>1. PICK g : AreSums(g, f, S)
    BY Sums
  <1>2. AnyFirst(g, f, S)
    BY <1>1, SumAnyFirst
  <1> QED BY <1>1, <1>2 DEF AreSums, AnyFirst

LEMMA SumOfPart ==
  ASSUME NEW S, IsFiniteSet(S), NEW f, \A x \in S : f[x] \in Nat, NEW T \in SUBSET S
  PROVE  SumFunctionOnSet(f, T) <= SumFunctionOnSet(f, S)
  <1> DEFINE N == Cardinality(S)
             Sum(s) == SumFunctionOnSet(f, s)
             Good == {n \in 0..N : \A s \in SUBSET S :
                         T \subseteq s /\ Cardinality(s \ T) <= n => Sum(T) <= Sum(s)}
  <1>1. N \in Nat
    BY FS_CardinalityType
  <1>2. ASSUME NEW s \in SUBSET S
        PROVE  /\ IsFiniteSet(s) /\ Sum(s) \in Nat
               /\ \A x \in s : f[x] \in Nat /\ Sum(s) = f[x] + Sum(s \ {x})
    <2>1. IsFiniteSet(s) /\ \A x \in s : f[x] \in Nat
      BY FS_Subset
    <2> QED BY <2>1, SumOver
  <1>3. 0 \in Good
    <2>1. ASSUME NEW s \in SUBSET S, T \subseteq s, Cardinality(s \ T) <= 0
          PROVE  Sum(T) <= Sum(s)
      <3>1. IsFiniteSet(s \ T)
        BY FS_Subset
      <3>2. s \ T = {}
        BY <2>1, <3>1, FS_EmptySet, FS_CardinalityType
      <3>3. s = T
        BY <2>1, <3>2
      <3> QED BY <3>3, <1>2
    <2> QED BY <2>1, <1>1
  <1>4. ASSUME NEW n \in 1..N, n - 1 \in Good PROVE n \in Good
    <2>1. ASSUME NEW s \in SUBSET S, T \subseteq s, Cardinality(s \ T) <= n
          PROVE  Sum(T) <= Sum(s)
      <3>1. CASE s = T
        BY <3>1, <1>2
      <3>2. CASE s # T
        <4>1. PICK x : x \in s \ T
          BY <2>1, <3>2
        <4>2. IsFiniteSet(s \ T) /\ (s \ {x}) \ T = (s \ T) \ {x}
          BY FS_Subset
        <4>3. Cardinality((s \ {x}) \ T) <= n - 1
          <5>1. Cardinality((s \ T) \ {x}) = Cardinality(s \ T) - 1
            BY <4>1, <4>2, FS_RemoveElement
          <5>2. Cardinality(s \ T) \in Nat
            BY <4>2, FS_CardinalityType
          <5> HIDE DEF N, Good
          <5> QED BY <2>1, <4>2, <5>1, <5>2
        <4>4. Sum(T) <= Sum(s \ {x})
          <5>1. s \ {x} \in SUBSET S /\ T \subseteq s \ {x}
            BY <2>1, <4>1
          <5> HIDE DEF Sum
          <5> QED BY <1>4, <4>3, <5>1
        <4>5. Sum(s) = f[x] + Sum(s \ {x}) /\ f[x] \in Nat
          BY <4>1, <1>2
        <4>6. Sum(T) \in Nat /\ Sum(s \ {x}) \in Nat
          BY <1>2
        <4> HIDE DEF Sum
        <4> QED BY <4>4, <4>5, <4>6
      <3> QED BY <3>1, <3>2
    <2> QED BY <2>1
  <1>5. Good = 0..N
    <2>1. Good \in SUBSET (0..N)
      OBVIOUS
    <2> HIDE DEF N, Good
    <2> QED BY <1>1, <1>3, <1>4, <2>1, Induction
  <1>6. N \in Good
    BY <1>1, <1>5
  <1>7. Cardinality(S \ T) <= N
    BY FS_Subset
  <1> QED BY <1>6, <1>7
=============================================================================
