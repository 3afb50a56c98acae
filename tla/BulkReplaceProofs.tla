-------------------------- MODULE BulkReplaceProofs --------------------------
(***************************************************************************)
(* Proofs about BulkReplace, for every choice of arrays and of indices:    *)
(* what the one move of bulkReplace() leaves is what the loop leaves,      *)
(* repetitions apart.                                                      *)
(***************************************************************************)
EXTENDS BulkReplace, FiniteRecursion, SequenceTheorems

\* The loop, of the elements A of the array it writes and B of the one it reads
Count(start, stop) == IF stop >= start THEN stop - start + 1 ELSE 0

Going(A) == [array |-> A, ok |-> TRUE]

Turn(so, to, from, dest, src, B) ==
  LET source == IF src = dest THEN so.array ELSE B IN
    IF so.ok /\ to \in DOMAIN so.array /\ from \in DOMAIN source
    THEN [so EXCEPT !.array[to] = source[from]]
    ELSE [so EXCEPT !.ok = FALSE]

Turns(g, count, A, B, dest, src, start, repStart) ==
  [n \in 0..count |->
     IF n = 0 THEN Going(A)
     ELSE Turn(g[n - 1], start + n - 1, repStart + n - 1, dest, src, B)]

IsLoop(g, count, A, B, dest, src, start, repStart) ==
  g = Turns(g, count, A, B, dest, src, start, repStart)

Loop(count, A, B, dest, src, start, repStart) ==
  CHOOSE g : IsLoop(g, count, A, B, dest, src, start, repStart)

LEMMA LoopedIs ==
  ASSUME NEW dest, NEW start, NEW stop, NEW src, NEW repStart
  PROVE  Looped(dest, start, stop, src, repStart)
           = Loop(Count(start, stop), data[dest], data[src], dest, src, start,
                  repStart)[Count(start, stop)].array
  BY Zenon DEF Looped, Loop, IsLoop, Turns, Turn, Going, Count

\* The record of a turn: the array keeps its length and holds numbers.
Turned(m) == [array : [1..m -> Int], ok : BOOLEAN]

LEMMA TurnType ==
  ASSUME NEW m \in Nat, NEW so \in Turned(m), NEW to, NEW from, NEW dest, NEW src,
         NEW k \in Nat, NEW B \in [1..k -> Int]
  PROVE  Turn(so, to, from, dest, src, B) \in Turned(m)
  BY DEF Turn, Turned

LEMMA GoingType ==
  ASSUME NEW m \in Nat, NEW A \in [1..m -> Int]
  PROVE  Going(A) \in Turned(m)
  BY DEF Going, Turned

LEMMA PutField ==
  ASSUME NEW a, NEW b, NEW t \in BOOLEAN
  PROVE  [[array |-> a, ok |-> t] EXCEPT !.array = b] = [array |-> b, ok |-> t]
  OBVIOUS

LEMMA PutArray ==
  ASSUME NEW a, NEW b
  PROVE  /\ [Going(a) EXCEPT !.array = b] = Going(b)
         /\ Going(a).array = a
  <1>1. [Going(a) EXCEPT !.array = b] = Going(b)
    BY PutField DEF Going
  <1>2. Going(a).array = a
    BY DEF Going
  <1> QED BY <1>1, <1>2

Reads(array, a, dest, src, B) == array = IF src = dest THEN a ELSE B

LEMMA GoesOn ==
  ASSUME NEW a, NEW to \in DOMAIN a, NEW from, NEW dest, NEW src, NEW B,
         NEW array, Reads(array, a, dest, src, B), from \in DOMAIN array
  PROVE  Turn(Going(a), to, from, dest, src, B) = Going([a EXCEPT ![to] = array[from]])
  <1> DEFINE after == [a EXCEPT ![to] = array[from]]
  <1>1. Going(a).ok = TRUE /\ Going(a).array = a
    BY DEF Going
  <1>2. [Going(a) EXCEPT !.array = after] = Going(after)
    <2> HIDE DEF after
    <2> QED BY PutArray
  <1>3. [Going(a) EXCEPT !.array[to] = array[from]]
          = [Going(a) EXCEPT !.array = [Going(a).array EXCEPT ![to] = array[from]]]
    OBVIOUS
  <1>4. Turn(Going(a), to, from, dest, src, B) = [Going(a) EXCEPT !.array[to] = array[from]]
    BY <1>1, Zenon DEF Turn, Reads
  <1> QED BY <1>1, <1>2, <1>3, <1>4, Zenon

LEMMA StopsAt ==
  ASSUME NEW a, NEW to, to \notin DOMAIN a, NEW from, NEW dest, NEW src, NEW B
  PROVE  Turn(Going(a), to, from, dest, src, B).array = a
  BY DEF Turn, Going

Arguments(c, m, A, k, B, start, repStart) ==
  /\ c \in Nat /\ m \in Nat /\ k \in Nat
  /\ A \in [1..m -> Int] /\ B \in [1..k -> Int]
  /\ start \in Int /\ repStart \in Int

LEMMA LoopDefined ==
  ASSUME NEW c, NEW m, NEW A, NEW k, NEW B, NEW dest, NEW src, NEW start, NEW repStart,
         Arguments(c, m, A, k, B, start, repStart)
  PROVE  \E g : IsLoop(g, c, A, B, dest, src, start, repStart)
  <1> DEFINE R == 0..c
             V == Turned(m)
             size == [n \in R |-> n]
             Next1(n, g) == IF n = 0 THEN Going(A)
                            ELSE Turn(g[n - 1], start + n - 1, repStart + n - 1, dest, src, B)
             Step == [z \in R \X [R -> V] |-> Next1(z[1], z[2])]
  <1>0. /\ c \in Nat /\ m \in Nat /\ k \in Nat
        /\ A \in [1..m -> Int] /\ B \in [1..k -> Int]
    BY DEF Arguments
  <1>1. Going(A) \in V
    BY <1>0, GoingType
  <1>2. size \in [R -> 0..c]
    BY <1>0
  <1>3. ASSUME NEW n \in R, NEW g \in [R -> V] PROVE Next1(n, g) \in V
    <2>1. CASE n = 0
      BY <1>1, <2>1
    <2>2. CASE n # 0
      <3>1. n - 1 \in R /\ g[n - 1] \in V
        BY <1>0, <2>2
      <3> HIDE DEF V
      <3>2. Turn(g[n - 1], start + n - 1, repStart + n - 1, dest, src, B) \in V
        BY <1>0, <3>1, TurnType DEF V
      <3> QED BY <2>2, <3>2
    <2> QED BY <2>1, <2>2
  <1>4. Step \in [R \X [R -> V] -> V]
    <2> HIDE DEF Next1, V, R
    <2> QED BY <1>0, <1>3
  <1>5. Descends(R, V, size, Step)
    <2> SUFFICES ASSUME NEW n \in R, NEW f \in [R -> V], NEW g \in [R -> V],
                        \A q \in R : size[q] < size[n] => f[q] = g[q]
                 PROVE  Step[<<n, f>>] = Step[<<n, g>>]
      BY DEF Descends
    <2>1. CASE n = 0
      BY <2>1
    <2>2. CASE n # 0
      <3>1. n - 1 \in R /\ size[n - 1] < size[n]
        BY <1>0, <2>2
      <3>2. f[n - 1] = g[n - 1]
        BY <3>1
      <3> QED BY <2>2, <3>2
    <2> QED BY <2>1, <2>2
  <1>6. HasSolution(R, V, Step)
    <2> HIDE DEF R, V, Step, size
    <2>1. V # {}
      BY <1>1
    <2>2. size \in [R -> 0..c]
      BY <1>2
    <2> QED BY <1>0, <1>4, <1>5, <2>1, <2>2, Recursion
  <1>7. PICK g \in [R -> V] : \A n \in R : g[n] = Step[<<n, g>>]
    BY <1>6 DEF HasSolution
  <1>8. \A n \in R : g[n] = Next1(n, g)
    <2> HIDE DEF Next1, V
    <2> QED BY <1>7
  <1>9. g = [n \in R |-> Next1(n, g)]
    <2> HIDE DEF Next1, V
    <2> QED BY <1>8
  <1>10. IsLoop(g, c, A, B, dest, src, start, repStart)
    BY <1>9 DEF IsLoop, Turns
  <1> QED BY <1>10

LEMMA LoopIs ==
  ASSUME NEW c, NEW m, NEW A, NEW k, NEW B, NEW dest, NEW src, NEW start, NEW repStart,
         Arguments(c, m, A, k, B, start, repStart),
         NEW g, g = Loop(c, A, B, dest, src, start, repStart)
  PROVE  /\ g = Turns(g, c, A, B, dest, src, start, repStart)
         /\ g[0] = Going(A)
         /\ \A n \in 1..c : g[n] = Turn(g[n - 1], start + n - 1, repStart + n - 1, dest, src, B)
  <1>1. g = Turns(g, c, A, B, dest, src, start, repStart)
    <2>1. IsLoop(g, c, A, B, dest, src, start, repStart)
      BY LoopDefined DEF Loop
    <2> QED BY <2>1 DEF IsLoop
  <1> DEFINE T(n) == Turn(g[n - 1], start + n - 1, repStart + n - 1, dest, src, B)
  <1>2. g = [n \in 0..c |-> IF n = 0 THEN Going(A) ELSE T(n)]
    BY <1>1 DEF Turns
  <1>0. c \in Nat
    BY DEF Arguments
  <1>3. \A n \in 0..c : g[n] = IF n = 0 THEN Going(A) ELSE T(n)
    <2> HIDE DEF T
    <2> QED BY <1>2
  <1>4. g[0] = Going(A)
    <2> HIDE DEF T
    <2> QED BY <1>0, <1>3
  <1>5. \A n \in 1..c : g[n] = T(n)
    <2> HIDE DEF T
    <2>1. \A n \in 1..c : n \in 0..c /\ n # 0
      OBVIOUS
    <2> QED BY <1>3, <2>1
  <1> QED BY <1>1, <1>4, <1>5

\* Whatever the indices, the loop leaves an array of the same length.
LEMMA LoopType ==
  ASSUME NEW c, NEW m, NEW A, NEW k, NEW B, NEW dest, NEW src, NEW start, NEW repStart,
         Arguments(c, m, A, k, B, start, repStart)
  PROVE  Loop(c, A, B, dest, src, start, repStart)[c] \in Turned(m)
  <1>0. /\ c \in Nat /\ m \in Nat /\ k \in Nat
        /\ A \in [1..m -> Int] /\ B \in [1..k -> Int]
        /\ start \in Int /\ repStart \in Int
    BY DEF Arguments
  <1>1. PICK g : g = Loop(c, A, B, dest, src, start, repStart)
    OBVIOUS
  <1>2. /\ g[0] = Going(A)
        /\ \A n \in 1..c : g[n] = Turn(g[n - 1], start + n - 1, repStart + n - 1, dest, src, B)
    BY <1>1, LoopIs
  <1> USE <1>0
  <1> DEFINE S == {n \in 0..c : g[n] \in Turned(m)}
  <1>3. 0 \in S
    <2>1. g[0] = Going(A)
      BY <1>2
    <2> QED BY <2>1, GoingType
  <1>4. ASSUME NEW n \in 1..c, n - 1 \in S PROVE n \in S
    <2>1. g[n] = Turn(g[n - 1], start + n - 1, repStart + n - 1, dest, src, B)
      BY <1>2
    <2> QED BY <1>4, <2>1, TurnType
  <1>5. S = 0..c
    <2> HIDE DEF S
    <2>1. S \subseteq 0..c
      BY DEF S
    <2> QED BY <1>3, <1>4, <2>1, Induction
  <1> QED BY <1>1, <1>5

\* What n turns have moved
Shifted(A, B, start, repStart, n) ==
  [i \in DOMAIN A |-> IF i \in start..(start + n - 1) THEN B[repStart + i - start] ELSE A[i]]

\* Not towards the end of the array that is read, no turn reads what an earlier
\* one wrote; the last turn may be one too many.
LEMMA LoopMoves ==
  ASSUME NEW c, NEW m, NEW A, NEW k, NEW B, NEW dest, NEW src, NEW start, NEW repStart,
         Arguments(c, m, A, k, B, start, repStart),
         start >= 1, repStart >= 1, start + c - 1 <= m + 1, repStart + c - 1 <= k,
         src = dest => A = B /\ start <= repStart
  PROVE  Loop(c, A, B, dest, src, start, repStart)[c].array = Shifted(A, B, start, repStart, c)
  <1>0. /\ c \in Nat /\ m \in Nat /\ k \in Nat
        /\ A \in [1..m -> Int] /\ B \in [1..k -> Int]
        /\ start \in Int /\ repStart \in Int
    BY DEF Arguments
  <1>1. PICK g : g = Loop(c, A, B, dest, src, start, repStart)
    OBVIOUS
  <1>2. /\ g[0] = Going(A)
        /\ \A n \in 1..c : g[n] = Turn(g[n - 1], start + n - 1, repStart + n - 1, dest, src, B)
    BY <1>1, LoopIs
  <1> USE <1>0
  <1> DEFINE S == {n \in 0..c : start + n - 1 <= m =>
                                  g[n] = Going(Shifted(A, B, start, repStart, n))}
  <1>3. 0 \in S
    <2>1. g[0] = Going(A)
      BY <1>2
    <2>2. Shifted(A, B, start, repStart, 0) = A
      BY DEF Shifted
    <2> QED BY <2>1, <2>2
  <1>4. ASSUME NEW n \in 1..c, n - 1 \in S PROVE n \in S
    <2> SUFFICES ASSUME start + n - 1 <= m
                 PROVE  g[n] = Going(Shifted(A, B, start, repStart, n))
      OBVIOUS
    <2>1. g[n] = Turn(g[n - 1], start + n - 1, repStart + n - 1, dest, src, B)
      BY <1>2
    <2>2. PICK a : a = Shifted(A, B, start, repStart, n - 1)
      OBVIOUS
    <2>3. /\ a \in [1..m -> Int]
          /\ \A i \in 1..m : a[i] = IF i \in start..(start + n - 2)
                                    THEN B[repStart + i - start] ELSE A[i]
      BY <2>2 DEF Shifted
    <2>4. g[n - 1] = Going(a)
      BY <1>4, <2>2
    <2>5. start + n - 1 \in 1..m /\ repStart + n - 1 \in 1..k
      OBVIOUS
    <2>6. src = dest => /\ repStart + n - 1 \in 1..m
                  /\ a[repStart + n - 1] = B[repStart + n - 1]
      BY <2>3, <2>5
    <2>7. g[n] = Going([a EXCEPT ![start + n - 1] = B[repStart + n - 1]])
      <3>1. PICK to, from : to = start + n - 1 /\ from = repStart + n - 1
        OBVIOUS
      <3>2. PICK array : array = IF src = dest THEN a ELSE B
        OBVIOUS
      <3>5. to \in DOMAIN a /\ from \in DOMAIN array /\ array[from] = B[from]
        BY <2>3, <2>5, <2>6, <3>1, <3>2
      <3>3. g[n] = Turn(Going(a), to, from, dest, src, B)
        BY <2>1, <2>4, <3>1
      <3>4. g[n] = Going([a EXCEPT ![to] = array[from]])
        <4>0. Reads(array, a, dest, src, B)
          BY <3>2 DEF Reads
        <4>1. to \in DOMAIN a /\ from \in DOMAIN array
          BY <3>5
        <4>2. Turn(Going(a), to, from, dest, src, B) = Going([a EXCEPT ![to] = array[from]])
          BY <4>0, <4>1, GoesOn
        <4> QED BY <3>3, <4>2
      <3> QED BY <3>1, <3>4, <3>5
    <2>8. [a EXCEPT ![start + n - 1] = B[repStart + n - 1]] = Shifted(A, B, start, repStart, n)
      <3>1. PICK to : to = start + n - 1
        OBVIOUS
      <3>2. PICK e : e = [a EXCEPT ![to] = B[repStart + n - 1]]
        OBVIOUS
      <3>3. e \in [1..m -> Int]
        BY <2>3, <2>5, <3>1, <3>2
      <3>4. PICK s : s = Shifted(A, B, start, repStart, n)
        OBVIOUS
      <3>5. /\ DOMAIN s = 1..m /\ s = [i \in 1..m |-> s[i]]
            /\ \A i \in 1..m : s[i] = IF i \in start..to THEN B[repStart + i - start] ELSE A[i]
        BY <3>1, <3>4 DEF Shifted
      <3>6. ASSUME NEW i \in 1..m PROVE e[i] = s[i]
        <4>1. CASE i = to
          <5>1. repStart + i - start = repStart + n - 1 /\ i \in start..to
            BY <3>1, <4>1
          <5> QED BY <2>3, <2>5, <3>2, <3>5, <4>1, <5>1
        <4>2. CASE i # to
          <5>1. e[i] = a[i]
            BY <2>3, <3>2, <4>2
          <5>2. i \in start..to <=> i \in start..(start + n - 2)
            BY <3>1, <4>2
          <5> QED BY <2>3, <3>5, <5>1, <5>2
        <4> QED BY <4>1, <4>2
      <3> QED BY <3>1, <3>2, <3>3, <3>4, <3>5, <3>6
    <2>9. g[n] = Going(Shifted(A, B, start, repStart, n))
      BY <2>7, <2>8, Zenon
    <2> QED BY <2>9
  <1>5. S = 0..c
    <2> HIDE DEF S
    <2>1. S \subseteq 0..c
      BY DEF S
    <2> QED BY <1>3, <1>4, <2>1, Induction
  <1>6. CASE start + c - 1 <= m
    <2>1. c \in S
      <3> HIDE DEF S
      <3> QED BY <1>5
    <2>2. g[c] = Going(Shifted(A, B, start, repStart, c))
      BY <1>6, <2>1
    <2> QED BY <1>1, <2>2, PutArray
  <1>7. CASE start + c - 1 = m + 1 /\ c > 0
    <2>1. c - 1 \in S /\ start + (c - 1) - 1 <= m /\ c \in 1..c
      <3>1. c - 1 \in 0..c /\ start + (c - 1) - 1 <= m /\ c \in 1..c
        BY <1>7
      <3> HIDE DEF S
      <3> QED BY <1>5, <3>1
    <2>2. PICK a : a = Shifted(A, B, start, repStart, c - 1)
      OBVIOUS
    <2>3. g[c - 1] = Going(a)
      BY <2>1, <2>2
    <2>4. a = Shifted(A, B, start, repStart, c)
      BY <1>7, <2>2 DEF Shifted
    <2>5. g[c] = Turn(Going(a), start + c - 1, repStart + c - 1, dest, src, B)
      BY <1>2, <2>1, <2>3
    <2>6. start + c - 1 \notin DOMAIN a
      BY <1>7, <2>2 DEF Shifted
    <2>7. g[c].array = a
      BY <2>5, <2>6, StopsAt
    <2> QED BY <1>1, <2>4, <2>7
  <1>8. CASE c = 0
    <2>1. g[0] = Going(Shifted(A, B, start, repStart, 0))
      <3>1. Shifted(A, B, start, repStart, 0) = A
        BY DEF Shifted
      <3> QED BY <1>2, <3>1
    <2> QED BY <1>1, <1>8, <2>1, PutArray
  <1> QED BY <1>6, <1>7, <1>8

\* What n turns have repeated of the array itself
Repeated(a, A, start, repStart, n) ==
  \A i \in DOMAIN A :
    a[i] = IF i \in start..(start + n - 1) THEN a[repStart + i - start] ELSE A[i]

\* Towards the end of the array itself, each turn reads what an earlier one left.
LEMMA LoopRepeats ==
  ASSUME NEW c, NEW m, NEW A, NEW dest, NEW start, NEW repStart,
         Arguments(c, m, A, m, A, start, repStart),
         start >= 1, repStart >= 1, start + c - 1 <= m + 1, repStart < start
  PROVE  Repeated(Loop(c, A, A, dest, dest, start, repStart)[c].array, A, start, repStart, c)
  <1>0. /\ c \in Nat /\ m \in Nat /\ A \in [1..m -> Int]
        /\ start \in Int /\ repStart \in Int
    BY DEF Arguments
  <1>1. PICK g : g = Loop(c, A, A, dest, dest, start, repStart)
    OBVIOUS
  <1>2. /\ g[0] = Going(A)
        /\ \A n \in 1..c : g[n] = Turn(g[n - 1], start + n - 1, repStart + n - 1, dest, dest, A)
    BY <1>1, LoopIs
  <1> USE <1>0
  <1> DEFINE Good(n) == \E a \in [1..m -> Int] :
                          g[n] = Going(a) /\ Repeated(a, A, start, repStart, n)
             S == {n \in 0..c : start + n - 1 <= m => Good(n)}
  <1>3. 0 \in S
    <2>1. Repeated(A, A, start, repStart, 0)
      BY DEF Repeated
    <2> QED BY <1>2, <2>1
  <1>4. ASSUME NEW n \in 1..c, n - 1 \in S PROVE n \in S
    <2> SUFFICES ASSUME start + n - 1 <= m PROVE Good(n)
      OBVIOUS
    <2>1. PICK a \in [1..m -> Int] :
            g[n - 1] = Going(a) /\ Repeated(a, A, start, repStart, n - 1)
      BY <1>4
    <2>2. PICK to, from : to = start + n - 1 /\ from = repStart + n - 1
      OBVIOUS
    <2>3. to \in 1..m /\ from \in 1..m /\ from < to
      BY <2>2
    <2>4. PICK e : e = [a EXCEPT ![to] = a[from]]
      OBVIOUS
    <2>5. /\ e \in [1..m -> Int] /\ e[to] = a[from]
          /\ \A i \in 1..m : i # to => e[i] = a[i]
      BY <2>3, <2>4
    <2>6. g[n] = Going(e)
      <3>1. g[n] = Turn(Going(a), to, from, dest, dest, A)
        BY <1>2, <2>1, <2>2
      <3>2. Reads(a, a, dest, dest, A) /\ to \in DOMAIN a /\ from \in DOMAIN a
        BY <2>3 DEF Reads
      <3>3. Turn(Going(a), to, from, dest, dest, A) = Going([a EXCEPT ![to] = a[from]])
        <4>1. PICK b : b = a
          OBVIOUS
        <4>2. Reads(b, b, dest, dest, A) /\ to \in DOMAIN b /\ from \in DOMAIN b
          BY <3>2, <4>1
        <4>3. Turn(Going(b), to, from, dest, dest, A) = Going([b EXCEPT ![to] = b[from]])
          BY <4>2, GoesOn
        <4> QED BY <4>1, <4>3, Zenon
      <3> QED BY <2>4, <3>1, <3>3, Zenon
    <2>7. \A i \in 1..m :
            a[i] = IF i \in start..(to - 1) THEN a[repStart + i - start] ELSE A[i]
      BY <2>1, <2>2 DEF Repeated
    <2>8. ASSUME NEW i \in 1..m
          PROVE  e[i] = IF i \in start..to THEN e[repStart + i - start] ELSE A[i]
      <3>1. CASE i = to
        <4>1. repStart + i - start = from /\ i \in start..to
          BY <2>2, <3>1
        <4> QED BY <2>3, <2>5, <3>1, <4>1
      <3>2. CASE i # to /\ i \in start..to
        <4>1. i \in start..(to - 1) /\ repStart + i - start \in 1..m
              /\ repStart + i - start # to
          BY <2>2, <2>3, <3>2
        <4> QED BY <2>5, <2>7, <3>2, <4>1
      <3>3. CASE i # to /\ i \notin start..to
        <4>1. i \notin start..(to - 1)
          BY <2>2, <3>3
        <4> QED BY <2>5, <2>7, <3>3, <4>1
      <3> QED BY <3>1, <3>2, <3>3
    <2>9. Repeated(e, A, start, repStart, n)
      BY <2>2, <2>8 DEF Repeated
    <2> QED BY <2>5, <2>6, <2>9
  <1>5. S = 0..c
    <2> HIDE DEF S
    <2>1. S \subseteq 0..c
      BY DEF S
    <2> QED BY <1>3, <1>4, <2>1, Induction
  <1>6. CASE start + c - 1 <= m
    <2>1. Good(c)
      <3>1. c \in S
        <4> HIDE DEF S
        <4> QED BY <1>5
      <3> QED BY <1>6, <3>1
    <2> QED BY <1>1, <2>1, PutArray
  <1>7. CASE start + c - 1 = m + 1 /\ c > 0
    <2>1. c - 1 \in S /\ start + (c - 1) - 1 <= m /\ c \in 1..c
      <3>1. c - 1 \in 0..c /\ start + (c - 1) - 1 <= m /\ c \in 1..c
        BY <1>7
      <3> HIDE DEF S
      <3> QED BY <1>5, <3>1
    <2>2. PICK a \in [1..m -> Int] :
            g[c - 1] = Going(a) /\ Repeated(a, A, start, repStart, c - 1)
      BY <2>1
    <2>3. PICK to, from : to = start + c - 1 /\ from = repStart + c - 1
      OBVIOUS
    <2>4. to \notin DOMAIN a
      BY <1>7, <2>3
    <2>5. g[c].array = a
      <3>1. g[c] = Turn(Going(a), to, from, dest, dest, A)
        BY <1>2, <2>1, <2>2, <2>3
      <3>2. PICK b : b = a
        OBVIOUS
      <3>3. to \notin DOMAIN b
        BY <2>4, <3>2
      <3>4. Turn(Going(b), to, from, dest, dest, A).array = b
        BY <3>3, StopsAt
      <3> QED BY <3>1, <3>2, <3>4, Zenon
    <2>6. Repeated(a, A, start, repStart, c)
      <3>1. \A i \in 1..m : i \in start..(start + c - 1) <=> i \in start..(start + (c - 1) - 1)
        BY <1>7
      <3> QED BY <2>2, <3>1 DEF Repeated
    <2> QED BY <1>1, <2>5, <2>6
  <1>8. CASE c = 0
    <2>1. Repeated(A, A, start, repStart, 0)
      BY DEF Repeated
    <2> QED BY <1>1, <1>2, <1>8, <2>1, PutArray
  <1> QED BY <1>6, <1>7, <1>8

-----------------------------------------------------------------------------
Sequences == data \in [Arrays -> Seq(Int)]

LEMMA AsFunction ==
  ASSUME NEW s \in Seq(Int)
  PROVE  Len(s) \in Nat /\ DOMAIN s = 1..Len(s) /\ s \in [1..Len(s) -> Int]
  OBVIOUS

LEMMA MovedType ==
  ASSUME NEW m \in Nat, NEW f \in [1..m -> Int]
  PROVE  f \in Seq(Int)
  BY SeqDef

LEMMA SequencesHold == Spec => []Sequences
  <1>1. Init => Sequences
    BY ReplaceAssumption DEF Init, Sequences, ReplaceAssumption
  <1>2. Sequences /\ [Next]_data => Sequences'
    <2> SUFFICES ASSUME Sequences, [Next]_data PROVE Sequences'
      OBVIOUS
    <2>1. CASE Next
      <3>1. PICK dest \in Arrays, src \in Arrays, start \in Starts, repStart \in Starts,
                 stop \in Stops : replaceFrom(dest, start, stop, src, repStart)
        BY <2>1 DEF Next
      <3>2. /\ start \in Int /\ repStart \in Int /\ stop \in Int
            /\ data[dest] \in Seq(Int) /\ data[src] \in Seq(Int)
        BY ReplaceAssumption DEF Sequences, ReplaceAssumption
      <3>3. PICK A, B, m, k : /\ A = data[dest] /\ B = data[src]
                              /\ m = Len(A) /\ k = Len(B)
        OBVIOUS
      <3>4. m \in Nat /\ k \in Nat /\ A \in [1..m -> Int] /\ B \in [1..k -> Int]
        BY <3>2, <3>3, AsFunction
      <3>5. Moved(dest, start, stop, src, repStart) \in Seq(Int)
        <4>1. Moved(dest, start, stop, src, repStart) \in [1..m -> Int]
          <5>1. ASSUME NEW i \in 1..m PROVE A[i] \in Int
            BY <3>4
          <5>2. ASSUME NEW i \in DOMAIN B PROVE B[i] \in Int
            BY <3>4
          <5> QED BY <3>3, <5>1, <5>2 DEF Moved, SIZE
        <4> QED BY <3>4, <4>1, MovedType
      <3>6. Looped(dest, start, stop, src, repStart) \in Seq(Int)
        <4>1. PICK c : c = Count(start, stop)
          OBVIOUS
        <4>2. c \in Nat
          BY <3>2, <4>1 DEF Count
        <4>3. Arguments(c, m, A, k, B, start, repStart)
          BY <3>2, <3>4, <4>2 DEF Arguments
        <4>4. Loop(c, A, B, dest, src, start, repStart)[c] \in Turned(m)
          BY <4>3, LoopType
        <4>5. Loop(c, A, B, dest, src, start, repStart)[c].array \in [1..m -> Int]
          BY <4>4 DEF Turned
        <4>6. Looped(dest, start, stop, src, repStart)
                = Loop(c, A, B, dest, src, start, repStart)[c].array
          BY <3>3, <4>1, LoopedIs
        <4> QED BY <3>4, <4>5, <4>6, MovedType
      <3>7. PICK after \in Seq(Int) : data' = [data EXCEPT ![dest] = after]
        BY <3>1, <3>5, <3>6 DEF replaceFrom
      <3> QED BY <3>7 DEF Sequences
    <2>2. CASE UNCHANGED data
      BY <2>2 DEF Sequences
    <2> QED BY <2>1, <2>2
  <1> QED BY <1>1, <1>2, PTL DEF Spec

\* The one move of bulkReplace() (interp.c) leaves in the array what the loop of
\* lst.st leaves there, whatever the arrays hold: the elements the loop has
\* written are ones it has still to read only in a move towards the end.
LEMMA MovedAsLooped ==
  ASSUME Sequences
  PROVE  AsLoop
  <1> SUFFICES ASSUME NEW self \in Arrays, NEW replacement \in Arrays, NEW start \in Starts,
                      NEW repStart \in Starts, NEW stop \in Stops,
                      ~Refuses(self, start, stop, replacement, repStart)
               PROVE  IF Unshifted(self, start, replacement, repStart)
                      THEN Looped(self, start, stop, replacement, repStart)
                             = Moved(self, start, stop, replacement, repStart)
                      ELSE Repeats(Looped(self, start, stop, replacement, repStart),
                                   self, start, stop, repStart)
    BY Zenon DEF AsLoop
  <1>1. /\ start \in Int /\ repStart \in Int /\ stop \in Int
        /\ data[self] \in Seq(Int) /\ data[replacement] \in Seq(Int)
    BY ReplaceAssumption DEF Sequences, ReplaceAssumption
  <1>2. PICK A, B, m, k : /\ A = data[self] /\ B = data[replacement]
                          /\ m = Len(A) /\ k = Len(B)
    OBVIOUS
  <1>3. m \in Nat /\ k \in Nat /\ A \in [1..m -> Int] /\ B \in [1..k -> Int]
    BY <1>1, <1>2, AsFunction
  <1>4. PICK c : c = Count(start, stop)
    OBVIOUS
  <1>5. /\ start >= 1 /\ repStart >= 1 /\ stop >= start
        /\ stop <= m + 1 /\ repStart - 1 + (stop - start + 1) <= k
    BY <1>1, <1>2, <1>3 DEF Refuses, SIZE
  <1>6. c \in Nat /\ c = stop - start + 1
    BY <1>1, <1>4, <1>5 DEF Count
  <1>7. Arguments(c, m, A, k, B, start, repStart)
    BY <1>1, <1>3, <1>6 DEF Arguments
  <1>8. start + c - 1 <= m + 1 /\ repStart + c - 1 <= k
    BY <1>1, <1>3, <1>5, <1>6
  <1>9. Looped(self, start, stop, replacement, repStart)
           = Loop(c, A, B, self, replacement, start, repStart)[c].array
    BY <1>2, <1>4, LoopedIs
  <1>10. CASE Unshifted(self, start, replacement, repStart)
    <2>1. replacement = self => A = B /\ start <= repStart
      BY <1>2, <1>10 DEF Unshifted
    <2>2. Loop(c, A, B, self, replacement, start, repStart)[c].array
             = Shifted(A, B, start, repStart, c)
      BY <1>5, <1>7, <1>8, <2>1, LoopMoves
    <2>3. Moved(self, start, stop, replacement, repStart) = Shifted(A, B, start, repStart, c)
      <3>1. \A i \in 1..m : i \in start..stop => repStart + i - start \in DOMAIN B
        BY <1>1, <1>3, <1>5
      <3>2. Moved(self, start, stop, replacement, repStart)
              = [i \in 1..m |-> IF i \in start..stop
                                THEN IF repStart + i - start \in DOMAIN B
                                     THEN B[repStart + i - start] ELSE 0
                                ELSE A[i]]
        BY <1>2 DEF Moved, SIZE
      <3>3. start + c - 1 = stop /\ DOMAIN A = 1..m
        BY <1>1, <1>3, <1>6
      <3>4. Shifted(A, B, start, repStart, c)
              = [i \in 1..m |-> IF i \in start..stop THEN B[repStart + i - start] ELSE A[i]]
        BY <3>3 DEF Shifted
      <3> QED BY <3>1, <3>2, <3>4
    <2> QED BY <1>9, <1>10, <2>2, <2>3
  <1>11. CASE ~Unshifted(self, start, replacement, repStart)
    <2>1. replacement = self /\ repStart < start /\ B = A /\ k = m
      BY <1>1, <1>2, <1>11 DEF Unshifted
    <2>2. PICK after : after = Loop(c, A, A, self, self, start, repStart)[c].array
      OBVIOUS
    <2>3. Repeated(after, A, start, repStart, c)
      BY <1>5, <1>7, <1>8, <2>1, <2>2, LoopRepeats
    <2>4. start + c - 1 = stop
      BY <1>1, <1>6
    <2>5. Repeats(after, self, start, stop, repStart)
      BY <1>2, <2>3, <2>4 DEF Repeated, Repeats
    <2>6. Looped(self, start, stop, replacement, repStart) = after
      BY <1>9, <2>1, <2>2
    <2> QED BY <1>11, <2>5, <2>6
  <1> QED BY <1>10, <1>11

\* bulkReplace() (interp.c) is a faster replaceFrom:to:with:startingAt: but for moves
\* towards the end of one array: for any arrays and any indices that it does not
\* refuse, it leaves in the array what the loop in Smalltalk would have left; of
\* such a move, the loop repeats what it finds from repStart on.
THEOREM MoveIsLoop == Spec => []AsLoop
  <1>1. Sequences => AsLoop
    BY MovedAsLooped
  <1> QED BY <1>1, SequencesHold, PTL
=============================================================================
