------------------------- MODULE MethodLookupProofs -------------------------
(***************************************************************************)
(* First SymbolOrder.  For any symbols and any number of them: the three   *)
(* comparisons are one strict total order, the searches by halves end and  *)
(* find what is there, and insertion keeps the order and what was there.   *)
(*                                                                         *)
(* Then MethodLookup.  For any classes, symbols, dictionaries and layouts  *)
(* of memory: a message finds the method it means, however additions,      *)
(* collections and exchanges follow each other, provided that at:put: is   *)
(* not made to look things up in the dictionary that it is changing        *)
(* (Untouched).                                                            *)
(*                                                                         *)
(* IInv says why: the keys are sorted in every state (InsertionSorts),     *)
(* only the dictionary that is being changed has arrays of different       *)
(* lengths, and an entry of the cache was right when it was made, since    *)
(* when nothing was moved and no meaning was lost.                         *)
(***************************************************************************)
EXTENDS MethodLookup, FiniteRecursion, SequenceTheorems

(***************************************************************************)
(* Symbols and searches                                                    *)
(***************************************************************************)
Symbol == Seq(Nat)

-----------------------------------------------------------------------------
\* The first of the numbers in which two symbols differ exists.
LEMMA FirstOf ==
  ASSUME NEW n \in Nat, NEW I \in SUBSET (1..n), I # {}
  PROVE  First(I) \in I /\ \A j \in I : First(I) <= j
  BY LeastOf DEF First, Least

-----------------------------------------------------------------------------
LEMMA DifferencesType ==
  ASSUME NEW a \in Symbol, NEW b \in Symbol
  PROVE  /\ Differences(a, b) \in SUBSET (1..Len(a))
         /\ Differences(a, b) = Differences(b, a)
         /\ Len(a) \in Nat /\ Len(b) \in Nat
         /\ \A i \in 1..Len(a) : a[i] \in Nat
         /\ \A i \in 1..Len(b) : b[i] \in Nat
         /\ Differences(a, b) # {} =>
              /\ First(Differences(a, b)) \in Differences(a, b)
              /\ \A i \in Differences(a, b) : First(Differences(a, b)) <= i
  <1>1. Len(a) \in Nat /\ Len(b) \in Nat
    BY DEF Symbol
  <1>2. Differences(a, b) \in SUBSET (1..Len(a))
    BY DEF Differences
  <1>3. Differences(a, b) = Differences(b, a)
    BY DEF Differences
  <1>4. /\ \A i \in 1..Len(a) : a[i] \in Nat
        /\ \A i \in 1..Len(b) : b[i] \in Nat
    BY DEF Symbol
  <1>5. Differences(a, b) # {} =>
          /\ First(Differences(a, b)) \in Differences(a, b)
          /\ \A i \in Differences(a, b) : First(Differences(a, b)) <= i
    BY <1>1, <1>2, FirstOf
  <1> QED BY <1>1, <1>2, <1>3, <1>4, <1>5

\* The image inserts by Less, the bootstrap by symbolCmp, and the VM searches
\* by symbolcomp: for all symbols these say the same, and of two that are not
\* the same one is the smaller.
THEOREM OneOrder ==
  ASSUME NEW a \in Symbol, NEW b \in Symbol
  PROVE  /\ Less(a, b) <=> symbolcomp(a, b) < 0
         /\ symbolCmp(a, b) < 0 <=> symbolcomp(a, b) < 0
         /\ symbolcomp(a, b) = 0 <=> a = b
         /\ symbolCmp(a, b) = 0 <=> a = b
         /\ symbolcomp(a, b) < 0 <=> symbolcomp(b, a) > 0
         /\ symbolcomp(a, b) \in Int /\ symbolCmp(a, b) \in Int
  <1> DEFINE D == Differences(a, b)
             k == First(D)
  <1>1. CASE D = {}
    <2>1. /\ symbolcomp(a, b) = Len(a) - Len(b)
          /\ symbolcomp(b, a) = Len(b) - Len(a)
          /\ symbolCmp(a, b) = Len(a) - Len(b)
          /\ Less(a, b) <=> Len(a) < Len(b)
      BY <1>1, DifferencesType DEF symbolcomp, symbolCmp, Less
    <2>2. Len(a) = Len(b) => a = b
      <3>1. ASSUME Len(a) = Len(b) PROVE \A i \in 1..Len(a) : a[i] = b[i]
        BY <1>1, <3>1 DEF Differences
      <3> QED BY <3>1, SeqEqual DEF Symbol
    <2> QED BY <2>1, <2>2, DifferencesType
  <1>2. CASE D # {}
    <2>1. /\ symbolcomp(a, b) = a[k] - b[k]
          /\ symbolcomp(b, a) = b[k] - a[k]
          /\ symbolCmp(a, b) = IF a[k] < b[k] THEN -1 ELSE 1
          /\ Less(a, b) <=> a[k] < b[k]
      BY <1>2, DifferencesType DEF symbolcomp, symbolCmp, Less
    <2>2. a[k] # b[k] /\ a[k] \in Nat /\ b[k] \in Nat
      BY <1>2, DifferencesType DEF Differences
    <2> HIDE DEF k
    <2> QED BY <2>1, <2>2
  <1> QED BY <1>1, <1>2

-----------------------------------------------------------------------------
\* b is greater at place k, before which the two are alike.
Below(a, b, k) ==
  /\ k \in 1..Len(b)
  /\ \A i \in 1..(k - 1) : i <= Len(a) /\ a[i] = b[i]
  /\ k = Len(a) + 1 \/ (k <= Len(a) /\ a[k] < b[k])

LEMMA LessBelow ==
  ASSUME NEW a \in Symbol, NEW b \in Symbol
  PROVE  Less(a, b) <=> \E k \in Nat : Below(a, b, k)
  <1> DEFINE D == Differences(a, b)
  <1>1. ASSUME Less(a, b) PROVE \E k \in Nat : Below(a, b, k)
    <2>1. CASE D = {}
      <3>1. Len(a) < Len(b)
        BY <1>1, <2>1 DEF Less
      <3>2. Below(a, b, Len(a) + 1)
        BY <2>1, <3>1, DifferencesType DEF Below, Differences
      <3> QED BY <3>2, DifferencesType
    <2>2. CASE D # {}
      <3>1. PICK k : k = First(D)
        OBVIOUS
      <3>2. k \in D /\ a[k] < b[k] /\ \A i \in D : k <= i
        BY <1>1, <2>2, <3>1, DifferencesType DEF Less
      <3>3. k \in 1..Len(a) /\ k \in 1..Len(b)
        BY <3>2 DEF Differences
      <3>4. ASSUME NEW i \in 1..(k - 1) PROVE i <= Len(a) /\ a[i] = b[i]
        <4>1. i \in 1..Len(a) \cap 1..Len(b) /\ i < k
          BY <3>3, DifferencesType
        <4>2. i \notin D
          BY <3>2, <3>3, <4>1
        <4> QED BY <4>1, <4>2 DEF Differences
      <3> QED BY <3>2, <3>3, <3>4 DEF Below
    <2> QED BY <2>1, <2>2
  <1>2. ASSUME NEW k \in Nat, Below(a, b, k) PROVE Less(a, b)
    <2>1. \A i \in D : k <= i
      BY <1>2, DifferencesType DEF Below, Differences
    <2>2. CASE k = Len(a) + 1
      <3>1. D = {}
        BY <2>1, <2>2, DifferencesType
      <3> QED BY <1>2, <2>2, <3>1, DifferencesType DEF Less, Below
    <2>3. CASE k <= Len(a) /\ a[k] < b[k]
      <3>1. k \in D
        <4>1. k \in 1..Len(a) \cap 1..Len(b)
          BY <1>2, <2>3, DifferencesType DEF Below
        <4>2. a[k] # b[k]
          BY <2>3, <4>1, DifferencesType
        <4> QED BY <4>1, <4>2 DEF Differences
      <3>2. First(D) = k
        BY <2>1, <3>1, DifferencesType
      <3> QED BY <2>3, <3>1, <3>2 DEF Less
    <2> QED BY <1>2, <2>2, <2>3 DEF Below
  <1> QED BY <1>1, <1>2

\* The order is transitive.
THEOREM Transitive ==
  ASSUME NEW a \in Symbol, NEW b \in Symbol, NEW c \in Symbol,
         Less(a, b), Less(b, c)
  PROVE  Less(a, c)
  <1>1. PICK j \in Nat : Below(a, b, j)
    BY LessBelow
  <1>2. PICK k \in Nat : Below(b, c, k)
    BY LessBelow
  <1>3. /\ Len(a) \in Nat /\ Len(b) \in Nat /\ Len(c) \in Nat
        /\ \A i \in 1..Len(a) : a[i] \in Nat
        /\ \A i \in 1..Len(b) : b[i] \in Nat
        /\ \A i \in 1..Len(c) : c[i] \in Nat
    BY DEF Symbol
  <1>4. CASE j <= k
    <2>1. Below(a, c, j)
      BY <1>1, <1>2, <1>3, <1>4 DEF Below
    <2> QED BY <2>1, LessBelow
  <1>5. CASE k < j
    <2>1. Below(a, c, k)
      BY <1>1, <1>2, <1>3, <1>5 DEF Below
    <2> QED BY <2>1, LessBelow
  <1> QED BY <1>4, <1>5

LEMMA Trichotomy ==
  ASSUME NEW a \in Symbol, NEW b \in Symbol
  PROVE  /\ Less(a, b) \/ Less(b, a) \/ a = b
         /\ ~Less(a, a)
         /\ ~(Less(a, b) /\ Less(b, a))
  <1>1. /\ symbolcomp(a, b) \in Int /\ symbolcomp(b, a) \in Int
        /\ symbolcomp(a, a) = 0
    BY OneOrder
  <1> QED BY <1>1, OneOrder

-----------------------------------------------------------------------------
Sorted(keys) == \A i, j \in 1..Len(keys) : i < j => Less(keys[i], keys[j])

Distance(range) == IF range[1] < range[2] THEN range[2] - range[1] ELSE 0

LEMMA Middle ==
  ASSUME NEW low \in Int, NEW high \in Int, low < high
  PROVE  /\ (low + high) \div 2 \in Int
         /\ low <= (low + high) \div 2
         /\ (low + high) \div 2 < high
  OBVIOUS


\* What a search by halves goes through: places in done are found, those in
\* left send it to the left, leaf is what it answers when nothing remains.
Halves(at, leaf, done, left, range) ==
  LET low == range[1]
      high == range[2]
      mid == (low + high) \div 2 IN
    IF low >= high THEN leaf[low]
    ELSE IF mid \in done THEN mid
    ELSE IF mid \in left THEN at[<<low, mid>>]
    ELSE at[<<mid + 1, high>>]

LEMMA HalvesShrink ==
  ASSUME NEW A \in Int, NEW B \in Int, NEW low \in A..B, NEW high \in A..B, low < high,
         NEW mid, mid = (low + high) \div 2
  PROVE  /\ mid \in A..B /\ low <= mid /\ mid < high
         /\ <<low, mid>> \in (A..B) \X (A..B) /\ <<mid + 1, high>> \in (A..B) \X (A..B)
         /\ Distance(<<low, mid>>) < Distance(<<low, high>>)
         /\ Distance(<<mid + 1, high>>) < Distance(<<low, high>>)
  <1>1. mid \in Int /\ low <= mid /\ mid < high
    BY Middle
  <1> QED BY <1>1 DEF Distance

IsHalving(at, A, B, leaf, done, left) ==
  at = [r \in (A..B) \X (A..B) |-> Halves(at, leaf, done, left, r)]

\* Whatever it compares, it ends with an answer.
LEMMA HalvingDefined ==
  ASSUME NEW A \in Int, NEW B \in Int, A <= B, NEW W, NEW leaf \in [A..B -> W],
         NEW done, NEW left
  PROVE  \E at : IsHalving(at, A, B, leaf, done, left)
  <1> DEFINE R == (A..B) \X (A..B)
             V == (A..B) \cup W
             N == B - A
             size == [r \in R |-> Distance(r)]
             Step == [z \in R \X [R -> V] |-> Halves(z[2], leaf, done, left, z[1])]
  <1>1. size \in [R -> 0..N]
    BY DEF Distance
  <1>2. ASSUME NEW r \in R, NEW f \in [R -> V], NEW g \in [R -> V],
               \A q \in R : size[q] < size[r] => f[q] = g[q]
        PROVE  /\ Halves(f, leaf, done, left, r) \in V
               /\ Halves(f, leaf, done, left, r) = Halves(g, leaf, done, left, r)
    <2>0. r[1] \in A..B /\ r[2] \in A..B /\ r = <<r[1], r[2]>>
      OBVIOUS
    <2>1. CASE ~(r[1] < r[2])
      <3>1. \A h : Halves(h, leaf, done, left, r) = leaf[r[1]]
        BY <2>0, <2>1 DEF Halves
      <3>2. leaf[r[1]] \in V
        BY <2>0
      <3> QED BY <3>1, <3>2
    <2>2. CASE r[1] < r[2]
      <3>1. PICK mid : mid = (r[1] + r[2]) \div 2
        OBVIOUS
      <3>2. /\ mid \in A..B
            /\ <<r[1], mid>> \in R /\ <<mid + 1, r[2]>> \in R
            /\ Distance(<<r[1], mid>>) < Distance(r)
            /\ Distance(<<mid + 1, r[2]>>) < Distance(r)
        BY <2>0, <2>2, <3>1, HalvesShrink
      <3>3. /\ f[<<r[1], mid>>] = g[<<r[1], mid>>] /\ f[<<r[1], mid>>] \in V
            /\ f[<<mid + 1, r[2]>>] = g[<<mid + 1, r[2]>>] /\ f[<<mid + 1, r[2]>>] \in V
        BY <1>2, <3>2
      <3>4. \A h : Halves(h, leaf, done, left, r) =
                     IF mid \in done THEN mid
                     ELSE IF mid \in left THEN h[<<r[1], mid>>]
                     ELSE h[<<mid + 1, r[2]>>]
        BY <2>0, <2>2, <3>1 DEF Halves
      <3>5. mid \in V
        BY <3>2
      <3> HIDE DEF R, V
      <3> QED BY <3>3, <3>4, <3>5
    <2> QED BY <2>0, <2>1, <2>2
  <1>3. Step \in [R \X [R -> V] -> V]
    BY <1>2
  <1>4. Descends(R, V, size, Step)
    <2> SUFFICES ASSUME NEW r \in R, NEW f \in [R -> V], NEW g \in [R -> V],
                        \A q \in R : size[q] < size[r] => f[q] = g[q]
                 PROVE  Step[<<r, f>>] = Step[<<r, g>>]
      BY DEF Descends
    <2>1. Halves(f, leaf, done, left, r) = Halves(g, leaf, done, left, r)
      BY <1>2
    <2> QED BY <2>1
  <1>5. HasSolution(R, V, Step)
    <2>1. V # {} /\ N \in Nat
      OBVIOUS
    <2> HIDE DEF R, V, N, size, Step
    <2> QED BY <1>1, <1>3, <1>4, <2>1, Recursion
  <1>6. PICK at \in [R -> V] : \A r \in R : at[r] = Step[<<r, at>>]
    BY <1>5 DEF HasSolution
  <1>7. \A r \in R : at[r] = Halves(at, leaf, done, left, r)
    BY <1>6
  <1>8. at = [r \in R |-> at[r]]
    OBVIOUS
  <1>9. [r \in R |-> at[r]] = [r \in R |-> Halves(at, leaf, done, left, r)]
    BY <1>7
  <1> QED BY <1>8, <1>9 DEF IsHalving

SearchBody(at, keys, selector, range) ==
  LET low == range[1]
      high == range[2]
      mid == (low + high) \div 2 IN
    IF low >= high THEN nil
    ELSE IF keys[mid + 1] = selector THEN mid
    ELSE IF symbolcomp(selector, keys[mid + 1]) < 0 THEN at[<<low, mid>>]
    ELSE at[<<mid + 1, high>>]

LEMMA SearchDefined ==
  ASSUME NEW keys, Len(keys) \in Nat, NEW selector
  PROVE  \E at :
           /\ \A low, high \in 0..Len(keys) :
                at[<<low, high>>] = SearchBody(at, keys, selector, <<low, high>>)
           /\ Search(keys, selector) = at[<<0, Len(keys)>>]
  <1> DEFINE L == Len(keys)
             R == (0..L) \X (0..L)
             leaf == [i \in 0..L |-> nil]
             done == {i \in 0..L : keys[i + 1] = selector}
             left == {i \in 0..L : symbolcomp(selector, keys[i + 1]) < 0}
             Body(at, range) == SearchBody(at, keys, selector, range)
             Equation(at) == at = [r \in R |-> Body(at, r)]
  <1>1. Search(keys, selector) = (CHOOSE f : Equation(f))[<<0, L>>]
    BY DEF Search, SearchBody
  <1>2. ASSUME NEW at, NEW r \in R PROVE Halves(at, leaf, done, left, r) = Body(at, r)
    <2>1. r[1] \in 0..L /\ r[2] \in 0..L /\ r = <<r[1], r[2]>>
      OBVIOUS
    <2>2. CASE ~(r[1] < r[2])
      BY <2>1, <2>2 DEF Halves, SearchBody
    <2>3. CASE r[1] < r[2]
      <3>1. PICK mid : mid = (r[1] + r[2]) \div 2
        OBVIOUS
      <3>2. mid \in 0..L
        BY <2>1, <2>3, <3>1, HalvesShrink
      <3> QED BY <2>1, <2>3, <3>1, <3>2 DEF Halves, SearchBody
    <2> QED BY <2>1, <2>2, <2>3
  <1>3. \E at : Equation(at)
    <2>1. PICK at : IsHalving(at, 0, L, leaf, done, left)
      <3>1. leaf \in [0..L -> {nil}] /\ 0 \in Int /\ L \in Int /\ 0 <= L
        OBVIOUS
      <3> HIDE DEF leaf, done, left, L
      <3> QED BY <3>1, HalvingDefined
    <2>2. [r \in R |-> Halves(at, leaf, done, left, r)] = [r \in R |-> Body(at, r)]
      <3> HIDE DEF Body, leaf, done, left, R
      <3> QED BY <1>2
    <2>3. at = [r \in R |-> Halves(at, leaf, done, left, r)]
      BY <2>1 DEF IsHalving
    <2> HIDE DEF Body, leaf, done, left, R
    <2> QED BY <2>2, <2>3
  <1>4. PICK at : at = CHOOSE f : Equation(f)
    OBVIOUS
  <1>5. Equation(at)
    <2> HIDE DEF Equation
    <2> QED BY <1>3, <1>4
  <1>6. \A low, high \in 0..L : at[<<low, high>>] = Body(at, <<low, high>>)
    <2> HIDE DEF Body
    <2> QED BY <1>5
  <1> QED BY <1>1, <1>4, <1>6

\* The search of lookupMethod() finds a symbol that is among the keys, however
\* many they are, and says that it is not there when it is not.
THEOREM SearchFinds ==
  ASSUME NEW keys \in Seq(Symbol), Sorted(keys), NEW selector \in Symbol
  PROVE  IF \E i \in 1..Len(keys) : keys[i] = selector
           THEN /\ Search(keys, selector) \in 0..(Len(keys) - 1)
                /\ keys[Search(keys, selector) + 1] = selector
           ELSE Search(keys, selector) = nil
  <1> DEFINE L == Len(keys)
             Right(low, high, found) ==
               \/ found \in low..(high - 1) /\ keys[found + 1] = selector
               \/ found = nil /\ \A i \in (low + 1)..high : keys[i] # selector
  <1>0. L \in Nat /\ (\A i \in 1..L : keys[i] \in Symbol) /\ nil \notin Int
    BY NilAssumption
  <1>1. PICK at :
           /\ \A low, high \in 0..L :
                at[<<low, high>>] = SearchBody(at, keys, selector, <<low, high>>)
           /\ Search(keys, selector) = at[<<0, L>>]
    BY <1>0, SearchDefined
  <1> DEFINE S == {n \in 0..L : \A low, high \in 0..L :
                     high - low <= n => Right(low, high, at[<<low, high>>])}
  <1>2. 0 \in S
    <2>1. ASSUME NEW low \in 0..L, NEW high \in 0..L, high - low <= 0
          PROVE  Right(low, high, at[<<low, high>>])
      <3>1. low >= high
        BY <1>0, <2>1
      <3>2. at[<<low, high>>] = nil
        BY <1>1, <3>1 DEF SearchBody
      <3> QED BY <3>1, <3>2
    <2> HIDE DEF Right
    <2> QED BY <1>0, <2>1
  <1>3. ASSUME NEW n \in 1..L, n - 1 \in S PROVE n \in S
    <2>1. ASSUME NEW low \in 0..L, NEW high \in 0..L, high - low <= n
          PROVE  Right(low, high, at[<<low, high>>])
      <3>1. CASE high <= low
        <4>1. at[<<low, high>>] = nil
          BY <1>1, <3>1 DEF SearchBody
        <4> QED BY <3>1, <4>1
      <3>2. CASE low < high
        <4>1. PICK mid : mid = (low + high) \div 2
          OBVIOUS
        <4>2. mid \in 0..L /\ low <= mid /\ mid < high
          BY <3>2, <4>1, <1>0, HalvesShrink
        <4>3. at[<<low, high>>] = IF keys[mid + 1] = selector THEN mid
                    ELSE IF symbolcomp(selector, keys[mid + 1]) < 0 THEN at[<<low, mid>>]
                    ELSE at[<<mid + 1, high>>]
          BY <1>1, <3>2, <4>1 DEF SearchBody
        <4>4. Right(low, mid, at[<<low, mid>>]) /\ Right(mid + 1, high, at[<<mid + 1, high>>])
          BY <1>3, <2>1, <3>2, <4>2
        <4>5. mid + 1 \in 1..L /\ keys[mid + 1] \in Symbol
          BY <1>0, <4>2
        <4>6. CASE keys[mid + 1] = selector
          BY <4>2, <4>3, <4>6
        <4>7. CASE keys[mid + 1] # selector /\ symbolcomp(selector, keys[mid + 1]) < 0
          <5>1. Less(selector, keys[mid + 1])
            BY <4>5, <4>7, OneOrder
          <5>2. ASSUME NEW i \in (mid + 1)..high PROVE keys[i] # selector
            <6>1. i \in 1..L /\ (i = mid + 1 \/ Less(keys[mid + 1], keys[i]))
              BY <4>2, <4>5 DEF Sorted
            <6> QED BY <1>0, <4>5, <4>7, <5>1, <6>1, Trichotomy
          <5> QED BY <4>2, <4>3, <4>4, <4>7, <5>2
        <4>8. CASE keys[mid + 1] # selector /\ ~(symbolcomp(selector, keys[mid + 1]) < 0)
          <5>1. Less(keys[mid + 1], selector)
            <6>1. ~Less(selector, keys[mid + 1])
              BY <4>5, <4>8, OneOrder
            <6> QED BY <4>5, <4>8, <6>1, Trichotomy
          <5>2. ASSUME NEW i \in (low + 1)..(mid + 1) PROVE keys[i] # selector
            <6>1. i \in 1..L /\ (i = mid + 1 \/ Less(keys[i], keys[mid + 1]))
              BY <4>2, <4>5 DEF Sorted
            <6> QED BY <1>0, <4>5, <4>8, <5>1, <6>1, Trichotomy
          <5> QED BY <4>2, <4>3, <4>4, <4>8, <5>2
        <4> QED BY <4>6, <4>7, <4>8
      <3> QED BY <3>1, <3>2
    <2> HIDE DEF Right
    <2> QED BY <2>1
  <1>4. L \in S
    <2>1. S \subseteq 0..L
      OBVIOUS
    <2> HIDE DEF S
    <2> QED BY <1>0, <1>2, <1>3, <2>1, Induction
  <1>5. Right(0, L, Search(keys, selector))
    BY <1>0, <1>1, <1>4
  <1> QED BY <1>0, <1>5

LocationBody(at, keys, value, range) ==
  LET low == range[1]
      high == range[2]
      mid == (low + high) \div 2 IN
    IF low >= high THEN low
    ELSE IF Less(keys[mid], value) THEN at[<<mid + 1, high>>]
    ELSE at[<<low, mid>>]

LEMMA LocationDefined ==
  ASSUME NEW keys, Len(keys) \in Nat, NEW value
  PROVE  \E at :
           /\ \A low, high \in 1..(Len(keys) + 1) :
                at[<<low, high>>] = LocationBody(at, keys, value, <<low, high>>)
           /\ Location(keys, value) = at[<<1, Len(keys) + 1>>]
  <1> DEFINE L == Len(keys) + 1
             R == (1..L) \X (1..L)
             leaf == [i \in 1..L |-> i]
             left == {i \in 1..L : ~Less(keys[i], value)}
             Body(at, range) == LocationBody(at, keys, value, range)
             Equation(at) == at = [r \in R |-> Body(at, r)]
  <1>1. Location(keys, value) = (CHOOSE f : Equation(f))[<<1, L>>]
    BY DEF Location, LocationBody
  <1>2. ASSUME NEW at, NEW r \in R PROVE Halves(at, leaf, {}, left, r) = Body(at, r)
    <2>1. r[1] \in 1..L /\ r[2] \in 1..L /\ r = <<r[1], r[2]>>
      OBVIOUS
    <2>2. CASE ~(r[1] < r[2])
      BY <2>1, <2>2 DEF Halves, LocationBody
    <2>3. CASE r[1] < r[2]
      <3>1. PICK mid : mid = (r[1] + r[2]) \div 2
        OBVIOUS
      <3>2. mid \in 1..L
        BY <2>1, <2>3, <3>1, HalvesShrink
      <3> QED BY <2>1, <2>3, <3>1, <3>2 DEF Halves, LocationBody
    <2> QED BY <2>1, <2>2, <2>3
  <1>3. \E at : Equation(at)
    <2>1. PICK at : IsHalving(at, 1, L, leaf, {}, left)
      <3>1. leaf \in [1..L -> 1..L] /\ 1 \in Int /\ L \in Int /\ 1 <= L
        OBVIOUS
      <3> HIDE DEF leaf, left, L
      <3> QED BY <3>1, HalvingDefined
    <2>2. [r \in R |-> Halves(at, leaf, {}, left, r)] = [r \in R |-> Body(at, r)]
      <3> HIDE DEF Body, leaf, left, R
      <3> QED BY <1>2
    <2>3. at = [r \in R |-> Halves(at, leaf, {}, left, r)]
      BY <2>1 DEF IsHalving
    <2> HIDE DEF Body, leaf, left, R
    <2> QED BY <2>2, <2>3
  <1>4. PICK at : at = CHOOSE f : Equation(f)
    OBVIOUS
  <1>5. Equation(at)
    <2> HIDE DEF Equation
    <2> QED BY <1>3, <1>4
  <1>6. \A low, high \in 1..L : at[<<low, high>>] = Body(at, <<low, high>>)
    <2> HIDE DEF Body
    <2> QED BY <1>5
  <1> QED BY <1>1, <1>4, <1>6

\* Where OrderedArray>>location: says that a symbol belongs, all before it are
\* less and none from there on is, however many there are.
THEOREM LocationSplits ==
  ASSUME NEW keys \in Seq(Symbol), Sorted(keys), NEW value \in Symbol
  PROVE  /\ Location(keys, value) \in 1..(Len(keys) + 1)
         /\ \A i \in 1..Len(keys) : i < Location(keys, value) <=> Less(keys[i], value)
  <1> DEFINE L == Len(keys)
             Split(low, high, place) ==
               (\A i \in 1..L : (i < low => Less(keys[i], value))
                                  /\ (i >= high => ~Less(keys[i], value)))
                 => /\ place \in low..high
                    /\ \A i \in 1..L : i < place <=> Less(keys[i], value)
  <1>0. L \in Nat /\ \A i \in 1..L : keys[i] \in Symbol
    OBVIOUS
  <1>1. PICK at :
           /\ \A low, high \in 1..(L + 1) :
                at[<<low, high>>] = LocationBody(at, keys, value, <<low, high>>)
           /\ Location(keys, value) = at[<<1, L + 1>>]
    BY <1>0, LocationDefined
  <1> DEFINE S == {n \in 0..L : \A low, high \in 1..(L + 1) :
                     low <= high /\ high - low <= n => Split(low, high, at[<<low, high>>])}
  <1>2. 0 \in S
    <2>1. ASSUME NEW low \in 1..(L + 1), NEW high \in 1..(L + 1), low <= high, high - low <= 0
          PROVE  Split(low, high, at[<<low, high>>])
      <3>1. low >= high
        BY <1>0, <2>1
      <3>2. at[<<low, high>>] = low
        BY <1>1, <3>1 DEF LocationBody
      <3>3. low = high
        BY <1>0, <2>1
      <3> QED BY <1>0, <3>2, <3>3
    <2> HIDE DEF Split
    <2> QED BY <1>0, <2>1
  <1>3. ASSUME NEW n \in 1..L, n - 1 \in S PROVE n \in S
    <2>1. ASSUME NEW low \in 1..(L + 1), NEW high \in 1..(L + 1), low <= high, high - low <= n
          PROVE  Split(low, high, at[<<low, high>>])
      <3>1. CASE low >= high
        <4>1. at[<<low, high>>] = low
          BY <1>1, <3>1 DEF LocationBody
        <4>2. low = high
          BY <2>1, <3>1
        <4> QED BY <1>0, <4>1, <4>2
      <3>2. CASE low < high
        <4>1. PICK mid : mid = (low + high) \div 2
          OBVIOUS
        <4>2. mid \in 1..L /\ low <= mid /\ mid < high
          BY <3>2, <4>1, <1>0, Middle
        <4>3. at[<<low, high>>] = IF Less(keys[mid], value) THEN at[<<mid + 1, high>>]
                                  ELSE at[<<low, mid>>]
          BY <1>1, <3>2, <4>1 DEF LocationBody
        <4>4. Split(low, mid, at[<<low, mid>>]) /\ Split(mid + 1, high, at[<<mid + 1, high>>])
          <5>1. \A l, h \in 1..(L + 1) : l <= h /\ h - l <= n - 1 => Split(l, h, at[<<l, h>>])
            BY <1>3
          <5>2. /\ mid \in 1..(L + 1) /\ mid - low <= n - 1
                /\ mid + 1 \in 1..(L + 1) /\ mid + 1 <= high /\ high - (mid + 1) <= n - 1
            BY <1>0, <2>1, <4>2
          <5> HIDE DEF Split
          <5> QED BY <4>2, <5>1, <5>2
        <4>5. CASE Less(keys[mid], value)
          <5>1. ASSUME NEW i \in 1..L, i < mid + 1 PROVE Less(keys[i], value)
            <6>1. i = mid \/ Less(keys[i], keys[mid])
              BY <1>0, <4>2, <5>1 DEF Sorted
            <6> QED BY <1>0, <4>2, <4>5, <6>1, Transitive
          <5>2. ASSUME \A i \in 1..L : i >= high => ~Less(keys[i], value)
                PROVE  /\ at[<<mid + 1, high>>] \in (mid + 1)..high
                       /\ \A i \in 1..L : i < at[<<mid + 1, high>>] <=> Less(keys[i], value)
            BY <4>4, <5>1, <5>2
          <5>3. at[<<low, high>>] = at[<<mid + 1, high>>]
            BY <4>3, <4>5
          <5>4. \A place \in (mid + 1)..high : place \in low..high
            BY <4>2
          <5> QED BY <5>2, <5>3, <5>4
        <4>6. CASE ~Less(keys[mid], value)
          <5>1. ASSUME NEW i \in 1..L, i >= mid PROVE ~Less(keys[i], value)
            <6>1. i = mid \/ Less(keys[mid], keys[i])
              BY <1>0, <4>2, <5>1 DEF Sorted
            <6> QED BY <1>0, <4>2, <4>6, <6>1, Transitive
          <5>2. ASSUME \A i \in 1..L : i < low => Less(keys[i], value)
                PROVE  /\ at[<<low, mid>>] \in low..mid
                       /\ \A i \in 1..L : i < at[<<low, mid>>] <=> Less(keys[i], value)
            BY <4>4, <5>1, <5>2
          <5>3. at[<<low, high>>] = at[<<low, mid>>]
            BY <4>3, <4>6
          <5>4. \A place \in low..mid : place \in low..high
            BY <4>2
          <5> QED BY <5>2, <5>3, <5>4
        <4> QED BY <4>5, <4>6
      <3>3. low < high \/ low >= high
        BY <1>0
      <3> HIDE DEF Split
      <3> QED BY <3>1, <3>2, <3>3
    <2> HIDE DEF Split
    <2> QED BY <2>1
  <1>4. L \in S
    <2>1. S \subseteq 0..L
      OBVIOUS
    <2> HIDE DEF S
    <2> QED BY <1>0, <1>2, <1>3, <2>1, Induction
  <1>5. Split(1, L + 1, Location(keys, value))
    <2>1. 1 \in 1..(L + 1) /\ L + 1 \in 1..(L + 1) /\ 1 <= L + 1 /\ (L + 1) - 1 <= L
      BY <1>0
    <2> HIDE DEF Split
    <2> QED BY <1>1, <1>4, <2>1
  <1> QED BY <1>0, <1>5

\* all is s with e before what was at place.
HasInserted(V, all, s, place, e) ==
  /\ all \in Seq(V)
  /\ Len(all) = Len(s) + 1
  /\ \A j \in 1..(Len(s) + 1) :
       all[j] = IF j < place THEN s[j] ELSE IF j = place THEN e ELSE s[j - 1]

LEMMA Inserted ==
  ASSUME NEW V, NEW s \in Seq(V), NEW place \in 1..(Len(s) + 1), NEW e \in V
  PROVE  HasInserted(V, InsertAt(s, place, e), s, place, e)
  <1> DEFINE front == SubSeq(s, 1, place - 1)
             back == SubSeq(s, place, Len(s))
  <1>0. Len(s) \in Nat /\ \A i \in 1..Len(s) : s[i] \in V
    OBVIOUS
  <1>1. /\ front \in Seq(V) /\ Len(front) = place - 1
        /\ \A i \in 1..(place - 1) : front[i] = s[i]
    <2>1. \A i \in 1..(place - 1) : s[i] \in V
      BY <1>0
    <2>2. 1 \in Int /\ place - 1 \in Int /\ place - 1 >= 0
      BY <1>0
    <2> QED BY <2>1, <2>2, SubSeqProperties
  <1>2. /\ back \in Seq(V) /\ Len(back) = Len(s) - place + 1
        /\ \A i \in 1..(Len(s) - place + 1) : back[i] = s[place + i - 1]
    <2>1. \A i \in place..Len(s) : s[i] \in V
      BY <1>0
    <2>2. place \in Int /\ Len(s) \in Int /\ Len(s) - place + 1 >= 0
      BY <1>0
    <2> QED BY <2>1, <2>2, SubSeqProperties
  <1>3. PICK one : one = <<e>>
    OBVIOUS
  <1>4. one \in Seq(V) /\ Len(one) = 1 /\ one[1] = e
    BY <1>3
  <1> HIDE DEF front, back
  <1>5. PICK start : start = front \o one
    OBVIOUS
  <1>6. /\ start \in Seq(V) /\ Len(start) = place
        /\ \A i \in 1..place : start[i] = IF i < place THEN s[i] ELSE e
    <2>1. /\ start \in Seq(V) /\ Len(start) = Len(front) + Len(one)
          /\ \A i \in 1..(Len(front) + Len(one)) :
               start[i] = IF i <= Len(front) THEN front[i] ELSE one[i - Len(front)]
      BY <1>1, <1>4, <1>5, ConcatProperties
    <2>2. Len(start) = place
      BY <1>1, <1>4, <2>1
    <2>3. ASSUME NEW i \in 1..place PROVE start[i] = IF i < place THEN s[i] ELSE e
      <3>1. start[i] = IF i <= place - 1 THEN front[i] ELSE one[i - (place - 1)]
        BY <1>1, <1>4, <2>1
      <3>2. CASE i < place
        BY <1>1, <3>1, <3>2
      <3>3. CASE i = place
        <4>1. i - (place - 1) = 1
          BY <1>0, <3>3
        <4> QED BY <1>0, <1>4, <3>1, <3>3, <4>1
      <3> QED BY <1>0, <3>2, <3>3
    <2> QED BY <2>1, <2>2, <2>3
  <1>7. PICK all : all = start \o back
    OBVIOUS
  <1>8. /\ all \in Seq(V) /\ Len(all) = Len(start) + Len(back)
        /\ \A j \in 1..(Len(start) + Len(back)) :
             all[j] = IF j <= Len(start) THEN start[j] ELSE back[j - Len(start)]
    BY <1>2, <1>6, <1>7, ConcatProperties
  <1>9. Len(all) = Len(s) + 1
    BY <1>0, <1>2, <1>6, <1>8
  <1>10. InsertAt(s, place, e) = all
    BY <1>3, <1>5, <1>7 DEF InsertAt, front, back
  <1>11. ASSUME NEW j \in 1..(Len(s) + 1)
         PROVE  all[j] = IF j < place THEN s[j] ELSE IF j = place THEN e ELSE s[j - 1]
    <2>1. all[j] = IF j <= place THEN start[j] ELSE back[j - place]
      BY <1>0, <1>2, <1>6, <1>8
    <2>2. CASE j <= place
      BY <1>0, <1>6, <2>1, <2>2
    <2>3. CASE j > place
      <3>1. j - place \in 1..(Len(s) - place + 1) /\ place + (j - place) - 1 = j - 1
        BY <1>0, <2>3
      <3>2. back[j - place] = s[place + (j - place) - 1]
        BY <1>2, <3>1
      <3> QED BY <1>0, <2>1, <2>3, <3>1, <3>2
    <2> QED BY <1>0, <2>2, <2>3
  <1> QED BY <1>8, <1>9, <1>10, <1>11 DEF HasInserted

\* The first key that is greater, where the bootstrap inserts, is where the
\* image inserts.
LEMMA SamePlace ==
  ASSUME NEW keys \in Seq(Symbol), Sorted(keys), NEW index \in Symbol,
         \A i \in 1..Len(keys) : keys[i] # index
  PROVE  First({i \in 1..(Len(keys) + 1) :
                 i = Len(keys) + 1 \/ symbolCmp(index, keys[i]) < 0}) = Location(keys, index)
  <1> DEFINE L == Len(keys)
             I == {i \in 1..(L + 1) : i = L + 1 \/ symbolCmp(index, keys[i]) < 0}
  <1>0. L \in Nat /\ \A i \in 1..L : keys[i] \in Symbol
    OBVIOUS
  <1>1. PICK here : here = Location(keys, index)
    OBVIOUS
  <1>2. here \in 1..(L + 1) /\ \A i \in 1..L : i < here <=> Less(keys[i], index)
    BY <1>1, LocationSplits
  <1>3. \A i \in 1..L : i \in I <=> i >= here
    <2> SUFFICES ASSUME NEW i \in 1..L PROVE i \in I <=> i >= here
      OBVIOUS
    <2>1. i \in I <=> symbolCmp(index, keys[i]) < 0
      BY <1>0
    <2>2. symbolCmp(index, keys[i]) < 0 <=> Less(index, keys[i])
      BY <1>0, OneOrder
    <2>3. Less(index, keys[i]) <=> ~Less(keys[i], index)
      BY <1>0, Trichotomy
    <2>4. i >= here <=> ~(i < here)
      BY <1>0, <1>2
    <2> HIDE DEF I
    <2> QED BY <1>2, <2>1, <2>2, <2>3, <2>4
  <1>4. L + 1 \in I /\ I \in SUBSET (1..(L + 1)) /\ I # {}
    BY <1>0
  <1>5. PICK first : first = First(I)
    OBVIOUS
  <1> HIDE DEF I
  <1>6. first \in I /\ \A j \in I : first <= j
    <2>1. L + 1 \in Nat
      BY <1>0
    <2> HIDE DEF L
    <2> QED BY <1>4, <1>5, <2>1, FirstOf
  <1>7. here \in I
    <2>1. here = L + 1 \/ here \in 1..L
      BY <1>0, <1>2
    <2> QED BY <1>0, <1>3, <1>4, <2>1
  <1>8. first >= here
    <2>1. first \in 1..(L + 1)
      BY <1>4, <1>6
    <2>2. first = L + 1 \/ first \in 1..L
      BY <1>0, <2>1
    <2> QED BY <1>0, <1>2, <1>3, <1>6, <2>2
  <1>9. first = here
    <2>1. first \in 1..(L + 1) /\ first <= here
      BY <1>4, <1>6, <1>7
    <2> QED BY <1>0, <1>2, <1>8, <2>1
  <1> QED BY <1>1, <1>5, <1>9 DEF I

\* A symbol that is put where location: says leaves the keys sorted.
THEOREM InsertionSorts ==
  ASSUME NEW keys \in Seq(Symbol), Sorted(keys), NEW index \in Symbol,
         \A i \in 1..Len(keys) : keys[i] # index
  PROVE  /\ InsertAt(keys, Location(keys, index), index) \in Seq(Symbol)
         /\ Sorted(InsertAt(keys, Location(keys, index), index))
  <1>0. Len(keys) \in Nat /\ \A i \in 1..Len(keys) : keys[i] \in Symbol
    OBVIOUS
  <1>1. PICK here : here = Location(keys, index)
    OBVIOUS
  <1>2. /\ here \in 1..(Len(keys) + 1)
        /\ \A i \in 1..Len(keys) : i < here <=> Less(keys[i], index)
    BY <1>1, LocationSplits
  <1>3. PICK new : new = InsertAt(keys, here, index)
    OBVIOUS
  <1>4. /\ new \in Seq(Symbol) /\ Len(new) = Len(keys) + 1
        /\ \A j \in 1..(Len(keys) + 1) :
             new[j] = IF j < here THEN keys[j] ELSE IF j = here THEN index ELSE keys[j - 1]
    <2>1. HasInserted(Symbol, InsertAt(keys, here, index), keys, here, index)
      BY <1>2, Inserted
    <2> QED BY <1>3, <2>1 DEF HasInserted
  <1>5. \A i \in 1..Len(keys) : i >= here => Less(index, keys[i])
    BY <1>0, <1>2, Trichotomy
  <1>6. ASSUME NEW i \in 1..(Len(keys) + 1), NEW j \in 1..(Len(keys) + 1), i < j
        PROVE  Less(new[i], new[j])
    <2>1. CASE j < here
      <3>1. i \in 1..Len(keys) /\ j \in 1..Len(keys) /\ i < here
        BY <1>0, <1>2, <1>6, <2>1
      <3>2. new[i] = keys[i] /\ new[j] = keys[j]
        BY <1>4, <2>1, <3>1
      <3> QED BY <1>6, <3>1, <3>2 DEF Sorted
    <2>2. CASE j = here
      <3>1. i \in 1..Len(keys) /\ i < here
        BY <1>0, <1>2, <1>6, <2>2
      <3>2. new[i] = keys[i] /\ new[j] = index
        BY <1>4, <2>2, <3>1
      <3> QED BY <1>2, <3>1, <3>2
    <2>3. CASE j > here /\ i = here
      <3>1. j - 1 \in 1..Len(keys) /\ j - 1 >= here
        BY <1>0, <1>2, <2>3
      <3>2. new[i] = index /\ new[j] = keys[j - 1]
        BY <1>2, <1>4, <2>3
      <3> QED BY <1>5, <3>1, <3>2
    <2>4. CASE j > here /\ i < here
      <3>1. i \in 1..Len(keys) /\ j - 1 \in 1..Len(keys) /\ i < j - 1
        BY <1>0, <1>2, <2>4
      <3>2. new[i] = keys[i] /\ new[j] = keys[j - 1]
        BY <1>2, <1>4, <2>4
      <3> QED BY <3>1, <3>2 DEF Sorted
    <2>5. CASE j > here /\ i > here
      <3>1. i - 1 \in 1..Len(keys) /\ j - 1 \in 1..Len(keys) /\ i - 1 < j - 1
        BY <1>0, <1>2, <1>6, <2>5
      <3>2. new[i] = keys[i - 1] /\ new[j] = keys[j - 1]
        BY <1>2, <1>4, <2>5
      <3> QED BY <3>1, <3>2 DEF Sorted
    <2> QED BY <1>0, <1>2, <2>1, <2>2, <2>3, <2>4, <2>5
  <1>7. Sorted(new)
    BY <1>4, <1>6 DEF Sorted
  <1> QED BY <1>1, <1>3, <1>4, <1>7

\* A message whose method the bootstrap has put into a dictionary is found
\* there by the VM, and so is every one that was there before; the dictionary
\* is the one that the image would have made.
THEOREM BootstrapInserts ==
  ASSUME NEW keys \in Seq(Symbol), Sorted(keys), NEW V, NEW values \in Seq(V),
         Len(values) = Len(keys), NEW index \in Symbol, NEW value \in V,
         \A i \in 1..Len(keys) : keys[i] # index
  PROVE  LET new == dictionaryInsert([keys |-> keys, values |-> values], index, value)
             Found(selector) == Element(new.values, Search(new.keys, selector))
         IN  /\ new.keys = InsertAt(keys, Location(keys, index), index)
             /\ Sorted(new.keys)
             /\ Found(index) = value
             /\ \A i \in 1..Len(keys) : Found(keys[i]) = values[i]
  <1>0. Len(keys) \in Nat /\ \A i \in 1..Len(keys) : keys[i] \in Symbol
    OBVIOUS
  <1>1. PICK here : here = Location(keys, index)
    OBVIOUS
  <1>2. here \in 1..(Len(keys) + 1)
    BY <1>1, LocationSplits
  <1>3. PICK K, W : K = InsertAt(keys, here, index) /\ W = InsertAt(values, here, value)
    OBVIOUS
  <1>4. dictionaryInsert([keys |-> keys, values |-> values], index, value)
          = [keys |-> K, values |-> W]
    BY <1>1, <1>3, SamePlace DEF dictionaryInsert
  <1>5. K \in Seq(Symbol) /\ Sorted(K)
    BY <1>1, <1>3, InsertionSorts
  <1>6. /\ Len(K) = Len(keys) + 1
        /\ \A j \in 1..(Len(keys) + 1) :
             K[j] = IF j < here THEN keys[j] ELSE IF j = here THEN index ELSE keys[j - 1]
    <2>1. HasInserted(Symbol, InsertAt(keys, here, index), keys, here, index)
      BY <1>2, Inserted
    <2> QED BY <1>3, <2>1 DEF HasInserted
  <1>7. /\ Len(W) = Len(keys) + 1
        /\ \A j \in 1..(Len(keys) + 1) :
             W[j] = IF j < here THEN values[j] ELSE IF j = here THEN value ELSE values[j - 1]
    <2>0. here \in 1..(Len(values) + 1)
      BY <1>2
    <2>1. HasInserted(V, InsertAt(values, here, value), values, here, value)
      BY <2>0, Inserted
    <2> QED BY <1>3, <2>1 DEF HasInserted
  <1>8. ASSUME NEW j \in 1..(Len(keys) + 1), NEW selector \in Symbol, K[j] = selector
        PROVE  Element(W, Search(K, selector)) = W[j]
    <2>1. PICK mid : mid = Search(K, selector)
      OBVIOUS
    <2>2. mid \in 0..(Len(K) - 1) /\ K[mid + 1] = selector
      BY <1>5, <1>6, <1>8, <2>1, SearchFinds
    <2>3. mid + 1 \in 1..Len(K) /\ j \in 1..Len(K) /\ mid < Len(W)
      BY <1>0, <1>6, <1>7, <2>2
    <2>4. mid + 1 = j
      <3>1. ~Less(selector, selector)
        BY Trichotomy
      <3>2. ~(mid + 1 < j) /\ ~(j < mid + 1)
        BY <1>5, <1>8, <2>2, <2>3, <3>1 DEF Sorted
      <3> QED BY <1>0, <2>2, <3>2
    <2> QED BY <2>1, <2>3, <2>4 DEF Element
  <1>9. Element(W, Search(K, index)) = value
    <2>1. K[here] = index /\ W[here] = value
      BY <1>0, <1>2, <1>6, <1>7
    <2> QED BY <1>2, <1>8, <2>1
  <1>10. ASSUME NEW i \in 1..Len(keys) PROVE Element(W, Search(K, keys[i])) = values[i]
    <2>1. CASE i < here
      <3>1. i \in 1..(Len(keys) + 1) /\ K[i] = keys[i] /\ W[i] = values[i]
        BY <1>0, <1>2, <1>6, <1>7, <2>1
      <3> QED BY <1>0, <1>8, <3>1
    <2>2. CASE i >= here
      <3>1. /\ i + 1 \in 1..(Len(keys) + 1) /\ (i + 1) - 1 = i
            /\ ~(i + 1 < here) /\ i + 1 # here
        BY <1>0, <1>2, <2>2
      <3>2. K[i + 1] = keys[i] /\ W[i + 1] = values[i]
        BY <1>6, <1>7, <3>1
      <3> QED BY <1>0, <1>8, <3>1, <3>2
    <2> QED BY <1>0, <1>2, <2>1, <2>2
  <1>11. dictionaryInsert([keys |-> keys, values |-> values], index, value).keys = K
         /\ dictionaryInsert([keys |-> keys, values |-> values], index, value).values = W
    BY <1>4
  <1> QED BY <1>1, <1>3, <1>5, <1>9, <1>10, <1>11

-----------------------------------------------------------------------------
(***************************************************************************)
(* Messages, dictionaries and the cache                                    *)
(***************************************************************************)
Dicts == [Classes -> [keys : Seq(Symbols), values : Seq(Methods)]]

\* Any message can be looked up in these dictionaries.
InOrder(dicts) == dicts \in Dicts /\ \A c \in Classes : Sorted(dicts[c].keys)
Paired(dict) == Len(dict.keys) = Len(dict.values)

LEMMA SymbolsAreSymbols == \A s \in Symbols : s \in Symbol
  BY LookupAssumption DEF Symbol

LEMMA KeysType ==
  ASSUME NEW dicts, InOrder(dicts), NEW c \in Classes
  PROVE  /\ dicts[c].keys \in Seq(Symbol) /\ dicts[c].keys \in Seq(Symbols)
         /\ dicts[c].values \in Seq(Methods)
         /\ Sorted(dicts[c].keys)
         /\ Len(dicts[c].keys) \in Nat /\ Len(dicts[c].values) \in Nat
         /\ DOMAIN dicts[c].keys = 1..Len(dicts[c].keys)
         /\ \A i \in 1..Len(dicts[c].keys) : dicts[c].keys[i] \in Symbols
         /\ \A i \in 1..Len(dicts[c].values) : dicts[c].values[i] \in Methods
  <1>1. /\ dicts[c] \in [keys : Seq(Symbols), values : Seq(Methods)]
        /\ Sorted(dicts[c].keys)
    BY DEF InOrder, Dicts
  <1>2. PICK keys, values : keys = dicts[c].keys /\ values = dicts[c].values
    OBVIOUS
  <1>3. keys \in Seq(Symbols) /\ values \in Seq(Methods)
    BY <1>1, <1>2
  <1>4. /\ Len(keys) \in Nat /\ Len(values) \in Nat /\ DOMAIN keys = 1..Len(keys)
        /\ \A i \in 1..Len(keys) : keys[i] \in Symbols
        /\ \A i \in 1..Len(values) : values[i] \in Methods
    BY <1>3
  <1>5. Symbols \subseteq Symbol
    BY SymbolsAreSymbols
  <1>6. keys \in Seq(Symbol)
    BY <1>3, <1>5, SeqMonotonic
  <1> QED BY <1>1, <1>2, <1>3, <1>4, <1>6

LEMMA OneKey ==
  ASSUME NEW keys \in Seq(Symbol), Sorted(keys),
         NEW i \in 1..Len(keys), NEW j \in 1..Len(keys), keys[i] = keys[j]
  PROVE  i = j
  <1>1. Len(keys) \in Nat /\ keys[i] \in Symbol
    OBVIOUS
  <1>2. ~Less(keys[i], keys[i])
    BY <1>1, Trichotomy
  <1>3. ~(i < j) /\ ~(j < i)
    BY <1>2 DEF Sorted
  <1> QED BY <1>1, <1>3

\* The search of one dictionary answers what the dictionary holds.
LEMMA SearchAgrees ==
  ASSUME NEW dicts, InOrder(dicts), NEW c \in Classes, NEW s \in Symbols
  PROVE  LET mid == Search(dicts[c].keys, s) IN
           /\ mid = nil <=> ~Holds(dicts, c, s)
           /\ mid # nil => Element(dicts[c].values, mid) \in Methods \cup {Garbage}
           /\ mid # nil /\ Paired(dicts[c]) =>
                /\ Element(dicts[c].values, mid) = At(dicts, c, s)
                /\ Element(dicts[c].values, mid) \in Methods
  <1>1. PICK keys, values : keys = dicts[c].keys /\ values = dicts[c].values
    OBVIOUS
  <1>2. /\ keys \in Seq(Symbol) /\ Sorted(keys)
        /\ Len(keys) \in Nat /\ Len(values) \in Nat /\ DOMAIN keys = 1..Len(keys)
        /\ \A i \in 1..Len(values) : values[i] \in Methods
    BY <1>1, KeysType
  <1>3. s \in Symbol /\ nil \notin Int
    BY SymbolsAreSymbols, NilAssumption
  <1>4. PICK mid : mid = Search(keys, s)
    OBVIOUS
  <1>5. Holds(dicts, c, s) <=> \E i \in 1..Len(keys) : keys[i] = s
    BY <1>1, <1>2 DEF Holds
  <1>6. IF \E i \in 1..Len(keys) : keys[i] = s
        THEN mid \in 0..(Len(keys) - 1) /\ keys[mid + 1] = s
        ELSE mid = nil
    BY <1>2, <1>3, <1>4, SearchFinds
  <1>7. mid = nil <=> ~Holds(dicts, c, s)
    BY <1>2, <1>3, <1>5, <1>6
  <1>8. ASSUME mid # nil PROVE Element(values, mid) \in Methods \cup {Garbage}
    <2>1. mid \in Nat
      BY <1>2, <1>6, <1>8
    <2> QED BY <1>2, <2>1 DEF Element
  <1>9. ASSUME mid # nil, Len(keys) = Len(values)
        PROVE  Element(values, mid) = At(dicts, c, s) /\ Element(values, mid) \in Methods
    <2>1. mid + 1 \in 1..Len(keys) /\ keys[mid + 1] = s /\ mid < Len(values)
      BY <1>2, <1>6, <1>9
    <2>2. PICK i : i = CHOOSE j \in DOMAIN keys : keys[j] = s
      OBVIOUS
    <2>3. i \in 1..Len(keys) /\ keys[i] = s
      BY <1>2, <2>1, <2>2
    <2>4. i = mid + 1
      BY <1>2, <2>1, <2>3, OneKey
    <2>5. At(dicts, c, s) = values[i]
      BY <1>1, <2>2 DEF At
    <2> QED BY <1>2, <1>9, <2>1, <2>4, <2>5 DEF Element
  <1> QED BY <1>1, <1>4, <1>7, <1>8, <1>9 DEF Paired

-----------------------------------------------------------------------------
Answers == Methods \cup {nil, Garbage}

LookupBody(up, dicts, selector, at) ==
  LET c == at[1]
      mid == Search(dicts[c].keys, selector) IN
    IF c = nil \/ at[2] = 0 THEN nil
    ELSE IF mid = nil THEN up[<<parentClass[c], at[2] - 1>>]
    ELSE Element(dicts[c].values, mid)

LEMMA Far == Cardinality(Classes) \in Nat
  BY LookupAssumption, FS_CardinalityType

\* lookupMethod() ends with an answer.
LEMMA LookupDefined ==
  ASSUME NEW dicts, InOrder(dicts), NEW s \in Symbols
  PROVE  \E up :
           /\ \A at \in (Classes \cup {nil}) \X (0..Cardinality(Classes)) :
                up[at] = LookupBody(up, dicts, s, at)
           /\ \A c \in Classes :
                lookupMethod(dicts, parentClass, s, c) = up[<<c, Cardinality(Classes)>>]
  <1> DEFINE R == (Classes \cup {nil}) \X (0..Cardinality(Classes))
             N == Cardinality(Classes)
             size == [at \in R |-> at[2]]
             Step == [z \in R \X [R -> Answers] |-> LookupBody(z[2], dicts, s, z[1])]
             Equation(up) == up = [at \in R |-> LookupBody(up, dicts, s, at)]
  <1>0. N \in Nat /\ DOMAIN dicts = Classes
    BY Far DEF InOrder, Dicts
  <1>1. ASSUME NEW c
        PROVE  lookupMethod(dicts, parentClass, s, c) = (CHOOSE f : Equation(f))[<<c, N>>]
    BY <1>0 DEF lookupMethod, LookupBody
  <1>2. size \in [R -> 0..N]
    OBVIOUS
  <1>3. ASSUME NEW at \in R, NEW f \in [R -> Answers], NEW g \in [R -> Answers],
               \A q \in R : size[q] < size[at] => f[q] = g[q]
        PROVE  /\ LookupBody(f, dicts, s, at) \in Answers
               /\ LookupBody(f, dicts, s, at) = LookupBody(g, dicts, s, at)
    <2>1. at[1] \in Classes \cup {nil} /\ at[2] \in 0..N
      OBVIOUS
    <2>2. CASE at[1] = nil \/ at[2] = 0
      BY <2>2 DEF LookupBody, Answers
    <2>3. CASE at[1] # nil /\ at[2] # 0
      <3>1. PICK c \in Classes : c = at[1]
        BY <2>1, <2>3
      <3>2. PICK mid : mid = Search(dicts[c].keys, s)
        OBVIOUS
      <3>3. \A h : LookupBody(h, dicts, s, at) =
                     IF mid = nil THEN h[<<parentClass[c], at[2] - 1>>]
                     ELSE Element(dicts[c].values, mid)
        BY <2>3, <3>1, <3>2 DEF LookupBody
      <3>4. mid # nil => Element(dicts[c].values, mid) \in Answers
        BY <3>2, SearchAgrees DEF Answers
      <3>5. PICK q : q = <<parentClass[c], at[2] - 1>>
        OBVIOUS
      <3>6. q \in R /\ size[q] < size[at]
        <4>1. parentClass[c] \in Classes \cup {nil}
          BY LookupAssumption
        <4>2. at[2] - 1 \in 0..N /\ at[2] - 1 < at[2]
          BY <1>0, <2>1, <2>3
        <4> QED BY <3>5, <4>1, <4>2
      <3>7. f[q] = g[q] /\ f[q] \in Answers
        BY <1>3, <3>6
      <3> QED BY <3>3, <3>4, <3>5, <3>7
    <2> QED BY <2>2, <2>3
  <1>4. Step \in [R \X [R -> Answers] -> Answers]
    BY <1>3
  <1>5. Descends(R, Answers, size, Step)
    <2> SUFFICES ASSUME NEW at \in R, NEW f \in [R -> Answers], NEW g \in [R -> Answers],
                        \A q \in R : size[q] < size[at] => f[q] = g[q]
                 PROVE  Step[<<at, f>>] = Step[<<at, g>>]
      BY DEF Descends
    <2>1. LookupBody(f, dicts, s, at) = LookupBody(g, dicts, s, at)
      BY <1>3
    <2> QED BY <2>1
  <1>6. HasSolution(R, Answers, Step)
    <2>1. Answers # {}
      BY DEF Answers
    <2> HIDE DEF R, N, size, Step
    <2> QED BY <1>0, <1>2, <1>4, <1>5, <2>1, Recursion
  <1>7. \E up : Equation(up)
    <2>1. PICK up \in [R -> Answers] : \A at \in R : up[at] = Step[<<at, up>>]
      BY <1>6 DEF HasSolution
    <2>2. \A at \in R : up[at] = LookupBody(up, dicts, s, at)
      BY <2>1
    <2>3. up = [at \in R |-> up[at]]
      OBVIOUS
    <2>4. [at \in R |-> up[at]] = [at \in R |-> LookupBody(up, dicts, s, at)]
      BY <2>2
    <2> QED BY <2>3, <2>4
  <1>8. PICK up : up = CHOOSE f : Equation(f)
    OBVIOUS
  <1>9. Equation(up)
    <2> HIDE DEF Equation
    <2> QED BY <1>7, <1>8
  <1>10. \A at \in R : up[at] = LookupBody(up, dicts, s, at)
    BY <1>9
  <1> QED BY <1>1, <1>8, <1>10

\* Dictionaries of which only one has arrays of different lengths give the same
\* answers to the messages that do not come by it.
LEMMA LookupElsewhere ==
  ASSUME NEW dicts, InOrder(dicts), NEW others, InOrder(others), NEW s \in Symbols,
         NEW K \in SUBSET Classes, \A c \in K : parentClass[c] \in K \cup {nil},
         \A c \in K : dicts[c] = others[c], NEW class \in K
  PROVE  lookupMethod(dicts, parentClass, s, class) = lookupMethod(others, parentClass, s, class)
  <1> DEFINE N == Cardinality(Classes)
             R == (Classes \cup {nil}) \X (0..N)
  <1>0. N \in Nat
    BY Far
  <1>1. PICK f : /\ \A at \in R : f[at] = LookupBody(f, dicts, s, at)
                 /\ \A c \in Classes : lookupMethod(dicts, parentClass, s, c) = f[<<c, N>>]
    BY LookupDefined
  <1>2. PICK g : /\ \A at \in R : g[at] = LookupBody(g, others, s, at)
                 /\ \A c \in Classes : lookupMethod(others, parentClass, s, c) = g[<<c, N>>]
    BY LookupDefined
  <1> DEFINE S == {n \in 0..N : \A c \in K \cup {nil} : f[<<c, n>>] = g[<<c, n>>]}
  <1>3. ASSUME NEW n \in 0..N, NEW c \in K \cup {nil}, c = nil \/ n = 0
        PROVE  f[<<c, n>>] = g[<<c, n>>]
    <2>1. <<c, n>> \in R
      OBVIOUS
    <2>2. /\ f[<<c, n>>] = LookupBody(f, dicts, s, <<c, n>>)
          /\ g[<<c, n>>] = LookupBody(g, others, s, <<c, n>>)
      BY <1>1, <1>2, <2>1
    <2> QED BY <1>3, <2>2 DEF LookupBody
  <1>4. 0 \in S
    BY <1>0, <1>3
  <1>5. ASSUME NEW n \in 1..N, n - 1 \in S PROVE n \in S
    <2>1. ASSUME NEW c \in K, c # nil PROVE f[<<c, n>>] = g[<<c, n>>]
      <3>1. <<c, n>> \in R /\ n # 0
        BY <1>0
      <3>2. /\ f[<<c, n>>] = LookupBody(f, dicts, s, <<c, n>>)
            /\ g[<<c, n>>] = LookupBody(g, others, s, <<c, n>>)
        BY <1>1, <1>2, <3>1
      <3>3. f[<<parentClass[c], n - 1>>] = g[<<parentClass[c], n - 1>>]
        BY <1>5
      <3> QED BY <2>1, <3>1, <3>2, <3>3 DEF LookupBody
    <2>2. n \in 0..N
      BY <1>0
    <2>3. \A c \in K \cup {nil} : f[<<c, n>>] = g[<<c, n>>]
      BY <1>3, <2>1, <2>2
    <2> QED BY <2>2, <2>3
  <1>6. N \in S
    <2>1. S \subseteq 0..N
      OBVIOUS
    <2>2. \A n \in 1..N : n - 1 \in S => n \in S
      BY <1>5
    <2> HIDE DEF S, N, R
    <2> QED BY <1>0, <1>4, <2>1, <2>2, Induction
  <1> QED BY <1>1, <1>2, <1>6

LEMMA LookupType ==
  ASSUME NEW dicts, InOrder(dicts), \A c \in Classes : Paired(dicts[c]),
         NEW s \in Symbols, NEW class \in Classes
  PROVE  lookupMethod(dicts, parentClass, s, class) \in Methods \cup {nil}
  <1> DEFINE N == Cardinality(Classes)
             R == (Classes \cup {nil}) \X (0..N)
  <1>0. N \in Nat
    BY Far
  <1>1. PICK f : /\ \A at \in R : f[at] = LookupBody(f, dicts, s, at)
                 /\ \A c \in Classes : lookupMethod(dicts, parentClass, s, c) = f[<<c, N>>]
    BY LookupDefined
  <1> DEFINE S == {n \in 0..N : \A c \in Classes \cup {nil} : f[<<c, n>>] \in Methods \cup {nil}}
  <1>2. ASSUME NEW n \in 0..N, NEW c \in Classes \cup {nil}, c = nil \/ n = 0
        PROVE  f[<<c, n>>] \in Methods \cup {nil}
    <2>1. <<c, n>> \in R
      OBVIOUS
    <2>2. f[<<c, n>>] = LookupBody(f, dicts, s, <<c, n>>)
      BY <1>1, <2>1
    <2> QED BY <1>2, <2>2 DEF LookupBody
  <1>3. 0 \in S
    BY <1>0, <1>2
  <1>4. ASSUME NEW n \in 1..N, n - 1 \in S PROVE n \in S
    <2>1. ASSUME NEW c \in Classes, c # nil PROVE f[<<c, n>>] \in Methods \cup {nil}
      <3>1. <<c, n>> \in R /\ n # 0
        BY <1>0
      <3>2. f[<<c, n>>] = LookupBody(f, dicts, s, <<c, n>>)
        BY <1>1, <3>1
      <3>3. f[<<parentClass[c], n - 1>>] \in Methods \cup {nil}
        <4>1. parentClass[c] \in Classes \cup {nil}
          BY LookupAssumption
        <4> QED BY <1>4, <4>1
      <3>4. PICK mid : mid = Search(dicts[c].keys, s)
        OBVIOUS
      <3>5. mid # nil => Element(dicts[c].values, mid) \in Methods
        BY <3>4, SearchAgrees
      <3> QED BY <2>1, <3>1, <3>2, <3>3, <3>4, <3>5 DEF LookupBody
    <2>2. n \in 0..N
      BY <1>0
    <2>3. \A c \in Classes \cup {nil} : f[<<c, n>>] \in Methods \cup {nil}
      BY <1>2, <2>1, <2>2
    <2> QED BY <2>2, <2>3
  <1>5. N \in S
    <2>1. S \subseteq 0..N
      OBVIOUS
    <2> HIDE DEF S
    <2> QED BY <1>0, <1>3, <1>4, <2>1, Induction
  <1> QED BY <1>1, <1>5

\* lookupMethod() finds what a message means: the nearest method for it.
THEOREM LookupDenotes ==
  ASSUME NEW dicts, InOrder(dicts), \A c \in Classes : Paired(dicts[c]),
         NEW s \in Symbols, NEW class \in Classes
  PROVE  lookupMethod(dicts, parentClass, s, class) = Denoted(dicts, s, class)
  <1> DEFINE N == Cardinality(Classes)
             R == (Classes \cup {nil}) \X (0..N)
             Body(up, at) ==
               LET c == at[1] IN
                 IF c = nil \/ at[2] = 0 THEN nil
                 ELSE IF Holds(dicts, c, s) THEN At(dicts, c, s)
                 ELSE up[<<parentClass[c], at[2] - 1>>]
             Found(up) == up = [at \in R |-> LookupBody(up, dicts, s, at)]
             Meant(up) == up = [at \in R |-> Body(up, at)]
  <1>0. DOMAIN dicts = Classes
    BY DEF InOrder, Dicts
  <1>1. lookupMethod(dicts, parentClass, s, class) = (CHOOSE up : Found(up))[<<class, N>>]
    BY <1>0 DEF lookupMethod, LookupBody
  <1>2. Denoted(dicts, s, class) = (CHOOSE up : Meant(up))[<<class, N>>]
    BY DEF Denoted
  <1>3. ASSUME NEW up, NEW at \in R PROVE LookupBody(up, dicts, s, at) = Body(up, at)
    <2>1. CASE at[1] = nil \/ at[2] = 0
      BY <2>1 DEF LookupBody
    <2>2. CASE at[1] # nil /\ at[2] # 0
      <3>1. PICK c \in Classes : c = at[1]
        BY <2>2
      <3>2. PICK mid : mid = Search(dicts[c].keys, s)
        OBVIOUS
      <3>3. /\ mid = nil <=> ~Holds(dicts, c, s)
            /\ mid # nil => Element(dicts[c].values, mid) = At(dicts, c, s)
        BY <3>2, SearchAgrees
      <3> QED BY <2>2, <3>1, <3>2, <3>3 DEF LookupBody
    <2> QED BY <2>1, <2>2
  <1>4. \A up : [at \in R |-> LookupBody(up, dicts, s, at)] = [at \in R |-> Body(up, at)]
    <2> HIDE DEF R, Body
    <2> QED BY <1>3
  <1>5. \A up : Found(up) <=> Meant(up)
    <2> HIDE DEF R, Body
    <2> QED BY <1>4
  <1>6. (CHOOSE up : Found(up)) = (CHOOSE up : Meant(up))
    <2> HIDE DEF Found, Meant
    <2> QED BY <1>5
  <1> QED BY <1>1, <1>2, <1>6

-----------------------------------------------------------------------------
Complete(dicts) == InOrder(dicts) /\ \A c \in Classes : Paired(dicts[c])

AddingInv ==
  \/ adding = Idle /\ methods = settled
  \/ /\ adding.step = "keys"
     /\ adding.class \in Classes /\ adding.method \in Methods
     /\ \E a \in Additions : a[1] = adding.class
     /\ adding.position \in 1..Len(methods[adding.class].keys)
     /\ Len(methods[adding.class].keys) = Len(methods[adding.class].values) + 1
     /\ \A c \in Classes : c # adding.class => methods[c] = settled[c]
  \/ adding.step = "done" /\ Complete(methods)

CacheInv ==
  /\ cache \in [Slots -> [name : Nat, class : Nat, method : Methods \cup {nil}]]
  /\ \A i \in Slots : cache[i].name # 0 => cache[i].method \in Methods

IInv ==
  /\ InOrder(methods)
  /\ Complete(settled)
  /\ AddingInv
  /\ address \in Layouts
  /\ CacheInv
  /\ method \in Methods \cup {nil}
  /\ ~unseen => CacheAgrees

-----------------------------------------------------------------------------
LEMMA Addresses ==
  ASSUME address \in Layouts, NEW s \in Symbols, NEW c \in Classes
  PROVE  /\ Slot(s, c) \in Slots
         /\ address[s] \in Nat \ {0} /\ address[c] \in Nat \ {0}
  BY LookupAssumption DEF Slot, Slots, Placed

LEMMA OneAddress ==
  ASSUME address \in Layouts, NEW x \in Placed, NEW y \in Placed, address[x] = address[y]
  PROVE  x = y
  BY LookupAssumption

\* But for the moment at which the arrays of a dictionary differ, every class
\* has its methods in pairs.
LEMMA MethodsPaired ==
  ASSUME IInv, NEW c \in Classes, ~(adding.step = "keys" /\ adding.class = c)
  PROVE  Paired(methods[c])
  <1>1. CASE adding = Idle /\ methods = settled
    BY <1>1 DEF IInv, Complete
  <1>2. CASE adding.step = "keys" /\ methods[c] = settled[c]
    BY <1>2 DEF IInv, Complete
  <1>3. CASE adding.step = "done" /\ Complete(methods)
    BY <1>3 DEF Complete
  <1> QED BY <1>1, <1>2, <1>3 DEF IInv, AddingInv

\* The search of a message that may be sent finds what it means.
LEMMA SearchMeans ==
  ASSUME IInv, Untouched, NEW s \in Symbols, NEW c \in Classes, MaySend(s, c)
  PROVE  /\ lookupMethod(methods, parentClass, s, c) \in Meanings(s, c)
         /\ lookupMethod(methods, parentClass, s, c) \in Methods \cup {nil}
  <1>1. CASE adding.step = "keys"
    <2>1. PICK K \in SUBSET Classes :
            /\ \A k \in K : parentClass[k] \in K \cup {nil}
            /\ \A p \in InsertSends : p[2] \in K
            /\ \A a \in Additions : a[1] \notin K
      BY DEF Untouched
    <2>2. c \in K
      BY <1>1, <2>1 DEF MaySend
    <2>3. \A k \in K : methods[k] = settled[k]
      BY <1>1, <2>1 DEF IInv, AddingInv, Idle
    <2>4. lookupMethod(methods, parentClass, s, c) = lookupMethod(settled, parentClass, s, c)
      BY <2>1, <2>2, <2>3, LookupElsewhere DEF IInv, Complete
    <2>5. lookupMethod(settled, parentClass, s, c) = Denoted(settled, s, c)
      BY LookupDenotes DEF IInv, Complete
    <2>6. lookupMethod(settled, parentClass, s, c) \in Methods \cup {nil}
      BY LookupType DEF IInv, Complete
    <2> QED BY <2>4, <2>5, <2>6 DEF Meanings
  <1>2. CASE adding.step # "keys"
    <2>1. \A k \in Classes : Paired(methods[k])
      BY <1>2, MethodsPaired
    <2>2. lookupMethod(methods, parentClass, s, c) = Denoted(methods, s, c)
      BY <2>1, LookupDenotes DEF IInv
    <2>3. lookupMethod(methods, parentClass, s, c) \in Methods \cup {nil}
      BY <2>1, LookupType DEF IInv
    <2> QED BY <1>2, <2>2, <2>3 DEF Meanings
  <1> QED BY <1>1, <1>2

\* So does the cache, unless objects were exchanged.
LEMMA CacheMeans ==
  ASSUME IInv, NEW s \in Symbols, NEW c \in Classes, Hit(s, c)
  PROVE  /\ cache[Slot(s, c)].method \in Methods
         /\ ~unseen => cache[Slot(s, c)].method \in Meanings(s, c)
  <1>1. PICK i : i = Slot(s, c)
    OBVIOUS
  <1>2. /\ i \in Slots /\ cache[i].name = address[s] /\ cache[i].class = address[c]
        /\ cache[i].name # 0
    BY <1>1, Addresses DEF Hit, IInv
  <1>3. cache[i].method \in Methods
    BY <1>2 DEF IInv, CacheInv
  <1>4. ASSUME ~unseen PROVE cache[i].method \in Meanings(s, c)
    <2>1. PICK s1 \in Symbols, c1 \in Classes :
            /\ address[s1] = cache[i].name
            /\ address[c1] = cache[i].class
            /\ cache[i].method \in Meanings(s1, c1)
      BY <1>2, <1>4 DEF IInv, CacheAgrees
    <2>2. s1 = s /\ c1 = c
      BY <1>2, <2>1, OneAddress DEF IInv, Placed
    <2> QED BY <2>1, <2>2
  <1> QED BY <1>1, <1>3, <1>4

LEMMA InitInv == Init => IInv
  <1> SUFFICES ASSUME Init PROVE IInv
    OBVIOUS
  <1>1. Complete(Dictionaries)
    BY LookupAssumption DEF Complete, InOrder, Dicts, Sorted, Paired
  <1>2. InOrder(methods) /\ Complete(settled) /\ AddingInv /\ address \in Layouts
    BY <1>1 DEF Init, Complete, AddingInv
  <1>3. CacheInv /\ CacheAgrees
    BY DEF Init, CacheInv, CacheAgrees
  <1> QED BY <1>2, <1>3 DEF Init, IInv

LEMMA SendInv ==
  ASSUME IInv, Untouched, NEW s \in Symbols, NEW c \in Classes, Send(s, c)
  PROVE  /\ IInv'
         /\ ~unseen => method' \in Meanings(s, c)
  <1>1. UNCHANGED <<methods, address, adding, settled, unseen>> /\ MaySend(s, c)
    BY DEF Send
  <1>2. InOrder(methods') /\ Complete(settled') /\ AddingInv' /\ address' \in Layouts
    BY <1>1 DEF IInv, AddingInv
  <1>3. \A x \in Symbols, k \in Classes : Meanings(x, k)' = Meanings(x, k)
    BY <1>1 DEF Meanings
  <1>4. CASE Hit(s, c)
    <2>1. method' = cache[Slot(s, c)].method /\ UNCHANGED cache
      BY <1>4 DEF Send
    <2>2. CacheInv'
      BY <2>1 DEF IInv, CacheInv
    <2>3. ~unseen' => CacheAgrees'
      BY <1>1, <1>3, <2>1 DEF IInv, CacheAgrees
    <2>4. method' \in Methods /\ (~unseen => method' \in Meanings(s, c))
      BY <1>4, <2>1, CacheMeans
    <2> QED BY <1>2, <2>2, <2>3, <2>4 DEF IInv
  <1>5. CASE ~Hit(s, c)
    <2>1. PICK found : found = lookupMethod(methods, parentClass, s, c)
      OBVIOUS
    <2>2. found \in Meanings(s, c) /\ found \in Methods \cup {nil}
      BY <1>1, <2>1, SearchMeans
    <2>3. method' = found /\ cache' = Filled(s, c, found)
      BY <1>5, <2>1 DEF Send
    <2>4. Slot(s, c) \in Slots /\ address[s] \in Nat /\ address[c] \in Nat
      BY Addresses DEF IInv
    <2>5. PICK entry : entry = [name |-> address[s], class |-> address[c], method |-> found]
      OBVIOUS
    <2>6. \/ cache' = cache
          \/ found \in Methods /\ cache' = [cache EXCEPT ![Slot(s, c)] = entry]
      BY <2>2, <2>3, <2>5 DEF Filled
    <2>7. entry \in [name : Nat, class : Nat, method : Methods \cup {nil}]
      BY <2>2, <2>4, <2>5
    <2>8. CacheInv'
      <3>1. CASE cache' = cache
        BY <3>1 DEF IInv, CacheInv
      <3>2. CASE found \in Methods /\ cache' = [cache EXCEPT ![Slot(s, c)] = entry]
        <4>1. cache' \in [Slots -> [name : Nat, class : Nat, method : Methods \cup {nil}]]
          BY <2>4, <2>7, <3>2 DEF IInv, CacheInv
        <4>2. \A i \in Slots : cache'[i] = IF i = Slot(s, c) THEN entry ELSE cache[i]
          BY <3>2 DEF IInv, CacheInv
        <4>3. entry.method = found
          BY <2>5
        <4> QED BY <3>2, <4>1, <4>2, <4>3 DEF IInv, CacheInv
      <3> QED BY <2>6, <3>1, <3>2
    <2>9. ASSUME ~unseen' PROVE CacheAgrees'
      <3>1. CacheAgrees
        BY <1>1, <2>9 DEF IInv
      <3>2. CASE cache' = cache
        BY <1>1, <1>3, <3>1, <3>2 DEF CacheAgrees
      <3>3. CASE found \in Methods /\ cache' = [cache EXCEPT ![Slot(s, c)] = entry]
        <4>1. \A i \in Slots : cache'[i] = IF i = Slot(s, c) THEN entry ELSE cache[i]
          BY <3>3 DEF IInv, CacheInv
        <4>2. entry.name = address[s] /\ entry.class = address[c] /\ entry.method = found
          BY <2>5
        <4> SUFFICES ASSUME NEW i \in Slots, cache'[i].name # 0
                     PROVE  \E x \in Symbols, k \in Classes :
                              /\ address[x] = cache'[i].name
                              /\ address[k] = cache'[i].class
                              /\ cache'[i].method \in Meanings(x, k)
          BY <1>1, <1>3 DEF CacheAgrees
        <4>3. CASE i = Slot(s, c)
          BY <2>2, <4>1, <4>2, <4>3
        <4>4. CASE i # Slot(s, c)
          BY <3>1, <4>1, <4>4 DEF CacheAgrees
        <4> QED BY <4>3, <4>4
      <3> QED BY <2>6, <3>2, <3>3
    <2> QED BY <1>2, <2>2, <2>3, <2>8, <2>9 DEF IInv
  <1> QED BY <1>4, <1>5

\* A cache without names agrees with everything.
LEMMA FlushedInv ==
  ASSUME CacheInv, cache' = Flushed
  PROVE  CacheInv' /\ CacheAgrees'
  <1>1. \A i \in Slots : cache'[i] = [cache[i] EXCEPT !.name = 0]
    BY DEF Flushed
  <1>2. \A i \in Slots : /\ cache'[i] \in [name : Nat, class : Nat, method : Methods \cup {nil}]
                         /\ cache'[i].name = 0
    <2> SUFFICES ASSUME NEW i \in Slots
                 PROVE  /\ cache'[i] \in [name : Nat, class : Nat, method : Methods \cup {nil}]
                        /\ cache'[i].name = 0
      OBVIOUS
    <2>1. PICK entry \in [name : Nat, class : Nat, method : Methods \cup {nil}] : entry = cache[i]
      BY DEF CacheInv
    <2>2. cache'[i] = [entry EXCEPT !.name = 0]
      BY <1>1, <2>1
    <2> QED BY <2>2
  <1>3. cache' \in [Slots -> [name : Nat, class : Nat, method : Methods \cup {nil}]]
    BY <1>2 DEF Flushed
  <1> QED BY <1>2, <1>3 DEF CacheInv, CacheAgrees

LEMMA CollectInv ==
  ASSUME IInv, Collect
  PROVE  IInv'
  <1>1. CacheInv' /\ CacheAgrees'
    BY FlushedInv DEF IInv, Collect
  <1>2. AddingInv'
    BY DEF IInv, Collect, AddingInv
  <1> QED BY <1>1, <1>2 DEF IInv, Collect

\* A collection of arrays that differ from others in one dictionary
LEMMA OneChanged ==
  ASSUME NEW dicts, InOrder(dicts), NEW c \in Classes,
         NEW keys \in Seq(Symbols), Sorted(keys), NEW values \in Seq(Methods),
         NEW new, new \in Dicts, new[c] = [keys |-> keys, values |-> values],
         \A k \in Classes : k # c => new[k] = dicts[k]
  PROVE  InOrder(new)
  <1>1. ASSUME NEW k \in Classes PROVE Sorted(new[k].keys)
    BY DEF InOrder
  <1> QED BY <1>1 DEF InOrder

LEMMA PutKeyInv ==
  ASSUME IInv, NEW a \in Additions, PutKey(a[1], a[2], a[3])
  PROVE  IInv'
  <1>1. PICK c \in Classes, s \in Symbols, m \in Methods : c = a[1] /\ s = a[2] /\ m = a[3]
    BY LookupAssumption
  <1>2. PICK keys, values, place :
          keys = methods[c].keys /\ values = methods[c].values /\ place = Location(keys, s)
    OBVIOUS
  <1>3. adding = Idle /\ methods = settled
    BY DEF PutKey, IInv, AddingInv, Idle
  <1>4. UNCHANGED <<address, cache, settled, unseen, method>>
    BY DEF PutKey
  <1>5. /\ keys \in Seq(Symbol) /\ keys \in Seq(Symbols) /\ values \in Seq(Methods)
        /\ Sorted(keys) /\ Len(keys) \in Nat /\ Len(values) = Len(keys)
        /\ methods \in Dicts
    BY <1>2, <1>3, KeysType DEF IInv, Complete, InOrder, Paired
  <1>6. /\ place \in 1..(Len(keys) + 1)
        /\ \A i \in 1..Len(keys) : i < place <=> Less(keys[i], s)
    BY <1>2, <1>5, SymbolsAreSymbols, LocationSplits
  <1>7. adding'.step # "keys" =>
          /\ adding'.step = "done"
    BY <1>1 DEF PutKey
  <1>8. CacheInv'
    BY <1>4 DEF IInv, CacheInv
  <1>9. ~unseen' => CacheAgrees'
    <2>1. \A x \in Symbols, k \in Classes : Meanings(x, k) \subseteq Meanings(x, k)'
      BY <1>3, <1>4 DEF Meanings
    <2> QED BY <1>4, <2>1 DEF IInv, CacheAgrees
  <1>10. CASE place <= Len(keys) /\ keys[place] = s
    <2>1. /\ methods' = [methods EXCEPT ![c].values[place] = m]
          /\ adding' = [step |-> "done", class |-> c, position |-> place, method |-> m]
      BY <1>1, <1>2, <1>10 DEF PutKey
    <2>2. PICK new : new = [values EXCEPT ![place] = m]
      OBVIOUS
    <2>3. new \in Seq(Methods) /\ Len(new) = Len(values)
      <3>1. place \in 1..Len(values)
        BY <1>5, <1>6, <1>10
      <3> QED BY <1>5, <2>2, <3>1, ExceptSeq
    <2>4. methods' = [methods EXCEPT ![c] = [keys |-> keys, values |-> new]]
      <3>1. methods[c] = [keys |-> keys, values |-> values]
        BY <1>2, <1>5 DEF Dicts
      <3>2. [methods[c] EXCEPT !.values = new] = [keys |-> keys, values |-> new]
        BY <3>1
      <3>3. methods' = [methods EXCEPT ![c] = [methods[c] EXCEPT !.values = [values EXCEPT ![place] = m]]]
        BY <1>2, <2>1
      <3> QED BY <2>2, <3>2, <3>3
    <2>5. /\ methods' \in Dicts /\ methods'[c] = [keys |-> keys, values |-> new]
          /\ \A k \in Classes : k # c => methods'[k] = methods[k]
      BY <1>5, <2>3, <2>4 DEF Dicts
    <2>6. InOrder(methods')
      BY <1>5, <2>3, <2>5, OneChanged DEF IInv
    <2>7. Complete(methods')
      BY <1>3, <1>5, <2>3, <2>5, <2>6 DEF Complete, Paired, IInv
    <2> QED BY <1>4, <1>8, <1>9, <2>1, <2>6, <2>7 DEF IInv, AddingInv
  <1>11. CASE ~(place <= Len(keys) /\ keys[place] = s)
    <2>1. /\ methods' = [methods EXCEPT ![c].keys = InsertAt(keys, place, s)]
          /\ adding' = [step |-> "keys", class |-> c, position |-> place, method |-> m]
      BY <1>1, <1>2, <1>11 DEF PutKey, KeyInserted
    <2>2. PICK new : new = InsertAt(keys, place, s)
      OBVIOUS
    <2>3. \A i \in 1..Len(keys) : keys[i] # s
      <3> SUFFICES ASSUME NEW i \in 1..Len(keys), keys[i] = s PROVE FALSE
        OBVIOUS
      <3>1. ~Less(s, s)
        BY SymbolsAreSymbols, Trichotomy
      <3>2. ~(i < place)
        BY <1>6, <3>1
      <3>3. place \in 1..Len(keys) /\ place < i
        BY <1>5, <1>6, <1>11, <3>2
      <3>4. Less(keys[place], s)
        BY <1>5, <3>3 DEF Sorted
      <3> QED BY <1>5, <1>6, <3>3, <3>4
    <2>4. new \in Seq(Symbol) /\ Sorted(new)
      BY <1>2, <1>5, <2>2, <2>3, SymbolsAreSymbols, InsertionSorts
    <2>5. HasInserted(Symbols, new, keys, place, s)
      BY <1>5, <1>6, <2>2, Inserted
    <2>6. new \in Seq(Symbols) /\ Len(new) = Len(keys) + 1
      BY <2>5 DEF HasInserted
    <2>7. methods' = [methods EXCEPT ![c] = [keys |-> new, values |-> values]]
      <3>1. methods[c] = [keys |-> keys, values |-> values]
        BY <1>2, <1>5 DEF Dicts
      <3>2. [methods[c] EXCEPT !.keys = new] = [keys |-> new, values |-> values]
        BY <3>1
      <3>3. methods' = [methods EXCEPT ![c] = [methods[c] EXCEPT !.keys = new]]
        BY <2>1, <2>2
      <3> QED BY <3>2, <3>3
    <2>8. /\ methods' \in Dicts /\ methods'[c] = [keys |-> new, values |-> values]
          /\ \A k \in Classes : k # c => methods'[k] = methods[k]
      BY <1>5, <2>6, <2>7 DEF Dicts
    <2>9. InOrder(methods')
      BY <1>5, <2>4, <2>6, <2>8, OneChanged DEF IInv
    <2>10. place \in 1..Len(new)
      BY <1>5, <1>6, <2>6
    <2>11. AddingInv'
      <3>1. /\ adding'.step = "keys" /\ adding'.class = c /\ adding'.method = m
            /\ adding'.position = place
        BY <2>1
      <3>2. methods'[c].keys = new /\ methods'[c].values = values
        BY <2>8
      <3> QED BY <1>1, <1>3, <1>4, <1>5, <2>6, <2>8, <2>10, <3>1, <3>2 DEF AddingInv
    <2> QED BY <1>4, <1>8, <1>9, <2>9, <2>11 DEF IInv
  <1> QED BY <1>10, <1>11

LEMMA PutValueInv ==
  ASSUME IInv, PutValue
  PROVE  IInv'
  <1>1. PICK c, place, m : c = adding.class /\ place = adding.position /\ m = adding.method
    OBVIOUS
  <1>2. PICK keys, values : keys = methods[c].keys /\ values = methods[c].values
    OBVIOUS
  <1>3. /\ c \in Classes /\ m \in Methods
        /\ place \in 1..Len(keys) /\ Len(keys) = Len(values) + 1
        /\ \A k \in Classes : k # c => methods[k] = settled[k]
    BY <1>1, <1>2 DEF PutValue, IInv, AddingInv, Idle
  <1>4. UNCHANGED <<address, cache, settled, unseen, method>>
    BY DEF PutValue
  <1>5. keys \in Seq(Symbols) /\ Sorted(keys) /\ values \in Seq(Methods) /\ methods \in Dicts
    BY <1>2, <1>3, KeysType DEF IInv, InOrder
  <1>6. PICK new : new = InsertAt(values, place, m)
    OBVIOUS
  <1>7. new \in Seq(Methods) /\ Len(new) = Len(values) + 1
    <2>1. place \in 1..(Len(values) + 1)
      BY <1>3
    <2>2. HasInserted(Methods, new, values, place, m)
      BY <1>3, <1>5, <1>6, <2>1, Inserted
    <2> QED BY <2>2 DEF HasInserted
  <1>8. methods' = [methods EXCEPT ![c] = [keys |-> keys, values |-> new]]
    <2>1. methods[c] = [keys |-> keys, values |-> values]
      BY <1>2, <1>3, <1>5 DEF Dicts
    <2>2. methods' = [methods EXCEPT ![c].values = InsertAt(@, place, m)]
      BY <1>1 DEF PutValue
    <2>3. [methods[c] EXCEPT !.values = new] = [keys |-> keys, values |-> new]
      BY <2>1
    <2>4. methods' = [methods EXCEPT ![c] = [methods[c] EXCEPT !.values = InsertAt(values, place, m)]]
      BY <1>2, <2>2
    <2> QED BY <1>6, <2>3, <2>4
  <1>9. /\ methods' \in Dicts /\ methods'[c] = [keys |-> keys, values |-> new]
        /\ \A k \in Classes : k # c => methods'[k] = methods[k]
    BY <1>3, <1>5, <1>7, <1>8 DEF Dicts
  <1>10. InOrder(methods')
    BY <1>3, <1>5, <1>7, <1>9, OneChanged DEF IInv
  <1>11. ASSUME NEW k \in Classes PROVE Paired(methods'[k])
    <2>1. CASE k = c
      BY <1>3, <1>7, <1>9, <2>1 DEF Paired
    <2>2. CASE k # c
      BY <1>1, <1>9, <2>2, MethodsPaired
    <2> QED BY <2>1, <2>2
  <1>12. adding'.step = "done"
    <2>1. adding' = [adding EXCEPT !.step = "done"] /\ adding.step = "keys"
      BY DEF PutValue
    <2> QED BY <2>1
  <1>13. AddingInv'
    BY <1>10, <1>11, <1>12 DEF AddingInv, Complete
  <1>14. CacheInv'
    BY <1>4 DEF IInv, CacheInv
  <1>15. ~unseen' => CacheAgrees'
    <2>1. \A x \in Symbols, k \in Classes : Meanings(x, k) \subseteq Meanings(x, k)'
      BY <1>4 DEF Meanings, PutValue
    <2> QED BY <1>4, <2>1 DEF IInv, CacheAgrees
  <1> QED BY <1>4, <1>10, <1>13, <1>14, <1>15 DEF IInv

LEMMA FlushInv ==
  ASSUME IInv, FlushCache
  PROVE  IInv'
  <1>1. CacheInv' /\ CacheAgrees'
    BY FlushedInv DEF IInv, FlushCache
  <1>2. Complete(methods)
    BY DEF IInv, AddingInv, FlushCache, Idle
  <1>3. AddingInv'
    BY DEF FlushCache, AddingInv
  <1> QED BY <1>1, <1>2, <1>3 DEF IInv, FlushCache

LEMMA ExchangeInv ==
  ASSUME IInv, NEW p \in Exchanges, Exchange(p[1], p[2])
  PROVE  IInv'
  <1>1. PICK a \in Methods, b \in Methods : a = p[1] /\ b = p[2]
    BY LookupAssumption
  <1> DEFINE map(m) == CASE m = a -> b [] m = b -> a [] OTHER -> m
             Mapped(dicts) ==
               [c \in Classes |-> [keys |-> dicts[c].keys,
                                   values |-> [i \in DOMAIN dicts[c].values |->
                                                 map(dicts[c].values[i])]]]
  <1>2. /\ methods' = Mapped(methods) /\ settled' = Mapped(settled) /\ unseen' = TRUE
        /\ UNCHANGED <<address, cache, adding, method>> /\ adding = Idle
    BY <1>1 DEF Exchange
  <1>3. methods = settled
    BY <1>2 DEF IInv, AddingInv, Idle
  <1>4. Complete(methods)
    BY <1>3 DEF IInv
  <1>5. ASSUME NEW c \in Classes
        PROVE  /\ Mapped(methods)[c].keys = methods[c].keys
               /\ Mapped(methods)[c].values \in Seq(Methods)
               /\ Len(Mapped(methods)[c].values) = Len(methods[c].values)
               /\ Mapped(methods)[c] \in [keys : Seq(Symbols), values : Seq(Methods)]
    <2>1. PICK values : values = methods[c].values
      OBVIOUS
    <2>2. values \in Seq(Methods) /\ methods[c].keys \in Seq(Symbols)
      BY <1>4, <2>1, KeysType DEF Complete
    <2>3. PICK new : new = [i \in DOMAIN values |-> map(values[i])]
      OBVIOUS
    <2>4. DOMAIN values = 1..Len(values) /\ Len(values) \in Nat
          /\ \A i \in 1..Len(values) : values[i] \in Methods
      BY <2>2
    <2>5. \A m \in Methods : map(m) \in Methods
      OBVIOUS
    <2>6. new = [i \in 1..Len(values) |-> map(values[i])]
          /\ \A i \in 1..Len(values) : map(values[i]) \in Methods
      BY <2>3, <2>4, <2>5
    <2>7. new \in Seq(Methods) /\ Len(new) = Len(values)
      <3> HIDE DEF map
      <3> QED BY <2>4, <2>6
    <2> QED BY <2>1, <2>2, <2>3, <2>7
  <1> HIDE DEF Mapped
  <1>6. Mapped(methods) \in Dicts
    BY <1>5 DEF Mapped, Dicts
  <1>7. Complete(Mapped(methods))
    BY <1>4, <1>5, <1>6 DEF Complete, InOrder, Paired
  <1>8. Complete(methods') /\ Complete(settled') /\ methods' = settled'
    BY <1>2, <1>3, <1>7
  <1>9. AddingInv' /\ CacheInv'
    BY <1>2, <1>8 DEF AddingInv, IInv, CacheInv
  <1> QED BY <1>2, <1>8, <1>9 DEF IInv, Complete

-----------------------------------------------------------------------------
LEMMA StutterInv ==
  ASSUME IInv, UNCHANGED vars
  PROVE  IInv'
  BY DEF IInv, vars, AddingInv, CacheInv, CacheAgrees, Meanings

LEMMA StepInv ==
  ASSUME IInv, Untouched, [Next]_vars
  PROVE  IInv'
  <1>1. ASSUME NEW s \in Symbols, NEW c \in Classes, Send(s, c) PROVE IInv'
    BY <1>1, SendInv
  <1>2. CASE Collect
    BY <1>2, CollectInv
  <1>3. ASSUME NEW a \in Additions, PutKey(a[1], a[2], a[3]) PROVE IInv'
    BY <1>3, PutKeyInv
  <1>4. CASE PutValue
    BY <1>4, PutValueInv
  <1>5. CASE FlushCache
    BY <1>5, FlushInv
  <1>6. ASSUME NEW p \in Exchanges, Exchange(p[1], p[2]) PROVE IInv'
    BY <1>6, ExchangeInv
  <1>7. CASE UNCHANGED vars
    BY <1>7, StutterInv
  <1> QED BY <1>1, <1>2, <1>3, <1>4, <1>5, <1>6, <1>7 DEF Next

\* When no method is added to a class that at:put: itself depends on, the
\* invariant holds however additions, collections and exchanges follow.
THEOREM Invariance ==
  ASSUME Untouched
  PROVE  Spec => []IInv
  <1>1. Init => IInv
    BY InitInv
  <1>2. IInv /\ [Next]_vars => IInv'
    BY StepInv
  <1> QED BY <1>1, <1>2, PTL DEF Spec

\* What is in the dictionaries, found or held by the cache is a method.
THEOREM LookupTypeCorrectness ==
  ASSUME Untouched
  PROVE  Spec => []TypeOK
  <1>1. ASSUME IInv PROVE TypeOK
    <2>1. \A c \in Classes : methods[c].keys \in Seq(Symbols) /\ methods[c].values \in Seq(Methods)
      BY <1>1, KeysType DEF IInv
    <2>2. adding.step \in {"none", "keys", "done"}
      BY <1>1 DEF IInv, AddingInv, Idle
    <2> QED BY <1>1, <2>1, <2>2 DEF IInv, CacheInv, TypeOK
  <1> QED BY <1>1, Invariance, PTL

\* In every state the dictionaries are in the order that the search of the VM
\* relies on, and keys and values are in pairs but for the one that at:put: is
\* at.
THEOREM StaysSearchable ==
  ASSUME Untouched
  PROVE  Spec => []Searchable
  <1>1. ASSUME IInv PROVE Searchable
    <2> SUFFICES ASSUME NEW c \in Classes
                 PROVE  /\ \A i, j \in DOMAIN methods[c].keys :
                             i < j => symbolcomp(methods[c].keys[i], methods[c].keys[j]) < 0
                        /\ (adding.step = "keys" /\ adding.class = c) \/
                           Len(methods[c].keys) = Len(methods[c].values)
      BY DEF Searchable
    <2>1. PICK keys : keys = methods[c].keys
      OBVIOUS
    <2>2. keys \in Seq(Symbol) /\ Sorted(keys) /\ DOMAIN keys = 1..Len(keys)
      BY <1>1, <2>1, KeysType DEF IInv
    <2>3. ASSUME NEW i \in 1..Len(keys), NEW j \in 1..Len(keys), i < j
          PROVE  symbolcomp(keys[i], keys[j]) < 0
      <3>1. keys[i] \in Symbol /\ keys[j] \in Symbol /\ Less(keys[i], keys[j])
        BY <2>2, <2>3 DEF Sorted
      <3> QED BY <3>1, OneOrder
    <2>4. (adding.step = "keys" /\ adding.class = c) \/ Paired(methods[c])
      BY <1>1, MethodsPaired
    <2> QED BY <2>1, <2>2, <2>3, <2>4 DEF Paired
  <1> QED BY <1>1, Invariance, PTL

\* What the cache holds is what the message means, unless objects were
\* exchanged since it was flushed.
THEOREM CacheAgreement ==
  ASSUME Untouched
  PROVE  Spec => []CacheAgreesOnceFlushed
  <1>1. IInv => CacheAgreesOnceFlushed
    BY DEF IInv, CacheAgreesOnceFlushed
  <1> QED BY <1>1, Invariance, PTL

\* Every message finds what it means, from the cache or by the search, in the
\* middle of an addition as at any other time.
THEOREM SendsFindWhatTheyMean ==
  ASSUME Untouched
  PROVE  Spec => SendsAgree
  <1>1. IInv /\ [Next]_vars =>
          [\A s \in Symbols, c \in Classes :
             (Send(s, c) /\ ~unseen) => method' \in Meanings(s, c)]_vars
    BY SendInv
  <1> QED BY <1>1, Invariance, PTL DEF Spec, SendsAgree
=============================================================================
