---------------------------- MODULE NumbersProofs ----------------------------
(***************************************************************************)
(* For an int of any width, any literals and any messages: every number    *)
(* that is computed has the size of its class; small numbers of either     *)
(* class are added, subtracted, multiplied, divided and compared exactly;  *)
(* and an Integer computes modulo its width.                               *)
(*                                                                         *)
(* The argument is one of sizes.  With Half = 2^(Width - 1) an int is      *)
(* -Half..(Half - 1), the sum of two small numbers is an int and their     *)
(* product fits an Integer, which has Large = 2 * Half^2.  The test of the *)
(* product, that the result divided by one factor gives the other, is      *)
(* right because a wrapped product differs from the true one by a multiple *)
(* of 2 * Half, and the division's rest is less than half of Half.         *)
(***************************************************************************)
EXTENDS Numbers, FiniteRecursion

-----------------------------------------------------------------------------
(***************************************************************************)
(* Powers of two                                                           *)
(***************************************************************************)
Powers(f, n) == [k \in 0..n |-> IF k = 0 THEN 1 ELSE 2 * f[k - 1]]
IsPower(f, n) == f = Powers(f, n)

\* There is a function whose equation is the one of TwoTo.
LEMMA PowerDefined ==
  ASSUME NEW N \in Nat
  PROVE  \E f : IsPower(f, N)
  <1> DEFINE S == {n \in 0..N : \E f : IsPower(f, n)}
  <1>1. 0 \in S
    <2>1. PICK f : f = [k \in 0..0 |-> 1]
      OBVIOUS
    <2>2. IsPower(f, 0)
      BY <2>1 DEF IsPower, Powers
    <2> QED BY <2>2
  <1>2. ASSUME NEW n \in 1..N, n - 1 \in S PROVE n \in S
    <2>1. PICK f : IsPower(f, n - 1)
      BY <1>2
    <2>2. f = [k \in 0..(n - 1) |-> IF k = 0 THEN 1 ELSE 2 * f[k - 1]]
      BY <2>1 DEF IsPower, Powers
    <2>3. PICK g : g = [k \in 0..n |-> IF k = n THEN 2 * f[n - 1] ELSE f[k]]
      OBVIOUS
    <2>4. ASSUME NEW k \in 0..n
          PROVE  g[k] = IF k = 0 THEN 1 ELSE 2 * g[k - 1]
      <3>1. CASE k = n
        <4>1. k # 0 /\ k - 1 \in 0..n /\ k - 1 # n
          BY <3>1
        <4> QED BY <2>3, <3>1, <4>1
      <3>2. CASE k # n
        <4>1. k \in 0..(n - 1) /\ (k # 0 => k - 1 \in 0..n /\ k - 1 # n)
          BY <3>2
        <4> QED BY <2>2, <2>3, <4>1
      <3> QED BY <3>1, <3>2
    <2>5. IsPower(g, n)
      <3>1. g = [k \in 0..n |-> g[k]]
        BY <2>3
      <3> QED BY <2>4, <3>1 DEF IsPower, Powers
    <2> QED BY <2>5
  <1>3. \A n \in 1..N : n - 1 \in S => n \in S
    BY <1>2
  <1> HIDE DEF S
  <1>4. S = 0..N
    <2>1. S \in SUBSET (0..N)
      BY DEF S
    <2> QED BY <1>1, <1>3, <2>1, Induction
  <1> QED BY <1>4 DEF S

\* Two such functions agree as far as both go, and are positive.
LEMMA PowerUnique ==
  ASSUME NEW N \in Nat, NEW M \in Nat, N <= M,
         NEW f, IsPower(f, N), NEW g, IsPower(g, M)
  PROVE  f[N] \in Nat \ {0} /\ f[N] = g[N]
  <1> DEFINE S == {n \in 0..N : f[n] \in Nat \ {0} /\ f[n] = g[n]}
  <1>0. /\ \A k \in 0..N : f[k] = IF k = 0 THEN 1 ELSE 2 * f[k - 1]
        /\ \A k \in 0..N : g[k] = IF k = 0 THEN 1 ELSE 2 * g[k - 1]
    BY DEF IsPower, Powers
  <1>1. 0 \in S
    BY <1>0
  <1>2. \A n \in 1..N : n - 1 \in S => n \in S
    BY <1>0
  <1>3. S \in SUBSET (0..N)
    OBVIOUS
  <1> HIDE DEF S
  <1>4. S = 0..N
    BY <1>1, <1>2, <1>3, Induction
  <1> QED BY <1>4 DEF S

\* TwoTo is the last value of such a function.
LEMMA TwoToIs ==
  ASSUME NEW n \in Nat
  PROVE  \E f : IsPower(f, n) /\ TwoTo(n) = f[n]
  <1>1. TwoTo(n) = (CHOOSE f : IsPower(f, n))[n]
    BY DEF TwoTo, IsPower, Powers
  <1> QED BY <1>1, PowerDefined

\* The equation of TwoTo itself.
LEMMA Doubles ==
  ASSUME NEW n \in Nat
  PROVE  /\ TwoTo(n) \in Nat \ {0}
         /\ TwoTo(0) = 1
         /\ TwoTo(n + 1) = 2 * TwoTo(n)
  <1>1. PICK f : IsPower(f, n) /\ TwoTo(n) = f[n]
    BY TwoToIs
  <1>2. PICK g : IsPower(g, n + 1) /\ TwoTo(n + 1) = g[n + 1]
    BY TwoToIs
  <1>3. PICK e : IsPower(e, 0) /\ TwoTo(0) = e[0]
    BY TwoToIs
  <1>4. f[n] \in Nat \ {0} /\ f[n] = g[n]
    <2>1. n + 1 \in Nat /\ n <= n + 1
      OBVIOUS
    <2> QED BY <1>1, <1>2, <2>1, PowerUnique
  <1>5. g[n + 1] = 2 * g[n]
    BY <1>2 DEF IsPower, Powers
  <1>6. e[0] = 1
    BY <1>3 DEF IsPower, Powers
  <1> QED BY <1>1, <1>2, <1>3, <1>4, <1>5, <1>6

\* 2^(m + n) = 2^m * 2^n
LEMMA PowerOfSum ==
  ASSUME NEW m \in Nat, NEW n \in Nat
  PROVE  TwoTo(m + n) = TwoTo(m) * TwoTo(n)
  <1> DEFINE S == {k \in 0..n : TwoTo(m + k) = TwoTo(m) * TwoTo(k)}
  <1>1. 0 \in S
    BY Doubles
  <1>2. ASSUME NEW k \in 1..n, k - 1 \in S PROVE k \in S
    <2>1. PICK j \in Nat : j = k - 1
      OBVIOUS
    <2>2. m + j \in Nat /\ (m + j) + 1 = m + k /\ j + 1 = k
      BY <2>1
    <2>3. TwoTo(m + j) = TwoTo(m) * TwoTo(j)
      BY <1>2, <2>1
    <2>4. TwoTo(m + k) = 2 * TwoTo(m + j) /\ TwoTo(k) = 2 * TwoTo(j)
      BY <2>1, <2>2, Doubles
    <2>5. TwoTo(m) \in Nat /\ TwoTo(j) \in Nat
      BY <2>1, Doubles
    <2>6. \A a, b \in Nat : 2 * (a * b) = a * (2 * b)
      OBVIOUS
    <2> QED BY <2>3, <2>4, <2>5, <2>6
  <1>3. \A k \in 1..n : k - 1 \in S => k \in S
    BY <1>2
  <1>4. S \in SUBSET (0..n)
    OBVIOUS
  <1> HIDE DEF S
  <1>5. S = 0..n
    BY <1>1, <1>3, <1>4, Induction
  <1> QED BY <1>5 DEF S

-----------------------------------------------------------------------------
(***************************************************************************)
(* Division and conversion                                                 *)
(***************************************************************************)
\* Division by a positive number leaves a rest less than it.
LEMMA Divides ==
  ASSUME NEW n \in Int, NEW d \in Nat \ {0}
  PROVE  /\ n \div d \in Int /\ n % d \in 0..(d - 1)
         /\ n = d * (n \div d) + (n % d)
  OBVIOUS

\* (int)x for an int of 2 * M values
Cast(x, M) == ((x + M) % (2 * M)) - M

\* A cast gives a number of the size.
LEMMA CastType ==
  ASSUME NEW x \in Int, NEW M \in Nat \ {0}
  PROVE  Cast(x, M) \in -M..(M - 1)
  <1>1. 2 * M \in Nat \ {0} /\ x + M \in Int
    OBVIOUS
  <1>2. (x + M) % (2 * M) \in 0..(2 * M - 1)
    BY <1>1, Divides
  <1> QED BY <1>2 DEF Cast

\* It changes no number that has the size.
LEMMA CastSame ==
  ASSUME NEW M \in Nat \ {0}, NEW x \in -M..(M - 1)
  PROVE  Cast(x, M) = x
  <1>1. 2 * M \in Nat \ {0} /\ x + M \in 0..(2 * M - 1)
    OBVIOUS
  <1>2. (x + M) % (2 * M) = x + M
    BY <1>1
  <1> QED BY <1>2 DEF Cast

\* It takes away a multiple of the number of values.
LEMMA CastModulo ==
  ASSUME NEW x \in Int, NEW M \in Nat \ {0}
  PROVE  \E k \in Int : x = Cast(x, M) + 2 * M * k
  <1>1. 2 * M \in Nat \ {0} /\ x + M \in Int
    OBVIOUS
  <1>2. PICK k \in Int : x + M = (2 * M) * k + ((x + M) % (2 * M))
    BY <1>1, Divides
  <1>3. (2 * M) * k \in Int /\ (x + M) % (2 * M) \in Int
    BY <1>1, Divides
  <1>4. x = Cast(x, M) + 2 * M * k
    BY <1>2, <1>3 DEF Cast
  <1> QED BY <1>4

\* The division of C: neither quotient nor rest is larger than the dividend,
\* the rest is less than the divisor, and a divisor but 1 and -1 halves.
LEMMA Truncates ==
  ASSUME NEW x \in Int, NEW y \in Int, y # 0
  PROVE  /\ Quotient(x, y) \in Int /\ Remainder(x, y) \in Int
         /\ Abs(Quotient(x, y)) <= Abs(x)
         /\ Abs(y) # 1 => 2 * Abs(Quotient(x, y)) <= Abs(x)
         /\ Abs(Remainder(x, y)) <= Abs(x)
         /\ Abs(Remainder(x, y)) < Abs(y)
  <1> DEFINE a == Abs(x)
             b == Abs(y)
             q == a \div b
             r == a % b
  <1>1. a \in Nat /\ b \in Nat \ {0}
    BY DEF Abs
  <1> HIDE DEF a, b
  <1>2. q \in Int /\ r \in 0..(b - 1) /\ a = b * q + r
    BY <1>1, Divides
  <1> HIDE DEF q, r
  <1>3. q >= 0
    <2> SUFFICES ASSUME q < 0 PROVE FALSE
      BY <1>2
    <2>1. q <= -1
      BY <1>2
    <2>2. b * q <= -b
      BY <1>1, <1>2, <2>1
    <2> QED BY <1>1, <1>2, <2>2
  <1>4. b * q <= a /\ r <= a /\ q <= a
    <2>1. b * q >= q
      BY <1>1, <1>2, <1>3
    <2>2. b * q \in Int
      BY <1>1, <1>2
    <2> QED BY <1>1, <1>2, <1>3, <2>1, <2>2
  <1>5. Quotient(x, y) = IF (x < 0) = (y < 0) THEN q ELSE -q
    BY DEF Quotient, q, a, b
  <1>6. /\ x = IF x < 0 THEN -a ELSE a
        /\ y = IF y < 0 THEN -b ELSE b
    BY DEF a, b, Abs
  <1>7. Remainder(x, y) = IF x < 0 THEN -r ELSE r
    <2>1. Remainder(x, y) = x - y * Quotient(x, y)
      BY DEF Remainder
    <2>2. /\ (-b) * q = -(b * q) /\ b * (-q) = -(b * q) /\ (-b) * (-q) = b * q
          /\ b * q \in Int
      BY <1>1, <1>2
    <2>3. y * Quotient(x, y) = IF x < 0 THEN -(b * q) ELSE b * q
      BY <1>1, <1>2, <1>5, <1>6, <2>2
    <2> QED BY <1>1, <1>2, <1>6, <2>1, <2>2, <2>3
  <1>8. Quotient(x, y) \in Int /\ Remainder(x, y) \in Int
    BY <1>2, <1>5, <1>7
  <1>9. Abs(Quotient(x, y)) = q
    BY <1>2, <1>3, <1>5 DEF Abs
  <1>10. Abs(Remainder(x, y)) = r
    BY <1>2, <1>7 DEF Abs
  <1>11. b # 1 => 2 * q <= a
    <2>1. b # 1 => b * q >= 2 * q
      BY <1>1, <1>2, <1>3
    <2>2. b * q \in Int
      BY <1>1, <1>2
    <2> QED BY <1>1, <1>2, <1>4, <2>1, <2>2
  <1> QED BY <1>1, <1>2, <1>4, <1>8, <1>9, <1>10, <1>11 DEF a, b

-----------------------------------------------------------------------------
(***************************************************************************)
(* The sizes of the numbers: an int is -Half..(Half - 1), an Integer       *)
(* -Large..(Large - 1), and a SmallInt half an int.                        *)
(***************************************************************************)
Half == TwoTo(Width - 1)
Large == TwoTo(2 * Width - 1)

\* How the sizes are related.
LEMMA Sizes ==
  /\ \E q \in Nat \ {0} : Half = 2 * q
  /\ Half \in Nat \ {0} /\ Large \in Nat \ {0}
  /\ Large = 2 * (Half * Half)
  /\ Large >= 4 * Half
  /\ TwoTo(Width) = 2 * Half /\ TwoTo(2 * Width) = 2 * Large
  <1>1. PICK w \in Nat : Width = w + 2
    <2>1. Width - 2 \in Nat /\ Width = (Width - 2) + 2
      BY NumberAssumption
    <2> QED BY <2>1
  <1>2. PICK q : q = TwoTo(w)
    OBVIOUS
  <1>3. /\ Width - 1 = w + 1 /\ Width = (w + 1) + 1
        /\ 2 * Width - 1 = (w + 1) + ((w + 1) + 1)
        /\ 2 * Width = (2 * Width - 1) + 1
        /\ w + 1 \in Nat /\ (w + 1) + 1 \in Nat /\ 2 * Width - 1 \in Nat
    BY <1>1
  <1>4. q \in Nat \ {0} /\ TwoTo(w + 1) = 2 * q
    BY <1>2, Doubles
  <1>5. Half = 2 * q
    BY <1>3, <1>4 DEF Half
  <1>6. TwoTo(Width) = 2 * Half
    BY <1>3, Doubles DEF Half
  <1>7. Large = Half * TwoTo(Width)
    BY <1>3, PowerOfSum DEF Half, Large
  <1>8. TwoTo(2 * Width) = 2 * Large
    BY <1>3, Doubles DEF Large
  <1>9. Half \in Nat \ {0} /\ Large \in Nat \ {0}
    BY <1>3, Doubles DEF Half, Large
  <1>10. Large = 2 * (Half * Half)
    BY <1>6, <1>7, <1>9
  <1>11. Half * Half >= 2 * Half
    <2>1. Half >= 2
      BY <1>4, <1>5
    <2> QED BY <1>9, <2>1
  <1> QED BY <1>4, <1>5, <1>6, <1>8, <1>9, <1>10, <1>11

\* The intervals in terms of the sizes.
LEMMA Ranges ==
  /\ INT_MIN = -Half /\ INT_MAX = Half - 1
  /\ Ints = -Half..(Half - 1) /\ Wide = -Large..(Large - 1)
  /\ Ints \subseteq Wide
  <1>1. /\ INT_MIN = -Half /\ INT_MAX = Half - 1
        /\ Ints = -Half..(Half - 1) /\ Wide = -Large..(Large - 1)
    BY DEF INT_MIN, INT_MAX, Ints, Wide, Half, Large
  <1> QED BY <1>1, Sizes

\* The two casts of the model, of int and of int64_t.
LEMMA Wraps ==
  ASSUME NEW x \in Int
  PROVE  /\ Wrap(x) \in Ints /\ Wrap64(x) \in Wide
         /\ x \in Ints => Wrap(x) = x
         /\ x \in Wide => Wrap64(x) = x
         /\ \E k \in Int : x = Wrap(x) + 2 * Half * k
  <1>1. Half \in Nat \ {0} /\ Large \in Nat \ {0}
    BY Sizes
  <1>2. Wrap(x) = Cast(x, Half)
    <2>1. x - INT_MIN = x + Half
      BY <1>1, Ranges
    <2>2. Wrap(x) = ((x - INT_MIN) % TwoTo(Width)) + INT_MIN
      BY DEF Wrap
    <2>3. (x + Half) % (2 * Half) \in Int
      <3>1. 2 * Half \in Nat \ {0} /\ x + Half \in Int
        BY <1>1
      <3> QED BY <3>1, Divides
    <2> QED BY <1>1, <2>1, <2>2, <2>3, Sizes, Ranges DEF Cast
  <1>3. Wrap64(x) = Cast(x, Large)
    BY Sizes DEF Wrap64, Cast, Large
  <1>4. Wrap(x) \in Ints /\ Wrap64(x) \in Wide
    BY <1>1, <1>2, <1>3, CastType, Ranges
  <1>5. (x \in Ints => Wrap(x) = x) /\ (x \in Wide => Wrap64(x) = x)
    BY <1>1, <1>2, <1>3, CastSame, Ranges
  <1>6. \E k \in Int : x = Wrap(x) + 2 * Half * k
    <2>1. \E k \in Int : x = Cast(x, Half) + 2 * Half * k
      BY <1>1, CastModulo, Zenon
    <2> QED BY <1>2, <2>1, Zenon
  <1> QED BY <1>4, <1>5, <1>6

\* FITS_SMALLINT() asks whether twice the number is an int.
LEMMA Fits ==
  ASSUME NEW x \in Int
  PROVE  FITS_SMALLINT(x) <=> (-Half <= 2 * x /\ 2 * x < Half)
  <1>1. PICK q \in Nat \ {0} : Half = 2 * q
    BY Sizes
  <1>2. Quotient(INT_MIN, 2) = -q
    <2>1. INT_MIN = -(2 * q)
      BY <1>1, Ranges
    <2>2. (2 * q) \div 2 = q
      OBVIOUS
    <2>3. INT_MIN < 0 /\ Abs(INT_MIN) = 2 * q /\ Abs(2) = 2
      BY <2>1 DEF Abs
    <2> QED BY <2>2, <2>3 DEF Quotient
  <1>3. Quotient(INT_MAX, 2) = q - 1
    <2>1. INT_MAX = 2 * q - 1
      BY <1>1, Ranges
    <2>2. (2 * q - 1) \div 2 = q - 1
      OBVIOUS
    <2>3. ~(INT_MAX < 0) /\ Abs(INT_MAX) = 2 * q - 1 /\ Abs(2) = 2
      BY <2>1 DEF Abs
    <2> QED BY <2>2, <2>3 DEF Quotient
  <1> QED BY <1>1, <1>2, <1>3 DEF FITS_SMALLINT

-----------------------------------------------------------------------------
(***************************************************************************)
(* Answers                                                                 *)
(***************************************************************************)
\* The answer is x, and nothing has failed.
Exact(answer, x) == answer \notin {Fail, Error, Trap} /\ answer.value = x

\* The three ways to make an answer keep the value.
LEMMA NewExact == ASSUME NEW x PROVE Exact(newInteger(x), x)
  BY DEF Exact, newInteger, Fail, Error, Trap

LEMMA NewLExact == ASSUME NEW x \in Wide PROVE Exact(newLInteger(x), x)
  <1>1. PICK y : y = Wrap64(x)
    OBVIOUS
  <1>2. Exact([class |-> "Integer", value |-> y], y)
    BY DEF Exact, Fail, Error, Trap
  <1>3. y = x
    BY <1>1, Wraps DEF Wide
  <1> QED BY <1>1, <1>2, <1>3 DEF newLInteger

LEMMA BooleanExact == ASSUME NEW b PROVE Exact(Boolean(b), b)
  <1>1. Boolean(b).value = b
    BY Zenon DEF Boolean
  <1>2. Boolean(b).class = "Boolean"
    BY DEF Boolean
  <1>3. Boolean(b) \notin {Fail, Error, Trap}
    BY <1>2 DEF Fail, Error, Trap
  <1> QED BY <1>1, <1>3, Zenon DEF Exact

\* The two classes hold an int between them.
LEMMA BoxedExact == ASSUME NEW x \in Ints PROVE Exact(Boxed(x), x)
  <1>1. x \in Wide
    BY Ranges
  <1> QED BY <1>1, NewExact, NewLExact DEF Boxed

\* Small enough for a SmallInt
Small == {x \in Int : -Half <= 2 * x /\ 2 * x < Half}

\* What is small is an int and fits an Integer.
LEMMA SmallIs ==
  ASSUME NEW x \in Small
  PROVE  /\ x \in Int /\ -Half <= 2 * x /\ 2 * x < Half
         /\ x \in Ints /\ x \in Wide
         /\ Abs(x) \in Nat /\ 2 * Abs(x) <= Half
  BY Sizes, Ranges DEF Small, Abs

\* Sums and differences of two small numbers are ints.
LEMMA NearFits ==
  ASSUME NEW high \in Small, NEW low \in Small
  PROVE  \A x \in {high + low, high - low, -high} : x \in Ints /\ x \in Wide /\ x \in Int
  <1>1. /\ high \in Int /\ -Half <= 2 * high /\ 2 * high < Half
        /\ low \in Int /\ -Half <= 2 * low /\ 2 * low < Half
    BY SmallIs
  <1>2. PICK q \in Nat \ {0} : Half = 2 * q
    BY Sizes
  <1>3. /\ high + low \in -Half..(Half - 1)
        /\ high - low \in -Half..(Half - 1)
        /\ -high \in -Half..(Half - 1)
    BY <1>1, <1>2
  <1>4. \A x \in -Half..(Half - 1) : x \in Ints /\ x \in Wide /\ x \in Int
    BY <1>2, Ranges
  <1> HIDE DEF Half
  <1> QED BY <1>3, <1>4

\* Both additions, the primitive and SendBinary, are exact.
LEMMA SumExact ==
  ASSUME NEW high \in Small, NEW low \in Small
  PROVE  /\ Exact(Sum(high, low), high + low)
         /\ Exact(FastSum(high, low), high + low)
  <1>1. high + low \in Ints /\ high + low \in Wide /\ high + low \in Int
    BY NearFits
  <1>2. Wrap(high + low) = high + low
    BY <1>1, Wraps
  <1>3. /\ Exact(Boxed(high + low), high + low)
        /\ Exact(newLInteger(high + low), high + low)
        /\ Exact(newInteger(high + low), high + low)
    BY <1>1, BoxedExact, NewLExact, NewExact
  <1> HIDE DEF Exact, Boxed, newLInteger, newInteger
  <1> QED BY <1>2, <1>3 DEF Sum, FastSum

\* So is the subtraction.
LEMMA DifferenceExact ==
  ASSUME NEW high \in Small, NEW low \in Small
  PROVE  Exact(Difference(high, low), high - low)
  <1>1. high - low \in Ints /\ high - low \in Wide /\ high - low \in Int
    BY NearFits
  <1>2. Wrap(high - low) = high - low
    BY <1>1, Wraps
  <1>3. /\ Exact(Boxed(high - low), high - low)
        /\ Exact(newLInteger(high - low), high - low)
    BY <1>1, BoxedExact, NewLExact
  <1> QED BY <1>2, <1>3 DEF Difference

\* The product of two small numbers fits an Integer.
LEMMA ProductFits ==
  ASSUME NEW high \in Small, NEW low \in Small
  PROVE  high * low \in Int /\ high * low \in Wide
  <1>1. high \in Int /\ low \in Int /\ Half \in Nat \ {0}
    BY SmallIs, Sizes
  <1>2. high \in -Half..Half /\ low \in -Half..Half
    BY <1>1, SmallIs, Ranges
  <1>3. high * low \in Int
    BY <1>1
  <1>4. ASSUME NEW a \in 0..Half, NEW b \in 0..Half
        PROVE  a * b \in Int /\ a * b >= 0 /\ a * b <= Half * Half
    <2>1. a * b <= Half * b
      BY <1>1
    <2>2. Half * b <= Half * Half
      BY <1>1
    <2>3. a * b >= 0 /\ a * b \in Int /\ Half * b \in Int /\ Half * Half \in Int
      BY <1>1
    <2> QED BY <2>1, <2>2, <2>3
  <1>5. PICK a \in 0..Half : high = a \/ high = -a
    BY <1>1, <1>2
  <1>6. PICK b \in 0..Half : low = b \/ low = -b
    BY <1>1, <1>2
  <1>7. high * low = a * b \/ high * low = -(a * b)
    BY <1>5, <1>6
  <1>8. a * b \in Int /\ a * b >= 0 /\ a * b <= Half * Half
    BY <1>4
  <1>9. Half * Half \in Int /\ Half * Half >= 1 /\ Large = 2 * (Half * Half)
    BY <1>1, Sizes
  <1> QED BY <1>3, <1>7, <1>8, <1>9, Ranges

\* The test of the product finds every overflow: if the wrapped product is the
\* true one, it is answered; if not, the quotient differs and the product is
\* made again with the width of an Integer.
LEMMA ProductExact ==
  ASSUME NEW high \in Small, NEW low \in Small, ~Optimised
  PROVE  Exact(Product(high, low), high * low)
  <1> DEFINE p == high * low
             x == Wrap(p)
  <1>1. p \in Int /\ p \in Wide
    BY ProductFits
  <1>2. x \in Ints /\ \E k \in Int : p = x + 2 * Half * k
    BY <1>1, Wraps
  <1>3. high \in Int /\ low \in Int /\ Half \in Nat \ {0} /\ x \in Int
    BY <1>2, SmallIs, Sizes, Ranges
  <1>4. CASE low = 0
    <2>1. p = 0
      BY <1>3, <1>4
    <2>2. x = p
      <3>1. 0 \in Ints /\ 0 \in Int
        BY Sizes, Ranges
      <3>2. Wrap(0) = 0
        BY <3>1, Wraps
      <3> QED BY <2>1, <3>2
    <2>3. Product(high, low) = Boxed(x)
      BY <1>4 DEF Product
    <2> QED BY <1>2, <2>2, <2>3, BoxedExact
  <1>5. CASE low # 0 /\ Quotient(x, low) = high
    <2>1. Abs(x - low * high) < Abs(low)
      BY <1>3, <1>5, Truncates DEF Remainder
    <2>2. low * high = p
      BY <1>3
    <2>3. PICK k \in Int : p = x + 2 * Half * k
      BY <1>2
    <2>4. PICK m \in Int : m = (2 * Half) * k
      BY <1>3
    <2>5. -Half < m /\ m < Half
      <3>1. 2 * Abs(low) <= Half /\ Abs(low) \in Nat
        BY SmallIs
      <3>2. x - p = -m
        BY <1>1, <1>3, <2>3, <2>4
      <3>3. Abs(-m) < Abs(low)
        BY <2>1, <2>2, <3>2
      <3> QED BY <1>3, <3>1, <3>3 DEF Abs
    <2>6. k = 0
      <3>1. k >= 1 => m >= 2 * Half
        BY <1>3, <2>4
      <3>2. k <= -1 => m <= -(2 * Half)
        BY <1>3, <2>4
      <3> QED BY <1>3, <2>5, <3>1, <3>2
    <2>7. x = p
      BY <1>1, <1>3, <2>3, <2>6
    <2>8. ~(low = -1 /\ x = INT_MIN)
      <3>1. -Half <= 2 * high /\ 2 * high < Half
        BY SmallIs
      <3>2. CASE low = -1
        <4>1. x = -high
          BY <1>3, <2>7, <3>2
        <4> QED BY <1>3, <3>1, <4>1, Ranges
      <3> QED BY <3>2
    <2>9. Product(high, low) = Boxed(x)
      <3> HIDE DEF x
      <3> QED BY <1>5, <2>8 DEF Product, Noticed, x
    <2> QED BY <1>2, <2>7, <2>9, BoxedExact
  <1>6. CASE low # 0 /\ Quotient(x, low) # high
    <2>1. ~(low = -1 /\ x = INT_MIN)
      <3>1. -Half <= 2 * high /\ 2 * high < Half
        BY SmallIs
      <3>2. CASE low = -1
        <4>1. p = -high
          BY <1>3, <3>2
        <4>2. x = -high
          <5>1. -high \in Ints /\ -high \in Int
            BY NearFits
          <5>2. Wrap(-high) = -high
            BY <5>1, Wraps
          <5> QED BY <4>1, <5>2
        <4> QED BY <1>3, <3>1, <4>2, Ranges
      <3> QED BY <3>2
    <2>2. Product(high, low) = newLInteger(p)
      <3> HIDE DEF x
      <3> QED BY <1>6, <2>1 DEF Product, Noticed, x
    <2> QED BY <1>1, <2>2, NewLExact
  <1> QED BY <1>4, <1>5, <1>6

\* The divisions are C's.
LEMMA DivisionExact ==
  ASSUME NEW high \in Small, NEW low \in Small, low # 0
  PROVE  /\ Exact(Divided(high, low), Quotient(high, low))
         /\ Exact(Rest(high, low), Remainder(high, low))
  <1>1. ~(high = INT_MIN)
    BY SmallIs, Sizes, Ranges
  <1> QED BY <1>1, NewExact DEF Divided, Rest

-----------------------------------------------------------------------------
(***************************************************************************)
(* Numbers                                                                 *)
(***************************************************************************)
\* A number has one of the two classes and a value of its size.
LEMMA NumberIs ==
  ASSUME NEW v \in Numbers
  PROVE  /\ v.value \in Wide /\ v.value \in Int
         /\ \/ IS_SMALLINT(v) /\ ~IS_INTEGER(v) /\ v.value \in Ints
            \/ IS_INTEGER(v) /\ ~IS_SMALLINT(v)
         /\ v # Error /\ v # Fail /\ v # Trap
  <1>1. CASE \E x \in Ints : v = newInteger(x)
    <2>1. PICK x \in Ints : v = [class |-> "SmallInt", value |-> x]
      BY <1>1 DEF newInteger
    <2>2. x \in Wide /\ x \in Int
      BY Ranges
    <2> QED BY <2>1, <2>2 DEF IS_SMALLINT, IS_INTEGER, Error, Fail, Trap
  <1>2. CASE \E x \in Wide : v = newLInteger(x)
    <2>1. PICK x \in Wide : v = [class |-> "Integer", value |-> Wrap64(x)]
      BY <1>2 DEF newLInteger
    <2>2. x \in Int
      BY Ranges
    <2>3. PICK y \in Wide : y = Wrap64(x)
      BY <2>2, Wraps
    <2>4. v = [class |-> "Integer", value |-> y] /\ y \in Int
      BY <2>1, <2>3, Ranges
    <2> QED BY <2>4 DEF IS_SMALLINT, IS_INTEGER, Error, Fail, Trap
  <1> QED BY <1>1, <1>2 DEF Numbers

\* The three ways to make a number make one.
LEMMA NewIsNumber == ASSUME NEW x \in Ints PROVE newInteger(x) \in Numbers
  BY DEF Numbers

LEMMA NewLIsNumber == ASSUME NEW x \in Int PROVE newLInteger(x) \in Numbers
  <1>1. PICK y \in Wide : y = Wrap64(x)
    BY Wraps
  <1>2. y \in Int
    BY Ranges
  <1>3. Wrap64(y) = y
    BY <1>2, Wraps
  <1>4. newLInteger(x) = newLInteger(y)
    BY <1>1, <1>3 DEF newLInteger
  <1> QED BY <1>4 DEF Numbers

LEMMA BoxedIsNumber == ASSUME NEW x \in Ints PROVE Boxed(x) \in Numbers
  <1>1. x \in Int
    BY Ranges
  <1> QED BY <1>1, NewIsNumber, NewLIsNumber DEF Boxed

\* asInteger and asSmallInt keep the value, and asSmallInt refuses what is
\* larger than an int.
LEMMA AsInteger ==
  ASSUME NEW v \in Numbers
  PROVE  asInteger(v) \in Numbers /\ asInteger(v).value = v.value
  <1>1. PICK x \in Wide : x = v.value
    BY NumberIs
  <1>2. x \in Int
    BY Ranges
  <1>3. Wrap64(x) = x
    BY <1>2, Wraps
  <1>4. newLInteger(x).value = x
    BY <1>3 DEF newLInteger
  <1> QED BY <1>1, <1>2, <1>4, NewLIsNumber DEF asInteger

LEMMA AsSmallInt ==
  ASSUME NEW v \in Numbers
  PROVE  \/ asSmallInt(v) = Error
         \/ /\ asSmallInt(v) \in Numbers
            /\ IS_SMALLINT(asSmallInt(v))
            /\ asSmallInt(v).value \in Ints
            /\ FitsSmall(v) => asSmallInt(v).value = v.value
  <1>1. PICK x \in Int : x = v.value /\ (IS_SMALLINT(v) => x \in Ints)
    BY NumberIs
  <1>2. PICK y \in Ints : y = Wrap(x)
    BY Wraps
  <1>3. CASE IS_SMALLINT(v)
    BY <1>1, <1>3 DEF asSmallInt
  <1>4. CASE ~IS_SMALLINT(v) /\ FITS_SMALLINT(y)
    <2>1. LowOrder(v.value) = newInteger(y) /\ newInteger(y) # Fail
      BY <1>1, <1>2, <1>4 DEF LowOrder, newInteger, Fail
    <2>2. asSmallInt(v) = newInteger(y)
      BY <1>4, <2>1 DEF asSmallInt
    <2>3. IS_SMALLINT(newInteger(y)) /\ newInteger(y).value = y
      BY DEF IS_SMALLINT, newInteger
    <2>4. FITS_SMALLINT(x) => y = x
      <3>1. FITS_SMALLINT(x) => x \in Small
        BY Fits DEF Small
      <3>2. x \in Small => x \in Ints
        BY SmallIs
      <3> QED BY <1>2, <3>1, <3>2, Wraps
    <2> QED BY <1>1, <2>2, <2>3, <2>4, NewIsNumber DEF FitsSmall
  <1>5. CASE ~IS_SMALLINT(v) /\ ~FITS_SMALLINT(y)
    BY <1>1, <1>2, <1>5 DEF asSmallInt, LowOrder
  <1> QED BY <1>3, <1>4, <1>5

\* Of a number that fits a SmallInt asSmallInt keeps the value.
LEMMA SmallFits ==
  ASSUME NEW v \in Numbers, FitsSmall(v)
  PROVE  /\ v.value \in Small
         /\ asSmallInt(v) # Error /\ asSmallInt(v).value = v.value
  <1>1. v.value \in Int
    BY NumberIs
  <1>2. v.value \in Small
    BY <1>1, Fits DEF FitsSmall, Small
  <1>3. PICK x \in Small : x = v.value
    BY <1>2
  <1>4. Wrap(x) = x /\ FITS_SMALLINT(x)
    <2>1. x \in Ints /\ x \in Int
      BY SmallIs
    <2> QED BY <1>3, <2>1, Wraps DEF FitsSmall
  <1>5. v # Error /\ newInteger(x) # Fail /\ newInteger(x) # Error
    BY NumberIs DEF newInteger, Fail, Error
  <1>6. asSmallInt(v) # Error
    BY <1>3, <1>4, <1>5 DEF asSmallInt, LowOrder
  <1> QED BY <1>2, <1>6, AsSmallInt

-----------------------------------------------------------------------------
(***************************************************************************)
(* Messages                                                                *)
(***************************************************************************)
Whole == {"+", "-", "*", "quo:", "rem:", "<", "="}

\* The answer of do_Integer() is the expected value, cut to the width of an
\* Integer when it is a number.
Cut(selector, x) == IF selector \in {"<", "="} THEN x ELSE Wrap64(x)

\* What is expected of each message.
LEMMA ExpectedIs ==
  ASSUME NEW x, NEW y
  PROVE  /\ Expected("+", x, y) = x + y
         /\ Expected("-", x, y) = x - y
         /\ Expected("*", x, y) = x * y
         /\ Expected("quo:", x, y) = Quotient(x, y)
         /\ Expected("rem:", x, y) = Remainder(x, y)
         /\ Expected("<", x, y) = (x < y)
         /\ Expected("=", x, y) = (x = y)
  BY Zenon DEF Expected

\* The primitives on two small numbers answer what is expected.
LEMMA PrimitiveExact ==
  ASSUME NEW high \in Small, NEW low \in Small, ~Optimised,
         NEW selector \in Whole, ~(selector \in {"quo:", "rem:"} /\ low = 0)
  PROVE  Exact(Primitive(selector, high, low), Expected(selector, high, low))
  <1>1. CASE selector = "+"
    <2>1. Primitive(selector, high, low) = Sum(high, low)
      BY <1>1 DEF Primitive
    <2>2. Expected(selector, high, low) = high + low
      BY <1>1, ExpectedIs
    <2>3. Exact(Sum(high, low), high + low)
      BY <1>1, SumExact
    <2> QED BY <2>1, <2>2, <2>3
  <1>2. CASE selector = "-"
    <2>1. Primitive(selector, high, low) = Difference(high, low)
      BY <1>2 DEF Primitive
    <2>2. Expected(selector, high, low) = high - low
      BY <1>2, ExpectedIs
    <2>3. Exact(Difference(high, low), high - low)
      BY <1>2, DifferenceExact
    <2> QED BY <2>1, <2>2, <2>3
  <1>3. CASE selector = "*"
    <2>1. Primitive(selector, high, low) = Product(high, low)
      BY <1>3 DEF Primitive
    <2>2. Expected(selector, high, low) = high * low
      BY <1>3, ExpectedIs
    <2>3. Exact(Product(high, low), high * low)
      BY <1>3, ProductExact
    <2> QED BY <2>1, <2>2, <2>3
  <1>4. CASE selector = "quo:"
    <2>1. Primitive(selector, high, low) = Divided(high, low)
      BY <1>4 DEF Primitive
    <2>2. Expected(selector, high, low) = Quotient(high, low)
      BY <1>4, ExpectedIs
    <2>3. Exact(Divided(high, low), Quotient(high, low))
      BY <1>4, DivisionExact
    <2> QED BY <2>1, <2>2, <2>3
  <1>5. CASE selector = "rem:"
    <2>1. Primitive(selector, high, low) = Rest(high, low)
      BY <1>5 DEF Primitive
    <2>2. Expected(selector, high, low) = Remainder(high, low)
      BY <1>5, ExpectedIs
    <2>3. Exact(Rest(high, low), Remainder(high, low))
      BY <1>5, DivisionExact
    <2> QED BY <2>1, <2>2, <2>3
  <1>6. CASE selector = "<"
    <2>1. Primitive(selector, high, low) = Boolean(high < low)
      BY <1>6, Zenon DEF Primitive
    <2>2. Expected(selector, high, low) = (high < low)
      BY <1>6, Zenon DEF Expected
    <2>3. Exact(Boolean(high < low), high < low)
      BY BooleanExact, Zenon
    <2> QED BY <2>1, <2>2, <2>3, Zenon
  <1>7. CASE selector = "="
    <2>1. Primitive(selector, high, low) = Boolean(high = low)
      BY <1>7, Zenon DEF Primitive
    <2>2. Expected(selector, high, low) = (high = low)
      BY <1>7, ExpectedIs, Zenon
    <2>3. Exact(Boolean(high = low), high = low)
      BY BooleanExact, Zenon
    <2> QED BY <2>1, <2>2, <2>3, Zenon
  <1> QED BY <1>1, <1>2, <1>3, <1>4, <1>5, <1>6, <1>7 DEF Whole

\* Arithmetic of integers gives integers.
LEMMA WholeIs ==
  ASSUME NEW l \in Int, NEW h \in Int
  PROVE  /\ l + h \in Int /\ l - h \in Int /\ l * h \in Int
         /\ h # 0 => Quotient(l, h) \in Int /\ Remainder(l, h) \in Int
  BY Truncates

\* do_Integer() answers what is expected, cut to the width of an Integer.
LEMMA do_IntegerCuts ==
  ASSUME NEW l \in Wide, NEW h \in Wide, NEW selector \in Whole,
         ~(selector \in {"quo:", "rem:"} /\ h = 0),
         do_Integer(selector, l, h) # Trap
  PROVE  Exact(do_Integer(selector, l, h), Cut(selector, Expected(selector, l, h)))
  <1>0. l \in Int /\ h \in Int
    BY Ranges
  <1>l. ASSUME NEW x PROVE Exact(newLInteger(x), Wrap64(x))
    BY DEF newLInteger, Exact, Fail, Error, Trap
  <1>1. CASE selector = "+"
    <2>1. do_Integer(selector, l, h) = newLInteger(l + h)
      BY <1>1 DEF do_Integer
    <2>2. Cut(selector, Expected(selector, l, h)) = Wrap64(l + h)
      BY <1>1, ExpectedIs DEF Cut
    <2> QED BY <2>1, <2>2, <1>l, Zenon
  <1>2. CASE selector = "-"
    <2>1. do_Integer(selector, l, h) = newLInteger(l - h)
      BY <1>2 DEF do_Integer
    <2>2. Cut(selector, Expected(selector, l, h)) = Wrap64(l - h)
      BY <1>2, ExpectedIs DEF Cut
    <2> QED BY <2>1, <2>2, <1>l, Zenon
  <1>3. CASE selector = "*"
    <2>1. do_Integer(selector, l, h) = newLInteger(l * h)
      BY <1>3 DEF do_Integer
    <2>2. Cut(selector, Expected(selector, l, h)) = Wrap64(l * h)
      BY <1>3, ExpectedIs DEF Cut
    <2> QED BY <2>1, <2>2, <1>l, Zenon
  <1>4. CASE selector = "quo:"
    <2>1. do_Integer(selector, l, h) = newLInteger(Quotient(l, h))
      BY <1>0, <1>4 DEF do_Integer
    <2>2. Cut(selector, Expected(selector, l, h)) = Wrap64(Quotient(l, h))
      BY <1>4, ExpectedIs DEF Cut
    <2> QED BY <2>1, <2>2, <1>l, Zenon
  <1>5. CASE selector = "rem:"
    <2>1. do_Integer(selector, l, h) = newLInteger(Remainder(l, h))
      BY <1>0, <1>5 DEF do_Integer
    <2>2. Cut(selector, Expected(selector, l, h)) = Wrap64(Remainder(l, h))
      BY <1>5, ExpectedIs DEF Cut
    <2> QED BY <2>1, <2>2, <1>l, Zenon
  <1>6. CASE selector = "<"
    <2>1. do_Integer(selector, l, h) = Boolean(l < h)
      BY <1>6, Zenon DEF do_Integer
    <2>2. Expected(selector, l, h) = (l < h)
      BY <1>6, Zenon DEF Expected
    <2>3. Cut(selector, Expected(selector, l, h)) = Expected(selector, l, h)
      BY <1>6, Zenon DEF Cut
    <2>4. Exact(Boolean(l < h), l < h)
      BY BooleanExact, Zenon
    <2> QED BY <2>1, <2>2, <2>3, <2>4, Zenon
  <1>7. CASE selector = "="
    <2>1. do_Integer(selector, l, h) = Boolean(l = h)
      BY <1>7, Zenon DEF do_Integer
    <2>2. Expected(selector, l, h) = (l = h)
      BY <1>7, ExpectedIs, Zenon
    <2>3. Cut(selector, Expected(selector, l, h)) = Expected(selector, l, h)
      BY <1>7, Zenon DEF Cut
    <2>4. Exact(Boolean(l = h), l = h)
      BY BooleanExact, Zenon
    <2> QED BY <2>1, <2>2, <2>3, <2>4, Zenon
  <1> QED BY <1>1, <1>2, <1>3, <1>4, <1>5, <1>6, <1>7 DEF Whole

\* Of two small numbers the result fits an Integer, and the machine's division
\* does not overflow.
LEMMA ExpectedFits ==
  ASSUME NEW l \in Small, NEW h \in Small, NEW selector \in Whole,
         ~(selector \in {"quo:", "rem:"} /\ h = 0)
  PROVE  /\ Cut(selector, Expected(selector, l, h)) = Expected(selector, l, h)
         /\ do_Integer(selector, l, h) # Trap
  <1>1. l + h \in Wide /\ l - h \in Wide /\ l * h \in Wide
    BY NearFits, ProductFits
  <1>2. h # 0 => Quotient(l, h) \in Wide /\ Remainder(l, h) \in Wide
    <2>1. l \in Int /\ h \in Int /\ Abs(l) \in Nat /\ 2 * Abs(l) <= Half
      BY SmallIs
    <2>2. Half \in Nat /\ Large \in Nat /\ Large >= 4 * Half /\ Half >= 1
      BY Sizes
    <2>3. \A x \in Int : Abs(x) <= Abs(l) => x \in -Large..(Large - 1)
      BY <2>1, <2>2 DEF Abs
    <2> QED BY <2>1, <2>3, Truncates, Ranges
  <1>3. \A x \in Wide : Wrap64(x) = x
    BY Wraps, Ranges
  <1>4. Cut(selector, Expected(selector, l, h)) = Expected(selector, l, h)
    <2>1. CASE selector \in {"<", "="}
      BY <2>1, Zenon DEF Cut
    <2>2. CASE selector \notin {"<", "="}
      <3>1. Expected(selector, l, h) \in Wide
        BY <1>1, <1>2, <2>2, ExpectedIs DEF Whole
      <3>2. Cut(selector, Expected(selector, l, h)) = Wrap64(Expected(selector, l, h))
        BY <2>2, Zenon DEF Cut
      <3> QED BY <1>3, <3>1, <3>2, Zenon
    <2> QED BY <2>1, <2>2, Zenon
  <1>5. do_Integer(selector, l, h) # Trap
    <2>1. l # Wrap64(Large)
      <3>1. Large \in Nat \ {0} /\ Large >= 4 * Half /\ Half \in Nat \ {0}
        BY Sizes
      <3>2. Wrap64(Large) = -Large
        <4>1. TwoTo(2 * Width) = 2 * Large
          BY Sizes
        <4>2. (Large + Large) % (2 * Large) = 0
          BY <3>1
        <4> QED BY <3>1, <4>1, <4>2 DEF Wrap64, Large
      <3> QED BY <3>1, <3>2, SmallIs
    <2>2. \A x : newLInteger(x) # Trap /\ Boolean(x) # Trap
      BY DEF newLInteger, Boolean, Trap
    <2> QED BY <2>1, <2>2 DEF do_Integer, Whole, Large, Fail, Trap
  <1> QED BY <1>4, <1>5

-----------------------------------------------------------------------------
(***************************************************************************)
(* What a message can answer                                               *)
(***************************************************************************)
Answers == Numbers \cup {Fail, Error, Trap} \cup {Boolean(b) : b \in BOOLEAN}

\* An answer of the class of a number is one.
LEMMA NumberOfAnswers ==
  ASSUME NEW a \in Answers, IS_NUMBER(a) PROVE a \in Numbers
  <1>1. ~IS_NUMBER(Fail) /\ ~IS_NUMBER(Error) /\ ~IS_NUMBER(Trap)
    BY DEF IS_NUMBER, IS_SMALLINT, IS_INTEGER, Fail, Error, Trap
  <1>2. \A b : ~IS_NUMBER(Boolean(b))
    BY DEF IS_NUMBER, IS_SMALLINT, IS_INTEGER, Boolean
  <1> QED BY <1>1, <1>2 DEF Answers

\* Quotient and rest of two ints are ints, but for the one that traps.
LEMMA QuotientIsInt ==
  ASSUME NEW high \in Ints, NEW low \in Ints, low # 0,
         ~(high = INT_MIN /\ low = -1)
  PROVE  Quotient(high, low) \in Ints /\ Remainder(high, low) \in Ints
  <1>1. Half \in Nat \ {0} /\ high \in -Half..(Half - 1) /\ low \in -Half..(Half - 1)
    BY Sizes, Ranges
  <1>2. high \in Int /\ low \in Int
    BY <1>1
  <1>3. Abs(high) \in Nat /\ Abs(high) <= Half /\ Abs(low) <= Half /\ Abs(low) \in Nat
    BY <1>1, <1>2 DEF Abs
  <1>4. Remainder(high, low) \in -Half..(Half - 1)
    <2>1. Remainder(high, low) \in Int /\ Abs(Remainder(high, low)) < Abs(low)
      BY <1>2, Truncates
    <2> QED BY <1>1, <1>3, <2>1 DEF Abs
  <1>5. CASE Abs(low) # 1
    <2>1. Quotient(high, low) \in Int /\ 2 * Abs(Quotient(high, low)) <= Abs(high)
      BY <1>2, <1>5, Truncates
    <2>2. Quotient(high, low) \in -Half..(Half - 1)
      BY <1>1, <1>3, <2>1 DEF Abs
    <2> QED BY <1>4, <2>2, Ranges
  <1>6. CASE Abs(low) = 1
    <2>1. low = 1 \/ low = -1
      BY <1>2, <1>6 DEF Abs
    <2>2. Abs(high) \div 1 = Abs(high)
      BY <1>3
    <2>3. Quotient(high, low) = IF low = 1 THEN high ELSE -high
      BY <1>2, <1>6, <2>1, <2>2 DEF Quotient, Abs
    <2>4. Quotient(high, low) \in -Half..(Half - 1)
      BY <1>1, <1>2, <2>1, <2>3, Ranges
    <2> QED BY <1>4, <2>4, Ranges
  <1> QED BY <1>5, <1>6

\* A shift to the right leaves an int.
LEMMA ShiftedDown ==
  ASSUME NEW x \in Ints, NEW d \in Nat \ {0}
  PROVE  x \div d \in Ints
  <1> DEFINE q == x \div d
  <1>1. x \in Int /\ Half \in Nat \ {0} /\ x \in -Half..(Half - 1)
    BY Sizes, Ranges
  <1>2. q \in Int /\ x % d \in 0..(d - 1) /\ x = d * q + (x % d)
    BY <1>1, Divides
  <1> HIDE DEF q
  <1>3. q >= 0 => d * q >= q
    BY <1>2
  <1>4. q <= -1 => d * (q + 1) <= q + 1
    BY <1>2
  <1>5. d * (q + 1) = d * q + d /\ d * q \in Int
    BY <1>2
  <1>6. q \in -Half..(Half - 1)
    BY <1>1, <1>2, <1>3, <1>4, <1>5
  <1> QED BY <1>6, Ranges DEF q

\* A shift answers an int or fails.
LEMMA ShiftedIsNumber ==
  ASSUME NEW high \in Ints, NEW low \in Ints
  PROVE  Shifted(high, low) \in Answers
  <1>1. high \in Int /\ low \in Int /\ Width \in Nat \ {0}
    BY Ranges, NumberAssumption
  <1>2. (-low) % Width \in Nat /\ low % Width \in Nat
    BY <1>1
  <1>3. TwoTo((-low) % Width) \in Nat \ {0} /\ TwoTo(low % Width) \in Nat \ {0}
    BY <1>2, Doubles
  <1>4. high \div TwoTo((-low) % Width) \in Ints
    BY <1>3, ShiftedDown
  <1>5. Wrap(high * TwoTo(low % Width)) \in Ints
    <2>1. high * TwoTo(low % Width) \in Int
      BY <1>1, <1>3
    <2> QED BY <2>1, Wraps
  <1> QED BY <1>4, <1>5, NewIsNumber DEF Shifted, Answers

\* The primitives on ints, do_Integer() on Integers and the methods that call
\* them answer a number, a Boolean, an error or a trap.
LEMMA PrimitiveAnswers ==
  ASSUME NEW high \in Ints, NEW low \in Ints, NEW selector \in Binary
  PROVE  Primitive(selector, high, low) \in Answers
  <1>1. high \in Int /\ low \in Int
    BY Ranges
  <1>2. high + low \in Int /\ high - low \in Int /\ high * low \in Int
    BY <1>1
  <1>3. \A x \in Int : Wrap(x) \in Ints
    BY Wraps
  <1>4. /\ \A x \in Ints : newInteger(x) \in Answers /\ Boxed(x) \in Answers
        /\ \A x \in Int : newLInteger(x) \in Answers
        /\ Fail \in Answers /\ Trap \in Answers
        /\ \A b \in BOOLEAN : Boolean(b) \in Answers
    BY NewIsNumber, BoxedIsNumber, NewLIsNumber DEF Answers
  <1>5. Sum(high, low) \in Answers
    BY <1>2, <1>3, <1>4 DEF Sum
  <1>6. Difference(high, low) \in Answers
    BY <1>2, <1>3, <1>4 DEF Difference
  <1>7. Product(high, low) \in Answers
    BY <1>2, <1>3, <1>4 DEF Product
  <1>8. Divided(high, low) \in Answers /\ Rest(high, low) \in Answers
    BY <1>4, QuotientIsInt DEF Divided, Rest
  <1>9. Shifted(high, low) \in Answers
    BY ShiftedIsNumber
  <1>10. Boolean(high < low) \in Answers /\ Boolean(high = low) \in Answers
    <2>1. (high < low) \in BOOLEAN /\ (high = low) \in BOOLEAN
      OBVIOUS
    <2> QED BY <1>4, <2>1, Zenon
  <1> QED BY <1>5, <1>6, <1>7, <1>8, <1>9, <1>10, Zenon DEF Primitive, Binary

LEMMA do_IntegerAnswers ==
  ASSUME NEW l \in Int, NEW h \in Int, NEW selector \in Whole
  PROVE  do_Integer(selector, l, h) \in Answers
  <1>1. /\ \A x \in Int : newLInteger(x) \in Answers
        /\ Fail \in Answers /\ Trap \in Answers
    BY NewLIsNumber DEF Answers
  <1>2. /\ newLInteger(l + h) \in Answers
        /\ newLInteger(l - h) \in Answers
        /\ newLInteger(l * h) \in Answers
        /\ h # 0 => /\ newLInteger(Quotient(l, h)) \in Answers
                    /\ newLInteger(Remainder(l, h)) \in Answers
    BY <1>1, WholeIs
  <1>3. Boolean(l < h) \in Answers /\ Boolean(l = h) \in Answers
    <2>1. (l < h) \in BOOLEAN /\ (l = h) \in BOOLEAN
      OBVIOUS
    <2> QED BY <2>1, Zenon DEF Answers
  <1> QED BY <1>1, <1>2, <1>3, Zenon DEF do_Integer, Whole

LEMMA AnsweredIs ==
  ASSUME NEW a \in Answers PROVE Answered(a) \in Answers
  BY DEF Answered, Answers

LEMMA SmallIntSendAnswers ==
  ASSUME NEW self \in Numbers, NEW arg \in Numbers, NEW selector \in Binary,
         IS_SMALLINT(self)
  PROVE  SmallIntSend(selector, self, arg) \in Answers
  <1>1. PICK low : low = asSmallInt(arg)
    OBVIOUS
  <1>2. CASE low = Error
    BY <1>1, <1>2 DEF SmallIntSend, Answers
  <1>3. CASE low # Error
    <2>1. PICK j \in Ints : j = low.value
      BY <1>1, <1>3, AsSmallInt
    <2>2. PICK i \in Ints : i = self.value
      BY NumberIs
    <2>3. FastSum(i, j) \in Answers
      <3>1. i + j \in Int
        BY Ranges
      <3> QED BY <3>1, Wraps, NewIsNumber DEF FastSum, Answers
    <2>4. Answered(Primitive(selector, i, j)) \in Answers
      BY PrimitiveAnswers, AnsweredIs
    <2> QED BY <1>1, <1>3, <2>1, <2>2, <2>3, <2>4 DEF SmallIntSend
  <1> QED BY <1>2, <1>3

LEMMA IntegerSendAnswers ==
  ASSUME NEW self \in Numbers, NEW arg \in Numbers, NEW selector \in Binary
  PROVE  IntegerSend(selector, self, arg) \in Answers
  <1>1. CASE selector = "bitShift:"
    <2>1. CASE asSmallInt(self) = Error
      BY <1>1, <2>1 DEF IntegerSend, Answers
    <2>2. CASE asSmallInt(self) # Error
      <3>1. PICK low \in Numbers : low = asSmallInt(self) /\ IS_SMALLINT(low)
        BY <2>2, AsSmallInt
      <3> QED BY <1>1, <2>2, <3>1, SmallIntSendAnswers DEF IntegerSend
    <2> QED BY <2>1, <2>2
  <1>2. CASE selector # "bitShift:"
    <2>1. PICK l \in Int : l = self.value
      BY NumberIs
    <2>2. PICK h \in Int : h = asInteger(arg).value
      BY AsInteger, NumberIs
    <2>3. selector \in Whole
      BY <1>2 DEF Binary, Whole
    <2> QED BY <1>2, <2>1, <2>2, <2>3, do_IntegerAnswers, AnsweredIs DEF IntegerSend
  <1> QED BY <1>1, <1>2

LEMMA AnswerIs ==
  ASSUME NEW self \in Numbers, NEW arg \in Numbers, NEW selector \in Messages
  PROVE  Answer(selector, self, arg) \in Answers
  <1>1. IS_SMALLINT(self) \/ IS_INTEGER(self)
    BY NumberIs
  <1>2. /\ asInteger(self) \in Answers
        /\ asSmallInt(self) \in Answers
        /\ truncSmallInt(self) \in Answers
    <2>1. truncSmallInt(self) \in Numbers
      BY NumberIs, Wraps, NewIsNumber DEF truncSmallInt
    <2> QED BY <2>1, AsInteger, AsSmallInt DEF Answers
  <1>3. selector \in Binary \/ selector \in Unary
    BY MessageAssumption
  <1> QED BY <1>1, <1>2, <1>3, SmallIntSendAnswers, IntegerSendAnswers, Zenon
       DEF Answer, Unary

(***************************************************************************)
(* The number held is a SmallInt of the size of an int or an Integer of    *)
(* its own size, whatever is sent: no primitive makes another.             *)
(***************************************************************************)
THEOREM TypeCorrectness == Spec => []TypeOK
  <1>1. Init => TypeOK
    BY OperandAssumption DEF Init, TypeOK
  <1>2. TypeOK /\ [Next]_vars => TypeOK'
    <2> SUFFICES ASSUME TypeOK, [Next]_vars PROVE TypeOK'
      OBVIOUS
    <2>1. CASE Next
      <3>1. PICK selector \in Messages, v \in Operands :
              Told(selector, acc, v) \/ Told(selector, v, acc)
        BY <2>1 DEF Next, SendTo, SendWith
      <3>2. acc \in Numbers /\ v \in Numbers
        BY OperandAssumption DEF TypeOK
      <3>3. ASSUME NEW self \in Numbers, NEW arg \in Numbers, Told(selector, self, arg)
            PROVE  acc' \in Numbers
        <4>1. PICK a : a = Answer(selector, self, arg)
          OBVIOUS
        <4>2. acc' = IF IS_NUMBER(a) THEN a ELSE acc
          BY <3>3, <4>1 DEF Told
        <4> QED BY <3>2, <3>3, <4>1, <4>2, AnswerIs, NumberOfAnswers
      <3> QED BY <3>1, <3>2, <3>3 DEF TypeOK
    <2>2. CASE UNCHANGED vars
      BY <2>2 DEF TypeOK, vars
    <2> QED BY <2>1, <2>2
  <1> QED BY <1>1, <1>2, PTL DEF Spec

-----------------------------------------------------------------------------
(***************************************************************************)
(* What a message answers                                                  *)
(***************************************************************************)
\* An exact answer of a primitive is the answer of the method.
LEMMA AnsweredExact ==
  ASSUME NEW a, NEW x, Exact(a, x)
  PROVE  Answered(a) \notin {Error, Trap} /\ Answered(a).value = x
  <1>1. a # Fail /\ a # Error /\ a # Trap /\ a.value = x
    BY Zenon DEF Exact
  <1>2. Answered(a) = a
    BY <1>1, Zenon DEF Answered
  <1> QED BY <1>1, <1>2, Zenon

\* A SmallInt with a number of either class answers what is expected.
LEMMA SmallIntSendIsExpected ==
  ASSUME NEW self \in Numbers, NEW arg \in Numbers, NEW selector \in Whole,
         IS_SMALLINT(self), FitsSmall(self), FitsSmall(arg), ~Optimised
  PROVE  IsExpected(selector, self, arg)
  <1>1. PICK i \in Small : i = self.value
    BY SmallFits
  <1>2. PICK j \in Small : j = arg.value
    BY SmallFits
  <1>3. asSmallInt(arg) # Error /\ asSmallInt(arg).value = j
    BY <1>2, SmallFits
  <1>4. selector \in Binary /\ selector \notin Unary /\ ~IS_INTEGER(self)
    BY NumberIs DEF Whole, Binary, Unary
  <1>5. Answer(selector, self, arg) = SmallIntSend(selector, self, arg)
    BY <1>4 DEF Answer, Unary
  <1>6. CASE DividesByZero(selector, arg)
    <2>1. selector \in {"quo:", "rem:"} /\ j = 0
      BY <1>2, <1>6 DEF DividesByZero
    <2>2. Primitive(selector, i, j) = Fail
      BY <2>1 DEF Primitive, Divided, Rest
    <2>3. SmallIntSend(selector, self, arg) = Error
      BY <1>1, <1>3, <2>1, <2>2 DEF SmallIntSend, Answered
    <2> QED BY <1>5, <1>6, <2>3 DEF IsExpected
  <1>7. CASE ~DividesByZero(selector, arg)
    <2>1. ~(selector \in {"quo:", "rem:"} /\ j = 0)
      BY <1>2, <1>7 DEF DividesByZero
    <2> DEFINE x == Expected(selector, i, j)
               a == Answer(selector, self, arg)
    <2>2. a \notin {Error, Trap} /\ a.value = x
      <3>1. CASE selector = "+"
        <4>1. a = FastSum(i, j)
          BY <1>1, <1>3, <1>5, <3>1 DEF SmallIntSend
        <4>2. Exact(FastSum(i, j), i + j)
          BY SumExact
        <4>3. x = i + j
          BY <3>1, ExpectedIs
        <4> QED BY <4>1, <4>2, <4>3, Zenon DEF Exact
      <3>2. CASE selector # "+"
        <4>1. a = Answered(Primitive(selector, i, j))
          BY <1>1, <1>3, <1>5, <3>2 DEF SmallIntSend
        <4>2. Exact(Primitive(selector, i, j), x)
          BY <2>1, PrimitiveExact, Zenon
        <4> QED BY <4>1, <4>2, AnsweredExact, Zenon
      <3> QED BY <3>1, <3>2, Zenon
    <2> HIDE DEF x, a
    <2>3. x = Expected(selector, self.value, arg.value)
      BY <1>1, <1>2, Zenon DEF x
    <2> QED BY <1>7, <2>2, <2>3, Zenon DEF IsExpected, a
  <1> QED BY <1>6, <1>7

\* The Integer methods convert the argument and call do_Integer().
LEMMA IntegerSendIs ==
  ASSUME NEW self \in Numbers, NEW arg \in Numbers, NEW selector \in Whole,
         IS_INTEGER(self)
  PROVE  Answer(selector, self, arg) =
           Answered(do_Integer(selector, self.value, arg.value))
  <1>1. ~IS_SMALLINT(self)
    BY NumberIs
  <1>2. selector \in Binary /\ selector \notin Unary /\ selector # "bitShift:"
    BY DEF Whole, Binary, Unary
  <1>3. Answer(selector, self, arg) = IntegerSend(selector, self, arg)
    BY <1>1, <1>2 DEF Answer, Unary
  <1> QED BY <1>2, <1>3, AsInteger DEF IntegerSend

\* So does an Integer.
LEMMA IntegerSendIsExpected ==
  ASSUME NEW self \in Numbers, NEW arg \in Numbers, NEW selector \in Whole,
         IS_INTEGER(self), FitsSmall(self), FitsSmall(arg)
  PROVE  IsExpected(selector, self, arg)
  <1>1. PICK l \in Small : l = self.value
    BY SmallFits
  <1>2. PICK h \in Small : h = arg.value
    BY SmallFits
  <1>3. Answer(selector, self, arg) = Answered(do_Integer(selector, l, h))
    BY <1>1, <1>2, IntegerSendIs
  <1>4. CASE DividesByZero(selector, arg)
    <2>1. selector \in {"quo:", "rem:"} /\ h = 0
      BY <1>2, <1>4 DEF DividesByZero
    <2>2. do_Integer(selector, l, h) = Fail
      BY <2>1 DEF do_Integer
    <2> QED BY <1>3, <1>4, <2>2 DEF IsExpected, Answered
  <1>5. CASE ~DividesByZero(selector, arg)
    <2>1. ~(selector \in {"quo:", "rem:"} /\ h = 0)
      BY <1>2, <1>5 DEF DividesByZero
    <2>2. l \in Wide /\ h \in Wide
      BY SmallIs
    <2>3. /\ Cut(selector, Expected(selector, l, h)) = Expected(selector, l, h)
          /\ do_Integer(selector, l, h) # Trap
      BY <2>1, ExpectedFits, Zenon
    <2>4. Exact(do_Integer(selector, l, h), Expected(selector, l, h))
      BY <2>1, <2>2, <2>3, do_IntegerCuts, Zenon
    <2>5. /\ Answer(selector, self, arg) \notin {Error, Trap}
          /\ Answer(selector, self, arg).value = Expected(selector, l, h)
      BY <1>3, <2>4, AnsweredExact, Zenon
    <2>6. Expected(selector, l, h) = Expected(selector, self.value, arg.value)
      BY <1>1, <1>2, Zenon
    <2> QED BY <1>5, <2>5, <2>6, Zenon DEF IsExpected
  <1> QED BY <1>4, <1>5

\* The two numbers of a pair are numbers, and a message of Arithmetic one of
\* the seven.
LEMMA PairsAre ==
  ASSUME TypeOK, NEW p \in Pairs, NEW selector \in Arithmetic
  PROVE  p[1] \in Numbers /\ p[2] \in Numbers /\ selector \in Whole
  <1>1. selector \in Whole
    BY DEF Arithmetic, Binary, Whole
  <1>2. acc \in Numbers /\ Operands \subseteq Numbers
    BY OperandAssumption DEF TypeOK
  <1> QED BY <1>1, <1>2 DEF Pairs

(***************************************************************************)
(* Of two small numbers of either class the seven messages answer exactly  *)
(* what arithmetic without bounds does, whatever was computed before,      *)
(* provided that the compiler lets the tests of src/vm/interp.c for an     *)
(* overflow look at the result.                                            *)
(***************************************************************************)
THEOREM SmallNumbersExact == ~Optimised => (Spec => []SmallExact)
  <1> SUFFICES ASSUME ~Optimised PROVE Spec => []SmallExact
    OBVIOUS
  <1>1. TypeOK => SmallExact
    <2> SUFFICES ASSUME TypeOK, NEW selector \in Arithmetic, NEW p \in Pairs,
                        FitsSmall(p[1]), FitsSmall(p[2])
                 PROVE  IsExpected(selector, p[1], p[2])
      BY Zenon DEF SmallExact
    <2>1. p[1] \in Numbers /\ p[2] \in Numbers /\ selector \in Whole
      BY PairsAre
    <2>2. IS_SMALLINT(p[1]) \/ IS_INTEGER(p[1])
      BY <2>1, NumberIs
    <2> QED BY <2>1, <2>2, SmallIntSendIsExpected, IntegerSendIsExpected
  <1> QED BY <1>1, TypeCorrectness, PTL

(***************************************************************************)
(* An Integer computes modulo its width, with an argument of either class, *)
(* unless it is divided by zero or the machine traps.                      *)
(***************************************************************************)
THEOREM IntegersModulo == Spec => []IntegerExact
  <1>1. TypeOK => IntegerExact
    <2> SUFFICES ASSUME TypeOK, NEW selector \in Arithmetic, NEW p \in Pairs,
                        IS_INTEGER(p[1]), ~DividesByZero(selector, p[2]),
                        Answer(selector, p[1], p[2]) # Trap
                 PROVE  Answer(selector, p[1], p[2]).value =
                          Cut(selector, Expected(selector, p[1].value, p[2].value))
      BY Zenon DEF IntegerExact, Cut
    <2>1. p[1] \in Numbers /\ p[2] \in Numbers /\ selector \in Whole
      BY PairsAre
    <2>2. PICK l \in Wide : l = p[1].value
      BY <2>1, NumberIs
    <2>3. PICK h \in Wide : h = p[2].value
      BY <2>1, NumberIs
    <2>4. Answer(selector, p[1], p[2]) = Answered(do_Integer(selector, l, h))
      BY <2>1, <2>2, <2>3, IntegerSendIs
    <2>5. ~(selector \in {"quo:", "rem:"} /\ h = 0)
      BY <2>3 DEF DividesByZero
    <2>6. do_Integer(selector, l, h) # Trap
      BY <2>4 DEF Answered, Trap, Fail
    <2>7. Exact(do_Integer(selector, l, h), Cut(selector, Expected(selector, l, h)))
      BY <2>1, <2>5, <2>6, do_IntegerCuts, Zenon
    <2> QED BY <2>2, <2>3, <2>4, <2>7, AnsweredExact, Zenon
  <1> QED BY <1>1, TypeCorrectness, PTL
=============================================================================
