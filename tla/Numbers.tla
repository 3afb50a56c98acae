------------------------------ MODULE Numbers ------------------------------
(***************************************************************************)
(* SmallInt and Integer: the primitives 10 to 16 and 25 to 33, 39 and 40   *)
(* and the opcode SendBinary of src/vm/interp.c, do_Integer() of           *)
(* src/vm/prim.c, and the methods of src/smalltalk/system/lst.st that call *)
(* them and take over when they fail.                                      *)
(*                                                                         *)
(* A SmallInt is meant to fit in one bit less than an int of Width bits;   *)
(* the object pointer that holds it is wide enough for any int.  An        *)
(* Integer has twice Width bits.  One accumulator is sent messages, or is  *)
(* the argument of one, over and over, so that a number that should not    *)
(* exist is met again by the operations after the one that made it.        *)
(***************************************************************************)
EXTENDS Integers

CONSTANTS
  Width,        \* bits of an int: 32
  Optimised,    \* the compiler presumes that no int operation overflows
  Operands,     \* literals that occur in the program, of either class
  Messages      \* the messages it sends

ASSUME NumberAssumption == /\ Width \in Nat \ {0, 1}
                           /\ Optimised \in BOOLEAN

\* 2 to the power of n
TwoTo(n) ==
  LET power[k \in 0..n] == IF k = 0 THEN 1 ELSE 2 * power[k - 1] IN power[n]

INT_MAX == TwoTo(Width - 1) - 1
INT_MIN == -TwoTo(Width - 1)
Ints == INT_MIN..INT_MAX
Wide == -TwoTo(2 * Width - 1)..(TwoTo(2 * Width - 1) - 1)

VARIABLES
  acc,         \* the number held
  running      \* FALSE once a trap has ended the process

vars == <<acc, running>>

-----------------------------------------------------------------------------
\* Division of C, which truncates
Abs(x) == IF x < 0 THEN -x ELSE x
Quotient(x, y) == IF (x < 0) = (y < 0) THEN Abs(x) \div Abs(y)
                  ELSE -(Abs(x) \div Abs(y))
Remainder(x, y) == x - y * Quotient(x, y)

\* (int)x and (int64_t)x, as gcc compiles them without optimisation
Wrap(x) == ((x - INT_MIN) % TwoTo(Width)) + INT_MIN
Wrap64(x) == ((x + TwoTo(2 * Width - 1)) % TwoTo(2 * Width)) - TwoTo(2 * Width - 1)

FITS_SMALLINT(x) == x >= Quotient(INT_MIN, 2) /\ x <= Quotient(INT_MAX, 2)

newInteger(x) == [class |-> "SmallInt", value |-> x]
newLInteger(x) == [class |-> "Integer", value |-> Wrap64(x)]
Boxed(x) == IF FITS_SMALLINT(x) THEN newInteger(x) ELSE newLInteger(x)
Boolean(b) == [class |-> "Boolean", value |-> b]

Fail == [class |-> "fail"]         \* the primitive fails
Error == [class |-> "error"]       \* error:, overflow or primitiveFailed
Trap == [class |-> "trap"]         \* the machine's division overflows

IS_SMALLINT(v) == v.class = "SmallInt"
IS_INTEGER(v) == v.class = "Integer"
IS_NUMBER(v) == IS_SMALLINT(v) \/ IS_INTEGER(v)
Numbers == {newInteger(x) : x \in Ints} \cup {newLInteger(x) : x \in Wide}

ASSUME OperandAssumption == Operands \subseteq Numbers

-----------------------------------------------------------------------------
(***************************************************************************)
(* The primitives on two SmallInts.  An overflow of int has no defined     *)
(* result: a test for one that looks at the result does what it says, or   *)
(* is presumed to find none.                                               *)
(***************************************************************************)
Noticed(test) == test /\ ~Optimised

Sum(high, low) ==
  LET x == Wrap(high + low) IN
    IF Noticed(\/ high > 0 /\ low > 0 /\ x < high
               \/ high < 0 /\ low < 0 /\ x > high)
    THEN newLInteger(high + low)
    ELSE Boxed(x)

Difference(high, low) ==
  LET x == Wrap(high - low) IN
    IF Noticed(low > 0 /\ high < 0 /\ x > high) THEN newLInteger(high - low)
    ELSE Boxed(x)

\* Mutant: the overflow is not looked for.
ProductUnchecked(high, low) == Boxed(Wrap(high * low))

Product(high, low) ==
  LET x == Wrap(high * low) IN
    IF low = -1 /\ x = INT_MIN /\ ~Optimised THEN Trap
    ELSE IF low = 0 \/ ~Noticed(Quotient(x, low) # high) THEN Boxed(x)
    ELSE newLInteger(high * low)

Divided(high, low) ==
  IF low = 0 THEN Fail
  ELSE IF high = INT_MIN /\ low = -1 THEN Trap
  ELSE newInteger(Quotient(high, low))

Rest(high, low) ==
  IF low = 0 THEN Fail
  ELSE IF high = INT_MIN /\ low = -1 THEN Trap
  ELSE newInteger(Remainder(high, low))

\* Shift counts are taken modulo the width, as the machine does.
Shifted(high, low) ==
  IF low < 0 THEN newInteger(high \div TwoTo((-low) % Width))
  ELSE LET shifted == Wrap(high * TwoTo(low % Width)) IN
         IF high > shifted THEN Fail ELSE newInteger(shifted)

\* SendBinary, which has no test
FastSum(i, j) == newInteger(Wrap(i + j))

Primitive(selector, high, low) ==
  CASE selector = "+" -> Sum(high, low)
    [] selector = "-" -> Difference(high, low)
    [] selector = "*" -> Product(high, low)
    [] selector = "quo:" -> Divided(high, low)
    [] selector = "rem:" -> Rest(high, low)
    [] selector = "<" -> Boolean(high < low)
    [] selector = "=" -> Boolean(high = low)
    [] selector = "bitShift:" -> Shifted(high, low)

-----------------------------------------------------------------------------
\* Mutant: the operands are taken in the order of the names in do_Integer().
do_IntegerSwapped(selector, l, h) ==
  CASE selector = "-" -> newLInteger(h - l)
    [] selector = "<" -> Boolean(h < l)
    [] OTHER -> newLInteger(l)

\* do_Integer()
do_Integer(selector, l, h) ==
  CASE selector \in {"quo:", "rem:"} /\ h = 0 -> Fail
    [] selector \in {"quo:", "rem:"} /\ h = -1 /\ l = Wrap64(TwoTo(2 * Width - 1)) -> Trap
    [] selector = "quo:" /\ h # 0 -> newLInteger(Quotient(l, h))
    [] selector = "rem:" /\ h # 0 -> newLInteger(Remainder(l, h))
    [] selector = "+" -> newLInteger(l + h)
    [] selector = "*" -> newLInteger(l * h)
    [] selector = "-" -> newLInteger(l - h)
    [] selector = "<" -> Boolean(l < h)
    [] selector = "=" -> Boolean(l = h)

\* Primitive 33, the low half of an Integer
LowOrder(l) ==
  IF FITS_SMALLINT(Wrap(l)) THEN newInteger(Wrap(l)) ELSE Fail

\* asInteger and primitive 32; asSmallInt and primitive 33; truncSmallInt and
\* primitive 40
asInteger(v) == IF IS_SMALLINT(v) THEN newLInteger(v.value) ELSE v
asSmallInt(v) ==
  IF IS_SMALLINT(v) THEN v
  ELSE IF LowOrder(v.value) = Fail THEN Error ELSE LowOrder(v.value)
truncSmallInt(v) == IF IS_SMALLINT(v) THEN v ELSE newInteger(Wrap(v.value))

Answered(answer) == IF answer = Fail THEN Error ELSE answer

\* The methods of SmallInt: an argument that is no SmallInt is converted, and
\* the message sent again; + and < reach SendBinary first.
SmallIntSend(selector, self, arg) ==
  LET low == asSmallInt(arg) IN
    IF low = Error THEN Error
    ELSE IF selector = "+" THEN FastSum(self.value, low.value)
    ELSE Answered(Primitive(selector, self.value, low.value))

\* The methods of Integer convert the argument; bitShift: of Number converts
\* the receiver.
IntegerSend(selector, self, arg) ==
  IF selector = "bitShift:"
  THEN IF asSmallInt(self) = Error THEN Error
       ELSE SmallIntSend(selector, asSmallInt(self), arg)
  ELSE Answered(do_Integer(selector, self.value, asInteger(arg).value))

Binary == {"+", "-", "*", "quo:", "rem:", "<", "=", "bitShift:"}

Unary == {"asInteger", "asSmallInt", "truncSmallInt"}

ASSUME MessageAssumption == Messages \subseteq Binary \cup Unary

Answer(selector, self, arg) ==
  CASE selector = "asInteger" -> asInteger(self)
    [] selector = "asSmallInt" -> asSmallInt(self)
    [] selector = "truncSmallInt" -> truncSmallInt(self)
    [] selector \in Binary /\ IS_SMALLINT(self) ->
         SmallIntSend(selector, self, arg)
    [] selector \in Binary /\ IS_INTEGER(self) ->
         IntegerSend(selector, self, arg)

-----------------------------------------------------------------------------
Init ==
  /\ acc \in Operands
  /\ running = TRUE

Told(selector, self, arg) ==
  LET answer == Answer(selector, self, arg) IN
    /\ running
    /\ acc' = IF IS_NUMBER(answer) THEN answer ELSE acc
    /\ running' = (answer # Trap)

\* The accumulator is the receiver or the argument.
SendTo(selector, arg) == Told(selector, acc, arg)
SendWith(selector, self) == Told(selector, self, acc)

Next ==
  \E selector \in Messages, v \in Operands :
    SendTo(selector, v) \/ SendWith(selector, v)

Spec == Init /\ [][Next]_vars

-----------------------------------------------------------------------------
\* SmallInts are ints and Integers have no more bits than they can hold.
TypeOK == acc \in Numbers

(***************************************************************************)
(* What a message should answer, of numbers without bounds                 *)
(***************************************************************************)
Expected(selector, x, y) ==
  CASE selector = "+" -> x + y
    [] selector = "-" -> x - y
    [] selector = "*" -> x * y
    [] selector = "quo:" -> Quotient(x, y)
    [] selector = "rem:" -> Remainder(x, y)
    [] selector = "<" -> x < y
    [] selector = "=" -> x = y
    [] selector = "bitShift:" -> IF y >= 0 THEN x * TwoTo(y) ELSE x \div TwoTo(-y)
    [] OTHER -> x

DividesByZero(selector, arg) ==
  selector \in {"quo:", "rem:"} /\ arg.value = 0

IsExpected(selector, self, arg) ==
  LET answer == Answer(selector, self, arg) IN
    IF DividesByZero(selector, arg) THEN answer = Error
    ELSE /\ answer \notin {Error, Trap}
         /\ answer.value = Expected(selector, self.value, arg.value)

Arithmetic == Messages \cap (Binary \ {"bitShift:"})
FitsSmall(v) == FITS_SMALLINT(v.value)

\* The messages that can be sent next, with the number held on either side
Pairs == {<<acc, v>> : v \in Operands} \cup {<<v, acc>> : v \in Operands}

\* Two numbers small enough for a SmallInt, of whichever class, give exactly
\* their sum, difference, product, quotient, remainder and order, whatever was
\* computed before; only a division by zero is an error.
SmallExact ==
  \A selector \in Arithmetic : \A p \in Pairs :
    (FitsSmall(p[1]) /\ FitsSmall(p[2])) => IsExpected(selector, p[1], p[2])

\* An Integer computes modulo its width, with an argument of either class.
IntegerExact ==
  \A selector \in Arithmetic : \A p \in Pairs :
    LET answer == Answer(selector, p[1], p[2])
        expected == Expected(selector, p[1].value, p[2].value)
    IN  (IS_INTEGER(p[1]) /\ ~DividesByZero(selector, p[2]) /\ answer # Trap)
        => answer.value = IF selector \in {"<", "="} THEN expected
                          ELSE Wrap64(expected)

\* "encoded as 31 bits, signed" (src/vm/memory.h)
SmallIntsFit == IS_SMALLINT(acc) => FitsSmall(acc)

\* "asSmallInt  <33 self>.  self overflow": a number that is too large is an
\* error, and any other keeps its value.
ConversionExact ==
  LET answer == asSmallInt(acc) IN answer = Error \/ answer.value = acc.value

\* "Shift left--catch overflow": a shift to the left is exact or fails.
ShiftExact ==
  \A p \in Pairs :
    ( /\ FitsSmall(p[1])
      /\ p[2].value \in Nat
      /\ Answer("bitShift:", p[1], p[2]) # Error ) =>
    IsExpected("bitShift:", p[1], p[2])
=============================================================================
