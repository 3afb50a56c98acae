---------------------------- MODULE BulkReplace ----------------------------
(***************************************************************************)
(* replaceFrom:to:with:startingAt: of src/smalltalk/system/lst.st: the     *)
(* primitive 38 and bulkReplace() of src/vm/interp.c, which copies in one  *)
(* move, and the loop in Smalltalk that takes over when it fails.          *)
(*                                                                         *)
(* An array is the sequence of its elements.                               *)
(***************************************************************************)
EXTENDS Integers, Sequences

CONSTANTS
  Arrays,
  First,         \* array -> its elements at first
  binary,        \* the arrays of bytes
  dynamic,       \* the arrays in dynamic memory
  Stops,         \* values of stop in the program
  Starts         \* values of start and of repStart

ASSUME ReplaceAssumption ==
  /\ First \in [Arrays -> Seq(Int)]
  /\ Arrays \cap Int = {}      \* an object is no SmallInt
  /\ binary \subseteq Arrays /\ dynamic \subseteq Arrays
  /\ Stops \subseteq Int /\ Starts \subseteq Int

VARIABLE data    \* array -> its elements

Init == data = First

SIZE(a) == Len(data[a])
IS_SMALLINT(x) == x \in Int

\* Mutant: the source is not checked against its size.
RefusesUnchecked(dest, start, stop, src, repStart) ==
  \/ repStart - 1 < 0 \/ start - 1 < 0 \/ stop - 1 < 0 \/ stop - start + 1 < 1
  \/ SIZE(dest) < stop - 1
  \/ (src \in binary) # (dest \in binary)
  \/ src \notin binary /\ (src \in dynamic) # (dest \in dynamic)

\* The ways in which bulkReplace() returns 1
Refuses(dest, start, stop, src, repStart) ==
  LET irepStart == repStart - 1
      istart == start - 1
      istop == stop - 1
      count == (istop - istart) + 1
  IN  \/ ~IS_SMALLINT(repStart) \/ ~IS_SMALLINT(start) \/ ~IS_SMALLINT(stop)
      \/ irepStart < 0 \/ istart < 0 \/ istop < 0 \/ count < 1
      \/ SIZE(dest) < istop \/ SIZE(src) < irepStart + count
      \/ (src \in binary) # (dest \in binary)
      \/ src \notin binary /\ (src \in dynamic) # (dest \in dynamic)

\* bcopy(), as far as it stays in dest: a stop that is one too large lets it go on
\* into the object that follows.
Moved(dest, start, stop, src, repStart) ==
  [i \in 1..SIZE(dest) |->
     IF i \in start..stop
     THEN IF repStart + i - start \in DOMAIN data[src]
          THEN data[src][repStart + i - start] ELSE 0
     ELSE data[dest][i]]

\* The loop of lst.st, which an index out of bounds ends with an error
Looped(dest, start, stop, src, repStart) ==
  LET count == IF stop >= start THEN stop - start + 1 ELSE 0
      step[n \in 0..count] ==
        IF n = 0 THEN [array |-> data[dest], ok |-> TRUE]
        ELSE LET so == step[n - 1]
                 from == repStart + n - 1
                 to == start + n - 1
                 source == IF src = dest THEN so.array ELSE data[src]
             IN  IF so.ok /\ to \in DOMAIN so.array /\ from \in DOMAIN source
                 THEN [so EXCEPT !.array[to] = source[from]]
                 ELSE [so EXCEPT !.ok = FALSE]
  IN  step[count].array

\* <38 start stop replacement repStart self>: self is popped; the other four
\* are handed to bulkReplace() from the top of the stack down.
Serves(self, start, stop, replacement, repStart) ==
  ~Refuses(self, repStart, replacement, stop, start)

\* An object cannot be put in an array of bytes; the loop is left out for a
\* pair of which one is binary.
replaceFrom(self, start, stop, replacement, repStart) ==
  LET served == Serves(self, start, stop, replacement, repStart) IN
    /\ served \/ (replacement \in binary) = (self \in binary)
    /\ data' = [data EXCEPT ![self] =
                  IF served THEN Moved(self, start, stop, replacement, repStart)
                  ELSE Looped(self, start, stop, replacement, repStart)]

Next ==
  \E dest, src \in Arrays, start, repStart \in Starts, stop \in Stops :
    replaceFrom(dest, start, stop, src, repStart)

Spec == Init /\ [][Next]_data

-----------------------------------------------------------------------------
\* What bulkReplace() leaves in the array, of any call that it does not refuse, is
\* what the loop leaves there: also when the last index is one too large, where
\* the loop ends with an error.  Only a move within one array towards its end
\* differs: the loop reads what it has written and so repeats the first elements.
Unshifted(self, start, replacement, repStart) ==
  self # replacement \/ start <= repStart
Repeats(after, self, start, stop, repStart) ==
  \A i \in DOMAIN data[self] :
    after[i] = IF i \in start..stop THEN after[repStart + i - start] ELSE data[self][i]
AsLoop ==
  \A self, replacement \in Arrays, start, repStart \in Starts, stop \in Stops :
    ~Refuses(self, start, stop, replacement, repStart) =>
      LET after == Looped(self, start, stop, replacement, repStart) IN
        IF Unshifted(self, start, replacement, repStart)
        THEN after = Moved(self, start, stop, replacement, repStart)
        ELSE Repeats(after, self, start, stop, repStart)

\* "Range check": what bulkReplace() does not refuse stays in the array.  The test
\* lets stop be one too large; that primitive 38 writes over no other object is
\* due to the order of its arguments, which bulkReplace() refuses every time.
RangeChecked ==
  \A self, replacement \in Arrays, start, repStart \in Starts, stop \in Stops :
    ~Refuses(self, start, stop, replacement, repStart) => stop <= SIZE(self)

\* "it's still much faster than executing the block move in Smalltalk VM
\* opcodes": a call within the bounds of two arrays of the same kind is not
\* left to the loop.
CallsServed ==
  \A self, replacement \in Arrays, start, repStart \in Starts, stop \in Stops :
    ( /\ start \in 1..stop /\ stop \in 1..SIZE(self)
      /\ repStart >= 1 /\ repStart + stop - start <= SIZE(replacement)
      /\ (replacement \in binary) = (self \in binary)
      /\ (replacement \in dynamic) = (self \in dynamic) ) =>
    Serves(self, start, stop, replacement, repStart)
=============================================================================
