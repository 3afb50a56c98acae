----------------------------- MODULE MCNumbers -----------------------------
(***************************************************************************)
(* An int of five bits, so that a SmallInt is -8..7 and an Integer has     *)
(* ten; the literals are all SmallInts and the Integers around the limits  *)
(* of the three sizes.                                                     *)
(***************************************************************************)
EXTENDS Numbers

SmallLiterals == {newInteger(x) : x \in -8..7}
AllLiterals == SmallLiterals \cup {newLInteger(x) : x \in {-512, -17, -8, 0, 1, 8, 32, 511}}
AllMessages == Binary \cup {"asInteger", "asSmallInt", "truncSmallInt"}
Sums == {"+", "quo:"}
Conversions == {"*", "asSmallInt"}
Shifts == {"bitShift:"}
Divergent == Sums \cup Conversions \cup Shifts
Products == {"*"}
=============================================================================
