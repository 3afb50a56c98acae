---------------------------- MODULE SymbolOrder ----------------------------
(***************************************************************************)
(* Symbols in order.  The dictionaries of an image are two arrays side by  *)
(* side, of which the keys are sorted so that they can be searched by      *)
(* halves: made by bootstrap.c, searched by interp.c, both C, and changed  *)
(* by lst.st in Smalltalk.                                                 *)
(*                                                                         *)
(* A Symbol is the sequence of its bytes.                                  *)
(***************************************************************************)
EXTENDS Integers, Sequences, FiniteSets, SequencesExt

CONSTANTS
  nil,             \* nilObject, and the answer NULL of a search
  Garbage          \* what lies past the end of an array

ASSUME NilAssumption == nil \notin Int

\* The places in which two symbols differ
Differences(a, b) == {i \in 1..Len(a) \cap 1..Len(b) : a[i] # b[i]}
First(I) == CHOOSE i \in I : \A j \in I : i <= j

symbolcomp(left, right) ==
  LET D == Differences(left, right) IN
    IF D = {} THEN Len(left) - Len(right) ELSE left[First(D)] - right[First(D)]

\* Symbol>>< and, for the printStrings, Array>><
Less(self, arg) ==
  LET D == Differences(self, arg) IN
    IF D = {} THEN Len(self) < Len(arg) ELSE self[First(D)] < arg[First(D)]

\* Mutant: of two that begin alike the longer is the smaller.
symbolCmpLonger(left, right) ==
  LET D == Differences(left, right) IN
    IF D = {} THEN Len(right) - Len(left)
    ELSE IF left[First(D)] < right[First(D)] THEN -1 ELSE 1

\* symbolBareCmp() of bootstrap.c
symbolCmp(left, right) ==
  LET D == Differences(left, right) IN
    IF D = {} THEN Len(left) - Len(right)
    ELSE IF left[First(D)] < right[First(D)] THEN -1 ELSE 1

\* OrderedArray>>location: from 1
Location(keys, value) ==
  LET at[range \in (1..(Len(keys) + 1)) \X (1..(Len(keys) + 1))] ==
        LET low == range[1]
            high == range[2]
            mid == (low + high) \div 2 IN
          IF low >= high THEN low
          ELSE IF Less(keys[mid], value) THEN at[<<mid + 1, high>>]
          ELSE at[<<low, mid>>]
  IN  at[<<1, Len(keys) + 1>>]

\* Mutant: the last key is never looked at.
SearchShort(keys, selector) ==
  LET at[range \in (0..Len(keys)) \X (0..Len(keys))] ==
        LET low == range[1]
            high == range[2]
            mid == (low + high) \div 2 IN
          IF low + 1 >= high THEN nil
          ELSE IF keys[mid + 1] = selector THEN mid
          ELSE IF symbolcomp(selector, keys[mid + 1]) < 0 THEN at[<<low, mid>>]
          ELSE at[<<mid + 1, high>>]
  IN  at[<<0, Len(keys)>>]

\* The binary search of lookupMethod(), from 0, or nil
Search(keys, selector) ==
  LET at[range \in (0..Len(keys)) \X (0..Len(keys))] ==
        LET low == range[1]
            high == range[2]
            mid == (low + high) \div 2 IN
          IF low >= high THEN nil
          ELSE IF keys[mid + 1] = selector THEN mid
          ELSE IF symbolcomp(selector, keys[mid + 1]) < 0 THEN at[<<low, mid>>]
          ELSE at[<<mid + 1, high>>]
  IN  at[<<0, Len(keys)>>]

\* vals->data[mid]
Element(vals, mid) == IF mid < Len(vals) THEN vals[mid + 1] ELSE Garbage

\* lookupMethod() by its two nested loops: dicts and parent are
\* methodsInClass and parentClassInClass of the classes.
lookupMethod(dicts, parent, selector, class) ==
  LET N == Cardinality(DOMAIN dicts)
      up[at \in (DOMAIN dicts \cup {nil}) \X (0..N)] ==
        LET c == at[1]
            mid == Search(dicts[c].keys, selector) IN
          IF c = nil \/ at[2] = 0 THEN nil
          ELSE IF mid = nil THEN up[<<parent[c], at[2] - 1>>]
          ELSE Element(dicts[c].values, mid)
  IN  up[<<class, N>>]

\* dictionaryInsert() and insert() of bootstrap.c, of a key that is not there
dictionaryInsert(dict, index, value) ==
  LET place == First({i \in 1..(Len(dict.keys) + 1) :
                        \/ i = Len(dict.keys) + 1
                        \/ symbolCmp(index, dict.keys[i]) < 0})
  IN  [keys |-> InsertAt(dict.keys, place, index),
       values |-> InsertAt(dict.values, place, value)]
=============================================================================
