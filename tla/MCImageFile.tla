---------------------------- MODULE MCImageFile ----------------------------
(***************************************************************************)
(* Heaps of three objects: globals with two fields, an object with one     *)
(* field and a binary one; every class and field is any of the three, or   *)
(* an integer on either side of the sizes of a tag.  In a few of them the  *)
(* field names a fourth object, one more than MaxObjects; in a few others  *)
(* fields are NULL or the least int, in objects that are reached or not.   *)
(***************************************************************************)
EXTENDS ImageFile

CONSTANTS globals, fielded, binaried, fourth

MCObjects == {globals, fielded, binaried, fourth}
Object(binary, class, data) == [binary |-> binary, class |-> class, data |-> data]
HeapsOf(classes, fields, last) ==
  {[y \in MCObjects |-> CASE y = globals -> Object(FALSE, c1, <<f1, f2>>)
                          [] y = fielded -> Object(FALSE, c2, <<f3>>)
                          [] y = binaried -> Object(TRUE, c3, <<0, 255>>)
                          [] y = fourth -> Object(FALSE, globals, <<>>)] :
     c1, c2, c3 \in classes, f1, f2 \in fields, f3 \in last}
Three == {globals, fielded, binaried}
ThreeObjects ==
  LET fields == Three \cup {16, -128, 70000} IN HeapsOf(Three, fields, fields)
FourObjects ==
  HeapsOf({fielded, binaried, fourth}, {fielded, binaried, 15}, {fourth})
\* The least int, which may be the value of a SmallInt
Least == -2147483647 - 1
LeastHeaps ==
  LET fields == {fielded, binaried, Least} IN HeapsOf({binaried}, fields, fields)
NullHeaps ==
  LET fields == {fielded, binaried, NullWord} IN HeapsOf({binaried}, fields, fields)
MCHeaps == ThreeObjects \cup FourObjects \cup LeastHeaps \cup NullHeaps

Whole == {0}
CutShort == 0..8
=============================================================================
