--------------------------- MODULE MCBulkReplace ---------------------------
(***************************************************************************)
(* Two arrays of objects in dynamic memory, a static one and one of bytes; *)
(* indices from 0 to one past the end of the longest.                      *)
(***************************************************************************)
EXTENDS BulkReplace

CONSTANTS long, short, fixed, bytes

MCArrays == {long, short, fixed, bytes}
MCFirst == [a \in MCArrays |-> CASE a = long -> <<1, 2, 1>>
                                 [] a = short -> <<2, 1>>
                                 [] a = fixed -> <<2>>
                                 [] a = bytes -> <<3, 4>>]
MCBinary == {bytes}
MCDynamic == {long, short, bytes}
Indices == 0..4
=============================================================================
