------------------------------ MODULE MCGcMove ------------------------------
(***************************************************************************)
(* Small instances of GcMove: three old objects with every graph that fits *)
(* a few shapes, cycles and shared objects included; in some of them, live *)
(* or not, a word names the new space.                                     *)
(***************************************************************************)
EXTENDS GcMove

CONSTANTS oa, ob, oc,  \* the old objects
          int          \* a SmallInt

Ordinary(size, values) ==
  [size : {size}, bin : {FALSE}, data : [0..size -> values]]

\* A byte object: the class, then whole words of bytes that look like
\* pointers.
Binary(size, classes, bytes) ==
  [size : {size}, bin : {TRUE},
   data : {d \in [0..TO_WORDS(size) -> classes \cup bytes] :
             /\ d[0] \in classes
             /\ \A k \in 1..TO_WORDS(size) : d[k] \in bytes}]

\* oa has two fields, ob one field or three bytes, oc none.
MCFieldHeaps ==
  {h \in [OldObj -> Ordinary(2, {oa, ob, oc, int, Null})
                      \cup Ordinary(1, {oa, oc}) \cup Ordinary(0, OldObj)
                      \cup Binary(3, {ob, oc}, {oa})] :
     /\ h[oa].size = 2 /\ ~h[oa].bin /\ h[oa].data[0] \in {ob, oc}
     /\ h[ob].size \in {1, 3}
     /\ h[oc].size = 0}

MCRoots == {<<oa, Null>>, <<ob, oa>>, <<oc, int>>} \cup {<<oc, s>> : s \in Stale}

\* Three fields, so that a run of null fields is recovered in one go.
MCNullHeaps ==
  {[h EXCEPT ![oa] = o] : h \in
     {g \in [OldObj -> Ordinary(0, {ob, oc})] : g[oa].data[0] = oc},
     o \in Ordinary(3, {ob, int, Null})}

\* The words of the old space may name the new space.
MCStaleHeaps ==
  {[x \in OldObj |-> CASE x = oa -> f[1] [] x = ob -> f[2] [] x = oc -> f[3]] :
     f \in Ordinary(1, {ob, Null} \cup Stale)
           \X Binary(3, {oc} \cup Stale, Stale)
           \X Ordinary(0, {oa, oc} \cup Stale)}

MCHeaps == MCFieldHeaps \cup MCNullHeaps \cup MCStaleHeaps
=============================================================================
