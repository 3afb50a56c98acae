--------------------------- MODULE MCObjectMemory ---------------------------
\* Small memories for ObjectMemory: an ordinary object with a field and a binary
\* one whose bytes do not fill its words
EXTENDS ObjectMemory, TLC

Array1 == <<1, FALSE>>
Bytes3 == <<3, TRUE>>
SmallShapes == <<{Array1}, {Bytes3}, {Array1}, {Bytes3}>>
\* The variables are interchangeable: no definition names one of them.
Interchangeable == Permutations(Global)
=============================================================================
