---------------------------- MODULE MCFileTable ----------------------------
(***************************************************************************)
(* FileTable with two or three Files; nothing tells them apart.            *)
(***************************************************************************)
EXTENDS FileTable, TLC

Symmetric == Permutations(Files)
=============================================================================
