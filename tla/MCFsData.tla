------------------------------ MODULE MCFsData ------------------------------
(***************************************************************************)
(* FsData at the kernel's own MAXOPBLOCKS, LOGSIZE and NDIRECT, with blocks *)
(* of two bytes: each of two writers has a file of eight blocks open and    *)
(* writes thirteen.                                                         *)
(***************************************************************************)
EXTENDS FsData

FullImages == {<<<<1, 1, 2>>, [k \in 1 .. 16 |-> 5], [k \in 1 .. 16 |-> 6]>>}
OwnFile == [p |-> {2}, q |-> {3}]
=============================================================================
