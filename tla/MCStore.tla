------------------------------ MODULE MCStore -------------------------------
(***************************************************************************)
(* What the kernel hands out and takes back: buffers (BufCache), pages of   *)
(* memory (Vm), blocks of files (FsData).  They share no state; a behaviour *)
(* is one of one of the three.                                              *)
(*                                                                         *)
(* Vm: pages of four bytes, tables of two entries, eight user pages of      *)
(* which a process uses six.  Programs: one that loads (its second segment  *)
(* ends in a page of the first), one whose second segment is not aligned,   *)
(* one that is cut short, ones whose segment reaches the kernel or wraps    *)
(* around it.  Arguments that fit the stack page, and that do not.          *)
(***************************************************************************)
EXTENDS BufCache, TLC

CONSTANTS
  VmProcs, Pages, PGSIZE, NENTRIES, MAXARG, MaxSz, MaxCalls, Execs, Sbrks,
  FsProcs, Files, BSIZE, NDIRECT, FSSIZE, Nmeta, MAXOPBLOCKS, LOGSIZE, Reads, Writes, Images, FileOf

VARIABLES
  mode,
  freelist, mem, pgdir, sz, kstack, state, task, img, vmPanicked, calls,
  bitmap, sector, inode, dinode, lock, fd, lh, shared, bytes, fsPanicked

V == INSTANCE Vm WITH Procs <- VmProcs, free <- freelist, panicked <- vmPanicked
D == INSTANCE FsData WITH Procs <- FsProcs, panicked <- fsPanicked, want <- bytes

Seg(a, n, d) == [vaddr |-> a, memsz |-> n, data |-> d, whole |-> TRUE]

Good == <<Seg(4, 5, <<1, 2, 1>>), Seg(8, 3, <<6>>)>>
Unaligned == <<Seg(4, 4, <<1>>), Seg(9, 2, <<6>>)>>
Short == <<[Seg(4, 6, <<1>>) EXCEPT !.whole = FALSE]>>
TooSmall == <<Seg(4, 1, <<1, 2>>)>>
TooHigh == <<Seg(4, 28, <<6>>)>>
Wraps == <<Seg(60, 8, <<6>>)>>

MCExecs == {<<Good, <<1>>>>, <<Good, <<1, 1>>>>, <<Unaligned, <<>>>>, <<Short, <<>>>>, <<TooSmall, <<>>>>,
            <<TooHigh, <<>>>>, <<Wraps, <<>>>>}
MCSbrks == {6, -6}

(* Files of up to three blocks of two bytes.  p and q have the same file     *)
(* open, or each its own, which it may also delete.                          *)
MCImages == {<<<<1, 1, 2>>, <<5, 6, 7>>, <<>>>>, <<<<1, 1, 2>>, <<5, 6, 7, 8, 9>>, <<4, 4>>>>}
MCFileOf == [p |-> {2}, q |-> {2, 3}]

Symmetry == Permutations(Procs)

(* The parts that a behaviour is not about. *)
BufOff == Init /\ disk = [n \in Blocks |-> Fill]
VmOff ==
  /\ freelist = "off" /\ mem = "off" /\ pgdir = "off" /\ sz = "off" /\ kstack = "off"
  /\ state = "off" /\ task = "off" /\ img = "off" /\ vmPanicked = "off" /\ calls = "off"
DataOff ==
  /\ bitmap = "off" /\ sector = "off" /\ inode = "off" /\ dinode = "off" /\ lock = "off"
  /\ fd = "off" /\ lh = "off" /\ shared = "off" /\ bytes = "off" /\ fsPanicked = "off"

StoreInit ==
  \/ mode = "buf" /\ Init /\ VmOff /\ DataOff
  \/ mode = "vm" /\ BufOff /\ V!Init /\ DataOff
  \/ mode = "data" /\ BufOff /\ VmOff /\ D!Init

VmVars == <<freelist, mem, pgdir, sz, kstack, state, task, img, vmPanicked, calls>>
DataVars == <<bitmap, sector, inode, dinode, lock, fd, lh, shared, bytes, fsPanicked>>
StoreVars == <<mode, vars, VmVars, DataVars>>

(* Only the buffer cache must never stop. *)
StoreNext ==
  \/ mode = "buf" /\ Next /\ UNCHANGED <<mode, VmVars, DataVars>>
  \/ mode = "vm" /\ V!Next /\ UNCHANGED <<mode, vars, DataVars>>
  \/ mode = "data" /\ D!Next /\ UNCHANGED <<mode, vars, VmVars>>
  \/ mode # "buf" /\ UNCHANGED StoreVars

StoreSpec == StoreInit /\ [][StoreNext]_StoreVars
-----------------------------------------------------------------------------
(* Every page of memory is free or in exactly one use, through fork(),       *)
(* exec(), sbrk(), exit() and wait().                                        *)
PagesAccounted == mode = "vm" => V!PagesAccounted

(* A process sees its own memory and nothing else. *)
ImageRight == mode = "vm" => V!ImageRight

(* The size of a process says which pages it has. *)
SizeBacked == mode = "vm" => V!SizeBacked

(* The bitmap is exactly the blocks in use, and no block is in use twice. *)
Accounted == mode = "data" => D!Accounted

(* Between writes a file reads as it was written. *)
ReadsBack == mode = "data" => D!ReadsBack

(* filewrite() cuts a write so that a transaction it has to itself fits. *)
TransactionFits == mode = "data" => D!TransactionFits
=============================================================================
