------------------------------- MODULE FsData -------------------------------
(***************************************************************************)
(* File contents: the block bitmap, the direct and indirect blocks of an    *)
(* inode, readi()/writei()/itrunc() of fs.c over them, the loop of          *)
(* filewrite() that cuts a write into transactions, and the image mkfs      *)
(* starts from.  Each process has one file open; files may be shared.       *)
(*                                                                         *)
(* A step is one turn of the loop of writei() (one block mapped and         *)
(* copied) or one bfree() of itrunc().  A file is written under its inode   *)
(* lock; the bitmap is shared by all files, and so is the log: begin_op()   *)
(* reserves MAXOPBLOCKS blocks for a call, log_write() panics when the log  *)
(* is full, and the last call to end commits.  A block number takes one     *)
(* byte here, so NINDIRECT is BSIZE.                                        *)
(***************************************************************************)
EXTENDS Integers, Sequences, FiniteSets
LOCAL INSTANCE FiniteSetsExt
LOCAL INSTANCE SequencesExt

CONSTANTS
  Procs,      \* processes
  Files,      \* inodes
  BSIZE, NDIRECT,
  FSSIZE,     \* blocks of the disk
  Nmeta,      \* blocks before the first data block
  MAXOPBLOCKS, LOGSIZE,
  Images,     \* what mkfs is given: the bytes of each file
  FileOf,     \* the files each process may have open
  Reads, Writes   \* bounds: bytes of one read(), of one write()

NINDIRECT == BSIZE
MAXFILE == NDIRECT + NINDIRECT
Sectors == 0 .. FSSIZE - 1
NoProc == "none"
BitmapBlock == Nmeta - 1
InodeBlock == Nmeta - 2
nlog == LOGSIZE

VARIABLES
  bitmap,     \* blocks marked in use
  sector,     \* contents of the blocks
  inode,      \* in-memory inode of each file: [size, addrs]
  dinode,     \* the inode on disk
  lock,       \* holder of each inode lock
  fd,         \* per process: its open file and the write() or itrunc() under way
  lh,         \* blocks of the transaction
  shared,     \* history: two calls have given blocks to the transaction
  want,       \* history: the bytes of each file
  panicked    \* why the machine stopped, or "no"

trans == <<lh, shared>>
vars == <<bitmap, sector, inode, dinode, lock, fd, trans, want, panicked>>

Zeroed == [k \in 0 .. BSIZE - 1 |-> 0]
NewInode == [size |-> 0, addrs |-> [k \in 0 .. NDIRECT |-> 0]]
Open(f) == [file |-> f, off |-> 0, pc |-> "user", n |-> 0, i |-> 0, n1 |-> 0, tot |-> 0,
            logged |-> FALSE]

-----------------------------------------------------------------------------
(* mkfs: iappend() of a piece within a block, freeblock counting up from     *)
(* Nmeta.  Files come in pieces of a block, the root directory (file 1) in   *)
(* entries of a byte.                                                        *)

IAppend(d, f, piece) ==
  LET ip  == d.inode[f]
      fbn == ip.size \div BSIZE
      ind == ip.addrs[NDIRECT]
      \* the indirect block is taken before the block it will name
      d1  == IF fbn < NDIRECT \/ ind # 0 THEN d
             ELSE [d EXCEPT !.inode[f].addrs[NDIRECT] = d.freeblock, !.freeblock = @ + 1]
      at  == d1.inode[f].addrs[NDIRECT]
      x   == IF fbn < NDIRECT THEN ip.addrs[fbn] ELSE d1.sector[at][fbn - NDIRECT]
      new == d1.freeblock
      d2  == CASE x # 0 -> d1
               [] x = 0 /\ fbn < NDIRECT ->
                    [d1 EXCEPT !.inode[f].addrs[fbn] = new, !.freeblock = @ + 1]
               [] OTHER -> [d1 EXCEPT !.sector[at][fbn - NDIRECT] = new, !.freeblock = @ + 1]
      b   == IF x # 0 THEN x ELSE new
      pos == ip.size % BSIZE
  IN  [d2 EXCEPT !.sector[b] = [k \in 0 .. BSIZE - 1 |->
                                  IF k \in pos .. pos + Len(piece) - 1 THEN piece[k - pos + 1] ELSE @[k]],
                 !.inode[f].size = @ + Len(piece)]

Pieces(f, s) ==
  LET w == IF f = 1 THEN 1 ELSE BSIZE
  IN  [i \in 1 .. (Len(s) + w - 1) \div w |-> SubSeq(s, (i - 1) * w + 1, Min({i * w, Len(s)}))]

Blank == [sector |-> [b \in Sectors |-> Zeroed], inode |-> [f \in Files |-> NewInode],
          freeblock |-> Nmeta]

Image(bytes) ==
  FoldLeft(LAMBDA d, f : FoldLeft(LAMBDA e, x : IAppend(e, f, x), d, Pieces(f, bytes[f])),
           Blank, SetToSortSeq(Files, <))

(* main() of mkfs: the root directory ends at a block boundary, and          *)
(* the blocks below freeblock are in use.                                    *)
RootSize(n) == (n \div BSIZE + 1) * BSIZE

Init ==
  \E bytes \in Images :
    LET d == Image(bytes) IN
    /\ bitmap = 0 .. d.freeblock - 1
    /\ sector = d.sector
    /\ inode = [d.inode EXCEPT ![1].size = RootSize(@)]
    /\ dinode = inode
    /\ lock = [f \in Files |-> NoProc]
    /\ fd \in {g \in [Procs -> {Open(f) : f \in Files}] : \A p \in Procs : g[p].file \in FileOf[p]}
    /\ want = [bytes EXCEPT ![1] = [k \in 1 .. RootSize(Len(@)) |->
                                      IF k <= Len(@) THEN @[k] ELSE 0]]
    /\ lh = {} /\ shared = FALSE /\ panicked = "no"

-----------------------------------------------------------------------------
(* Blocks: d is [bitmap, sector, lh], lh the blocks given to log_write().    *)

Spare(d) == Sectors \ d.bitmap

Balloc(d) ==
  LET b == Min(Spare(d))
  IN  [bitmap |-> d.bitmap \cup {b}, sector |-> [d.sector EXCEPT ![b] = Zeroed],
       lh |-> d.lh \cup {BitmapBlock, b}]

(* The block at cur, or a new one when there is none. *)
Take(d, cur) == IF cur # 0 THEN [d |-> d, b |-> cur] ELSE [d |-> Balloc(d), b |-> Min(Spare(d))]

(* Block bn of inode ip, allocated on demand: [d, ip, addr]. *)
Bmap(d, ip, bn) ==
  IF bn < NDIRECT
  THEN LET t == Take(d, ip.addrs[bn])
       IN  [d |-> t.d, ip |-> [ip EXCEPT !.addrs[bn] = t.b], addr |-> t.b]
  ELSE LET t == Take(d, ip.addrs[NDIRECT])
           x == t.d.sector[t.b][bn - NDIRECT]
           u == Take(t.d, x)
       IN  [d |-> IF x # 0 THEN u.d
                  ELSE [u.d EXCEPT !.sector[t.b][bn - NDIRECT] = u.b, !.lh = @ \cup {t.b}],
            ip |-> [ip EXCEPT !.addrs[NDIRECT] = t.b], addr |-> u.b]

(* How many blocks Bmap takes. *)
Needs(ip, bn) ==
  LET ind == ip.addrs[NDIRECT]
  IN  CASE bn < NDIRECT -> IF ip.addrs[bn] = 0 THEN 1 ELSE 0
        [] bn >= NDIRECT /\ ind = 0 -> 2
        [] OTHER -> IF sector[ind][bn - NDIRECT] = 0 THEN 1 ELSE 0

Here == [bitmap |-> bitmap, sector |-> sector, lh |-> lh]

(* readi(): the bytes at off, piece by piece. *)
ReadI(f, off0, n0) ==
  LET n == IF off0 + n0 > inode[f].size THEN inode[f].size - off0 ELSE n0
      piece[tot \in 0 .. n] ==
        IF tot = n THEN <<>>
        ELSE LET off == off0 + tot
                 m   == Min({n - tot, BSIZE - (off % BSIZE)})
                 blk == sector[Bmap(Here, inode[f], off \div BSIZE).addr]
             IN  [k \in 1 .. m |-> blk[(off % BSIZE) + k - 1]] \o piece[tot + m]
  IN  IF off0 > inode[f].size THEN <<>> ELSE piece[0]

-----------------------------------------------------------------------------
At(p, l) == panicked = "no" /\ fd[p].pc = l

(* The log: begin_op() waits for room, log_write() finds the log full before *)
(* it adds a block to those held, and the last end_op() commits.             *)
Outstanding == {p \in Procs : fd[p].pc \in {"ilock", "loop", "trunc"}}
HasRoom == Cardinality(lh) + (Cardinality(Outstanding) + 1) * MAXOPBLOCKS <= LOGSIZE
LogFull(held) == Cardinality(held) >= LOGSIZE \/ Cardinality(held) >= nlog - 1
LogWrite(p, held) == lh' = held /\ shared' = (shared \/ (lh # {} /\ ~fd[p].logged))
EndOp(p, held) ==
  \/ Outstanding = {p} /\ lh' = {} /\ shared' = FALSE
  \/ Outstanding # {p} /\ IF held = lh THEN UNCHANGED trans ELSE LogWrite(p, held)

Stop(why) == panicked' = why /\ UNCHANGED <<bitmap, sector, inode, dinode, lock, fd, want>>
Panic(why) == Stop(why) /\ UNCHANGED trans
TooBig(p) == Stop("too big a transaction") /\ LogWrite(p, lh)

(* fileread(): the offset moves by what was read. *)
Read(p, n) ==
  /\ At(p, "user") /\ lock[fd[p].file] = NoProc
  /\ fd' = [fd EXCEPT ![p].off = @ + Len(ReadI(fd[p].file, fd[p].off, n))]
  /\ UNCHANGED <<bitmap, sector, inode, dinode, lock, trans, want, panicked>>

(* filewrite() *)
Write(p, n) ==
  /\ At(p, "user")
  /\ fd' = [fd EXCEPT ![p] = [@ EXCEPT !.pc = "begin", !.n = n, !.i = 0]]
  /\ UNCHANGED <<bitmap, sector, inode, dinode, lock, trans, want, panicked>>

MaxLog == LOGSIZE * BSIZE
Max1 == ((LOGSIZE - 1 - 1 - 2) \div 2) * BSIZE

(* One turn of filewrite()'s loop starts: begin_op(). *)
Begin(p) ==
  /\ At(p, "begin") /\ HasRoom
  /\ LET n1 == Min({fd[p].n - fd[p].i, Max1})
     IN  fd' = [fd EXCEPT ![p] = [@ EXCEPT !.pc = "ilock", !.n1 = n1, !.tot = 0]]
  /\ UNCHANGED <<bitmap, sector, inode, dinode, lock, trans, want, panicked>>

(* The end of a write() that writei() refused. *)
Done(p) == fd' = [fd EXCEPT ![p] = [Open(@.file) EXCEPT !.off = fd[p].off]]

(* ilock() and the tests of writei(). *)
Enter(p) ==
  LET w   == fd[p]
      f   == w.file
      bad == w.off > inode[f].size \/ w.off + w.n1 > MAXFILE * BSIZE
  IN  /\ At(p, "ilock") /\ lock[f] = NoProc
      /\ \/ bad /\ Done(p) /\ EndOp(p, lh) /\ UNCHANGED lock
         \/ /\ ~bad /\ lock' = [lock EXCEPT ![f] = p]
            /\ fd' = [fd EXCEPT ![p].pc = "loop"] /\ UNCHANGED trans
      /\ UNCHANGED <<bitmap, sector, inode, dinode, want, panicked>>

(* Byte k (from 0) of the buffer being written: neighbours differ. *)
Src(k) == 1 + (k % 2)

(* One turn of writei()'s loop. *)
BlockStart(off) == 0
InBlock(off) == off % BSIZE
Loop(p) ==
  LET w   == fd[p]
      f   == w.file
      off == w.off + w.tot
      m   == Min({w.n1 - w.tot, BSIZE - (off % BSIZE)})
      at  == InBlock(off)
      r   == Bmap(Here, inode[f], off \div BSIZE)
      none == Cardinality(Spare(Here)) < Needs(inode[f], off \div BSIZE)
  IN  /\ At(p, "loop") /\ w.tot < w.n1
      /\ \/ none /\ Panic("balloc: out of blocks")
         \/ ~none /\ LogFull(r.d.lh) /\ TooBig(p)
         \/ /\ ~none /\ ~LogFull(r.d.lh)
            /\ bitmap' = r.d.bitmap
            /\ sector' = [r.d.sector EXCEPT ![r.addr] =
                            [k \in 0 .. BSIZE - 1 |->
                               IF k \in at .. at + m - 1
                               THEN Src(w.i + w.tot + k - at) ELSE @[k]]]
            /\ inode' = [inode EXCEPT ![f] = r.ip]
            /\ LogWrite(p, r.d.lh \cup {r.addr})
            /\ fd' = [fd EXCEPT ![p] = [@ EXCEPT !.tot = @ + m, !.logged = TRUE]]
            /\ UNCHANGED <<dinode, lock, want, panicked>>

(* Bytes s with t written over them from position off on. *)
Overwrite(s, off, t) ==
  [k \in 1 .. (IF off + Len(t) > Len(s) THEN off + Len(t) ELSE Len(s)) |->
     IF k \in off + 1 .. off + Len(t) THEN t[k - off] ELSE s[k]]

(* The end of writei(): a longer file is saved; then iunlock(), end_op() and *)
(* the test of filewrite()'s loop.                                           *)
Saved(f, ip) == [dinode EXCEPT ![f] = ip]
EndChunk(p) ==
  LET w     == fd[p]
      f     == w.file
      end   == w.off + w.n1
      grown == [inode[f] EXCEPT !.size = end]
      next  == [w EXCEPT !.off = end, !.i = @ + w.n1, !.pc = "begin", !.logged = FALSE]
      grows == end > inode[f].size
  IN  /\ At(p, "loop") /\ w.tot = w.n1
      /\ \/ grows /\ LogFull(lh) /\ TooBig(p)
         \/ /\ ~(grows /\ LogFull(lh))
            /\ \/ /\ grows
                  /\ inode' = [inode EXCEPT ![f] = grown] /\ dinode' = Saved(f, grown)
                  /\ EndOp(p, lh \cup {InodeBlock})
               \/ ~grows /\ EndOp(p, lh) /\ UNCHANGED <<inode, dinode>>
            /\ lock' = [lock EXCEPT ![f] = NoProc]
            /\ want' = [want EXCEPT ![f] = Overwrite(@, w.off, [k \in 1 .. w.n1 |-> Src(w.i + k - 1)])]
            /\ fd' = [fd EXCEPT ![p] = IF next.i < w.n THEN next ELSE [Open(f) EXCEPT !.off = end]]
            /\ UNCHANGED <<bitmap, sector, panicked>>

(* The last name of the file is gone and the process closes it: in a         *)
(* transaction of its own iput() calls itrunc().  The inode is then free;    *)
(* creat() starts it again, empty.                                           *)
StartTrunc(p) ==
  LET f == fd[p].file
  IN  /\ At(p, "user") /\ f # 1 /\ inode[f].size > 0
      /\ \A q \in Procs \ {p} : fd[q].file # f
      /\ HasRoom
      /\ fd' = [fd EXCEPT ![p] = [@ EXCEPT !.pc = "trunc", !.i = 0]]
      /\ UNCHANGED <<bitmap, sector, inode, dinode, lock, trans, want, panicked>>

(* The contents of a free block are never read: any stale bytes will do. *)
Stale == [k \in 0 .. BSIZE - 1 |-> 9]

Bfree(p, b) ==
  /\ bitmap' = bitmap \ {b} /\ sector' = [sector EXCEPT ![b] = Stale]
  /\ LogWrite(p, lh \cup {BitmapBlock})

(* itrunc(): the direct blocks, the blocks in the indirect block, the        *)
(* indirect block; one bfree() a step.                                       *)
IndirectKept(ind) == 0
IndirectFreed(ind) == ind
Trunc(p) ==
  LET f   == fd[p].file
      k   == fd[p].i
      ind == inode[f].addrs[NDIRECT]
      a   == CASE k < NDIRECT -> inode[f].addrs[k]
               [] k \in NDIRECT .. MAXFILE - 1 /\ ind # 0 -> sector[ind][k - NDIRECT]
               [] OTHER -> IndirectFreed(ind)
  IN  /\ At(p, "trunc") /\ k <= MAXFILE
      /\ \/ /\ a = 0 /\ fd' = [fd EXCEPT ![p].i = k + 1]
            /\ UNCHANGED <<bitmap, sector, inode, trans, dinode, lock, want, panicked>>
         \/ a # 0 /\ IF a \notin bitmap THEN Panic("freeing free block") ELSE LogFull(lh) /\ TooBig(p)
         \/ /\ a # 0 /\ a \in bitmap /\ ~LogFull(lh) /\ Bfree(p, a)
            /\ inode' = IF k < NDIRECT THEN [inode EXCEPT ![f].addrs[k] = 0]
                        ELSE IF k = MAXFILE THEN [inode EXCEPT ![f].addrs[NDIRECT] = 0] ELSE inode
            /\ fd' = [fd EXCEPT ![p] = [@ EXCEPT !.i = k + 1, !.logged = TRUE]]
            /\ UNCHANGED <<dinode, lock, want, panicked>>

(* ip->size = 0; iupdate(ip). *)
Truncated(p) ==
  LET f == fd[p].file
  IN  /\ At(p, "trunc") /\ fd[p].i > MAXFILE
      /\ \/ LogFull(lh) /\ TooBig(p)
         \/ /\ ~LogFull(lh)
            /\ inode' = [inode EXCEPT ![f].size = 0] /\ dinode' = [dinode EXCEPT ![f] = inode'[f]]
            /\ want' = [want EXCEPT ![f] = <<>>]
            /\ fd' = [fd EXCEPT ![p] = Open(f)] /\ EndOp(p, lh \cup {InodeBlock})
            /\ UNCHANGED <<bitmap, sector, lock, panicked>>

Next ==
  \E p \in Procs :
    \/ (\E n \in Reads : Read(p, n)) \/ (\E n \in Writes : Write(p, n))
    \/ Begin(p) \/ Enter(p) \/ Loop(p) \/ EndChunk(p)
    \/ StartTrunc(p) \/ Trunc(p) \/ Truncated(p)

Spec == Init /\ [][Next]_vars

-----------------------------------------------------------------------------
TypeOK ==
  /\ bitmap \subseteq Sectors /\ 0 .. Nmeta - 1 \subseteq bitmap
  /\ \A f \in Files : inode[f].size \in 0 .. MAXFILE * BSIZE /\ lock[f] \in Procs \cup {NoProc}
  /\ \A f \in Files, k \in 0 .. NDIRECT : inode[f].addrs[k] \in Sectors

Truncating(f, k) == \E p \in Procs : fd[p].file = f /\ fd[p].pc = "trunc" /\ fd[p].i > k

(* The places an inode refers to a block from, and the block.  itrunc() has  *)
(* given up the entries of the indirect block that it has passed.            *)
Places(f) ==
  LET ind == inode[f].addrs[NDIRECT]
  IN  {<<k, inode[f].addrs[k]>> : k \in 0 .. NDIRECT}
        \cup IF ind = 0 THEN {} ELSE
             {<<NDIRECT + 1 + j, sector[ind][j]>> :
                j \in {j \in 0 .. NINDIRECT - 1 : ~Truncating(f, NDIRECT + j)}}
Owned == {<<f, x>> \in UNION {{f} \X Places(f) : f \in Files} : x[2] # 0}

(* The bitmap is exactly the blocks in use, and no block is in use twice:    *)
(* two files growing and shrinking at the same time, with indirect blocks,   *)
(* neither share nor lose a block.                                           *)
Accounted ==
  /\ TypeOK
  /\ bitmap = 0 .. Nmeta - 1 \cup {o[2][2] : o \in Owned}
  /\ \A o1, o2 \in Owned : o1 # o2 => o1[2][2] # o2[2][2]

(* Between writes a file reads as it was written: readi() from every offset, *)
(* over direct and indirect blocks and pieces of blocks, gives the bytes of  *)
(* the writes (mkfs's for the initial files) in their order.  The inode on   *)
(* disk is the one in memory, although writei() saves it only when the file  *)
(* grows; and every block below size exists, so that readi(), which runs     *)
(* outside transactions, never allocates one.                                *)
ReadsBack ==
  \A f \in Files : lock[f] = NoProc /\ ~Truncating(f, -1) =>
    /\ \A off \in 0 .. inode[f].size, n \in {1, BSIZE, MAXFILE * BSIZE} :
         ReadI(f, off, n) = SubSeq(want[f], off + 1, Min({off + n, Len(want[f])}))
    /\ dinode[f] = inode[f]
    /\ \A bn \in 0 .. MAXFILE - 1 : bn * BSIZE < inode[f].size => Needs(inode[f], bn) = 0

(* filewrite() cuts a write so that a transaction it has to itself fits the  *)
(* log, whatever the alignment: its data blocks, the indirect block, the     *)
(* bitmap and the inode.  Whenever log_write() finds the log full, two calls *)
(* have put blocks into this transaction.                                    *)
TransactionFits == panicked = "too big a transaction" => shared

(* "write a few blocks at a time to avoid exceeding the maximum log          *)
(* transaction size" (filewrite() in file.c): log_write() never finds the    *)
(* log full, also when two processes write at a time.                        *)
LogNeverFull == panicked # "too big a transaction"
=============================================================================
