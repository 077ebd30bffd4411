--------------------------------- MODULE Fs ---------------------------------
(***************************************************************************)
(* Names, inodes and the system calls on them: fs.c (inode cache, path      *)
(* lookup, directories) and sysfile.c (link, unlink, create, open, mkdir,   *)
(* mknod, chdir, and the file descriptor's write and close).                *)
(*                                                                         *)
(* A step is what runs under one inode lock or under icache.lock: between   *)
(* ilock() and iunlock() no other process sees the inode.  Where the code   *)
(* holds one inode lock while it waits for another (unlink, create) the     *)
(* lock is held across steps.  iput() frees an inode without its lock, so   *)
(* it takes four steps.                                                     *)
(*                                                                         *)
(* Directory contents are a function from names to inode numbers (0 for an  *)
(* empty dirent), file contents a value; FsData has the blocks under them.  *)
(* The log is its promise (AtomicDisk): what a crash leaves is the disk as  *)
(* it was the last time no call was inside a transaction.                   *)
(***************************************************************************)
EXTENDS Integers, Sequences, FiniteSets
LOCAL INSTANCE FiniteSetsExt

CONSTANTS
  Procs,      \* processes
  Names,      \* file names other than "." and ".."
  Vals,       \* what write() may put in a file
  NINODES,    \* sb.ninodes: inode numbers are 1 .. NINODES - 1
  NINODE,     \* entries of the inode cache
  Setups      \* bound: a disk to start from and the calls of each process

Root == 1
Inums == 1 .. NINODES - 1
NoInode == 0
NoProc == "none"
Dots == {".", ".."}
Types == {"free", "dir", "file", "dev"}
Free == [type |-> "free", nlink |-> 0]
NoEnts == [n \in Names \cup Dots |-> NoInode]

VARIABLES
  disk,       \* [dinode, ents, data] as the transactions so far have left it
  stable,     \* the disk a crash would leave
  icache,     \* per inode number: its cache entry [ref, valid, type, nlink, lock]
  task,       \* per process: its call, locals, cwd and open file (see Idle)
  panicked,   \* panic() was called
  menu,       \* the calls each process makes (chosen at the start)
  raced       \* history: numbers ialloc() gave out with a stale valid cache entry

vars == <<disk, stable, icache, task, panicked, menu, raced>>

(* A process in user mode.  todo lists the iput() calls a process makes      *)
(* before its next step; it has at most one open file.                       *)
Idle(cwd) == [pc |-> "user", call |-> [op |-> "none"], ip |-> NoInode, child |-> NoInode,
              rest |-> <<>>, todo |-> <<>>, freeing |-> "no", cwd |-> cwd,
              ofile |-> NoInode, writable |-> FALSE]

(* iinit(), and userinit()'s namei("/") inherited by every process.          *)
Cold == [i \in Inums |-> [ref |-> IF i = Root THEN Cardinality(Procs) ELSE 0,
                          valid |-> FALSE, type |-> "free", nlink |-> 0, lock |-> NoProc]]

Init ==
  \E s \in Setups :
    /\ disk = s.image /\ stable = s.image /\ menu = s.menu
    /\ icache = Cold
    /\ task = [p \in Procs |-> Idle(Root)]
    /\ panicked = FALSE /\ raced = {}

-----------------------------------------------------------------------------
(* The inode cache.                                                          *)

Dinode(ic, i) == [type |-> ic[i].type, nlink |-> ic[i].nlink]

IupdateType(d, ic, i) == [d EXCEPT !.dinode[i].type = ic[i].type]
Iupdate(d, ic, i) == [d EXCEPT !.dinode[i] = Dinode(ic, i)]

Iget(ic, i) == [ic EXCEPT ![i].ref = @ + 1, ![i].valid = @ /\ ic[i].ref > 0]

NoEntry(ic, i) == ic[i].ref = 0 /\ Cardinality({j \in Inums : ic[j].ref > 0}) >= NINODE

Ilock(ic, i, p) ==
  LET m == IF ic[i].valid THEN Dinode(ic, i) ELSE disk.dinode[i]
  IN  [ic EXCEPT ![i] = [@ EXCEPT !.lock = p, !.valid = TRUE, !.type = m.type, !.nlink = m.nlink]]

Iunlock(ic, i) == [ic EXCEPT ![i].lock = NoProc]

Relink(ic, i, k) == [ic EXCEPT ![i].nlink = @ + k]

Running(p, l) == ~panicked /\ task[p].pc = l /\ task[p].todo = <<>>

(* The inode that a process at this label locks next. *)
Wanted(p) ==
  LET r == task[p]
  IN  CASE r.todo # <<>> -> NoInode
        [] r.pc \in {"walk", "open", "chdir", "link", "dirlink", "unlink", "create"} -> r.ip
        [] r.pc \in {"victim", "found", "made", "bad"} -> r.child
        [] r.pc = "write" -> r.ofile
        [] OTHER -> NoInode

Locks(p, l) ==
  LET i == Wanted(p)
  IN  /\ Running(p, l)
      /\ icache[i].lock = NoProc
      /\ icache[i].valid \/ disk.dinode[i].type # "free"

(* ilock(): "no type". *)
NoType(p) ==
  LET i == Wanted(p)
  IN  /\ ~panicked /\ i # NoInode
      /\ icache[i].lock = NoProc /\ ~icache[i].valid /\ disk.dinode[i].type = "free"
      /\ panicked' = TRUE
      /\ UNCHANGED <<disk, stable, icache, task, menu, raced>>

NoLinks(i) == icache[i].valid /\ icache[i].nlink = 0
LastRef(i) == icache[i].ref = 1 /\ icache[i].valid /\ icache[i].nlink = 0

(* iput(): the test under icache.lock, then either ref-- or the freeing. *)
Iput(p) ==
  LET i == Head(task[p].todo)
  IN  /\ ~panicked /\ task[p].todo # <<>> /\ task[p].freeing = "no"
      /\ \/ /\ LastRef(i)
            /\ task' = [task EXCEPT ![p].freeing = "trunc"] /\ UNCHANGED icache
         \/ /\ ~LastRef(i)
            /\ task' = [task EXCEPT ![p].todo = Tail(@)]
            /\ icache' = [icache EXCEPT ![i].ref = @ - 1]
      /\ UNCHANGED <<disk, stable, panicked, menu, raced>>

(* itrunc(ip), which ends with iupdate(ip). *)
IputTrunc(p) ==
  LET i == Head(task[p].todo)
  IN  /\ ~panicked /\ task[p].freeing = "trunc"
      /\ disk' = [Iupdate(disk, icache, i) EXCEPT !.ents[i] = NoEnts, !.data[i] = "none"]
      /\ task' = [task EXCEPT ![p].freeing = "type"]
      /\ UNCHANGED <<stable, icache, panicked, menu, raced>>

(* ip->type = 0; iupdate(ip). *)
IputFree(p) ==
  LET i == Head(task[p].todo)
  IN  /\ ~panicked /\ task[p].freeing = "type"
      /\ icache' = [icache EXCEPT ![i].type = "free"]
      /\ disk' = Iupdate(disk, icache', i)
      /\ task' = [task EXCEPT ![p].freeing = "drop"]
      /\ UNCHANGED <<stable, panicked, menu, raced>>

(* acquire(&icache.lock); ip->flags = 0; ip->ref--. *)
Freed(i) == [icache EXCEPT ![i].valid = FALSE, ![i].ref = @ - 1]
IputDrop(p) ==
  LET i == Head(task[p].todo)
  IN  /\ ~panicked /\ task[p].freeing = "drop"
      /\ icache' = Freed(i)
      /\ task' = [task EXCEPT ![p].todo = Tail(@), ![p].freeing = "no"]
      /\ UNCHANGED <<disk, stable, panicked, menu, raced>>

-----------------------------------------------------------------------------
(* Path lookup.                                                              *)

Creates == {"creat", "mkdir", "mknod"}

(* sys_link() walks twice; the second walk has the linked inode in child. *)
Parent(r) == r.call.op \in Creates \cup {"unlink"} \/ r.child # NoInode

After(r) ==
  CASE r.call.op \in Creates -> "create"
    [] r.call.op = "link" /\ r.child # NoInode -> "dirlink"
    [] r.call.op = "openw" -> "open"
    [] OTHER -> r.call.op

(* namex() returns 0 after iput(ip). *)
NotFound(r) == [r EXCEPT !.todo = Append(@, r.ip), !.ip = NoInode,
                         !.pc = IF r.child # NoInode THEN "bad" ELSE "end"]

(* The test of the while loop, and what follows the loop. *)
Arrived(r) ==
  CASE r.rest # <<>> -> r
    [] r.rest = <<>> /\ Parent(r) -> NotFound(r)
    [] OTHER -> [r EXCEPT !.pc = After(r)]

Start(r, path) ==
  Arrived([r EXCEPT !.ip = IF path.abs THEN Root ELSE r.cwd, !.rest = path.elems, !.pc = "walk"])

(* One turn of the loop of namex(). *)
Walk(p) ==
  LET r    == task[p]
      i    == r.ip
      got  == Ilock(icache, i, p)
      stop == Parent(r) /\ Len(r.rest) = 1
      next == disk.ents[i][Head(r.rest)]
  IN  /\ Locks(p, "walk")
      /\ \/ /\ got[i].type # "dir" \/ (~stop /\ next = NoInode)
            /\ task' = [task EXCEPT ![p] = NotFound(r)]
            /\ icache' = Iunlock(got, i) /\ UNCHANGED panicked
         \/ /\ got[i].type = "dir" /\ stop
            /\ task' = [task EXCEPT ![p].pc = After(r)]
            /\ icache' = Iunlock(got, i) /\ UNCHANGED panicked
         \/ /\ got[i].type = "dir" /\ ~stop /\ next # NoInode
            /\ task' = [task EXCEPT ![p] = Arrived([r EXCEPT !.ip = next, !.rest = Tail(@),
                                                             !.todo = <<i>>])]
            /\ icache' = Iget(Iunlock(got, i), next) /\ panicked' = NoEntry(icache, next)
      /\ UNCHANGED <<disk, stable, menu, raced>>

-----------------------------------------------------------------------------
(* The system calls.  Each is a transaction: begin_op() ... end_op().        *)

(* Enter a call.  fileclose() and filewrite() have their inode already. *)
Begin(p, c) ==
  LET r == [task[p] EXCEPT !.call = c]
  IN  /\ Running(p, "user") /\ c \in menu[p]
      /\ \/ /\ c.op = "close" /\ r.ofile # NoInode
            /\ task' = [task EXCEPT ![p] = [r EXCEPT !.ofile = NoInode, !.writable = FALSE,
                                                     !.todo = <<r.ofile>>, !.pc = "end"]]
            /\ UNCHANGED icache
         \/ /\ c.op = "write" /\ r.writable
            /\ task' = [task EXCEPT ![p] = [r EXCEPT !.pc = "write"]]
            /\ UNCHANGED icache
         \/ /\ c.op \notin {"close", "write"}
            /\ task' = [task EXCEPT ![p] = Start(r, c.path)]
            /\ icache' = Iget(icache, IF c.path.abs THEN Root ELSE r.cwd)
      /\ UNCHANGED <<disk, stable, panicked, menu, raced>>

Commits(p) == \A q \in Procs \ {p} : task[q].pc = "user"
EndOp(p) ==
  /\ Running(p, "end")
  /\ task' = [task EXCEPT ![p] = [Idle(@.cwd) EXCEPT !.ofile = task[p].ofile,
                                                   !.writable = task[p].writable]]
  /\ stable' = IF Commits(p) THEN disk ELSE stable
  /\ UNCHANGED <<disk, icache, panicked, menu, raced>>

(* iunlockput(ip); end_op(); return. *)
Leave(p, r) == task' = [task EXCEPT ![p] = [r EXCEPT !.pc = "end"]]

(* sys_open() without O_CREATE: ilock(ip) and the test for directories. *)
Open(p) ==
  LET r == task[p]
      i == r.ip
      got == Ilock(icache, i, p)
  IN  /\ Locks(p, "open")
      /\ \/ /\ got[i].type = "dir" /\ r.call.op = "openw"
            /\ icache' = Iunlock(got, i)
            /\ Leave(p, [r EXCEPT !.ip = NoInode, !.todo = <<i>>])
         \/ /\ ~(got[i].type = "dir" /\ r.call.op = "openw")
            /\ icache' = got
            /\ task' = [task EXCEPT ![p] = [r EXCEPT !.pc = "opened", !.ip = NoInode, !.child = i]]
      /\ UNCHANGED <<disk, stable, panicked, menu, raced>>

(* The tail of sys_open(), sys_mkdir() and sys_mknod(), ip locked: the file  *)
(* takes over the reference, or iunlockput(ip).                              *)
Opened(p) ==
  LET r == [task[p] EXCEPT !.child = NoInode]
      i == task[p].child
      opens == r.call.op \in {"open", "openw", "creat"} /\ r.ofile = NoInode
  IN  /\ Running(p, "opened")
      /\ icache' = Iunlock(icache, i)
      /\ \/ opens /\ Leave(p, [r EXCEPT !.ofile = i, !.writable = (r.call.op # "open")])
         \/ ~opens /\ Leave(p, [r EXCEPT !.todo = <<i>>])
      /\ UNCHANGED <<disk, stable, panicked, menu, raced>>

TypeOf(op) == CASE op = "creat" -> "file" [] op = "mkdir" -> "dir" [] OTHER -> "dev"

(* create(): lookup in the locked parent; ialloc() when the name is new.     *)
(* ialloc() takes the first free dinode and ends with iget().                *)
Create(p) ==
  LET r == task[p]
      dp == r.ip
      got == Ilock(icache, dp, p)
      old == disk.ents[dp][Head(r.rest)]
      spare == {i \in Inums : disk.dinode[i].type = "free"}
      new == Min(spare)
  IN  /\ Locks(p, "create")
      /\ \/ /\ old # NoInode
            /\ icache' = Iget(Iunlock(got, dp), old) /\ panicked' = NoEntry(got, old)
            /\ task' = [task EXCEPT ![p] = [r EXCEPT !.pc = "found", !.child = old, !.ip = NoInode,
                                                     !.todo = <<dp>>]]
            /\ UNCHANGED <<disk, raced>>
         \/ /\ old = NoInode /\ spare # {}
            /\ disk' = [disk EXCEPT !.dinode[new] = [type |-> TypeOf(r.call.op), nlink |-> 0]]
            /\ icache' = Iget(got, new) /\ panicked' = NoEntry(got, new)
            /\ task' = [task EXCEPT ![p] = [r EXCEPT !.pc = "made", !.child = new]]
            /\ raced' = raced \cup {i \in {new} : icache'[i].valid}
         \/ /\ old = NoInode /\ spare = {}
            /\ panicked' = TRUE /\ UNCHANGED <<disk, icache, task, raced>>
      /\ UNCHANGED <<stable, menu>>

(* create(), the name exists: only a file may be opened this way. *)
Found(p) ==
  LET r == task[p]
      i == r.child
      got == Ilock(icache, i, p)
      ok == r.call.op = "creat" /\ got[i].type = "file"
  IN  /\ Locks(p, "found")
      /\ \/ /\ ok /\ icache' = got
            /\ task' = [task EXCEPT ![p].pc = "opened"]
         \/ /\ ~ok /\ icache' = Iunlock(got, i)
            /\ Leave(p, [r EXCEPT !.child = NoInode, !.todo = <<i>>])
      /\ UNCHANGED <<disk, stable, panicked, menu, raced>>

(* create(), the new inode: nlink, "." and "..", and the entry in dp. *)
Made(p) ==
  LET r == task[p]
      dp == r.ip
      i == r.child
      dir == r.call.op = "mkdir"
      one == [Ilock(icache, i, p) EXCEPT ![i].nlink = 1]
      ic == IF dir THEN Relink(one, dp, 1) ELSE one
      dots == IF dir THEN [NoEnts EXCEPT !["."] = i, ![".."] = dp] ELSE NoEnts
  IN  /\ Locks(p, "made")
      /\ icache' = Iunlock(ic, dp)
      /\ disk' = [Iupdate(Iupdate(disk, ic, i), ic, dp)
                    EXCEPT !.ents[i] = dots, !.ents[dp][Head(r.rest)] = i]
      /\ task' = [task EXCEPT ![p] = [r EXCEPT !.pc = "opened", !.ip = NoInode, !.todo = <<dp>>]]
      /\ UNCHANGED <<stable, panicked, menu, raced>>

(* sys_link(): the link count goes up before the second lookup. *)
Counted(ic, i) == Relink(ic, i, 1)
Link(p) ==
  LET r == task[p]
      i == r.ip
      got == Ilock(icache, i, p)
      more == Counted(got, i)
  IN  /\ Locks(p, "link")
      /\ \/ /\ got[i].type = "dir"
            /\ icache' = Iunlock(got, i) /\ UNCHANGED disk
            /\ Leave(p, [r EXCEPT !.ip = NoInode, !.todo = <<i>>])
         \/ /\ got[i].type # "dir"
            /\ disk' = Iupdate(disk, more, i)
            /\ icache' = Iget(Iunlock(more, i), IF r.call.new.abs THEN Root ELSE r.cwd)
            /\ task' = [task EXCEPT ![p] = Start([r EXCEPT !.child = i], r.call.new)]
      /\ UNCHANGED <<stable, panicked, menu, raced>>

(* sys_link(): dirlink(dp, name, ip->inum), which fails when the name exists *)
(* (the inode it found is dropped again).                                    *)
ParentOnly(old, dp) == <<dp>>
Puts(old, dp) == <<old, dp>>
DirLink(p) ==
  LET r == task[p]
      dp == r.ip
      i == r.child
      n == Head(r.rest)
      got == Iunlock(Ilock(icache, dp, p), dp)
      old == disk.ents[dp][n]
  IN  /\ Locks(p, "dirlink")
      /\ \/ /\ old # NoInode
            /\ icache' = Iget(got, old) /\ panicked' = NoEntry(got, old)
            /\ task' = [task EXCEPT ![p] = [r EXCEPT !.pc = "bad", !.ip = NoInode,
                                                     !.todo = Puts(old, dp)]]
            /\ UNCHANGED disk
         \/ /\ old = NoInode
            /\ disk' = [disk EXCEPT !.ents[dp][n] = i]
            /\ icache' = got /\ UNCHANGED panicked
            /\ Leave(p, [r EXCEPT !.ip = NoInode, !.child = NoInode, !.todo = <<dp, i>>])
      /\ UNCHANGED <<stable, menu, raced>>

(* sys_link(), bad: take the link back. *)
Bad(p) ==
  LET i == task[p].child
      less == Relink(Ilock(icache, i, p), i, -1)
  IN  /\ Locks(p, "bad")
      /\ icache' = Iunlock(less, i) /\ disk' = Iupdate(disk, less, i)
      /\ Leave(p, [task[p] EXCEPT !.child = NoInode, !.todo = <<i>>])
      /\ UNCHANGED <<stable, panicked, menu, raced>>

(* sys_unlink(): lookup in the parent, which stays locked. *)
RefusedDot(n) == n = "."
Refused(n) == n \in Dots
Unlink(p) ==
  LET r == task[p]
      dp == r.ip
      n == Head(r.rest)
      got == Ilock(icache, dp, p)
      i == disk.ents[dp][n]
  IN  /\ Locks(p, "unlink")
      /\ \/ /\ Refused(n) \/ i = NoInode
            /\ icache' = Iunlock(got, dp) /\ UNCHANGED panicked
            /\ Leave(p, [r EXCEPT !.ip = NoInode, !.todo = <<dp>>])
         \/ /\ ~Refused(n) /\ i # NoInode
            /\ icache' = Iget(got, i) /\ panicked' = NoEntry(got, i)
            /\ task' = [task EXCEPT ![p] = [r EXCEPT !.pc = "victim", !.child = i]]
      /\ UNCHANGED <<disk, stable, menu, raced>>

IsDirEmpty(i) == \A n \in Names : disk.ents[i][n] = NoInode

(* sys_unlink(): the victim is locked too; its entry goes, and with a        *)
(* directory the parent loses the link of "..".                              *)
Victim(p) ==
  LET r == task[p]
      dp == r.ip
      i == r.child
      got == Ilock(icache, i, p)
      dir == got[i].type = "dir"
      ic == IF dir THEN Relink(got, dp, -1) ELSE got
  IN  /\ Locks(p, "victim")
      /\ \/ /\ got[i].nlink < 1
            /\ panicked' = TRUE /\ UNCHANGED <<disk, icache, task>>
         \/ /\ got[i].nlink >= 1 /\ dir /\ ~IsDirEmpty(i)
            /\ icache' = Iunlock(Iunlock(got, i), dp) /\ UNCHANGED <<disk, panicked>>
            /\ Leave(p, [r EXCEPT !.ip = NoInode, !.child = NoInode, !.todo = <<i, dp>>])
         \/ /\ got[i].nlink >= 1 /\ ~(dir /\ ~IsDirEmpty(i))
            /\ icache' = Iunlock(ic, dp)
            /\ disk' = [Iupdate(disk, ic, dp) EXCEPT !.ents[dp][Head(r.rest)] = NoInode]
            /\ task' = [task EXCEPT ![p] = [r EXCEPT !.pc = "unlinked", !.ip = NoInode,
                                                     !.todo = <<dp>>]]
            /\ UNCHANGED panicked
      /\ UNCHANGED <<stable, menu, raced>>

(* sys_unlink(): ip->nlink--, once the parent has been put. *)
Unlinked(p) ==
  LET i == task[p].child
      less == Relink(icache, i, -1)
  IN  /\ Running(p, "unlinked")
      /\ icache' = Iunlock(less, i) /\ disk' = Iupdate(disk, less, i)
      /\ Leave(p, [task[p] EXCEPT !.child = NoInode, !.todo = <<i>>])
      /\ UNCHANGED <<stable, panicked, menu, raced>>

(* sys_chdir(). *)
Chdir(p) ==
  LET r == task[p]
      i == r.ip
      got == Ilock(icache, i, p)
  IN  /\ Locks(p, "chdir")
      /\ icache' = Iunlock(got, i)
      /\ \/ /\ got[i].type # "dir"
            /\ Leave(p, [r EXCEPT !.ip = NoInode, !.todo = <<i>>])
         \/ /\ got[i].type = "dir"
            /\ Leave(p, [r EXCEPT !.ip = NoInode, !.cwd = i, !.todo = <<r.cwd>>])
      /\ UNCHANGED <<disk, stable, panicked, menu, raced>>

(* filewrite() on an open file. *)
Write(p) ==
  LET i == task[p].ofile
      got == Ilock(icache, i, p)
  IN  /\ Locks(p, "write")
      /\ icache' = Iunlock(got, i)
      /\ disk' = IF got[i].type = "file" THEN [disk EXCEPT !.data[i] = task[p].call.val] ELSE disk
      /\ Leave(p, task[p])
      /\ UNCHANGED <<stable, panicked, menu, raced>>

(* Power failure and reboot: initlog() leaves the committed disk, iinit() an *)
(* empty cache.                                                              *)
Crash ==
  /\ disk' = stable
  /\ icache' = Cold
  /\ task' = [p \in Procs |-> Idle(Root)]
  /\ panicked' = FALSE
  /\ UNCHANGED <<stable, menu, raced>>

Step(p) ==
  \/ \E c \in menu[p] : Begin(p, c)
  \/ EndOp(p) \/ NoType(p)
  \/ Iput(p) \/ IputTrunc(p) \/ IputFree(p) \/ IputDrop(p)
  \/ Walk(p) \/ Open(p) \/ Opened(p)
  \/ Create(p) \/ Found(p) \/ Made(p)
  \/ Link(p) \/ DirLink(p) \/ Bad(p)
  \/ Unlink(p) \/ Victim(p) \/ Unlinked(p)
  \/ Chdir(p) \/ Write(p)

Next == Crash \/ \E p \in Procs : Step(p)

Spec == Init /\ [][Next]_vars

-----------------------------------------------------------------------------
Links == 0 .. 3 * NINODES
DiskType == [dinode : [Inums -> [type : Types, nlink : Links]],
             ents : [Inums -> [Names \cup Dots -> {NoInode} \cup Inums]],
             data : [Inums -> Vals \cup {"none"}]]

(* The type invariant: link counts in particular never go below zero. *)
TypeOK ==
  /\ disk \in DiskType /\ stable \in DiskType
  /\ icache \in [Inums -> [ref : 0 .. 6 * Cardinality(Procs), valid : BOOLEAN, type : Types,
                          nlink : Links, lock : Procs \cup {NoProc}]]
  /\ panicked \in BOOLEAN
  /\ \A p \in Procs : task[p].cwd \in Inums /\ {task[p].ip, task[p].child, task[p].ofile}
                                                  \subseteq {NoInode} \cup Inums

Holds(p, i) == Cardinality({f \in {"cwd", "ofile", "ip", "child"} : task[p][f] = i})
                 + Cardinality({k \in DOMAIN task[p].todo : task[p].todo[k] = i})

(* Entries that name i, and the subdirectories whose ".." does. *)
Entries(d, i) == {e \in Inums \X Names : d.ents[e[1]][e[2]] = i}
Subdirs(d, i) == {c \in Inums \ {Root} : d.ents[c][".."] = i /\ Entries(d, c) # {}}

(* Both counts of an inode are right at every step of link(), unlink(),      *)
(* create() and iput(), error paths included.  ref is the number of pointers *)
(* to it (working directories, open files, locals of calls in progress), and *)
(* only a process with a reference holds its lock, so an entry is never      *)
(* recycled while it is locked.  What a directory entry names is allocated   *)
(* and has at least as many links as entries: no interleaving frees an inode *)
(* that a path still leads to, but for the numbers in raced.                 *)
RefsCounted ==
  /\ TypeOK
  /\ \A i \in Inums :
       /\ icache[i].ref = MapThenSumSet(LAMBDA p : Holds(p, i), Procs)
       /\ icache[i].lock # NoProc => Holds(icache[i].lock, i) > 0
       /\ Entries(disk, i) # {} /\ i \notin raced =>
            /\ disk.dinode[i].type # "free"
            /\ disk.dinode[i].nlink >= Cardinality(Entries(disk, i)) + Cardinality(Subdirs(disk, i))

Correct(i) == icache[i].valid => Dinode(icache, i) = disk.dinode[i]

(* A cached inode marked I_VALID is what the disk has: iupdate() follows     *)
(* every change, of several processes that link, unlink, create, open and    *)
(* free.  There is one way to lose this, and iput() opens it: ialloc() gives *)
(* a number out after iput() has freed it on disk and before it has cleared  *)
(* I_VALID (raced).                                                          *)
CacheCoherent == \A i \in Inums \ raced : Correct(i)

(* "Valid: the information (type, size, &c) in an inode cache entry is only  *)
(* correct when the I_VALID bit is set in ip->flags. ilock() reads the inode *)
(* from the disk and sets I_VALID, while iput() clears I_VALID if ip->ref    *)
(* has fallen to zero." (fs.c): whenever I_VALID is set, the entry is        *)
(* correct.                                                                  *)
ValidIsCorrect == \A i \in Inums : Correct(i)


Writes(p, i) == task[p].pc = "write" /\ task[p].ofile = i /\ task'[p].pc = "end"

(* An open file survives the removal of its last name: until close(), only   *)
(* write() changes its contents, and it stays allocated (unless it is in     *)
(* raced).                                                                   *)
OpenKept ==
  [][\A p \in Procs : LET i == task[p].ofile IN
       i \notin {NoInode} \cup raced /\ task'[p].ofile = i =>
         /\ disk'.dinode[i].type = disk.dinode[i].type
         /\ disk'.data[i] = disk.data[i] \/ \E q \in Procs : Writes(q, i)]_vars

Blocked(p) == Wanted(p) # NoInode /\ icache[Wanted(p)].lock # NoProc

(* The calls never wait for each other in a circle: unlink() and create()    *)
(* hold a directory while they wait for an inode in it, and a directory is   *)
(* never below itself.                                                       *)
NoDeadlock ==
  (\E p \in Procs : task[p].pc # "user") =>
    \E p \in Procs : task[p].pc # "user" /\ ~Blocked(p)
=============================================================================
