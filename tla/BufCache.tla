------------------------------ MODULE BufCache ------------------------------
(***************************************************************************)
(* bio.c, sleeplock.c and ide.c: the cache of disk blocks, the lock each   *)
(* buffer has, and the driver's queue.  bcache.lock, the lock inside a     *)
(* sleep lock and idelock are each held for one step; a process may be     *)
(* overtaken between two of them.  sleep() and wakeup() are those of the   *)
(* process table: wakeup makes every sleeper on the channel try again.     *)
(***************************************************************************)
EXTENDS Integers, Sequences, FiniteSets

CONSTANTS
  NBUF, Procs, Vals,
  Blocks,      \* block numbers on the root device, in the order callers nest them
  MaxDirty,    \* bound: blocks log_write() pins before a commit writes them
  MaxHold,     \* bound: buffers a process holds at a time
  IoErrors     \* whether the disk may report an error for a read

ASSUME BufAssumption ==
  /\ NBUF \in Nat \ {0} /\ Blocks \subseteq Nat \ {0} /\ IsFiniteSet(Procs) /\ Vals # {}
  /\ MaxDirty \in Nat /\ MaxHold \in Nat /\ IoErrors \in BOOLEAN

VARIABLES
  blockno, valid, dirty, data, refcnt,  \* struct buf
  locked,      \* its sleep lock
  mru,         \* bcache's list, most recently used first
  idequeue, busy, disk,                 \* the driver, the controller, the platters
  pc, want,    \* where a process is, and the buffer it is at
  held,        \* the buffers whose lock it has
  panicked

bufs == <<blockno, valid, dirty, data>>
ide == <<idequeue, busy, disk>>
procs == <<pc, want, held>>
vars == <<bufs, refcnt, locked, mru, ide, procs, panicked>>

Bufs == 1..NBUF
Unused == 0  \* binit() leaves block 0 of device 0, which nobody reads
Fill == CHOOSE v \in Vals : TRUE
Goto(p, l) == pc' = [pc EXCEPT ![p] = l]
Wake(from, to, b) == [q \in Procs |-> IF pc[q] = from /\ want[q] = b THEN to ELSE pc[q]]

Init ==
  /\ blockno = [b \in Bufs |-> Unused] /\ data = [b \in Bufs |-> Fill]
  /\ valid = [b \in Bufs |-> FALSE] /\ dirty = [b \in Bufs |-> FALSE]
  /\ refcnt = [b \in Bufs |-> 0] /\ locked = [b \in Bufs |-> FALSE]
  /\ mru = [i \in Bufs |-> NBUF + 1 - i]
  /\ idequeue = <<>> /\ busy = FALSE /\ disk \in [Blocks -> Vals]
  /\ pc = [p \in Procs |-> "idle"] /\ want = [p \in Procs |-> 1]
  /\ held = [p \in Procs |-> {}] /\ panicked = FALSE

(* bget(): the cached buffer, or else the least recently used one that is    *)
(* neither referenced nor pinned by the log.                                 *)
RecyclableDirty(b) == refcnt[b] = 0
Recyclable(b) == refcnt[b] = 0 /\ ~dirty[b]
CachedInUse(n) == {b \in Bufs : blockno[b] = n /\ refcnt[b] > 0}
Cached(n) == {b \in Bufs : blockno[b] = n}
Ref(b) == refcnt' = [refcnt EXCEPT ![b] = @ + 1]
BGet(p, n) ==
  /\ pc[p] = "idle" /\ Cardinality(held[p]) < MaxHold
  /\ \A b \in held[p] : blockno[b] < n
  /\ \/ \E b \in Cached(n) :
          /\ Ref(b)
          /\ want' = [want EXCEPT ![p] = b] /\ Goto(p, "lock")
          /\ UNCHANGED <<bufs, panicked>>
     \/ /\ Cached(n) = {}
        /\ LET free == {i \in Bufs : Recyclable(mru[i])}
               b == mru[CHOOSE i \in free : \A j \in free : j <= i]
           IN IF free = {} THEN panicked' = TRUE /\ UNCHANGED <<bufs, refcnt, pc, want>>
              ELSE /\ blockno' = [blockno EXCEPT ![b] = n]
                   /\ valid' = [valid EXCEPT ![b] = FALSE]
                   /\ dirty' = [dirty EXCEPT ![b] = FALSE]
                   /\ refcnt' = [refcnt EXCEPT ![b] = 1]
                   /\ want' = [want EXCEPT ![p] = b] /\ Goto(p, "lock")
                   /\ UNCHANGED <<data, panicked>>
  /\ UNCHANGED <<locked, mru, ide, held>>

(* acquiresleep() *)
AcquireSleep(p) ==
  /\ pc[p] = "lock"
  /\ IF locked[want[p]] THEN Goto(p, "lksleep") /\ UNCHANGED locked
     ELSE Goto(p, "bread") /\ locked' = [locked EXCEPT ![want[p]] = TRUE]
  /\ UNCHANGED <<bufs, refcnt, mru, ide, want, held, panicked>>

(* idestart(): the controller takes a dirty buffer's data at once. *)
IdeStart(b, isDirty) ==
  /\ busy' = TRUE
  /\ disk' = IF isDirty THEN [disk EXCEPT ![blockno[b]] = data'[b]] ELSE disk

(* iderw(): queue the buffer, start the disk if it was idle, and sleep. *)
IdeRw(p, b, isDirty) ==
  /\ idequeue' = Append(idequeue, b)
  /\ IF idequeue = <<>> THEN IdeStart(b, isDirty) ELSE UNCHANGED <<busy, disk>>
  /\ Goto(p, "iosleep")

(* bread() with the lock held: read the block unless the buffer has it. *)
BReadUnread(p) ==
  /\ pc[p] = "bread" /\ Goto(p, "idle")
  /\ held' = [held EXCEPT ![p] = @ \cup {want[p]}]
  /\ UNCHANGED <<bufs, refcnt, locked, mru, ide, want, panicked>>
BRead(p) ==
  /\ pc[p] = "bread"
  /\ UNCHANGED bufs
  /\ IF valid[want[p]]
     THEN /\ held' = [held EXCEPT ![p] = @ \cup {want[p]}]
          /\ Goto(p, "idle") /\ UNCHANGED ide
     ELSE IdeRw(p, want[p], dirty[want[p]]) /\ UNCHANGED held
  /\ UNCHANGED <<refcnt, locked, mru, want, panicked>>

(* Start the disk on the next buffer in the queue. *)
StartNextForgotten == busy' = FALSE /\ UNCHANGED disk
StartNext ==
  IF idequeue' = <<>> THEN busy' = FALSE /\ UNCHANGED disk
  ELSE IdeStart(Head(idequeue'), dirty[Head(idequeue')])

(* ideintr(): a read error leaves the data as it was. *)
IdeIntr ==
  /\ busy
  /\ LET b == Head(idequeue)
     IN /\ idequeue' = Tail(idequeue)
        /\ IF dirty[b] THEN UNCHANGED data
           ELSE \/ data' = [data EXCEPT ![b] = disk[blockno[b]]]
                \/ IoErrors /\ UNCHANGED data
        /\ valid' = [valid EXCEPT ![b] = TRUE] /\ dirty' = [dirty EXCEPT ![b] = FALSE]
        /\ pc' = Wake("iosleep", "io", b)
  /\ StartNext
  /\ UNCHANGED <<blockno, refcnt, locked, mru, want, held, panicked>>

(* The loop of iderw() after a wakeup; bread() or bwrite() returns. *)
IdeWait(p) ==
  /\ pc[p] = "io"
  /\ IF valid[want[p]] /\ ~dirty[want[p]]
     THEN Goto(p, "idle") /\ held' = [held EXCEPT ![p] = @ \cup {want[p]}]
     ELSE Goto(p, "iosleep") /\ UNCHANGED held
  /\ UNCHANGED <<bufs, refcnt, locked, mru, ide, want, panicked>>

(* A holder changes the block and calls log_write(), which pins it ... *)
LogWrite(p, b, v) ==
  /\ pc[p] = "idle" /\ b \in held[p]
  /\ Cardinality({c \in Bufs : dirty[c]} \cup {b}) <= MaxDirty
  /\ data' = [data EXCEPT ![b] = v] /\ dirty' = [dirty EXCEPT ![b] = TRUE]
  /\ UNCHANGED <<blockno, valid, refcnt, locked, mru, ide, procs, panicked>>

(* ... or bwrite(), as the log does. *)
BWrite(p, b, v) ==
  /\ pc[p] = "idle" /\ b \in held[p]
  /\ data' = [data EXCEPT ![b] = v] /\ dirty' = [dirty EXCEPT ![b] = TRUE]
  /\ want' = [want EXCEPT ![p] = b]
  /\ IdeRw(p, b, TRUE)
  /\ UNCHANGED <<blockno, valid, refcnt, locked, mru, held, panicked>>

(* brelse(): releasesleep(), then give up the reference. *)
BRelse(p, b) ==
  /\ pc[p] = "idle" /\ b \in held[p]
  /\ locked' = [locked EXCEPT ![b] = FALSE]
  /\ held' = [held EXCEPT ![p] = @ \ {b}]
  /\ want' = [want EXCEPT ![p] = b]
  /\ pc' = [Wake("lksleep", "lock", b) EXCEPT ![p] = "unref"]
  /\ UNCHANGED <<bufs, refcnt, mru, ide, panicked>>

Front(b) ==
  LET k == CHOOSE i \in Bufs : mru[i] = b
  IN [i \in Bufs |-> IF i = 1 THEN b ELSE IF i <= k THEN mru[i - 1] ELSE mru[i]]
Unref(p) ==
  /\ pc[p] = "unref"
  /\ refcnt' = [refcnt EXCEPT ![want[p]] = @ - 1]
  /\ mru' = IF refcnt'[want[p]] = 0 THEN Front(want[p]) ELSE mru
  /\ Goto(p, "idle")
  /\ UNCHANGED <<bufs, locked, ide, want, held, panicked>>

Step(p) ==
  \/ AcquireSleep(p) \/ BRead(p) \/ IdeWait(p) \/ Unref(p)
  \/ \E b \in Bufs : BRelse(p, b)
Call(p) ==
  \/ \E n \in Blocks : BGet(p, n)
  \/ \E b \in Bufs, v \in Vals : LogWrite(p, b, v) \/ BWrite(p, b, v)
Halted == panicked /\ UNCHANGED vars  \* panic() loops for ever
Next == (~panicked /\ ((\E p \in Procs : Step(p) \/ Call(p)) \/ IdeIntr)) \/ Halted

Spec == Init /\ [][Next]_vars
------------------------------------------------------------------------------
(* Types. *)
TypeOK ==
  /\ blockno \in [Bufs -> Blocks \cup {Unused}] /\ data \in [Bufs -> Vals]
  /\ valid \in [Bufs -> BOOLEAN] /\ dirty \in [Bufs -> BOOLEAN]
  /\ refcnt \in [Bufs -> Nat] /\ locked \in [Bufs -> BOOLEAN]
  /\ mru \in [Bufs -> Bufs] /\ \A i, j \in Bufs : mru[i] = mru[j] => i = j
  /\ idequeue \in Seq(Bufs) /\ busy \in BOOLEAN /\ disk \in [Blocks -> Vals]
  /\ pc \in [Procs -> {"idle", "lock", "lksleep", "bread", "iosleep", "io", "unref"}]
  /\ want \in [Procs -> Bufs] /\ held \in [Procs -> SUBSET Bufs] /\ panicked \in BOOLEAN

Users(b) == {p \in Procs : b \in held[p] \/ (pc[p] # "idle" /\ want[p] = b)}

(* No block is ever in two buffers: bget()'s search and its recycling are    *)
(* one step under bcache.lock.  And refcnt counts the processes that look    *)
(* for, hold or give back the buffer, so that a buffer is recycled only when *)
(* nobody is about to lock it.                                               *)
OneBuffer ==
  /\ TypeOK
  /\ \A b, c \in Bufs : blockno[b] = blockno[c] /\ blockno[b] # Unused => b = c
  /\ \A b \in Bufs : refcnt[b] = Cardinality(Users(b))

(* The contents of a block: the cached ones if there are any. *)
Contents ==
  [n \in Blocks |-> IF \E b \in Cached(n) : valid[b]
                    THEN data[CHOOSE b \in Cached(n) : valid[b]] ELSE disk[n]]
Abs == INSTANCE BlockStore
         WITH contents <- Contents,
              holder <- [n \in Blocks |-> {p \in Procs : \E b \in held[p] : blockno[b] = n}]

(* What bread() gave a process is the block and stays so until brelse().     *)
(* B_VALID: "buffer has been read from disk", B_DIRTY: "buffer needs to be   *)
(* written to disk" (buf.h): a clean valid buffer is what the disk has.      *)
HoldersSee ==
  /\ \A p \in Procs : \A b \in held[p] : locked[b] /\ blockno[b] \in Blocks /\ valid[b]
  /\ \A b \in Bufs : valid[b] /\ ~dirty[b] => data[b] = disk[blockno[b]]

(* The cache is coherent: whatever is evicted, queued or written behind, a   *)
(* block has one contents, changed only by the process that has it locked.   *)
Coherent == Abs!Spec

(* Whoever sleeps will be woken: a sleeper on the lock has a holder before   *)
(* it, one on the disk has its buffer queued, and the disk works on a queue. *)
NoLostWakeup ==
  /\ busy <=> idequeue # <<>>
  /\ \A p \in Procs :
       /\ pc[p] = "lksleep" => locked[want[p]]
       /\ pc[p] = "iosleep" => \E i \in 1..Len(idequeue) : idequeue[i] = want[p]
=============================================================================
