-------------------------------- MODULE Log --------------------------------
(***************************************************************************)
(* log.c: the redo log under the file system calls.  Processes bracket     *)
(* their updates with begin_op() and end_op(); the last one out commits;   *)
(* the machine may lose power between any two disk writes, in recovery     *)
(* too.  What happens under log.lock is one step, and so is the write of a *)
(* block (BSIZE is the size of a sector).  The test for room in            *)
(* log_write() is made before the lock is taken: a step of its own.        *)
(***************************************************************************)
EXTENDS Integers, Sequences, FiniteSets

CONSTANTS
  Blocks,       \* the home blocks the calls update
  Procs,        \* the processes that make file system calls
  Vals,         \* what a block may hold
  MAXOPBLOCKS,  \* blocks reserved for a call: 10
  LOGSIZE,      \* blocks of a transaction: MAXOPBLOCKS * 3
  NLOG,         \* sb.nlog, header included: mkfs makes it LOGSIZE
  OpBlocks      \* bound: the blocks a call really updates, more than MAXOPBLOCKS too

ASSUME LogAssumption ==
  /\ MAXOPBLOCKS \in Nat \ {0} /\ OpBlocks \in Nat
  /\ LOGSIZE \in Nat /\ NLOG \in Nat \ {0}
  /\ Vals # {} /\ IsFiniteSet(Procs)

VARIABLES
  lh,           \* log.lh: the block numbers of the transaction
  outstanding, committing,
  cache,        \* what bread() of a home block returns
  home,         \* the home blocks on disk
  dlog,         \* the log's data blocks on disk
  dhead,        \* the log's header block on disk
  pc, wrote,    \* where each process is, the blocks its call has updated
  over,         \* history: blocks added to the transaction beyond a reservation
  tail,         \* loop index of write_log() and install_trans()
  machine       \* "up", "off", "recover", "clear" or "panic"

disk == <<home, dlog, dhead>>
log == <<lh, outstanding, committing, over>>
vars == <<log, cache, disk, pc, wrote, tail, machine>>

Slots == 1 .. NLOG - 1  \* data blocks of the on-disk log
InLog(b) == \E i \in 1..Len(lh) : lh[i] = b
Goto(p, l) == pc' = [pc EXCEPT ![p] = l]
Up(p, l) == machine = "up" /\ pc[p] = l

(* wakeup(&log) *)
Woken == [p \in Procs |-> IF pc[p] = "sleep" THEN "begin" ELSE pc[p]]

Init ==
  /\ lh = <<>> /\ outstanding = 0 /\ committing = FALSE /\ over = 0
  /\ home \in [Blocks -> Vals] /\ cache = home
  /\ dlog \in [Slots -> {CHOOSE v \in Vals : TRUE}] /\ dhead = <<>>
  /\ pc = [p \in Procs |-> "out"] /\ wrote = [p \in Procs |-> {}]
  /\ tail = 0 /\ machine = "up"

(* begin_op(): wait while a commit runs or the log might overflow. *)
HasRoomForCalls == (outstanding + 1) * MAXOPBLOCKS <= LOGSIZE
HasRoom == Len(lh) + (outstanding + 1) * MAXOPBLOCKS <= LOGSIZE
BeginOp(p) ==
  /\ machine = "up" /\ pc[p] \in {"out", "begin"}
  /\ IF committing \/ ~HasRoom THEN Goto(p, "sleep") /\ UNCHANGED <<outstanding, wrote>>
     ELSE /\ Goto(p, "in")
          /\ outstanding' = outstanding + 1
          /\ wrote' = [wrote EXCEPT ![p] = {}]
  /\ UNCHANGED <<lh, committing, over, cache, disk, tail, machine>>

(* log_write(): panic if the transaction looks too big, ... *)
LogTest(p) ==
  /\ Up(p, "in")
  /\ IF Len(lh) >= LOGSIZE \/ Len(lh) >= NLOG - 1
     THEN machine' = "panic" /\ UNCHANGED pc
     ELSE Goto(p, "write") /\ UNCHANGED machine
  /\ UNCHANGED <<log, cache, disk, wrote, tail>>

(* ... then record the block, once, and pin its new contents in the cache. *)
LogWrite(p, b, v) ==
  /\ Up(p, "write")
  /\ Cardinality(wrote[p] \cup {b}) <= OpBlocks
  /\ lh' = IF InLog(b) THEN lh ELSE Append(lh, b)
  /\ over' = IF InLog(b) \/ Cardinality(wrote[p] \cup {b}) <= MAXOPBLOCKS THEN over ELSE over + 1
  /\ cache' = [cache EXCEPT ![b] = v]
  /\ wrote' = [wrote EXCEPT ![p] = @ \cup {b}]
  /\ Goto(p, "in")
  /\ UNCHANGED <<outstanding, committing, disk, tail, machine>>

(* end_op(): the last one commits, the others let waiters try again. *)
EndOpHeadFirst(p) ==
  /\ Up(p, "in")
  /\ outstanding' = outstanding - 1
  /\ IF outstanding = 1
     THEN committing' = TRUE /\ Goto(p, IF lh = <<>> THEN "done" ELSE "whead")
     ELSE pc' = [Woken EXCEPT ![p] = "out"] /\ UNCHANGED committing
  /\ tail' = 0
  /\ UNCHANGED <<lh, over, cache, disk, wrote, machine>>
EndOp(p) ==
  /\ Up(p, "in")
  /\ outstanding' = outstanding - 1
  /\ IF outstanding = 1
     THEN committing' = TRUE /\ Goto(p, IF lh = <<>> THEN "done" ELSE "wlog")
     ELSE pc' = [Woken EXCEPT ![p] = "out"] /\ UNCHANGED committing
  /\ tail' = 0
  /\ UNCHANGED <<lh, over, cache, disk, wrote, machine>>

(* commit(): write_log() copies each cached block to the log, ... *)
WriteLog(p) ==
  /\ Up(p, "wlog")
  /\ IF tail < Len(lh)
     THEN /\ dlog' = [dlog EXCEPT ![tail + 1] = cache[lh[tail + 1]]]
          /\ tail' = tail + 1 /\ UNCHANGED pc
     ELSE Goto(p, "whead") /\ UNCHANGED <<dlog, tail>>
  /\ UNCHANGED <<log, cache, home, dhead, wrote, machine>>

(* ... write_head() commits, ... *)
WriteHead(p) ==
  /\ Up(p, "whead")
  /\ dhead' = lh
  /\ tail' = 0 /\ Goto(p, "install")
  /\ UNCHANGED <<log, cache, home, dlog, wrote, machine>>

(* ... install_trans() copies each block from the log to its home, ... *)
Install ==
  /\ home' = [home EXCEPT ![lh[tail + 1]] = dlog[tail + 1]]
  /\ cache' = [cache EXCEPT ![lh[tail + 1]] = dlog[tail + 1]]
  /\ tail' = tail + 1
InstallTrans(p) ==
  /\ Up(p, "install")
  /\ IF tail < Len(lh) THEN Install /\ UNCHANGED <<pc, lh>>
     ELSE Goto(p, "erase") /\ lh' = <<>> /\ UNCHANGED <<home, cache, tail>>
  /\ UNCHANGED <<outstanding, committing, over, dlog, dhead, wrote, machine>>

(* ... and write_head() erases the transaction. *)
EraseHead(p) ==
  /\ Up(p, "erase")
  /\ dhead' = lh /\ over' = 0 /\ Goto(p, "done")
  /\ UNCHANGED <<lh, outstanding, committing, cache, home, dlog, wrote, tail, machine>>

EndCommitQuietly(p) ==
  /\ Up(p, "done")
  /\ committing' = FALSE
  /\ pc' = [pc EXCEPT ![p] = "out"]
  /\ UNCHANGED <<lh, outstanding, over, cache, disk, wrote, tail, machine>>
EndCommit(p) ==
  /\ Up(p, "done")
  /\ committing' = FALSE
  /\ pc' = [Woken EXCEPT ![p] = "out"]
  /\ UNCHANGED <<lh, outstanding, over, cache, disk, wrote, tail, machine>>

(* Power is lost: only the disk is left. *)
Crash ==
  /\ machine # "off" /\ machine' = "off"
  /\ lh' = <<>> /\ outstanding' = 0 /\ committing' = FALSE /\ tail' = 0
  /\ cache' = home
  /\ pc' = [p \in Procs |-> "out"] /\ wrote' = [p \in Procs |-> {}]
  /\ UNCHANGED <<disk, over>>

(* initlog(): recover_from_log() reads the header, ... *)
ReadHead ==
  /\ machine = "off" /\ machine' = "recover"
  /\ lh' = dhead /\ tail' = 0
  /\ UNCHANGED <<outstanding, committing, over, cache, disk, pc, wrote>>

(* ... installs what it names and erases it. *)
Recover ==
  /\ machine = "recover"
  /\ IF tail < Len(lh) THEN Install /\ UNCHANGED <<machine, lh>>
     ELSE machine' = "clear" /\ lh' = <<>> /\ UNCHANGED <<home, cache, tail>>
  /\ UNCHANGED <<outstanding, committing, over, dlog, dhead, pc, wrote>>

ClearHead ==
  /\ machine = "clear" /\ machine' = "up"
  /\ dhead' = lh /\ over' = 0
  /\ UNCHANGED <<lh, outstanding, committing, cache, home, dlog, pc, wrote, tail>>

Step(p) ==
  \/ LogTest(p) \/ EndOp(p) \/ WriteLog(p) \/ WriteHead(p) \/ InstallTrans(p)
  \/ EraseHead(p) \/ EndCommit(p)
  \/ \E b \in Blocks, v \in Vals : LogWrite(p, b, v)

Next ==
  \/ \E p \in Procs : BeginOp(p) \/ Step(p)
  \/ Crash \/ ReadHead \/ Recover \/ ClearHead

Spec == Init /\ [][Next]_vars

(* The kernel goes on running a call, a call makes finitely many log_write()s *)
(* and ends, and the machine is switched on again; power need never be lost.  *)
Fairness ==
  /\ \A p \in Procs : WF_vars(Step(p)) /\ SF_vars(EndOp(p))
  /\ WF_vars(ReadHead) /\ WF_vars(Recover) /\ WF_vars(ClearHead)
FairSpec == Spec /\ Fairness
------------------------------------------------------------------------------
Inside == {p \in Procs : pc[p] \in {"in", "write"}}
Committing == {"wlog", "whead", "install", "erase", "done"}
Labels == {"out", "begin", "sleep", "in", "write"} \cup Committing

(* Types. *)
TypeOK ==
  /\ lh \in Seq(Blocks) /\ dhead \in Seq(Blocks)
  /\ outstanding \in Nat /\ committing \in BOOLEAN /\ tail \in Nat /\ over \in Nat
  /\ cache \in [Blocks -> Vals] /\ home \in [Blocks -> Vals]
  /\ dlog \in [Slots -> Vals]
  /\ pc \in [Procs -> Labels]
  /\ wrote \in [Procs -> SUBSET Blocks]
  /\ machine \in {"up", "off", "recover", "clear", "panic"}

(* What recovery will make of the disk. *)
Durable ==
  [b \in Blocks |-> IF \E i \in 1..Len(dhead) : dhead[i] = b
                    THEN dlog[CHOOSE i \in 1..Len(dhead) : dhead[i] = b]
                    ELSE home[b]]
Abs == INSTANCE AtomicDisk
         WITH stable <- Durable,
              mem <- IF machine \in {"up", "panic"} THEN cache ELSE Durable,
              active <- Inside

(* Whenever power is lost, in a commit or in a recovery, the disk comes back *)
(* as it was at some moment when no call was active: commit() and            *)
(* recover_from_log() implement the atomic disk.                             *)
CrashAtomic == Abs!Spec

(* "The logging system only commits when there are no FS system calls active" *)
(* (log.c): while one process commits no other is inside a call or commits,  *)
(* so end_op() never finds log.committing set, and outstanding counts calls. *)
CommitAlone ==
  /\ outstanding = Cardinality(Inside)
  /\ \A p \in Procs : pc[p] \in Committing =>
       committing /\ Inside = {} /\ \A q \in Procs \ {p} : pc[q] \notin Committing

(* What the active calls may still add: MAXOPBLOCKS blocks each, less the    *)
(* blocks it has updated.                                                    *)
Left == {x \in Inside \X (1..MAXOPBLOCKS) : x[2] > Cardinality(wrote[x[1]])}

(* The reservations of begin_op() are exact: what the log holds, and what    *)
(* the active calls may still add, exceed LOGSIZE only by the blocks that    *)
(* calls of this transaction have added beyond their MAXOPBLOCKS, as the     *)
(* transactions of filewrite() do.                                           *)
Reserved == TypeOK /\ Len(lh) + Cardinality(Left) <= LOGSIZE + over

(* A process that sleeps in begin_op() is woken, unless the kernel panics.   *)
SleepersWake ==
  \A p \in Procs : (pc[p] = "sleep") ~> (pc[p] # "sleep" \/ machine = "panic")

(* LOGSIZE: "max data blocks in on-disk log" (param.h): a transaction fits   *)
(* in the blocks that follow the header.                                     *)
LogFits == Len(lh) <= NLOG - 1
=============================================================================
