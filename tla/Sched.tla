------------------------------- MODULE Sched -------------------------------
(***************************************************************************)
(* The MLFQ+SJF scheduler of proc.c, the timer handler of trap.c that      *)
(* feeds it, and the system calls of sysproc.c that tune it.               *)
(*                                                                         *)
(* One action per step of a CPU.  Everything done while ptable.lock is     *)
(* held is one step, except where another CPU can look in: the boost loop  *)
(* writes queue_level and ticks_remaining of processes that are RUNNING    *)
(* elsewhere, and the timer handler reads and writes the same fields with  *)
(* no lock, one load or store at a time (the kernel is built with -O0).    *)
(* Kernel code of a process runs with interrupts off, so the other steps   *)
(* of a system call or of a trap are not interrupted on their own CPU.     *)
(***************************************************************************)
EXTENDS SchedOps, FiniteSets

CONSTANTS
  NPROC,       \* slots of ptable.proc
  NCPU,        \* CPUs that run scheduler()
  TICKMOD,     \* ticks is a uint: 2^32 in the code
  Boot,        \* the parameters that pinit() stores in schedp
  Updates,     \* the sched_update records handed to setschedparam()
  ALERT_WAIT,  \* wait_ticks above which sched_alert is raised: 100
  MaxTicks,    \* bound: the clock stops here (TICKMOD or more: never)
  MaxCount,    \* bound: where wait_ticks, yield_count, preempt_count saturate
  MaxPreempt,  \* bound: past this preempt_count only CPU 0 has a timer
  MaxPid       \* bound: the last pid handed out

Slots == 0 .. NPROC - 1
CPUs == 0 .. NCPU - 1
NoProc == -1
NoCpu == -1
InitProc == 0

ASSUME SizeAssumption ==
  /\ NPROC \in Nat \ {0} /\ NCPU \in Nat \ {0} /\ TICKMOD \in Nat \ {0}
  /\ ALERT_WAIT \in Nat
  /\ MaxTicks \in Nat /\ MaxCount \in Nat
  /\ MaxPreempt \in Nat /\ MaxPid \in Nat
ASSUME BootAssumption == Boot \in Params /\ Legal(Boot)
ASSUME UpdatesAssumption == Updates \subseteq Params

VARIABLES
  state, pid, queue_level, ticks_remaining, wait_ticks,    \* struct proc
  burst_ema_fast, burst_ema_slow, burst_start_tick,
  yield_count, preempt_count, first_run_tick,
  schedp, agent_pid, sched_alert,                          \* struct sched_params
  ticks, last_boost_tick, rr_next, nextpid,                \* globals and statics
  ptable_lock,  \* the CPU that holds ptable.lock, or NoCpu
  pc,           \* where each CPU is
  proc,         \* cpu->proc: the slot each CPU runs, or NoProc
  snap,         \* the lock holder's snapshot of schedp
  reg           \* each CPU's scratch: loop index, loaded value, or child slot

quantum == <<queue_level, ticks_remaining>>
emas == <<burst_ema_fast, burst_ema_slow>>
counts == <<yield_count, preempt_count>>
firsts == <<burst_start_tick, first_run_tick>>
params == <<schedp, agent_pid, sched_alert>>
clock == <<ticks, last_boost_tick>>
table == <<state, pid, nextpid>>
cpuv == <<ptable_lock, pc, proc, snap, reg>>
vars == <<quantum, wait_ticks, emas, counts, firsts, params, clock, rr_next,
          table, cpuv>>

------------------------------------------------------------------------------
(* uint differences of ticks, their value as an int, saturating counters. *)
Elapsed(t) == (ticks - t) % TICKMOD
AsInt(u) == IF u < TICKMOD - u THEN u ELSE u - TICKMOD
Inc(n) == IF n < MaxCount THEN n + 1 ELSE n

Free == ptable_lock = NoCpu
Goto(c, l) == pc' = [pc EXCEPT ![c] = l]
RunnableOrRunning == {p \in Slots : state[p] \in {"RUNNABLE", "RUNNING"}}
Runnable == {p \in Slots : state[p] = "RUNNABLE"}
Sleeping == {p \in Slots : state[p] = "SLEEPING"}
Woken(S) == [p \in Slots |-> IF p \in S THEN "RUNNABLE" ELSE state[p]]

(* After pinit() and userinit(): init is RUNNABLE, every CPU in its loop. *)
Init ==
  /\ state = [p \in Slots |-> IF p = InitProc THEN "RUNNABLE" ELSE "UNUSED"]
  /\ pid = [p \in Slots |-> IF p = InitProc THEN 1 ELSE 0]
  /\ nextpid = 2
  /\ queue_level = [p \in Slots |-> 0]
  /\ ticks_remaining = [p \in Slots |-> IF p = InitProc THEN 1 ELSE 0]
  /\ wait_ticks = [p \in Slots |-> 0]
  /\ burst_ema_fast = [p \in Slots |-> IF p = InitProc THEN 100 ELSE 0]
  /\ burst_ema_slow = [p \in Slots |-> IF p = InitProc THEN 100 ELSE 0]
  /\ burst_start_tick = [p \in Slots |-> 0]
  /\ yield_count = [p \in Slots |-> 0] /\ preempt_count = [p \in Slots |-> 0]
  /\ first_run_tick = [p \in Slots |-> 0]
  /\ schedp = Boot /\ agent_pid = 0 /\ sched_alert = 0
  /\ ticks = 0 /\ last_boost_tick = 0 /\ rr_next = 0
  /\ ptable_lock = NoCpu
  /\ pc = [c \in CPUs |-> "idle"]
  /\ proc = [c \in CPUs |-> NoProc]
  /\ snap = Boot
  /\ reg = [c \in CPUs |-> 0]

------------------------------------------------------------------------------
(* scheduler() *)

(* Top of the loop: take ptable.lock, snapshot schedp, see if a boost is due. *)
EnterPass(c) ==
  /\ pc[c] = "idle" /\ Free
  /\ ptable_lock' = c
  /\ snap' = schedp
  /\ reg' = [reg EXCEPT ![c] = 0]
  /\ Goto(c, IF Elapsed(last_boost_tick) >= schedp.boost_interval
             THEN "boost" ELSE "pick")
  /\ UNCHANGED <<quantum, wait_ticks, emas, counts, firsts, params, clock,
                 rr_next, table, proc>>

(* The boost loop moves on; after the last slot it sets last_boost_tick. *)
BoostNext(c) ==
  IF reg[c] + 1 < NPROC
  THEN reg' = [reg EXCEPT ![c] = @ + 1] /\ Goto(c, "boost") /\ UNCHANGED last_boost_tick
  ELSE reg' = [reg EXCEPT ![c] = 0] /\ Goto(c, "pick") /\ last_boost_tick' = ticks

(* At slot reg[c]: UNUSED is skipped, else first the level is reset, ... *)
BoostLevel(c) ==
  /\ pc[c] = "boost"
  /\ IF state[reg[c]] = "UNUSED" THEN BoostNext(c) /\ UNCHANGED queue_level
     ELSE /\ queue_level' = [queue_level EXCEPT ![reg[c]] = 0]
          /\ Goto(c, "boostq") /\ UNCHANGED <<reg, last_boost_tick>>
  /\ UNCHANGED <<ticks_remaining, wait_ticks, emas, counts, firsts, params,
                 ticks, rr_next, table, ptable_lock, proc, snap>>

(* ... then the quantum and the wait. *)
BoostQuantum(c) ==
  /\ pc[c] = "boostq"
  /\ ticks_remaining' = [ticks_remaining EXCEPT ![reg[c]] = snap.q0_quantum]
  /\ wait_ticks' = [wait_ticks EXCEPT ![reg[c]] = 0]
  /\ BoostNext(c)
  /\ UNCHANGED <<queue_level, emas, counts, firsts, params, ticks, rr_next,
                 table, ptable_lock, proc, snap>>

(* wait_ticks after the aging loop, and the alert it may raise. *)
Aged == [p \in Slots |-> IF p \in Runnable THEN Inc(wait_ticks[p]) ELSE wait_ticks[p]]
Alerted == IF \E p \in Runnable : Aged[p] > ALERT_WAIT THEN 1 ELSE sched_alert

IsBest(s, p) ==
  /\ p \in Runnable
  /\ \A r \in Runnable :
       IF s.rr_mode = 1 THEN RrBefore(p, r, rr_next, NPROC)
       ELSE MlfqBefore(p, r, queue_level,
                       [q \in Slots |-> Score(burst_ema_fast[q], Aged[q], s)])

(* Where the next round-robin pass starts. *)
RrAfter(p) == (p + 1) % NPROC

(* Age, select and swtch to the winner, which releases ptable.lock. *)
Dispatch(c, p) ==
  /\ pc[c] = "pick" /\ IsBest(snap, p)
  /\ sched_alert' = Alerted
  /\ wait_ticks' = [Aged EXCEPT ![p] = 0]
  /\ rr_next' = IF snap.rr_mode = 1 THEN RrAfter(p) ELSE rr_next
  /\ burst_start_tick' = [burst_start_tick EXCEPT ![p] = ticks]
  /\ first_run_tick' = [first_run_tick EXCEPT ![p] = IF @ = 0 THEN ticks ELSE @]
  /\ ticks_remaining' = [ticks_remaining EXCEPT ![p] = Quantum(snap, queue_level[p])]
  /\ state' = [state EXCEPT ![p] = "RUNNING"]
  /\ proc' = [proc EXCEPT ![c] = p]
  /\ ptable_lock' = NoCpu
  /\ Goto(c, "user")
  /\ UNCHANGED <<queue_level, emas, counts, schedp, agent_pid, clock, pid,
                 nextpid, snap, reg>>

(* Nothing is RUNNABLE: release and hlt until the next interrupt. *)
Halt(c) ==
  /\ pc[c] = "pick" /\ Runnable = {}
  /\ ptable_lock' = NoCpu
  /\ Goto(c, "idle")
  /\ UNCHANGED <<quantum, wait_ticks, emas, counts, firsts, params, clock,
                 rr_next, table, proc, snap, reg>>

------------------------------------------------------------------------------
(* trap(), case T_IRQ0 + IRQ_TIMER *)

(* CPU 0 counts the tick; another CPU only charges its running process. *)
Timer(c) ==
  /\ \/ /\ c = 0 /\ pc[c] \in {"idle", "user"} /\ ticks < MaxTicks
        /\ ticks' = (ticks + 1) % TICKMOD
        /\ Goto(c, "tick")
     \/ /\ c # 0 /\ pc[c] = "user" /\ preempt_count[proc[c]] < MaxPreempt
        /\ Goto(c, "dec") /\ UNCHANGED ticks
  /\ UNCHANGED <<quantum, wait_ticks, emas, counts, firsts, params,
                 last_boost_tick, rr_next, table, ptable_lock, proc, snap, reg>>

(* wakeup(&ticks) and check_alarms(), which need ptable.lock. *)
TickWakeup(c) ==
  /\ pc[c] = "tick" /\ Free
  /\ \E S \in SUBSET Sleeping : state' = Woken(S)
  /\ Goto(c, IF proc[c] = NoProc THEN "idle" ELSE "dec")
  /\ UNCHANGED <<quantum, wait_ticks, emas, counts, firsts, params, clock,
                 rr_next, pid, nextpid, ptable_lock, proc, snap, reg>>

(* ticks_remaining-- is a load and a store; the test that follows loads again. *)
DecLoad(c) ==
  /\ pc[c] = "dec"
  /\ reg' = [reg EXCEPT ![c] = ticks_remaining[proc[c]]]
  /\ Goto(c, "decst")
  /\ UNCHANGED <<quantum, wait_ticks, emas, counts, firsts, params, clock,
                 rr_next, table, ptable_lock, proc, snap>>

DecStore(c) ==
  /\ pc[c] = "decst"
  /\ ticks_remaining' = [ticks_remaining EXCEPT ![proc[c]] = reg[c] - 1]
  /\ reg' = [reg EXCEPT ![c] = 0]
  /\ Goto(c, "test")
  /\ UNCHANGED <<queue_level, wait_ticks, emas, counts, firsts, params, clock,
                 rr_next, table, ptable_lock, proc, snap>>

ExpiredBelowZero(p) == ticks_remaining[p] < 0
Expired(p) == ticks_remaining[p] <= 0

TestExpiry(c) ==
  /\ pc[c] = "test"
  /\ Goto(c, IF Expired(proc[c]) THEN "emaf" ELSE "check")
  /\ UNCHANGED <<quantum, wait_ticks, emas, counts, firsts, params, clock,
                 rr_next, table, ptable_lock, proc, snap, reg>>

(* The two estimates, each with the alpha that schedp holds at that moment;  *)
(* reg carries burst_len.                                                    *)
EmaFast(c) ==
  LET p == proc[c]
      burst_len == AsInt(Elapsed(burst_start_tick[p]))
  IN /\ pc[c] = "emaf"
     /\ burst_ema_fast' =
          [burst_ema_fast EXCEPT ![p] = Ema(@, schedp.ema_alpha_fast, burst_len)]
     /\ reg' = [reg EXCEPT ![c] = burst_len]
     /\ Goto(c, "emas")
     /\ UNCHANGED <<quantum, wait_ticks, burst_ema_slow, counts, firsts, params,
                    clock, rr_next, table, ptable_lock, proc, snap>>

EmaSlow(c) ==
  LET p == proc[c]
  IN /\ pc[c] = "emas"
     /\ burst_ema_slow' =
          [burst_ema_slow EXCEPT ![p] = Ema(@, schedp.ema_alpha_slow, reg[c])]
     /\ preempt_count' = [preempt_count EXCEPT ![p] = Inc(@)]
     /\ reg' = [reg EXCEPT ![c] = 0]
     /\ Goto(c, "demote")
     /\ UNCHANGED <<quantum, wait_ticks, burst_ema_fast, yield_count, firsts,
                    params, clock, rr_next, table, ptable_lock, proc, snap>>

(* queue_level++ is again a load and a store; the agent is exempt. *)
DemotableAgent(p) == queue_level[p] < 2
Demotable(p) == queue_level[p] < 2 /\ (agent_pid = 0 \/ pid[p] # agent_pid)

DemoteLoad(c) ==
  LET p == proc[c]
  IN /\ pc[c] = "demote"
     /\ IF Demotable(p)
        THEN reg' = [reg EXCEPT ![c] = queue_level[p]] /\ Goto(c, "demst")
        ELSE Goto(c, "check") /\ UNCHANGED reg
     /\ UNCHANGED <<quantum, wait_ticks, emas, counts, firsts, params, clock,
                    rr_next, table, ptable_lock, proc, snap>>

DemoteStore(c) ==
  /\ pc[c] = "demst"
  /\ queue_level' = [queue_level EXCEPT ![proc[c]] = reg[c] + 1]
  /\ reg' = [reg EXCEPT ![c] = 0]
  /\ Goto(c, "check")
  /\ UNCHANGED <<ticks_remaining, wait_ticks, emas, counts, firsts, params,
                 clock, rr_next, table, ptable_lock, proc, snap>>

(* The bottom of trap(): yield only if the quantum still reads as used up. *)
CheckQuantum(c) ==
  /\ pc[c] = "check"
  /\ Goto(c, IF Expired(proc[c]) THEN "yield" ELSE "user")
  /\ UNCHANGED <<quantum, wait_ticks, emas, counts, firsts, params, clock,
                 rr_next, table, ptable_lock, proc, snap, reg>>

(* A process gives up its CPU: sched() goes back to the scheduler loop. *)
Deschedule(c, s) ==
  /\ Free
  /\ state' = [state EXCEPT ![proc[c]] = s]
  /\ proc' = [proc EXCEPT ![c] = NoProc]
  /\ Goto(c, "idle")

Yield(c) ==
  /\ pc[c] = "yield"
  /\ Deschedule(c, "RUNNABLE")
  /\ yield_count' = [yield_count EXCEPT ![proc[c]] = Inc(@)]
  /\ UNCHANGED <<quantum, wait_ticks, emas, preempt_count, firsts, params, clock,
                 rr_next, pid, nextpid, ptable_lock, snap, reg>>

------------------------------------------------------------------------------
(* System calls of the running process *)

(* sleep() on some channel. *)
Sleep(c) ==
  /\ pc[c] = "user"
  /\ Deschedule(c, "SLEEPING")
  /\ UNCHANGED <<quantum, wait_ticks, emas, counts, firsts, params, clock,
                 rr_next, pid, nextpid, ptable_lock, snap, reg>>

(* wakeup() of a channel, or kill(), from a system call or a device interrupt. *)
Wakeup(c) ==
  /\ pc[c] \in {"idle", "user"} /\ Free
  /\ \E S \in SUBSET Sleeping \ {{}} : state' = Woken(S)
  /\ UNCHANGED <<quantum, wait_ticks, emas, counts, firsts, params, clock,
                 rr_next, pid, nextpid, cpuv>>

(* fork(): allocproc() under ptable.lock, ... *)
AllocProc(c, p) ==
  /\ pc[c] = "user" /\ Free /\ nextpid <= MaxPid
  /\ state[p] = "UNUSED" /\ \A r \in 0..(p - 1) : state[r] # "UNUSED"
  /\ state' = [state EXCEPT ![p] = "EMBRYO"]
  /\ pid' = [pid EXCEPT ![p] = nextpid] /\ nextpid' = nextpid + 1
  /\ queue_level' = [queue_level EXCEPT ![p] = 0]
  /\ ticks_remaining' = [ticks_remaining EXCEPT ![p] = 1]
  /\ wait_ticks' = [wait_ticks EXCEPT ![p] = 0]
  /\ burst_ema_fast' = [burst_ema_fast EXCEPT ![p] = 100]
  /\ burst_ema_slow' = [burst_ema_slow EXCEPT ![p] = 100]
  /\ burst_start_tick' = [burst_start_tick EXCEPT ![p] = 0]
  /\ yield_count' = [yield_count EXCEPT ![p] = 0]
  /\ preempt_count' = [preempt_count EXCEPT ![p] = 0]
  /\ first_run_tick' = [first_run_tick EXCEPT ![p] = 0]
  /\ reg' = [reg EXCEPT ![c] = p]
  /\ Goto(c, "fork")
  /\ UNCHANGED <<params, clock, rr_next, ptable_lock, proc, snap>>

(* ... then the child is made RUNNABLE with no lock held.  (Out of memory,   *)
(* kalloc() panics: nothing follows.)                                        *)
ForkRun(c) ==
  /\ pc[c] = "fork"
  /\ state' = [state EXCEPT ![reg[c]] = "RUNNABLE"]
  /\ reg' = [reg EXCEPT ![c] = 0]
  /\ Goto(c, "user")
  /\ UNCHANGED <<quantum, wait_ticks, emas, counts, firsts, params, clock,
                 rr_next, pid, nextpid, ptable_lock, proc, snap>>

(* exit(), from a system call or from trap() when killed; frees the agent slot. *)
ClearedAgent(p) == IF agent_pid = pid[p] THEN 0 ELSE agent_pid

Exit(c) ==
  /\ pc[c] \in {"user", "check"} /\ proc[c] # InitProc
  /\ Deschedule(c, "ZOMBIE")
  /\ agent_pid' = ClearedAgent(proc[c])
  /\ UNCHANGED <<quantum, wait_ticks, emas, counts, firsts, schedp, sched_alert,
                 clock, rr_next, pid, nextpid, ptable_lock, snap, reg>>

(* wait() finds a ZOMBIE child and frees its slot. *)
Reap(c, z) ==
  /\ pc[c] = "user" /\ Free /\ state[z] = "ZOMBIE"
  /\ state' = [state EXCEPT ![z] = "UNUSED"]
  /\ pid' = [pid EXCEPT ![z] = 0]
  /\ UNCHANGED <<quantum, wait_ticks, emas, counts, firsts, params, clock,
                 rr_next, nextpid, cpuv>>

(* sys_register_agent(): test, lock and test again, then kern_pin_agent(). *)
RegisterTest(c) ==
  /\ pc[c] = "user" /\ agent_pid = 0
  /\ Goto(c, "register")
  /\ UNCHANGED <<quantum, wait_ticks, emas, counts, firsts, params, clock,
                 rr_next, table, ptable_lock, proc, snap, reg>>

RegisterSet(c) ==
  /\ pc[c] = "register"
  /\ IF agent_pid # 0 THEN Goto(c, "user") /\ UNCHANGED agent_pid
     ELSE Goto(c, "pin") /\ agent_pid' = pid[proc[c]]
  /\ UNCHANGED <<quantum, wait_ticks, emas, counts, firsts, schedp, sched_alert,
                 clock, rr_next, table, ptable_lock, proc, snap, reg>>

PinAgent(c) ==
  /\ pc[c] = "pin" /\ Free
  /\ queue_level' = [queue_level EXCEPT ![proc[c]] = 0]
  /\ ticks_remaining' = [ticks_remaining EXCEPT ![proc[c]] = schedp.q0_quantum]
  /\ Goto(c, "user")
  /\ UNCHANGED <<wait_ticks, emas, counts, firsts, params, clock, rr_next, table,
                 ptable_lock, proc, snap, reg>>

(* sys_setschedparam(): only the agent, only a legal update. *)
SetSchedParam(c, u) ==
  /\ pc[c] = "user"
  /\ agent_pid # 0 /\ pid[proc[c]] = agent_pid
  /\ Legal(u)
  /\ schedp' = u /\ sched_alert' = 0
  /\ UNCHANGED <<quantum, wait_ticks, emas, counts, firsts, agent_pid, clock,
                 rr_next, table, cpuv>>

------------------------------------------------------------------------------
Pass(c) ==
  \/ EnterPass(c) \/ BoostLevel(c) \/ BoostQuantum(c)
  \/ \E p \in Slots : Dispatch(c, p)
  \/ Halt(c)

Interrupt(c) ==
  \/ TickWakeup(c) \/ DecLoad(c) \/ DecStore(c) \/ TestExpiry(c)
  \/ EmaFast(c) \/ EmaSlow(c) \/ DemoteLoad(c) \/ DemoteStore(c)
  \/ CheckQuantum(c) \/ Yield(c)

Syscall(c) ==
  \/ Sleep(c) \/ Wakeup(c) \/ Exit(c)
  \/ \E p \in Slots : AllocProc(c, p) \/ Reap(c, p)
  \/ RegisterTest(c)
  \/ \E u \in Updates : SetSchedParam(c, u)

(* The rest of a system call that has begun. *)
Finish(c) == ForkRun(c) \/ RegisterSet(c) \/ PinAgent(c)

Next == \E c \in CPUs : Pass(c) \/ Timer(c) \/ Interrupt(c) \/ Syscall(c) \/ Finish(c)

Spec == Init /\ [][Next]_vars

------------------------------------------------------------------------------
Labels == {"idle", "boost", "boostq", "pick", "user", "tick", "dec", "decst",
           "test", "emaf", "emas", "demote", "demst", "check", "yield", "fork",
           "register", "pin"}
States == {"UNUSED", "EMBRYO", "SLEEPING", "RUNNABLE", "RUNNING", "ZOMBIE"}
InPass == {"boost", "boostq", "pick"}
Quanta == {n \in Nat : n <= 40}
Estimates == {n \in Nat : n <= 5000}

(* Every variable has its type: levels stay within the three queues, burst   *)
(* estimates within 0..5000, no quantum is negative.                         *)
TypeTable ==
  /\ state \in [Slots -> States] /\ pid \in [Slots -> Nat]
  /\ nextpid \in Nat /\ nextpid > 0
TypeQuantum ==
  /\ queue_level \in [Slots -> {0, 1, 2}] /\ ticks_remaining \in [Slots -> Quanta]
  /\ wait_ticks \in [Slots -> Nat]
TypeStats ==
  /\ burst_ema_fast \in [Slots -> Estimates] /\ burst_ema_slow \in [Slots -> Estimates]
  /\ burst_start_tick \in [Slots -> Nat] /\ first_run_tick \in [Slots -> Nat]
  /\ yield_count \in [Slots -> Nat] /\ preempt_count \in [Slots -> Nat]
TypeParams ==
  /\ schedp \in Params /\ snap \in Params
  /\ agent_pid \in Nat /\ sched_alert \in {0, 1}
TypeClock == ticks \in Nat /\ last_boost_tick \in Nat /\ rr_next \in Slots
TypeCpu ==
  /\ ptable_lock \in CPUs \cup {NoCpu}
  /\ pc \in [CPUs -> Labels] /\ proc \in [CPUs -> Slots \cup {NoProc}]
  /\ reg \in [CPUs -> Int]
TypeOK ==
  TypeTable /\ TypeQuantum /\ TypeStats /\ TypeParams /\ TypeClock /\ TypeCpu

(* A process is on a CPU exactly while it is RUNNING, and on one CPU only:   *)
(* the hand-over of ptable.lock through swtch() never lets two schedulers    *)
(* pick the same process, nor loses one.                                     *)
RunsOnOneCpu ==
  /\ \A c, d \in CPUs : proc[c] = proc[d] /\ proc[c] # NoProc => c = d
  /\ \A p \in Slots : state[p] = "RUNNING" <=> \E c \in CPUs : proc[c] = p

(* Whatever programs pass to setschedparam(), the parameters in force and    *)
(* the snapshot a scheduler pass works with are legal and ordered.           *)
ParamsLegal == Legal(schedp) /\ Legal(snap)

(* "Pins agent to Q0 so it is never demoted or starved" (sysproc.c): from    *)
(* the end of its registration to its exit the agent is in Q0, although the  *)
(* timer reads agent_pid and queue_level without a lock.                     *)
AgentPinned ==
  \A p \in Slots : agent_pid # 0 /\ pid[p] = agent_pid =>
    queue_level[p] = 0 \/ \E c \in CPUs : proc[c] = p /\ pc[c] = "pin"

(* agent_pid never names a process that has exited: a dead agent does not    *)
(* keep the slot, and a recycled table entry does not inherit it.            *)
AgentAlive ==
  agent_pid # 0 => \E p \in Slots : /\ pid[p] = agent_pid
                                     /\ state[p] \in {"RUNNABLE", "RUNNING", "SLEEPING"}

(* No process is back in user mode with its quantum used up, although the    *)
(* handler that charged it raced with boosts by other CPUs.                  *)
QuantumLeft == \A c \in CPUs : pc[c] = "user" => ticks_remaining[proc[c]] >= 1

(* yield_count never exceeds preempt_count: the only caller of yield() is    *)
(* the timer's preemption, so compute_workload_type() never exceeds 50.      *)
YieldsArePreemptions == \A p \in Slots : yield_count[p] <= preempt_count[p]
=============================================================================
