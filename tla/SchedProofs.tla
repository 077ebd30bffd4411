---------------------------- MODULE SchedProofs ----------------------------
(* Machine-checked proofs about Sched, for every number of processes and   *)
(* CPUs, every boot setting and every update.                              *)
EXTENDS Sched, TLAPS

(* The labels of a CPU that runs a process. *)
Running == {"user", "dec", "decst", "test", "emaf", "emas", "demote", "demst",
            "check", "yield", "fork", "register", "pin"}

(* Where a CPU is decides what it runs, whether it holds ptable.lock, and    *)
(* what its scratch value is.                                                *)
CpuOK ==
  \A c \in CPUs :
    /\ pc[c] \in InPass <=> ptable_lock = c
    /\ pc[c] \in InPass \cup {"idle"} => proc[c] = NoProc
    /\ pc[c] \in Running => proc[c] \in Slots
    /\ pc[c] \in {"boost", "boostq"} => reg[c] \in Slots
    /\ pc[c] = "demst" => reg[c] = 0 \/ reg[c] = 1
    /\ pc[c] = "decst" => reg[c] >= 1 /\ reg[c] <= 40

(* A fork() in progress owns its EMBRYO. *)
ForkOK ==
  \A c \in CPUs : pc[c] = "fork" =>
    /\ reg[c] \in Slots /\ state[reg[c]] = "EMBRYO"
    /\ \A d \in CPUs : pc[d] = "fork" /\ reg[d] = reg[c] => d = c

(* A running process has quantum left except between the store that uses it  *)
(* up and the yield.                                                         *)
QuantumOK ==
  \A c \in CPUs :
    proc[c] # NoProc /\ pc[c] \in {"user", "tick", "dec", "fork", "register", "pin"}
       => ticks_remaining[proc[c]] >= 1

(* Live processes have distinct pids, all handed out already. *)
PidsOK ==
  \A p \in Slots :
    /\ state[p] # "UNUSED" => pid[p] # 0
    /\ pid[p] < nextpid
    /\ \A q \in Slots : pid[q] = pid[p] /\ pid[p] # 0 => q = p

(* No CPU is about to demote the agent. *)
AgentOK ==
  /\ AgentPinned /\ AgentAlive
  /\ \A c \in CPUs : pc[c] = "demst" /\ agent_pid # 0 => pid[proc[c]] # agent_pid

(* A process on its way to yield() has been counted as preempted. *)
Owed(p) == yield_count[p] < preempt_count[p] \/ preempt_count[p] = MaxCount
CountsOK ==
  /\ \A p \in Slots : yield_count[p] <= preempt_count[p] /\ preempt_count[p] <= MaxCount
  /\ \A c \in CPUs :
       \/ pc[c] \in {"demote", "demst", "yield"}
       \/ pc[c] = "check" /\ ticks_remaining[proc[c]] = 0
       => Owed(proc[c])

(* The inductive invariant. *)
IInv == /\ TypeOK /\ CpuOK /\ ForkOK /\ RunsOnOneCpu /\ ParamsLegal
        /\ QuantumOK /\ PidsOK /\ AgentOK /\ CountsOK

(* trap()'s estimate, clamped, is always in 0..5000: for any alpha and burst. *)
LEMMA EmaRange ==
  ASSUME NEW old \in Int, NEW alpha \in Int, NEW burst \in Int
  PROVE  Ema(old, alpha, burst) \in Estimates
<1> DEFINE x == alpha * (burst * 100 - old)
<1>1. x \in Int
  OBVIOUS
<1>2. \A y \in Int : CDiv(y, 100) \in Int
  BY DEF CDiv
<1>3. \A z \in Int : Clamp5000(z) \in Estimates
  BY DEF Clamp5000, Estimates
<1>4. old + CDiv(x, 100) \in Int
  BY <1>1, <1>2
<1> QED
  BY <1>3, <1>4, Zenon DEF Ema

(* Under legal parameters every level's quantum is between 1 and 40 ticks.   *)
LEMMA QuantumRange ==
  ASSUME NEW s \in Params, Legal(s), NEW level \in {0, 1, 2}
  PROVE  Quantum(s, level) \in Nat /\ Quantum(s, level) >= 1 /\ Quantum(s, level) <= 40
BY DEF Quantum, Legal, Params

(* A remainder by a positive n is in 0..n-1. *)
LEMMA ModRange ==
  ASSUME NEW a \in Int, NEW n \in Nat \ {0}
  PROVE  a % n \in 0..(n - 1)
BY SMT

(* The labels and states that actions assign are labels and states. *)
LEMMA LabelFacts ==
  /\ "idle" \in Labels /\ "boost" \in Labels /\ "boostq" \in Labels
  /\ "pick" \in Labels /\ "user" \in Labels /\ "tick" \in Labels
  /\ "dec" \in Labels /\ "decst" \in Labels /\ "test" \in Labels
  /\ "emaf" \in Labels /\ "emas" \in Labels /\ "demote" \in Labels
  /\ "demst" \in Labels /\ "check" \in Labels /\ "yield" \in Labels
  /\ "fork" \in Labels /\ "register" \in Labels /\ "pin" \in Labels
BY Zenon DEF Labels

(* The same for process states. *)
LEMMA StateFacts ==
  /\ "UNUSED" \in States /\ "EMBRYO" \in States /\ "SLEEPING" \in States
  /\ "RUNNABLE" \in States /\ "RUNNING" \in States /\ "ZOMBIE" \in States
BY Zenon DEF States

(* A CPU that runs a process runs one of the table. *)
LEMMA RunningProc ==
  ASSUME CpuOK, NEW c \in CPUs, pc[c] \in Running
  PROVE  proc[c] \in Slots
BY Zenon DEF CpuOK

(* Every step keeps the types. *)
LEMMA TypeStep == IInv /\ [Next]_vars => TypeOK'
<1> SUFFICES ASSUME IInv, [Next]_vars PROVE TypeOK'
    BY Zenon
<1> USE LabelFacts, StateFacts DEF IInv, TypeOK, TypeTable, TypeQuantum,
        TypeStats, TypeParams, TypeClock, TypeCpu, Goto, quantum, emas,
        counts, firsts, params, clock, table, cpuv
<1>1. ASSUME NEW c \in CPUs, EnterPass(c) PROVE TypeOK'
  BY <1>1 DEF EnterPass
<1>2. ASSUME NEW c \in CPUs, BoostLevel(c) PROVE TypeOK'
  <2>1. reg[c] \in Slots /\ reg[c] + 1 \in Int
    BY <1>2 DEF BoostLevel, CpuOK
  <2> QED
    BY <1>2, <2>1 DEF BoostLevel, BoostNext
<1>3. ASSUME NEW c \in CPUs, BoostQuantum(c) PROVE TypeOK'
  <2>1. reg[c] \in Slots /\ reg[c] + 1 \in Int
    BY <1>3 DEF BoostQuantum, CpuOK
  <2>2. snap.q0_quantum \in Quanta
    BY DEF Quanta, ParamsLegal, Legal, Params
  <2> QED
    BY <1>3, <2>1, <2>2 DEF BoostQuantum, BoostNext
<1>4. ASSUME NEW c \in CPUs, NEW p \in Slots, Dispatch(c, p) PROVE TypeOK'
  <2>1. Quantum(snap, queue_level[p]) \in Quanta
    BY <1>4, QuantumRange, Zenon DEF ParamsLegal, Quanta
  <2>2. (p + 1) % NPROC \in Slots
    BY SMTT(60), ModRange, SizeAssumption DEF Slots
  <2>3. Aged \in [Slots -> Nat]
    BY DEF Aged, Inc
  <2> QED
    BY <1>4, <2>1, <2>2, <2>3, Zenon DEF Dispatch, Alerted, RrAfter
<1>5. ASSUME NEW c \in CPUs, Halt(c) PROVE TypeOK'
  BY <1>5, Zenon DEF Halt
<1>6. ASSUME NEW c \in CPUs, Timer(c) PROVE TypeOK'
  <2>1. (ticks + 1) % TICKMOD \in Nat
    BY ModRange, SizeAssumption
  <2> QED
    BY <1>6, <2>1 DEF Timer
<1>7. ASSUME NEW c \in CPUs, TickWakeup(c) PROVE TypeOK'
  BY <1>7, Zenon DEF TickWakeup, Woken
<1>8. ASSUME NEW c \in CPUs, DecLoad(c) PROVE TypeOK'
  BY <1>8 DEF DecLoad, Quanta, CpuOK, Running
<1>9. ASSUME NEW c \in CPUs, DecStore(c) PROVE TypeOK'
  <2>1. reg[c] - 1 \in Quanta
    BY <1>9 DEF DecStore, CpuOK, Quanta
  <2>2. proc[c] \in Slots
    BY <1>9, RunningProc, Zenon DEF DecStore, Running
  <2>3. TypeQuantum'
    BY <1>9, <2>1, <2>2, Zenon DEF DecStore
  <2> QED
    BY <1>9, <2>3 DEF DecStore
<1>10. ASSUME NEW c \in CPUs, TestExpiry(c) PROVE TypeOK'
  BY <1>10, Zenon DEF TestExpiry, Expired
<1>11. ASSUME NEW c \in CPUs, EmaFast(c) PROVE TypeOK'
  <2> DEFINE p == proc[c]
             b == AsInt(Elapsed(burst_start_tick[p]))
  <2>1. p \in Slots
    BY <1>11, Zenon DEF EmaFast, CpuOK, Running
  <2>2. Elapsed(burst_start_tick[p]) \in Int
    BY <2>1, ModRange, SizeAssumption DEF Elapsed
  <2>3. b \in Int
    BY <2>2, SizeAssumption DEF AsInt
  <2>4. Ema(burst_ema_fast[p], schedp.ema_alpha_fast, b) \in Estimates
    <3>1. burst_ema_fast[p] \in Int /\ schedp.ema_alpha_fast \in Int
      BY <2>1 DEF Params, Estimates
    <3> QED
      BY <3>1, <2>3, EmaRange, Zenon
  <2> QED
    BY <1>11, <2>1, <2>3, <2>4, Zenon DEF EmaFast
<1>12. ASSUME NEW c \in CPUs, EmaSlow(c) PROVE TypeOK'
  <2> DEFINE p == proc[c]
  <2>1. p \in Slots
    BY <1>12, Zenon DEF EmaSlow, CpuOK, Running
  <2>2. Ema(burst_ema_slow[p], schedp.ema_alpha_slow, reg[c]) \in Estimates
    <3>1. burst_ema_slow[p] \in Int /\ schedp.ema_alpha_slow \in Int /\ reg[c] \in Int
      BY <2>1 DEF Params, Estimates
    <3> QED
      BY <3>1, EmaRange, Zenon
  <2> QED
    BY <1>12, <2>1, <2>2 DEF EmaSlow, Inc
<1>13. ASSUME NEW c \in CPUs, DemoteLoad(c) PROVE TypeOK'
  <2>1. proc[c] \in Slots
    BY <1>13, RunningProc, Zenon DEF DemoteLoad, Demotable, Running
  <2>2. queue_level[proc[c]] \in Int
    BY <2>1
  <2> QED
    BY <1>13, <2>2, Zenon DEF DemoteLoad, Demotable
<1>14. ASSUME NEW c \in CPUs, DemoteStore(c) PROVE TypeOK'
  <2>1. reg[c] + 1 \in {0, 1, 2}
    BY <1>14 DEF DemoteStore, CpuOK
  <2>2. proc[c] \in Slots
    BY <1>14, RunningProc, Zenon DEF DemoteStore, Running
  <2>3. TypeQuantum'
    BY <1>14, <2>1, <2>2, Zenon DEF DemoteStore
  <2> QED
    BY <1>14, <2>3 DEF DemoteStore
<1>15. ASSUME NEW c \in CPUs, CheckQuantum(c) PROVE TypeOK'
  BY <1>15, Zenon DEF CheckQuantum, Expired
<1>16. ASSUME NEW c \in CPUs, Yield(c) PROVE TypeOK'
  <2>1. \A n \in Nat : Inc(n) \in Nat
    BY DEF Inc
  <2> QED
    BY <1>16, <2>1, Zenon DEF Yield, Deschedule
<1>17. ASSUME NEW c \in CPUs, Sleep(c) PROVE TypeOK'
  BY <1>17, Zenon DEF Sleep, Deschedule
<1>18. ASSUME NEW c \in CPUs, Wakeup(c) PROVE TypeOK'
  BY <1>18 DEF Wakeup, Woken
<1>19. ASSUME NEW c \in CPUs, NEW p \in Slots, AllocProc(c, p) PROVE TypeOK'
  <2>1. 1 \in Quanta /\ 100 \in Estimates /\ p \in Int
    BY DEF Quanta, Estimates, Slots
  <2> QED
    BY SMTT(60), <1>19, <2>1 DEF AllocProc
<1>20. ASSUME NEW c \in CPUs, ForkRun(c) PROVE TypeOK'
  <2>1. reg[c] \in Slots
    BY <1>20, Zenon DEF ForkRun, ForkOK
  <2> QED
    BY SMTT(60), <1>20, <2>1 DEF ForkRun
<1>21. ASSUME NEW c \in CPUs, Exit(c) PROVE TypeOK'
  BY <1>21, Zenon DEF Exit, ClearedAgent, Deschedule
<1>22. ASSUME NEW c \in CPUs, NEW p \in Slots, Reap(c, p) PROVE TypeOK'
  BY <1>22, Zenon DEF Reap
<1>23. ASSUME NEW c \in CPUs, RegisterTest(c) PROVE TypeOK'
  BY <1>23, Zenon DEF RegisterTest
<1>24. ASSUME NEW c \in CPUs, RegisterSet(c) PROVE TypeOK'
  <2>1. pid[proc[c]] \in Nat
    BY <1>24, RunningProc, Zenon DEF RegisterSet, Running
  <2> QED
    BY <1>24, <2>1, Zenon DEF RegisterSet
<1>25. ASSUME NEW c \in CPUs, PinAgent(c) PROVE TypeOK'
  <2>1. schedp.q0_quantum \in Quanta
    BY DEF Quanta, ParamsLegal, Legal, Params
  <2> QED
    BY <1>25, <2>1, Zenon DEF PinAgent
<1>26. ASSUME NEW c \in CPUs, NEW u \in Updates, SetSchedParam(c, u) PROVE TypeOK'
  BY <1>26, UpdatesAssumption, Zenon DEF SetSchedParam
<1>27. CASE UNCHANGED vars
  BY <1>27, Zenon DEF vars
<1> QED
  BY <1>1, <1>2, <1>3, <1>4, <1>5, <1>6, <1>7, <1>8, <1>9, <1>10, <1>11, <1>12,
     <1>13, <1>14, <1>15, <1>16, <1>17, <1>18, <1>19, <1>20, <1>21, <1>22, <1>23,
     <1>24, <1>25, <1>26, <1>27
     DEF Next, Pass, Interrupt, Syscall, Finish

(* The null process and the null CPU are not slots or CPUs. *)
LEMMA NoProcFact == NoProc \notin Slots /\ NoCpu \notin CPUs
BY SizeAssumption DEF NoProc, NoCpu, Slots, CPUs

(* What RunsOnOneCpu says of the CPU that takes a step. *)
LEMMA RunningState ==
  ASSUME TypeOK, CpuOK, RunsOnOneCpu, NEW c \in CPUs, pc[c] \in Running
  PROVE  /\ proc[c] \in Slots /\ proc[c] # NoProc /\ state[proc[c]] = "RUNNING"
         /\ \A d \in CPUs : proc[d] = proc[c] => d = c
BY RunningProc, NoProcFact, Zenon DEF RunsOnOneCpu

(* Giving up the CPU keeps the pairing of CPUs and RUNNING processes. *)
LEMMA DescheduleOneCpu ==
  ASSUME TypeOK, CpuOK, RunsOnOneCpu, NEW c \in CPUs, pc[c] \in Running,
         NEW s \in States, s # "RUNNING", Deschedule(c, s)
  PROVE  RunsOnOneCpu'
<1>1. /\ proc[c] \in Slots /\ proc[c] # NoProc
      /\ \A d \in CPUs : proc[d] = proc[c] => d = c
  BY RunningState, Zenon
<1>2. /\ state' = [state EXCEPT ![proc[c]] = s]
      /\ proc' = [proc EXCEPT ![c] = NoProc]
  BY Zenon DEF Deschedule
<1>3. \A d, e \in CPUs : proc'[d] = proc'[e] /\ proc'[d] # NoProc => d = e
  BY <1>2, Zenon DEF RunsOnOneCpu, TypeOK, TypeCpu
<1>4. \A p \in Slots : state'[p] = "RUNNING" <=> \E d \in CPUs : proc'[d] = p
  BY <1>1, <1>2, NoProcFact DEF RunsOnOneCpu, TypeOK, TypeCpu, TypeTable
<1> QED
  BY <1>3, <1>4, Zenon DEF RunsOnOneCpu

(* Every step keeps a RUNNING process on one CPU. *)
LEMMA OneCpuStep == IInv /\ [Next]_vars => RunsOnOneCpu'
<1> SUFFICES ASSUME IInv, [Next]_vars PROVE RunsOnOneCpu'
    BY Zenon
<1> USE DEF IInv, quantum, emas, counts, firsts, params, clock, table, cpuv
<1>1. ASSUME NEW c \in CPUs, NEW p \in Slots, Dispatch(c, p) PROVE RunsOnOneCpu'
  <2>1. proc[c] = NoProc
    BY <1>1, Zenon DEF Dispatch, CpuOK, InPass
  <2>2. state[p] = "RUNNABLE"
    BY <1>1, Zenon DEF Dispatch, IsBest, Runnable
  <2>3. \A d \in CPUs : proc[d] # p
    BY <2>2, Zenon DEF RunsOnOneCpu
  <2>4. state' = [state EXCEPT ![p] = "RUNNING"] /\ proc' = [proc EXCEPT ![c] = p]
    BY <1>1, Zenon DEF Dispatch
  <2>5. \A d, e \in CPUs : proc'[d] = proc'[e] /\ proc'[d] # NoProc => d = e
    BY <2>3, <2>4, Zenon DEF RunsOnOneCpu, TypeOK, TypeCpu
  <2>6. \A q \in Slots : state'[q] = "RUNNING" <=> \E d \in CPUs : proc'[d] = q
    BY <2>1, <2>4, NoProcFact DEF RunsOnOneCpu, TypeOK, TypeCpu, TypeTable
  <2> QED
    BY <2>5, <2>6, Zenon DEF RunsOnOneCpu
<1>2. ASSUME NEW c \in CPUs, TickWakeup(c) \/ Wakeup(c) PROVE RunsOnOneCpu'
  <2>1. PICK S \in SUBSET Sleeping : state' = Woken(S) /\ proc' = proc
    BY <1>2, Zenon DEF TickWakeup, Wakeup
  <2>2. \A p \in Slots : state'[p] = "RUNNING" <=> state[p] = "RUNNING"
    BY <2>1, Zenon DEF Woken, Sleeping
  <2> QED
    BY <2>1, <2>2, Zenon DEF RunsOnOneCpu
<1>3. ASSUME NEW c \in CPUs, Yield(c) \/ Sleep(c) \/ Exit(c) PROVE RunsOnOneCpu'
  <2>1. pc[c] \in Running
    BY <1>3, Zenon DEF Yield, Sleep, Exit, Running
  <2>2. \E s \in {"RUNNABLE", "SLEEPING", "ZOMBIE"} : Deschedule(c, s)
    BY <1>3, Zenon DEF Yield, Sleep, Exit
  <2> QED
    BY <2>1, <2>2, DescheduleOneCpu, StateFacts, Zenon
<1>4. ASSUME NEW c \in CPUs, NEW p \in Slots, AllocProc(c, p) \/ Reap(c, p)
      PROVE RunsOnOneCpu'
  <2>1. \A q \in Slots : state'[q] = "RUNNING" <=> state[q] = "RUNNING"
    BY <1>4 DEF AllocProc, Reap, TypeOK, TypeTable
  <2>2. proc' = proc
    BY <1>4, Zenon DEF AllocProc, Reap
  <2> QED
    BY <2>1, <2>2, Zenon DEF RunsOnOneCpu
<1>5. ASSUME NEW c \in CPUs, ForkRun(c) PROVE RunsOnOneCpu'
  <2>1. \A q \in Slots : state'[q] = "RUNNING" <=> state[q] = "RUNNING"
    BY <1>5, Zenon DEF ForkRun, ForkOK, TypeOK, TypeTable
  <2>2. proc' = proc
    BY <1>5, Zenon DEF ForkRun
  <2> QED
    BY <2>1, <2>2, Zenon DEF RunsOnOneCpu
<1>6. CASE UNCHANGED <<state, proc>>
  BY <1>6, Zenon DEF RunsOnOneCpu
<1>7. ASSUME NEW c \in CPUs,
             \/ EnterPass(c) \/ BoostLevel(c) \/ BoostQuantum(c) \/ Halt(c) \/ Timer(c)
             \/ DecLoad(c) \/ DecStore(c) \/ TestExpiry(c) \/ EmaFast(c) \/ EmaSlow(c)
             \/ DemoteLoad(c) \/ DemoteStore(c) \/ CheckQuantum(c) \/ RegisterTest(c)
             \/ RegisterSet(c) \/ PinAgent(c) \/ \E u \in Updates : SetSchedParam(c, u)
      PROVE  UNCHANGED <<state, proc>>
  BY <1>7, Zenon DEF EnterPass, BoostLevel, BoostQuantum, BoostNext, Halt, Timer, DecLoad, DecStore,
              TestExpiry, EmaFast, EmaSlow, DemoteLoad, DemoteStore, CheckQuantum,
              RegisterTest, RegisterSet, PinAgent, SetSchedParam
<1> QED
  BY <1>1, <1>2, <1>3, <1>4, <1>5, <1>6, <1>7, Zenon
     DEF Next, Pass, Interrupt, Syscall, Finish, vars

(* Every step keeps the lock, the process and the scratch value of a CPU in  *)
(* line with its label.                                                      *)
LEMMA CpuStep == IInv /\ [Next]_vars => CpuOK'
<1> SUFFICES ASSUME IInv, [Next]_vars PROVE CpuOK'
    BY Zenon
<1> USE NoProcFact DEF IInv, TypeOK, TypeCpu, CpuOK, Goto, InPass, Running,
        quantum, emas, counts, firsts, params, clock, table, cpuv
<1>1. ASSUME NEW c \in CPUs, EnterPass(c) PROVE CpuOK'
  <2>1. 0 \in Slots
    BY SizeAssumption DEF Slots
  <2> QED
    BY <1>1, <2>1, ZenonT(60) DEF EnterPass, Free
<1>2. ASSUME NEW c \in CPUs, BoostLevel(c) \/ BoostQuantum(c) PROVE CpuOK'
  <2>1. reg[c] \in Slots
    BY <1>2, Zenon DEF BoostLevel, BoostQuantum
  <2>2. reg[c] + 1 < NPROC => reg[c] + 1 \in Slots
    BY <2>1, SizeAssumption DEF Slots
  <2>3. \/ BoostNext(c)
        \/ Goto(c, "boostq") /\ reg' = reg
    BY <1>2, Zenon DEF BoostLevel, BoostQuantum
  <2>4. UNCHANGED <<ptable_lock, proc>> /\ pc[c] \in {"boost", "boostq"}
    BY <1>2, Zenon DEF BoostLevel, BoostQuantum
  <2> QED
    BY SMTT(60), <2>1, <2>2, <2>3, <2>4 DEF BoostNext
<1>4. ASSUME NEW c \in CPUs, Halt(c) PROVE CpuOK'
  BY <1>4, ZenonT(60) DEF Halt
<1>5. ASSUME NEW c \in CPUs, Timer(c) PROVE CpuOK'
  BY <1>5, ZenonT(60) DEF Timer
<1>6. ASSUME NEW c \in CPUs, TickWakeup(c) PROVE CpuOK'
  BY <1>6, ZenonT(60) DEF TickWakeup
<1>7. ASSUME NEW c \in CPUs, DecLoad(c) PROVE CpuOK'
  BY <1>7 DEF DecLoad, TypeQuantum, Quanta, QuantumOK
<1>8. ASSUME NEW c \in CPUs, DecStore(c) PROVE CpuOK'
  BY <1>8 DEF DecStore
<1>9. ASSUME NEW c \in CPUs, TestExpiry(c) PROVE CpuOK'
  BY <1>9 DEF TestExpiry, Expired
<1>10. ASSUME NEW c \in CPUs, EmaFast(c) PROVE CpuOK'
  BY <1>10, ZenonT(60) DEF EmaFast
<1>11. ASSUME NEW c \in CPUs, EmaSlow(c) PROVE CpuOK'
  BY <1>11, ZenonT(60) DEF EmaSlow
<1>12. ASSUME NEW c \in CPUs, DemoteLoad(c) PROVE CpuOK'
  BY SMTT(60), <1>12 DEF DemoteLoad, Demotable, TypeQuantum
<1>13. ASSUME NEW c \in CPUs, DemoteStore(c) PROVE CpuOK'
  BY <1>13, ZenonT(60) DEF DemoteStore
<1>14. ASSUME NEW c \in CPUs, CheckQuantum(c) PROVE CpuOK'
  BY <1>14 DEF CheckQuantum, Expired
<1>15. ASSUME NEW c \in CPUs, Yield(c) PROVE CpuOK'
  BY <1>15, ZenonT(60) DEF Yield, Deschedule, Free
<1>16. ASSUME NEW c \in CPUs, Sleep(c) PROVE CpuOK'
  BY <1>16 DEF Sleep, Deschedule, Free
<1>17. ASSUME NEW c \in CPUs, Wakeup(c) PROVE CpuOK'
  BY <1>17, Zenon DEF Wakeup
<1>18. ASSUME NEW c \in CPUs, ForkRun(c) PROVE CpuOK'
  BY <1>18 DEF ForkRun
<1>19. ASSUME NEW c \in CPUs, Exit(c) PROVE CpuOK'
  BY <1>19 DEF Exit, ClearedAgent, Deschedule, Free
<1>20. ASSUME NEW c \in CPUs, RegisterTest(c) PROVE CpuOK'
  BY <1>20 DEF RegisterTest
<1>21. ASSUME NEW c \in CPUs, RegisterSet(c) PROVE CpuOK'
  BY <1>21, ZenonT(60) DEF RegisterSet
<1>22. ASSUME NEW c \in CPUs, PinAgent(c) PROVE CpuOK'
  BY <1>22 DEF PinAgent
<1>23. ASSUME NEW c \in CPUs, NEW p \in Slots, Dispatch(c, p) PROVE CpuOK'
  BY <1>23, ZenonT(60) DEF Dispatch
<1>24. ASSUME NEW c \in CPUs, NEW p \in Slots, AllocProc(c, p) PROVE CpuOK'
  BY <1>24, ZenonT(60) DEF AllocProc
<1>25. ASSUME NEW c \in CPUs, NEW p \in Slots, Reap(c, p) PROVE CpuOK'
  BY <1>25, Zenon DEF Reap
<1>26. ASSUME NEW c \in CPUs, NEW u \in Updates, SetSchedParam(c, u) PROVE CpuOK'
  BY <1>26, Zenon DEF SetSchedParam
<1>27. CASE UNCHANGED vars
  BY <1>27, Zenon DEF vars
<1> QED
  BY ZenonT(60), <1>1, <1>2, <1>4, <1>5, <1>6, <1>7, <1>8, <1>9, <1>10, <1>11, <1>12,
     <1>13, <1>14, <1>15, <1>16, <1>17, <1>18, <1>19, <1>20, <1>21, <1>22,
     <1>23, <1>24, <1>25, <1>26, <1>27
     DEF Next, Pass, Interrupt, Syscall, Finish

(* fork() keeps its EMBRYO when the CPUs in fork() are as they were and no
   EMBRYO changes state. *)
LEMMA ForkFrame ==
  ASSUME ForkOK,
         \A d \in CPUs : pc'[d] = "fork" => pc[d] = "fork" /\ reg'[d] = reg[d],
         \A p \in Slots : state[p] = "EMBRYO" => state'[p] = "EMBRYO"
  PROVE  ForkOK'
BY DEF ForkOK

(* No step of another CPU touches the EMBRYO of a fork() in progress. *)
LEMMA ForkStep == IInv /\ [Next]_vars => ForkOK'
<1> SUFFICES ASSUME IInv, [Next]_vars PROVE ForkOK'
    BY Zenon
<1>0. ForkOK
  BY Zenon DEF IInv
<1> DEFINE Forking == \A d \in CPUs :
                        pc'[d] = "fork" => pc[d] = "fork" /\ reg'[d] = reg[d]
           Embryos == \A p \in Slots : state[p] = "EMBRYO" => state'[p] = "EMBRYO"
<1>1. ASSUME Forking, Embryos PROVE ForkOK'
  BY <1>1, <1>0, ForkFrame, Zenon
<1> USE DEF IInv, TypeOK, TypeCpu, TypeTable, Goto, quantum, emas, counts,
        firsts, params, clock, table, cpuv
<1>2. ASSUME NEW c \in CPUs,
             \/ EnterPass(c) \/ BoostLevel(c) \/ BoostQuantum(c) \/ Halt(c) \/ Timer(c)
             \/ DecLoad(c) \/ DecStore(c) \/ TestExpiry(c) \/ EmaFast(c) \/ EmaSlow(c)
             \/ DemoteLoad(c) \/ DemoteStore(c) \/ CheckQuantum(c) \/ RegisterTest(c)
             \/ RegisterSet(c) \/ PinAgent(c) \/ \E u \in Updates : SetSchedParam(c, u)
      PROVE  Forking /\ state' = state
  BY <1>2 DEF EnterPass, BoostLevel, BoostQuantum, BoostNext, Halt, Timer, DecLoad, DecStore,
              TestExpiry, EmaFast, EmaSlow, DemoteLoad, DemoteStore, CheckQuantum,
              RegisterTest, RegisterSet, PinAgent, SetSchedParam
<1>3. ASSUME NEW c \in CPUs, NEW p \in Slots, Dispatch(c, p) PROVE Forking /\ Embryos
  BY <1>3, Zenon DEF Dispatch, IsBest, Runnable
<1>4. ASSUME NEW c \in CPUs, TickWakeup(c) \/ Wakeup(c) PROVE Forking /\ Embryos
  BY <1>4, Zenon DEF TickWakeup, Wakeup, Woken, Sleeping
<1>5. ASSUME NEW c \in CPUs, Yield(c) \/ Sleep(c) \/ Exit(c) PROVE Forking /\ Embryos
  <2>1. state[proc[c]] = "RUNNING"
    BY <1>5, RunningState, Zenon DEF Yield, Sleep, Exit, Running
  <2> QED
    BY <1>5, <2>1, Zenon DEF Yield, Sleep, Exit, Deschedule
<1>6. ASSUME NEW c \in CPUs, NEW p \in Slots, Reap(c, p) PROVE Forking /\ Embryos
  BY <1>6, Zenon DEF Reap
<1>7. ASSUME NEW c \in CPUs, ForkRun(c) PROVE ForkOK'
  BY <1>7 DEF ForkRun, ForkOK
<1>8. ASSUME NEW c \in CPUs, NEW p \in Slots, AllocProc(c, p) PROVE ForkOK'
  BY <1>8 DEF AllocProc, ForkOK
<1>9. CASE UNCHANGED vars
  BY <1>9, Zenon DEF vars, ForkOK
<1> QED
  BY <1>1, <1>2, <1>3, <1>4, <1>5, <1>6, <1>7, <1>8, <1>9, Zenon
     DEF Next, Pass, Interrupt, Syscall, Finish

(* Only legal parameters are stored or snapshot. *)
LEMMA ParamsStep == IInv /\ [Next]_vars => ParamsLegal'
<1> SUFFICES ASSUME IInv, [Next]_vars PROVE ParamsLegal'
    BY Zenon
<1> USE DEF IInv, ParamsLegal, quantum, emas, counts, firsts, params, clock,
        table, cpuv
<1>1. ASSUME NEW c \in CPUs, EnterPass(c) PROVE ParamsLegal'
  BY <1>1, Zenon DEF EnterPass
<1>2. ASSUME NEW c \in CPUs, NEW u \in Updates, SetSchedParam(c, u) PROVE ParamsLegal'
  BY <1>2, Zenon DEF SetSchedParam
<1>3. CASE UNCHANGED <<schedp, snap>>
  BY <1>3, Zenon
<1>4. ASSUME NEW c \in CPUs,
             \/ BoostLevel(c) \/ BoostQuantum(c) \/ \E p \in Slots : Dispatch(c, p)
             \/ Halt(c) \/ Timer(c) \/ Interrupt(c) \/ Sleep(c) \/ Wakeup(c) \/ Exit(c)
             \/ \E p \in Slots : AllocProc(c, p) \/ Reap(c, p)
             \/ RegisterTest(c) \/ Finish(c)
      PROVE  UNCHANGED <<schedp, snap>>
  BY <1>4 DEF BoostLevel, BoostQuantum, BoostNext, Dispatch, Halt, Timer, Interrupt, TickWakeup,
              DecLoad, DecStore, TestExpiry, EmaFast, EmaSlow, DemoteLoad, DemoteStore,
              CheckQuantum, Yield, Sleep, Wakeup, Exit, AllocProc, Reap, RegisterTest,
              Finish, ForkRun, RegisterSet, PinAgent
<1> QED
  BY <1>1, <1>2, <1>3, <1>4, Zenon DEF Next, Pass, Syscall, vars

(* No step leaves a running process without quantum where it needs one. *)
LEMMA QuantumStep == IInv /\ [Next]_vars => QuantumOK'
<1> SUFFICES ASSUME IInv, [Next]_vars PROVE QuantumOK'
    BY Zenon
<1> USE DEF IInv, Goto, QuantumOK, TypeOK, TypeCpu, TypeQuantum, Quanta,
        quantum, emas, counts, firsts, params, clock, table, cpuv
<1>1. ASSUME NEW c \in CPUs, EnterPass(c) PROVE QuantumOK'
  BY <1>1, Zenon DEF EnterPass
<1>2. ASSUME NEW c \in CPUs, BoostLevel(c) PROVE QuantumOK'
  BY <1>2 DEF BoostLevel, BoostNext
<1>3. ASSUME NEW c \in CPUs, BoostQuantum(c) PROVE QuantumOK'
  <2>1. snap.q0_quantum \in Int /\ snap.q0_quantum >= 1
    BY DEF ParamsLegal, Legal, Params, TypeParams
  <2> QED
    BY <1>3, <2>1 DEF BoostQuantum, BoostNext
<1>4. ASSUME NEW c \in CPUs, Halt(c) PROVE QuantumOK'
  BY <1>4, Zenon DEF Halt
<1>5. ASSUME NEW c \in CPUs, Timer(c) PROVE QuantumOK'
  BY <1>5, ZenonT(60) DEF Timer, CpuOK
<1>6. ASSUME NEW c \in CPUs, TickWakeup(c) PROVE QuantumOK'
  BY <1>6, Zenon DEF TickWakeup
<1>7. ASSUME NEW c \in CPUs, DecLoad(c) PROVE QuantumOK'
  BY <1>7, Zenon DEF DecLoad
<1>8. ASSUME NEW c \in CPUs, DecStore(c) PROVE QuantumOK'
  BY <1>8, RunningState DEF DecStore, Running
<1>9. ASSUME NEW c \in CPUs, TestExpiry(c) PROVE QuantumOK'
  BY <1>9, Zenon DEF TestExpiry, Expired
<1>10. ASSUME NEW c \in CPUs, EmaFast(c) PROVE QuantumOK'
  BY <1>10, Zenon DEF EmaFast
<1>11. ASSUME NEW c \in CPUs, EmaSlow(c) PROVE QuantumOK'
  BY <1>11, Zenon DEF EmaSlow
<1>12. ASSUME NEW c \in CPUs, DemoteLoad(c) PROVE QuantumOK'
  BY <1>12 DEF DemoteLoad, Demotable
<1>13. ASSUME NEW c \in CPUs, DemoteStore(c) PROVE QuantumOK'
  BY <1>13, Zenon DEF DemoteStore
<1>14. ASSUME NEW c \in CPUs, CheckQuantum(c) PROVE QuantumOK'
  BY <1>14 DEF CheckQuantum, Expired
<1>15. ASSUME NEW c \in CPUs, Yield(c) PROVE QuantumOK'
  BY <1>15, Zenon DEF Yield, Deschedule
<1>16. ASSUME NEW c \in CPUs, Sleep(c) PROVE QuantumOK'
  BY <1>16, Zenon DEF Sleep, Deschedule
<1>17. ASSUME NEW c \in CPUs, Wakeup(c) PROVE QuantumOK'
  BY <1>17, Zenon DEF Wakeup
<1>18. ASSUME NEW c \in CPUs, ForkRun(c) PROVE QuantumOK'
  BY <1>18, Zenon DEF ForkRun
<1>19. ASSUME NEW c \in CPUs, Exit(c) PROVE QuantumOK'
  BY <1>19, Zenon DEF Exit, ClearedAgent, Deschedule
<1>20. ASSUME NEW c \in CPUs, RegisterTest(c) PROVE QuantumOK'
  BY <1>20, Zenon DEF RegisterTest
<1>21. ASSUME NEW c \in CPUs, RegisterSet(c) PROVE QuantumOK'
  BY <1>21, Zenon DEF RegisterSet
<1>22. ASSUME NEW c \in CPUs, PinAgent(c) PROVE QuantumOK'
  BY SMTT(60), <1>22 DEF PinAgent, ParamsLegal, Legal, Params, TypeParams
<1>23. ASSUME NEW c \in CPUs, NEW p \in Slots, Dispatch(c, p) PROVE QuantumOK'
  BY <1>23, QuantumRange, Zenon DEF Dispatch, ParamsLegal, TypeParams
<1>24. ASSUME NEW c \in CPUs, NEW p \in Slots, AllocProc(c, p) PROVE QuantumOK'
  BY SMTT(60), <1>24 DEF AllocProc
<1>25. ASSUME NEW c \in CPUs, NEW p \in Slots, Reap(c, p) PROVE QuantumOK'
  BY <1>25, Zenon DEF Reap
<1>26. ASSUME NEW c \in CPUs, NEW u \in Updates, SetSchedParam(c, u) PROVE QuantumOK'
  BY <1>26, Zenon DEF SetSchedParam
<1>27. CASE UNCHANGED vars
  BY <1>27, Zenon DEF vars
<1> QED
  BY <1>1, <1>2, <1>3, <1>4, <1>5, <1>6, <1>7, <1>8, <1>9, <1>10, <1>11,
  <1>12, <1>13, <1>14, <1>15, <1>16, <1>17, <1>18, <1>19, <1>20, <1>21,
  <1>22, <1>23, <1>24, <1>25, <1>26, <1>27, Zenon
     DEF Next, Pass, Interrupt, Syscall, Finish

(* Pids stay distinct. *)
LEMMA PidsStep == IInv /\ [Next]_vars => PidsOK'
<1> SUFFICES ASSUME IInv, [Next]_vars PROVE PidsOK'
    BY Zenon
<1> USE DEF IInv, TypeOK, TypeCpu, TypeTable, quantum, emas, counts, firsts,
        params, clock, table, cpuv
<1> DEFINE Kept == /\ UNCHANGED <<pid, nextpid>>
                   /\ \A p \in Slots : 
                        state[p] = "UNUSED" => state'[p] = "UNUSED"
<1>1. ASSUME Kept PROVE PidsOK'
  BY <1>1, Zenon DEF PidsOK
<1>2. ASSUME NEW c \in CPUs,
             \/ EnterPass(c) \/ BoostLevel(c) \/ BoostQuantum(c) \/ Halt(c) \/ Timer(c)
             \/ DecLoad(c) \/ DecStore(c) \/ TestExpiry(c) \/ EmaFast(c) \/ EmaSlow(c)
             \/ DemoteLoad(c) \/ DemoteStore(c) \/ CheckQuantum(c) \/ RegisterTest(c)
             \/ RegisterSet(c) \/ PinAgent(c) \/ \E u \in Updates : SetSchedParam(c, u)
      PROVE  Kept
  BY <1>2, Zenon DEF EnterPass, BoostLevel, BoostQuantum, BoostNext, Halt, Timer, DecLoad, DecStore,
              TestExpiry, EmaFast, EmaSlow, DemoteLoad, DemoteStore, CheckQuantum,
              RegisterTest, RegisterSet, PinAgent, SetSchedParam
<1>3. ASSUME NEW c \in CPUs, NEW p \in Slots, Dispatch(c, p) PROVE Kept
  BY <1>3, Zenon DEF Dispatch, IsBest, Runnable
<1>4. ASSUME NEW c \in CPUs, TickWakeup(c) \/ Wakeup(c) PROVE Kept
  BY <1>4, Zenon DEF TickWakeup, Wakeup, Woken, Sleeping
<1>5. ASSUME NEW c \in CPUs, Yield(c) \/ Sleep(c) \/ Exit(c) PROVE Kept
  <2>1. proc[c] \in Slots /\ state[proc[c]] = "RUNNING"
    BY <1>5, RunningState, Zenon DEF Yield, Sleep, Exit, Running
  <2> QED
    BY <1>5, <2>1, Zenon DEF Yield, Sleep, Exit, Deschedule
<1>6. ASSUME NEW c \in CPUs, ForkRun(c) PROVE Kept
  BY <1>6, Zenon DEF ForkRun, ForkOK
<1>7. ASSUME NEW c \in CPUs, NEW p \in Slots, AllocProc(c, p) PROVE PidsOK'
  BY <1>7 DEF AllocProc, PidsOK
<1>8. ASSUME NEW c \in CPUs, NEW p \in Slots, Reap(c, p) PROVE PidsOK'
  BY <1>8, Zenon DEF Reap, PidsOK
<1>9. CASE UNCHANGED vars
  BY <1>9, Zenon DEF vars, PidsOK
<1> QED
  BY <1>1, <1>2, <1>3, <1>4, <1>5, <1>6, <1>7, <1>8, <1>9, Zenon
     DEF Next, Pass, Interrupt, Syscall, Finish

(* What may be owed: a CPU on its way to yield(). *)
Due(d) ==
  \/ pc[d] \in {"demote", "demst", "yield"}
  \/ pc[d] = "check" /\ ticks_remaining[proc[d]] = 0

(* A yield is always owed to a preemption already counted. *)
LEMMA CountsStep ==
  ASSUME TypeOK, CpuOK, RunsOnOneCpu, ParamsLegal, CountsOK, [Next]_vars
  PROVE  CountsOK'
<1> USE DEF Goto, quantum, emas, counts, firsts, params, clock, table, cpuv
<1> DEFINE Calm == \A d \in CPUs : Due(d)' => Due(d) /\ proc'[d] = proc[d]
           Spent == \A p \in Slots : ticks_remaining'[p] = 0 => ticks_remaining[p] = 0
<1>1. ASSUME UNCHANGED counts, Calm PROVE CountsOK'
  BY <1>1, Zenon DEF CountsOK, Owed, Due
<1>2. /\ pc \in [CPUs -> Labels] /\ proc \in [CPUs -> Slots \cup {NoProc}]
      /\ ticks_remaining \in [Slots -> Quanta]
      /\ yield_count \in [Slots -> Nat] /\ preempt_count \in [Slots -> Nat]
  BY Zenon DEF TypeOK, TypeCpu, TypeQuantum, TypeStats
<1>3. \A d \in CPUs : Due(d) => proc[d] \in Slots
  BY RunningProc, Zenon DEF Due, Running
<1>4. ASSUME UNCHANGED proc, Spent,
             \A d \in CPUs : pc'[d] = pc[d]
                            \/ pc'[d] \notin {"demote", "demst", "yield", "check"}
      PROVE  Calm
  <2> SUFFICES ASSUME NEW d \in CPUs, Due(d)' PROVE Due(d) /\ proc'[d] = proc[d]
    BY Zenon
  <2>1. pc'[d] = pc[d] /\ pc[d] \in Running
    BY <1>4, Zenon DEF Due, Running
  <2>2. proc[d] \in Slots
    BY <2>1, RunningProc, Zenon
  <2> QED
    BY <1>4, <2>1, <2>2, Zenon DEF Due
<1>5. ASSUME NEW c \in CPUs,
             \/ EnterPass(c) \/ BoostLevel(c) \/ Halt(c) \/ Timer(c) \/ TickWakeup(c)
             \/ DecLoad(c) \/ EmaFast(c) \/ Wakeup(c) \/ ForkRun(c)
             \/ RegisterTest(c) \/ RegisterSet(c) \/ \E p \in Slots : Reap(c, p)
             \/ \E u \in Updates : SetSchedParam(c, u)
      PROVE  CountsOK'
  <2>1. UNCHANGED <<counts, proc, ticks_remaining>>
    BY <1>5, Zenon DEF EnterPass, BoostLevel, BoostNext, Halt, Timer, TickWakeup, DecLoad, EmaFast,
                Wakeup, ForkRun, RegisterTest, RegisterSet, Reap, SetSchedParam
  <2>2. \A d \in CPUs : pc'[d] = pc[d] \/ pc'[d] \notin {"demote", "demst", "yield", "check"}
    BY <1>2, <1>5 DEF EnterPass, BoostLevel, BoostNext, Halt, Timer, TickWakeup, DecLoad, EmaFast,
                Wakeup, ForkRun, RegisterTest, RegisterSet, Reap, SetSchedParam
  <2> QED
    BY <1>1, <1>4, <2>1, <2>2, Zenon
<1>6. ASSUME NEW c \in CPUs, BoostQuantum(c) \/ PinAgent(c) PROVE CountsOK'
  <2>1. /\ snap.q0_quantum \in Int /\ snap.q0_quantum >= 1
        /\ schedp.q0_quantum \in Int /\ schedp.q0_quantum >= 1
    BY DEF ParamsLegal, Legal, Params, TypeOK, TypeParams
  <2>2. Spent
    BY SMTT(60), <1>2, <1>6, <2>1 DEF BoostQuantum, BoostNext, PinAgent
  <2>3. \A d \in CPUs : pc'[d] = pc[d] \/ pc'[d] \notin {"demote", "demst", "yield", "check"}
    BY <1>2, <1>6 DEF BoostQuantum, BoostNext, PinAgent
  <2>4. UNCHANGED <<counts, proc>>
    BY <1>6, Zenon DEF BoostQuantum, BoostNext, PinAgent
  <2> QED
    BY <1>1, <1>4, <2>2, <2>3, <2>4, Zenon
<1>7. ASSUME NEW c \in CPUs, NEW p \in Slots, Dispatch(c, p) PROVE CountsOK'
  <2>1. state[p] = "RUNNABLE"
    BY <1>7, Zenon DEF Dispatch, IsBest, Runnable
  <2>2. \A d \in CPUs : proc[d] # p
    BY <2>1, Zenon DEF RunsOnOneCpu
  <2>3. Calm
    BY SMTT(60), <1>2, <1>3, <1>7, <2>2 DEF Dispatch, Due
  <2> QED
    BY <1>1, <1>7, <2>3, Zenon DEF Dispatch
<1>8. ASSUME NEW c \in CPUs, DecStore(c) PROVE CountsOK'
  <2>1. \A d \in CPUs : proc[d] = proc[c] => d = c
    BY <1>8, RunningState, Zenon DEF DecStore, Running
  <2>2. Calm
    BY SMTT(60), <1>2, <1>3, <1>8, <2>1 DEF DecStore, Due
  <2> QED
    BY <1>1, <1>8, <2>2, Zenon DEF DecStore
<1>9. ASSUME NEW c \in CPUs, TestExpiry(c) PROVE CountsOK'
  <2>1. Calm
    BY SMTT(60), <1>2, <1>9 DEF TestExpiry, Expired, Due
  <2> QED
    BY <1>1, <1>9, <2>1, Zenon DEF TestExpiry
<1>10. ASSUME NEW c \in CPUs, DemoteLoad(c) \/ DemoteStore(c) PROVE CountsOK'
  <2>1. Calm
    BY <1>2, <1>10, Zenon DEF DemoteLoad, DemoteStore, Due
  <2> QED
    BY <1>1, <1>10, <2>1, Zenon DEF DemoteLoad, DemoteStore
<1>11. ASSUME NEW c \in CPUs, CheckQuantum(c) PROVE CountsOK'
  <2>1. proc[c] \in Slots
    BY <1>11, RunningProc, Zenon DEF CheckQuantum, Running
  <2>2. Expired(proc[c]) => ticks_remaining[proc[c]] = 0
    BY <1>2, <2>1 DEF Expired, Quanta
  <2>3. Calm
    BY <1>2, <1>11, <2>2, Zenon DEF CheckQuantum, Due
  <2> QED
    BY <1>1, <1>11, <2>3, Zenon DEF CheckQuantum
<1>12. ASSUME NEW c \in CPUs, Sleep(c) \/ Exit(c) PROVE CountsOK'
  <2>1. Calm
    BY <1>2, <1>12, Zenon DEF Sleep, Exit, Deschedule, Due
  <2> QED
    BY <1>1, <1>12, <2>1, Zenon DEF Sleep, Exit
<1>13. ASSUME NEW c \in CPUs, EmaSlow(c) PROVE CountsOK'
  <2> DEFINE p == proc[c]
  <2>1. p \in Slots /\ \A d \in CPUs : proc[d] = p => d = c
    BY <1>13, RunningState, Zenon DEF EmaSlow, Running
  <2>2. /\ yield_count' = yield_count /\ proc' = proc
        /\ preempt_count' = [preempt_count EXCEPT ![p] = Inc(@)]
        /\ ticks_remaining' = ticks_remaining /\ pc' = [pc EXCEPT ![c] = "demote"]
    BY <1>13, Zenon DEF EmaSlow
  <2>3. \A q \in Slots : yield_count[q] <= preempt_count[q] /\ preempt_count[q] <= MaxCount
    BY Zenon DEF CountsOK
  <2>4. \A q \in Slots : yield_count'[q] <= preempt_count'[q] /\ preempt_count'[q] <= MaxCount
    BY <1>2, <2>1, <2>2, <2>3, SizeAssumption DEF Inc
  <2>5. Owed(p)'
    BY <1>2, <2>1, <2>2, <2>3, SizeAssumption DEF Owed, Inc
  <2>6. ASSUME NEW d \in CPUs, d # c, Due(d)' PROVE Owed(proc[d])'
    <3>1. Due(d) /\ proc[d] # p /\ proc[d] \in Slots
      BY <1>2, <1>3, <2>1, <2>2, <2>6, Zenon DEF Due
    <3>2. Owed(proc[d])
      BY <3>1, Zenon DEF CountsOK, Due
    <3> QED
      BY <1>2, <2>2, <3>1, <3>2, Zenon DEF Owed
  <2> QED
    BY <2>2, <2>4, <2>5, <2>6, Zenon DEF CountsOK, Due
<1>14. ASSUME NEW c \in CPUs, Yield(c) PROVE CountsOK'
  <2> DEFINE p == proc[c]
  <2>1. p \in Slots /\ \A d \in CPUs : proc[d] = p => d = c
    BY <1>14, RunningState, Zenon DEF Yield, Running
  <2>2. /\ preempt_count' = preempt_count /\ proc' = [proc EXCEPT ![c] = NoProc]
        /\ yield_count' = [yield_count EXCEPT ![p] = Inc(@)]
        /\ ticks_remaining' = ticks_remaining /\ pc' = [pc EXCEPT ![c] = "idle"]
    BY <1>14, Zenon DEF Yield, Deschedule
  <2>3. Owed(p)
    BY <1>14, Zenon DEF Yield, CountsOK
  <2>4. \A q \in Slots : yield_count[q] <= preempt_count[q] /\ preempt_count[q] <= MaxCount
    BY Zenon DEF CountsOK
  <2>5. \A q \in Slots : yield_count'[q] <= preempt_count'[q] /\ preempt_count'[q] <= MaxCount
    BY SMTT(60), <1>2, <2>1, <2>2, <2>3, <2>4, SizeAssumption DEF Inc, Owed
  <2>6. ASSUME NEW d \in CPUs, Due(d)' PROVE Owed(proc[d])'
    <3>1. d # c /\ Due(d) /\ proc'[d] = proc[d] /\ proc[d] # p /\ proc[d] \in Slots
      BY <1>2, <1>3, <2>1, <2>2, <2>6, Zenon DEF Due
    <3>2. Owed(proc[d])
      BY <3>1, Zenon DEF CountsOK, Due
    <3> QED
      BY <1>2, <2>2, <3>1, <3>2, Zenon DEF Owed
  <2> QED
    BY <2>5, <2>6, Zenon DEF CountsOK, Due
<1>15. ASSUME NEW c \in CPUs, NEW p \in Slots, AllocProc(c, p) PROVE CountsOK'
  <2>1. \A d \in CPUs : Due(d)' => pc'[d] = pc[d] /\ pc[d] \in Running
    BY <1>2, <1>15, Zenon DEF AllocProc, Due, Running
  <2>2. \A d \in CPUs : pc[d] \in Running => proc[d] \in Slots /\ proc[d] # p
    BY <1>15, RunningState, Zenon DEF AllocProc
  <2>3. \A q \in Slots : q # p => /\ yield_count'[q] = yield_count[q]
                                  /\ preempt_count'[q] = preempt_count[q]
                                  /\ ticks_remaining'[q] = ticks_remaining[q]
    BY <1>2, <1>15, Zenon DEF AllocProc
  <2>4. yield_count'[p] = 0 /\ preempt_count'[p] = 0 /\ proc' = proc
    BY <1>2, <1>15, Zenon DEF AllocProc
  <2>5. \A q \in Slots : yield_count'[q] <= preempt_count'[q] /\ preempt_count'[q] <= MaxCount
    BY SMTT(60), <2>3, <2>4, SizeAssumption DEF CountsOK
  <2>6. ASSUME NEW d \in CPUs, Due(d)' PROVE Owed(proc[d])'
    <3>1. pc'[d] = pc[d] /\ proc[d] \in Slots /\ proc[d] # p
      BY <2>1, <2>2, <2>6, Zenon
    <3>2. Due(d)
      BY <2>3, <2>4, <2>6, <3>1, Zenon DEF Due
    <3>3. Owed(proc[d])
      BY <3>2, Zenon DEF CountsOK, Due
    <3> QED
      BY <2>3, <2>4, <3>1, <3>3, Zenon DEF Owed
  <2> QED
    BY <2>4, <2>5, <2>6, Zenon DEF CountsOK, Due
<1>16. CASE UNCHANGED vars
  <2>1. UNCHANGED counts /\ Calm
    BY <1>16, Zenon DEF vars, Due
  <2> QED
    BY <1>1, <2>1, Zenon
<1> QED
  BY <1>5, <1>6, <1>7, <1>8, <1>9, <1>10, <1>11, <1>12, <1>13, <1>14, <1>15, <1>16, Zenon
     DEF Next, Pass, Interrupt, Syscall, Finish

(* A step that gives no one the agent's pid, lowers no one from Q0 and ends no *)
(* registration short of Q0 keeps the agent pinned.                          *)
LEMMA PinnedFrame ==
  ASSUME AgentPinned, agent_pid' = agent_pid,
         \A q \in Slots : pid'[q] = agent_pid /\ agent_pid # 0 => pid[q] = agent_pid,
         \A q \in Slots : queue_level[q] = 0 => queue_level'[q] = 0,
         \A d \in CPUs : pc[d] = "pin" /\ proc[d] \in Slots =>
            queue_level'[proc[d]] = 0 \/ (proc'[d] = proc[d] /\ pc'[d] = "pin")
  PROVE  AgentPinned'
<1> SUFFICES ASSUME NEW q \in Slots, agent_pid' # 0, pid'[q] = agent_pid'
             PROVE  queue_level'[q] = 0 \/ \E d \in CPUs : proc'[d] = q /\ pc'[d] = "pin"
  BY Zenon DEF AgentPinned
<1>1. queue_level[q] = 0 \/ \E d \in CPUs : proc[d] = q /\ pc[d] = "pin"
  BY DEF AgentPinned
<1>2. CASE queue_level[q] = 0
  BY <1>2, Zenon
<1>3. ASSUME NEW d \in CPUs, proc[d] = q, pc[d] = "pin"
      PROVE  queue_level'[q] = 0 \/ (proc'[d] = q /\ pc'[d] = "pin")
  BY <1>3, Zenon
<1> QED
  BY <1>1, <1>2, <1>3, Zenon

(* Every step keeps the agent alive, in Q0 and out of a demotion. *)
LEMMA AgentStep ==
  ASSUME TypeOK, CpuOK, ForkOK, RunsOnOneCpu, PidsOK, AgentOK, [Next]_vars
  PROVE  AgentOK'
<1> USE DEF Goto, quantum, emas, counts, firsts, params, clock, table, cpuv
<1> DEFINE Live == {"RUNNABLE", "RUNNING", "SLEEPING"}
           Pinning == \A d \in CPUs : pc[d] = "pin" => pc'[d] = "pin" /\ proc'[d] = proc[d]
           Demoting == \A d \in CPUs :
                         pc'[d] = "demst" => pc[d] = "demst" /\ proc'[d] = proc[d]
           Living == \A p \in Slots : state[p] \in Live => state'[p] \in Live
           Top == \A p \in Slots : queue_level[p] = 0 => queue_level'[p] = 0
<1>1. ASSUME UNCHANGED <<agent_pid, pid>>, Pinning, Demoting, Living, Top PROVE AgentOK'
  <2>1. AgentPinned'
    BY <1>1, PinnedFrame, Zenon DEF AgentOK
  <2>2. AgentAlive'
    BY <1>1, Zenon DEF AgentOK, AgentAlive
  <2>3. \A c \in CPUs : pc'[c] = "demst" /\ agent_pid' # 0 => pid'[proc'[c]] # agent_pid'
    BY <1>1, Zenon DEF AgentOK
  <2> QED
    BY <2>1, <2>2, <2>3, Zenon DEF AgentOK
<1>2. /\ pc \in [CPUs -> Labels] /\ proc \in [CPUs -> Slots \cup {NoProc}]
      /\ state \in [Slots -> States] /\ pid \in [Slots -> Nat] /\ nextpid \in Nat
      /\ queue_level \in [Slots -> {0, 1, 2}] /\ agent_pid \in Nat
  BY Zenon DEF TypeOK, TypeCpu, TypeTable, TypeQuantum, TypeParams
<1>3. ASSUME NEW c \in CPUs,
             \/ EnterPass(c) \/ BoostQuantum(c) \/ Halt(c) \/ Timer(c) \/ DecLoad(c)
             \/ DecStore(c) \/ TestExpiry(c) \/ EmaFast(c) \/ EmaSlow(c)
             \/ CheckQuantum(c) \/ RegisterTest(c) \/ \E u \in Updates : SetSchedParam(c, u)
      PROVE  AgentOK'
  <2>1. UNCHANGED <<agent_pid, pid, queue_level, state, proc>>
    BY <1>3, Zenon DEF EnterPass, BoostQuantum, BoostNext, Halt, Timer, DecLoad, DecStore, TestExpiry,
                EmaFast, EmaSlow, CheckQuantum, RegisterTest, SetSchedParam
  <2>2. \A d \in CPUs : /\ pc'[d] = "demst" => pc[d] = "demst"
                        /\ pc[d] = "pin" => pc'[d] = "pin"
    BY <1>2, <1>3, Zenon DEF EnterPass, BoostQuantum, BoostNext, Halt, Timer, DecLoad, DecStore, TestExpiry,
                EmaFast, EmaSlow, CheckQuantum, RegisterTest, SetSchedParam
  <2> QED
    BY <1>1, <2>1, <2>2, Zenon
<1>4. ASSUME NEW c \in CPUs, BoostLevel(c) PROVE AgentOK'
  <2>1. UNCHANGED <<agent_pid, pid, state>> /\ Pinning /\ Demoting /\ Top
    BY <1>2, <1>4, Zenon DEF BoostLevel, BoostNext
  <2> QED
    BY <1>1, <2>1, Zenon
<1>5. ASSUME NEW c \in CPUs, NEW p \in Slots, Dispatch(c, p) PROVE AgentOK'
  <2>1. UNCHANGED <<agent_pid, pid, queue_level>> /\ Pinning /\ Demoting /\ Living
    BY <1>2, <1>5, Zenon DEF Dispatch
  <2> QED
    BY <1>1, <2>1, Zenon
<1>6. ASSUME NEW c \in CPUs, TickWakeup(c) \/ Wakeup(c) PROVE AgentOK'
  <2>1. UNCHANGED <<agent_pid, pid, queue_level, proc>>
    BY <1>6, Zenon DEF TickWakeup, Wakeup
  <2>2. Pinning /\ Demoting
    BY <1>2, <1>6, <2>1, Zenon DEF TickWakeup, Wakeup
  <2>3. Living
    BY <1>6, Zenon DEF TickWakeup, Wakeup, Woken
  <2> QED
    BY <1>1, <2>1, <2>2, <2>3, Zenon
<1>7. ASSUME NEW c \in CPUs, Yield(c) \/ Sleep(c) PROVE AgentOK'
  <2>1. UNCHANGED <<agent_pid, pid, queue_level>> /\ Pinning /\ Demoting
    BY <1>2, <1>7, Zenon DEF Yield, Sleep, Deschedule
  <2>2. Living
    BY <1>2, <1>7, Zenon DEF Yield, Sleep, Deschedule
  <2> QED
    BY <1>1, <2>1, <2>2, Zenon
<1>8. ASSUME NEW c \in CPUs, ForkRun(c) PROVE AgentOK'
  <2>1. UNCHANGED <<agent_pid, pid, queue_level>> /\ Pinning /\ Demoting
    BY <1>2, <1>8, Zenon DEF ForkRun
  <2>2. reg[c] \in Slots /\ state[reg[c]] = "EMBRYO"
    BY <1>8, Zenon DEF ForkRun, ForkOK
  <2>3. Living
    BY <1>2, <1>8, <2>2, Zenon DEF ForkRun
  <2> QED
    BY <1>1, <2>1, <2>3, Zenon
<1>9. ASSUME NEW c \in CPUs, DemoteLoad(c) PROVE AgentOK'
  <2>1. /\ UNCHANGED <<agent_pid, pid, queue_level, state, proc>> /\ Pinning
        /\ \A d \in CPUs : d # c => pc'[d] = pc[d]
        /\ pc'[c] = "demst" => Demotable(proc[c])
    BY <1>2, <1>9, Zenon DEF DemoteLoad
  <2>2. AgentPinned' /\ AgentAlive'
    BY <2>1, ZenonT(60) DEF AgentOK, AgentPinned, AgentAlive
  <2> QED
    BY <2>1, <2>2, Zenon DEF AgentOK, Demotable
<1>10. ASSUME NEW c \in CPUs, DemoteStore(c) PROVE AgentOK'
  <2>1. /\ UNCHANGED <<agent_pid, pid, state, proc>> /\ Pinning /\ Demoting
        /\ \A q \in Slots : q # proc[c] => queue_level'[q] = queue_level[q]
    BY <1>2, <1>10, Zenon DEF DemoteStore
  <2>2. agent_pid # 0 => pid[proc[c]] # agent_pid
    BY <1>10, Zenon DEF DemoteStore, AgentOK
  <2>3. AgentPinned'
    BY <2>1, <2>2 DEF AgentOK, AgentPinned
  <2>4. AgentAlive'
    BY <2>1, Zenon DEF AgentOK, AgentAlive
  <2> QED
    BY <2>1, <2>3, <2>4, Zenon DEF AgentOK
<1>11. ASSUME NEW c \in CPUs, PinAgent(c) PROVE AgentOK'
  <2>1. /\ UNCHANGED <<agent_pid, pid, state, proc>> /\ Demoting /\ Top
        /\ \A d \in CPUs : d # c => pc'[d] = pc[d]
        /\ queue_level'[proc[c]] = 0
    BY <1>2, <1>11, RunningProc, Zenon DEF PinAgent, Running
  <2>2. AgentPinned'
    BY <2>1, PinnedFrame, Zenon DEF AgentOK
  <2>3. AgentAlive'
    BY <2>1, Zenon DEF AgentOK, AgentAlive
  <2> QED
    BY <2>1, <2>2, <2>3, Zenon DEF AgentOK
<1>12. ASSUME NEW c \in CPUs, NEW p \in Slots, AllocProc(c, p) PROVE AgentOK'
  <2>1. /\ UNCHANGED <<agent_pid, proc>> /\ Pinning /\ Demoting /\ Living /\ Top
        /\ \A q \in Slots : q # p => pid'[q] = pid[q]
        /\ pid'[p] = nextpid /\ state[p] = "UNUSED"
    BY <1>2, <1>12, Zenon DEF AllocProc
  <2>2. agent_pid # 0 => agent_pid < nextpid
    BY Zenon DEF AgentOK, AgentAlive, PidsOK
  <2>6. agent_pid # 0 => agent_pid # nextpid
    BY <1>2, <2>2
  <2>7. (\A q \in Slots : q # p => pid'[q] = pid[q]) /\ pid'[p] = nextpid /\ agent_pid' = agent_pid
    BY <2>1, Zenon
  <2>3. AgentPinned'
    <3>1. ASSUME NEW q \in Slots, pid'[q] = agent_pid, agent_pid # 0 PROVE pid[q] = agent_pid
      <4>1. q # p
        BY <3>1, <2>6, <2>7, Zenon
      <4> QED
        BY <3>1, <4>1, <2>7, Zenon
    <3> QED
      BY <2>1, <3>1, PinnedFrame, Zenon DEF AgentOK
  <2>4. AgentAlive'
    BY <2>1, <2>2, Zenon DEF AgentOK, AgentAlive
  <2>5. ASSUME NEW d \in CPUs, pc'[d] = "demst", agent_pid' # 0
        PROVE  pid'[proc'[d]] # agent_pid'
    <3>1. pc[d] = "demst" /\ proc'[d] = proc[d]
      BY <2>1, <2>5, Zenon
    <3>2. proc[d] \in Slots /\ pid[proc[d]] # agent_pid
      BY <2>1, <2>5, <3>1, RunningProc, Zenon DEF AgentOK, Running
    <3>3. CASE proc[d] = p
      BY <2>5, <2>6, <2>7, <3>1, <3>3, Zenon
    <3>4. CASE proc[d] # p
      BY <2>7, <3>1, <3>2, <3>4, Zenon
    <3> QED
      BY <3>3, <3>4, Zenon
  <2> QED
    BY <2>3, <2>4, <2>5, Zenon DEF AgentOK
<1>13. ASSUME NEW c \in CPUs, NEW p \in Slots, Reap(c, p) PROVE AgentOK'
  <2>1. /\ UNCHANGED <<agent_pid, queue_level, pc, proc>>
        /\ \A q \in Slots : q # p => pid'[q] = pid[q] /\ state'[q] = state[q]
        /\ pid'[p] = 0 /\ state[p] = "ZOMBIE"
    BY <1>2, <1>13, Zenon DEF Reap
  <2>2. AgentPinned'
    <3>1. \A q \in Slots : pid'[q] = agent_pid /\ agent_pid # 0 => pid[q] = agent_pid
      BY <2>1, Zenon
    <3> QED
      BY <2>1, <3>1, PinnedFrame, Zenon DEF AgentOK
  <2>3. AgentAlive'
    BY <2>1, Zenon DEF AgentOK, AgentAlive
  <2>4. ASSUME NEW d \in CPUs, pc'[d] = "demst", agent_pid' # 0
        PROVE  pid'[proc'[d]] # agent_pid'
    <3>1. proc[d] \in Slots /\ pid[proc[d]] # agent_pid
      BY <2>1, <2>4, RunningProc, Zenon DEF AgentOK, Running
    <3> QED
      BY <2>1, <2>4, <3>1, Zenon
  <2> QED
    BY <2>2, <2>3, <2>4, Zenon DEF AgentOK
<1>14. ASSUME NEW c \in CPUs, RegisterSet(c) PROVE AgentOK'
  <2> DEFINE p == proc[c]
  <2>1. CASE agent_pid # 0
    <3>1. UNCHANGED <<agent_pid, pid, queue_level, state, proc>> /\ Pinning /\ Demoting
      BY <1>2, <1>14, <2>1, Zenon DEF RegisterSet
    <3> QED
      BY <1>1, <3>1, Zenon
  <2>2. CASE agent_pid = 0
    <3>1. p \in Slots /\ state[p] = "RUNNING" /\ \A d \in CPUs : proc[d] = p => d = c
      BY <1>14, RunningState, Zenon DEF RegisterSet, Running
    <3>2. /\ agent_pid' = pid[p] /\ pc' = [pc EXCEPT ![c] = "pin"]
          /\ UNCHANGED <<state, pid, proc, queue_level>>
      BY <1>14, <2>2, Zenon DEF RegisterSet
    <3>3. pid[p] # 0 /\ \A q \in Slots : pid[q] = pid[p] => q = p
      BY <3>1, Zenon DEF PidsOK
    <3>4. AgentPinned'
      BY <1>2, <3>1, <3>2, <3>3, Zenon DEF AgentPinned
    <3>5. AgentAlive'
      BY <3>1, <3>2, Zenon DEF AgentAlive
    <3>6. ASSUME NEW d \in CPUs, pc'[d] = "demst" PROVE pid'[proc'[d]] # agent_pid'
      <4>1. d # c /\ pc[d] = "demst"
        BY <1>2, <3>2, <3>6, Zenon
      <4>2. proc[d] \in Slots
        BY <4>1, RunningProc, Zenon DEF Running
      <4> QED
        BY <3>1, <3>2, <3>3, <4>1, <4>2, Zenon
    <3> QED
      BY <3>4, <3>5, <3>6, Zenon DEF AgentOK
  <2> QED
    BY <2>1, <2>2, Zenon
<1>15. ASSUME NEW c \in CPUs, Exit(c) PROVE AgentOK'
  <2>1. /\ UNCHANGED <<pid, queue_level>> /\ Pinning /\ Demoting
        /\ \A q \in Slots : q # proc[c] => state'[q] = state[q]
    BY <1>2, <1>15, Zenon DEF Exit, Deschedule
  <2>2. agent_pid' = 0 \/ (agent_pid' = agent_pid /\ agent_pid # pid[proc[c]])
    BY <1>15, Zenon DEF Exit, ClearedAgent
  <2>3. AgentPinned'
    <3>1. CASE agent_pid' = 0
      BY <3>1, Zenon DEF AgentPinned
    <3>2. CASE agent_pid' = agent_pid
      BY <2>1, <3>2, PinnedFrame, Zenon DEF AgentOK
    <3> QED
      BY <2>2, <3>1, <3>2, Zenon
  <2>4. AgentAlive'
    BY <2>1, <2>2, Zenon DEF AgentOK, AgentAlive
  <2> QED
    BY <2>1, <2>2, <2>3, <2>4, Zenon DEF AgentOK
<1>16. CASE UNCHANGED vars
  <2>1. UNCHANGED <<agent_pid, pid, queue_level, state, proc, pc>>
    BY <1>16, Zenon DEF vars
  <2> QED
    BY <1>1, <2>1, Zenon
<1> QED
  BY <1>3, <1>4, <1>5, <1>6, <1>7, <1>8, <1>9, <1>10, <1>11, <1>12, <1>13, <1>14,
     <1>15, <1>16, Zenon DEF Next, Pass, Interrupt, Syscall, Finish

(* The state that pinit() and userinit() leave satisfies the invariant. *)
LEMMA InitIInv == Init => IInv
<1> SUFFICES ASSUME Init PROVE IInv
    BY Zenon
<1> USE SizeAssumption, NoProcFact DEF Init, InitProc
<1>1. 0 \in Slots /\ 0 \in Quanta /\ 1 \in Quanta /\ 0 \in Estimates /\ 100 \in Estimates
  BY SMTT(60) DEF Slots, Quanta, Estimates
<1>2. TypeTable /\ TypeQuantum /\ TypeStats
  BY SMTT(60), <1>1, StateFacts DEF TypeTable, TypeQuantum, TypeStats
<1>3. TypeParams /\ TypeClock /\ TypeCpu
  BY SMTT(60), <1>1, LabelFacts, BootAssumption DEF TypeParams, TypeClock, TypeCpu
<1>4. CpuOK /\ ForkOK /\ QuantumOK
  BY Zenon DEF CpuOK, ForkOK, QuantumOK, InPass, Running
<1>5. RunsOnOneCpu /\ ParamsLegal
  BY BootAssumption, Zenon DEF RunsOnOneCpu, ParamsLegal
<1>6. PidsOK
  BY SMTT(60), <1>1 DEF PidsOK
<1>7. AgentOK /\ CountsOK
  BY SMTT(60) DEF AgentOK, AgentPinned, AgentAlive, CountsOK
<1> QED
  BY <1>2, <1>3, <1>4, <1>5, <1>6, <1>7, Zenon DEF IInv, TypeOK

(* IInv is an invariant of the scheduler. *)
THEOREM Invariance == Spec => []IInv
<1>1. IInv /\ [Next]_vars => IInv'
  BY TypeStep, CpuStep, ForkStep, OneCpuStep, ParamsStep, QuantumStep, PidsStep,
     AgentStep, CountsStep, Zenon DEF IInv
<1> QED
  BY InitIInv, <1>1, PTL DEF Spec

(* Every field of the process table, the parameters and the CPUs keeps its   *)
(* type: levels in the three queues, estimates in 0..5000, quanta in 0..40.  *)
THEOREM Typing == Spec => []TypeOK
<1>1. IInv => TypeOK
  BY Zenon DEF IInv
<1> QED
  BY Invariance, <1>1, PTL

(* A process is RUNNING exactly while one CPU, and only one, has it as       *)
(* cpu->proc: scheduler() and sched() never dispatch it twice or lose it.    *)
THEOREM OneCpu == Spec => []RunsOnOneCpu
<1>1. IInv => RunsOnOneCpu
  BY Zenon DEF IInv
<1> QED
  BY Invariance, <1>1, PTL

(* schedp and every snapshot that scheduler() takes of it pass the checks    *)
(* of sys_setschedparam(), whatever updates are submitted.                   *)
THEOREM LegalParams == Spec => []ParamsLegal
<1>1. IInv => ParamsLegal
  BY Zenon DEF IInv
<1> QED
  BY Invariance, <1>1, PTL

(* The registered agent is in Q0, except between sys_register_agent()'s two  *)
(* critical sections: neither a racing timer nor a boost demotes it.         *)
THEOREM AgentInQ0 == Spec => []AgentPinned
<1>1. IInv => AgentPinned
  BY Zenon DEF IInv, AgentOK
<1> QED
  BY Invariance, <1>1, PTL

(* agent_pid names a process that has not exited, or is 0: exit() clears it  *)
(* in time, and allocproc() never reuses it.                                 *)
THEOREM AgentIsAlive == Spec => []AgentAlive
<1>1. IInv => AgentAlive
  BY Zenon DEF IInv, AgentOK
<1> QED
  BY Invariance, <1>1, PTL

(* A process in user mode has ticks left, however the unlocked decrement of  *)
(* trap() interleaves with boosts.                                           *)
THEOREM QuantumInUserMode == Spec => []QuantumLeft
<1>1. IInv => QuantumLeft
  BY NoProcFact DEF IInv, QuantumOK, CpuOK, Running, QuantumLeft
<1> QED
  BY Invariance, <1>1, PTL

(* yield() only ever follows a preemption of the same process.               *)
THEOREM YieldsBounded == Spec => []YieldsArePreemptions
<1>1. IInv => YieldsArePreemptions
  BY Zenon DEF IInv, CountsOK, YieldsArePreemptions
<1> QED
  BY Invariance, <1>1, PTL
=============================================================================
