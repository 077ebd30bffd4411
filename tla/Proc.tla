-------------------------------- MODULE Proc --------------------------------
(***************************************************************************)
(* The life of a process: fork(), exit(), wait(), sleep(), wakeup(),       *)
(* kill() and the delivery of a pending signal (proc.c, sysproc.c,         *)
(* syscall.c, trap.c).  Each step is what a process does under ptable.lock *)
(* or between two acquisitions of it.  RUNNABLE stands for RUNNING too:    *)
(* module Sched says which of the two.                                     *)
(***************************************************************************)
EXTENDS Integers, FiniteSets

CONSTANTS
  NPROC,
  Sleepers, \* bound: the slots whose programs call sleep()
  Wild,     \* bound: the slots whose programs fault and call kill(), signal(), alarm()
  MaxPid,   \* bound: pids handed out
  MaxSent   \* bound: calls of kill() and alarm()

ASSUME ProcAssumption == NPROC \in Nat \ {0}

Slots == 1..NPROC
NoProc == 0
Initproc == 1
NoChan == 0
Ticks == NPROC + 1  \* the channel &ticks; a process is its own channel

VARIABLES
  state, pid, parent, chan, killed, signal_pending,  \* struct proc
  alarmed,      \* alarm_ticks > 0
  ignores,      \* sig_disp[signum] = SIG_IGN for the signal that is sent
  nextpid,
  pc,           \* where a process is: in user mode, in a call, returning
  np,           \* fork(): the slot of the child
  due,          \* sys_sleep(): ticks - ticks0 >= n
  sent, panicked

sigs == <<signal_pending, alarmed, ignores>>
loop == <<np, due>>
bounds == <<sent, panicked>>
vars == <<state, pid, parent, chan, killed, sigs, nextpid, pc, loop, bounds>>

Goto(p, l) == pc' = [pc EXCEPT ![p] = l]
At(p, l) == ~panicked /\ state[p] = "RUNNABLE" /\ pc[p] = l
Set(p, s) == state' = [state EXCEPT ![p] = s]
SendsOne == sent < MaxSent /\ sent' = sent + 1
Children(p) == {q \in Slots : parent[q] = p}

(* wakeup1(c): the states once the sleepers on c are RUNNABLE. *)
Wakeup1(st, c) ==
  [p \in Slots |-> IF st[p] = "SLEEPING" /\ chan[p] = c THEN "RUNNABLE" ELSE st[p]]

(* A signal makes a sleeper RUNNABLE, whatever it sleeps for. *)
Roused(st, A) ==
  [p \in Slots |-> IF p \in A /\ st[p] = "SLEEPING" THEN "RUNNABLE" ELSE st[p]]

(* userinit() *)
Init ==
  /\ state = [p \in Slots |-> IF p = Initproc THEN "RUNNABLE" ELSE "UNUSED"]
  /\ pid = [p \in Slots |-> IF p = Initproc THEN 1 ELSE 0] /\ nextpid = 2
  /\ parent = [p \in Slots |-> NoProc] /\ chan = [p \in Slots |-> NoChan]
  /\ killed = [p \in Slots |-> FALSE] /\ signal_pending = [p \in Slots |-> FALSE]
  /\ alarmed = [p \in Slots |-> FALSE] /\ ignores = [p \in Slots |-> FALSE]
  /\ pc = [p \in Slots |-> "user"] /\ np = [p \in Slots |-> NoProc]
  /\ due = [p \in Slots |-> FALSE] /\ sent = 0 /\ panicked = FALSE

(* allocproc(): the first UNUSED slot, or fork() fails. *)
Unused == {q \in Slots : state[q] = "UNUSED"}
PidAfter(n) == n + 1
AllocProc(p) ==
  /\ At(p, "user")
  /\ \/ /\ Unused = {} /\ Goto(p, "ret")
        /\ UNCHANGED <<state, pid, nextpid, sigs, np>>
     \/ \E q \in Unused :
          /\ nextpid <= MaxPid /\ \A r \in Unused : q <= r
          /\ Set(q, "EMBRYO") /\ pid' = [pid EXCEPT ![q] = nextpid] /\ nextpid' = PidAfter(nextpid)
          /\ signal_pending' = [signal_pending EXCEPT ![q] = FALSE]
          /\ ignores' = [ignores EXCEPT ![q] = FALSE]
          /\ alarmed' = [alarmed EXCEPT ![q] = FALSE]
          /\ np' = [np EXCEPT ![p] = q] /\ Goto(p, "fork")
  /\ UNCHANGED <<parent, chan, killed, due, bounds>>

(* fork(): kalloc() panics when memory runs out; else the child may run.  The *)
(* two stores, of parent and of RUNNABLE, take no lock; nobody but the       *)
(* forking process looks for its own children, so they are one step.         *)
NoMemory(p) ==
  /\ At(p, "fork") /\ panicked' = TRUE
  /\ UNCHANGED <<state, pid, parent, chan, killed, sigs, nextpid, pc, loop, sent>>
ForkRun(p) ==
  /\ At(p, "fork")
  /\ parent' = [parent EXCEPT ![np[p]] = p] /\ Set(np[p], "RUNNABLE")
  /\ np' = [np EXCEPT ![p] = NoProc] /\ pc' = [pc EXCEPT ![p] = "ret", ![np[p]] = "user"]
  /\ UNCHANGED <<pid, chan, killed, sigs, nextpid, due, bounds>>

(* exit(): init must not; files are closed before ptable.lock is taken. *)
Exit(p) ==
  /\ IF p = Initproc THEN panicked' = TRUE /\ UNCHANGED pc
     ELSE Goto(p, "exit") /\ UNCHANGED panicked
SysExit(p) ==
  /\ At(p, "user") /\ p # Initproc /\ Exit(p)
  /\ UNCHANGED <<state, pid, parent, chan, killed, sigs, nextpid, loop, sent>>

(* Its children go to init, which is woken if one of them is a ZOMBIE. *)
Reparent(p) == [q \in Slots |-> IF parent[q] = p THEN Initproc ELSE parent[q]]
TellNobody(p) == FALSE
TellInit(p) == \E q \in Children(p) : state[q] = "ZOMBIE"
BecomeZombie(p) ==
  LET told == Wakeup1(state, parent[p])
  IN /\ At(p, "exit")
     /\ parent' = Reparent(p)
     /\ state' = [(IF TellInit(p) THEN Wakeup1(told, Initproc) ELSE told)
                    EXCEPT ![p] = "ZOMBIE"]
     /\ UNCHANGED <<pid, chan, killed, sigs, nextpid, pc, loop, bounds>>

(* wait(): reap the first ZOMBIE child, fail without children, or sleep. *)
Sleep(p, c) == Set(p, "SLEEPING") /\ chan' = [chan EXCEPT ![p] = c]
Zombies(p) == {q \in Children(p) : state[q] = "ZOMBIE"}
Wait(p) ==
  /\ At(p, "user") \/ At(p, "wait")
  /\ IF Zombies(p) # {}
     THEN \E q \in Zombies(p) :
            /\ \A r \in Zombies(p) : q <= r
            /\ Set(q, "UNUSED") /\ pid' = [pid EXCEPT ![q] = 0]
            /\ parent' = [parent EXCEPT ![q] = NoProc]
            /\ killed' = [killed EXCEPT ![q] = FALSE]
            /\ Goto(p, "ret") /\ chan' = [chan EXCEPT ![p] = NoChan]
     ELSE /\ IF Children(p) = {} \/ killed[p]
             THEN Goto(p, "ret") /\ chan' = [chan EXCEPT ![p] = NoChan] /\ UNCHANGED state
             ELSE Goto(p, "wait") /\ Sleep(p, p)
          /\ UNCHANGED <<pid, parent, killed>>
  /\ UNCHANGED <<sigs, nextpid, loop, bounds>>

(* sys_sleep(): sleep again unless the time has come. *)
SysSleep(p) ==
  /\ At(p, "user") /\ Goto(p, "sleep") /\ Sleep(p, Ticks)
  /\ UNCHANGED <<pid, parent, killed, sigs, nextpid, loop, bounds>>
SleepLoopUntilKilled(p) ==
  /\ At(p, "sleep") /\ ~killed[p] /\ Sleep(p, Ticks)
  /\ UNCHANGED <<pid, parent, killed, sigs, nextpid, pc, loop, bounds>>
SleepLoop(p) ==
  /\ At(p, "sleep")
  /\ IF due[p] \/ killed[p]
     THEN /\ Goto(p, "ret") /\ chan' = [chan EXCEPT ![p] = NoChan]
          /\ due' = [due EXCEPT ![p] = FALSE] /\ UNCHANGED state
     ELSE Sleep(p, Ticks) /\ UNCHANGED <<pc, due>>
  /\ UNCHANGED <<pid, parent, killed, sigs, nextpid, np, bounds>>

(* The timer interrupt: wakeup(&ticks), then check_alarms().  The countdown  *)
(* is abstracted: an alarm goes off at some tick.                            *)
Tick ==
  /\ ~panicked /\ \E p \in Slots : alarmed[p] \/ pc[p] = "sleep"
  /\ due' = [p \in Slots |-> due[p] \/ pc[p] = "sleep"]
  /\ \E A \in SUBSET {p \in Slots : alarmed[p]} :
       /\ alarmed' = [p \in Slots |-> alarmed[p] /\ p \notin A]
       /\ signal_pending' = [p \in Slots |-> signal_pending[p] \/ p \in A]
       /\ state' = Roused(Wakeup1(state, Ticks), A)
  /\ UNCHANGED <<pid, parent, chan, killed, ignores, nextpid, pc, np, bounds>>
SysAlarm(p, b) ==
  /\ At(p, "user") /\ SendsOne /\ alarmed' = [alarmed EXCEPT ![p] = b] /\ Goto(p, "ret")
  /\ UNCHANGED <<state, pid, parent, chan, killed, signal_pending, ignores, nextpid, loop, panicked>>

(* kill(): the first slot with that pid, whatever its state. *)
Kill(p, n) ==
  LET S == {q \in Slots : pid[q] = n}
  IN /\ At(p, "user") /\ SendsOne
     /\ \/ S = {} /\ UNCHANGED <<state, signal_pending>>
        \/ \E q \in S :
             /\ \A r \in S : q <= r
             /\ signal_pending' = [signal_pending EXCEPT ![q] = TRUE]
             /\ state' = Roused(state, {q})
     /\ Goto(p, "ret")
     /\ UNCHANGED <<pid, parent, chan, killed, alarmed, ignores, nextpid, loop, panicked>>

(* signal(): ignore the signal or take the default again. *)
Signal(p, b) ==
  /\ At(p, "user") /\ ignores' = [ignores EXCEPT ![p] = b] /\ Goto(p, "ret")
  /\ UNCHANGED <<state, pid, parent, chan, killed, signal_pending, alarmed, nextpid, loop, bounds>>

(* An interrupt in user mode; a fault, which kills. *)
Interrupt(p) ==
  /\ At(p, "user") /\ signal_pending[p] /\ Goto(p, "ret")
  /\ UNCHANGED <<state, pid, parent, chan, killed, sigs, nextpid, loop, bounds>>
Fault(p) ==
  /\ At(p, "user") /\ killed' = [killed EXCEPT ![p] = TRUE] /\ Exit(p)
  /\ UNCHANGED <<state, pid, parent, chan, sigs, nextpid, loop, sent>>

(* check_signals() on the way back to user mode. *)
CheckSignals(p) ==
  /\ At(p, "ret")
  /\ IF killed[p] \/ (signal_pending[p] /\ ~ignores[p])
     THEN Exit(p) /\ UNCHANGED signal_pending
     ELSE /\ Goto(p, "user") /\ UNCHANGED panicked
          /\ signal_pending' = [signal_pending EXCEPT ![p] = FALSE]
  /\ UNCHANGED <<state, pid, parent, chan, killed, alarmed, ignores, nextpid, loop, sent>>

(* What the kernel does for a process that is inside a call, and what the     *)
(* program may ask for.                                                       *)
Kernel(p) ==
  \/ NoMemory(p) \/ ForkRun(p) \/ BecomeZombie(p) \/ SleepLoop(p) \/ CheckSignals(p)
  \/ pc[p] = "wait" /\ Wait(p)
Program(p) ==
  \/ AllocProc(p) \/ SysExit(p) \/ Interrupt(p)
  \/ pc[p] = "user" /\ Wait(p)
  \/ p \in Sleepers /\ SysSleep(p)
  \/ p \in Wild /\ \/ Fault(p) \/ \E n \in 1..MaxPid : Kill(p, n)
                   \/ \E b \in BOOLEAN : Signal(p, b) \/ SysAlarm(p, b)
Halted == panicked /\ UNCHANGED vars  \* panic() loops for ever
Next == (\E p \in Slots : Kernel(p) \/ Program(p)) \/ Tick \/ Halted

Spec == Init /\ [][Next]_vars

(* The kernel gets on with every call, and init goes on calling wait().      *)
Fairness ==
  /\ \A p \in Slots : WF_vars(Kernel(p))
  /\ WF_vars(Tick) /\ SF_vars(Wait(Initproc))
FairSpec == Spec /\ Fairness
------------------------------------------------------------------------------
States == {"UNUSED", "EMBRYO", "SLEEPING", "RUNNABLE", "ZOMBIE"}
Labels == {"user", "ret", "fork", "exit", "wait", "sleep"}
Live == {p \in Slots : state[p] \in {"SLEEPING", "RUNNABLE"}}

(* Types; and a process that sleeps has a channel to be woken by. *)
TypeOK ==
  /\ state \in [Slots -> States] /\ pid \in [Slots -> Nat] /\ nextpid \in Nat \ {0}
  /\ parent \in [Slots -> Slots \cup {NoProc}]
  /\ chan \in [Slots -> NoChan..Ticks]
  /\ killed \in [Slots -> BOOLEAN] /\ signal_pending \in [Slots -> BOOLEAN]
  /\ alarmed \in [Slots -> BOOLEAN] /\ ignores \in [Slots -> BOOLEAN]
  /\ due \in [Slots -> BOOLEAN]
  /\ pc \in [Slots -> Labels] /\ np \in [Slots -> Slots \cup {NoProc}]
  /\ sent \in Nat /\ panicked \in BOOLEAN
  /\ \A p \in Slots : state[p] = "SLEEPING" => chan[p] # NoChan

(* Somebody can always reap: the parent of every process that runs, sleeps   *)
(* or is a ZOMBIE is itself alive, also while exit() and fork() interleave.  *)
HasReaper ==
  \A p \in Slots \ {Initproc} :
    state[p] \in {"SLEEPING", "RUNNABLE", "ZOMBIE"} => parent[p] \in Live

(* exit() is never missed: no process sleeps in wait() while it has a ZOMBIE *)
(* child, or no child at all.                                                *)
NoMissedExit ==
  \A p \in Slots : state[p] = "SLEEPING" /\ pc[p] = "wait" =>
    Zombies(p) = {} /\ Children(p) # {}

(* A slot being filled belongs to one fork(): no slot is taken twice, and    *)
(* none is lost for ever as an EMBRYO.                                       *)
EmbryosOwned ==
  \A q \in Slots : state[q] = "EMBRYO" =>
    \E p \in Live : np[p] = q /\ pc[p] = "fork" /\ \A r \in Slots \ {p} : np[r] # q

(* kill() reaches one process: the pids of processes are distinct.           *)
PidsUnique ==
  \A p, q \in Slots : pid[p] = pid[q] /\ pid[p] # 0 => p = q

(* "Pass abandoned children to init" (proc.c): init reaps what was passed to *)
(* it, unless the kernel panics.                                             *)
OrphansReaped ==
  \A p \in Slots : (state[p] = "ZOMBIE" /\ parent[p] = Initproc)
                     ~> (state[p] = "UNUSED" \/ panicked)
=============================================================================
