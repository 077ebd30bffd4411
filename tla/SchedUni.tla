----------------------------- MODULE SchedUni ------------------------------
(***************************************************************************)
(* The scheduler on one CPU, for what must eventually happen.  With one    *)
(* CPU a scheduler pass and a timer interrupt run undisturbed, so each is  *)
(* one step.  Time is kept as the two differences the code computes from   *)
(* ticks: since the last boost, and since the running process was          *)
(* dispatched; the scheduler loop reaches its next pass within a tick.     *)
(* The processes of the table are fixed, and so are the parameters: those  *)
(* of one of the Setups.                                                   *)
(***************************************************************************)
EXTENDS SchedOps

CONSTANTS
  NPROC,     \* processes in the table
  Setups     \* sets of: schedp, the burst estimates that processes may start from,
             \* the processes that sometimes sleep, where wait_ticks saturates (a bound)

Slots == 0 .. NPROC - 1
NoProc == -1

ASSUME UniAssumption ==
  /\ NPROC \in Nat \ {0}
  /\ \A s \in Setups : /\ Legal(s.par) /\ s.maxwait \in Nat
                       /\ s.blockers \subseteq Slots /\ s.histories \subseteq 0..5000

VARIABLES state, queue_level, wait_ticks, burst_ema_fast,  \* per process
          proc, ticks_remaining, burst,  \* of the running process
          since_boost, rr_next,
          setup
vars == <<setup, state, queue_level, wait_ticks, burst_ema_fast, proc, ticks_remaining,
          burst, since_boost, rr_next>>

Par == setup.par
Runnable == {p \in Slots : state[p] = "RUNNABLE"}
Inc(n) == IF n < setup.maxwait THEN n + 1 ELSE n
Later(n) == IF n < Par.boost_interval THEN n + 1 ELSE n

(* Just after a boost, with the estimates of earlier bursts. *)
Init ==
  /\ state = [p \in Slots |-> "RUNNABLE"]
  /\ queue_level = [p \in Slots |-> 0]
  /\ wait_ticks = [p \in Slots |-> 0]
  /\ setup \in Setups /\ burst_ema_fast \in [Slots -> setup.histories]
  /\ proc = NoProc /\ ticks_remaining = 0 /\ burst = 0
  /\ since_boost = 0 /\ rr_next = 0

(* One pass of scheduler(): boost if due, age, select, dispatch or halt. *)
BoostDue == since_boost >= Par.boost_interval
LevelOfRunnable == [p \in Slots |-> IF BoostDue /\ p \in Runnable THEN 0 ELSE queue_level[p]]
Level == IF BoostDue THEN [p \in Slots |-> 0] ELSE queue_level
Waited(p) == IF BoostDue THEN 0 ELSE wait_ticks[p]
Aged == [p \in Slots |-> IF p \in Runnable THEN Inc(Waited(p)) ELSE Waited(p)]

IsBest(p) ==
  /\ p \in Runnable
  /\ \A r \in Runnable :
       IF Par.rr_mode = 1 THEN RrBefore(p, r, rr_next, NPROC)
       ELSE MlfqBefore(p, r, Level,
                       [q \in Slots |-> Score(burst_ema_fast[q], Aged[q], Par)])

Pass ==
  /\ proc = NoProc
  /\ queue_level' = Level
  /\ since_boost' = IF BoostDue THEN 0 ELSE since_boost
  /\ \/ \E p \in Slots :
          /\ IsBest(p)
          /\ wait_ticks' = [Aged EXCEPT ![p] = 0]
          /\ rr_next' = IF Par.rr_mode = 1 THEN (p + 1) % NPROC ELSE rr_next
          /\ ticks_remaining' = Quantum(Par, Level[p])
          /\ burst' = 0
          /\ state' = [state EXCEPT ![p] = "RUNNING"] /\ proc' = p
     \/ /\ Runnable = {}
        /\ wait_ticks' = Aged
        /\ UNCHANGED <<state, proc, ticks_remaining, burst, rr_next>>
  /\ UNCHANGED burst_ema_fast

(* A timer interrupt while the CPU halts, ... *)
TickIdle ==
  /\ proc = NoProc /\ Runnable = {}
  /\ since_boost' = Later(since_boost)
  /\ UNCHANGED <<state, queue_level, wait_ticks, burst_ema_fast, proc,
                 ticks_remaining, burst, rr_next>>

(* ... within the quantum of the running process, ... *)
TickRun ==
  /\ proc # NoProc /\ ticks_remaining > 1
  /\ since_boost' = Later(since_boost)
  /\ burst' = burst + 1
  /\ ticks_remaining' = ticks_remaining - 1
  /\ UNCHANGED <<state, queue_level, wait_ticks, burst_ema_fast, proc, rr_next>>

(* ... or at its end: estimate, demote, yield. *)
Demoted(level) == IF level < 2 THEN level + 1 ELSE level

TickExpire ==
  /\ proc # NoProc /\ ticks_remaining <= 1
  /\ since_boost' = Later(since_boost)
  /\ burst_ema_fast' =
       [burst_ema_fast EXCEPT ![proc] = Ema(@, Par.ema_alpha_fast, burst + 1)]
  /\ queue_level' = [queue_level EXCEPT ![proc] = Demoted(@)]
  /\ state' = [state EXCEPT ![proc] = "RUNNABLE"]
  /\ proc' = NoProc /\ burst' = 0 /\ ticks_remaining' = 0
  /\ UNCHANGED <<wait_ticks, rr_next>>

(* sleep() of the running process, wakeup() by anyone. *)
Sleep ==
  /\ proc \in setup.blockers
  /\ state' = [state EXCEPT ![proc] = "SLEEPING"]
  /\ proc' = NoProc /\ burst' = 0 /\ ticks_remaining' = 0
  /\ UNCHANGED <<queue_level, wait_ticks, burst_ema_fast, since_boost, rr_next>>

Wakeup(p) ==
  /\ state[p] = "SLEEPING"
  /\ state' = [state EXCEPT ![p] = "RUNNABLE"]
  /\ UNCHANGED <<queue_level, wait_ticks, burst_ema_fast, proc, ticks_remaining,
                 burst, since_boost, rr_next>>

Tick == TickIdle \/ TickRun \/ TickExpire
Next == UNCHANGED setup /\ (Pass \/ Tick \/ Sleep \/ \E p \in Slots : Wakeup(p))

(* The scheduler loop runs, and time passes however often processes sleep and *)
(* wake in between; what they do is up to them.                               *)
Spec == Init /\ [][Next]_vars /\ WF_vars(UNCHANGED setup /\ Pass) /\ SF_vars(UNCHANGED setup /\ Tick)
------------------------------------------------------------------------------
(* "processes that keep losing the SJF contest accumulate wait_ticks and     *)
(* eventually win via the aging term" (proc.c): RUNNABLE leads to RUNNING.   *)
NoStarvation ==
  \A p \in Slots : (state[p] = "RUNNABLE") ~> (state[p] = "RUNNING")

(* "Every boost_interval ticks, all processes are promoted back to Q0"       *)
(* (PROJECT_BRIEF.md): no process stays in a lower queue for ever, even      *)
(* asleep, and even if it never runs again.                                  *)
BoostReturns == \A p \in Slots : (queue_level[p] > 0) ~> (queue_level[p] = 0)
=============================================================================
