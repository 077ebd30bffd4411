------------------------------- MODULE Agent -------------------------------
(***************************************************************************)
(* sagent.c: the user-space agent that observes the scheduler through      *)
(* getschedstats(), decides by six rules and actuates through              *)
(* setschedparam(), together with the part of the kernel it talks to:      *)
(* schedp and its starvation alert.  Observing and deciding are one step   *)
(* (between them the agent touches only its own memory); other CPUs may    *)
(* raise the alert at any time.                                            *)
(***************************************************************************)
EXTENDS SchedOps, Sequences, FiniteSets

CONSTANTS
  Stats,        \* the schedstat tables that getschedstats() may return
  UnsetRr,      \* what upd.rr_mode, never assigned, may hold
  EPOCH_TICKS,  \* normal poll interval: 50
  ALERT_SLEEP   \* poll interval after an alert: 10

(* The fields of struct schedstat that the agent reads. *)
Stat == [state: {"EMBRYO", "SLEEPING", "RUNNABLE", "RUNNING", "ZOMBIE"}, queue_level: 0..2,
         wait_ticks: Nat, yield_count: Nat, preempt_count: Nat,
         burst_ema_fast: Nat, burst_ema_slow: Nat, burst_variance: Nat]

(* What the kernel guarantees of a table (see Sched): the agent itself is in  *)
(* it, and yields are preemptions.                                            *)
ASSUME StatsAssumption ==
  \A st \in Stats : /\ st \in Seq(Stat) /\ st # <<>>
                    /\ \A i \in DOMAIN st : st[i].yield_count <= st[i].preempt_count
ASSUME AgentAssumption ==
  /\ UnsetRr \subseteq Int
  /\ EPOCH_TICKS \in Nat /\ ALERT_SLEEP \in Nat
  /\ BOOST_MIN = 10

VARIABLES
  cur_q0, cur_q1, cur_q2, cur_boost, cur_af, cur_as, cur_aging,
  cnt,        \* epochs a rule's condition has held, saturating at 2
  alert,      \* the agent's copy of sched_alert
  pc,         \* "observe", "actuate" or "sleep"
  timer,      \* ticks left to sleep
  schedp, sched_alert   \* the kernel's parameters and alert

cur == <<cur_q0, cur_q1, cur_q2, cur_boost, cur_af, cur_as, cur_aging>>
kernel == <<schedp, sched_alert>>
vars == <<cur, cnt, alert, pc, timer, kernel>>

------------------------------------------------------------------------------
(* The signals, from a table of statistics. *)
Waiting(st) == {i \in DOMAIN st : st[i].state = "RUNNABLE"}
Abs(n) == IF n < 0 THEN -n ELSE n

(* The sum of the f[i], as the size of a set with f[i] elements for each i. *)
Units(f) == UNION {{i} \X (1..f[i]) : i \in DOMAIN f}
Total(f) == Cardinality(Units(f))
Yields(st) == Total([i \in DOMAIN st |-> st[i].yield_count])
Preempts(st) == Total([i \in DOMAIN st |-> st[i].preempt_count])

compute_avg_wait(st) ==
  IF Waiting(st) = {} THEN 0
  ELSE Total([i \in Waiting(st) |-> st[i].wait_ticks]) \div Cardinality(Waiting(st))

compute_queue_pressure(st) ==
  IF Waiting(st) = {} THEN 0
  ELSE (Cardinality({i \in Waiting(st) : st[i].queue_level = 2}) * 100)
         \div Cardinality(Waiting(st))

WorkloadPerPreempt(st) ==
  IF Preempts(st) = 0 THEN 50 ELSE (Yields(st) * 100) \div Preempts(st)
compute_workload_type(st) ==
  IF Yields(st) + Preempts(st) = 0 THEN 50
  ELSE (Yields(st) * 100) \div (Yields(st) + Preempts(st))

detect_phase_change(st) ==
  Total([i \in DOMAIN st |-> Abs(st[i].burst_ema_fast - st[i].burst_ema_slow)])
    \div Len(st) > 50

detect_sjf_abuse(st) ==
  \E i \in DOMAIN st : /\ st[i].burst_variance < 5
                       /\ st[i].yield_count > 20

------------------------------------------------------------------------------
clamp(val, lo, hi) == IF val < lo THEN lo ELSE IF val > hi THEN hi ELSE val

(* The condition of each rule of decide_and_update(), how many epochs in a    *)
(* row it has held, and the count from which its rule fires.                  *)
Holds(r, st) ==
  CASE r = 1 -> compute_queue_pressure(st) > 40
    [] r = 2 -> compute_workload_type(st) > 70
    [] r = 3 -> compute_workload_type(st) < 30
    [] r = 4 -> compute_avg_wait(st) > 10
    [] r = 5 -> detect_phase_change(st)
    [] r = 6 -> detect_sjf_abuse(st)
Counted(st) ==
  [r \in 1..6 |-> IF ~Holds(r, st) THEN 0 ELSE IF cnt[r] < 2 THEN cnt[r] + 1 ELSE 2]
Needed(r) == IF r \in {2, 3, 6} THEN 2 ELSE 1
Fires(st) == {r \in 1..6 : Counted(st)[r] >= Needed(r)}

(* decide_and_update() with the rules F firing, in the order of the code. *)
Decide(F) ==
  LET q0_1 == IF 1 \in F THEN clamp(cur_q0 - 1, 1, 10) ELSE cur_q0
      q0_2 == IF 2 \in F THEN clamp(q0_1 + 1, 1, 10) ELSE q0_1
      q0_3 == IF 3 \in F THEN clamp(q0_2 - 1, 1, 10) ELSE q0_2
      boost_1 == IF 1 \in F THEN clamp(cur_boost - 20, 10, 500) ELSE cur_boost
      boost_4 == IF 4 \in F THEN clamp(boost_1 - 10, 10, 500) ELSE boost_1
      q1 == IF cur_q1 < q0_3 THEN q0_3 ELSE cur_q1
  IN /\ cur_q0' = q0_3
     /\ cur_q1' = q1
     /\ cur_q2' = IF cur_q2 < q1 THEN q1 ELSE cur_q2
     /\ cur_boost' = boost_4
     /\ cur_af' = clamp(IF 5 \in F THEN cur_af + 10 ELSE cur_af - 5, cur_as + 1, 90)
     /\ cur_aging' = IF 6 \in F THEN clamp(cur_aging - 3, 1, 100) ELSE cur_aging
     /\ UNCHANGED cur_as
------------------------------------------------------------------------------
(* The static initialisers of sagent.c, the settings of pinit(). *)
Init ==
  /\ cur_q0 = 4 /\ cur_q1 = 6 /\ cur_q2 = 8 /\ cur_boost = 500
  /\ cur_af = 50 /\ cur_as = 10 /\ cur_aging = 50
  /\ cnt = [r \in 1..6 |-> 0]
  /\ alert = 0 /\ pc = "observe" /\ timer = 0
  /\ schedp = [q0_quantum |-> 4, q1_quantum |-> 6, q2_quantum |-> 8,
               boost_interval |-> 500, ema_alpha_fast |-> 50,
               ema_alpha_slow |-> 10, aging_factor |-> 50, rr_mode |-> 0]
  /\ sched_alert = 0

(* Observe and decide. *)
Epoch(st) ==
  /\ pc = "observe" /\ pc' = "actuate"
  /\ alert' = sched_alert
  /\ cnt' = Counted(st)
  /\ Decide(Fires(st))
  /\ UNCHANGED <<timer, kernel>>

(* The update the agent submits.  main() never sets rr_mode: built with -O0   *)
(* it is the zero of the stack page that exec() has just allocated.           *)
Update(rr) ==
  [q0_quantum |-> cur_q0, q1_quantum |-> cur_q1, q2_quantum |-> cur_q2,
   boost_interval |-> cur_boost, ema_alpha_fast |-> cur_af,
   ema_alpha_slow |-> cur_as, aging_factor |-> cur_aging, rr_mode |-> rr]

(* setschedparam(), whose result the agent ignores, then sleep(). *)
ActuateOnAlert(rr) ==
  /\ pc = "actuate" /\ pc' = "sleep"
  /\ IF alert # 0 THEN schedp' = Update(rr) /\ sched_alert' = 0
     ELSE UNCHANGED kernel
  /\ timer' = IF alert # 0 THEN ALERT_SLEEP ELSE EPOCH_TICKS
  /\ UNCHANGED <<cur, cnt, alert>>
Actuate(rr) ==
  /\ pc = "actuate" /\ pc' = "sleep"
  /\ IF Legal(Update(rr)) THEN schedp' = Update(rr) /\ sched_alert' = 0
     ELSE UNCHANGED kernel
  /\ timer' = IF alert # 0 THEN ALERT_SLEEP ELSE EPOCH_TICKS
  /\ UNCHANGED <<cur, cnt, alert>>

Tick ==
  /\ pc = "sleep" /\ timer > 0
  /\ timer' = timer - 1
  /\ UNCHANGED <<cur, cnt, alert, pc, kernel>>

Awake ==
  /\ pc = "sleep" /\ timer = 0
  /\ pc' = "observe"
  /\ UNCHANGED <<cur, cnt, alert, timer, kernel>>

(* The aging loop of scheduler() finds a starving process. *)
RaiseAlert ==
  /\ sched_alert = 0
  /\ sched_alert' = 1
  /\ UNCHANGED <<cur, cnt, alert, pc, timer, schedp>>

Next ==
  \/ \E st \in Stats : Epoch(st)
  \/ \E rr \in UnsetRr : Actuate(rr)
  \/ Tick \/ Awake \/ RaiseAlert

Spec == Init /\ [][Next]_vars
------------------------------------------------------------------------------
(* Types. *)
TypeOK ==
  /\ <<cur_q0, cur_q1, cur_q2>> \in Int \X Int \X Int
  /\ <<cur_boost, cur_af, cur_as, cur_aging>> \in Int \X Int \X Int \X Int
  /\ cnt \in [1..6 -> {0, 1, 2}]
  /\ alert \in {0, 1} /\ sched_alert \in {0, 1}
  /\ pc \in {"observe", "actuate", "sleep"}
  /\ timer \in Nat
  /\ schedp \in Params

(* Whatever the statistics, every update the agent computes passes the range  *)
(* and ordering checks of sys_setschedparam(), rr_mode aside: the clamps and  *)
(* the final monotonicity fix of decide_and_update() are enough.              *)
RequestsLegal == Legal(Update(0))

(* The agent can only tighten the scheduler: since yields are preemptions,    *)
(* workload_type stays at 50 or below, rule 2 (the one rule that widens the   *)
(* Q0 quantum) never fires, and no rule raises the boost interval or the      *)
(* aging divisor again.                                                       *)
OnlyTightens ==
  [][/\ cur_q0' <= cur_q0 /\ cur_boost' <= cur_boost /\ cur_aging' <= cur_aging
     /\ schedp'.q0_quantum <= schedp.q0_quantum
     /\ schedp'.boost_interval <= schedp.boost_interval]_vars

(* The kernel takes every update, although the agent ignores the result of    *)
(* setschedparam(): while the agent sleeps the kernel runs with the values    *)
(* the agent believes in, and still in MLFQ mode.                             *)
UpdatesTaken ==
  /\ TypeOK
  /\ pc = "sleep" => schedp = Update(0)
=============================================================================
