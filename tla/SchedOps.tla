----------------------------- MODULE SchedOps ------------------------------
(***************************************************************************)
(* The pure part of the scheduler: the burst estimate of trap.c, the       *)
(* effective score and the two selection rules of proc.c, and the checks   *)
(* that sys_setschedparam() makes.                                         *)
(***************************************************************************)
EXTENDS Integers

CONSTANT BOOST_MIN  \* least legal boost_interval: 10

ASSUME BoostMinAssumption == BOOST_MIN \in Nat

(* The fields of struct sched_update, and of struct sched_params. *)
Params == [q0_quantum: Int, q1_quantum: Int, q2_quantum: Int, boost_interval: Int,
           ema_alpha_fast: Int, ema_alpha_slow: Int, aging_factor: Int, rr_mode: Int]

(* The checks of sys_setschedparam(). *)
Legal(u) ==
  /\ u.q0_quantum >= 1 /\ u.q0_quantum <= 10
  /\ u.q1_quantum >= 1 /\ u.q1_quantum <= 20
  /\ u.q2_quantum >= 1 /\ u.q2_quantum <= 40
  /\ u.boost_interval >= BOOST_MIN /\ u.boost_interval <= 500
  /\ u.ema_alpha_fast >= 1 /\ u.ema_alpha_fast <= 90
  /\ u.ema_alpha_slow >= 1 /\ u.ema_alpha_slow <= 50
  /\ u.aging_factor >= 1 /\ u.aging_factor <= 100
  /\ u.ema_alpha_slow < u.ema_alpha_fast
  /\ u.q0_quantum <= u.q1_quantum /\ u.q1_quantum <= u.q2_quantum
  /\ u.rr_mode = 0 \/ u.rr_mode = 1

(* C division truncates towards zero. *)
CDiv(a, b) == IF a >= 0 THEN a \div b ELSE -((-a) \div b)
Clamp5000(v) == IF v > 5000 THEN 5000 ELSE IF v < 0 THEN 0 ELSE v

(* One step of a burst estimate, in hundredths of a tick. *)
Ema(old, alpha, burst) == Clamp5000(old + CDiv(alpha * (burst * 100 - old), 100))

(* effective_score under parameters s: lower runs first. *)
Score(ema, wait, s) == ema \div 100 - wait \div s.aging_factor

(* The MLFQ pick: lowest level, then lowest score, then lowest slot. *)
MlfqBefore(p, r, level, score) ==
  \/ level[p] < level[r]
  \/ /\ level[p] = level[r]
     /\ \/ score[p] < score[r]
        \/ score[p] = score[r] /\ p <= r

(* The round-robin pick: the first slot from next on, among n. *)
RrFromZero(p, r, next, n) == p <= r
RrBefore(p, r, next, n) == (p - next) % n <= (r - next) % n

(* The quantum of a queue level. *)
Quantum(s, level) == CASE level = 0 -> s.q0_quantum
                       [] level = 1 -> s.q1_quantum
                       [] OTHER -> s.q2_quantum
=============================================================================
