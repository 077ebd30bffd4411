------------------------------ MODULE MCSched ------------------------------
(* Instances of Sched for TLC. *)
EXTENDS Sched

MCParams(q0, q1, q2, boost, rr) ==
  [q0_quantum |-> q0, q1_quantum |-> q1, q2_quantum |-> q2,
   boost_interval |-> boost, ema_alpha_fast |-> 50, ema_alpha_slow |-> 10,
   aging_factor |-> 1, rr_mode |-> rr]

MCBoot == MCParams(1, 1, 2, 1, 0)
\* a switch to round robin, an update out of order and one out of range
MCUpdates == {MCParams(1, 2, 2, 3, 1), MCParams(2, 1, 2, 3, 0), MCParams(0, 1, 2, 3, 0)}
=============================================================================
