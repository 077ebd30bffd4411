---------------------------- MODULE MCSchedUni -----------------------------
(* Instances of SchedUni for TLC. *)
EXTENDS SchedUni

MCPar(q, boost, aging, rr) ==
  [q0_quantum |-> q, q1_quantum |-> q, q2_quantum |-> q, boost_interval |-> boost,
   ema_alpha_fast |-> 50, ema_alpha_slow |-> 10, aging_factor |-> aging, rr_mode |-> rr]

\* round robin, any process may sleep
Rr == [par |-> MCPar(1, 10, 1, 1), histories |-> {100}, blockers |-> Slots, maxwait |-> 1]
\* MLFQ, processes that only compute, a boost interval of many quanta
Cpu == [par |-> MCPar(4, 100, 2, 0), histories |-> {100, 250, 399}, blockers |-> {}, maxwait |-> 8]
\* MLFQ, legal parameters: every quantum is as long as the boost interval
Starve == [par |-> MCPar(10, 10, 50, 0), histories |-> {100}, blockers |-> {}, maxwait |-> 60]

RrAndCpu == {Rr, Cpu}
JustStarve == {Starve}
=============================================================================
