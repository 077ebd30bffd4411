------------------------------ MODULE MCAgent ------------------------------
(* Instances of Agent for TLC. *)
EXTENDS Agent

MCStat(s, level, wait, yields, preempts, fast, slow) ==
  [state |-> s, queue_level |-> level, wait_ticks |-> wait, yield_count |-> yields,
   preempt_count |-> preempts, burst_ema_fast |-> fast, burst_ema_slow |-> slow,
   burst_variance |-> Abs(fast - slow)]
Self == MCStat("RUNNING", 0, 0, 0, 0, 100, 100)

\* nobody waits; CPU hogs have piled up in Q2 and wait; a phase change next to a
\* process with many switches and steady bursts
Quiet == <<Self>>
Hogs == <<Self, MCStat("RUNNABLE", 2, 20, 1, 4, 400, 400),
          MCStat("RUNNABLE", 2, 9, 1, 3, 400, 400)>>
Mixed == <<Self, MCStat("SLEEPING", 1, 0, 3, 3, 400, 200),
           MCStat("RUNNABLE", 1, 0, 21, 21, 100, 100)>>

AllStats == {Quiet, Hogs, Mixed}
=============================================================================
