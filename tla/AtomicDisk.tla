----------------------------- MODULE AtomicDisk ----------------------------
(***************************************************************************)
(* What log.c promises to the file system calls: a set of disk blocks that *)
(* change durably all at once, when no call is in the middle of an update, *)
(* so that a crash takes the contents back to such a moment.               *)
(***************************************************************************)
CONSTANTS Blocks, Procs, Vals

VARIABLES
  stable,  \* what a crash leaves
  mem,     \* what the calls read and write
  active   \* the processes inside a file system call
vars == <<stable, mem, active>>

Init ==
  /\ stable \in [Blocks -> Vals]
  /\ mem = stable
  /\ active = {}

Begin(p) ==
  /\ p \notin active /\ active' = active \cup {p}
  /\ UNCHANGED <<stable, mem>>

Write(p, b, v) ==
  /\ p \in active
  /\ mem' = [mem EXCEPT ![b] = v]
  /\ UNCHANGED <<stable, active>>

End(p) ==
  /\ p \in active /\ active' = active \ {p}
  /\ UNCHANGED <<stable, mem>>

Commit ==
  /\ active = {}
  /\ stable' = mem
  /\ UNCHANGED <<mem, active>>

Crash ==
  /\ mem' = stable /\ active' = {}
  /\ UNCHANGED stable

Next ==
  \/ \E p \in Procs : Begin(p) \/ End(p) \/ \E b \in Blocks, v \in Vals : Write(p, b, v)
  \/ Commit \/ Crash

Spec == Init /\ [][Next]_vars
=============================================================================
