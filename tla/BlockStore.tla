----------------------------- MODULE BlockStore -----------------------------
(* What bread(), bwrite() and brelse() promise: each block has one contents, *)
(* which only the process that has locked the block changes.                 *)
CONSTANTS Blocks, Procs, Vals
VARIABLES contents, holder
vars == <<contents, holder>>

Init == contents \in [Blocks -> Vals] /\ holder = [n \in Blocks |-> {}]

Lock(p, n) ==
  /\ holder[n] = {} /\ holder' = [holder EXCEPT ![n] = {p}]
  /\ UNCHANGED contents
Write(p, n, v) ==
  /\ p \in holder[n] /\ contents' = [contents EXCEPT ![n] = v]
  /\ UNCHANGED holder
Unlock(p, n) ==
  /\ p \in holder[n] /\ holder' = [holder EXCEPT ![n] = @ \ {p}]
  /\ UNCHANGED contents

Next == \E p \in Procs, n \in Blocks :
          Lock(p, n) \/ Unlock(p, n) \/ \E v \in Vals : Write(p, n, v)
Spec == Init /\ [][Next]_vars
=============================================================================
