---------------------------- MODULE ByteStreams ----------------------------
(***************************************************************************)
(* What pipes promise: each is a bounded queue of bytes; what readers have *)
(* been given, followed by what is queued, is what writers have put in.    *)
(***************************************************************************)
EXTENDS Integers, Sequences

CONSTANTS Pages, Bytes, PIPESIZE

VARIABLES
  live,   \* the pipes that exist
  queue,  \* the bytes under way
  out     \* the bytes readers were given
vars == <<live, queue, out>>

Init ==
  /\ live = {}
  /\ queue = [g \in Pages |-> <<>>] /\ out = [g \in Pages |-> <<>>]

Create(g) == g \notin live /\ live' = live \cup {g} /\ UNCHANGED <<queue, out>>

(* A write puts some bytes, as many as fit, at the end ... *)
Put(g) ==
  /\ g \in live
  /\ \E n \in 1 .. PIPESIZE - Len(queue[g]) : \E s \in [1..n -> Bytes] :
       queue' = [queue EXCEPT ![g] = @ \o s]
  /\ UNCHANGED <<live, out>>

(* ... and a read takes the oldest ones. *)
Take(g) ==
  /\ g \in live
  /\ \E n \in 1 .. Len(queue[g]) :
       /\ queue' = [queue EXCEPT ![g] = SubSeq(@, n + 1, Len(@))]
       /\ out' = [out EXCEPT ![g] = @ \o SubSeq(queue[g], 1, n)]
  /\ UNCHANGED live

Destroy(g) ==
  /\ g \in live /\ live' = live \ {g}
  /\ queue' = [queue EXCEPT ![g] = <<>>] /\ out' = [out EXCEPT ![g] = <<>>]

Next == \E g \in Pages : Create(g) \/ Put(g) \/ Take(g) \/ Destroy(g)

Spec == Init /\ [][Next]_vars
=============================================================================
