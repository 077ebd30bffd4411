----------------------------- MODULE LineInput ------------------------------
(***************************************************************************)
(* What console.c promises of typed input: a line being edited and a queue  *)
(* of finished bytes that together hold at most Size.  A line is finished   *)
(* by a newline, by end-of-file, or by filling the buffer; only the line    *)
(* being edited can be changed, and bytes are taken in order.               *)
(***************************************************************************)
EXTENDS Integers, Sequences

CONSTANTS Size, Chars, Ends
VARIABLES edit, queue

Full == Len(edit) + 1 + Len(queue) = Size

Type(c) ==
  /\ Len(edit) + Len(queue) < Size
  /\ IF c \in Ends \/ Full THEN edit' = <<>> /\ queue' = queue \o Append(edit, c)
     ELSE edit' = Append(edit, c) /\ UNCHANGED queue

Erase(k) == edit' = SubSeq(edit, 1, k) /\ UNCHANGED queue
Take(k) == queue' = SubSeq(queue, k + 1, Len(queue)) /\ UNCHANGED edit

Init == edit = <<>> /\ queue = <<>>
Next ==
  \/ \E c \in Chars : Type(c)
  \/ \E k \in {0, Len(edit) - 1} : edit # <<>> /\ Erase(k)
  \/ \E k \in 1 .. Len(queue) : Take(k)

Spec == Init /\ [][Next]_<<edit, queue>>
=============================================================================
