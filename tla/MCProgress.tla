----------------------------- MODULE MCProgress -----------------------------
(***************************************************************************)
(* What must eventually happen to a process that waits for the CPU          *)
(* (SchedUni) and to a line typed at the shell (Sh).  They share no state:  *)
(* a behaviour is one of the scheduler or one of the shell.                 *)
(***************************************************************************)
EXTENDS MCSchedUni

CONSTANTS Procs, Lines, Words, Programs, MAXARGS, NOFILE, MaxLines

VARIABLES mode, ps, line, typed, forkFailed

S == INSTANCE Sh

(* Every line of up to three tokens, of up to four where they are words,     *)
(* lists and blocks, and longer ones that nest blocks, pipelines,            *)
(* redirections and background jobs.                                         *)
Upto(n, T) == UNION {[1 .. k -> T] : k \in 0 .. n}
Short == Upto(3, {"a", "<", ">", "|", "&", ";", "(", ")"}) \cup Upto(4, {"a", ";", "(", ")"})
Long == {<<"a", "|", "b", "|", "c">>,
         <<"a", "|", "b", ";", "c">>,
         <<"(", "a", "|", "b", ")", "|", "c">>,
         <<"a", "|", "(", "b", ";", "c", ")">>,
         <<"(", "a", "&", ")", "|", "b">>,
         <<"(", "a", ";", "b", "&", ")", ";", "c">>,
         <<"a", "&", ";", "b", "|", "c">>,
         <<"a", "<", "f", ">", "g", "<", "h", "|", "b">>,
         <<"a", "|", "b", ">", "f", "&", "&">>,
         <<"(", "a", "|", "b", ">", "f", ")", "<", "g", ">", "h">>,
         <<"a", "a", "a">>, <<"a", "a", ">", "f", "a">>,
         <<"(", "a", ")", "b">>, <<"a", ">", "|", "b">>, <<"(", "(", "a", ")">>}
MCLines == Short \cup Long

ShVars == <<ps, line, typed, forkFailed>>
AllVars == <<mode, vars, ShVars>>

(* The part that a behaviour is not about: nobody waits, nobody types. *)
CpuOff ==
  /\ setup = Rr /\ state = [p \in Slots |-> "SLEEPING"]
  /\ queue_level = [p \in Slots |-> 0] /\ wait_ticks = [p \in Slots |-> 0]
  /\ burst_ema_fast = [p \in Slots |-> 100]
  /\ proc = NoProc /\ ticks_remaining = 0 /\ burst = 0 /\ since_boost = 0 /\ rr_next = 0

AnyInit ==
  \/ mode = "cpu" /\ Init /\ S!Init
  \/ mode = "sh" /\ CpuOff /\ S!Init

(* Only the shell may stop, at the end of what is typed. *)
AnyNext ==
  \/ mode = "cpu" /\ Next /\ UNCHANGED <<mode, ShVars>>
  \/ mode = "sh" /\ S!Next /\ UNCHANGED <<mode, vars>>
  \/ mode = "sh" /\ UNCHANGED AllVars

(* The fairness of each part, where the behaviour is about it. *)
AnyFair ==
  /\ WF_vars(mode = "cpu" /\ UNCHANGED setup /\ Pass)
  /\ SF_vars(mode = "cpu" /\ UNCHANGED setup /\ Tick)
  /\ WF_ShVars(mode = "sh" /\ S!InitStep)
  /\ \A p \in Procs : WF_ShVars(mode = "sh" /\ S!Step(p))

AnySpec == AnyInit /\ [][AnyNext]_AllVars /\ AnyFair
-----------------------------------------------------------------------------
(* parsecmd() accepts exactly the lines of the grammar, each in its one      *)
(* reading.                                                                  *)
ParserRight == S!ParserRight

(* A program starts with its input, output and errors where the line puts    *)
(* them, and nothing else open.                                              *)
Plumbing == S!Plumbing

(* "a ; b": b starts when a has ended; wait() collects the child it is for. *)
Sequenced == S!Sequenced

(* A typed line leads to a prompt again, whichever call fails on the way. *)
PromptReturns == S!PromptReturns
=============================================================================
