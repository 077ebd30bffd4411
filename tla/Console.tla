------------------------------ MODULE Console -------------------------------
(***************************************************************************)
(* Console input and the signals it sends: consoleintr() for the keyboard   *)
(* and the serial line, consoleread() by several processes, control-C to    *)
(* the foreground process, and signal handlers with sigret() (proc.c,       *)
(* sysproc.c).                                                              *)
(*                                                                         *)
(* input.lock makes one character, and one pass of consoleread() up to its  *)
(* sleep(), a step.  r, w and e count modulo Wrap, a multiple of INPUT_BUF. *)
(* A trap frame is the registers that signals touch.  rip is 0 in the       *)
(* program and k in a handler that runs k deep; the others are "own" as     *)
(* long as they hold what that code left in them.                           *)
(***************************************************************************)
EXTENDS Integers, Sequences, FiniteSets

CONSTANTS
  Procs, INPUT_BUF, Wrap,
  Jobs,         \* bound: processes that call fgproc() and signal()
  Sizes,        \* bound: bytes asked of a read
  MaxNested     \* bound: handlers running at once

ASSUME ConsoleAssumption ==
  /\ INPUT_BUF \in Nat \ {0} /\ Wrap \in Nat /\ Wrap > INPUT_BUF /\ Wrap % INPUT_BUF = 0
  /\ Sizes \subseteq Nat /\ 0 \notin Procs

VARIABLES
  buf, r, w, e,   \* input
  pc, n, target,  \* of each reader
  fgpid,
  pending, disp,  \* of each process: SIGINT, and what it does
  tf, backup,     \* the trap frame a process was last resumed from, and tf_backup
  under,          \* history: the frame that the latest handler interrupted
  fresh,          \* history: that handler runs, and nothing has interrupted it
  eofs            \* history: end-of-files typed and not yet returned

input == <<buf, r, w, e>>
procs == <<pc, n, target>>
signals == <<pending, disp, tf, backup, under, fresh>>
vars == <<input, procs, fgpid, signals, eofs>>

NL == "newline"
EOF == "eof"
Chars == {"x", NL, EOF}
Inc(k) == (k + 1) % Wrap
Dec(k) == (k + Wrap - 1) % Wrap
Dist(a, b) == (b + Wrap - a) % Wrap

(* The frame of a trap, and of the syscall instruction, which has put the    *)
(* address to return to in rcx and the flags in r11.                         *)
Entered(k, call) ==
  [rip |-> k, rcx |-> IF call THEN "rip" ELSE "own", r11 |-> IF call THEN "rflags" ELSE "own",
   rflags |-> "own", rax |-> "own"]
Lost == -1

Init ==
  /\ buf = [k \in 0 .. INPUT_BUF - 1 |-> NL] /\ r = 0 /\ w = 0 /\ e = 0
  /\ pc = [p \in Procs |-> "user"] /\ n = [p \in Procs |-> 0] /\ target = [p \in Procs |-> 0]
  /\ fgpid = 0
  /\ pending = [p \in Procs |-> FALSE] /\ disp = [p \in Procs |-> "default"]
  /\ tf = [p \in Procs |-> Entered(0, FALSE)] /\ backup = tf /\ under = tf
  /\ fresh = [p \in Procs |-> FALSE]
  /\ eofs = 0

-----------------------------------------------------------------------------
(* consoleintr(), one character. *)

Woken == [p \in Procs |-> IF pc[p] = "asleep" THEN "read" ELSE pc[p]]

(* The line goes to the readers when it ends or nothing more fits. *)
Unfilled(c, e1) == c \in {NL, EOF}
Finished(c, e1) == c \in {NL, EOF} \/ Dist(r, e1) = INPUT_BUF
KeptAsleep == pc
Wakeup == Woken
Key(c) ==
  /\ Dist(r, e) < INPUT_BUF
  /\ buf' = [buf EXCEPT ![e % INPUT_BUF] = c] /\ e' = Inc(e)
  /\ IF Finished(c, Inc(e)) THEN w' = Inc(e) /\ pc' = Wakeup ELSE UNCHANGED <<w, pc>>
  /\ eofs' = IF c = EOF THEN eofs + 1 ELSE eofs
  /\ UNCHANGED <<r, n, target, fgpid, signals>>

(* ^H and ^U.  No newline is left between w and e. *)
Erasable == e # w
Backspace ==
  /\ Erasable /\ e' = Dec(e)
  /\ UNCHANGED <<buf, r, w, procs, fgpid, signals, eofs>>
KillLine ==
  /\ e # w /\ e' = w
  /\ UNCHANGED <<buf, r, w, procs, fgpid, signals, eofs>>

(* ^C: send_fgsig(SIGINT), kill(fgpid): the signal is pending, and a sleeper *)
(* runs.                                                                     *)
ControlC ==
  /\ fgpid \in Procs /\ pc[fgpid] # "gone"
  /\ pending' = [pending EXCEPT ![fgpid] = TRUE]
  /\ pc' = [pc EXCEPT ![fgpid] = IF @ = "asleep" THEN "read" ELSE @]
  /\ UNCHANGED <<input, n, target, fgpid, disp, tf, backup, under, fresh, eofs>>

-----------------------------------------------------------------------------
(* consoleread()                                                             *)

InUser(p) == pc[p] = "user"

Read(p, k) ==
  /\ InUser(p)
  /\ pc' = [pc EXCEPT ![p] = "read"] /\ n' = [n EXCEPT ![p] = k] /\ target' = [target EXCEPT ![p] = k]
  /\ UNCHANGED <<input, fgpid, signals, eofs>>

(* Bytes until the count, a newline or an end-of-file, which is left for the *)
(* next read unless it comes first.                                          *)
Ahead(a, k) == (a + k) % Wrap
Char(a) == buf[a % INPUT_BUF]
Stops(r0, k) == {i \in 0..k : i = k \/ Ahead(r0, i) = w \/ Char(Ahead(r0, i)) \in {NL, EOF}}
First(S) == CHOOSE i \in S : \A j \in S : i <= j
Taken(r0, k, t) == Inc(r0)
PutBack(r0, k, t) == IF k < t THEN r0 ELSE Inc(r0)
Consume(r0, k, t) ==
  LET i == First(Stops(r0, k))
      a == Ahead(r0, i)
  IN  IF i = k THEN [r |-> a, n |-> 0, done |-> TRUE]
      ELSE IF a = w THEN [r |-> a, n |-> k - i, done |-> FALSE]
      ELSE IF Char(a) = EOF THEN [r |-> PutBack(a, k - i, t), n |-> k - i, done |-> TRUE]
      ELSE [r |-> Inc(a), n |-> k - i - 1, done |-> TRUE]

(* killed is not set by kill(), so a signal alone does not end the loop. *)
ReadStep(p) ==
  LET g == Consume(r, n[p], target[p])
  IN  /\ pc[p] = "read"
      /\ r' = g.r
      /\ pc' = [pc EXCEPT ![p] = IF g.done THEN "user" ELSE "asleep"]
      /\ n' = [n EXCEPT ![p] = IF g.done THEN 0 ELSE g.n]
      /\ target' = [target EXCEPT ![p] = IF g.done THEN 0 ELSE @]
      /\ eofs' = IF g.done /\ g.n = target[p] /\ g.n > 0 THEN eofs - 1 ELSE eofs
      /\ UNCHANGED <<buf, w, e, fgpid, signals>>

-----------------------------------------------------------------------------
(* Signals                                                                   *)

FgProc(p) ==
  /\ InUser(p) /\ p \in Jobs /\ fgpid' = p
  /\ UNCHANGED <<input, procs, signals, eofs>>

Signal(p, d) ==
  /\ InUser(p) /\ p \in Jobs /\ disp' = [disp EXCEPT ![p] = d]
  /\ UNCHANGED <<input, procs, fgpid, pending, tf, backup, under, fresh, eofs>>

(* check_signals() on the way back to user mode, from a system call or a trap. *)
SavedAsIs(f) == f
Saved(f) == [f EXCEPT !.rcx = "rip"]
CheckSignals(p, call) ==
  LET f == Entered(tf[p].rip, call)
      handler == tf[p].rip + 1
  IN  /\ InUser(p) /\ pending[p]
      /\ pending' = [pending EXCEPT ![p] = FALSE]
      /\ \/ disp[p] = "ignore" /\ UNCHANGED <<procs, tf, backup, under, fresh>>
         \/ /\ disp[p] = "default" /\ pc' = [pc EXCEPT ![p] = "gone"]
            /\ UNCHANGED <<n, target, tf, backup, under, fresh>>
         \/ /\ disp[p] = "handler" /\ handler <= MaxNested
            /\ backup' = [backup EXCEPT ![p] = Saved(f)]
            /\ tf' = [tf EXCEPT ![p] = [f EXCEPT !.rip = handler, !.rcx = "rip"]]
            /\ under' = [under EXCEPT ![p] = f] /\ fresh' = [fresh EXCEPT ![p] = TRUE]
            /\ UNCHANGED procs
      /\ UNCHANGED <<input, fgpid, disp, eofs>>

(* The way out of a system call: sysretq goes to rcx and loads r11 into the  *)
(* flags, whatever the frame has for them.                                   *)
SysRet(f) ==
  [f EXCEPT !.rip = IF f.rcx = "rip" THEN @ ELSE Lost,
            !.rflags = IF f.r11 = "rflags" THEN @ ELSE "r11"]

(* A handler returns through the trampoline on its stack: the frame is that  *)
(* of tf_backup, and syscall() then stores sigret's result in its rax.       *)
SigRet(p) ==
  /\ InUser(p) /\ tf[p].rip > 0
  /\ tf' = [tf EXCEPT ![p] = SysRet([backup[p] EXCEPT !.rax = "sigret"])]
  /\ fresh' = [fresh EXCEPT ![p] = FALSE]
  /\ UNCHANGED <<input, procs, fgpid, pending, disp, backup, under, eofs>>

Next ==
  \/ \E c \in Chars : Key(c)
  \/ Backspace \/ KillLine \/ ControlC
  \/ \E p \in Procs :
       \/ \E k \in Sizes : Read(p, k)
       \/ ReadStep(p) \/ FgProc(p) \/ SigRet(p)
       \/ \E call \in BOOLEAN : CheckSignals(p, call)
       \/ \E d \in {"ignore", "handler"} : Signal(p, d)

Spec == Init /\ [][Next]_vars

-----------------------------------------------------------------------------
Frames == [rip: Int, rcx: {"rip", "own"}, r11: {"rflags", "own"}, rflags: {"own", "r11"},
           rax: {"own", "sigret"}]

TypeOK ==
  /\ buf \in [0 .. INPUT_BUF - 1 -> Chars]
  /\ r \in 0 .. Wrap - 1 /\ w \in 0 .. Wrap - 1 /\ e \in 0 .. Wrap - 1
  /\ Dist(r, w) + Dist(w, e) <= INPUT_BUF
  /\ pc \in [Procs -> {"user", "read", "asleep", "gone"}] /\ fgpid \in Procs \cup {0}
  /\ n \in [Procs -> Nat] /\ target \in [Procs -> Nat] /\ \A p \in Procs : n[p] <= target[p]
  /\ pending \in [Procs -> BOOLEAN] /\ fresh \in [Procs -> BOOLEAN]
  /\ disp \in [Procs -> {"default", "ignore", "handler"}]
  /\ tf \in [Procs -> Frames] /\ backup \in [Procs -> Frames] /\ under \in [Procs -> Frames]

Bytes(a, b) == [k \in 1 .. Dist(a, b) |-> buf[(a + k - 1) % INPUT_BUF]]

(* The ring buffer with its three wrapping indices is a line editor in front *)
(* of a queue: no byte is lost, repeated, reordered or changed once its line *)
(* is finished.                                                              *)
LI == INSTANCE LineInput WITH Size <- INPUT_BUF, Ends <- {NL, EOF},
                              edit <- Bytes(w, e), queue <- Bytes(r, w)
LineEditor == LI!Spec

(* A reader sleeps only while no finished byte waits for it and there is     *)
(* room for the key that will finish one: the three indices never run past   *)
(* each other.                                                               *)
SleepersWait ==
  /\ TypeOK
  /\ (\E p \in Procs : pc[p] = "asleep") => r = w /\ Dist(r, e) < INPUT_BUF

(* Every end-of-file typed is returned by exactly one read as a count of     *)
(* zero, also when it ends a line begun without a newline.                   *)
EofOnce == eofs = Cardinality({k \in DOMAIN Bytes(r, e) : Bytes(r, e)[k] = EOF})

(* sigret() goes back to the instruction that the handler interrupted, also  *)
(* when that is in another handler, and leaves a system call nothing but its *)
(* result changed.  (What a trap interrupted also finds other values in rcx  *)
(* and in the flags.)  A handler that was itself interrupted does not go     *)
(* back to the program: tf_backup holds its own frame by then, and sigret()  *)
(* goes back to its middle.                                                  *)
HandlerReturns ==
  [][\A p \in Procs : SigRet(p) =>
       IF fresh[p]
       THEN /\ tf'[p].rip = under[p].rip
            /\ under[p].rcx = "rip" => tf'[p] = [under[p] EXCEPT !.rax = "sigret"]
       ELSE tf'[p].rip = tf[p].rip]_vars
=============================================================================
