--------------------------------- MODULE Sh ---------------------------------
(***************************************************************************)
(* The shell (sh.c) under init (init.c): a typed line is parsed by          *)
(* recursive descent, and the command runs as a tree of processes joined by *)
(* pipes, redirections, wait() and background jobs.                         *)
(*                                                                         *)
(* A line is a sequence of the tokens that gettoken() finds.  An open file  *)
(* is <<kind, pipe, name>>.  A program is external: it ends when its        *)
(* standard input does, at once if that is not a pipe.                      *)
(***************************************************************************)
EXTENDS Integers, Sequences, FiniteSets, TLC
LOCAL INSTANCE FiniteSetsExt
LOCAL INSTANCE SequencesExt

CONSTANTS
  Procs,      \* slots of the process table; 1 is init
  Lines,      \* what may be typed
  Words,      \* the tokens gettoken() calls 'a'
  Programs,   \* the words that exec() finds
  MAXARGS,
  NOFILE,     \* descriptors of a process
  MaxLines    \* bound: lines typed

VARIABLES
  ps,         \* the processes
  line,       \* buf of the shell, and what its child's parsecmd() makes of it
  typed,      \* lines typed so far
  forkFailed  \* history: some fork() found no slot

vars == <<ps, line, typed, forkFailed>>

-----------------------------------------------------------------------------
(* Parsing.  Every parser returns [c, ts, ok]: the command, the tokens left  *)
(* and whether it did without panic().                                       *)

Exec(argv) == [type |-> "EXEC", argv |-> argv]
Redir(c, r) == [type |-> "REDIR", cmd |-> c, fd |-> r[1], file |-> r[2]]
Pipe(l, r) == [type |-> "PIPE", left |-> l, right |-> r]
List(l, r) == [type |-> "LIST", left |-> l, right |-> r]
Back(c) == [type |-> "BACK", cmd |-> c]

Fd(op) == IF op = "<" THEN 0 ELSE 1
Wrap(c, rs) == FoldLeft(Redir, c, rs)

Fail == [c |-> Exec(<<>>), ts |-> <<>>, ok |-> FALSE]
Got(c, ts) == [c |-> c, ts |-> ts, ok |-> TRUE]

Peek(ts, toks) == ts # <<>> /\ ts[1] \in toks

RECURSIVE ParseRedirs(_, _)
ParseRedirs(rs, ts) ==
  IF ~Peek(ts, {"<", ">"}) THEN [rs |-> rs, ts |-> ts, ok |-> TRUE]
  ELSE IF ~Peek(Tail(ts), Words) THEN [rs |-> rs, ts |-> ts, ok |-> FALSE]
  ELSE ParseRedirs(Append(rs, <<Fd(ts[1]), ts[2]>>), Tail(Tail(ts)))

(* The loop of parseexec(); redirections wrap the command they follow. *)
RECURSIVE ParseArgs(_, _, _)
ParseArgs(argv, rs, ts) ==
  LET g == ParseRedirs(rs, Tail(ts))
  IN  IF ts = <<>> \/ Peek(ts, {"|", ")", "&", ";"}) THEN Got(Wrap(Exec(argv), rs), ts)
      ELSE IF ~Peek(ts, Words) \/ Len(argv) + 1 >= MAXARGS \/ ~g.ok THEN Fail
      ELSE ParseArgs(Append(argv, ts[1]), g.rs, g.ts)

RECURSIVE ParseLine(_), ParsePipe(_), ParseExec(_)
ParseBlock(ts) ==
  LET b == ParseLine(Tail(ts))
      g == ParseRedirs(<<>>, Tail(b.ts))
  IN  IF ~b.ok \/ ~Peek(b.ts, {")"}) THEN Fail
      ELSE IF ~g.ok THEN Fail ELSE Got(Wrap(b.c, g.rs), g.ts)

ParseExec(ts) ==
  LET g == ParseRedirs(<<>>, ts)
  IN  IF Peek(ts, {"("}) THEN ParseBlock(ts)
      ELSE IF ~g.ok THEN Fail ELSE ParseArgs(<<>>, g.rs, g.ts)

RightmostPipe(ts) ==
  LET l == ParseExec(ts)
      r == ParseExec(Tail(l.ts))
  IN  IF ~l.ok \/ ~Peek(l.ts, {"|"}) THEN l
      ELSE IF r.ok THEN Got(Pipe(l.c, r.c), r.ts) ELSE Fail
ParsePipe(ts) ==
  LET l == ParseExec(ts)
      r == ParsePipe(Tail(l.ts))
  IN  IF ~l.ok \/ ~Peek(l.ts, {"|"}) THEN l
      ELSE IF r.ok THEN Got(Pipe(l.c, r.c), r.ts) ELSE Fail

RECURSIVE Ampersands(_)
Ampersands(g) == IF g.ok /\ Peek(g.ts, {"&"}) THEN Ampersands(Got(Back(g.c), Tail(g.ts))) ELSE g

ParseLine(ts) ==
  LET l == Ampersands(ParsePipe(ts))
      r == ParseLine(Tail(l.ts))
  IN  IF ~l.ok \/ ~Peek(l.ts, {";"}) THEN l
      ELSE IF r.ok THEN Got(List(l.c, r.c), r.ts) ELSE Fail

ParseCmd(ts) == LET g == ParseLine(ts) IN IF g.ok /\ g.ts = <<>> THEN g ELSE Fail

-----------------------------------------------------------------------------
(* The grammar, without an order of reading: the commands a line stands for. *)

Cut(ts, k) == <<SubSeq(ts, 1, k - 1), SubSeq(ts, k + 1, Len(ts))>>
Splits(ts, op) == {Cut(ts, k) : k \in {i \in DOMAIN ts : ts[i] = op}}

Operators(ts) == {k \in DOMAIN ts : ts[k] \in {"<", ">"}}
FilesGiven(ts) == \A k \in Operators(ts) : k < Len(ts) /\ ts[k + 1] \in Words
Places(ts, S) == SelectSeq([k \in DOMAIN ts |-> k], LAMBDA k : k \in S)
Redirections(ts) ==
  LET at == Places(ts, Operators(ts)) IN [k \in DOMAIN at |-> <<Fd(ts[at[k]]), ts[at[k] + 1]>>]

SimpleCommands(ts) ==
  LET rest == Places(ts, DOMAIN ts \ UNION {{k, k + 1} : k \in Operators(ts)})
      argv == [k \in DOMAIN rest |-> ts[rest[k]]]
  IN  IF FilesGiven(ts) /\ Len(argv) < MAXARGS /\ \A k \in DOMAIN argv : argv[k] \in Words
      THEN {Wrap(Exec(argv), Redirections(ts))} ELSE {}

RECURSIVE LineOf(_), PipeOf(_), BackOf(_)
Blocks(ts) ==
  IF ~Peek(ts, {"("}) THEN {}
  ELSE UNION {{Wrap(b, Redirections(c[2])) : b \in LineOf(Tail(c[1]))} :
                c \in {d \in Splits(ts, ")") : FilesGiven(d[2]) /\ Cardinality(Operators(d[2])) * 2 = Len(d[2])}}
ExecOf(ts) == SimpleCommands(ts) \cup Blocks(ts)
PipeOf(ts) == ExecOf(ts) \cup
  UNION {{Pipe(l, r) : l \in ExecOf(c[1]), r \in PipeOf(c[2])} : c \in Splits(ts, "|")}
BackOf(ts) == PipeOf(ts) \cup
  IF ts # <<>> /\ Last(ts) = "&" THEN {Back(c) : c \in BackOf(Front(ts))} ELSE {}
LineOf(ts) == BackOf(ts) \cup
  UNION {{List(l, r) : l \in BackOf(c[1]), r \in LineOf(c[2])} : c \in Splits(ts, ";")}

-----------------------------------------------------------------------------
(* Processes: pc, the command being run and its place in the tree, the       *)
(* descriptors, p[] of runcmd(), and how many wait()s before going on to.    *)

Closed == <<"none", 0, "">>
Console == <<"console", 0, "">>
Fds == 0 .. NOFILE - 1
Free == [pc |-> "unused", cmd |-> Exec(<<>>), path |-> <<>>, fd |-> [k \in Fds |-> Closed],
         parent |-> 0, p |-> <<0, 0>>, n |-> 0, to |-> ""]
Standard == [k \in Fds |-> IF k <= 2 THEN Console ELSE Closed]

(* After init exits nothing runs. *)
Halted == ps[1].pc = "panic"
At(p, l) == ~Halted /\ ps[p].pc = l
Slots(f) == {c \in Procs : f[c].pc = "unused"}
Alive(f, p) == f[p].pc \notin {"unused", "zombie"}
NextFd(fd) == Min({k \in Fds : fd[k] = Closed})
Holds(f, o) == \E q \in Procs, k \in Fds : f[q].fd[k] = o

(* exit(): descriptors closed, children given to init. *)
Exited(f, p) ==
  [q \in Procs |-> IF q = p THEN [Free EXCEPT !.pc = "zombie", !.parent = f[p].parent]
                   ELSE IF f[q].parent = p THEN [f[q] EXCEPT !.parent = 1] ELSE f[q]]

Becomes(f) == ps' = f /\ UNCHANGED <<line, typed>>
NoFork == UNCHANGED forkFailed

(* fork1() by p of a process that will run c at path, and what p is then. *)
Fork1(p, child, then) ==
  \/ /\ Slots(ps) = {} /\ forkFailed' = TRUE /\ Becomes(Exited(ps, p))
  \/ /\ Slots(ps) # {} /\ NoFork
     /\ Becomes([ps EXCEPT ![p] = then, ![Min(Slots(ps))] = [child EXCEPT !.parent = p]])

Waits(r, n, to) == [r EXCEPT !.pc = "wait", !.n = n, !.to = to]
Runs(r, c, step) == [r EXCEPT !.pc = "run", !.cmd = c, !.path = Append(@, step)]

(* init starts a shell and waits for it, reaping orphans meanwhile; if the   *)
(* table is full it exits, and exit() panics.                                *)
InitShell ==
  /\ At(1, "start")
  /\ \/ Slots(ps) = {} /\ forkFailed' = TRUE /\ Becomes([ps EXCEPT ![1].pc = "panic"])
     \/ /\ Slots(ps) # {} /\ NoFork
        /\ LET c == Min(Slots(ps))
           IN  Becomes([ps EXCEPT ![1] = [@ EXCEPT !.pc = "init", !.n = c],
                                  ![c] = [Free EXCEPT !.pc = "sh", !.fd = ps[1].fd, !.parent = 1]])
InitWait(c) ==
  /\ At(1, "init") /\ At(c, "zombie") /\ ps[c].parent = 1 /\ NoFork
  /\ Becomes([ps EXCEPT ![c] = Free, ![1].pc = IF ps[1].n = c THEN "start" ELSE "init"])

(* exec("sh") in init's child, which may fail. *)
ExecSh(p) == At(p, "sh") /\ NoFork /\ \E l \in {"prompt", "nosh"} : Becomes([ps EXCEPT ![p].pc = l])

(* getcmd(): a line, or the end of the input. *)
GetCmd(p) ==
  /\ At(p, "prompt") /\ typed < MaxLines
  /\ \E l \in Lines : line' = [ts |-> l, c |-> ParseCmd(l).c, ok |-> ParseCmd(l).ok]
  /\ typed' = typed + 1 /\ ps' = [ps EXCEPT ![p].pc = "typed"] /\ NoFork
EndOfInput(p) == At(p, "prompt") /\ Becomes(Exited(ps, p)) /\ NoFork

(* A child parses and runs the line; the shell waits for it. *)
Spawn(p) ==
  LET child == [Runs(ps[p], line.c, ToString(typed)) EXCEPT !.pc = IF line.ok THEN "run" ELSE "syntax"]
  IN  At(p, "typed") /\ Fork1(p, child, Waits(ps[p], 1, "prompt"))

SyntaxError(p) == At(p, "syntax") /\ Becomes(Exited(ps, p)) /\ NoFork

(* wait(): one child at a time; with none it does not block. *)
Wait(p) ==
  LET kids == {c \in Procs : ps[c].parent = p /\ ps[c].pc # "unused"}
      r == ps[p]
      on == IF r.n > 1 THEN [r EXCEPT !.n = @ - 1]
            ELSE IF r.to = "right" THEN Runs(r, r.cmd.right, "then") ELSE [r EXCEPT !.pc = r.to, !.n = 0]
  IN  /\ At(p, "wait") /\ NoFork
      /\ \/ \E c \in kids : At(c, "zombie") /\ Becomes([ps EXCEPT ![c] = Free, ![p] = on])
         \/ kids = {} /\ Becomes([ps EXCEPT ![p] = on])

RunsA(p, type) == At(p, "run") /\ ps[p].cmd.type = type

(* exec() of a program, which may not exist. *)
RunExec(p) ==
  /\ RunsA(p, "EXEC") /\ NoFork
  /\ IF Peek(ps[p].cmd.argv, Programs) THEN Becomes([ps EXCEPT ![p].pc = "prog"])
     ELSE Becomes(Exited(ps, p))

(* close(fd) and open(file), which takes the lowest descriptor. *)
Opened(fd, k, o) == LET g == [fd EXCEPT ![k] = Closed] IN [g EXCEPT ![NextFd(g)] = o]
RunRedir(p) ==
  LET c == ps[p].cmd
  IN  /\ RunsA(p, "REDIR") /\ NoFork
      /\ \/ Becomes(Exited(ps, p))
         \/ Becomes([ps EXCEPT ![p] = Runs([@ EXCEPT !.fd = Opened(@, c.fd, <<"file", 0, c.file>>)], c.cmd, "redir")])

RunAtOnce(p) ==
  /\ RunsA(p, "LIST")
  /\ Fork1(p, Runs(ps[p], ps[p].cmd.left, "first"), Runs(ps[p], ps[p].cmd.right, "then"))
RunList(p) ==
  /\ RunsA(p, "LIST")
  /\ Fork1(p, Runs(ps[p], ps[p].cmd.left, "first"), Waits(ps[p], 1, "right"))

RunBack(p) ==
  /\ RunsA(p, "BACK")
  /\ \/ Slots(ps) = {} /\ forkFailed' = TRUE /\ Becomes(Exited(ps, p))
     \/ /\ Slots(ps) # {} /\ NoFork
        /\ Becomes(Exited([ps EXCEPT ![Min(Slots(ps))] = [Runs(ps[p], ps[p].cmd.cmd, "back") EXCEPT !.parent = p]], p))

(* pipe(p), which may fail; then fork the left, fork the right, close both   *)
(* ends, wait for both.                                                      *)
RunPipe(p) ==
  LET id == Min({k \in Procs : ~Holds(ps, <<"r", k, "">>) /\ ~Holds(ps, <<"w", k, "">>)})
      a == NextFd(ps[p].fd)
      fd == [ps[p].fd EXCEPT ![a] = <<"r", id, "">>]
      b == NextFd(fd)
  IN  /\ RunsA(p, "PIPE") /\ NoFork
      /\ \/ Becomes(Exited(ps, p))
         \/ Becomes([ps EXCEPT ![p] = [@ EXCEPT !.pc = "left", !.p = <<a, b>>, !.fd = [fd EXCEPT ![b] = <<"w", id, "">>]]])

(* close(k), dup(p[i]), close(p[0]), close(p[1]) *)
OneClosed(fd, p) == [fd EXCEPT ![p[1]] = Closed]
BothClosed(fd, p) == [fd EXCEPT ![p[1]] = Closed, ![p[2]] = Closed]
Plugged(r, k, i) == [r EXCEPT !.fd = BothClosed(Opened(@, k, r.fd[r.p[i]]), r.p)]

RunLeft(p) ==
  /\ At(p, "left")
  /\ Fork1(p, Runs(Plugged(ps[p], 1, 2), ps[p].cmd.left, "left"), [ps[p] EXCEPT !.pc = "right"])
RunRight(p) ==
  /\ At(p, "right")
  /\ Fork1(p, Runs(Plugged(ps[p], 0, 1), ps[p].cmd.right, "right"), [ps[p] EXCEPT !.pc = "close"])
ParentKeeps(fd, p) == [fd EXCEPT ![p[1]] = Closed]
ParentCloses(fd, p) == BothClosed(fd, p)
ClosePipe(p) ==
  /\ At(p, "close") /\ NoFork
  /\ Becomes([ps EXCEPT ![p] = Waits([@ EXCEPT !.fd = ParentCloses(@, ps[p].p)], 2, "exit")])
Leave(p) == (At(p, "exit") \/ At(p, "nosh")) /\ Becomes(Exited(ps, p)) /\ NoFork

(* A program ends at the end of its input. *)
Program(p) ==
  LET in == ps[p].fd[0]
  IN  /\ At(p, "prog") /\ NoFork
      /\ in[1] = "r" => ~Holds(ps, <<"w", in[2], "">>)
      /\ Becomes(Exited(ps, p))

Init ==
  /\ ps = [p \in Procs |-> IF p = 1 THEN [Free EXCEPT !.pc = "start", !.fd = Standard] ELSE Free]
  /\ line = [ts |-> <<>>, c |-> Exec(<<>>), ok |-> TRUE] /\ typed = 0 /\ forkFailed = FALSE

Step(p) ==
  \/ ExecSh(p) \/ Spawn(p) \/ SyntaxError(p) \/ Wait(p)
  \/ RunExec(p) \/ RunRedir(p) \/ RunList(p) \/ RunBack(p)
  \/ RunPipe(p) \/ RunLeft(p) \/ RunRight(p) \/ ClosePipe(p) \/ Leave(p) \/ Program(p)

InitStep == InitShell \/ \E c \in Procs : InitWait(c)

Next ==
  \/ InitStep
  \/ \E p \in Procs : Step(p) \/ EndOfInput(p) \/ GetCmd(p)

(* The scheduler runs every process that can run; nobody has to type. *)
Spec == Init /\ [][Next]_vars /\ WF_vars(InitStep) /\ \A p \in Procs : WF_vars(Step(p))

-----------------------------------------------------------------------------
TypeOK ==
  /\ \A p \in Procs : /\ IF p = 1 \/ ps[p].pc = "unused" THEN ps[p].parent = 0 ELSE ps[p].parent \in Procs
                       /\ ps[p].n \in Procs \cup {0}
                       /\ ps[p].p \in Fds \X Fds /\ Len(ps[p].path) <= Len(line.ts) + 1
  /\ typed \in 0 .. MaxLines /\ forkFailed \in BOOLEAN

(* parsecmd() accepts exactly the lines of the grammar, and a line has only  *)
(* one reading, the one it returns.                                          *)
ParserRight ==
  (\E p \in Procs : At(p, "typed")) =>
    LineOf(line.ts) = IF line.ok THEN {line.c} ELSE {}

(* Where a program's input and output go, by its place in the command.       *)
RECURSIVE Expected(_, _, _)
Expected(c, path, io) ==
  CASE path = <<>> -> io
    [] path # <<>> /\ Head(path) = "first" -> Expected(c.left, Tail(path), io)
    [] path # <<>> /\ Head(path) = "then" -> Expected(c.right, Tail(path), io)
    [] path # <<>> /\ Head(path) = "back" -> Expected(c.cmd, Tail(path), io)
    [] path # <<>> /\ Head(path) = "left" -> Expected(c.left, Tail(path), [io EXCEPT ![1] = <<"w", "">>])
    [] path # <<>> /\ Head(path) = "right" -> Expected(c.right, Tail(path), [io EXCEPT ![0] = <<"r", "">>])
    [] OTHER -> Expected(c.cmd, Tail(path), [io EXCEPT ![c.fd] = <<"file", c.file>>])

OfThisLine(p) == ps[p].path # <<>> /\ ps[p].path[1] = ToString(typed)
Neighbours(p, q) ==
  /\ At(p, "prog") /\ At(q, "prog") /\ Front(ps[p].path) = Front(ps[q].path)
  /\ Last(ps[p].path) = "left" /\ Last(ps[q].path) = "right"

(* A program starts with its input, output and errors on descriptors 0, 1    *)
(* and 2 and no other open; neighbours in a pipeline share a pipe.           *)
Plumbing ==
  /\ \A p \in Procs : At(p, "prog") /\ OfThisLine(p) =>
       LET io == Expected(line.c, Tail(ps[p].path), [k \in {0, 1} |-> <<"console", "">>])
       IN  \A k \in Fds : <<ps[p].fd[k][1], ps[p].fd[k][3]>> =
             CASE k <= 1 -> io[k] [] k = 2 -> <<"console", "">> [] OTHER -> <<"none", "">>
  /\ \A p, q \in Procs : Neighbours(p, q) => ps[p].fd[1][2] = ps[q].fd[0][2]

(* "a ; b": b starts when every foreground process of a has ended, unless a  *)
(* fork() failed on the way.  Every wait() of runcmd() and of the prompt is  *)
(* for a child forked for it: a background job is never collected in the     *)
(* place of another.                                                         *)
Overtakes(p, q) ==
  \E k \in 1 .. Len(ps[p].path) - 1 :
    /\ k < Len(ps[q].path) /\ SubSeq(ps[p].path, 1, k) = SubSeq(ps[q].path, 1, k)
    /\ ps[p].path[k + 1] = "first" /\ ps[q].path[k + 1] = "then"
    /\ \A i \in k + 2 .. Len(ps[p].path) : ps[p].path[i] # "back"
Sequenced ==
  /\ TypeOK
  /\ ~forkFailed => \A p, q \in Procs : Alive(ps, p) /\ Alive(ps, q) => ~Overtakes(p, q)
  /\ \A p \in Procs : At(p, "wait") =>
       Cardinality({c \in Procs : ps[c].parent = p /\ ps[c].pc # "unused"}) = ps[p].n

(* A typed line leads to a prompt again: no end of a pipe is left open in a  *)
(* process that waits for its reader, whichever fork(), open(), pipe() or    *)
(* exec() fails; or init found the process table full, or no sh to exec().   *)
PromptReturns ==
  (\E p \in Procs : At(p, "typed")) ~>
    ((\E p \in Procs : At(p, "prompt") \/ At(p, "nosh")) \/ Halted)
=============================================================================
