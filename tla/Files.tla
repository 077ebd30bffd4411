------------------------------- MODULE Files -------------------------------
(***************************************************************************)
(* Descriptors, the file table and pipes: sysfile.c, file.c and pipe.c.    *)
(* What happens under ftable.lock or a pipe's lock is one step; a process  *)
(* touches its own descriptors in between.  fileclose() releases           *)
(* ftable.lock before it calls pipeclose(), and so do two steps here.      *)
(* pipealloc() takes its two files in two steps.                           *)
(***************************************************************************)
EXTENDS Integers, Sequences, FiniteSets

CONSTANTS
  Procs,
  NFILE, NOFILE,
  PIPESIZE,  \* 512
  UINT,      \* nread and nwrite count modulo this: 2^32
  Pages,     \* of memory, for pipes
  Bytes,
  Counts,    \* bound: the n of a read()
  Buffers,   \* bound: what a write() is given
  MaxSent    \* bound: bytes written to a pipe in its life

ASSUME FilesAssumption ==
  /\ PIPESIZE \in Nat \ {0} /\ UINT \in Nat /\ UINT > PIPESIZE /\ UINT % PIPESIZE = 0
  /\ Buffers \subseteq Seq(Bytes) /\ Bytes # {} /\ Counts \subseteq Nat /\ MaxSent \in Nat
  /\ NFILE \in Nat /\ NOFILE \in Nat /\ IsFiniteSet(Procs) /\ 0 \notin Pages

Files == 1..NFILE
Fds == 0 .. NOFILE - 1
NoFile == 0
None == [page |-> 0, writable |-> FALSE]

VARIABLES
  ref, type, end,    \* struct file; end: the page of its pipe and writable
  ofile, alive,      \* per process: descriptors, between fork() and exit()
  free,              \* kmem.freelist
  data, nread, nwrite, readopen, writeopen,  \* struct pipe
  pc, chan,          \* where a process is; the channel it sleeps on
  file, buf, want,   \* the file it uses, the bytes to write, the number to read
  todo, closing,     \* the files to close yet, the end of a pipe to close
  sent, out, eof     \* per pipe: bytes written, bytes read, an end of file seen

ftable == <<ref, type, end>>
fds == <<ofile, alive>>
pipe == <<data, nread, nwrite, readopen, writeopen, free>>
work == <<file, buf, want>>
hist == <<sent, out, eof>>
vars == <<ftable, fds, pipe, pc, chan, work, todo, closing, hist>>

Goto(p, l) == pc' = [pc EXCEPT ![p] = l]
At(p, l) == alive[p] /\ pc[p] = l /\ chan[p] = "none"
(* wakeup(): of those that sleep on channel c of pipe g. *)
Woken(g, c) ==
  [p \in Procs |-> IF chan[p] = c /\ end[file[p]].page = g THEN "none" ELSE chan[p]]

(* kfree() fills a page with junk: any one value will do. *)
Junk == [i \in 0 .. PIPESIZE - 1 |-> CHOOSE b \in Bytes : TRUE]

Init ==
  /\ ref = [f \in Files |-> 0] /\ type = [f \in Files |-> "NONE"]
  /\ end = [f \in Files |-> None]
  /\ ofile = [p \in Procs |-> [d \in Fds |-> NoFile]]
  /\ \E p \in Procs : alive = [q \in Procs |-> q = p]
  /\ data = [g \in Pages |-> Junk]
  /\ nread = [g \in Pages |-> 0] /\ nwrite = [g \in Pages |-> 0]
  /\ readopen = [g \in Pages |-> FALSE] /\ writeopen = [g \in Pages |-> FALSE]
  /\ free = Pages
  /\ pc = [p \in Procs |-> "user"] /\ chan = [p \in Procs |-> "none"]
  /\ file = [p \in Procs |-> NoFile] /\ buf = [p \in Procs |-> <<>>]
  /\ want = [p \in Procs |-> 0] /\ todo = [p \in Procs |-> <<>>]
  /\ closing = [p \in Procs |-> None]
  /\ sent = [g \in Pages |-> 0] /\ out = [g \in Pages |-> <<>>]
  /\ eof = [g \in Pages |-> FALSE]

(* filealloc(): the first file without references. *)
FreeFile == {f \in Files : ref[f] = 0}
FreeFd(p) == {d \in Fds : ofile[p][d] = NoFile}
Least(D) == CHOOSE d \in D : \A e \in D : d <= e
FileAlloc(f) == f \in FreeFile /\ (\A g \in FreeFile : f <= g) /\ ref' = [ref EXCEPT ![f] = 1]

(* close the files of s, one after the other *)
Close(p, s) == todo' = [todo EXCEPT ![p] = s] /\ Goto(p, "close")

(* pipealloc(): two files, or none, ... *)
PipeAlloc0(p) ==
  /\ At(p, "user")
  /\ \/ FreeFile = {} /\ UNCHANGED <<ref, file, pc>>
     \/ \E f \in Files : FileAlloc(f) /\ file' = [file EXCEPT ![p] = f] /\ Goto(p, "pipe")
  /\ UNCHANGED <<type, end, fds, pipe, chan, buf, want, todo, closing, hist>>

(* ... a page for the pipe (kalloc() panics without one), and sys_pipe()     *)
(* finds two descriptors or closes both files.                               *)
PipeAlloc1(p) ==
  /\ At(p, "pipe")
  /\ \/ /\ FreeFile = {} /\ Close(p, <<file[p]>>)
        /\ UNCHANGED <<ref, type, end, ofile, pipe, hist>>
     \/ \E f1 \in Files, g \in free :
          LET f0 == file[p] IN
          /\ FileAlloc(f1)
          /\ type' = [type EXCEPT ![f0] = "PIPE", ![f1] = "PIPE"]
          /\ end' = [end EXCEPT ![f0] = [page |-> g, writable |-> FALSE],
                                ![f1] = [page |-> g, writable |-> TRUE]]
          /\ free' = free \ {g}
          /\ readopen' = [readopen EXCEPT ![g] = TRUE]
          /\ writeopen' = [writeopen EXCEPT ![g] = TRUE]
          /\ nread' = [nread EXCEPT ![g] = 0] /\ nwrite' = [nwrite EXCEPT ![g] = 0]
          /\ IF Cardinality(FreeFd(p)) < 2
             THEN Close(p, <<f0, f1>>) /\ UNCHANGED ofile
             ELSE LET d0 == Least(FreeFd(p))
                      d1 == Least(FreeFd(p) \ {d0})
                  IN /\ ofile' = [ofile EXCEPT ![p][d0] = f0, ![p][d1] = f1]
                     /\ Goto(p, "user") /\ UNCHANGED todo
          /\ UNCHANGED <<data, hist>>
  /\ file' = [file EXCEPT ![p] = NoFile]
  /\ UNCHANGED <<alive, chan, buf, want, closing>>

(* sys_open(): a file for an inode. *)
SysOpen(p) ==
  /\ At(p, "user")
  /\ \E f \in Files :
       /\ FileAlloc(f)
       /\ IF FreeFd(p) = {} THEN Close(p, <<f>>) /\ UNCHANGED <<type, ofile>>
          ELSE /\ type' = [type EXCEPT ![f] = "INODE"]
               /\ ofile' = [ofile EXCEPT ![p][Least(FreeFd(p))] = f]
               /\ UNCHANGED <<pc, todo>>
  /\ UNCHANGED <<end, alive, pipe, chan, work, closing, hist>>

(* sys_dup(): fdalloc(), then filedup(). *)
SysDup(p, d) ==
  /\ At(p, "user") /\ ofile[p][d] # NoFile /\ FreeFd(p) # {}
  /\ ofile' = [ofile EXCEPT ![p][Least(FreeFd(p))] = ofile[p][d]]
  /\ ref' = [ref EXCEPT ![ofile[p][d]] = @ + 1]
  /\ UNCHANGED <<type, end, alive, pipe, pc, chan, work, todo, closing, hist>>

SysClose(p, d) ==
  /\ At(p, "user") /\ ofile[p][d] # NoFile
  /\ ofile' = [ofile EXCEPT ![p][d] = NoFile] /\ Close(p, <<ofile[p][d]>>)
  /\ UNCHANGED <<ftable, alive, pipe, chan, work, closing, hist>>

(* fork(): filedup() of each descriptor (the parent's own references keep the *)
(* files open meanwhile, so the loop is one step).                            *)
DupOnce(p, f) == IF \E d \in Fds : ofile[p][d] = f THEN ref[f] + 1 ELSE ref[f]
Dup(p, f) == ref[f] + Cardinality({d \in Fds : ofile[p][d] = f})
Fork(p, c) ==
  /\ At(p, "user") /\ ~alive[c] /\ alive' = [alive EXCEPT ![c] = TRUE]
  /\ ofile' = [ofile EXCEPT ![c] = ofile[p]]
  /\ ref' = [f \in Files |-> Dup(p, f)] /\ Goto(c, "user")
  /\ UNCHANGED <<type, end, pipe, chan, work, todo, closing, hist>>
Exit(p) ==
  /\ At(p, "user") /\ \E q \in Procs \ {p} : alive[q] /\ pc[q] # "exit"  \* init stays
  /\ Goto(p, "exit")
  /\ UNCHANGED <<ftable, fds, pipe, chan, work, todo, closing, hist>>

(* fileclose(): drop a reference; the last one frees the file (its stale    *)
(* pipe pointer, which nobody reads, is forgotten here), ...                *)
Drop(p, f) ==
  /\ ref' = [ref EXCEPT ![f] = @ - 1]
  /\ IF ref[f] > 1 THEN UNCHANGED <<type, end, closing>>
     ELSE /\ type' = [type EXCEPT ![f] = "NONE"] /\ end' = [end EXCEPT ![f] = None]
          /\ closing' = [closing EXCEPT ![p] = IF type[f] = "PIPE" THEN end[f] ELSE None]
  /\ UNCHANGED <<alive, pipe, pc, chan, work, hist>>
FileClose(p) ==
  /\ At(p, "close") /\ closing[p] = None /\ todo[p] # <<>>
  /\ Drop(p, Head(todo[p])) /\ todo' = [todo EXCEPT ![p] = Tail(@)]
  /\ UNCHANGED ofile

(* exit() closes its descriptors in turn. *)
ExitClose(p) ==
  /\ At(p, "exit") /\ closing[p] = None /\ FreeFd(p) # Fds
  /\ LET d == Least(Fds \ FreeFd(p))
     IN Drop(p, ofile[p][d]) /\ ofile' = [ofile EXCEPT ![p][d] = NoFile]
  /\ UNCHANGED todo

(* ... then pipeclose() closes its end, and frees the pipe with the other. *)
FreedEarly(g) == ~readopen'[g] \/ ~writeopen'[g]
Freed(g) == ~readopen'[g] /\ ~writeopen'[g]
OwnEnd(w) == IF w THEN "nwrite" ELSE "nread"
OtherEnd(w) == IF w THEN "nread" ELSE "nwrite"
PipeClose(p) ==
  LET g == closing[p].page
      w == closing[p].writable
  IN /\ closing[p] # None
     /\ writeopen' = [writeopen EXCEPT ![g] = @ /\ ~w]
     /\ readopen' = [readopen EXCEPT ![g] = @ /\ w]
     /\ chan' = Woken(g, OtherEnd(w))
     /\ IF Freed(g)
        THEN /\ free' = free \cup {g} /\ data' = [data EXCEPT ![g] = Junk]
             /\ nread' = [nread EXCEPT ![g] = 0] /\ nwrite' = [nwrite EXCEPT ![g] = 0]
             /\ sent' = [sent EXCEPT ![g] = 0] /\ out' = [out EXCEPT ![g] = <<>>]
             /\ eof' = [eof EXCEPT ![g] = FALSE]
        ELSE UNCHANGED <<free, data, nread, nwrite, hist>>
     /\ closing' = [closing EXCEPT ![p] = None]
     /\ UNCHANGED <<ftable, fds, pc, work, todo>>
Closed(p) ==
  /\ closing[p] = None
  /\ (At(p, "close") /\ todo[p] = <<>>) \/ (At(p, "exit") /\ FreeFd(p) = Fds)
  /\ alive' = [alive EXCEPT ![p] = pc[p] = "close"] /\ Goto(p, "user")
  /\ UNCHANGED <<ftable, ofile, pipe, chan, work, todo, closing, hist>>
------------------------------------------------------------------------------
Full(g) == nwrite[g] = (nread[g] + PIPESIZE) % UINT
Empty(g) == nread[g] = nwrite[g]
Held(g) == (nwrite[g] - nread[g]) % UINT
RoomAndOne(g) == PIPESIZE - Held(g) + 1
Room(g) == PIPESIZE - Held(g)
NeverEmpty(g) == FALSE
MustWait(g) == Empty(g) /\ writeopen[g]
Wrap(n) == n % UINT
AtMost(m, n) == IF m <= n THEN m ELSE n

(* data[] d after the first n bytes of s are stored in it from w on, and the  *)
(* n oldest bytes of a pipe.                                                  *)
Stored(d, w, s, n) ==
  [i \in 0 .. PIPESIZE - 1 |->
     IF \E k \in 1..n : i = (w + k - 1) % PIPESIZE
     THEN s[CHOOSE k \in 1..n : i = (w + k - 1) % PIPESIZE] ELSE d[i]]
Oldest(g, n) == [k \in 1..n |-> data[g][(nread[g] + k - 1) % PIPESIZE]]

(* read() and write() of a descriptor: fileread(), filewrite(). *)
SysWrite(p, d, s) ==
  /\ At(p, "user") /\ ofile[p][d] # NoFile
  /\ type[ofile[p][d]] = "PIPE" /\ end[ofile[p][d]].writable
  /\ sent[end[ofile[p][d]].page] + Len(s) <= MaxSent
  /\ file' = [file EXCEPT ![p] = ofile[p][d]] /\ buf' = [buf EXCEPT ![p] = s]
  /\ sent' = [sent EXCEPT ![end[ofile[p][d]].page] = @ + Len(s)] /\ Goto(p, "write")
  /\ UNCHANGED <<ftable, fds, pipe, chan, want, todo, closing, out, eof>>
SysRead(p, d, n) ==
  /\ At(p, "user") /\ ofile[p][d] # NoFile
  /\ type[ofile[p][d]] = "PIPE" /\ ~end[ofile[p][d]].writable
  /\ file' = [file EXCEPT ![p] = ofile[p][d]] /\ want' = [want EXCEPT ![p] = n]
  /\ Goto(p, "read")
  /\ UNCHANGED <<ftable, fds, pipe, chan, buf, todo, closing, hist>>

(* pipewrite(): store bytes until none is left or the pipe is full; then    *)
(* fail if nobody can read, or wake readers and sleep.                      *)
PipeWrite(p) ==
  LET g == end[file[p]].page
      n == AtMost(Len(buf[p]), Room(g))
      done == n = Len(buf[p])
  IN /\ At(p, "write")
     /\ data' = [data EXCEPT ![g] = Stored(@, nwrite[g], buf[p], n)]
     /\ nwrite' = [nwrite EXCEPT ![g] = Wrap(@ + n)]
     /\ IF done \/ ~readopen[g]
        THEN /\ Goto(p, "user") /\ buf' = [buf EXCEPT ![p] = <<>>]
             /\ file' = [file EXCEPT ![p] = NoFile]
             /\ chan' = IF done THEN Woken(g, "nread") ELSE chan
        ELSE /\ buf' = [buf EXCEPT ![p] = SubSeq(@, n + 1, Len(@))]
             /\ chan' = [Woken(g, "nread") EXCEPT ![p] = "nwrite"]
             /\ UNCHANGED <<pc, file>>
     /\ UNCHANGED <<ftable, fds, nread, readopen, writeopen, free, want, todo, closing, hist>>

(* piperead(): sleep while there is nothing to read and somebody may write;  *)
(* else take what there is, and wake writers.                                *)
PipeRead(p) ==
  LET g == end[file[p]].page
      n == AtMost(want[p], Held(g))
  IN /\ At(p, "read")
     /\ IF MustWait(g)
        THEN /\ chan' = [chan EXCEPT ![p] = "nread"]
             /\ UNCHANGED <<nread, out, eof, pc, file, want>>
        ELSE /\ out' = [out EXCEPT ![g] = @ \o Oldest(g, n)]
             /\ nread' = [nread EXCEPT ![g] = Wrap(@ + n)]
             /\ eof' = [eof EXCEPT ![g] = @ \/ (n = 0 /\ want[p] > 0)]
             /\ chan' = Woken(g, "nwrite") /\ Goto(p, "user")
             /\ file' = [file EXCEPT ![p] = NoFile] /\ want' = [want EXCEPT ![p] = 0]
     /\ UNCHANGED <<ftable, fds, data, nwrite, readopen, writeopen, free, buf, todo, closing, sent>>

(* kill() and alarms wake a sleeper whatever it waits for. *)
Kill(p) ==
  /\ chan[p] # "none" /\ chan' = [chan EXCEPT ![p] = "none"]
  /\ UNCHANGED <<ftable, fds, pipe, pc, work, todo, closing, hist>>
------------------------------------------------------------------------------
Next == \E p \in Procs :
  \/ PipeAlloc0(p) \/ PipeAlloc1(p) \/ SysOpen(p) \/ Exit(p)
  \/ FileClose(p) \/ ExitClose(p) \/ PipeClose(p) \/ Closed(p) \/ PipeWrite(p) \/ PipeRead(p) \/ Kill(p)
  \/ \E c \in Procs : Fork(p, c)
  \/ \E d \in Fds :
       \/ SysDup(p, d) \/ SysClose(p, d)
       \/ (\E n \in Counts : SysRead(p, d, n)) \/ (\E s \in Buffers : SysWrite(p, d, s))

Spec == Init /\ [][Next]_vars
------------------------------------------------------------------------------
Ends == {[page |-> g, writable |-> w] : g \in Pages, w \in BOOLEAN}

(* Types. *)
TypeOK ==
  /\ ref \in [Files -> Nat] /\ type \in [Files -> {"NONE", "PIPE", "INODE"}]
  /\ end \in [Files -> Ends \cup {None}] /\ closing \in [Procs -> Ends \cup {None}]
  /\ ofile \in [Procs -> [Fds -> Files \cup {NoFile}]] /\ alive \in [Procs -> BOOLEAN]
  /\ nread \in [Pages -> 0 .. UINT - 1] /\ nwrite \in [Pages -> 0 .. UINT - 1]
  /\ readopen \in [Pages -> BOOLEAN] /\ writeopen \in [Pages -> BOOLEAN]
  /\ free \subseteq Pages
  /\ pc \in [Procs -> {"user", "pipe", "close", "exit", "read", "write"}]
  /\ chan \in [Procs -> {"none", "nread", "nwrite"}]
  /\ file \in [Procs -> Files \cup {NoFile}]
  /\ buf \in [Procs -> Seq(Bytes)] /\ want \in [Procs -> Nat] /\ todo \in [Procs -> Seq(Files)]
  /\ data \in [Pages -> [0 .. PIPESIZE - 1 -> Bytes]] /\ sent \in [Pages -> Nat]
  /\ out \in [Pages -> Seq(Bytes)] /\ eof \in [Pages -> BOOLEAN]

(* A file is referenced by every descriptor that names it and every call     *)
(* that is to close or install it, which names it once, so the panics of     *)
(* filedup() and fileclose() ("if(f->ref < 1)") are out of reach and no file *)
(* is reused while open.                                                     *)
Descriptors(f) == {u \in Procs \X Fds : ofile[u[1]][u[2]] = f}
Pending(f) ==
  {p \in Procs : (\E i \in 1..Len(todo[p]) : todo[p][i] = f) \/ (pc[p] = "pipe" /\ file[p] = f)}
RefsCounted ==
  /\ TypeOK
  /\ \A p \in Procs : \A i, j \in 1..Len(todo[p]) : todo[p][i] = todo[p][j] => i = j
  /\ \A p \in Procs : pc[p] = "pipe" => todo[p] = <<>>
  /\ \A f \in Files : ref[f] = Cardinality(Descriptors(f)) + Cardinality(Pending(f))

(* No pipe is used after it was freed: the ends that descriptors name and    *)
(* the ends being closed are open, once each, and their page is not free.    *)
(* And none leaks: an open end has a file or is about to be closed, and a    *)
(* page is given back when both ends are closed.                             *)
OpenEnd(e) == IF e.writable THEN writeopen[e.page] ELSE readopen[e.page]
NoDangling ==
  /\ \A f \in Files : type[f] = "PIPE" =>
       /\ end[f].page \notin free /\ OpenEnd(end[f])
       /\ \A h \in Files \ {f} : type[h] = "PIPE" => end[h] # end[f]
       /\ \A p \in Procs : closing[p] # end[f]
  /\ \A p \in Procs : closing[p] # None => closing[p].page \notin free /\ OpenEnd(closing[p])
  /\ \A e \in Ends : OpenEnd(e) =>
       (\E f \in Files : type[f] = "PIPE" /\ end[f] = e) \/ (\E p \in Procs : closing[p] = e)
  /\ \A g \in Pages : g \in free <=> ~readopen[g] /\ ~writeopen[g]

(* Nobody sleeps in piperead() unless the pipe is empty and may still be     *)
(* written, nor in pipewrite() unless it is full and may still be read.      *)
NoLostWakeup ==
  \A p \in Procs :
    LET g == end[file[p]].page
    IN /\ chan[p] = "nread" => Empty(g) /\ writeopen[g]
       /\ chan[p] = "nwrite" => Full(g) /\ readopen[g]

(* An end of file is final: once a read() has returned 0 no process has a    *)
(* descriptor, or a call under way, that could write to the pipe.            *)
EofIsFinal ==
  \A g \in Pages \ free : eof[g] =>
    /\ Empty(g)
    /\ \A f \in Files : type[f] = "PIPE" => end[f] # [page |-> g, writable |-> TRUE]

Contents(g) == Oldest(g, Held(g))
Abs == INSTANCE ByteStreams
         WITH live <- Pages \ free,
              queue <- [g \in Pages |-> IF g \in free THEN <<>> ELSE Contents(g)],
              out <- [g \in Pages |-> IF g \in free THEN <<>> ELSE out[g]]

(* Readers get the bytes that were written, in order, none lost or twice,    *)
(* also when nread and nwrite wrap: pipe.c implements bounded byte streams.  *)
Streams == Abs!Spec
=============================================================================
