----------------------------- MODULE FilesSteps -----------------------------
(* What every step of the file table and of the pipes keeps, for any number  *)
(* of processes, files, descriptors and pages and any PIPESIZE.  The counts  *)
(* of references are in FilesProofs, with the theorems.                      *)
EXTENDS Files, TLAPS

(* What a call closes, it closes once, and nobody else is closing files.     *)
TodoInv ==
  /\ \A p \in Procs : \A i, j \in 1..Len(todo[p]) : todo[p][i] = todo[p][j] => i = j
  /\ \A p \in Procs : pc[p] # "close" => todo[p] = <<>>
RefInv == \A f \in Files : ref[f] = Cardinality(Descriptors(f)) + Cardinality(Pending(f))

(* What the counts imply: a file in use has references enough for those who  *)
(* use it.                                                                   *)
Suffice(f) ==
  /\ \A p \in Procs, d \in Fds : ofile[p][d] = f => ref[f] >= 1
  /\ \A p \in Pending(f) : ref[f] >= 1
  /\ \A p \in Procs, d \in Fds, q \in Pending(f) : ofile[p][d] = f => ref[f] >= 2
  /\ \A p, q \in Procs, d, e \in Fds :
       ofile[p][d] = f /\ ofile[q][e] = f /\ p # q => ref[f] >= 2
  /\ \A p, q \in Pending(f) : p # q => ref[f] >= 2
UseInv ==
  \A f \in Files :
    Suffice(f) /\ \A p \in Procs : Cardinality({d \in Fds : ofile[p][d] = f}) \in Nat

(* A file without references has no type; a file of a pipe has an end of it. *)
FileInv ==
  \A f \in Files : (ref[f] = 0 => type[f] = "NONE") /\ (type[f] = "PIPE" => end[f] \in Ends)

(* The file a call is about, and what a process that is not alive has.       *)
CallInv ==
  /\ \A p \in Procs : ~alive[p] => pc[p] = "user" /\ \A d \in Fds : ofile[p][d] = NoFile
  /\ \A p \in Procs : pc[p] = "pipe" => file[p] \in Files /\ type[file[p]] = "NONE"
  /\ \A p, q \in Procs : pc[p] = "pipe" /\ pc[q] = "pipe" /\ file[p] = file[q] => p = q
  /\ \A p \in Procs : pc[p] \in {"read", "write"} =>
       /\ file[p] \in Files /\ type[file[p]] = "PIPE"
       /\ end[file[p]].writable = (pc[p] = "write")
       /\ \E d \in Fds : ofile[p][d] = file[p]
  /\ \A p \in Procs : chan[p] # "none" => pc[p] = (IF chan[p] = "nread" THEN "read" ELSE "write")

(* No end of a pipe is closed twice. *)
EndInv ==
  /\ NoDangling
  /\ \A p, q \in Procs : closing[p] = closing[q] /\ closing[p] # None => p = q

(* A pipe holds no more than it can; after an end of file it is empty and    *)
(* nobody can write; a free page has no history.                             *)
PipeInv ==
  \A g \in Pages :
    /\ Held(g) <= PIPESIZE
    /\ eof[g] => g \notin free /\ Empty(g) /\ ~writeopen[g]
    /\ g \in free => out[g] = <<>>

IInv ==
  TypeOK /\ TodoInv /\ RefInv /\ UseInv /\ FileInv /\ CallInv /\ EndInv /\ PipeInv /\ NoLostWakeup
------------------------------------------------------------------------------
(* The calls, split into the ways they end.  pipealloc()'s first file; ... *)
TakeFile(p, f) ==
  /\ At(p, "user") /\ ref[f] = 0
  /\ ref' = [ref EXCEPT ![f] = 1] /\ file' = [file EXCEPT ![p] = f] /\ Goto(p, "pipe")
  /\ UNCHANGED <<type, end, fds, pipe, chan, buf, want, todo, closing, hist>>
(* ... no second one; ... *)
OneFile(p) ==
  /\ At(p, "pipe") /\ Close(p, <<file[p]>>) /\ file' = [file EXCEPT ![p] = NoFile]
  /\ UNCHANGED <<ref, type, end, ofile, pipe, hist, alive, chan, buf, want, closing>>
(* ... both, for the ends of pipe g, ... *)
NewPipe(p, f1, g) ==
  /\ At(p, "pipe") /\ ref[f1] = 0 /\ ref' = [ref EXCEPT ![f1] = 1]
  /\ type' = [type EXCEPT ![file[p]] = "PIPE", ![f1] = "PIPE"]
  /\ end' = [end EXCEPT ![file[p]] = [page |-> g, writable |-> FALSE],
                        ![f1] = [page |-> g, writable |-> TRUE]]
  /\ free' = free \ {g}
  /\ readopen' = [readopen EXCEPT ![g] = TRUE] /\ writeopen' = [writeopen EXCEPT ![g] = TRUE]
  /\ nread' = [nread EXCEPT ![g] = 0] /\ nwrite' = [nwrite EXCEPT ![g] = 0]
  /\ file' = [file EXCEPT ![p] = NoFile]
  /\ UNCHANGED <<data, hist, alive, chan, buf, want, closing>>
(* ... with descriptors d0 and d1, or without. *)
Installed(p, f1, d0, d1) ==
  /\ ofile[p][d0] = NoFile /\ ofile[p][d1] = NoFile /\ d0 # d1
  /\ ofile' = [ofile EXCEPT ![p][d0] = file[p], ![p][d1] = f1]
  /\ Goto(p, "user") /\ UNCHANGED todo
NotInstalled(p, f1) == Close(p, <<file[p], f1>>) /\ UNCHANGED ofile

(* open() without, or with, a descriptor d; dup() to descriptor e; exit()    *)
(* closing descriptor d.                                                     *)
OpenFails(p, f) ==
  /\ At(p, "user") /\ ref[f] = 0 /\ ref' = [ref EXCEPT ![f] = 1]
  /\ Close(p, <<f>>)
  /\ UNCHANGED <<type, end, fds, pipe, chan, work, closing, hist>>
Opens(p, f, d) ==
  /\ At(p, "user") /\ ref[f] = 0 /\ ref' = [ref EXCEPT ![f] = 1]
  /\ type' = [type EXCEPT ![f] = "INODE"]
  /\ ofile[p][d] = NoFile /\ ofile' = [ofile EXCEPT ![p][d] = f]
  /\ UNCHANGED <<end, alive, pipe, pc, chan, work, todo, closing, hist>>
Dups(p, d, e) ==
  /\ At(p, "user") /\ ofile[p][d] # NoFile
  /\ ofile[p][e] = NoFile /\ ofile' = [ofile EXCEPT ![p][e] = ofile[p][d]]
  /\ ref' = [ref EXCEPT ![ofile[p][d]] = @ + 1]
  /\ UNCHANGED <<type, end, alive, pipe, pc, chan, work, todo, closing, hist>>
ExitDrops(p, d) ==
  /\ At(p, "exit") /\ closing[p] = None /\ ofile[p][d] # NoFile
  /\ Drop(p, ofile[p][d]) /\ ofile' = [ofile EXCEPT ![p][d] = NoFile]
  /\ UNCHANGED todo

Steps == \E p \in Procs :
  \/ \E f \in Files : TakeFile(p, f) \/ OpenFails(p, f)
  \/ OneFile(p)
  \/ \E f1 \in Files, g \in free :
       NewPipe(p, f1, g) /\ (NotInstalled(p, f1) \/ \E d0, d1 \in Fds : Installed(p, f1, d0, d1))
  \/ \E f \in Files, d \in Fds : Opens(p, f, d)
  \/ \E d, e \in Fds : Dups(p, d, e)
  \/ Exit(p) \/ FileClose(p) \/ PipeClose(p) \/ Closed(p)
  \/ PipeWrite(p) \/ PipeRead(p) \/ Kill(p)
  \/ \E c \in Procs : Fork(p, c)
  \/ \E d \in Fds :
       \/ SysClose(p, d) \/ ExitDrops(p, d)
       \/ (\E n \in Counts : SysRead(p, d, n)) \/ (\E s \in Buffers : SysWrite(p, d, s))
  \/ UNCHANGED vars

------------------------------------------------------------------------------
(* Arithmetic modulo u. *)
LEMMA ModRange ==
  ASSUME NEW u \in Nat, u > 0, NEW a \in Int
  PROVE  a % u \in 0 .. u - 1
OBVIOUS

(* A sum that passes u wraps once, ... *)
LEMMA ModSum ==
  ASSUME NEW u \in Nat, u > 0, NEW a \in 0 .. u - 1, NEW n \in 0..u
  PROVE  (a + n) % u = IF a + n < u THEN a + n ELSE a + n - u
OBVIOUS

(* ... and so does a difference. *)
LEMMA ModDiff ==
  ASSUME NEW u \in Nat, u > 0, NEW a \in 0 .. u - 1, NEW b \in 0 .. u - 1
  PROVE  (a - b) % u = IF a >= b THEN a - b ELSE a - b + u
OBVIOUS

(* Division with a remainder, ... *)
LEMMA DivMod ==
  ASSUME NEW u \in Nat, u > 0, NEW a \in Int
  PROVE  \E q \in Int : a = u * q + (a % u) /\ a % u \in 0 .. u - 1
<1>1. (a \div u) \in Int /\ a = u * (a \div u) + (a % u) /\ a % u \in 0 .. u - 1
  OBVIOUS
<1> QED
  BY <1>1, Zenon

(* ... whose remainder is the only one; ... *)
LEMMA ModUnique ==
  ASSUME NEW u \in Nat, u > 0, NEW q \in Int, NEW r \in 0 .. u - 1
  PROVE  (u * q + r) % u = r
OBVIOUS

(* ... numbers less than u apart differ modulo u, ... *)
LEMMA ModSame ==
  ASSUME NEW u \in Nat, u > 0, NEW a \in Int, NEW b \in Int, a <= b, b - a < u, a % u = b % u
  PROVE  a = b
<1>1. PICK q \in Int : a = u * q + (a % u)
  BY DivMod, Zenon
<1>2. PICK k \in Int : b = u * k + (a % u)
  BY DivMod, Zenon
<1>3. PICK r \in Int : r = a % u
  BY DivMod
<1>4. b - a = u * (k - q)
  BY <1>1, <1>2, <1>3
<1>5. PICK d \in Int : d = k - q
  OBVIOUS
<1>6. CASE d >= 1
  <2>1. u * d >= u
    BY <1>6
  <2> QED BY <1>4, <1>5, <2>1
<1>7. CASE d <= -1
  <2>1. u * d <= -u
    BY <1>7
  <2> QED BY <1>4, <1>5, <2>1
<1> QED
  BY <1>4, <1>5, <1>6, <1>7

(* ... and adding a multiple of u changes nothing.                           *)
LEMMA ModShift ==
  ASSUME NEW u \in Nat, u > 0, NEW v \in Nat, v % u = 0, NEW a \in Int
  PROVE  (a + v) % u = a % u
<1>1. PICK m \in Int : v = u * m + 0
  BY DivMod
<1>2. PICK q \in Int : a = u * q + (a % u) /\ a % u \in 0 .. u - 1
  BY DivMod, Zenon
<1>3. PICK r \in 0 .. u - 1 : r = a % u
  BY <1>2, Zenon
<1>4. a + v = u * (q + m) + r
  BY <1>1, <1>2, <1>3
<1>5. (u * (q + m) + r) % u = r
  BY ModUnique
<1> QED
  BY <1>3, <1>4, <1>5, Zenon

(* The place in data[] of the k-th byte from counter r on. *)
Place(r, k) == (r + k - 1) % PIPESIZE

(* It is a place in data[]. *)
LEMMA PlaceIn ==
  ASSUME NEW r \in Nat, NEW k \in Nat
  PROVE  Place(r, k) \in 0 .. PIPESIZE - 1
<1>1. PIPESIZE \in Nat /\ PIPESIZE > 0 /\ r + k - 1 \in Int
  BY FilesAssumption
<1> QED
  BY <1>1, ModRange, Zenon DEF Place

(* Bytes less than PIPESIZE apart have different places. *)
LEMMA PlaceOnce ==
  ASSUME NEW r \in Nat, NEW i \in 1..PIPESIZE, NEW j \in 1..PIPESIZE, Place(r, i) = Place(r, j)
  PROVE  i = j
<1>1. PIPESIZE \in Nat /\ PIPESIZE > 0
  BY FilesAssumption
<1>2. PICK a \in Int, b \in Int : a = r + i - 1 /\ b = r + j - 1
  BY <1>1
<1>3. a % PIPESIZE = b % PIPESIZE
  BY <1>2, Zenon DEF Place
<1>4. CASE a <= b
  <2>1. b - a < PIPESIZE
    BY <1>1, <1>2
  <2>2. a = b
    BY <1>1, <1>3, <1>4, <2>1, ModSame, Zenon
  <2> QED BY <1>1, <1>2, <2>2
<1>5. CASE b <= a
  <2>1. a - b < PIPESIZE
    BY <1>1, <1>2
  <2>2. b = a
    BY <1>1, <1>3, <1>5, <2>1, ModSame, Zenon
  <2> QED BY <1>1, <1>2, <2>2
<1>6. a <= b \/ b <= a
  OBVIOUS
<1> QED
  BY <1>4, <1>5, <1>6, Zenon

(* A counter that wraps at UINT keeps its place in data[], as PIPESIZE       *)
(* divides UINT.                                                             *)
LEMMA WrapPlace ==
  ASSUME NEW a \in 0 .. UINT - 1, NEW n \in 0..UINT, NEW k \in Nat
  PROVE  Place(Wrap(a + n), k) = Place(a, n + k)
<1>1. UINT \in Nat /\ UINT > 0 /\ PIPESIZE \in Nat /\ PIPESIZE > 0 /\ UINT % PIPESIZE = 0
  BY FilesAssumption
<1>2. Wrap(a + n) = IF a + n < UINT THEN a + n ELSE a + n - UINT
  BY <1>1, ModSum, Zenon DEF Wrap
<1>3. CASE a + n < UINT
  <2>1. a + n + k - 1 = a + (n + k) - 1
    BY <1>1
  <2> QED BY <1>2, <1>3, <2>1, Zenon DEF Place
<1>4. CASE ~(a + n < UINT)
  <2>1. PICK b \in Int : b = Wrap(a + n) + k - 1 /\ b + UINT = a + (n + k) - 1
    BY <1>1, <1>2, <1>4
  <2>2. (b + UINT) % PIPESIZE = b % PIPESIZE
    BY <1>1, ModShift, Zenon
  <2> QED BY <2>1, <2>2, Zenon DEF Place
<1> QED
  BY <1>3, <1>4, Zenon

(* What pipewrite() can add to a pipe, and piperead() can take from it. *)
LEMMA Bounds ==
  ASSUME NEW H \in 0..PIPESIZE, NEW m \in Nat
  PROVE  /\ AtMost(m, PIPESIZE - H) \in 0 .. PIPESIZE - H /\ AtMost(m, PIPESIZE - H) <= m
         /\ AtMost(m, H) \in 0..H
BY FilesAssumption DEF AtMost

(* The numbers of bytes are small. *)
LEMMA Numbers ==
  ASSUME NEW H \in 0..PIPESIZE
  PROVE  /\ H \in Nat /\ PIPESIZE - H \in Nat /\ H <= PIPESIZE
         /\ \A n \in 0..H : n \in Nat /\ n \in 0..UINT /\ n <= H
         /\ \A n \in 0 .. PIPESIZE - H : n \in Nat /\ n <= PIPESIZE - H
BY FilesAssumption

(* Bytes read leave a smaller number held. *)
LEMMA Fewer ==
  ASSUME NEW H \in 0..PIPESIZE, NEW n \in Nat, n <= H
  PROVE  H - n \in 0..H
BY FilesAssumption

(* Bytes written that fit leave a greater one. *)
LEMMA More ==
  ASSUME NEW H \in 0..PIPESIZE, NEW n \in Nat, n <= PIPESIZE - H
  PROVE  H + n \in H..PIPESIZE /\ (n = PIPESIZE - H => H + n = PIPESIZE)
BY FilesAssumption

(* AtMost() is one of its arguments. *)
LEMMA AtMostIs ==
  ASSUME NEW m \in Nat, NEW h \in 0..PIPESIZE
  PROVE  /\ AtMost(m, h) \in Nat /\ AtMost(m, h) <= h
         /\ AtMost(m, h) # m => AtMost(m, h) = h
         /\ AtMost(m, h) = 0 /\ m > 0 => h = 0
BY FilesAssumption DEF AtMost

(* So are the counters, and a part of those held is held. *)
LEMMA Parts ==
  /\ \A r \in 0 .. UINT - 1 : r \in Nat
  /\ \A H, n \in Nat : n <= H => /\ \A k \in 1..n : k \in Nat /\ k \in 1..H
                                 /\ \A k \in 1 .. H - n : k \in Nat /\ n + k \in 1..H
BY FilesAssumption

(* The n bytes behind the H held: none is one of those, none counts twice. *)
LEMMA Behind ==
  ASSUME NEW H \in 0..PIPESIZE, NEW n \in 0 .. PIPESIZE - H
  PROVE  /\ \A k \in 1..H : k \in 1..PIPESIZE /\ \A j \in 1..n : k # H + j
         /\ \A j \in 1..n : j \in Nat /\ H + j \in 1..PIPESIZE /\ H + j \in Nat
         /\ \A j, k \in 1..n : H + j = H + k => j = k
         /\ \A k \in 1 .. H + n : /\ k <= H => k \in 1..H
                                  /\ ~(k <= H) => \E j \in 1..n : k = H + j /\ j = k - H
<1>1. PIPESIZE \in Nat
  BY FilesAssumption
<1>2. ASSUME NEW k \in 1 .. H + n, ~(k <= H) PROVE k - H \in 1..n /\ k = H + (k - H)
  BY <1>1, <1>2
<1>3. \A k \in 1 .. H + n : ~(k <= H) => \E j \in 1..n : k = H + j /\ j = k - H
  BY <1>2, Zenon
<1>4. /\ \A k \in 1..H : k \in 1..PIPESIZE /\ \A j \in 1..n : k # H + j
      /\ \A j \in 1..n : j \in Nat /\ H + j \in 1..PIPESIZE /\ H + j \in Nat
      /\ \A j, k \in 1..n : H + j = H + k => j = k
      /\ \A k \in 1 .. H + n : k <= H => k \in 1..H
  BY <1>1
<1> QED
  BY <1>3, <1>4, Zenon

(* A sequence is known by its elements, ... *)
LEMMA SeqSame ==
  ASSUME NEW S, NEW x \in Seq(S), NEW y \in Seq(S), Len(x) = Len(y), \A k \in 1..Len(x) : x[k] = y[k]
  PROVE  x = y
OBVIOUS

(* ... which are of its type; ... *)
LEMMA Elements ==
  ASSUME NEW S, NEW s \in Seq(S)
  PROVE  \A k \in 1..Len(s) : s[k] \in S
OBVIOUS

(* ... so are two sequences joined, ... *)
LEMMA Appended ==
  ASSUME NEW S, NEW s \in Seq(S), NEW t \in Seq(S), NEW x \in Seq(S), Len(x) = Len(s) + Len(t),
         \A k \in 1..Len(x) : x[k] = IF k <= Len(s) THEN s[k] ELSE t[k - Len(s)]
  PROVE  x = s \o t
<1>1. /\ s \o t \in Seq(S) /\ Len(s \o t) = Len(s) + Len(t)
      /\ \A k \in 1 .. Len(s) + Len(t) : (s \o t)[k] = IF k <= Len(s) THEN s[k] ELSE t[k - Len(s)]
  OBVIOUS
<1>2. PICK y \in Seq(S) : y = s \o t
  BY <1>1, Zenon
<1>3. Len(x) = Len(y) /\ \A k \in 1..Len(x) : x[k] = y[k]
  BY <1>1, <1>2, Zenon
<1> QED
  BY <1>2, <1>3, SeqSame, Zenon

(* ... one joined to nothing, all and nothing of one, ... *)
LEMMA EmptyJoined ==
  ASSUME NEW S, NEW s \in Seq(S)
  PROVE  /\ s \o <<>> = s /\ <<>> \o s = s
         /\ SubSeq(s, 1, Len(s)) = s /\ SubSeq(s, 1, 0) = <<>>
OBVIOUS

(* ... all but the first n elements, ... *)
LEMMA Suffix ==
  ASSUME NEW S, NEW s \in Seq(S), NEW n \in 0..Len(s), NEW x \in Seq(S), Len(x) = Len(s) - n,
         \A k \in 1..Len(x) : x[k] = s[n + k]
  PROVE  x = SubSeq(s, n + 1, Len(s))
<1>1. /\ SubSeq(s, n + 1, Len(s)) \in Seq(S) /\ Len(SubSeq(s, n + 1, Len(s))) = Len(s) - n
      /\ \A i \in 1 .. Len(s) - n : SubSeq(s, n + 1, Len(s))[i] = s[n + i]
  OBVIOUS
<1>2. PICK y \in Seq(S) : y = SubSeq(s, n + 1, Len(s))
  BY <1>1, Zenon
<1>3. Len(x) = Len(y) /\ \A k \in 1..Len(x) : x[k] = y[k]
  BY <1>1, <1>2, Zenon
<1> QED
  BY <1>2, <1>3, SeqSame, Zenon

(* ... the first n, ... *)
LEMMA Prefix ==
  ASSUME NEW S, NEW s \in Seq(S), NEW n \in 0..Len(s), NEW x \in Seq(S), Len(x) = n,
         \A k \in 1..n : x[k] = s[k]
  PROVE  x = SubSeq(s, 1, n)
<1>1. /\ SubSeq(s, 1, n) \in Seq(S) /\ Len(SubSeq(s, 1, n)) = n
      /\ \A i \in 1..n : SubSeq(s, 1, n)[i] = s[i]
  OBVIOUS
<1>2. PICK y \in Seq(S) : y = SubSeq(s, 1, n)
  BY <1>1, Zenon
<1>3. Len(x) = Len(y) /\ \A k \in 1..Len(x) : x[k] = y[k]
  BY <1>1, <1>2, Zenon
<1> QED
  BY <1>2, <1>3, SeqSame, Zenon

(* ... and a function on 1..n.                                              *)
LEMMA FunctionSeq ==
  ASSUME NEW S, NEW n \in Nat, NEW s \in [1..n -> S]
  PROVE  s \in Seq(S) /\ Len(s) = n
OBVIOUS

(* What the counters of a pipe say, also when they have wrapped. *)
LEMMA Counters ==
  ASSUME TypeOK, NEW g \in Pages, Held(g) <= PIPESIZE
  PROVE  /\ Held(g) \in 0..PIPESIZE /\ Room(g) \in 0..PIPESIZE
         /\ Empty(g) <=> Held(g) = 0
         /\ Full(g) <=> Held(g) = PIPESIZE
<1>1. nread[g] \in 0 .. UINT - 1 /\ nwrite[g] \in 0 .. UINT - 1 /\ UINT \in Nat /\ UINT > 0
      /\ PIPESIZE \in Nat /\ PIPESIZE > 0 /\ PIPESIZE < UINT
  BY FilesAssumption DEF TypeOK
<1> DEFINE r == nread[g]
           w == nwrite[g]
<1>2. Held(g) = IF w >= r THEN w - r ELSE w - r + UINT
  BY <1>1, ModDiff, Zenon DEF Held
<1>3. (r + PIPESIZE) % UINT = IF r + PIPESIZE < UINT THEN r + PIPESIZE ELSE r + PIPESIZE - UINT
  BY <1>1, ModSum
<1>4. Empty(g) <=> w = r
  BY Zenon DEF Empty
<1>5. Full(g) <=> w = (r + PIPESIZE) % UINT
  BY Zenon DEF Full
<1>6. Room(g) = PIPESIZE - Held(g)
  BY Zenon DEF Room
<1> HIDE DEF r, w
<1>7. r \in 0 .. UINT - 1 /\ w \in 0 .. UINT - 1
  BY <1>1, Zenon DEF r, w
<1> QED
  BY <1>1, <1>2, <1>3, <1>4, <1>5, <1>6, <1>7

(* Storing or taking n bytes moves a counter. *)
LEMMA CountersMove ==
  ASSUME TypeOK, NEW g \in Pages, Held(g) <= PIPESIZE, NEW n \in Nat
  PROVE  /\ n <= Room(g) =>
              /\ Wrap(nwrite[g] + n) \in 0 .. UINT - 1
              /\ (Wrap(nwrite[g] + n) - nread[g]) % UINT = Held(g) + n
         /\ n <= Held(g) =>
              /\ Wrap(nread[g] + n) \in 0 .. UINT - 1
              /\ (nwrite[g] - Wrap(nread[g] + n)) % UINT = Held(g) - n
<1>1. nread[g] \in 0 .. UINT - 1 /\ nwrite[g] \in 0 .. UINT - 1 /\ UINT \in Nat /\ UINT > 0
      /\ PIPESIZE \in Nat /\ PIPESIZE > 0 /\ PIPESIZE < UINT
  BY FilesAssumption DEF TypeOK
<1> DEFINE r == nread[g]
           w == nwrite[g]
<1>2. Held(g) = IF w >= r THEN w - r ELSE w - r + UINT
  BY <1>1, ModDiff, Zenon DEF Held
<1>3. Held(g) \in 0..PIPESIZE /\ Room(g) = PIPESIZE - Held(g)
  BY Counters, Zenon DEF Room
<1> HIDE DEF r, w
<1>4. r \in 0 .. UINT - 1 /\ w \in 0 .. UINT - 1
  BY <1>1, Zenon DEF r, w
<1>5. ASSUME n <= Room(g)
      PROVE  Wrap(w + n) \in 0 .. UINT - 1 /\ (Wrap(w + n) - r) % UINT = Held(g) + n
  <2>1. n \in 0..UINT
    BY <1>1, <1>3, <1>5
  <2>2. Wrap(w + n) = IF w + n < UINT THEN w + n ELSE w + n - UINT
    BY <1>1, <1>4, <2>1, ModSum, Zenon DEF Wrap
  <2>3. Wrap(w + n) \in 0 .. UINT - 1
    BY <1>1, <1>4, <2>1, <2>2
  <2>4. (Wrap(w + n) - r) % UINT
          = IF Wrap(w + n) >= r THEN Wrap(w + n) - r ELSE Wrap(w + n) - r + UINT
    BY <1>1, <1>4, <2>3, ModDiff, Zenon
  <2> QED BY <1>1, <1>2, <1>3, <1>4, <1>5, <2>1, <2>2, <2>3, <2>4
<1>6. ASSUME n <= Held(g)
      PROVE  Wrap(r + n) \in 0 .. UINT - 1 /\ (w - Wrap(r + n)) % UINT = Held(g) - n
  <2>1. n \in 0..UINT
    BY <1>1, <1>3, <1>6
  <2>2. Wrap(r + n) = IF r + n < UINT THEN r + n ELSE r + n - UINT
    BY <1>1, <1>4, <2>1, ModSum, Zenon DEF Wrap
  <2>3. Wrap(r + n) \in 0 .. UINT - 1
    BY <1>1, <1>4, <2>1, <2>2
  <2>4. (w - Wrap(r + n)) % UINT
          = IF w >= Wrap(r + n) THEN w - Wrap(r + n) ELSE w - Wrap(r + n) + UINT
    BY <1>1, <1>4, <2>3, ModDiff, Zenon
  <2> QED BY <1>1, <1>2, <1>3, <1>4, <1>6, <2>1, <2>2, <2>3, <2>4
<1> QED
  BY <1>5, <1>6, Zenon DEF r, w
------------------------------------------------------------------------------
(* The ends of pipes. *)
LEMMA EndFacts ==
  /\ \A e \in Ends : e.page \in Pages /\ e.writable \in BOOLEAN
                     /\ e = [page |-> e.page, writable |-> e.writable]
  /\ \A g \in Pages, w \in BOOLEAN : [page |-> g, writable |-> w] \in Ends
  /\ None \notin Ends
<1>1. \A e \in Ends : e.page \in Pages /\ e.writable \in BOOLEAN
                     /\ e = [page |-> e.page, writable |-> e.writable]
  BY DEF Ends
<1>2. \A g \in Pages, w \in BOOLEAN : [page |-> g, writable |-> w] \in Ends
  BY DEF Ends
<1>3. None \notin Ends
  <2> SUFFICES ASSUME None \in Ends PROVE FALSE
    BY Zenon
  <2>1. None.page \in Pages
    BY <1>1, Zenon
  <2>2. None.page = 0
    BY Zenon DEF None
  <2> QED BY <2>1, <2>2, FilesAssumption, Zenon
<1> QED
  BY <1>1, <1>2, <1>3, Zenon

(* What pipeclose() closes is an end of a pipe. *)
LEMMA ClosingEnd ==
  ASSUME TypeOK, NEW p \in Procs, closing[p] # None
  PROVE  closing[p] \in Ends
<1>1. closing \in [Procs -> Ends \cup {None}]
  BY Zenon DEF TypeOK
<1> QED
  BY <1>1, Zenon

(* A read() or write() under way is about an open end of a pipe. *)
LEMMA CallPipe ==
  ASSUME IInv, NEW p \in Procs, pc[p] \in {"read", "write"}
  PROVE  /\ file[p] \in Files /\ type[file[p]] = "PIPE" /\ end[file[p]] \in Ends
         /\ end[file[p]].page \in Pages \ free
         /\ pc[p] = "read" => readopen[end[file[p]].page]
         /\ pc[p] = "write" => writeopen[end[file[p]].page]
<1>1. file[p] \in Files /\ type[file[p]] = "PIPE" /\ end[file[p]].writable = (pc[p] = "write")
  BY Zenon DEF IInv, CallInv
<1>2. end[file[p]] \in Ends
  BY <1>1, Zenon DEF IInv, FileInv
<1>3. end[file[p]].page \notin free /\ OpenEnd(end[file[p]])
  BY <1>1, Zenon DEF IInv, EndInv, NoDangling
<1> QED
  BY <1>1, <1>2, <1>3, EndFacts, Zenon DEF OpenEnd

(* Files that processes use have references; those taken have none. *)
LEMMA InUse ==
  ASSUME IInv, NEW p \in Procs
  PROVE  /\ pc[p] \in {"read", "write", "pipe"} => file[p] \in Files /\ ref[file[p]] >= 1
         /\ \A d \in Fds : ofile[p][d] # NoFile => ofile[p][d] \in Files /\ ref[ofile[p][d]] >= 1
         /\ todo[p] # <<>> => Head(todo[p]) \in Files /\ p \in Pending(Head(todo[p]))
                              /\ ref[Head(todo[p])] >= 1
<1>0. TypeOK /\ CallInv /\ UseInv
  BY Zenon DEF IInv
<1>1. ASSUME pc[p] = "pipe" PROVE file[p] \in Files /\ ref[file[p]] >= 1
  <2>1. file[p] \in Files /\ p \in Pending(file[p])
    BY <1>0, <1>1, Zenon DEF CallInv, Pending
  <2>2. ref[file[p]] >= 1
    BY <1>0, <2>1, Zenon DEF UseInv, Suffice
  <2> QED BY <2>1, <2>2, Zenon
<1>2. ASSUME pc[p] \in {"read", "write"} PROVE file[p] \in Files /\ ref[file[p]] >= 1
  <2>1. file[p] \in Files /\ \E d \in Fds : ofile[p][d] = file[p]
    BY <1>0, <1>2, Zenon DEF CallInv
  <2>2. ref[file[p]] >= 1
    BY <1>0, <2>1, Zenon DEF UseInv, Suffice
  <2> QED BY <2>1, <2>2, Zenon
<1>3. pc[p] \in {"read", "write", "pipe"} => file[p] \in Files /\ ref[file[p]] >= 1
  BY <1>1, <1>2, Zenon
<1>4. ASSUME NEW d \in Fds, ofile[p][d] # NoFile
      PROVE  ofile[p][d] \in Files /\ ref[ofile[p][d]] >= 1
  <2>1. ofile[p][d] \in Files
    BY <1>0, <1>4 DEF TypeOK
  <2> QED BY <1>0, <2>1, Zenon DEF UseInv, Suffice
<1>5. ASSUME todo[p] # <<>>
      PROVE  Head(todo[p]) \in Files /\ p \in Pending(Head(todo[p])) /\ ref[Head(todo[p])] >= 1
  <2>1. todo[p] \in Seq(Files) /\ 1 \in 1..Len(todo[p]) /\ Head(todo[p]) = todo[p][1]
    BY <1>0, <1>5 DEF TypeOK
  <2>2. Head(todo[p]) \in Files /\ p \in Pending(Head(todo[p]))
    BY <2>1 DEF Pending
  <2>3. ref[Head(todo[p])] >= 1
    BY <1>0, <2>2, Zenon DEF UseInv, Suffice
  <2> QED BY <2>2, <2>3, Zenon
<1> QED
  BY <1>3, <1>4, <1>5, Zenon

(* Updating a function keeps its type. *)
LEMMA ExceptType ==
  ASSUME NEW S, NEW T, NEW f \in [S -> T], NEW x \in S, NEW v \in T
  PROVE  [f EXCEPT ![x] = v] \in [S -> T]
BY Zenon

Labels == {"user", "pipe", "close", "exit", "read", "write"}
Chans == {"none", "nread", "nwrite"}

(* wakeup() only wakes. *)
LEMMA WokenFacts ==
  ASSUME TypeOK, NEW g, NEW c \in Chans
  PROVE  /\ Woken(g, c) \in [Procs -> Chans]
         /\ \A p \in Procs : Woken(g, c)[p] \in {"none", chan[p]}
         /\ \A p \in Procs : Woken(g, c)[p] # "none" =>
              Woken(g, c)[p] = chan[p] /\ (chan[p] # c \/ end[file[p]].page # g)
<1>1. chan \in [Procs -> Chans]
  BY Zenon DEF TypeOK, Chans
<1>2. \A p \in Procs : Woken(g, c)[p] = IF chan[p] = c /\ end[file[p]].page = g THEN "none" ELSE chan[p]
  BY Zenon DEF Woken
<1>3. Woken(g, c) \in [Procs -> Chans]
  BY <1>1, Zenon DEF Woken, Chans
<1> QED
  BY <1>2, <1>3, Zenon
(* Every step keeps the types. *)
LEMMA TypeStep == IInv /\ Steps => TypeOK'
<1> SUFFICES ASSUME IInv, Steps PROVE TypeOK'
  BY Zenon
<1>0. TypeOK
  BY Zenon DEF IInv
<1>a. /\ ref \in [Files -> Nat] /\ type \in [Files -> {"NONE", "PIPE", "INODE"}]
      /\ end \in [Files -> Ends \cup {None}] /\ closing \in [Procs -> Ends \cup {None}]
      /\ ofile \in [Procs -> [Fds -> Files \cup {NoFile}]]
      /\ nread \in [Pages -> 0 .. UINT - 1] /\ nwrite \in [Pages -> 0 .. UINT - 1]
      /\ free \subseteq Pages /\ pc \in [Procs -> Labels] /\ chan \in [Procs -> Chans]
      /\ file \in [Procs -> Files \cup {NoFile}]
  BY <1>0, Zenon DEF TypeOK, Labels, Chans
<1>b. /\ buf \in [Procs -> Seq(Bytes)] /\ want \in [Procs -> Nat] /\ todo \in [Procs -> Seq(Files)]
      /\ data \in [Pages -> [0 .. PIPESIZE - 1 -> Bytes]] /\ sent \in [Pages -> Nat]
      /\ out \in [Pages -> Seq(Bytes)]
  BY <1>0, Zenon DEF TypeOK
<1>c. /\ alive \in [Procs -> BOOLEAN] /\ eof \in [Pages -> BOOLEAN]
      /\ readopen \in [Pages -> BOOLEAN] /\ writeopen \in [Pages -> BOOLEAN]
  BY <1>0, Zenon DEF TypeOK
<1>d. ASSUME /\ ref' \in [Files -> Nat] /\ type' \in [Files -> {"NONE", "PIPE", "INODE"}]
             /\ end' \in [Files -> Ends \cup {None}] /\ closing' \in [Procs -> Ends \cup {None}]
             /\ ofile' \in [Procs -> [Fds -> Files \cup {NoFile}]]
             /\ nread' \in [Pages -> 0 .. UINT - 1] /\ nwrite' \in [Pages -> 0 .. UINT - 1]
             /\ free' \subseteq Pages /\ pc' \in [Procs -> Labels] /\ chan' \in [Procs -> Chans]
             /\ file' \in [Procs -> Files \cup {NoFile}]
             /\ buf' \in [Procs -> Seq(Bytes)] /\ want' \in [Procs -> Nat]
             /\ todo' \in [Procs -> Seq(Files)]
             /\ data' \in [Pages -> [0 .. PIPESIZE - 1 -> Bytes]] /\ sent' \in [Pages -> Nat]
             /\ out' \in [Pages -> Seq(Bytes)]
             /\ alive' \in [Procs -> BOOLEAN] /\ eof' \in [Pages -> BOOLEAN]
             /\ readopen' \in [Pages -> BOOLEAN] /\ writeopen' \in [Pages -> BOOLEAN]
      PROVE  TypeOK'
  BY <1>d, Zenon DEF TypeOK, Labels, Chans
<1>e. ASSUME NEW p \in Procs, NEW l \in Labels, Goto(p, l) PROVE pc' \in [Procs -> Labels]
  BY <1>a, <1>e, ExceptType, Zenon DEF Goto
<1>f. \A l \in Labels : l \in Labels /\ {"user", "pipe", "close", "exit", "read", "write"} \subseteq Labels
  BY Zenon DEF Labels
<1>g. ASSUME NEW p \in Procs, NEW f \in Files \cup {NoFile}, NEW d \in Fds
      PROVE  [ofile EXCEPT ![p][d] = f] \in [Procs -> [Fds -> Files \cup {NoFile}]]
  BY <1>a, Zenon
<1>h. ASSUME NEW p \in Procs, NEW s \in Seq(Files), Close(p, s)
      PROVE  todo' \in [Procs -> Seq(Files)] /\ pc' \in [Procs -> Labels]
  BY <1>h, <1>b, <1>e, Zenon DEF Close, Labels
<1>1. ASSUME NEW p \in Procs, NEW f \in Files, TakeFile(p, f) PROVE TypeOK'
  <2>1. pc' \in [Procs -> Labels]
    BY <1>1, <1>e, <1>f, Zenon DEF TakeFile, Labels
  <2> QED BY <1>1, <1>a, <1>b, <1>c, <1>d, <2>1, Zenon DEF TakeFile, fds, pipe, hist
<1>2. ASSUME NEW p \in Procs, NEW f \in Files, OpenFails(p, f) PROVE TypeOK'
  <2>1. <<f>> \in Seq(Files)
    OBVIOUS
  <2>2. todo' \in [Procs -> Seq(Files)] /\ pc' \in [Procs -> Labels]
    BY <1>2, <1>h, <2>1, Zenon DEF OpenFails
  <2> QED BY <1>2, <1>a, <1>b, <1>c, <1>d, <2>2, Zenon DEF OpenFails, fds, pipe, work, hist
<1>3. ASSUME NEW p \in Procs, OneFile(p) PROVE TypeOK'
  <2>1. <<file[p]>> \in Seq(Files)
    BY <1>3 DEF IInv, CallInv, OneFile, At
  <2>2. todo' \in [Procs -> Seq(Files)] /\ pc' \in [Procs -> Labels]
    BY <1>3, <1>h, <2>1, Zenon DEF OneFile
  <2> QED BY <1>3, <1>a, <1>b, <1>c, <1>d, <2>2, Zenon DEF OneFile, pipe, hist
<1>4. ASSUME NEW p \in Procs, NEW f1 \in Files, NEW g \in free, NewPipe(p, f1, g),
             NotInstalled(p, f1) \/ \E d0, d1 \in Fds : Installed(p, f1, d0, d1)
      PROVE  TypeOK'
  <2>1. file[p] \in Files /\ g \in Pages
    BY <1>4, <1>a, Zenon DEF IInv, CallInv, NewPipe, At
  <2>2. todo' \in [Procs -> Seq(Files)] /\ pc' \in [Procs -> Labels]
        /\ ofile' \in [Procs -> [Fds -> Files \cup {NoFile}]]
    <3>1. CASE NotInstalled(p, f1)
      <4>1. <<file[p], f1>> \in Seq(Files)
        BY <2>1
      <4> QED BY <3>1, <4>1, <1>a, <1>h, Zenon DEF NotInstalled
    <3>2. ASSUME NEW d0 \in Fds, NEW d1 \in Fds, Installed(p, f1, d0, d1)
          PROVE  todo' \in [Procs -> Seq(Files)] /\ pc' \in [Procs -> Labels]
                 /\ ofile' \in [Procs -> [Fds -> Files \cup {NoFile}]]
      <4>1. pc' \in [Procs -> Labels]
        BY <3>2, <1>e, Zenon DEF Installed, Labels
      <4> QED BY <3>2, <4>1, <1>a, <1>b, <2>1, Zenon DEF Installed
    <3> QED BY <1>4, <3>1, <3>2, Zenon
  <2>3. /\ ref' \in [Files -> Nat] /\ type' \in [Files -> {"NONE", "PIPE", "INODE"}]
        /\ file' \in [Procs -> Files \cup {NoFile}] /\ free' \subseteq Pages
        /\ nread' \in [Pages -> 0 .. UINT - 1] /\ nwrite' \in [Pages -> 0 .. UINT - 1]
    <3>1. 0 \in 0 .. UINT - 1
      BY FilesAssumption
    <3>2. nread' \in [Pages -> 0 .. UINT - 1] /\ nwrite' \in [Pages -> 0 .. UINT - 1]
      BY <1>4, <1>a, <2>1, <3>1, ExceptType, Zenon DEF NewPipe
    <3>3. type' \in [Files -> {"NONE", "PIPE", "INODE"}]
      BY <1>4, <1>a, <2>1, Zenon DEF NewPipe
    <3>4. ref' \in [Files -> Nat] /\ file' \in [Procs -> Files \cup {NoFile}] /\ free' \subseteq Pages
      BY <1>4, <1>a, <2>1, Zenon DEF NewPipe
    <3> QED BY <3>2, <3>3, <3>4, Zenon
  <2>4. end' \in [Files -> Ends \cup {None}]
    <3>1. [page |-> g, writable |-> FALSE] \in Ends /\ [page |-> g, writable |-> TRUE] \in Ends
      BY <2>1, EndFacts, Zenon
    <3> QED BY <1>4, <1>a, <2>1, <3>1, Zenon DEF NewPipe
  <2>5. readopen' \in [Pages -> BOOLEAN] /\ writeopen' \in [Pages -> BOOLEAN]
    BY <1>4, <1>c, <2>1, ExceptType, Zenon DEF NewPipe
  <2> QED BY <1>4, <1>a, <1>b, <1>c, <1>d, <2>2, <2>3, <2>4, <2>5, Zenon DEF NewPipe, hist
<1>5. ASSUME NEW p \in Procs, NEW f \in Files, NEW d \in Fds, Opens(p, f, d) PROVE TypeOK'
  <2>1. ofile' \in [Procs -> [Fds -> Files \cup {NoFile}]]
    BY <1>5, <1>g, Zenon DEF Opens
  <2> QED BY <1>5, <1>a, <1>b, <1>c, <1>d, <2>1, Zenon DEF Opens, pipe, work, hist
<1>6. ASSUME NEW p \in Procs, NEW d \in Fds, NEW e \in Fds, Dups(p, d, e) PROVE TypeOK'
  <2>1. ofile[p][d] \in Files
    BY <1>6, <1>a DEF Dups
  <2>2. ofile' \in [Procs -> [Fds -> Files \cup {NoFile}]]
    BY <1>6, <1>g, <2>1, Zenon DEF Dups
  <2> QED BY <1>6, <1>a, <1>b, <1>c, <1>d, <2>1, <2>2 DEF Dups, pipe, work, hist
<1>7. ASSUME NEW p \in Procs, Exit(p) PROVE TypeOK'
  <2>1. pc' \in [Procs -> Labels]
    BY <1>7, <1>e, Zenon DEF Exit, Labels
  <2> QED BY <1>7, <1>a, <1>b, <1>c, <1>d, <2>1, Zenon DEF Exit, ftable, fds, pipe, work, hist
<1>8. ASSUME NEW p \in Procs, NEW f \in Files, ref[f] >= 1, Drop(p, f)
      PROVE  /\ ref' \in [Files -> Nat] /\ type' \in [Files -> {"NONE", "PIPE", "INODE"}]
             /\ end' \in [Files -> Ends \cup {None}] /\ closing' \in [Procs -> Ends \cup {None}]
  <2>1. ref' \in [Files -> Nat]
    <3>1. ref[f] - 1 \in Nat
      BY <1>8, <1>a
    <3> QED BY <1>8, <1>a, <3>1, Zenon DEF Drop
  <2>2. CASE ref[f] > 1
    BY <1>8, <1>a, <2>1, <2>2, Zenon DEF Drop
  <2>3. CASE ~(ref[f] > 1)
    BY <1>8, <1>a, <2>1, <2>3, Zenon DEF Drop
  <2> QED BY <2>2, <2>3, Zenon
<1>9. ASSUME NEW p \in Procs, FileClose(p) PROVE TypeOK'
  <2>1. Head(todo[p]) \in Files /\ ref[Head(todo[p])] >= 1 /\ Drop(p, Head(todo[p]))
    BY <1>9, InUse, Zenon DEF FileClose
  <2>2. todo' \in [Procs -> Seq(Files)]
    <3>1. Tail(todo[p]) \in Seq(Files)
      BY <1>9, <1>b DEF FileClose
    <3> QED BY <1>9, <1>b, <3>1, Zenon DEF FileClose
  <2>3. /\ ref' \in [Files -> Nat] /\ type' \in [Files -> {"NONE", "PIPE", "INODE"}]
        /\ end' \in [Files -> Ends \cup {None}] /\ closing' \in [Procs -> Ends \cup {None}]
    BY <1>8, <2>1, Zenon
  <2> QED BY <1>9, <1>a, <1>b, <1>c, <1>d, <2>1, <2>2, <2>3, Zenon DEF FileClose, Drop, pipe, work, hist
<1>10. ASSUME NEW p \in Procs, NEW d \in Fds, ExitDrops(p, d) PROVE TypeOK'
  <2>1. ofile[p][d] \in Files /\ ref[ofile[p][d]] >= 1 /\ Drop(p, ofile[p][d])
    BY <1>10, InUse, Zenon DEF ExitDrops
  <2>2. ofile' \in [Procs -> [Fds -> Files \cup {NoFile}]]
    BY <1>10, <1>g, Zenon DEF ExitDrops
  <2>3. /\ ref' \in [Files -> Nat] /\ type' \in [Files -> {"NONE", "PIPE", "INODE"}]
        /\ end' \in [Files -> Ends \cup {None}] /\ closing' \in [Procs -> Ends \cup {None}]
    BY <1>8, <2>1, Zenon
  <2> QED BY <1>10, <1>a, <1>b, <1>c, <1>d, <2>1, <2>2, <2>3, Zenon DEF ExitDrops, Drop, pipe, work, hist
<1>11. ASSUME NEW p \in Procs, PipeClose(p) PROVE TypeOK'
  <2> DEFINE g == closing[p].page
             w == closing[p].writable
  <2>1. g \in Pages /\ w \in BOOLEAN
    BY <1>11, <1>a, EndFacts DEF PipeClose
  <2>2. readopen' \in [Pages -> BOOLEAN] /\ writeopen' \in [Pages -> BOOLEAN]
    <3>1. (readopen[g] /\ w) \in BOOLEAN /\ (writeopen[g] /\ ~w) \in BOOLEAN
      BY Zenon
    <3>2. /\ writeopen' = [writeopen EXCEPT ![g] = writeopen[g] /\ ~w]
          /\ readopen' = [readopen EXCEPT ![g] = readopen[g] /\ w]
      BY <1>11, Zenon DEF PipeClose
    <3> QED BY <1>c, <2>1, <3>1, <3>2, ExceptType, Zenon
  <2>3. chan' \in [Procs -> Chans]
    BY <1>0, <1>11, WokenFacts, Zenon DEF PipeClose, OtherEnd, Chans
  <2>4. CASE UNCHANGED <<free, data, nread, nwrite, hist>>
    BY <1>11, <1>a, <1>b, <1>c, <1>d, <2>2, <2>3, <2>4, Zenon DEF PipeClose, ftable, fds, work, hist
  <2>5. CASE /\ free' = free \cup {g} /\ data' = [data EXCEPT ![g] = Junk]
             /\ nread' = [nread EXCEPT ![g] = 0] /\ nwrite' = [nwrite EXCEPT ![g] = 0]
             /\ sent' = [sent EXCEPT ![g] = 0] /\ out' = [out EXCEPT ![g] = <<>>]
             /\ eof' = [eof EXCEPT ![g] = FALSE]
    <3>1. Junk \in [0 .. PIPESIZE - 1 -> Bytes]
      BY FilesAssumption, Zenon DEF Junk
    <3>2. data' \in [Pages -> [0 .. PIPESIZE - 1 -> Bytes]]
      BY <1>b, <2>5, <3>1, Zenon
    <3>3. /\ free' \subseteq Pages
          /\ nread' \in [Pages -> 0 .. UINT - 1] /\ nwrite' \in [Pages -> 0 .. UINT - 1]
          /\ sent' \in [Pages -> Nat] /\ out' \in [Pages -> Seq(Bytes)]
      BY <1>a, <1>b, <2>1, <2>5, FilesAssumption
    <3>4. eof' \in [Pages -> BOOLEAN]
      BY <1>c, <2>1, <2>5, ExceptType, Zenon
    <3> QED BY <1>11, <1>a, <1>b, <1>c, <1>d, <2>2, <2>3, <3>2, <3>3, <3>4, Zenon DEF PipeClose, ftable, fds, work
  <2> QED BY <1>11, <2>4, <2>5, Zenon DEF PipeClose
<1>12. ASSUME NEW p \in Procs, Closed(p) PROVE TypeOK'
  <2>1. pc' \in [Procs -> Labels]
    BY <1>12, <1>e, Zenon DEF Closed, Labels
  <2>2. alive' \in [Procs -> BOOLEAN]
    <3>1. (pc[p] = "close") \in BOOLEAN
      BY Zenon
    <3> QED BY <1>12, <1>c, <3>1, ExceptType, Zenon DEF Closed
  <2> QED BY <1>12, <1>a, <1>b, <1>c, <1>d, <2>1, <2>2, Zenon DEF Closed, ftable, pipe, work, hist
<1>13. ASSUME NEW p \in Procs, NEW c \in Procs, Fork(p, c) PROVE TypeOK'
  <2>1. pc' \in [Procs -> Labels]
    BY <1>13, <1>e, Zenon DEF Fork, Labels
  <2>2. alive' \in [Procs -> BOOLEAN]
    BY <1>13, <1>c, ExceptType, Zenon DEF Fork
  <2>3. ref' \in [Files -> Nat]
    <3>1. \A f \in Files : Cardinality({d \in Fds : ofile[p][d] = f}) \in Nat
      BY Zenon DEF IInv, UseInv
    <3>2. \A f \in Files : Dup(p, f) \in Nat
      BY <1>a, <3>1 DEF Dup
    <3> QED BY <1>13, <3>2, Zenon DEF Fork
  <2> QED BY <1>13, <1>a, <1>b, <1>c, <1>d, <2>1, <2>2, <2>3, Zenon DEF Fork, pipe, work, hist
<1>14. ASSUME NEW p \in Procs, NEW d \in Fds, SysClose(p, d) PROVE TypeOK'
  <2>1. <<ofile[p][d]>> \in Seq(Files)
    BY <1>14, <1>a DEF SysClose
  <2>2. todo' \in [Procs -> Seq(Files)] /\ pc' \in [Procs -> Labels]
    BY <1>14, <1>h, <2>1, Zenon DEF SysClose
  <2>3. ofile' \in [Procs -> [Fds -> Files \cup {NoFile}]]
    BY <1>14, <1>g, Zenon DEF SysClose
  <2> QED BY <1>14, <1>a, <1>b, <1>c, <1>d, <2>2, <2>3, Zenon DEF SysClose, ftable, pipe, work, hist
<1>15. ASSUME NEW p \in Procs, NEW d \in Fds, NEW n \in Counts, SysRead(p, d, n) PROVE TypeOK'
  <2>1. pc' \in [Procs -> Labels]
    BY <1>15, <1>e, Zenon DEF SysRead, Labels
  <2>2. n \in Nat
    BY FilesAssumption, Zenon
  <2> QED BY <1>15, <1>a, <1>b, <1>c, <1>d, <2>1, <2>2 DEF SysRead, ftable, fds, pipe, hist
<1>16. ASSUME NEW p \in Procs, NEW d \in Fds, NEW s \in Buffers, SysWrite(p, d, s) PROVE TypeOK'
  <2>1. pc' \in [Procs -> Labels]
    BY <1>16, <1>e, Zenon DEF SysWrite, Labels
  <2>2. s \in Seq(Bytes) /\ Len(s) \in Nat
    BY FilesAssumption
  <2>3. sent' \in [Pages -> Nat] /\ buf' \in [Procs -> Seq(Bytes)] /\ file' \in [Procs -> Files \cup {NoFile}]
    <3>1. file' \in [Procs -> Files \cup {NoFile}]
      BY <1>16, <1>a DEF SysWrite
    <3>2. buf' \in [Procs -> Seq(Bytes)]
      BY <1>16, <1>b, <2>2, Zenon DEF SysWrite
    <3>3. sent' \in [Pages -> Nat]
      <4>1. ofile[p][d] \in Files /\ type[ofile[p][d]] = "PIPE"
        BY <1>16, <1>a DEF SysWrite
      <4>2. end[ofile[p][d]].page \in Pages
        BY <4>1, EndFacts, Zenon DEF IInv, FileInv
      <4>3. sent[end[ofile[p][d]].page] + Len(s) \in Nat
        <5>1. sent[end[ofile[p][d]].page] \in Nat /\ Len(s) \in Nat
          BY <1>b, <2>2, <4>2, Zenon
        <5> QED BY ONLY <5>1, SMTT(30)
      <4> QED BY <1>16, <1>b, <4>2, <4>3, ExceptType, Zenon DEF SysWrite
    <3> QED BY <3>1, <3>2, <3>3, Zenon
  <2> QED BY <1>16, <1>a, <1>b, <1>c, <1>d, <2>1, <2>3, Zenon DEF SysWrite, ftable, fds, pipe
<1>17. ASSUME NEW p \in Procs, PipeWrite(p) PROVE TypeOK'
  <2> DEFINE g == end[file[p]].page
             n == AtMost(Len(buf[p]), Room(g))
  <2>1. g \in Pages /\ Held(g) <= PIPESIZE
    BY <1>17, CallPipe, Zenon DEF PipeWrite, At, IInv, PipeInv
  <2>2. buf[p] \in Seq(Bytes) /\ Len(buf[p]) \in Nat /\ Room(g) \in 0..PIPESIZE
    BY <1>0, <1>b, <2>1, Counters
  <2>3. n \in Nat /\ n <= Room(g) /\ n <= Len(buf[p])
    BY <2>2 DEF AtMost
  <2>4. Wrap(nwrite[g] + n) \in 0 .. UINT - 1
    BY <1>0, <2>1, <2>3, CountersMove, Zenon
  <2>5. data' \in [Pages -> [0 .. PIPESIZE - 1 -> Bytes]]
    <3> DEFINE v == Stored(data[g], nwrite[g], buf[p], n)
    <3>1. data' = [data EXCEPT ![g] = v]
      BY <1>17, Zenon DEF PipeWrite
    <3>2. \A k \in 1..n : buf[p][k] \in Bytes
      BY <2>2, <2>3
    <3>3. v \in [0 .. PIPESIZE - 1 -> Bytes]
      <4> HIDE DEF n, g
      <4>1. data[g] \in [0 .. PIPESIZE - 1 -> Bytes]
        BY <1>b, <2>1, Zenon
      <4> USE DEF Stored
      <4> SUFFICES ASSUME NEW i \in 0 .. PIPESIZE - 1 PROVE v[i] \in Bytes
        BY Zenon
      <4>2. CASE \E k \in 1..n : i = (nwrite[g] + k - 1) % PIPESIZE
        <5>1. (CHOOSE k \in 1..n : i = (nwrite[g] + k - 1) % PIPESIZE) \in 1..n
          BY <4>2, Zenon
        <5> QED BY <3>2, <4>2, <5>1, Zenon
      <4>3. CASE ~\E k \in 1..n : i = (nwrite[g] + k - 1) % PIPESIZE
        BY <4>1, <4>3, Zenon
      <4> QED BY <4>2, <4>3, Zenon
    <3> HIDE DEF v
    <3> QED BY <1>b, <3>1, <3>3, Zenon
  <2>6. nwrite' \in [Pages -> 0 .. UINT - 1]
    <3>1. nwrite' = [nwrite EXCEPT ![g] = Wrap(nwrite[g] + n)]
      BY <1>17, Zenon DEF PipeWrite
    <3> HIDE DEF g, n
    <3> QED BY <1>a, <2>1, <2>4, <3>1, Zenon
  <2>7. pc' \in [Procs -> Labels] /\ file' \in [Procs -> Files \cup {NoFile}]
    <3>1. CASE UNCHANGED <<pc, file>>
      BY <1>a, <3>1, Zenon
    <3>2. CASE Goto(p, "user") /\ file' = [file EXCEPT ![p] = NoFile]
      <4>1. pc' \in [Procs -> Labels]
        BY <3>2, <1>e, Zenon DEF Labels
      <4> QED BY <1>a, <3>2, <4>1, Zenon
    <3> QED BY <1>17, <3>1, <3>2, Zenon DEF PipeWrite
  <2>8. buf' \in [Procs -> Seq(Bytes)]
    <3>1. CASE buf' = [buf EXCEPT ![p] = <<>>]
      BY <1>b, <3>1
    <3>2. CASE buf' = [buf EXCEPT ![p] = SubSeq(buf[p], n + 1, Len(buf[p]))]
      <4>1. SubSeq(buf[p], n + 1, Len(buf[p])) \in Seq(Bytes)
        <5> HIDE DEF n
        <5> QED BY <2>2, <2>3
      <4> HIDE DEF n
      <4> QED BY <1>b, <3>2, <4>1, Zenon
    <3> QED BY <1>17, <3>1, <3>2, Zenon DEF PipeWrite
  <2>9. chan' \in [Procs -> Chans]
    <3>1. Woken(g, "nread") \in [Procs -> Chans] /\ "nwrite" \in Chans
      BY <1>0, WokenFacts, Zenon DEF Chans
    <3>2. [Woken(g, "nread") EXCEPT ![p] = "nwrite"] \in [Procs -> Chans]
      <4> HIDE DEF g
      <4> QED BY <3>1, ExceptType, Zenon
    <3> QED BY <1>17, <1>a, <3>1, <3>2, Zenon DEF PipeWrite
  <2> QED BY <1>17, <1>a, <1>b, <1>c, <1>d, <2>5, <2>6, <2>7, <2>8, <2>9, Zenon DEF PipeWrite, ftable, fds, hist
<1>18. ASSUME NEW p \in Procs, PipeRead(p) PROVE TypeOK'
  <2> DEFINE g == end[file[p]].page
             n == AtMost(want[p], Held(g))
             s == Oldest(g, n)
  <2>1. g \in Pages /\ Held(g) <= PIPESIZE
    BY <1>18, CallPipe, Zenon DEF PipeRead, At, IInv, PipeInv
  <2>2. want[p] \in Nat /\ Held(g) \in 0..PIPESIZE
    BY <1>0, <1>b, <2>1, Counters, Zenon
  <2>3. n \in Nat /\ n <= Held(g)
    BY <2>2 DEF AtMost
  <2>4. Wrap(nread[g] + n) \in 0 .. UINT - 1
    BY <1>0, <2>1, <2>3, CountersMove, Zenon
  <2>5. CASE MustWait(g)
    <3>1. chan' \in [Procs -> Chans]
      BY <1>18, <1>a, <2>5, Zenon DEF PipeRead, Chans
    <3> QED BY <1>18, <1>a, <1>b, <1>c, <1>d, <2>5, <3>1, Zenon DEF PipeRead, ftable, fds
  <2>6. CASE ~MustWait(g)
    <3>1. chan' \in [Procs -> Chans]
      BY <1>0, <1>18, <2>6, WokenFacts, ZenonT(60) DEF PipeRead, Chans
    <3>2. pc' \in [Procs -> Labels] /\ file' \in [Procs -> Files \cup {NoFile}] /\ want' \in [Procs -> Nat]
      <4>1. pc' \in [Procs -> Labels]
        BY <1>18, <2>6, <1>e, Zenon DEF PipeRead, Labels
      <4>2. file' = [file EXCEPT ![p] = NoFile] /\ want' = [want EXCEPT ![p] = 0]
        BY <1>18, <2>6, Zenon DEF PipeRead
      <4> QED BY <1>a, <1>b, <4>1, <4>2, Zenon
    <3>3. nread' \in [Pages -> 0 .. UINT - 1]
      <4>1. nread' = [nread EXCEPT ![g] = Wrap(nread[g] + n)]
        BY <1>18, <2>6, Zenon DEF PipeRead
      <4> HIDE DEF g, n
      <4> QED BY <1>a, <2>1, <2>4, <4>1, Zenon
    <3>4. out' \in [Pages -> Seq(Bytes)]
      <4>1. out' = [out EXCEPT ![g] = out[g] \o s]
        BY <1>18, <2>6, Zenon DEF PipeRead
      <4>2. s \in Seq(Bytes)
        <5> HIDE DEF g, n
        <5>1. data[g] \in [0 .. PIPESIZE - 1 -> Bytes] /\ nread[g] \in Int
          BY <1>a, <1>b, <2>1, FilesAssumption
        <5>2. \A k \in 1..n : (nread[g] + k - 1) % PIPESIZE \in 0 .. PIPESIZE - 1
          BY <5>1, ModRange, FilesAssumption
        <5>3. \A k \in 1..n : s[k] \in Bytes
          BY <5>1, <5>2, Zenon DEF Oldest
        <5>4. s \in [1..n -> Bytes]
          BY <5>3, Zenon DEF Oldest
        <5> HIDE DEF s
        <5> QED BY <2>3, <5>4
      <4>3. out[g] \o s \in Seq(Bytes)
        <5> HIDE DEF s, g
        <5> QED BY <1>b, <2>1, <4>2
      <4> HIDE DEF s, g
      <4> QED BY <1>b, <2>1, <4>1, <4>3, Zenon
    <3>5. eof' \in [Pages -> BOOLEAN]
      <4>1. (eof[g] \/ (n = 0 /\ want[p] > 0)) \in BOOLEAN
        BY Zenon
      <4>2. eof' = [eof EXCEPT ![g] = eof[g] \/ (n = 0 /\ want[p] > 0)]
        BY <1>18, <2>6, Zenon DEF PipeRead
      <4> HIDE DEF g, n
      <4> QED BY <1>c, <2>1, <4>1, <4>2, ExceptType, Zenon
    <3> QED BY <1>18, <1>a, <1>b, <1>c, <1>d, <3>1, <3>2, <3>3, <3>4, <3>5, Zenon DEF PipeRead, ftable, fds
  <2> QED BY <2>5, <2>6, Zenon
<1>19. ASSUME NEW p \in Procs, Kill(p) PROVE TypeOK'
  <2>1. chan' \in [Procs -> Chans]
    BY <1>19, <1>a, Zenon DEF Kill, Chans
  <2> QED BY <1>19, <1>a, <1>b, <1>c, <1>d, <2>1, Zenon DEF Kill, ftable, fds, pipe, work, hist
<1>20. CASE UNCHANGED vars
  BY <1>20, <1>0, Zenon DEF vars, ftable, fds, pipe, work, hist, TypeOK
<1> QED
  BY <1>1, <1>2, <1>3, <1>4, <1>5, <1>6, <1>7, <1>9, <1>10, <1>11, <1>12, <1>13, <1>14, <1>15, <1>16,
     <1>17, <1>18, <1>19, <1>20, Zenon DEF Steps
------------------------------------------------------------------------------
(* The last reference to a file is dropped by its last user: no read() or    *)
(* write() under way is about it.                                            *)
LEMMA DropUnused ==
  ASSUME IInv, NEW p \in Procs, NEW q \in Procs, NEW f \in Files, ~(ref[f] > 1),
         p \in Pending(f) \/ \E d \in Fds : ofile[p][d] = f,
         pc[p] \in {"close", "exit"}, pc[q] \in {"read", "write"}
  PROVE  file[q] # f
<1> SUFFICES ASSUME file[q] = f PROVE FALSE
  BY Zenon
<1>0. TypeOK /\ UseInv /\ ref[f] \in Nat
  BY Zenon DEF IInv, TypeOK
<1>1. PICK e \in Fds : ofile[q][e] = f
  BY DEF IInv, CallInv
<1>2. p # q
  BY Zenon
<1>3. ref[f] >= 2
  <2>1. CASE p \in Pending(f)
    BY <1>0, <1>1, <2>1, Zenon DEF UseInv, Suffice
  <2>2. CASE \E d \in Fds : ofile[p][d] = f
    BY <1>0, <1>1, <1>2, <2>2 DEF UseInv, Suffice
  <2> QED BY <2>1, <2>2, Zenon
<1> QED
  BY <1>0, <1>3

(* What becomes of the file table, and of the ends of pipes being closed.    *)
SameTable == UNCHANGED <<type, end, closing>>
Makes(p, f1, g) ==
  /\ pc[p] = "pipe" /\ f1 \in Files /\ ref[f1] = 0 /\ g \in free
  /\ type' = [type EXCEPT ![file[p]] = "PIPE", ![f1] = "PIPE"]
  /\ end' = [end EXCEPT ![file[p]] = [page |-> g, writable |-> FALSE],
                        ![f1] = [page |-> g, writable |-> TRUE]]
  /\ UNCHANGED closing
Inode(f) == ref[f] = 0 /\ type' = [type EXCEPT ![f] = "INODE"] /\ UNCHANGED <<end, closing>>
LastDrop(p, f) ==
  /\ closing[p] = None /\ pc[p] \in {"close", "exit"} /\ ref[f] = 1
  /\ p \in Pending(f) \/ \E d \in Fds : ofile[p][d] = f
  /\ type' = [type EXCEPT ![f] = "NONE"] /\ end' = [end EXCEPT ![f] = None]
  /\ closing' = [closing EXCEPT ![p] = IF type[f] = "PIPE" THEN end[f] ELSE None]
SamePipes == UNCHANGED <<free, readopen, writeopen>>

(* A step leaves the table of open files as it is, or pipealloc() fills two
   entries, or an inode is opened in one, or fileclose() drops the last
   reference of one; pipeclose() ends what such a drop began. *)
LEMMA TableStep ==
  ASSUME IInv, Steps
  PROVE  \/ SameTable /\ SamePipes
         \/ \E p \in Procs, f1 \in Files, g \in free : NewPipe(p, f1, g) /\ Makes(p, f1, g)
         \/ \E f \in Files : Inode(f) /\ SamePipes
         \/ \E p \in Procs, f \in Files : LastDrop(p, f) /\ SamePipes
         \/ \E p \in Procs : PipeClose(p)
<1> DEFINE G == \/ SameTable /\ SamePipes
                \/ \E p \in Procs, f1 \in Files, g \in free : NewPipe(p, f1, g) /\ Makes(p, f1, g)
                \/ \E f \in Files : Inode(f) /\ SamePipes
                \/ \E p \in Procs, f \in Files : LastDrop(p, f) /\ SamePipes
                \/ \E p \in Procs : PipeClose(p)
<1>1. ASSUME NEW p \in Procs, NEW f \in Files, ref[f] >= 1, closing[p] = None, Drop(p, f),
             pc[p] \in {"close", "exit"}, p \in Pending(f) \/ \E d \in Fds : ofile[p][d] = f
      PROVE  G
  <2>1. SamePipes
    BY <1>1, Zenon DEF Drop, pipe, SamePipes
  <2>2. CASE ref[f] > 1
    BY <1>1, <2>1, <2>2, Zenon DEF Drop, SameTable
  <2>3. CASE ~(ref[f] > 1)
    <3>1. ref[f] = 1
      BY <1>1, <2>3 DEF IInv, TypeOK
    <3>2. LastDrop(p, f)
      BY <1>1, <2>3, <3>1, Zenon DEF Drop, LastDrop
    <3> QED BY <2>1, <3>2, Zenon
  <2> QED BY <2>2, <2>3, Zenon
<1>2. ASSUME NEW p \in Procs, FileClose(p) PROVE G
  <2>1. /\ Head(todo[p]) \in Files /\ ref[Head(todo[p])] >= 1 /\ Drop(p, Head(todo[p]))
        /\ p \in Pending(Head(todo[p])) /\ closing[p] = None /\ pc[p] = "close"
    BY <1>2, InUse, Zenon DEF FileClose, At
  <2> QED BY <1>1, <2>1, Zenon
<1>3. ASSUME NEW p \in Procs, NEW d \in Fds, ExitDrops(p, d) PROVE G
  <2>1. /\ ofile[p][d] \in Files /\ ref[ofile[p][d]] >= 1 /\ Drop(p, ofile[p][d])
        /\ closing[p] = None /\ pc[p] = "exit"
    BY <1>3, InUse, Zenon DEF ExitDrops, At
  <2> QED BY <1>1, <2>1, Zenon
<1>4. ASSUME NEW p \in Procs, NEW f1 \in Files, NEW g \in free, NewPipe(p, f1, g) PROVE G
  BY <1>4, Zenon DEF NewPipe, Makes, At
<1>5. ASSUME NEW p \in Procs, NEW f \in Files, NEW d \in Fds, Opens(p, f, d) PROVE G
  BY <1>5, Zenon DEF Opens, Inode, SamePipes, pipe
<1>6. ASSUME NEW p \in Procs, NEW f \in Files, TakeFile(p, f) \/ OpenFails(p, f) PROVE G
  BY <1>6, Zenon DEF TakeFile, OpenFails, SameTable, SamePipes, pipe
<1>7. ASSUME NEW p \in Procs, OneFile(p) \/ Exit(p) \/ Closed(p) PROVE G
  BY <1>7, Zenon DEF OneFile, Exit, Closed, SameTable, SamePipes, pipe, ftable
<1>8. ASSUME NEW p \in Procs, PipeWrite(p) \/ PipeRead(p) \/ Kill(p) PROVE G
  BY <1>8, Zenon DEF PipeWrite, PipeRead, Kill, SameTable, SamePipes, pipe, ftable
<1>9. ASSUME NEW p \in Procs, NEW c \in Procs, Fork(p, c) PROVE G
  BY <1>9, Zenon DEF Fork, SameTable, SamePipes, pipe
<1>10. ASSUME NEW p \in Procs, NEW d \in Fds,
              SysClose(p, d) \/ (\E e \in Fds : Dups(p, d, e)) \/ (\E n \in Counts : SysRead(p, d, n))
              \/ (\E s \in Buffers : SysWrite(p, d, s))
       PROVE  G
  BY <1>10, Zenon DEF SysClose, Dups, SysRead, SysWrite, SameTable, SamePipes, pipe, ftable
<1>11. ASSUME UNCHANGED vars PROVE G
  BY <1>11, Zenon DEF vars, SameTable, SamePipes, pipe, ftable
<1>12. G
  <2> HIDE DEF G
  <2>1. ASSUME NEW p \in Procs, PipeClose(p) PROVE G
    BY <2>1, Zenon DEF G
  <2> QED BY <1>2, <1>3, <1>4, <1>5, <1>6, <1>7, <1>8, <1>9, <1>10, <1>11, <2>1, Zenon DEF Steps
<1> QED
  BY <1>12, Zenon

(* The file of a read() or write() under way stays that end of its pipe.     *)
LEMMA UsedKept ==
  ASSUME IInv, Steps, NEW q \in Procs, pc[q] \in {"read", "write"}
  PROVE  type'[file[q]] = "PIPE" /\ end'[file[q]] = end[file[q]]
<1> DEFINE h == file[q]
<1>0. /\ h \in Files /\ type[h] = "PIPE" /\ ref[h] >= 1 /\ ref[h] \in Nat
      /\ type \in [Files -> {"NONE", "PIPE", "INODE"}] /\ end \in [Files -> Ends \cup {None}]
  BY CallPipe, InUse, Zenon DEF IInv, TypeOK
<1>1. ASSUME NEW p \in Procs, NEW f1 \in Files, NEW g \in free, Makes(p, f1, g)
      PROVE  type'[h] = "PIPE" /\ end'[h] = end[h]
  <2>1. h # f1 /\ h # file[p] /\ file[p] \in Files
    BY <1>0, <1>1 DEF Makes, IInv, CallInv
  <2> HIDE DEF h
  <2> QED BY <1>0, <1>1, <2>1, Zenon DEF Makes
<1>2. ASSUME NEW f \in Files, Inode(f) PROVE type'[h] = "PIPE" /\ end'[h] = end[h]
  <2> HIDE DEF h
  <2> QED BY <1>0, <1>2 DEF Inode
<1>3. ASSUME NEW p \in Procs, NEW f \in Files, LastDrop(p, f)
      PROVE type'[h] = "PIPE" /\ end'[h] = end[h]
  <2>1. h # f
    BY <1>3, DropUnused DEF LastDrop
  <2> HIDE DEF h
  <2> QED BY <1>0, <1>3, <2>1, Zenon DEF LastDrop
<1>4. ASSUME NEW p \in Procs, PipeClose(p) PROVE type'[h] = "PIPE" /\ end'[h] = end[h]
  BY <1>0, <1>4, Zenon DEF PipeClose, ftable
<1>5. ASSUME SameTable PROVE type'[h] = "PIPE" /\ end'[h] = end[h]
  BY <1>0, <1>5, Zenon DEF SameTable
<1> QED
  BY <1>1, <1>2, <1>3, <1>4, <1>5, TableStep, Zenon
------------------------------------------------------------------------------
(* Files without references have no type, and pipes' files have their end.   *)
LEMMA FileStep == IInv /\ Steps => FileInv'
<1> SUFFICES ASSUME IInv, Steps, NEW f \in Files
             PROVE  (ref'[f] = 0 => type'[f] = "NONE") /\ (type'[f] = "PIPE" => end'[f] \in Ends)
  BY Zenon DEF FileInv
<1>0. /\ ref \in [Files -> Nat] /\ type \in [Files -> {"NONE", "PIPE", "INODE"}]
      /\ end \in [Files -> Ends \cup {None}]
      /\ (ref[f] = 0 => type[f] = "NONE") /\ (type[f] = "PIPE" => end[f] \in Ends)
  BY Zenon DEF IInv, TypeOK, FileInv
<1>a. TypeOK' /\ TypeOK
  BY TypeStep, Zenon DEF IInv
<1>1. type'[f] = "PIPE" => end'[f] \in Ends
  <2>1. ASSUME NEW p \in Procs, NEW f1 \in Files, NEW g \in free, Makes(p, f1, g)
        PROVE  type'[f] = "PIPE" => end'[f] \in Ends
    <3>1. file[p] \in Files /\ g \in Pages
      BY <2>1, Zenon DEF Makes, IInv, CallInv, TypeOK
    <3>2. [page |-> g, writable |-> FALSE] \in Ends /\ [page |-> g, writable |-> TRUE] \in Ends
      BY <3>1, EndFacts, Zenon
    <3> QED BY <1>0, <2>1, <3>1, <3>2, Zenon DEF Makes
  <2>2. ASSUME NEW h \in Files, Inode(h) PROVE type'[f] = "PIPE" => end'[f] \in Ends
    BY <1>0, <2>2, Zenon DEF Inode
  <2>3. ASSUME NEW p \in Procs, NEW h \in Files, LastDrop(p, h)
        PROVE  type'[f] = "PIPE" => end'[f] \in Ends
    BY <1>0, <2>3, Zenon DEF LastDrop
  <2>4. ASSUME NEW p \in Procs, PipeClose(p) PROVE type'[f] = "PIPE" => end'[f] \in Ends
    BY <1>0, <2>4, Zenon DEF PipeClose, ftable
  <2>5. ASSUME SameTable PROVE type'[f] = "PIPE" => end'[f] \in Ends
    BY <1>0, <2>5, Zenon DEF SameTable
  <2> QED BY <2>1, <2>2, <2>3, <2>4, <2>5, TableStep, Zenon
<1>2. ASSUME type' = type, ref'[f] >= ref[f] PROVE ref'[f] = 0 => type'[f] = "NONE"
  BY <1>0, <1>2, <1>a DEF TypeOK
<1>3. ASSUME NEW p \in Procs, NEW h \in Files, TakeFile(p, h) \/ OpenFails(p, h)
      PROVE  ref'[f] = 0 => type'[f] = "NONE"
  BY <1>0, <1>3, Zenon DEF TakeFile, OpenFails
<1>4. ASSUME NEW p \in Procs, OneFile(p) \/ Exit(p) \/ Closed(p)
      PROVE  ref'[f] = 0 => type'[f] = "NONE"
  BY <1>0, <1>4, Zenon DEF OneFile, Exit, Closed, ftable
<1>5. ASSUME NEW p \in Procs, PipeWrite(p) \/ PipeRead(p) \/ Kill(p) \/ PipeClose(p)
      PROVE  ref'[f] = 0 => type'[f] = "NONE"
  BY <1>0, <1>5, Zenon DEF PipeWrite, PipeRead, Kill, PipeClose, ftable
<1>6. ASSUME NEW p \in Procs, NEW f1 \in Files, NEW g \in free, NewPipe(p, f1, g)
      PROVE  ref'[f] = 0 => type'[f] = "NONE"
  <2>1. file[p] \in Files /\ ref[file[p]] >= 1
    BY <1>6, InUse, Zenon DEF NewPipe, At
  <2> QED BY <1>0, <1>6, <2>1 DEF NewPipe
<1>7. ASSUME NEW p \in Procs, NEW h \in Files, NEW d \in Fds, Opens(p, h, d)
      PROVE  ref'[f] = 0 => type'[f] = "NONE"
  BY <1>0, <1>7 DEF Opens
<1>8. ASSUME NEW p \in Procs, NEW d \in Fds, NEW e \in Fds, Dups(p, d, e)
      PROVE  ref'[f] = 0 => type'[f] = "NONE"
  <2>1. ofile[p][d] \in Files
    BY <1>8, InUse, Zenon DEF Dups
  <2> QED BY <1>0, <1>8, <2>1 DEF Dups
<1>9. ASSUME NEW p \in Procs, NEW h \in Files, ref[h] >= 1, Drop(p, h)
      PROVE  ref'[f] = 0 => type'[f] = "NONE"
  <2>1. CASE ref[h] > 1
    BY <1>0, <1>9, <2>1 DEF Drop
  <2>2. CASE ~(ref[h] > 1)
    BY <1>0, <1>9, <2>2, Zenon DEF Drop
  <2> QED BY <2>1, <2>2, Zenon
<1>10. ASSUME NEW p \in Procs, FileClose(p) PROVE ref'[f] = 0 => type'[f] = "NONE"
  <2>1. Head(todo[p]) \in Files /\ ref[Head(todo[p])] >= 1 /\ Drop(p, Head(todo[p]))
    BY <1>10, InUse, Zenon DEF FileClose
  <2> QED BY <1>9, <2>1, Zenon
<1>11. ASSUME NEW p \in Procs, NEW d \in Fds, ExitDrops(p, d) PROVE ref'[f] = 0 => type'[f] = "NONE"
  <2>1. ofile[p][d] \in Files /\ ref[ofile[p][d]] >= 1 /\ Drop(p, ofile[p][d])
    BY <1>11, InUse, Zenon DEF ExitDrops
  <2> QED BY <1>9, <2>1, Zenon
<1>12. ASSUME NEW p \in Procs, NEW c \in Procs, Fork(p, c) PROVE ref'[f] = 0 => type'[f] = "NONE"
  <2>1. Cardinality({d \in Fds : ofile[p][d] = f}) \in Nat
    BY Zenon DEF IInv, UseInv
  <2>2. ref'[f] = ref[f] + Cardinality({d \in Fds : ofile[p][d] = f}) /\ type' = type
    BY <1>12, Zenon DEF Fork, Dup
  <2> QED BY <1>0, <2>1, <2>2
<1>13. ASSUME NEW p \in Procs, NEW d \in Fds,
              SysClose(p, d) \/ (\E n \in Counts : SysRead(p, d, n))
              \/ (\E s \in Buffers : SysWrite(p, d, s))
       PROVE  ref'[f] = 0 => type'[f] = "NONE"
  BY <1>0, <1>13, Zenon DEF SysClose, SysRead, SysWrite, ftable
<1>14. ASSUME UNCHANGED vars PROVE ref'[f] = 0 => type'[f] = "NONE"
  BY <1>0, <1>14, Zenon DEF vars, ftable
<1>15. ref'[f] = 0 => type'[f] = "NONE"
  BY <1>3, <1>4, <1>5, <1>6, <1>7, <1>8, <1>10, <1>11, <1>12, <1>13, <1>14, Zenon DEF Steps
<1> QED
  BY <1>1, <1>15, Zenon

(* Whoever is in a call keeps its file; whoever is gone has nothing.         *)
LEMMA CallStep == IInv /\ Steps => CallInv'
<1> SUFFICES ASSUME IInv, Steps PROVE CallInv'
  BY Zenon
<1>0. TypeOK /\ CallInv
  BY Zenon DEF IInv
<1>a. /\ pc \in [Procs -> Labels] /\ file \in [Procs -> Files \cup {NoFile}]
      /\ ofile \in [Procs -> [Fds -> Files \cup {NoFile}]] /\ chan \in [Procs -> Chans]
      /\ type \in [Files -> {"NONE", "PIPE", "INODE"}] /\ ref \in [Files -> Nat]
  BY <1>0, Zenon DEF TypeOK, Labels, Chans
<1>b. alive \in [Procs -> BOOLEAN]
  BY <1>0, Zenon DEF TypeOK
<1> DEFINE
  C1(q) == ~alive[q] => pc[q] = "user" /\ \A d \in Fds : ofile[q][d] = NoFile
  C2(q) == pc[q] = "pipe" => file[q] \in Files /\ type[file[q]] = "NONE"
  C3(q, r) == pc[q] = "pipe" /\ pc[r] = "pipe" /\ file[q] = file[r] => q = r
  C4(q) == pc[q] \in {"read", "write"} =>
       /\ file[q] \in Files /\ type[file[q]] = "PIPE"
       /\ end[file[q]].writable = (pc[q] = "write")
       /\ \E d \in Fds : ofile[q][d] = file[q]
  C5(q) == chan[q] # "none" => pc[q] = (IF chan[q] = "nread" THEN "read" ELSE "write")
<1>c. \A q, r \in Procs : C1(q) /\ C2(q) /\ C3(q, r) /\ C4(q) /\ C5(q)
  BY <1>0 DEF CallInv
<1>d. (\A q, r \in Procs : C1(q)' /\ C2(q)' /\ C3(q, r)' /\ C4(q)' /\ C5(q)') => CallInv'
  BY Zenon DEF CallInv
(* a process whose state stays as it was *)
<1>e. ASSUME NEW q \in Procs, pc'[q] = pc[q], file'[q] = file[q], \A d \in Fds : ofile'[q][d] = ofile[q][d]
      PROVE  C4(q)'
  <2>1. pc[q] \in {"read", "write"} => type'[file[q]] = "PIPE" /\ end'[file[q]] = end[file[q]]
    BY UsedKept, Zenon
  <2>2. C4(q)
    BY <1>c, Zenon
  <2> QED BY <1>e, <2>1, <2>2, ZenonT(60)
(* the files that pipealloc() has taken stay without a type *)
<1>f. ASSUME NEW q \in Procs, pc[q] = "pipe", \A p \in Procs, f1 \in Files, g \in free : NewPipe(p, f1, g) => p # q
      PROVE  type'[file[q]] = "NONE"
  <2>0. file[q] \in Files /\ type[file[q]] = "NONE" /\ ref[file[q]] >= 1
    BY <1>c, <1>f, InUse, Zenon
  <2>1. ASSUME NEW p \in Procs, NEW f1 \in Files, NEW g \in free, NewPipe(p, f1, g), Makes(p, f1, g)
        PROVE  type'[file[q]] = "NONE"
    <3>1. p # q /\ file[p] \in Files /\ file[q] # file[p] /\ file[q] # f1
      BY <1>c, <1>f, <2>0, <2>1 DEF Makes
    <3> QED BY <1>a, <2>0, <2>1, <3>1, Zenon DEF Makes
  <2>2. ASSUME NEW f \in Files, Inode(f) PROVE type'[file[q]] = "NONE"
    BY <1>a, <2>0, <2>2 DEF Inode
  <2>3. ASSUME NEW p \in Procs, NEW f \in Files, LastDrop(p, f) PROVE type'[file[q]] = "NONE"
    BY <1>a, <2>0, <2>3, Zenon DEF LastDrop
  <2>4. ASSUME NEW p \in Procs, PipeClose(p) PROVE type'[file[q]] = "NONE"
    BY <2>0, <2>4, Zenon DEF PipeClose, ftable
  <2>5. ASSUME SameTable PROVE type'[file[q]] = "NONE"
    BY <2>0, <2>5, Zenon DEF SameTable
  <2> QED BY <2>1, <2>2, <2>3, <2>4, <2>5, TableStep, Zenon
<1>g. ASSUME NEW q \in Procs, pc'[q] = pc[q], file'[q] = file[q] PROVE C2(q)'
  <2> SUFFICES ASSUME pc[q] = "pipe" PROVE C2(q)'
    BY <1>g, Zenon
  <2>1. file[q] \in Files
    BY <1>c, Zenon
  <2>2. \A p \in Procs, f1 \in Files, g \in free : NewPipe(p, f1, g) => p # q
    <3> SUFFICES ASSUME NEW f1 \in Files, NEW g \in free, NewPipe(q, f1, g) PROVE FALSE
      BY Zenon
    <3>1. file'[q] = NoFile
      BY <1>a, Zenon DEF NewPipe
    <3> QED BY <1>g, <2>1, <3>1 DEF Files, NoFile
  <2>3. type'[file[q]] = "NONE"
    BY <1>f, <2>2, Zenon
  <2> QED BY <1>g, <2>1, <2>3, Zenon
<1>h. ASSUME NEW p \in Procs, C1(p)', C2(p)', C4(p)', C5(p)',
             \A q \in Procs : q # p =>
               /\ pc'[q] = pc[q] /\ file'[q] = file[q] /\ \A d \in Fds : ofile'[q][d] = ofile[q][d]
               /\ alive'[q] = alive[q] /\ chan'[q] \in {"none", chan[q]},
             pc'[p] = "pipe" =>
               \/ pc[p] = "pipe" /\ file'[p] = file[p]
               \/ \A q \in Procs : pc[q] = "pipe" => file[q] # file'[p]
      PROVE  CallInv'
  <2>1. ASSUME NEW q \in Procs, q # p PROVE C1(q)' /\ C2(q)' /\ C4(q)' /\ C5(q)'
    <3>1. pc'[q] = pc[q] /\ file'[q] = file[q] /\ \A d \in Fds : ofile'[q][d] = ofile[q][d]
      BY <1>h, <2>1, Zenon
    <3>2. C4(q)' /\ C2(q)'
      BY <1>e, <1>g, <3>1, Zenon
    <3>3. C1(q)'
      <4>1. alive'[q] = alive[q]
        BY <1>h, <2>1, Zenon
      <4> QED BY <1>c, <3>1, <4>1
    <3>4. C5(q)'
      <4>1. chan'[q] \in {"none", chan[q]}
        BY <1>h, <2>1, Zenon
      <4> QED BY <1>c, <3>1, <4>1
    <3> HIDE DEF C1, C2, C4, C5
    <3> QED BY <3>2, <3>3, <3>4, Zenon
  <2>2. ASSUME NEW q \in Procs, NEW r \in Procs PROVE C3(q, r)'
    <3>1. CASE q # p /\ r # p
      BY <1>c, <1>h, <3>1
    <3>2. CASE q = p /\ r # p
      BY <1>c, <1>h, <3>2
    <3>3. CASE q # p /\ r = p
      BY <1>c, <1>h, <3>3
    <3> QED BY <3>1, <3>2, <3>3, Zenon
  <2>3. \A q, r \in Procs : C1(q)' /\ C2(q)' /\ C3(q, r)' /\ C4(q)' /\ C5(q)'
    <3> HIDE DEF C1, C2, C3, C4, C5
    <3> QED BY <1>h, <2>1, <2>2, Zenon
  <2> HIDE DEF C1, C2, C3, C4, C5
  <2> QED BY <1>d, <2>3, Zenon
<1>i. ASSUME NEW p \in Procs, NEW l \in Labels, At(p, "user") \/ At(p, "pipe") \/ At(p, "close") \/ At(p, "exit"),
             l \in {"user", "close", "exit"}, Goto(p, l), alive'[p],
             \A q \in Procs : q # p =>
               /\ file'[q] = file[q] /\ alive'[q] = alive[q] /\ \A d \in Fds : ofile'[q][d] = ofile[q][d],
             chan' = chan
      PROVE  CallInv'
  <2>1. pc'[p] = l /\ chan'[p] = "none" /\ \A q \in Procs : q # p => pc'[q] = pc[q]
    BY <1>a, <1>i, Zenon DEF Goto, At
  <2>2. C1(p)' /\ C2(p)' /\ C4(p)' /\ C5(p)'
    BY <1>i, <2>1, Zenon
  <2> HIDE DEF C1, C2, C4, C5
  <2> QED BY <1>h, <1>i, <2>1, <2>2, Zenon
<1>1. ASSUME NEW p \in Procs, NEW f \in Files, TakeFile(p, f) PROVE CallInv'
  <2>1. /\ pc'[p] = "pipe" /\ file'[p] = f /\ alive' = alive /\ ofile' = ofile /\ chan' = chan /\ type' = type
        /\ chan[p] = "none" /\ alive[p] /\ ref[f] = 0
        /\ \A q \in Procs : q # p => pc'[q] = pc[q] /\ file'[q] = file[q]
    BY <1>1, <1>a, Zenon DEF TakeFile, Goto, At, fds
  <2>2. \A q \in Procs : pc[q] = "pipe" => file[q] # f
    <3>1. \A q \in Procs : pc[q] = "pipe" => ref[file[q]] >= 1
      BY InUse, Zenon
    <3> QED BY <2>1, <3>1
  <2>3. type[f] = "NONE"
    BY <2>1, Zenon DEF IInv, FileInv
  <2>4. C1(p)' /\ C2(p)' /\ C4(p)' /\ C5(p)'
    BY <2>1, <2>3, Zenon
  <2> HIDE DEF C1, C2, C4, C5
  <2> QED BY <1>h, <2>1, <2>2, <2>4, Zenon
<1>2. ASSUME NEW p \in Procs, NEW f \in Files, OpenFails(p, f) PROVE CallInv'
  BY <1>2, <1>i, Zenon DEF OpenFails, Close, fds, work, At, Labels
<1>3. ASSUME NEW p \in Procs, OneFile(p) PROVE CallInv'
  BY <1>3, <1>a, <1>i, Zenon DEF OneFile, Close, At, Labels
<1>4. ASSUME NEW p \in Procs, NEW f1 \in Files, NEW g \in free, NewPipe(p, f1, g),
             NotInstalled(p, f1) \/ \E d0, d1 \in Fds : Installed(p, f1, d0, d1)
      PROVE  CallInv'
  <2>1. /\ At(p, "pipe") /\ alive'[p] /\ chan' = chan
        /\ \A q \in Procs : q # p => file'[q] = file[q] /\ alive'[q] = alive[q]
    BY <1>4, <1>a, Zenon DEF NewPipe, At
  <2>2. CASE NotInstalled(p, f1)
    BY <1>i, <2>1, <2>2, Zenon DEF NotInstalled, Close, Labels
  <2>3. ASSUME NEW d0 \in Fds, NEW d1 \in Fds, Installed(p, f1, d0, d1) PROVE CallInv'
    <3>1. \A q \in Procs : q # p => \A d \in Fds : ofile'[q][d] = ofile[q][d]
      BY <2>3, <1>a, Zenon DEF Installed
    <3> QED BY <1>i, <2>1, <2>3, <3>1, Zenon DEF Installed, Labels
  <2> QED BY <1>4, <2>2, <2>3, Zenon
<1>5. ASSUME NEW p \in Procs, At(p, "user"), alive' = alive, pc' = pc, chan' = chan, file' = file,
             \A q \in Procs : q # p => \A d \in Fds : ofile'[q][d] = ofile[q][d]
      PROVE  CallInv'
  <2>1. pc'[p] = "user" /\ alive'[p] /\ chan'[p] = "none"
    BY <1>5, Zenon DEF At
  <2>2. C1(p)' /\ C2(p)' /\ C4(p)' /\ C5(p)'
    BY <2>1, Zenon
  <2> HIDE DEF C1, C2, C4, C5
  <2> QED BY <1>h, <1>5, <2>1, <2>2, Zenon
<1>6. ASSUME NEW p \in Procs, NEW f \in Files, NEW d \in Fds, Opens(p, f, d) PROVE CallInv'
  BY <1>5, <1>6, <1>a, Zenon DEF Opens, work
<1>7. ASSUME NEW p \in Procs, NEW d \in Fds, NEW e \in Fds, Dups(p, d, e) PROVE CallInv'
  BY <1>5, <1>7, <1>a, Zenon DEF Dups, work
<1>8. ASSUME NEW p \in Procs, Exit(p) PROVE CallInv'
  BY <1>8, <1>i, Zenon DEF Exit, fds, work, At, Labels
<1>9. ASSUME NEW p \in Procs, NEW d \in Fds, SysClose(p, d) PROVE CallInv'
  <2>1. \A q \in Procs : q # p => \A c \in Fds : ofile'[q][c] = ofile[q][c]
    BY <1>9, <1>a, Zenon DEF SysClose
  <2> QED BY <1>9, <1>i, <2>1, Zenon DEF SysClose, Close, work, At, Labels
<1>10. ASSUME NEW p \in Procs, Closed(p) PROVE CallInv'
  <2>1. /\ pc'[p] = "user" /\ chan' = chan /\ chan[p] = "none" /\ ofile' = ofile /\ file' = file
        /\ alive'[p] = (pc[p] = "close") /\ pc[p] \in {"close", "exit"}
        /\ \A q \in Procs : q # p => pc'[q] = pc[q] /\ alive'[q] = alive[q]
    BY <1>10, <1>a, <1>b, Zenon DEF Closed, Goto, At, work
  <2>2. pc[p] = "exit" => \A d \in Fds : ofile[p][d] = NoFile
    BY <1>10, Zenon DEF Closed, At, FreeFd
  <2>3. C1(p)' /\ C2(p)' /\ C4(p)' /\ C5(p)'
    BY <2>1, <2>2, Zenon
  <2> HIDE DEF C1, C2, C4, C5
  <2> QED BY <1>h, <2>1, <2>3, Zenon
<1>11. ASSUME NEW p \in Procs, NEW c \in Procs, Fork(p, c) PROVE CallInv'
  <2>1. /\ pc'[c] = "user" /\ chan' = chan /\ pc[c] = "user" /\ file' = file /\ alive'[c]
        /\ \A q \in Procs : q # c =>
             pc'[q] = pc[q] /\ alive'[q] = alive[q] /\ \A d \in Fds : ofile'[q][d] = ofile[q][d]
    BY <1>11, <1>a, <1>b, <1>c DEF Fork, Goto, work
  <2>2. chan[c] = "none"
    BY <1>a, <1>c, <2>1, Zenon DEF Chans
  <2>3. C1(c)' /\ C2(c)' /\ C4(c)' /\ C5(c)'
    BY <2>1, <2>2, Zenon
  <2> HIDE DEF C1, C2, C4, C5
  <2> QED BY <1>h, <2>1, <2>3, Zenon
(* the rest of p's state stays as it was *)
<1>12. ASSUME pc' = pc, file' = file, alive' = alive, NEW p \in Procs,
              \A q \in Procs : q # p => \A d \in Fds : ofile'[q][d] = ofile[q][d],
              pc[p] \in {"read", "write"} => \A d \in Fds : ofile'[p][d] = ofile[p][d],
              \A d \in Fds : ofile[p][d] = NoFile => ofile'[p][d] = NoFile,
              \A q \in Procs : chan'[q] \in {"none", chan[q]}
       PROVE  CallInv'
  <2>1. C2(p)'
    BY <1>g, <1>12, Zenon
  <2>2. C4(p)'
    <3>1. CASE pc[p] \in {"read", "write"}
      BY <1>e, <1>12, <3>1, Zenon
    <3>2. CASE ~(pc[p] \in {"read", "write"})
      BY <1>12, <3>2, Zenon
    <3> QED BY <3>1, <3>2, Zenon
  <2>3. C1(p)'
    <3>1. C1(p)
      BY <1>c, Zenon
    <3> QED BY <1>12, <3>1, Zenon
  <2>4. C5(p)'
    <3>1. chan'[p] \in {"none", chan[p]}
      BY <1>12, Zenon
    <3>2. C5(p)
      BY <1>c, Zenon
    <3> QED BY <1>12, <3>1, <3>2, SMTT(30), ZenonT(60)
  <2> HIDE DEF C1, C2, C4, C5
  <2> QED BY <1>h, <1>12, <2>1, <2>2, <2>3, <2>4, Zenon
<1>13. ASSUME NEW p \in Procs, FileClose(p) PROVE CallInv'
  BY <1>12, <1>13, Zenon DEF FileClose, Drop, work
<1>14. ASSUME NEW p \in Procs, NEW d \in Fds, ExitDrops(p, d) PROVE CallInv'
  <2>1. /\ \A q \in Procs : q # p => \A c \in Fds : ofile'[q][c] = ofile[q][c]
        /\ \A c \in Fds : ofile[p][c] = NoFile => ofile'[p][c] = NoFile
    BY <1>14, <1>a, Zenon DEF ExitDrops
  <2> QED BY <1>12, <1>14, <2>1, Zenon DEF ExitDrops, Drop, At, work
<1>15. ASSUME NEW p \in Procs, PipeClose(p) PROVE CallInv'
  <2>1. \A q \in Procs : chan'[q] \in {"none", chan[q]}
    BY <1>0, <1>15, WokenFacts, Zenon DEF PipeClose, OtherEnd, Chans
  <2> QED BY <1>12, <1>15, <2>1, Zenon DEF PipeClose, fds, work
<1>16. ASSUME NEW p \in Procs, Kill(p) PROVE CallInv'
  <2>1. \A q \in Procs : chan'[q] \in {"none", chan[q]}
    BY <1>16, <1>a, Zenon DEF Kill
  <2> QED BY <1>12, <1>16, <2>1, Zenon DEF Kill, fds, work
<1>17. ASSUME UNCHANGED vars PROVE CallInv'
  <2>1. CASE Procs = {}
    BY <2>1, Zenon DEF CallInv
  <2>2. CASE Procs # {}
    <3>1. PICK p \in Procs : TRUE
      BY <2>2, Zenon
    <3> QED BY <1>12, <1>17, <3>1, Zenon DEF vars, fds, work
  <2> QED BY <2>1, <2>2, Zenon
<1>18. ASSUME NEW p \in Procs, NEW d \in Fds, NEW n \in Counts, SysRead(p, d, n) PROVE CallInv'
  <2>1. /\ pc'[p] = "read" /\ file'[p] = ofile[p][d] /\ chan' = chan /\ chan[p] = "none"
        /\ alive' = alive /\ alive[p] /\ ofile' = ofile /\ type' = type /\ end' = end
        /\ type[ofile[p][d]] = "PIPE" /\ ~end[ofile[p][d]].writable /\ ofile[p][d] \in Files
        /\ \A q \in Procs : q # p => pc'[q] = pc[q] /\ file'[q] = file[q]
    BY <1>18, <1>a DEF SysRead, Goto, At, fds, ftable
  <2>2. end[ofile[p][d]].writable = FALSE
    <3>1. end[ofile[p][d]] \in Ends
      BY <2>1, Zenon DEF IInv, FileInv
    <3>2. end[ofile[p][d]].writable \in BOOLEAN
      BY <3>1, EndFacts, Zenon
    <3> QED BY <2>1, <3>2, Zenon
  <2>3. C1(p)' /\ C2(p)' /\ C4(p)' /\ C5(p)'
    BY <2>1, <2>2, Zenon
  <2> HIDE DEF C1, C2, C4, C5
  <2> QED BY <1>h, <2>1, <2>3, Zenon
<1>19. ASSUME NEW p \in Procs, NEW d \in Fds, NEW s \in Buffers, SysWrite(p, d, s) PROVE CallInv'
  <2>1. /\ pc'[p] = "write" /\ file'[p] = ofile[p][d] /\ chan' = chan /\ chan[p] = "none"
        /\ alive' = alive /\ alive[p] /\ ofile' = ofile /\ type' = type /\ end' = end
        /\ type[ofile[p][d]] = "PIPE" /\ end[ofile[p][d]].writable /\ ofile[p][d] \in Files
        /\ \A q \in Procs : q # p => pc'[q] = pc[q] /\ file'[q] = file[q]
    BY <1>19, <1>a DEF SysWrite, Goto, At, fds, ftable
  <2>2. end[ofile[p][d]].writable = TRUE
    <3>1. end[ofile[p][d]] \in Ends
      BY <2>1, Zenon DEF IInv, FileInv
    <3>2. end[ofile[p][d]].writable \in BOOLEAN
      BY <3>1, EndFacts, Zenon
    <3> QED BY <2>1, <3>2, Zenon
  <2>3. C1(p)' /\ C2(p)' /\ C4(p)' /\ C5(p)'
    BY <2>1, <2>2, Zenon
  <2> HIDE DEF C1, C2, C4, C5
  <2> QED BY <1>h, <2>1, <2>3, Zenon
<1>20. ASSUME NEW p \in Procs, PipeWrite(p) PROVE CallInv'
  <2> DEFINE g == end[file[p]].page
  <2>1. /\ pc[p] = "write" /\ alive[p] /\ alive' = alive /\ ofile' = ofile
        /\ \A q \in Procs : q # p => pc'[q] = pc[q] /\ file'[q] = file[q]
    BY <1>20, <1>a, Zenon DEF PipeWrite, Goto, At, fds
  <2>2. \A q \in Procs : Woken(g, "nread")[q] \in {"none", chan[q]}
    BY <1>0, WokenFacts, Zenon DEF Chans
  <2>3. \A q \in Procs : q # p => chan'[q] \in {"none", chan[q]}
    <3>1. chan' \in {chan, Woken(g, "nread"), [Woken(g, "nread") EXCEPT ![p] = "nwrite"]}
      BY <1>20, Zenon DEF PipeWrite
    <3>2. Woken(g, "nread") \in [Procs -> Chans]
      BY <1>0, WokenFacts, Zenon DEF Chans
    <3> QED BY <2>2, <3>1, <3>2, Zenon
  <2>4. C1(p)' /\ C2(p)' /\ C4(p)' /\ C5(p)'
    <3>1. CASE pc'[p] = "user" /\ chan'[p] \in {"none", chan[p]}
      <4>1. chan[p] = "none"
        BY <1>20, Zenon DEF PipeWrite, At
      <4> QED BY <2>1, <3>1, <4>1, Zenon
    <3>2. CASE pc'[p] = pc[p] /\ file'[p] = file[p] /\ chan'[p] = "nwrite"
      <4>1. C4(p)'
        BY <1>e, <2>1, <3>2, Zenon
      <4> QED BY <2>1, <3>2, <4>1, Zenon
    <3>3. \/ pc'[p] = "user" /\ chan'[p] \in {"none", chan[p]}
          \/ pc'[p] = pc[p] /\ file'[p] = file[p] /\ chan'[p] = "nwrite"
      <4>1. CASE Goto(p, "user") /\ (chan' = Woken(g, "nread") \/ chan' = chan)
        BY <1>a, <2>2, <4>1, Zenon DEF Goto
      <4>2. CASE UNCHANGED <<pc, file>> /\ chan' = [Woken(g, "nread") EXCEPT ![p] = "nwrite"]
        <5>1. Woken(g, "nread") \in [Procs -> Chans]
          BY <1>0, WokenFacts, Zenon DEF Chans
        <5> QED BY <4>2, <5>1, Zenon
      <4> QED BY <1>20, <4>1, <4>2, Zenon DEF PipeWrite
    <3> QED BY <3>1, <3>2, <3>3, Zenon
  <2>5. pc'[p] # "pipe"
    BY <1>20, <1>a, <2>1, Zenon DEF PipeWrite, Goto
  <2> HIDE DEF C1, C2, C4, C5
  <2> QED BY <1>h, <2>1, <2>3, <2>4, <2>5, Zenon
<1>21. ASSUME NEW p \in Procs, PipeRead(p) PROVE CallInv'
  <2> DEFINE g == end[file[p]].page
  <2>1. /\ pc[p] = "read" /\ alive[p] /\ alive' = alive /\ ofile' = ofile
        /\ \A q \in Procs : q # p => pc'[q] = pc[q] /\ file'[q] = file[q]
    BY <1>21, <1>a, Zenon DEF PipeRead, Goto, At, fds
  <2>2. \A q \in Procs : Woken(g, "nwrite")[q] \in {"none", chan[q]}
    BY <1>0, WokenFacts, Zenon DEF Chans
  <2>3. \A q \in Procs : q # p => chan'[q] \in {"none", chan[q]}
    BY <1>21, <2>2, <1>a, Zenon DEF PipeRead
  <2>4. C1(p)' /\ C2(p)' /\ C4(p)' /\ C5(p)'
    <3>1. CASE pc'[p] = "user" /\ chan'[p] \in {"none", chan[p]}
      <4>1. chan[p] = "none"
        BY <1>21, Zenon DEF PipeRead, At
      <4> QED BY <2>1, <3>1, <4>1, Zenon
    <3>2. CASE pc'[p] = pc[p] /\ file'[p] = file[p] /\ chan'[p] = "nread"
      <4>1. C4(p)'
        BY <1>e, <2>1, <3>2, Zenon
      <4> QED BY <2>1, <3>2, <4>1, Zenon
    <3>3. \/ pc'[p] = "user" /\ chan'[p] \in {"none", chan[p]}
          \/ pc'[p] = pc[p] /\ file'[p] = file[p] /\ chan'[p] = "nread"
      <4>1. CASE Goto(p, "user") /\ chan' = Woken(g, "nwrite")
        BY <1>a, <2>2, <4>1, Zenon DEF Goto
      <4>2. CASE UNCHANGED <<pc, file>> /\ chan' = [chan EXCEPT ![p] = "nread"]
        BY <1>a, <4>2, Zenon
      <4> QED BY <1>21, <4>1, <4>2, Zenon DEF PipeRead
    <3> QED BY <3>1, <3>2, <3>3, Zenon
  <2>5. pc'[p] # "pipe"
    BY <1>21, <1>a, <2>1, Zenon DEF PipeRead, Goto
  <2> HIDE DEF C1, C2, C4, C5
  <2> QED BY <1>h, <2>1, <2>3, <2>4, <2>5, Zenon
<1> QED
  BY <1>1, <1>2, <1>3, <1>4, <1>6, <1>7, <1>8, <1>9, <1>10, <1>11, <1>13, <1>14, <1>15, <1>16, <1>17,
     <1>18, <1>19, <1>20, <1>21 DEF Steps
------------------------------------------------------------------------------
(* File f is end e of a pipe. *)
Has(f, e) == type[f] = "PIPE" /\ end[f] = e

(* Every open end has its file or is being closed, and only one of the two:  *)
(* pipealloc() opens both, the last fileclose() takes an end from the file,  *)
(* and pipeclose() shuts it.                                                 *)
LEMMA EndStep == IInv /\ Steps => EndInv'
<1> SUFFICES ASSUME IInv, Steps PROVE EndInv'
  BY Zenon
<1> DEFINE E1(f, e) == Has(f, e) => OpenEnd(e)
           E2(f, h, e) == Has(f, e) /\ Has(h, e) => f = h
           E3(f, p, e) == Has(f, e) => closing[p] # e
           E4(p, e) == closing[p] = e => OpenEnd(e)
           E5(e) == OpenEnd(e) => (\E f \in Files : Has(f, e)) \/ (\E p \in Procs : closing[p] = e)
           E6(g) == g \in free <=> ~readopen[g] /\ ~writeopen[g]
           E7(p, q, e) == closing[p] = e /\ closing[q] = e => p = q
<1>0. TypeOK /\ FileInv /\ TypeOK' /\ FileInv' /\ EndInv /\ NoDangling
  BY TypeStep, FileStep, Zenon DEF IInv, EndInv
<1>1. /\ \A f \in Files, e \in Ends : E1(f, e)
      /\ \A f \in Files, h \in Files, e \in Ends : E2(f, h, e)
      /\ \A f \in Files, p \in Procs, e \in Ends : E3(f, p, e)
      /\ \A p \in Procs, e \in Ends : E4(p, e)
      /\ \A e \in Ends : E5(e)
      /\ \A g \in Pages : E6(g)
      /\ \A p \in Procs, q \in Procs, e \in Ends : E7(p, q, e)
  <2>1. \A f \in Files, e \in Ends : E1(f, e)
    BY <1>0, Zenon DEF NoDangling, Has
  <2>2. \A f \in Files, h \in Files, e \in Ends : E2(f, h, e)
    <3> SUFFICES ASSUME NEW f \in Files, NEW h \in Files, NEW e \in Ends, Has(f, e), Has(h, e)
                 PROVE  f = h
      BY Zenon
    <3> QED BY <1>0, SMTT(30) DEF NoDangling, Has
  <2>3. \A f \in Files, p \in Procs, e \in Ends : E3(f, p, e)
    BY <1>0 DEF NoDangling, Has
  <2>4. \A p \in Procs, e \in Ends : E4(p, e)
    BY <1>0, EndFacts, ZenonT(60) DEF NoDangling
  <2>5. \A e \in Ends : E5(e)
    BY <1>0, Zenon DEF NoDangling, Has
  <2>6. \A g \in Pages : E6(g)
    BY <1>0, Zenon DEF NoDangling
  <2>7. \A p \in Procs, q \in Procs, e \in Ends : E7(p, q, e)
    BY <1>0, EndFacts, Zenon DEF EndInv
  <2> QED BY <2>1, <2>2, <2>3, <2>4, <2>5, <2>6, <2>7, Zenon
<1>2. ASSUME \A f \in Files, e \in Ends : E1(f, e)',
             \A f \in Files, h \in Files, e \in Ends : E2(f, h, e)',
             \A f \in Files, p \in Procs, e \in Ends : E3(f, p, e)',
             \A p \in Procs, e \in Ends : E4(p, e)',
             \A e \in Ends : E5(e)',
             \A g \in Pages : E6(g)',
             \A p \in Procs, q \in Procs, e \in Ends : E7(p, q, e)'
      PROVE  EndInv'
  <2>1. \A f \in Files : type'[f] = "PIPE" => end'[f] \in Ends
    BY <1>0, Zenon DEF FileInv
  <2>2. \A p \in Procs : closing'[p] # None => closing'[p] \in Ends
    BY <1>0 DEF TypeOK
  <2>3. \A e \in Ends : OpenEnd(e)' => e.page \notin free'
    BY <1>2, EndFacts, Zenon DEF OpenEnd
  <2>4. ASSUME NEW f \in Files, type'[f] = "PIPE"
        PROVE  /\ end'[f].page \notin free' /\ OpenEnd(end[f])'
               /\ \A h \in Files \ {f} : type'[h] = "PIPE" => end'[h] # end'[f]
               /\ \A p \in Procs : closing'[p] # end'[f]
    <3>1. end'[f] \in Ends
      BY <2>1, <2>4, Zenon
    <3>2. \A e \in Ends : e = end'[f] => OpenEnd(e)'
      BY <1>2, <2>4, Zenon DEF Has
    <3>3. OpenEnd(end[f])' /\ end'[f].page \notin free'
      BY <2>3, <3>1, <3>2, Zenon DEF OpenEnd
    <3>4. \A h \in Files \ {f} : type'[h] = "PIPE" => end'[h] # end'[f]
      BY <1>2, <2>4, <3>1, Zenon DEF Has
    <3>5. \A p \in Procs : closing'[p] # end'[f]
      BY <1>2, <2>4, <3>1, Zenon DEF Has
    <3> QED BY <3>3, <3>4, <3>5, Zenon
  <2>5. ASSUME NEW p \in Procs, closing'[p] # None
        PROVE  closing'[p].page \notin free' /\ OpenEnd(closing[p])'
    <3>1. closing'[p] \in Ends
      BY <2>2, <2>5, Zenon
    <3>2. \A e \in Ends : e = closing'[p] => OpenEnd(e)'
      BY <1>2, Zenon
    <3> QED BY <2>3, <3>1, <3>2, Zenon DEF OpenEnd
  <2>6. \A e \in Ends : OpenEnd(e)' =>
          (\E f \in Files : type'[f] = "PIPE" /\ end'[f] = e) \/ (\E p \in Procs : closing'[p] = e)
    BY <1>2, Zenon DEF Has
  <2>7. \A g \in Pages : g \in free' <=> ~readopen'[g] /\ ~writeopen'[g]
    BY <1>2, Zenon
  <2>8. \A p, q \in Procs : closing'[p] = closing'[q] /\ closing'[p] # None => p = q
    BY <1>2, <2>2, Zenon
  <2>9. NoDangling'
    BY <2>4, <2>5, <2>6, <2>7, Zenon DEF NoDangling
  <2> QED BY <2>8, <2>9, Zenon DEF EndInv
<1>a. \A f \in Files : type[f] = "PIPE" => end[f] \in Ends
  BY <1>0, Zenon DEF FileInv
<1>b. \A e \in Ends : OpenEnd(e) \in BOOLEAN /\ OpenEnd(e)' \in BOOLEAN
  BY <1>0, EndFacts DEF TypeOK, OpenEnd
(* where nothing of this changes *)
<1>3. ASSUME \A f \in Files, e \in Ends : Has(f, e)' <=> Has(f, e),
             \A p \in Procs, e \in Ends : closing'[p] = e <=> closing[p] = e,
             SamePipes
      PROVE  EndInv'
  <2>1. \A e \in Ends : OpenEnd(e)' <=> OpenEnd(e)
    BY <1>3, Zenon DEF SamePipes, OpenEnd
  <2>2. \A f \in Files, e \in Ends : E1(f, e)'
    BY <1>1, <1>3, <2>1, Zenon
  <2>3. \A f \in Files, h \in Files, e \in Ends : E2(f, h, e)'
    BY <1>1, <1>3, <2>1, Zenon
  <2>4. \A f \in Files, p \in Procs, e \in Ends : E3(f, p, e)'
    BY <1>1, <1>3, <2>1
  <2>5. \A p \in Procs, e \in Ends : E4(p, e)'
    BY <1>1, <1>3, <2>1, Zenon
  <2>6. \A e \in Ends : E5(e)'
    BY <1>1, <1>3, <2>1, Zenon
  <2>7. \A g \in Pages : E6(g)'
    BY <1>1, <1>3, Zenon DEF SamePipes
  <2>8. \A p \in Procs, q \in Procs, e \in Ends : E7(p, q, e)'
    BY <1>1, <1>3, Zenon
  <2> QED BY <1>2, <2>2, <2>3, <2>4, <2>5, <2>6, <2>7, <2>8, Zenon
<1>4. ASSUME SameTable /\ SamePipes PROVE EndInv'
  BY <1>3, <1>4, Zenon DEF SameTable, Has
<1>5. ASSUME NEW f \in Files, Inode(f), SamePipes PROVE EndInv'
  <2>1. type[f] = "NONE" /\ type \in [Files -> {"NONE", "PIPE", "INODE"}]
    BY <1>0, <1>5, Zenon DEF Inode, FileInv, TypeOK
  <2>2. \A h \in Files, e \in Ends : Has(h, e)' <=> Has(h, e)
    BY <1>5, <2>1, Zenon DEF Inode, Has
  <2> QED BY <1>3, <1>5, <2>2, Zenon DEF Inode
<1>6. ASSUME NEW p \in Procs, NEW f1 \in Files, NEW g \in free, NewPipe(p, f1, g), Makes(p, f1, g)
      PROVE  EndInv'
  <2> DEFINE f0 == file[p]
             e0 == [page |-> g, writable |-> FALSE]
             e1 == [page |-> g, writable |-> TRUE]
  <2>1. /\ f0 \in Files /\ f0 # f1 /\ type[f0] = "NONE" /\ type[f1] = "NONE" /\ g \in Pages
        /\ type \in [Files -> {"NONE", "PIPE", "INODE"}] /\ end \in [Files -> Ends \cup {None}]
    <3>1. pc[p] = "pipe" /\ ref[f1] = 0
      BY <1>6, Zenon DEF Makes
    <3>2. f0 \in Files /\ type[f0] = "NONE" /\ ref[f0] >= 1
      BY <3>1, InUse, Zenon DEF IInv, CallInv
    <3>3. f0 # f1
      BY <3>1, <3>2
    <3> QED BY <1>0, <3>1, <3>2, <3>3, Zenon DEF FileInv, TypeOK
  <2>2. e0 \in Ends /\ e1 \in Ends /\ e0 # e1
    <3>1. e0.writable # e1.writable
      BY Zenon
    <3> QED BY <2>1, <3>1, EndFacts, Zenon
  <2>3. \A f \in Files, e \in Ends :
          Has(f, e)' <=> IF f = f0 THEN e = e0 ELSE IF f = f1 THEN e = e1 ELSE Has(f, e)
    <3> HIDE DEF f0, e0, e1
    <3>1. type' = [type EXCEPT ![f0] = "PIPE", ![f1] = "PIPE"] /\ end' = [end EXCEPT ![f0] = e0, ![f1] = e1]
      BY <1>6, Zenon DEF Makes, f0, e0, e1
    <3> QED BY <2>1, <3>1, Zenon DEF Has
  <2>4. \A f \in Files, e \in Ends : Has(f, e) => f # f0 /\ f # f1
    BY <2>1, Zenon DEF Has
  <2>5. ~OpenEnd(e0) /\ ~OpenEnd(e1)
    <3>1. ~readopen[g] /\ ~writeopen[g]
      BY <1>1, <2>1, Zenon
    <3> QED BY <3>1, Zenon DEF OpenEnd
  <2>6. \A e \in Ends : OpenEnd(e)' <=> OpenEnd(e) \/ e = e0 \/ e = e1
    <3>1. /\ readopen' = [readopen EXCEPT ![g] = TRUE] /\ writeopen' = [writeopen EXCEPT ![g] = TRUE]
          /\ readopen \in [Pages -> BOOLEAN] /\ writeopen \in [Pages -> BOOLEAN]
      BY <1>0, <1>6, Zenon DEF NewPipe, TypeOK
    <3>2. ASSUME NEW e \in Ends PROVE OpenEnd(e)' <=> OpenEnd(e) \/ e = e0 \/ e = e1
      <4>1. e.page \in Pages /\ e.writable \in BOOLEAN /\ e = [page |-> e.page, writable |-> e.writable]
        BY EndFacts, Zenon
      <4>2. CASE e.page = g
        <5>1. OpenEnd(e)'
          BY <2>1, <3>1, <4>2, Zenon DEF OpenEnd
        <5>2. e = e0 \/ e = e1
          BY <4>1, <4>2, Zenon
        <5> QED BY <5>1, <5>2, Zenon
      <4>3. CASE e.page # g
        <5>1. readopen'[e.page] = readopen[e.page] /\ writeopen'[e.page] = writeopen[e.page]
          BY <3>1, <4>1, <4>3, Zenon
        <5>2. e # e0 /\ e # e1
          BY <4>3, SMTT(30)
        <5> QED BY <5>1, <5>2, Zenon DEF OpenEnd
      <4> QED BY <4>2, <4>3, Zenon
    <3> QED BY <3>2, Zenon
  <2>7. closing' = closing /\ free' = free \ {g}
    BY <1>6, Zenon DEF Makes, NewPipe
  <2>8. \A h \in Pages : E6(h)'
    <3>1. /\ readopen' = [readopen EXCEPT ![g] = TRUE] /\ writeopen' = [writeopen EXCEPT ![g] = TRUE]
          /\ readopen \in [Pages -> BOOLEAN] /\ writeopen \in [Pages -> BOOLEAN]
      BY <1>0, <1>6, Zenon DEF NewPipe, TypeOK
    <3> QED BY <1>1, <2>1, <2>7, <3>1, Zenon
  <2> HIDE DEF f0, e0, e1
  <2>9. \A f \in Files, e \in Ends : E1(f, e)'
    BY <1>1, <2>3, <2>6, Zenon
  <2>10. \A f \in Files, h \in Files, e \in Ends : E2(f, h, e)'
    <3>1. \A f \in Files : ~Has(f, e0) /\ ~Has(f, e1)
      BY <1>1, <2>2, <2>5, Zenon
    <3>2. \A f \in Files, h \in Files, e \in Ends : Has(f, e) /\ Has(h, e) => f = h
      BY <1>1, Zenon
    <3> QED BY <2>2, <2>3, <3>1, <3>2, SMTT(30), ZenonT(60)
  <2>11. \A f \in Files, q \in Procs, e \in Ends : E3(f, q, e)'
    BY <1>1, <2>2, <2>3, <2>5, <2>7, ZenonT(60)
  <2>12. \A q \in Procs, e \in Ends : E4(q, e)'
    BY <1>1, <2>6, <2>7, Zenon
  <2>13. \A e \in Ends : E5(e)'
    <3> SUFFICES ASSUME NEW e \in Ends, OpenEnd(e)'
                 PROVE  (\E f \in Files : Has(f, e)') \/ (\E q \in Procs : closing'[q] = e)
      BY Zenon
    <3>1. CASE e = e0
      BY <2>1, <2>3, <3>1, Zenon
    <3>2. CASE e = e1
      BY <2>1, <2>3, <3>2, Zenon
    <3>3. CASE OpenEnd(e)
      BY <1>1, <2>3, <2>4, <2>7, <3>3, Zenon
    <3> QED BY <2>6, <3>1, <3>2, <3>3, Zenon
  <2>14. \A q \in Procs, r \in Procs, e \in Ends : E7(q, r, e)'
    BY <1>1, <2>7, Zenon
  <2> QED BY <1>2, <2>8, <2>9, <2>10, <2>11, <2>12, <2>13, <2>14, Zenon
<1>7. ASSUME NEW p \in Procs, NEW f \in Files, LastDrop(p, f), SamePipes PROVE EndInv'
  <2>1. /\ closing[p] = None /\ closing' = [closing EXCEPT ![p] = IF type[f] = "PIPE" THEN end[f] ELSE None]
        /\ type' = [type EXCEPT ![f] = "NONE"] /\ end' = [end EXCEPT ![f] = None]
        /\ type \in [Files -> {"NONE", "PIPE", "INODE"}] /\ end \in [Files -> Ends \cup {None}]
        /\ closing \in [Procs -> Ends \cup {None}]
    BY <1>0, <1>7, Zenon DEF LastDrop, TypeOK
  <2>2. \A h \in Files, e \in Ends : Has(h, e)' <=> h # f /\ Has(h, e)
    BY <2>1, Zenon DEF Has
  <2>3. CASE type[f] # "PIPE"
    <3>1. \A h \in Files, e \in Ends : Has(h, e)' <=> Has(h, e)
      BY <2>2, <2>3, Zenon DEF Has
    <3>2. \A q \in Procs, e \in Ends : closing'[q] = e <=> closing[q] = e
      BY <2>1, <2>3, Zenon
    <3> QED BY <1>3, <1>7, <3>1, <3>2, Zenon
  <2>4. CASE type[f] = "PIPE"
    <3> DEFINE e0 == end[f]
    <3>1. e0 \in Ends /\ Has(f, e0)
      BY <1>a, <2>4, Zenon DEF Has
    <3>2. \A q \in Procs, e \in Ends : closing'[q] = e <=> IF q = p THEN e = e0 ELSE closing[q] = e
      BY <2>1, <2>4, Zenon
    <3>3. \A e \in Ends : closing[p] # e
      BY <2>1, EndFacts, Zenon
    <3>4. \A e \in Ends : OpenEnd(e)' <=> OpenEnd(e)
      BY <1>7, Zenon DEF SamePipes, OpenEnd
    <3>5. \A e \in Ends : Has(f, e) <=> e = e0
      BY <3>1, Zenon DEF Has
    <3> HIDE DEF e0
    <3>6. \A h \in Files, e \in Ends : E1(h, e)'
      BY <1>1, <2>2, <3>4, Zenon
    <3>7. \A h \in Files, k \in Files, e \in Ends : E2(h, k, e)'
      BY <1>1, <2>2, Zenon
    <3>8. \A h \in Files, q \in Procs, e \in Ends : E3(h, q, e)'
      BY <1>1, <2>2, <3>1, <3>2, SMTT(30)
    <3>9. \A q \in Procs, e \in Ends : E4(q, e)'
      BY <1>1, <3>1, <3>2, <3>4, SMTT(30)
    <3>10. \A e \in Ends : E5(e)'
      <4> SUFFICES ASSUME NEW e \in Ends, OpenEnd(e)'
                   PROVE  (\E h \in Files : Has(h, e)') \/ (\E q \in Procs : closing'[q] = e)
        BY Zenon
      <4>1. CASE e = e0
        BY <3>2, <4>1, Zenon
      <4>2. CASE e # e0
        <5>1. (\E h \in Files : Has(h, e)) \/ (\E q \in Procs : closing[q] = e)
          BY <1>1, <3>4, Zenon
        <5>2. ASSUME NEW h \in Files, Has(h, e) PROVE Has(h, e)'
          BY <2>2, <3>5, <4>2, <5>2, Zenon
        <5>3. ASSUME NEW q \in Procs, closing[q] = e PROVE closing'[q] = e
          BY <3>2, <3>3, <5>3, Zenon
        <5> QED BY <5>1, <5>2, <5>3, Zenon
      <4> QED BY <4>1, <4>2, Zenon
    <3>11. \A g \in Pages : E6(g)'
      BY <1>1, <1>7, Zenon DEF SamePipes
    <3>12. \A q \in Procs, r \in Procs, e \in Ends : E7(q, r, e)'
      <4> SUFFICES ASSUME NEW q \in Procs, NEW r \in Procs, NEW e \in Ends, closing'[q] = e, closing'[r] = e
                   PROVE  q = r
        BY Zenon
      <4>1. \A x \in Procs : closing[x] # e0
        BY <1>1, <3>1, Zenon
      <4>2. CASE e = e0
        BY <3>2, <4>1, <4>2, Zenon
      <4>3. CASE e # e0
        BY <1>1, <3>2, <4>3, Zenon
      <4> QED BY <4>2, <4>3, Zenon
    <3> QED BY <1>2, <3>6, <3>7, <3>8, <3>9, <3>10, <3>11, <3>12, Zenon
  <2> QED BY <2>3, <2>4, Zenon
<1>8. ASSUME NEW p \in Procs, PipeClose(p) PROVE EndInv'
  <2> DEFINE e0 == closing[p]
  <2>1. /\ e0 # None /\ closing' = [closing EXCEPT ![p] = None] /\ type' = type /\ end' = end
        /\ closing \in [Procs -> Ends \cup {None}]
        /\ writeopen' = [writeopen EXCEPT ![e0.page] = @ /\ ~e0.writable]
        /\ readopen' = [readopen EXCEPT ![e0.page] = @ /\ e0.writable]
        /\ readopen \in [Pages -> BOOLEAN] /\ writeopen \in [Pages -> BOOLEAN]
    BY <1>0, <1>8, Zenon DEF PipeClose, ftable, TypeOK
  <2>2. e0 \in Ends /\ OpenEnd(e0)
    BY <1>1, <2>1, Zenon
  <2>3. e0.page \in Pages /\ e0.writable \in BOOLEAN /\ e0 = [page |-> e0.page, writable |-> e0.writable]
    BY <2>2, EndFacts, Zenon
  <2>4. free' = IF ~readopen'[e0.page] /\ ~writeopen'[e0.page] THEN free \cup {e0.page} ELSE free
    BY <1>8, Zenon DEF PipeClose, Freed
  <2>5. e0.page \notin free
    BY <1>1, <2>2, <2>3, Zenon DEF OpenEnd
  <2>6. \A f \in Files, e \in Ends : Has(f, e)' <=> Has(f, e)
    BY <2>1, Zenon DEF Has
  <2>7. \A q \in Procs, e \in Ends : closing'[q] = e <=> q # p /\ closing[q] = e
    BY <2>1, EndFacts, Zenon
  <2>8. ASSUME NEW e \in Ends PROVE OpenEnd(e)' <=> OpenEnd(e) /\ e # e0
    <3>1. e.page \in Pages /\ e.writable \in BOOLEAN /\ e = [page |-> e.page, writable |-> e.writable]
      BY EndFacts, Zenon
    <3>2. CASE e.page # e0.page
      <4>1. readopen'[e.page] = readopen[e.page] /\ writeopen'[e.page] = writeopen[e.page]
        BY <2>1, <2>3, <3>1, <3>2, Zenon
      <4> QED BY <3>2, <4>1, Zenon DEF OpenEnd
    <3>3. CASE e.page = e0.page
      <4>1. /\ writeopen'[e.page] <=> writeopen[e.page] /\ ~e0.writable
            /\ readopen'[e.page] <=> readopen[e.page] /\ e0.writable
        BY <2>1, <2>3, <3>1, <3>3, Zenon
      <4>2. e = e0 <=> e.writable = e0.writable
        BY <2>3, <3>1, <3>3, Zenon
      <4>3. CASE e.writable = TRUE
        <5>1. OpenEnd(e)' <=> writeopen'[e.page]
          BY <4>3, Zenon DEF OpenEnd
        <5>2. OpenEnd(e) <=> writeopen[e.page]
          BY <4>3, Zenon DEF OpenEnd
        <5> QED BY <2>3, <4>1, <4>2, <4>3, <5>1, <5>2, Zenon
      <4>4. CASE e.writable = FALSE
        <5>1. OpenEnd(e)' <=> readopen'[e.page]
          BY <4>4, Zenon DEF OpenEnd
        <5>2. OpenEnd(e) <=> readopen[e.page]
          BY <4>4, Zenon DEF OpenEnd
        <5> QED BY <2>3, <4>1, <4>2, <4>4, <5>1, <5>2, Zenon
      <4> QED BY <3>1, <4>3, <4>4, Zenon
    <3> QED BY <3>2, <3>3, Zenon
  <2>9. \A h \in Pages : E6(h)'
    <3>1. ASSUME NEW h \in Pages, h # e0.page PROVE E6(h)'
      <4>1. readopen'[h] = readopen[h] /\ writeopen'[h] = writeopen[h]
        BY <2>1, <2>3, <3>1, Zenon
      <4>2. h \in free' <=> h \in free
        BY <2>4, <3>1, Zenon
      <4>3. h \in free <=> ~readopen[h] /\ ~writeopen[h]
        BY <1>1, Zenon
      <4> QED BY <4>1, <4>2, <4>3, Zenon
    <3>2. ASSUME NEW h \in Pages, h = e0.page PROVE E6(h)'
      BY <2>4, <2>5, <3>2, Zenon
    <3> QED BY <3>1, <3>2, Zenon
  <2> HIDE DEF e0
  <2>10. \A f \in Files, e \in Ends : E1(f, e)'
    BY <1>1, <2>6, <2>8, Zenon DEF e0
  <2>11. \A f \in Files, h \in Files, e \in Ends : E2(f, h, e)'
    BY <1>1, <2>6, Zenon
  <2>12. \A f \in Files, q \in Procs, e \in Ends : E3(f, q, e)'
    BY <1>1, <2>6, <2>7, SMTT(30)
  <2>13. \A q \in Procs, e \in Ends : E4(q, e)'
    BY <1>1, <2>7, <2>8, SMTT(30) DEF e0
  <2>14. \A e \in Ends : E5(e)'
    BY <1>1, <2>6, <2>7, <2>8, Zenon DEF e0
  <2>15. \A q \in Procs, r \in Procs, e \in Ends : E7(q, r, e)'
    BY <1>1, <2>7, Zenon
  <2> QED BY <1>2, <2>9, <2>10, <2>11, <2>12, <2>13, <2>14, <2>15, Zenon
<1> QED
  BY <1>4, <1>5, <1>6, <1>7, <1>8, TableStep, Zenon
------------------------------------------------------------------------------
(* The counters r and w of a pipe that is empty, or full. *)
LEMMA CounterEnds ==
  ASSUME NEW r \in 0 .. UINT - 1, NEW w \in 0 .. UINT - 1
  PROVE  /\ r = w <=> (w - r) % UINT = 0
         /\ w = (r + PIPESIZE) % UINT <=> (w - r) % UINT = PIPESIZE
<1>1. UINT \in Nat /\ UINT > 0 /\ PIPESIZE \in Nat /\ PIPESIZE > 0 /\ PIPESIZE < UINT
  BY FilesAssumption, SMTT(30)
<1>2. (w - r) % UINT = IF w >= r THEN w - r ELSE w - r + UINT
  BY <1>1, ModDiff, Zenon
<1>3. (r + PIPESIZE) % UINT = IF r + PIPESIZE < UINT THEN r + PIPESIZE ELSE r + PIPESIZE - UINT
  BY <1>1, ModSum, SMTT(30)
<1> QED
  BY <1>1, <1>2, <1>3, SMTT(30)

(* Steps that leave every pipe alone, and at most wake somebody.             *)
Quiet ==
  /\ UNCHANGED <<data, nread, nwrite, readopen, writeopen, free, out, eof>>
  /\ \A q \in Procs : chan'[q] \in {"none", chan[q]}

(* The calls that touch a pipe are pipe(), close(), write() and read().      *)
LEMMA PipeCases ==
  ASSUME IInv, Steps
  PROVE  \/ Quiet
         \/ \E p \in Procs, f1 \in Files, g \in free : NewPipe(p, f1, g)
         \/ \E p \in Procs : PipeClose(p) \/ PipeWrite(p) \/ PipeRead(p)
<1> DEFINE G == \/ Quiet
                \/ \E p \in Procs, f1 \in Files, g \in free : NewPipe(p, f1, g)
                \/ \E p \in Procs : PipeClose(p) \/ PipeWrite(p) \/ PipeRead(p)
<1>0. chan \in [Procs -> Chans]
  BY Zenon DEF IInv, TypeOK, Chans
<1>1. ASSUME NEW p \in Procs, NEW f \in Files, TakeFile(p, f) \/ OpenFails(p, f) PROVE G
  BY <1>1, Zenon DEF TakeFile, OpenFails, Quiet, pipe, hist
<1>2. ASSUME NEW p \in Procs, OneFile(p) \/ Exit(p) \/ Closed(p) PROVE G
  BY <1>2, Zenon DEF OneFile, Exit, Closed, Quiet, pipe, hist
<1>3. ASSUME NEW p \in Procs, NEW f \in Files, NEW d \in Fds, Opens(p, f, d) PROVE G
  BY <1>3, Zenon DEF Opens, Quiet, pipe, hist
<1>4. ASSUME NEW p \in Procs, NEW c \in Procs, Fork(p, c) PROVE G
  BY <1>4, Zenon DEF Fork, Quiet, pipe, hist
<1>5. ASSUME NEW p \in Procs, NEW d \in Fds,
             SysClose(p, d) \/ (\E e \in Fds : Dups(p, d, e)) \/ (\E n \in Counts : SysRead(p, d, n))
             \/ (\E s \in Buffers : SysWrite(p, d, s))
       PROVE  G
  BY <1>5, Zenon DEF SysClose, Dups, SysRead, SysWrite, Quiet, pipe, hist
<1>6. ASSUME NEW p \in Procs, FileClose(p) \/ \E d \in Fds : ExitDrops(p, d) PROVE G
  BY <1>6, Zenon DEF FileClose, ExitDrops, Drop, Quiet, pipe, hist
<1>7. ASSUME NEW p \in Procs, Kill(p) PROVE G
  <2>1. \A q \in Procs : chan'[q] \in {"none", chan[q]}
    BY <1>0, <1>7, Zenon DEF Kill
  <2> QED BY <1>7, <2>1, Zenon DEF Kill, Quiet, pipe, hist
<1>8. ASSUME UNCHANGED vars PROVE G
  BY <1>8, Zenon DEF vars, Quiet, pipe, hist
<1>9. G
  <2>1. ASSUME NEW p \in Procs, PipeClose(p) \/ PipeWrite(p) \/ PipeRead(p) PROVE G
    BY <2>1, Zenon
  <2>2. ASSUME NEW p \in Procs, NEW f1 \in Files, NEW g \in free, NewPipe(p, f1, g) PROVE G
    BY <2>2, Zenon
  <2> HIDE DEF G
  <2> QED BY <1>1, <1>2, <1>3, <1>4, <1>5, <1>6, <1>7, <1>8, <2>1, <2>2, Zenon DEF Steps
<1> QED
  BY <1>9, Zenon

(* What pipewrite() does to the counters: it stores all it can. *)
LEMMA WriteEffect ==
  ASSUME IInv, NEW p \in Procs, PipeWrite(p), NEW g, g = end[file[p]].page
  PROVE  /\ g \in Pages \ free /\ writeopen[g] /\ ~eof[g]
         /\ Held(g) \in 0..PIPESIZE /\ Held(g)' \in Held(g)..PIPESIZE
         /\ AtMost(Len(buf[p]), Room(g)) # Len(buf[p]) => Held(g)' = PIPESIZE
         /\ nwrite' \in [Pages -> 0 .. UINT - 1]
         /\ \A h \in Pages : h # g => nwrite'[h] = nwrite[h]
         /\ UNCHANGED <<nread, readopen, writeopen, free, out, eof>>
<1> DEFINE n == AtMost(Len(buf[p]), Room(g))
<1>1. g \in Pages \ free /\ writeopen[g]
  BY CallPipe, Zenon DEF PipeWrite, At
<1>2. TypeOK /\ Held(g) <= PIPESIZE /\ Len(buf[p]) \in Nat /\ ~eof[g]
  <2>1. TypeOK /\ Held(g) <= PIPESIZE /\ (eof[g] => ~writeopen[g])
    BY <1>1, Zenon DEF IInv, PipeInv
  <2>2. Len(buf[p]) \in Nat
    <3>1. buf[p] \in Seq(Bytes)
      BY <2>1, Zenon DEF TypeOK
    <3> QED BY <3>1, SMTT(30)
  <2> QED BY <1>1, <2>1, <2>2, Zenon
<1>3. Held(g) \in 0..PIPESIZE /\ Room(g) \in 0..PIPESIZE /\ Room(g) = PIPESIZE - Held(g)
  BY <1>1, <1>2, Counters, Zenon DEF Room
<1>4. n \in Nat /\ n <= Room(g) /\ (n # Len(buf[p]) => n = Room(g))
  BY <1>2, <1>3, AtMostIs, Zenon
<1>5. nwrite' = [nwrite EXCEPT ![g] = Wrap(nwrite[g] + n)] /\ nwrite \in [Pages -> 0 .. UINT - 1]
  BY <1>2, Zenon DEF PipeWrite, TypeOK
<1>6. UNCHANGED <<nread, readopen, writeopen, free, out, eof>>
  BY Zenon DEF PipeWrite, hist
<1> HIDE DEF n
<1>7. Wrap(nwrite[g] + n) \in 0 .. UINT - 1 /\ (Wrap(nwrite[g] + n) - nread[g]) % UINT = Held(g) + n
  BY <1>1, <1>2, <1>4, CountersMove, Zenon
<1>8. Held(g)' = Held(g) + n
  <2>1. nwrite'[g] = Wrap(nwrite[g] + n) /\ nread'[g] = nread[g]
    BY <1>1, <1>5, <1>6, Zenon
  <2>2. Held(g)' = (nwrite'[g] - nread'[g]) % UINT
    BY Zenon DEF Held
  <2> QED BY <1>7, <2>1, <2>2, Zenon
<1>9. nwrite' \in [Pages -> 0 .. UINT - 1] /\ \A h \in Pages : h # g => nwrite'[h] = nwrite[h]
  BY <1>5, <1>7, Zenon
<1>10. Held(g)' \in Held(g)..PIPESIZE /\ (n # Len(buf[p]) => Held(g)' = PIPESIZE)
  BY <1>3, <1>4, <1>8, More, Zenon
<1> QED
  BY <1>1, <1>2, <1>3, <1>6, <1>9, <1>10, Zenon DEF n

(* What piperead() does to them when it does not sleep. *)
LEMMA ReadEffect ==
  ASSUME IInv, NEW p \in Procs, PipeRead(p), NEW g, g = end[file[p]].page, ~MustWait(g)
  PROVE  /\ g \in Pages \ free
         /\ Held(g) \in 0..PIPESIZE /\ Held(g)' \in 0..Held(g)
         /\ AtMost(want[p], Held(g)) = 0 /\ want[p] > 0 => Held(g) = 0
         /\ nread' \in [Pages -> 0 .. UINT - 1]
         /\ \A h \in Pages : h # g => nread'[h] = nread[h] /\ out'[h] = out[h] /\ eof'[h] = eof[h]
         /\ eof'[g] => eof[g] \/ (AtMost(want[p], Held(g)) = 0 /\ want[p] > 0)
         /\ UNCHANGED <<nwrite, readopen, writeopen, free>>
<1> DEFINE n == AtMost(want[p], Held(g))
<1>1. g \in Pages \ free
  BY CallPipe, Zenon DEF PipeRead, At
<1>2. TypeOK /\ Held(g) <= PIPESIZE /\ want[p] \in Nat
  BY <1>1, Zenon DEF IInv, PipeInv, TypeOK
<1>3. Held(g) \in 0..PIPESIZE
  BY <1>1, <1>2, Counters, Zenon
<1>4. n \in Nat /\ n <= Held(g) /\ (n = 0 /\ want[p] > 0 => Held(g) = 0)
  BY <1>2, <1>3, AtMostIs, Zenon
<1>5. /\ nread' = [nread EXCEPT ![g] = Wrap(nread[g] + n)] /\ nread \in [Pages -> 0 .. UINT - 1]
      /\ \A h \in Pages : h # g => out'[h] = out[h] /\ eof'[h] = eof[h]
      /\ eof' = [eof EXCEPT ![g] = eof[g] \/ (n = 0 /\ want[p] > 0)]
  <2>1. /\ nread' = [nread EXCEPT ![g] = Wrap(nread[g] + n)]
        /\ eof' = [eof EXCEPT ![g] = eof[g] \/ (n = 0 /\ want[p] > 0)]
        /\ out' = [out EXCEPT ![g] = out[g] \o Oldest(g, n)]
    BY Zenon DEF PipeRead
  <2>2. /\ nread \in [Pages -> 0 .. UINT - 1] /\ eof \in [Pages -> BOOLEAN]
        /\ out \in [Pages -> Seq(Bytes)]
    BY <1>2, Zenon DEF TypeOK
  <2> HIDE DEF n
  <2> QED BY <1>1, <2>1, <2>2, Zenon
<1>6. UNCHANGED <<nwrite, readopen, writeopen, free>>
  BY Zenon DEF PipeRead
<1> HIDE DEF n
<1>7. Wrap(nread[g] + n) \in 0 .. UINT - 1 /\ (nwrite[g] - Wrap(nread[g] + n)) % UINT = Held(g) - n
  BY <1>1, <1>2, <1>4, CountersMove, Zenon
<1>8. Held(g)' = Held(g) - n
  <2>1. nread'[g] = Wrap(nread[g] + n) /\ nwrite'[g] = nwrite[g]
    BY <1>1, <1>5, <1>6, Zenon
  <2>2. Held(g)' = (nwrite'[g] - nread'[g]) % UINT
    BY Zenon DEF Held
  <2> QED BY <1>7, <2>1, <2>2, Zenon
<1>9. nread' \in [Pages -> 0 .. UINT - 1] /\ \A h \in Pages : h # g => nread'[h] = nread[h]
  BY <1>5, <1>7, Zenon
<1>10. Held(g)' \in 0..Held(g)
  BY <1>3, <1>4, <1>8, Fewer, Zenon
<1>11. eof'[g] => eof[g] \/ (n = 0 /\ want[p] > 0)
  <2>1. eof \in [Pages -> BOOLEAN]
    BY <1>2, Zenon DEF TypeOK
  <2> QED BY <1>1, <1>5, <2>1, Zenon
<1> QED
  BY <1>1, <1>3, <1>4, <1>5, <1>6, <1>9, <1>10, <1>11, Zenon DEF n

(* Every step keeps what is true of each pipe. *)
LEMMA PipeStep == IInv /\ Steps => PipeInv'
<1> SUFFICES ASSUME IInv, Steps, NEW h \in Pages
             PROVE  /\ Held(h)' <= PIPESIZE
                    /\ eof'[h] => h \notin free' /\ Empty(h)' /\ ~writeopen'[h]
                    /\ h \in free' => out'[h] = <<>>
  BY Zenon DEF PipeInv
<1> DEFINE G == /\ Held(h)' <= PIPESIZE
                /\ eof'[h] => h \notin free' /\ Empty(h)' /\ ~writeopen'[h]
                /\ h \in free' => out'[h] = <<>>
<1>0. TypeOK /\ TypeOK'
  BY TypeStep, Zenon DEF IInv
<1>1. /\ Held(h) <= PIPESIZE
      /\ eof[h] => h \notin free /\ Empty(h) /\ ~writeopen[h]
      /\ h \in free => out[h] = <<>>
  BY Zenon DEF IInv, PipeInv
<1>2. PIPESIZE \in Nat /\ PIPESIZE > 0 /\ UINT \in Nat /\ UINT > 0
  BY FilesAssumption, SMTT(30)
<1>3. Empty(h)' <=> Held(h)' = 0
  <2>1. nread'[h] \in 0 .. UINT - 1 /\ nwrite'[h] \in 0 .. UINT - 1
    BY <1>0, Zenon DEF TypeOK
  <2>2. nread'[h] = nwrite'[h] <=> (nwrite'[h] - nread'[h]) % UINT = 0
    BY <2>1, CounterEnds, Zenon
  <2> QED BY <2>2, Zenon DEF Empty, Held
<1>4. Empty(h) <=> Held(h) = 0
  BY <1>0, <1>1, Counters, Zenon
<1>5. ASSUME nread'[h] = nread[h], nwrite'[h] = nwrite[h], out'[h] = out[h], eof'[h] = eof[h],
             h \in free' <=> h \in free, writeopen'[h] => writeopen[h]
      PROVE  G
  <2>1. Held(h)' = Held(h) /\ (Empty(h)' <=> Empty(h))
    BY <1>5, Zenon DEF Held, Empty
  <2> QED BY <1>1, <1>5, <2>1, Zenon
<1>6. ASSUME nread'[h] = 0, nwrite'[h] = 0, eof'[h] = FALSE, h \in free' => out'[h] = <<>> PROVE G
  <2>1. Held(h)' = (nwrite'[h] - nread'[h]) % UINT
    BY Zenon DEF Held
  <2>2. (0 - 0) % UINT = 0
    BY <1>2, ModRange, ModDiff, SMTT(30)
  <2> QED BY <1>2, <1>6, <2>1, <2>2, SMTT(30)
<1>7. ASSUME Quiet PROVE G
  BY <1>5, <1>7, Zenon DEF Quiet
<1>8. ASSUME NEW p \in Procs, NEW f1 \in Files, NEW g \in free, NewPipe(p, f1, g) PROVE G
  <2>1. /\ nread' = [nread EXCEPT ![g] = 0] /\ nwrite' = [nwrite EXCEPT ![g] = 0]
        /\ writeopen' = [writeopen EXCEPT ![g] = TRUE] /\ free' = free \ {g} /\ out' = out /\ eof' = eof
        /\ nread \in [Pages -> 0 .. UINT - 1] /\ nwrite \in [Pages -> 0 .. UINT - 1]
        /\ writeopen \in [Pages -> BOOLEAN] /\ eof \in [Pages -> BOOLEAN]
    BY <1>0, <1>8, Zenon DEF NewPipe, hist, TypeOK
  <2>2. CASE h = g
    <3>1. eof'[h] = FALSE
      BY <1>1, <2>1, <2>2, Zenon
    <3> QED BY <1>6, <2>1, <2>2, <3>1, Zenon
  <2>3. CASE h # g
    BY <1>5, <2>1, <2>3, Zenon
  <2> QED BY <2>2, <2>3, Zenon
<1>9. ASSUME NEW p \in Procs, PipeClose(p) PROVE G
  <2> DEFINE k == closing[p].page
  <2>1. /\ nread \in [Pages -> 0 .. UINT - 1] /\ nwrite \in [Pages -> 0 .. UINT - 1]
        /\ writeopen \in [Pages -> BOOLEAN] /\ eof \in [Pages -> BOOLEAN] /\ out \in [Pages -> Seq(Bytes)]
        /\ writeopen' = [writeopen EXCEPT ![k] = @ /\ ~closing[p].writable]
    BY <1>0, <1>9, Zenon DEF PipeClose, TypeOK
  <2>2. writeopen'[h] => writeopen[h]
    BY <2>1, Zenon
  <2> HIDE DEF k
  <2>3. CASE ~Freed(k)
    <3>1. UNCHANGED <<free, nread, nwrite, out, eof>>
      BY <1>9, <2>3, Zenon DEF PipeClose, hist, k
    <3> QED BY <1>5, <2>2, <3>1, Zenon
  <2>4. CASE Freed(k)
    <3>1. /\ free' = free \cup {k}
          /\ nread' = [nread EXCEPT ![k] = 0] /\ nwrite' = [nwrite EXCEPT ![k] = 0]
          /\ out' = [out EXCEPT ![k] = <<>>] /\ eof' = [eof EXCEPT ![k] = FALSE]
      BY <1>9, <2>4, Zenon DEF PipeClose, k
    <3>2. CASE h = k
      BY <1>6, <2>1, <3>1, <3>2, Zenon
    <3>3. CASE h # k
      BY <1>5, <2>1, <2>2, <3>1, <3>3, Zenon
    <3> QED BY <3>2, <3>3, Zenon
  <2> QED BY <2>3, <2>4, Zenon
<1>10. ASSUME NEW p \in Procs, PipeWrite(p) PROVE G
  <2>1. PICK g : g = end[file[p]].page
    BY Zenon
  <2>2. CASE h = g
    <3>1. /\ g \notin free /\ writeopen[g] /\ ~eof[g]
          /\ Held(g) \in 0..PIPESIZE /\ Held(g)' \in Held(g)..PIPESIZE
          /\ UNCHANGED <<free, eof>>
      BY <1>10, <2>1, WriteEffect, Zenon
    <3>2. Held(g)' <= PIPESIZE
      BY <1>2, <3>1, SMTT(30)
    <3> QED BY <2>2, <3>1, <3>2, Zenon
  <2>3. CASE h # g
    BY <1>5, <1>10, <2>1, <2>3, WriteEffect, Zenon
  <2> QED BY <2>2, <2>3, Zenon
<1>11. ASSUME NEW p \in Procs, PipeRead(p) PROVE G
  <2>1. PICK g : g = end[file[p]].page
    BY Zenon
  <2>2. CASE MustWait(g)
    <3>1. UNCHANGED <<nread, nwrite, out, eof, free, writeopen>>
      BY <1>11, <2>1, <2>2, Zenon DEF PipeRead
    <3> QED BY <1>5, <3>1, Zenon
  <2>3. CASE ~MustWait(g) /\ h # g
    BY <1>5, <1>11, <2>1, <2>3, ReadEffect, Zenon
  <2>4. CASE ~MustWait(g) /\ h = g
    <3>1. /\ g \notin free /\ Held(g) \in 0..PIPESIZE /\ Held(g)' \in 0..Held(g)
          /\ eof'[g] => eof[g] \/ Held(g) = 0
          /\ UNCHANGED <<writeopen, free>>
      BY <1>11, <2>1, <2>4, ReadEffect, Zenon
    <3>2. eof'[g] => Held(g) = 0 /\ ~writeopen[g]
      <4>1. eof[g] => Held(g) = 0 /\ ~writeopen[g]
        BY <1>1, <1>4, <2>4, Zenon
      <4>2. Held(g) = 0 => ~writeopen[g]
        BY <1>4, <2>4, Zenon DEF MustWait
      <4> QED BY <3>1, <4>1, <4>2, Zenon
    <3>3. Held(g)' <= PIPESIZE /\ (Held(g) = 0 => Held(g)' = 0)
      BY <1>2, <3>1, SMTT(30)
    <3> QED BY <1>3, <2>4, <3>1, <3>2, <3>3, Zenon
  <2> QED BY <2>2, <2>3, <2>4, Zenon
<1> QED
  BY <1>7, <1>8, <1>9, <1>10, <1>11, PipeCases, Zenon
------------------------------------------------------------------------------
(* A process that sleeps stays with its file. *)
LEMMA SleeperStays ==
  ASSUME IInv, Steps, NEW q \in Procs, chan[q] # "none"
  PROVE  file'[q] = file[q]
<1>0. file \in [Procs -> Files \cup {NoFile}]
  BY Zenon DEF IInv, TypeOK
<1>1. ASSUME NEW p \in Procs, NEW f \in Files,
             TakeFile(p, f) \/ OpenFails(p, f) \/ \E d \in Fds : Opens(p, f, d)
      PROVE  file'[q] = file[q]
  BY <1>0, <1>1, Zenon DEF TakeFile, OpenFails, Opens, At, work
<1>2. ASSUME NEW p \in Procs, NEW f1 \in Files, NEW g \in free, NewPipe(p, f1, g)
      PROVE  file'[q] = file[q]
  BY <1>0, <1>2, Zenon DEF NewPipe, At
<1>3. ASSUME NEW p \in Procs, OneFile(p) \/ Exit(p) \/ Closed(p) \/ Kill(p)
      PROVE  file'[q] = file[q]
  BY <1>0, <1>3, Zenon DEF OneFile, Exit, Closed, Kill, At, work
<1>4. ASSUME NEW p \in Procs, FileClose(p) \/ PipeClose(p) \/ \E d \in Fds : ExitDrops(p, d)
      PROVE  file'[q] = file[q]
  BY <1>0, <1>4, Zenon DEF FileClose, PipeClose, ExitDrops, Drop, work
<1>5. ASSUME NEW p \in Procs, PipeWrite(p) \/ PipeRead(p) PROVE file'[q] = file[q]
  BY <1>0, <1>5, Zenon DEF PipeWrite, PipeRead, At
<1>6. ASSUME NEW p \in Procs, NEW c \in Procs, Fork(p, c) PROVE file'[q] = file[q]
  BY <1>6, Zenon DEF Fork, work
<1>7. ASSUME NEW p \in Procs, NEW d \in Fds,
             SysClose(p, d) \/ (\E e \in Fds : Dups(p, d, e)) \/ (\E n \in Counts : SysRead(p, d, n))
             \/ (\E s \in Buffers : SysWrite(p, d, s))
      PROVE  file'[q] = file[q]
  BY <1>0, <1>7, Zenon DEF SysClose, Dups, SysRead, SysWrite, At, work
<1>8. ASSUME UNCHANGED vars PROVE file'[q] = file[q]
  BY <1>8, Zenon DEF vars, work
<1> QED
  BY <1>1, <1>2, <1>3, <1>4, <1>5, <1>6, <1>7, <1>8, Zenon DEF Steps

(* A sleeper is woken when what it waits for changes: a write() that stores  *)
(* wakes readers, a read() that takes wakes writers, and pipeclose() wakes   *)
(* the other side.                                                           *)
LEMMA WakeStep == IInv /\ Steps => NoLostWakeup'
<1> SUFFICES ASSUME IInv, Steps, NEW q \in Procs, chan'[q] # "none"
             PROVE  /\ chan'[q] = "nread" => Empty(end[file[q]].page)' /\ writeopen'[(end[file[q]].page)']
                    /\ chan'[q] = "nwrite" => Full(end[file[q]].page)' /\ readopen'[(end[file[q]].page)']
  BY Zenon DEF NoLostWakeup
<1>0. TypeOK /\ TypeOK' /\ CallInv' /\ EndInv
  BY TypeStep, CallStep, Zenon DEF IInv
<1>1. chan \in [Procs -> Chans] /\ chan' \in [Procs -> Chans] /\ file \in [Procs -> Files \cup {NoFile}]
  BY <1>0, Zenon DEF TypeOK, Chans
<1>2. PICK h : h = end[file[q]].page
  BY Zenon
(* it is enough to look at the pipe it slept on, or is about to sleep on *)
<1>3. ASSUME pc[q] \in {"read", "write"}, file'[q] = file[q],
             chan'[q] = "nread" => Empty(h)' /\ writeopen'[h],
             chan'[q] = "nwrite" => Full(h)' /\ readopen'[h]
      PROVE  /\ chan'[q] = "nread" => Empty(end[file[q]].page)' /\ writeopen'[(end[file[q]].page)']
             /\ chan'[q] = "nwrite" => Full(end[file[q]].page)' /\ readopen'[(end[file[q]].page)']
  <2>1. end'[file'[q]].page = h
    BY <1>2, <1>3, UsedKept, Zenon
  <2> QED BY <1>3, <2>1, Zenon DEF Empty, Full
<1> DEFINE G == /\ chan'[q] = "nread" => Empty(h)' /\ writeopen'[h]
                /\ chan'[q] = "nwrite" => Full(h)' /\ readopen'[h]
(* one that slept already *)
<1>4. ASSUME chan[q] # "none" 
      PROVE  /\ pc[q] = (IF chan[q] = "nread" THEN "read" ELSE "write") /\ file'[q] = file[q]
             /\ file[q] \in Files /\ type[file[q]] = "PIPE" /\ end[file[q]] \in Ends
             /\ h \in Pages \ free /\ (chan[q] = "nread" => readopen[h] /\ Empty(h) /\ writeopen[h])
             /\ (chan[q] = "nwrite" => writeopen[h] /\ Full(h) /\ readopen[h])
             /\ end[file[q]].writable = (chan[q] = "nwrite")
  <2>1. pc[q] = (IF chan[q] = "nread" THEN "read" ELSE "write")
    BY <1>4, Zenon DEF IInv, CallInv
  <2>2. pc[q] \in {"read", "write"} /\ chan[q] \in {"nread", "nwrite"}
    BY <1>1, <1>4, <2>1, Zenon DEF Chans
  <2>3. end[file[q]].writable = (pc[q] = "write")
    BY <2>2, Zenon DEF IInv, CallInv
  <2>4. /\ chan[q] = "nread" => Empty(h) /\ writeopen[h]
        /\ chan[q] = "nwrite" => Full(h) /\ readopen[h]
    BY <1>2, Zenon DEF IInv, NoLostWakeup
  <2> QED BY <1>2, <1>4, <2>1, <2>2, <2>3, <2>4, CallPipe, SleeperStays, Zenon
<1>5. ASSUME chan[q] # "none", chan'[q] = chan[q], nread'[h] = nread[h], nwrite'[h] = nwrite[h],
             readopen'[h] = readopen[h], writeopen'[h] = writeopen[h]
      PROVE  G
  BY <1>4, <1>5, Zenon DEF Empty, Full
<1>6. ASSUME Quiet PROVE chan[q] # "none" /\ G
  <2>1. chan'[q] = chan[q]
    BY <1>6, Zenon DEF Quiet
  <2>2. UNCHANGED <<nread, nwrite, readopen, writeopen>>
    BY <1>6, Zenon DEF Quiet
  <2> QED BY <1>5, <2>1, <2>2, Zenon
<1>7. ASSUME NEW p \in Procs, NEW f1 \in Files, NEW g \in free, NewPipe(p, f1, g)
      PROVE  chan[q] # "none" /\ G
  <2>1. /\ chan' = chan /\ nread' = [nread EXCEPT ![g] = 0] /\ nwrite' = [nwrite EXCEPT ![g] = 0]
        /\ readopen' = [readopen EXCEPT ![g] = TRUE] /\ writeopen' = [writeopen EXCEPT ![g] = TRUE]
        /\ nread \in [Pages -> 0 .. UINT - 1] /\ nwrite \in [Pages -> 0 .. UINT - 1]
        /\ readopen \in [Pages -> BOOLEAN] /\ writeopen \in [Pages -> BOOLEAN]
    BY <1>0, <1>7, Zenon DEF NewPipe, TypeOK
  <2>2. chan[q] # "none" /\ h # g /\ h \in Pages
    BY <1>4, <2>1, Zenon
  <2> QED BY <1>5, <2>1, <2>2, Zenon
<1>8. ASSUME NEW p \in Procs, PipeClose(p) PROVE chan[q] # "none" /\ G
  <2>1. PICK k, w : k = closing[p].page /\ w = closing[p].writable
    BY Zenon
  <2>2. closing[p] \in Ends /\ k \in Pages /\ w \in BOOLEAN /\ closing[p] = [page |-> k, writable |-> w]
    <3>1. closing[p] \in Ends
      BY <1>0, <1>8, ClosingEnd, Zenon DEF PipeClose
    <3> QED BY <2>1, <3>1, EndFacts, Zenon
  <2>3. chan' = Woken(k, OtherEnd(w))
    BY <1>8, <2>1, Zenon DEF PipeClose
  <2>4. chan'[q] = chan[q] /\ (chan[q] # OtherEnd(w) \/ h # k)
    BY <1>0, <1>2, <2>3, WokenFacts, SMTT(30) DEF OtherEnd, Chans
  <2>5. h # k
    <3> SUFFICES ASSUME h = k PROVE FALSE
      BY Zenon
    <3>1. end[file[q]] \in Ends /\ file[q] \in Files /\ type[file[q]] = "PIPE"
          /\ end[file[q]].writable = (chan[q] = "nwrite")
      BY <1>4, <2>4, Zenon
    <3>2. chan[q] \in {"nread", "nwrite"} /\ chan[q] # OtherEnd(w)
      BY <1>1, <2>4, Zenon DEF Chans
    <3>3. w = (chan[q] = "nwrite")
      BY <2>2, <3>2, Zenon DEF OtherEnd
    <3>4. end[file[q]] = [page |-> h, writable |-> w]
      BY <1>2, <3>1, <3>3, EndFacts, Zenon
    <3>5. closing[p] # end[file[q]]
      BY <1>0, <3>1, Zenon DEF EndInv, NoDangling
    <3> QED BY <2>2, <3>4, <3>5, Zenon
  <2>6. h \in Pages
    BY <1>4, <2>4, Zenon
  <2>7. /\ readopen'[h] = readopen[h] /\ writeopen'[h] = writeopen[h]
        /\ nread'[h] = nread[h] /\ nwrite'[h] = nwrite[h]
    <3>1. /\ nread \in [Pages -> 0 .. UINT - 1] /\ nwrite \in [Pages -> 0 .. UINT - 1]
          /\ readopen \in [Pages -> BOOLEAN] /\ writeopen \in [Pages -> BOOLEAN]
      BY <1>0, Zenon DEF TypeOK
    <3>2. readopen'[h] = readopen[h] /\ writeopen'[h] = writeopen[h]
      BY <1>8, <2>1, <2>5, <2>6, <3>1, Zenon DEF PipeClose
    <3>3. \/ nread' = nread /\ nwrite' = nwrite
          \/ nread' = [nread EXCEPT ![k] = 0] /\ nwrite' = [nwrite EXCEPT ![k] = 0]
      BY <1>8, <2>1, Zenon DEF PipeClose
    <3> QED BY <2>5, <2>6, <3>1, <3>2, <3>3, Zenon
  <2> QED BY <1>5, <2>4, <2>7, Zenon
<1>9. ASSUME NEW p \in Procs, PipeWrite(p)
      PROVE  pc[q] \in {"read", "write"} /\ file'[q] = file[q] /\ G
  <2>1. PICK g : g = end[file[p]].page
    BY Zenon
  <2> DEFINE n == AtMost(Len(buf[p]), Room(g))
             done == n = Len(buf[p])
  <2>2. /\ g \in Pages \ free /\ Held(g) \in 0..PIPESIZE /\ Held(g)' \in Held(g)..PIPESIZE
        /\ (~done => Held(g)' = PIPESIZE) /\ UNCHANGED <<nread, readopen, writeopen>>
        /\ \A x \in Pages : x # g => nwrite'[x] = nwrite[x]
    BY <1>9, <2>1, WriteEffect, ZenonT(60)
  <2>3. Held(g)' = PIPESIZE => Full(g)'
    <3>1. nread'[g] \in 0 .. UINT - 1 /\ nwrite'[g] \in 0 .. UINT - 1
      BY <1>0, <2>2, Zenon DEF TypeOK
    <3>2. nwrite'[g] = (nread'[g] + PIPESIZE) % UINT <=> (nwrite'[g] - nread'[g]) % UINT = PIPESIZE
      BY <3>1, CounterEnds, Zenon
    <3> QED BY <3>2, Zenon DEF Full, Held
  <2>4. Full(g) => Held(g) = PIPESIZE
    BY <1>0, <2>2, Counters, FilesAssumption, SMTT(30)
  <2>w. Woken(g, "nread") \in [Procs -> Chans]
    BY <1>0, WokenFacts, Zenon DEF Chans
  <2>5. CASE q = p
    <3>1. chan[p] = "none" /\ pc[p] = "write"
      BY <1>9, Zenon DEF PipeWrite, At
    <3>2. Woken(g, "nread")[p] = "none"
      BY <1>0, <3>1, WokenFacts, SMTT(30) DEF Chans
    <3>3. ~done /\ readopen[g] /\ file' = file /\ chan' = [Woken(g, "nread") EXCEPT ![p] = "nwrite"]
      BY <1>9, <2>1, <2>5, <3>1, <3>2, Zenon DEF PipeWrite
    <3>4. chan'[q] = "nwrite" /\ h = g
      BY <1>2, <2>1, <2>5, <2>w, <3>3, Zenon
    <3> HIDE DEF done
    <3> QED BY <2>2, <2>3, <2>5, <3>1, <3>3, <3>4, Zenon
  <2>6. CASE q # p
    <3>1. chan'[q] \in {chan[q], Woken(g, "nread")[q]}
      <4>1. chan' \in {chan, Woken(g, "nread"), [Woken(g, "nread") EXCEPT ![p] = "nwrite"]}
        BY <1>9, <2>1, Zenon DEF PipeWrite
      <4> QED BY <2>6, <2>w, <4>1, Zenon
    <3>2. chan'[q] = chan[q] /\ chan[q] # "none"
      BY <1>0, <3>1, WokenFacts, SMTT(30) DEF Chans
    <3>3. pc[q] \in {"read", "write"} /\ file'[q] = file[q] /\ h \in Pages
      BY <1>4, <3>2, Zenon
    <3>4. CASE h # g
      BY <1>5, <2>2, <3>2, <3>3, <3>4, Zenon
    <3>5. CASE h = g /\ chan[q] = "nwrite"
      <4>1. Full(g) /\ readopen[g]
        BY <1>4, <3>2, <3>5, Zenon
      <4>2. Held(g)' = PIPESIZE
        BY <2>2, <2>4, <4>1, FilesAssumption, SMTT(30)
      <4> QED BY <2>2, <2>3, <3>2, <3>3, <3>5, <4>1, <4>2, Zenon
    <3>6. ASSUME h = g, chan[q] = "nread" PROVE FALSE
      <4>1. readopen[g]
        BY <1>4, <3>2, <3>6, Zenon
      <4>2. chan' \in {Woken(g, "nread"), [Woken(g, "nread") EXCEPT ![p] = "nwrite"]}
        BY <1>9, <2>1, <4>1, Zenon DEF PipeWrite
      <4>3. chan'[q] = Woken(g, "nread")[q]
        BY <2>6, <2>w, <4>2, Zenon
      <4>4. Woken(g, "nread")[q] = "none"
        BY <1>2, <3>6, Zenon DEF Woken
      <4> QED BY <4>3, <4>4, Zenon
    <3> QED BY <1>1, <3>2, <3>3, <3>4, <3>5, <3>6, Zenon DEF Chans
  <2> QED BY <2>5, <2>6, Zenon
<1>10. ASSUME NEW p \in Procs, PipeRead(p)
       PROVE  pc[q] \in {"read", "write"} /\ file'[q] = file[q] /\ G
  <2>1. PICK g : g = end[file[p]].page
    BY Zenon
  <2>2. CASE MustWait(g)
    <3>1. /\ chan' = [chan EXCEPT ![p] = "nread"] /\ file' = file
          /\ UNCHANGED <<nread, nwrite, readopen, writeopen>> /\ pc[p] = "read"
      BY <1>10, <2>1, <2>2, Zenon DEF PipeRead, At
    <3>2. CASE q = p
      <4>1. chan'[q] = "nread" /\ h = g /\ Empty(g)' /\ writeopen'[g]
        BY <1>1, <1>2, <2>1, <2>2, <3>1, <3>2, Zenon DEF MustWait, Empty
      <4> QED BY <3>1, <3>2, <4>1, Zenon
    <3>3. CASE q # p
      <4>1. chan'[q] = chan[q] /\ chan[q] # "none"
        BY <1>1, <3>1, <3>3, Zenon
      <4>2. pc[q] \in {"read", "write"}
        BY <1>4, <4>1, Zenon
      <4> QED BY <1>5, <3>1, <4>1, <4>2, Zenon
    <3> QED BY <3>2, <3>3, Zenon
  <2>3. CASE ~MustWait(g)
    <3>1. chan' = Woken(g, "nwrite")
      BY <1>10, <2>1, <2>3, Zenon DEF PipeRead
    <3>2. chan'[q] = chan[q] /\ chan[q] # "none" /\ (chan[q] # "nwrite" \/ h # g)
      BY <1>0, <1>2, <3>1, WokenFacts, SMTT(30) DEF Chans
    <3>3. pc[q] \in {"read", "write"} /\ file'[q] = file[q] /\ h \in Pages
      BY <1>4, <3>2, Zenon
    <3>4. h # g
      <4> SUFFICES ASSUME h = g PROVE FALSE
        BY Zenon
      <4>1. chan[q] = "nread"
        BY <1>1, <3>2, Zenon DEF Chans
      <4> QED BY <1>4, <2>3, <3>2, <4>1, Zenon DEF MustWait
    <3>5. /\ \A x \in Pages : x # g => nread'[x] = nread[x]
          /\ UNCHANGED <<nwrite, readopen, writeopen>>
      BY <1>10, <2>1, <2>3, ReadEffect, SMTT(30)
    <3> QED BY <1>5, <3>2, <3>3, <3>4, <3>5, Zenon
  <2> QED BY <2>2, <2>3, Zenon
<1>11. ASSUME chan[q] # "none" /\ G PROVE pc[q] \in {"read", "write"} /\ file'[q] = file[q] /\ G
  BY <1>4, <1>11, Zenon
<1>12. pc[q] \in {"read", "write"} /\ file'[q] = file[q] /\ G
  <2> HIDE DEF G
  <2> QED BY <1>6, <1>7, <1>8, <1>9, <1>10, <1>11, PipeCases, Zenon
<1> QED
  BY <1>3, <1>12, Zenon
------------------------------------------------------------------------------
(* The place of the k-th byte that pipewrite() stores: behind those held. *)
LEMMA WritePlace ==
  ASSUME TypeOK, NEW g \in Pages, Held(g) <= PIPESIZE, NEW k \in Nat
  PROVE  Place(nwrite[g], k) = Place(nread[g], Held(g) + k)
<1>1. nread[g] \in 0 .. UINT - 1 /\ nwrite[g] \in 0 .. UINT - 1 /\ UINT \in Nat /\ UINT > 0
      /\ PIPESIZE \in Nat /\ PIPESIZE < UINT
  <2>1. nread[g] \in 0 .. UINT - 1 /\ nwrite[g] \in 0 .. UINT - 1
    BY Zenon DEF TypeOK
  <2> QED BY <2>1, FilesAssumption
<1> DEFINE r == nread[g]
           w == nwrite[g]
           h == Held(g)
<1>2. h = IF w >= r THEN w - r ELSE w - r + UINT
  BY <1>1, ModDiff, Zenon DEF Held
<1> HIDE DEF r, w, h
<1>3. r \in 0 .. UINT - 1 /\ w \in 0 .. UINT - 1
  BY <1>1, Zenon DEF r, w
<1>4. h \in 0..UINT
  BY <1>1, <1>2, <1>3, SMTT(30)
<1>5. Wrap(r + h) = w
  <2>1. Wrap(r + h) = IF r + h < UINT THEN r + h ELSE r + h - UINT
    BY <1>1, <1>3, <1>4, ModSum, Zenon DEF Wrap
  <2> QED BY <1>1, <1>2, <1>3, <2>1, SMTT(30)
<1>6. Place(Wrap(r + h), k) = Place(r, h + k)
  BY <1>3, <1>4, WrapPlace, Zenon
<1> QED
  BY <1>5, <1>6, Zenon DEF r, w, h

(* What a pipe holds, byte for byte. *)
HeldAre ==
  \A g \in Pages :
    /\ Contents(g) \in Seq(Bytes) /\ Len(Contents(g)) = Held(g) /\ Held(g) \in 0..PIPESIZE
    /\ \A k \in 1..Held(g) : Contents(g)[k] = data[g][Place(nread[g], k)]

(* The ring buffer gives the bytes a pipe holds, ... *)
LEMMA HeldAt == IInv => HeldAre
<1> SUFFICES ASSUME IInv, NEW g \in Pages
             PROVE  /\ Contents(g) \in Seq(Bytes) /\ Len(Contents(g)) = Held(g) /\ Held(g) \in 0..PIPESIZE
                    /\ \A k \in 1..Held(g) : Contents(g)[k] = data[g][Place(nread[g], k)]
  BY Zenon DEF HeldAre
<1>1. TypeOK /\ Held(g) <= PIPESIZE
  BY Zenon DEF IInv, PipeInv
<1>2. Held(g) \in 0..PIPESIZE
  BY <1>1, Counters, Zenon
<1>3. nread[g] \in 0 .. UINT - 1 /\ data[g] \in [0 .. PIPESIZE - 1 -> Bytes]
  BY <1>1, Zenon DEF TypeOK
<1>a. PICK r \in Nat : r = nread[g]
  BY <1>3, Parts, Zenon
<1>b. PICK H \in Nat : H = Held(g)
  BY <1>2, Numbers, Zenon
<1> DEFINE e(k) == data[g][Place(r, k)]
<1>4. \A k \in 1..H : e(k) \in Bytes
  <2> SUFFICES ASSUME NEW k \in 1..H PROVE e(k) \in Bytes
    BY Zenon
  <2>0. k \in Nat
    BY SMTT(30)
  <2>1. Place(r, k) \in 0 .. PIPESIZE - 1
    BY <2>0, PlaceIn, Zenon
  <2> QED BY <1>3, <2>1, Zenon
<1>5. Contents(g) = [k \in 1..H |-> e(k)]
  BY <1>a, <1>b, Zenon DEF Contents, Oldest, Place
<1> HIDE DEF e
<1>6. Contents(g) \in [1..H -> Bytes] /\ \A k \in 1..H : Contents(g)[k] = e(k)
  BY <1>4, <1>5, Zenon
<1>8. Contents(g) \in Seq(Bytes) /\ Len(Contents(g)) = H
  BY <1>6, FunctionSeq, Zenon
<1> QED
  BY <1>2, <1>a, <1>b, <1>6, <1>8, Zenon DEF e

(* ... also after a step. *)
LEMMA HeldAtNext == IInv' => HeldAre'
BY HeldAt, PTL

(* pipewrite() puts the bytes it stores behind those the pipe holds: no byte *)
(* of the others is overwritten, none is stored twice.                       *)
LEMMA WriteAppends ==
  ASSUME IInv, IInv', NEW p \in Procs, PipeWrite(p), NEW g, g = end[file[p]].page,
         NEW n, n = AtMost(Len(buf[p]), Room(g))
  PROVE  /\ g \in Pages \ free /\ n \in 0 .. PIPESIZE - Held(g) /\ n <= Len(buf[p])
         /\ Contents(g)' = Contents(g) \o [k \in 1..n |-> buf[p][k]]
         /\ [k \in 1..n |-> buf[p][k]] \in [1..n -> Bytes]
         /\ \A h \in Pages : h # g => Contents(h)' = Contents(h)
<1>1. /\ g \in Pages \ free /\ Held(g) \in 0..PIPESIZE
      /\ \A h \in Pages : h # g => nwrite'[h] = nwrite[h]
      /\ nread' = nread
  BY WriteEffect, Zenon
<1>2. TypeOK /\ buf[p] \in Seq(Bytes) /\ nread[g] \in 0 .. UINT - 1
  BY <1>1, Zenon DEF IInv, TypeOK
<1>3. Len(buf[p]) \in Nat
  BY <1>2, SMTT(30)
<1>a. PICK r \in Nat : r = nread[g]
  BY <1>2, Parts, Zenon
<1>b. PICK H \in 0..PIPESIZE : H = Held(g) /\ H <= PIPESIZE
  BY <1>1, Numbers, Zenon
<1>4. n \in 0 .. PIPESIZE - H /\ n <= Len(buf[p]) /\ n = AtMost(Len(buf[p]), PIPESIZE - H)
  BY <1>3, <1>b, Bounds, Zenon DEF Room
<1>c. n \in Nat /\ n <= Room(g)
  BY <1>4, <1>b, Numbers, Zenon DEF Room
<1>5. Held(g)' = H + n
  <2>1. (Wrap(nwrite[g] + n) - nread[g]) % UINT = Held(g) + n
    BY <1>1, <1>2, <1>b, <1>c, CountersMove, Zenon
  <2>2. nwrite'[g] = Wrap(nwrite[g] + n) /\ nread'[g] = nread[g]
    BY <1>1, <1>2, Zenon DEF PipeWrite, TypeOK
  <2>3. Held(g)' = (nwrite'[g] - nread'[g]) % UINT
    BY Zenon DEF Held
  <2> QED BY <1>b, <2>1, <2>2, <2>3, Zenon
<1> DEFINE s == [k \in 1..n |-> buf[p][k]]
           Hits(i, k) == i = Place(nwrite[g], k)
<1>6. s \in [1..n -> Bytes] /\ s \in Seq(Bytes) /\ Len(s) = n
  <2>1. ASSUME NEW k \in 1..n PROVE buf[p][k] \in Bytes
    <3>1. k \in 1..Len(buf[p])
      BY <1>3, <1>4, <1>c, Parts, Zenon
    <3> QED BY <1>2, <3>1, Elements, Zenon
  <2>2. s \in [1..n -> Bytes]
    BY <2>1, Zenon
  <2> HIDE DEF s
  <2> QED BY <1>c, <2>2, FunctionSeq, Zenon
<1>7. \A i \in 0 .. PIPESIZE - 1 : data'[g][i] =
        IF \E k \in 1..n : Hits(i, k) THEN buf[p][CHOOSE k \in 1..n : Hits(i, k)] ELSE data[g][i]
  <2>1. data' = [data EXCEPT ![g] = Stored(data[g], nwrite[g], buf[p], n)]
    BY Zenon DEF PipeWrite
  <2>2. data \in [Pages -> [0 .. PIPESIZE - 1 -> Bytes]]
    BY <1>2, Zenon DEF TypeOK
  <2>3. data'[g] = Stored(data[g], nwrite[g], buf[p], n)
    BY <1>1, <2>1, <2>2, Zenon
  <2> QED BY <2>3, Zenon DEF Stored, Place
<1>8. \A h \in Pages : h # g => data'[h] = data[h]
  BY <1>1, <1>2, Zenon DEF PipeWrite, TypeOK
<1>9. /\ \A k \in 1..H : k \in 1..PIPESIZE /\ \A j \in 1..n : k # H + j
      /\ \A j \in 1..n : j \in Nat /\ H + j \in 1..PIPESIZE /\ H + j \in Nat
      /\ \A j, k \in 1..n : H + j = H + k => j = k
      /\ \A k \in 1 .. H + n : /\ k <= H => k \in 1..H
                               /\ ~(k <= H) => \E j \in 1..n : k = H + j /\ j = k - H
  BY <1>4, Behind, Zenon
<1>10. ASSUME NEW i, NEW k \in 1..n PROVE Hits(i, k) <=> i = Place(r, H + k)
  <2>1. k \in Nat
    BY <1>9, Zenon
  <2>2. Place(nwrite[g], k) = Place(nread[g], Held(g) + k)
    BY <1>1, <1>2, <1>b, <2>1, WritePlace, Zenon
  <2> QED BY <1>a, <1>b, <2>2, Zenon
<1> HIDE DEF Hits
<1>11. ASSUME NEW k \in 1..H PROVE data'[g][Place(r, k)] = data[g][Place(r, k)]
  <2>0. k \in Nat
    BY SMTT(30)
  <2>1. Place(r, k) \in 0 .. PIPESIZE - 1
    BY <2>0, PlaceIn, Zenon
  <2>2. ASSUME NEW j \in 1..n PROVE ~Hits(Place(r, k), j)
    <3>0. k # H + j
      BY <1>b, <1>c, SMTT(30)
    <3>1. k \in 1..PIPESIZE /\ H + j \in 1..PIPESIZE
      BY <1>9, Zenon
    <3>2. Place(r, k) # Place(r, H + j)
      BY <3>0, <3>1, PlaceOnce, Zenon
    <3> QED BY <1>10, <3>2, Zenon
  <2> QED BY <1>7, <2>1, <2>2, Zenon
<1>12. ASSUME NEW j \in 1..n PROVE data'[g][Place(r, H + j)] = buf[p][j]
  <2>1. Place(r, H + j) \in 0 .. PIPESIZE - 1
    BY <1>9, PlaceIn, Zenon
  <2>2. Hits(Place(r, H + j), j)
    BY <1>10, Zenon
  <2>3. ASSUME NEW k \in 1..n, Hits(Place(r, H + j), k) PROVE k = j
    <3>1. H + k \in 1..PIPESIZE /\ H + j \in 1..PIPESIZE
      BY <1>9, Zenon
    <3>2. Place(r, H + j) = Place(r, H + k)
      BY <1>10, <2>3, Zenon
    <3>3. H + j = H + k
      BY <3>1, <3>2, PlaceOnce, Zenon
    <3> QED BY <1>9, <3>3, Zenon
  <2>4. (CHOOSE k \in 1..n : Hits(Place(r, H + j), k)) = j
    BY <2>2, <2>3, Zenon
  <2> QED BY <1>7, <2>1, <2>2, <2>4, Zenon
<1>13. /\ Contents(g) \in Seq(Bytes) /\ Len(Contents(g)) = H
       /\ \A k \in 1..H : Contents(g)[k] = data[g][Place(r, k)]
  BY <1>1, <1>a, <1>b, HeldAt, Zenon DEF HeldAre
<1>14. /\ Contents(g)' \in Seq(Bytes) /\ Len(Contents(g)') = H + n
       /\ \A k \in 1 .. H + n : Contents(g)'[k] = data'[g][Place(r, k)]
  <2>1. Pages' = Pages /\ nread'[g] = r
    BY <1>1, <1>a, Zenon
  <2>2. HeldAre'
    BY HeldAtNext, Zenon
  <2>3. /\ Contents(g)' \in Seq(Bytes) /\ Len(Contents(g)') = Held(g)'
        /\ \A k \in 1..Held(g)' : Contents(g)'[k] = data'[g][Place(nread'[g], k)]
    BY <1>1, <2>2, Zenon DEF HeldAre, Place
  <2> QED BY <1>5, <2>1, <2>3, Zenon
<1>15. \A k \in 1 .. H + n : Contents(g)'[k] = IF k <= H THEN Contents(g)[k] ELSE s[k - H]
  <2> SUFFICES ASSUME NEW k \in 1 .. H + n
               PROVE  Contents(g)'[k] = IF k <= H THEN Contents(g)[k] ELSE s[k - H]
    BY Zenon
  <2>1. CASE k <= H
    <3>1. k \in 1..H
      BY <1>9, <2>1, Zenon
    <3>2. Contents(g)'[k] = Contents(g)[k]
      BY <1>11, <1>13, <1>14, <3>1, Zenon
    <3> QED BY <2>1, <3>2, Zenon
  <2>2. CASE ~(k <= H)
    <3>1. PICK j \in 1..n : k = H + j /\ j = k - H
      BY <1>9, <2>2, Zenon
    <3>2. Contents(g)'[k] = buf[p][j]
      BY <1>12, <1>14, <3>1, Zenon
    <3>3. s[j] = buf[p][j]
      BY Zenon
    <3> QED BY <2>2, <3>1, <3>2, <3>3, Zenon
  <2> QED BY <2>1, <2>2, Zenon
<1>16. Contents(g)' = Contents(g) \o s
  <2> HIDE DEF s
  <2>1. PICK x \in Seq(Bytes), c \in Seq(Bytes) : x = Contents(g)' /\ c = Contents(g)
    BY <1>13, <1>14, Zenon
  <2>2. Len(x) = Len(c) + Len(s) /\ \A k \in 1..Len(x) : x[k] = IF k <= Len(c) THEN c[k] ELSE s[k - Len(c)]
    BY <1>6, <1>13, <1>14, <1>15, <2>1, Zenon
  <2>3. x = c \o s
    BY <1>6, <2>2, Appended, Zenon
  <2> QED BY <2>1, <2>3, Zenon
<1>17. ASSUME NEW h \in Pages, h # g PROVE Contents(h)' = Contents(h)
  <2>1. data'[h] = data[h] /\ nread'[h] = nread[h] /\ nwrite'[h] = nwrite[h]
    BY <1>1, <1>8, <1>17, Zenon
  <2> QED BY <2>1, Zenon DEF Contents, Oldest, Held
<1> QED
  BY <1>1, <1>4, <1>b, <1>6, <1>16, <1>17, Zenon

(* piperead() takes the oldest bytes, in order. *)
Takes(g, n) ==
  /\ g \in Pages \ free /\ n \in 0..Held(g)
  /\ Contents(g)' = SubSeq(Contents(g), n + 1, Len(Contents(g)))
  /\ out'[g] = out[g] \o SubSeq(Contents(g), 1, n)
  /\ \A h \in Pages : h # g => Contents(h)' = Contents(h) /\ out'[h] = out[h]

(* ... which is what piperead() does when it does not wait. *)
LEMMA ReadTakes ==
  ASSUME IInv, IInv', NEW p \in Procs, PipeRead(p), NEW g, g = end[file[p]].page, ~MustWait(g),
         NEW n, n = AtMost(want[p], Held(g))
  PROVE  Takes(g, n)
<1>1. /\ g \in Pages \ free /\ Held(g) \in 0..PIPESIZE
      /\ \A h \in Pages : h # g => nread'[h] = nread[h] /\ out'[h] = out[h]
      /\ nwrite' = nwrite
  <2>1. g \in Pages \ free /\ Held(g) \in 0..PIPESIZE /\ nwrite' = nwrite
    BY ReadEffect, Zenon
  <2>2. ASSUME NEW h \in Pages, h # g PROVE nread'[h] = nread[h] /\ out'[h] = out[h]
    <3>1. /\ nread' = [nread EXCEPT ![g] = Wrap(nread[g] + n)]
          /\ out' = [out EXCEPT ![g] = out[g] \o Oldest(g, n)]
      BY Zenon DEF PipeRead
    <3>2. nread \in [Pages -> 0 .. UINT - 1] /\ out \in [Pages -> Seq(Bytes)]
      BY Zenon DEF IInv, TypeOK
    <3> QED BY <2>1, <2>2, <3>1, <3>2, Zenon
  <2> QED BY <2>1, <2>2, Zenon
<1>2. TypeOK /\ want[p] \in Nat /\ nread[g] \in 0 .. UINT - 1
  BY <1>1, Zenon DEF IInv, TypeOK
<1>a. PICK r \in Nat : r = nread[g]
  BY <1>2, Parts, Zenon
<1>b. PICK H \in 0..PIPESIZE : H = Held(g) /\ H \in Nat /\ H <= PIPESIZE
  BY <1>1, Numbers, Zenon
<1>3. n \in 0..H
  BY <1>2, <1>b, Bounds, Zenon
<1>c. n \in Nat /\ n \in 0..UINT /\ n <= H
  BY <1>3, Numbers, Zenon
<1>d. data' = data
  BY Zenon DEF PipeRead
<1>4. nread'[g] = Wrap(r + n)
  BY <1>1, <1>2, <1>a, ZenonT(60) DEF PipeRead, TypeOK
<1>5. Held(g)' = H - n
  <2>1. (nwrite[g] - Wrap(nread[g] + n)) % UINT = Held(g) - n
    BY <1>1, <1>2, <1>b, <1>c, CountersMove, Zenon
  <2>2. Held(g)' = (nwrite'[g] - nread'[g]) % UINT
    BY Zenon DEF Held
  <2> QED BY <1>1, <1>4, <1>a, <1>b, <2>1, <2>2, Zenon
<1> DEFINE s == [k \in 1..n |-> data[g][Place(r, k)]]
<1>6. ASSUME NEW k \in 1 .. H - n
      PROVE  Place(nread'[g], k) = Place(r, n + k) /\ n + k \in 1..H
  <2>1. k \in Nat /\ n + k \in 1..H
    BY <1>b, <1>c, SMTT(30)
  <2>2. r \in 0 .. UINT - 1
    BY <1>2, <1>a, Zenon
  <2>3. Place(Wrap(r + n), k) = Place(r, n + k)
    BY <1>c, <2>1, <2>2, WrapPlace, Zenon
  <2> QED BY <1>4, <2>1, <2>3, Zenon
<1>7. /\ Contents(g) \in Seq(Bytes) /\ Len(Contents(g)) = H
      /\ \A k \in 1..H : Contents(g)[k] = data[g][Place(r, k)]
  BY <1>1, <1>a, <1>b, HeldAt, Zenon DEF HeldAre
<1>8. /\ Contents(g)' \in Seq(Bytes) /\ Len(Contents(g)') = H - n
      /\ \A k \in 1 .. H - n : Contents(g)'[k] = data[g][Place(nread'[g], k)]
  <2>1. HeldAre'
    BY HeldAtNext, Zenon
  <2>2. /\ Contents(g)' \in Seq(Bytes) /\ Len(Contents(g)') = Held(g)'
        /\ \A k \in 1..Held(g)' : Contents(g)'[k] = data'[g][Place(nread'[g], k)]
    BY <1>1, <2>1, Zenon DEF HeldAre, Place
  <2> QED BY <1>5, <1>d, <2>2, Zenon
<1>o. out' = [out EXCEPT ![g] = out[g] \o s] /\ out \in [Pages -> Seq(Bytes)]
  <2>0. out' = [out EXCEPT ![g] = out[g] \o Oldest(g, n)]
    BY Zenon DEF PipeRead
  <2>1. out' = [out EXCEPT ![g] = out[g] \o s]
    BY <1>a, <2>0, Zenon DEF Oldest, Place
  <2>2. out \in [Pages -> Seq(Bytes)]
    BY <1>2, Zenon DEF TypeOK
  <2> HIDE DEF s
  <2> QED BY <2>1, <2>2, Zenon
<1>9. Contents(g)' = SubSeq(Contents(g), n + 1, Len(Contents(g)))
  <2>1. PICK x \in Seq(Bytes), c \in Seq(Bytes) : x = Contents(g)' /\ c = Contents(g)
    BY <1>7, <1>8, Zenon
  <2>2. n \in 0..Len(c) /\ Len(x) = Len(c) - n /\ Len(x) = H - n
    BY <1>3, <1>7, <1>8, <2>1, Zenon
  <2>3. ASSUME NEW k \in 1..Len(x) PROVE x[k] = c[n + k]
    <3>1. k \in 1 .. H - n
      BY <2>2, Zenon
    <3>2. Place(nread'[g], k) = Place(r, n + k) /\ n + k \in 1..H
      BY <1>6, <3>1, Zenon
    <3>3. x[k] = data[g][Place(nread'[g], k)] /\ c[n + k] = data[g][Place(r, n + k)]
      BY <1>7, <1>8, <2>1, <3>1, <3>2, Zenon
    <3> QED BY <3>2, <3>3, Zenon
  <2>4. x = SubSeq(c, n + 1, Len(c))
    BY <2>2, <2>3, Suffix, Zenon
  <2> QED BY <2>1, <2>4, Zenon
<1>10. s = SubSeq(Contents(g), 1, n)
  <2>1. PICK c \in Seq(Bytes) : c = Contents(g)
    BY <1>7, Zenon
  <2>2. \A k \in 1..n : s[k] = c[k] /\ c[k] \in Bytes
    <3> SUFFICES ASSUME NEW k \in 1..n PROVE s[k] = c[k] /\ c[k] \in Bytes
      BY Zenon
    <3>1. k \in 1..H
      BY <1>b, <1>c, Parts, Zenon
    <3>2. c[k] \in Bytes
      BY <1>7, <2>1, <3>1, Elements, Zenon
    <3> QED BY <1>7, <2>1, <3>1, <3>2, Zenon
  <2>3. s \in [1..n -> Bytes]
    BY <2>2, Zenon
  <2> HIDE DEF s
  <2>4. s \in Seq(Bytes) /\ Len(s) = n
    BY <1>c, <2>3, FunctionSeq, Zenon
  <2>5. n \in 0..Len(c)
    BY <1>3, <1>7, <2>1, Zenon
  <2> QED BY <2>1, <2>2, <2>4, <2>5, Prefix, ZenonT(60)
<1>11. ASSUME NEW h \in Pages, h # g PROVE Contents(h)' = Contents(h)
  <2>1. nread'[h] = nread[h] /\ nwrite'[h] = nwrite[h]
    BY <1>1, <1>11, Zenon
  <2> QED BY <1>d, <2>1, Zenon DEF Contents, Oldest, Held
<1>12. out'[g] = out[g] \o SubSeq(Contents(g), 1, n)
  <2> HIDE DEF s
  <2> QED BY <1>1, <1>o, <1>10, Zenon
<1> QED
  BY <1>1, <1>3, <1>b, <1>9, <1>11, <1>12, Zenon DEF Takes
------------------------------------------------------------------------------
(* The byte streams that the pipes are. *)
Live == Pages \ free
Queued == [g \in Pages |-> IF g \in free THEN <<>> ELSE Contents(g)]
Given == [g \in Pages |-> IF g \in free THEN <<>> ELSE out[g]]

(* Every step of a pipe is a step of a byte stream, or none.                 *)
LEMMA StreamStep == IInv /\ IInv' /\ Steps => [Abs!Next]_(Abs!vars)
<1> SUFFICES ASSUME IInv, IInv', Steps PROVE [Abs!Next]_(Abs!vars)
  BY Zenon
<1>0. TypeOK /\ TypeOK' /\ free \subseteq Pages /\ free' \subseteq Pages
  BY Zenon DEF IInv, TypeOK
(* the abstract actions, in these terms *)
<1>a. ASSUME UNCHANGED <<Live, Queued, Given>> PROVE [Abs!Next]_(Abs!vars)
  BY <1>a, Zenon DEF Abs!vars, Live, Queued, Given
<1>b. ASSUME NEW g \in Pages, g \notin Live, Live' = Live \cup {g}, UNCHANGED <<Queued, Given>>
      PROVE  [Abs!Next]_(Abs!vars)
  <2>1. Abs!Create(g)
    BY <1>b, Zenon DEF Abs!Create, Live, Queued, Given
  <2> QED BY <2>1, Zenon DEF Abs!Next
<1>c. ASSUME NEW g \in Live, NEW n \in 1 .. PIPESIZE - Len(Queued[g]), NEW s \in [1..n -> Bytes],
             Queued' = [Queued EXCEPT ![g] = Queued[g] \o s], UNCHANGED <<Live, Given>>
      PROVE  [Abs!Next]_(Abs!vars)
  <2>1. Abs!Put(g)
    BY <1>c, Zenon DEF Abs!Put, Live, Queued, Given
  <2>2. g \in Pages
    BY Zenon DEF Live
  <2> QED BY <2>1, <2>2, Zenon DEF Abs!Next
<1>d. ASSUME NEW g \in Live, NEW n \in 1 .. Len(Queued[g]), UNCHANGED Live,
             Queued' = [Queued EXCEPT ![g] = SubSeq(Queued[g], n + 1, Len(Queued[g]))],
             Given' = [Given EXCEPT ![g] = Given[g] \o SubSeq(Queued[g], 1, n)]
      PROVE  [Abs!Next]_(Abs!vars)
  <2>1. Abs!Take(g)
    BY <1>d, Zenon DEF Abs!Take, Live, Queued, Given
  <2>2. g \in Pages
    BY Zenon DEF Live
  <2> QED BY <2>1, <2>2, Zenon DEF Abs!Next
<1>e. ASSUME NEW g \in Live, Live' = Live \ {g},
             Queued' = [Queued EXCEPT ![g] = <<>>], Given' = [Given EXCEPT ![g] = <<>>]
      PROVE  [Abs!Next]_(Abs!vars)
  <2>1. Abs!Destroy(g)
    BY <1>e, Zenon DEF Abs!Destroy, Live, Queued, Given
  <2>2. g \in Pages
    BY Zenon DEF Live
  <2> QED BY <2>1, <2>2, Zenon DEF Abs!Next
<1>f. \A h \in Pages : /\ Queued[h] = IF h \in free THEN <<>> ELSE Contents(h)
                       /\ Queued'[h] = IF h \in free' THEN <<>> ELSE Contents(h)'
                       /\ Given[h] = IF h \in free THEN <<>> ELSE out[h]
                       /\ Given'[h] = IF h \in free' THEN <<>> ELSE out'[h]
  BY Zenon DEF Queued, Given
<1>g. /\ Queued = [h \in Pages |-> Queued[h]] /\ Queued' = [h \in Pages |-> Queued'[h]]
      /\ Given = [h \in Pages |-> Given[h]] /\ Given' = [h \in Pages |-> Given'[h]]
  BY Zenon DEF Queued, Given
<1> HIDE DEF Queued, Given
<1>h. (\A h \in Pages : Queued'[h] = Queued[h]) => Queued' = Queued
  BY <1>g, Zenon
<1>i. (\A h \in Pages : Given'[h] = Given[h]) => Given' = Given
  BY <1>g, Zenon
<1>j. ASSUME NEW g \in Pages, NEW v, Queued'[g] = v, \A h \in Pages : h # g => Queued'[h] = Queued[h]
      PROVE  Queued' = [Queued EXCEPT ![g] = v]
  BY <1>g, <1>j, Zenon
<1>k. ASSUME NEW g \in Pages, NEW v, Given'[g] = v, \A h \in Pages : h # g => Given'[h] = Given[h]
      PROVE  Given' = [Given EXCEPT ![g] = v]
  BY <1>g, <1>k, Zenon
(* pipes that stay as they are *)
<1>1. ASSUME free' = free, \A h \in Pages : Contents(h)' = Contents(h) /\ out'[h] = out[h]
      PROVE  [Abs!Next]_(Abs!vars)
  <2>1. Queued' = Queued /\ Given' = Given
    BY <1>1, <1>f, <1>h, <1>i, Zenon
  <2> QED BY <1>1, <1>a, <2>1, Zenon DEF Live
<1>2. ASSUME Quiet PROVE [Abs!Next]_(Abs!vars)
  <2>1. UNCHANGED <<data, nread, nwrite, free, out>>
    BY <1>2, Zenon DEF Quiet
  <2>2. \A h \in Pages : Contents(h)' = Contents(h)
    BY <2>1, Zenon DEF Contents, Oldest, Held
  <2> QED BY <1>1, <2>1, <2>2, Zenon
<1>3. ASSUME NEW p \in Procs, NEW f1 \in Files, NEW g \in free, NewPipe(p, f1, g)
      PROVE  [Abs!Next]_(Abs!vars)
  <2>1. /\ free' = free \ {g} /\ out' = out /\ data' = data
        /\ nread' = [nread EXCEPT ![g] = 0] /\ nwrite' = [nwrite EXCEPT ![g] = 0]
        /\ nread \in [Pages -> 0 .. UINT - 1] /\ nwrite \in [Pages -> 0 .. UINT - 1] /\ g \in Pages
    BY <1>0, <1>3, Zenon DEF NewPipe, hist, TypeOK
  <2>2. Held(g)' = 0
    <3>1. Held(g)' = (nwrite'[g] - nread'[g]) % UINT
      BY Zenon DEF Held
    <3>2. nwrite'[g] = 0 /\ nread'[g] = 0 /\ UINT \in Nat /\ UINT > 0
      BY <2>1, FilesAssumption, SMTT(30)
    <3>3. (0 - 0) % UINT = 0
      BY <3>2, ModDiff, SMTT(30)
    <3> QED BY <3>1, <3>2, <3>3, Zenon
  <2>3. Contents(g)' = <<>>
    <3>1. Contents(g)' \in Seq(Bytes) /\ Len(Contents(g)') = 0
      BY <2>1, <2>2, HeldAtNext, Zenon DEF HeldAre
    <3>2. PICK x \in Seq(Bytes) : x = Contents(g)'
      BY <3>1, Zenon
    <3>3. x = <<>>
      BY <3>1, <3>2, SMTT(30)
    <3> QED BY <3>2, <3>3, Zenon
  <2>4. out[g] = <<>>
    BY <2>1, Zenon DEF IInv, PipeInv
  <2>5. \A h \in Pages : h # g => Contents(h)' = Contents(h)
    <3> SUFFICES ASSUME NEW h \in Pages, h # g PROVE Contents(h)' = Contents(h)
      BY Zenon
    <3>1. nread'[h] = nread[h] /\ nwrite'[h] = nwrite[h]
      BY <2>1, Zenon
    <3> QED BY <2>1, <3>1, Zenon DEF Contents, Oldest, Held
  <2>6. Queued' = Queued /\ Given' = Given
    BY <1>f, <1>h, <1>i, <2>1, <2>3, <2>4, <2>5, Zenon
  <2>7. g \notin Live /\ Live' = Live \cup {g}
    BY <1>0, <2>1, Zenon DEF Live
  <2> QED BY <1>b, <2>1, <2>6, <2>7, Zenon
<1>4. ASSUME NEW p \in Procs, PipeClose(p) PROVE [Abs!Next]_(Abs!vars)
  <2>1. PICK g : g = closing[p].page
    BY Zenon
  <2>2. g \in Pages /\ g \notin free
    <3>1. closing[p] # None /\ closing[p] \in Ends
      BY <1>0, <1>4, ClosingEnd, Zenon DEF PipeClose
    <3>2. g \in Pages
      BY <2>1, <3>1, EndFacts, Zenon
    <3>3. g \notin free
      BY <2>1, <3>1, Zenon DEF IInv, EndInv, NoDangling
    <3> QED BY <3>2, <3>3, Zenon
  <2>3. CASE ~Freed(g)
    <3>1. UNCHANGED <<free, data, nread, nwrite, out>>
      BY <1>4, <2>1, <2>3, Zenon DEF PipeClose, hist
    <3>2. \A h \in Pages : Contents(h)' = Contents(h)
      BY <3>1, Zenon DEF Contents, Oldest, Held
    <3> QED BY <1>1, <3>1, <3>2, Zenon
  <2>4. CASE Freed(g)
    <3>1. /\ free' = free \cup {g} /\ data' = [data EXCEPT ![g] = Junk]
          /\ nread' = [nread EXCEPT ![g] = 0] /\ nwrite' = [nwrite EXCEPT ![g] = 0]
          /\ out' = [out EXCEPT ![g] = <<>>]
      BY <1>4, <2>1, <2>4, Zenon DEF PipeClose
    <3>2. ASSUME NEW h \in Pages, h # g PROVE Contents(h)' = Contents(h) /\ out'[h] = out[h]
      <4>1. data'[h] = data[h] /\ nread'[h] = nread[h] /\ nwrite'[h] = nwrite[h] /\ out'[h] = out[h]
        BY <1>0, <3>1, <3>2, ZenonT(60) DEF TypeOK
      <4> QED BY <4>1, Zenon DEF Contents, Oldest, Held
    <3>3. \A h \in Pages : h # g => Queued'[h] = Queued[h] /\ Given'[h] = Given[h]
      BY <1>f, <3>1, <3>2, Zenon
    <3>4. Queued'[g] = <<>> /\ Given'[g] = <<>>
      BY <1>f, <2>2, <3>1, Zenon
    <3>5. Queued' = [Queued EXCEPT ![g] = <<>>] /\ Given' = [Given EXCEPT ![g] = <<>>]
      BY <1>j, <1>k, <2>2, <3>3, <3>4, Zenon
    <3>6. g \in Live /\ Live' = Live \ {g}
      BY <2>2, <3>1, Zenon DEF Live
    <3> QED BY <1>e, <3>5, <3>6, Zenon
  <2> QED BY <2>3, <2>4, Zenon
<1>5. ASSUME NEW p \in Procs, PipeWrite(p) PROVE [Abs!Next]_(Abs!vars)
  <2>1. PICK g : g = end[file[p]].page
    BY Zenon
  <2>2. PICK n : n = AtMost(Len(buf[p]), Room(g))
    BY Zenon
  <2>3. PICK s : s = [k \in 1..n |-> buf[p][k]]
    BY Zenon
  <2>4. /\ g \in Pages \ free /\ n \in 0 .. PIPESIZE - Held(g) /\ s \in [1..n -> Bytes]
        /\ Contents(g)' = Contents(g) \o s
        /\ \A h \in Pages : h # g => Contents(h)' = Contents(h)
    BY <1>5, <2>1, <2>2, <2>3, WriteAppends, Zenon
  <2>5. free' = free /\ out' = out
    BY <1>5, <2>1, WriteEffect, Zenon
  <2>6. Contents(g) \in Seq(Bytes) /\ Len(Contents(g)) = Held(g) /\ Held(g) \in 0..PIPESIZE
    BY <2>4, HeldAt, Zenon DEF HeldAre
  <2>7. Queued[g] = Contents(g) /\ Queued'[g] = Queued[g] \o s /\ Given' = Given
    BY <1>f, <1>i, <2>4, <2>5, Zenon
  <2>8. \A h \in Pages : h # g => Queued'[h] = Queued[h]
    BY <1>f, <2>4, <2>5, Zenon
  <2>9. g \in Live /\ Live' = Live
    BY <2>4, <2>5, Zenon DEF Live
  <2>10. CASE n = 0
    <3>1. s \in Seq(Bytes) /\ Len(s) = 0
      BY <2>4, <2>10, FunctionSeq, Zenon
    <3>2. s = <<>>
      BY <3>1, SMTT(30)
    <3>3. Contents(g) \o s = Contents(g)
      BY <2>6, <3>2, EmptyJoined, Zenon
    <3> QED BY <1>1, <2>4, <2>5, <3>3, Zenon
  <2>11. CASE n # 0
    <3>1. n \in 1 .. PIPESIZE - Len(Queued[g])
      BY <2>4, <2>6, <2>7, <2>11, FilesAssumption, SMTT(30)
    <3>2. Queued' = [Queued EXCEPT ![g] = Queued[g] \o s]
      BY <1>j, <2>4, <2>7, <2>8, Zenon
    <3> QED BY <1>c, <2>4, <2>7, <2>9, <3>1, <3>2, Zenon
  <2> QED BY <2>10, <2>11, Zenon
<1>6. ASSUME NEW p \in Procs, PipeRead(p) PROVE [Abs!Next]_(Abs!vars)
  <2>1. PICK g : g = end[file[p]].page
    BY Zenon
  <2>2. CASE MustWait(g)
    <3>1. UNCHANGED <<free, data, nread, nwrite, out>>
      BY <1>6, <2>1, <2>2, Zenon DEF PipeRead
    <3>2. \A h \in Pages : Contents(h)' = Contents(h)
      BY <3>1, Zenon DEF Contents, Oldest, Held
    <3> QED BY <1>1, <3>1, <3>2, Zenon
  <2>3. CASE ~MustWait(g)
    <3>1. PICK n : n = AtMost(want[p], Held(g))
      BY Zenon
    <3>2. /\ g \in Pages \ free /\ n \in 0..Held(g)
          /\ Contents(g)' = SubSeq(Contents(g), n + 1, Len(Contents(g)))
          /\ out'[g] = out[g] \o SubSeq(Contents(g), 1, n)
          /\ \A h \in Pages : h # g => Contents(h)' = Contents(h) /\ out'[h] = out[h]
      <4>1. Takes(g, n)
        BY <1>6, <2>1, <2>3, <3>1, ReadTakes, Zenon
      <4> QED BY <4>1, Zenon DEF Takes
    <3>3. free' = free
      BY <1>6, <2>1, <2>3, ReadEffect, Zenon
    <3>4. Contents(g) \in Seq(Bytes) /\ Len(Contents(g)) = Held(g) /\ Held(g) \in 0..PIPESIZE
          /\ out[g] \in Seq(Bytes)
      BY <1>0, <3>2, HeldAt, Zenon DEF HeldAre, TypeOK
    <3>5. Queued[g] = Contents(g) /\ Given[g] = out[g] /\ Queued'[g] = Contents(g)' /\ Given'[g] = out'[g]
      BY <1>f, <3>2, <3>3, Zenon
    <3>6. \A h \in Pages : h # g => Queued'[h] = Queued[h] /\ Given'[h] = Given[h]
      BY <1>f, <3>2, <3>3, Zenon
    <3>7. g \in Live /\ Live' = Live
      BY <3>2, <3>3, Zenon DEF Live
    <3>8. CASE n = 0
      <4>1. PICK c \in Seq(Bytes), o \in Seq(Bytes) : c = Contents(g) /\ o = out[g]
        BY <3>4, Zenon
      <4>2. SubSeq(c, 0 + 1, Len(c)) = c
        BY EmptyJoined, SMTT(30)
      <4>3. SubSeq(c, 1, 0) = <<>>
        BY EmptyJoined, Zenon
      <4>4. o \o <<>> = o
        BY <4>1, EmptyJoined, Zenon
      <4>5. Contents(g)' = Contents(g) /\ out'[g] = out[g]
        BY <3>2, <3>8, <4>1, <4>2, <4>3, <4>4, Zenon
      <4> QED BY <1>1, <3>2, <3>3, <4>5, Zenon
    <3>9. CASE n # 0
      <4>1. n \in 1 .. Len(Queued[g])
        <5>1. n \in 0..Held(g) /\ n # 0 /\ Held(g) \in 0..PIPESIZE /\ Len(Queued[g]) = Held(g)
          BY <3>2, <3>4, <3>5, <3>9, Zenon
        <5> QED BY ONLY <5>1, SMTT(30)
      <4>2. Queued' = [Queued EXCEPT ![g] = SubSeq(Queued[g], n + 1, Len(Queued[g]))]
        BY <1>j, <3>2, <3>5, <3>6, SMTT(30)
      <4>3. Given' = [Given EXCEPT ![g] = Given[g] \o SubSeq(Queued[g], 1, n)]
        <5>1. PICK v : v = Given[g] \o SubSeq(Queued[g], 1, n)
          BY Zenon
        <5>2. Given'[g] = v
          BY <3>2, <3>5, <5>1, Zenon
        <5> QED BY <1>k, <3>2, <3>6, <5>1, <5>2, Zenon
      <4> QED BY <1>d, <3>7, <4>1, <4>2, <4>3, Zenon
    <3> QED BY <3>8, <3>9, Zenon
  <2> QED BY <2>2, <2>3, Zenon
<1> QED
  BY <1>2, <1>3, <1>4, <1>5, <1>6, PipeCases, Zenon
==============================================================================
