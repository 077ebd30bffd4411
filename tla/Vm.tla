--------------------------------- MODULE Vm ---------------------------------
(***************************************************************************)
(* Memory: the page allocator (kalloc.c), the four-level page tables of     *)
(* vm.c, and the calls that build, copy, grow, replace and free an address  *)
(* space: fork(), sbrk(), exec(), exit() and wait().                        *)
(*                                                                         *)
(* An address space is [tab, leaf]: tab maps the indices walked so far (a   *)
(* sequence of at most three) to the page of the next table, leaf maps a    *)
(* virtual page to its physical page and PTE_U.  A step is one call of      *)
(* allocuvm(), copyuvm(), freevm() ...; calls of other processes come       *)
(* between.  kalloc() panics when no page is left.                          *)
(***************************************************************************)
EXTENDS Integers, Sequences, FiniteSets, TLC
LOCAL INSTANCE FiniteSetsExt
LOCAL INSTANCE SequencesExt

CONSTANTS
  Procs,        \* slots of the process table; 1 is init
  Pages,        \* physical pages (numbers)
  PGSIZE,       \* bytes of a page
  NENTRIES,     \* entries of a table; the upper half of the first is the kernel's
  Execs,        \* <<program, arguments>>: segments [vaddr, memsz, data, whole], lengths in words
  MAXARG,
  Sbrks,        \* bound: the increments given to sbrk()
  MaxSz,        \* bound: size of a process
  MaxCalls      \* bound: stores, sbrk()s, fork()s and exec()s of a run

VARIABLES
  free,         \* kmem.freelist
  mem,          \* bytes of each page
  pgdir, sz, kstack, state,   \* of each process
  task,         \* the exec() or fork() a process is in
  img,          \* history: the bytes each process should see, by address
  panicked,
  calls         \* stores and calls so far

vars == <<free, mem, pgdir, sz, kstack, state, task, img, panicked, calls>>

Kpdpt == 0              \* the kernel's page directory pointer table
NoPage == -1
NoDir == [tab |-> <<>>, leaf |-> <<>>]
Offsets == 0 .. PGSIZE - 1
Fill(b) == [k \in Offsets |-> b]
Junk == 7               \* what kfree() leaves in a page
PgRoundUp(a) == ((a + PGSIZE - 1) \div PGSIZE) * PGSIZE
KERNBASE == (NENTRIES \div 2) * NENTRIES * NENTRIES * NENTRIES * PGSIZE
Plus(a, b) == (a + b) % (2 * KERNBASE)      \* addresses wrap

NoTask == [pc |-> "user", new |-> NoDir, nsz |-> 0, seg |-> 0, prog |-> <<>>, args |-> <<>>,
           child |-> NoPage]

-----------------------------------------------------------------------------
(* Page tables.  h is [free, mem, dir].                                      *)

(* PMX, PDPX, PDX and PTX of a virtual page. *)
Indices(v) == [k \in 1 .. 4 |-> (v \div NENTRIES ^ (4 - k)) % NENTRIES]
Tables(v) == {SubSeq(Indices(v), 1, k) : k \in 1 .. 3}

(* Tables are given the free pages in the order of the walk. *)
WalkPgdir(h, v) ==
  FoldLeft(LAMBDA g, k :
             LET at == SubSeq(Indices(v), 1, k)
             IN  IF at \in DOMAIN g.dir.tab THEN g
                 ELSE [g EXCEPT !.free = @ \ {Min(g.free)}, !.dir.tab = (at :> Min(g.free)) @@ @],
           h, <<1, 2, 3>>)

(* kalloc() of a page, its contents, and mappages(). *)
MapPage(h, v, bytes, u) ==
  LET b == Min(h.free)
      g == WalkPgdir([h EXCEPT !.free = @ \ {b}, !.mem[b] = bytes], v)
  IN  [g EXCEPT !.dir.leaf = (v :> [pa |-> b, u |-> u]) @@ @]

SetupKvm(h) ==
  [h EXCEPT !.free = @ \ {Min(h.free)},
            !.dir = [tab |-> (<<>> :> Min(h.free)) @@ (<<NENTRIES \div 2>> :> Kpdpt), leaf |-> <<>>]]

(* Virtual pages that allocuvm() maps. *)
NewFrom(old) == PgRoundUp(old) \div PGSIZE
NewPages(old, new) == {v \in NewFrom(old) .. MaxSz : v * PGSIZE < new}
Upwards(old, new) == [k \in 1 .. Cardinality(NewPages(old, new)) |-> NewFrom(old) + k - 1]

AllocDirty(h, old, new) ==
  FoldLeft(LAMBDA g, v : MapPage(g, v, Fill(Junk), TRUE), h, Upwards(old, new))
AllocUvm(h, old, new) ==
  FoldLeft(LAMBDA g, v : MapPage(g, v, Fill(0), TRUE), h, Upwards(old, new))

(* Pages that mapping vs takes, tables included, and whether they are there. *)
Enough(dir, vs, more) ==
  Cardinality(free) >= more + Cardinality(vs)
                            + Cardinality(UNION {Tables(v) : v \in vs} \ DOMAIN dir.tab)

Kfree(h, ps) == [h EXCEPT !.free = @ \cup ps, !.mem = [b \in Pages |-> IF b \in ps THEN Fill(Junk) ELSE @[b]]]

DeallocUvm(h, old, new) ==
  LET gone == {v \in DOMAIN h.dir.leaf : v >= NewFrom(new) /\ v * PGSIZE < old}
      g    == Kfree(h, {h.dir.leaf[v].pa : v \in gone})
  IN  [g EXCEPT !.dir.leaf = [v \in DOMAIN @ \ gone |-> @[v]]]

(* freevm(): the pages and tables of the lower half, and the PML4. *)
UpperLevels(dir) == {t \in DOMAIN dir.tab : t = <<>> \/ (t[1] < NENTRIES \div 2 /\ Len(t) < 3)}
FreedTables(dir) == {t \in DOMAIN dir.tab : t = <<>> \/ t[1] < NENTRIES \div 2}
FreeVm(h, dir) ==
  Kfree(h, {dir.leaf[v].pa : v \in DOMAIN dir.leaf} \cup {dir.tab[t] : t \in FreedTables(dir)})

(* copyuvm(): every page from PGSIZE up to sz. *)
CopyUvm(h, from, size) ==
  FoldLeft(LAMBDA g, v : MapPage(g, v, g.mem[from.leaf[v].pa], from.leaf[v].u),
           SetupKvm(h), Upwards(PGSIZE, size))

(* The byte at an address, and storing one: uva2ka() of its page. *)
Pte(dir, a) == dir.leaf[a \div PGSIZE]
Mapped(dir, a) == a \div PGSIZE \in DOMAIN dir.leaf
Put(m, dir, a, b) == [m EXCEPT ![Pte(dir, a).pa][a % PGSIZE] = b]

Usable(dir, a) == Mapped(dir, a) /\ Pte(dir, a).u

-----------------------------------------------------------------------------
(* Processes.                                                                *)

Here(p) == [free |-> free, mem |-> mem, dir |-> pgdir[p]]
Runs(p, l) == panicked = "no" /\ state[p] = "run" /\ task[p].pc = l

(* A process in user mode that has its memory; the other case is below       *)
(* Shrink().                                                                 *)
InUser(p) == Runs(p, "user") /\ Mapped(pgdir[p], PGSIZE)

OutOfMemory ==
  /\ panicked' = "memory"
  /\ UNCHANGED <<free, mem, pgdir, sz, kstack, state, task, img>>

Absent == [a \in 0 .. MaxSz - 1 |-> -1]

(* kinit1(), freerange(): every page but the kernel's is free. *)
FreeRange == [free |-> Pages \ {Kpdpt}, mem |-> [b \in Pages |-> Fill(Junk)], dir |-> NoDir]

(* inituvm(): one page of initcode at PGSIZE, filled with fives. *)
InitUvm(h) == MapPage(h, 1, Fill(5), TRUE)

(* userinit() *)
Init ==
  LET stack == Min(FreeRange.free)
      h == InitUvm(SetupKvm([FreeRange EXCEPT !.free = @ \ {stack}]))
  IN  /\ free = h.free /\ mem = h.mem
      /\ pgdir = [p \in Procs |-> IF p = 1 THEN h.dir ELSE NoDir]
      /\ sz = [p \in Procs |-> IF p = 1 THEN 2 * PGSIZE ELSE 0]
      /\ kstack = [p \in Procs |-> IF p = 1 THEN stack ELSE NoPage]
      /\ state = [p \in Procs |-> IF p = 1 THEN "run" ELSE "unused"]
      /\ task = [p \in Procs |-> NoTask]
      /\ img = [p \in Procs |-> IF p = 1 THEN [a \in DOMAIN Absent |->
                  IF a \in PGSIZE .. 2 * PGSIZE - 1 THEN 5 ELSE -1] ELSE Absent]
      /\ panicked = "no" /\ calls = 0

(* A user program stores a byte. *)
Store(p, a) ==
  /\ InUser(p) /\ Usable(pgdir[p], a)
  /\ mem' = Put(mem, pgdir[p], a, p)
  /\ img' = [img EXCEPT ![p][a] = p]
  /\ UNCHANGED <<free, pgdir, sz, kstack, state, task, panicked>>

(* growproc(): new pages are zero. *)
Grow(p, n) ==
  LET new == sz[p] + n
      vs == NewPages(sz[p], new)
      h == AllocUvm(Here(p), sz[p], new)
  IN  /\ InUser(p) /\ n > 0 /\ new <= MaxSz /\ new < KERNBASE
      /\ \/ ~Enough(pgdir[p], vs, 0) /\ OutOfMemory
         \/ /\ Enough(pgdir[p], vs, 0)
            /\ free' = h.free /\ mem' = h.mem
            /\ pgdir' = [pgdir EXCEPT ![p] = h.dir] /\ sz' = [sz EXCEPT ![p] = new]
            /\ img' = [img EXCEPT ![p] = [a \in DOMAIN @ |-> IF a \div PGSIZE \in vs THEN 0 ELSE @[a]]]
            /\ panicked' = IF vs \cap DOMAIN pgdir[p].leaf # {} THEN "remap" ELSE "no"
            /\ UNCHANGED <<kstack, state, task>>

(* deallocuvm() returns the new size; 0 is taken for a failure, although the *)
(* pages are gone.  A decrement past zero wraps and changes nothing.         *)
NotShrunk(old, new) == old
Shrunk(old, new) == IF new = 0 THEN old ELSE new
Shrink(p, n) ==
  LET new == sz[p] + n
      h == DeallocUvm(Here(p), sz[p], new)
  IN  /\ InUser(p) /\ n < 0 /\ new >= 0
      /\ free' = h.free /\ mem' = h.mem
      /\ pgdir' = [pgdir EXCEPT ![p] = h.dir]
      /\ sz' = [sz EXCEPT ![p] = Shrunk(@, new)]
      /\ img' = [img EXCEPT ![p] = [a \in DOMAIN @ |-> IF a >= PgRoundUp(new) THEN -1 ELSE @[a]]]
      /\ UNCHANGED <<kstack, state, task, panicked>>

SysSbrk(p, n) == Grow(p, n) \/ Shrink(p, n)

(* After sbrk() to size 0 growproc() returns before switchuvm(), so the TLB  *)
(* still has the pages that were freed.  The process faults (Exit), or it    *)
(* runs on in memory that the kernel may have handed on; nothing is known of *)
(* the machine from then on and the model stops.                             *)
RunOn(p) ==
  /\ Runs(p, "user") /\ ~Mapped(pgdir[p], PGSIZE)
  /\ panicked' = "stale"
  /\ UNCHANGED <<free, mem, pgdir, sz, kstack, state, task, img>>

(* fork(): allocproc() takes a slot and a kernel stack ... *)
Fork(p, c) ==
  /\ InUser(p) /\ state[c] = "unused"
  /\ \/ free = {} /\ OutOfMemory
     \/ /\ free # {}
        /\ kstack' = [kstack EXCEPT ![c] = Min(free)] /\ free' = free \ {Min(free)}
        /\ state' = [state EXCEPT ![c] = "embryo"]
        /\ task' = [task EXCEPT ![p] = [@ EXCEPT !.pc = "fork", !.child = c]]
        /\ UNCHANGED <<mem, pgdir, sz, img, panicked>>

(* ... and copyuvm() the memory, which the parent's pages must all back. *)
Copy(p) ==
  LET c == task[p].child
      vs == NewPages(PGSIZE, sz[p])
      h == CopyUvm(Here(p), pgdir[p], sz[p])
  IN  /\ Runs(p, "fork")
      /\ \/ ~(vs \subseteq DOMAIN pgdir[p].leaf)
            /\ panicked' = "copyuvm"
            /\ UNCHANGED <<free, mem, pgdir, sz, kstack, state, task, img>>
         \/ vs \subseteq DOMAIN pgdir[p].leaf /\ ~Enough(NoDir, vs, 1) /\ OutOfMemory
         \/ /\ vs \subseteq DOMAIN pgdir[p].leaf /\ Enough(NoDir, vs, 1)
            /\ free' = h.free /\ mem' = h.mem
            /\ pgdir' = [pgdir EXCEPT ![c] = h.dir] /\ sz' = [sz EXCEPT ![c] = sz[p]]
            /\ img' = [img EXCEPT ![c] = img[p]]
            /\ state' = [state EXCEPT ![c] = "run"] /\ task' = [task EXCEPT ![p] = NoTask]
            /\ UNCHANGED <<kstack, panicked>>

(* exit(), called or forced by a fault; init must not call it. *)
Exit(p) ==
  /\ Runs(p, "user") /\ (p = 1 => ~InUser(p))
  /\ \/ p = 1 /\ panicked' = "init" /\ UNCHANGED state
     \/ p # 1 /\ state' = [state EXCEPT ![p] = "zombie"] /\ UNCHANGED panicked
  /\ UNCHANGED <<free, mem, pgdir, sz, kstack, task, img>>

(* wait(): the zombie's kernel stack and address space are freed (what an    *)
(* unused slot still points to is never used, and is cleared here).          *)
Wait(p, c) ==
  LET h == FreeVm(Kfree(Here(c), {kstack[c]}), pgdir[c])
  IN  /\ InUser(p) /\ state[c] = "zombie"
      /\ free' = h.free /\ mem' = h.mem
      /\ kstack' = [kstack EXCEPT ![c] = NoPage] /\ pgdir' = [pgdir EXCEPT ![c] = NoDir]
      /\ sz' = [sz EXCEPT ![c] = 0] /\ img' = [img EXCEPT ![c] = Absent]
      /\ state' = [state EXCEPT ![c] = "unused"]
      /\ UNCHANGED <<task, panicked>>

-----------------------------------------------------------------------------
(* exec(): a new address space is built beside the old one.                  *)

New(p) == [free |-> free, mem |-> mem, dir |-> task[p].new]

ExecStart(p, prog, args) ==
  LET h == SetupKvm(Here(p))
  IN  /\ InUser(p)
      /\ \/ free = {} /\ OutOfMemory
         \/ /\ free # {} /\ free' = h.free
            /\ task' = [task EXCEPT ![p] = [@ EXCEPT !.pc = "load", !.new = h.dir, !.nsz = PGSIZE,
                                                     !.seg = 1, !.prog = prog, !.args = args]]
            /\ UNCHANGED <<mem, pgdir, sz, kstack, state, img, panicked>>

(* sys_exec() refuses MAXARG arguments or more. *)
SysExec(p, e) == Len(e[2]) < MAXARG /\ ExecStart(p, e[1], e[2])

(* bad: freevm(pgdir) and return -1. *)
Bad(p, h) ==
  LET g == FreeVm(h, h.dir)
  IN  /\ free' = g.free /\ mem' = g.mem /\ task' = [task EXCEPT ![p] = NoTask]
      /\ UNCHANGED <<pgdir, sz, kstack, state, img, panicked>>

Later(a, b) == IF a < b THEN b ELSE a

(* loaduvm(): the bytes of the file, page by page. *)
LoadUvm(h, s) ==
  [h EXCEPT !.mem = FoldLeft(LAMBDA m, k : Put(m, h.dir, s.vaddr + k - 1, s.data[k]),
                             @, [k \in 1 .. Len(s.data) |-> k])]

(* One turn of the loop over the program headers. *)
ExecLoad(p) ==
  LET t == task[p]
      s == t.prog[t.seg]
      end == Plus(s.vaddr, s.memsz)
      bad == s.memsz < Len(s.data) \/ end < s.vaddr \/ end >= KERNBASE
      vs == NewPages(t.nsz, end)
      h == AllocUvm(New(p), t.nsz, end)
      g == LoadUvm(h, s)
  IN  /\ Runs(p, "load") /\ t.seg <= Len(t.prog)
      /\ \/ bad /\ Bad(p, New(p))
         \/ ~bad /\ ~Enough(t.new, vs, 0) /\ OutOfMemory
         \/ /\ ~bad /\ Enough(t.new, vs, 0)
            /\ s.vaddr % PGSIZE # 0 \/ ~s.whole
            /\ Bad(p, h)
         \/ /\ ~bad /\ Enough(t.new, vs, 0)
            /\ s.vaddr % PGSIZE = 0 /\ s.whole
            /\ free' = g.free /\ mem' = g.mem
            /\ task' = [task EXCEPT ![p] = [@ EXCEPT !.new = g.dir, !.nsz = Later(@, end), !.seg = @ + 1]]
            /\ UNCHANGED <<pgdir, sz, kstack, state, img, panicked>>

(* copyout() of one argument, or of the argument vector, below sp.  It stops *)
(* at the page whose PTE_U is clear.                                         *)
Push(g, len, b) ==
  LET bytes == [k \in 1 .. len |-> g.sp - k]
      ok == g.ok /\ \A k \in 1 .. len : Usable(g.dir, bytes[k])
  IN  IF ok THEN [g EXCEPT !.sp = @ - len, !.mem = FoldLeft(LAMBDA m, a : Put(m, g.dir, a, b), @, bytes)]
      ELSE [g EXCEPT !.ok = FALSE]

ClearPteU(h, a) == [h EXCEPT !.dir.leaf[a \div PGSIZE].u = FALSE]

(* Two pages above the program, the first inaccessible, the second the stack *)
(* with the arguments and argv.                                              *)
Stack(h, base, args) ==
  LET u == ClearPteU(AllocUvm(h, base, base + 2 * PGSIZE), base)
      start == [free |-> u.free, mem |-> u.mem, dir |-> u.dir, sp |-> base + 2 * PGSIZE,
                ok |-> Len(args) <= MAXARG]
  IN  Push(FoldLeft(LAMBDA f, len : Push(f, len, 3), start, args), Len(args) + 2, 4)

ExecStack(p) ==
  LET t == task[p]
      base == PgRoundUp(t.nsz)
      vs == NewPages(base, base + 2 * PGSIZE)
      g == Stack(New(p), base, t.args)
  IN  /\ Runs(p, "load") /\ t.seg > Len(t.prog)
      /\ \/ ~Enough(t.new, vs, 0) /\ OutOfMemory
         \/ Enough(t.new, vs, 0) /\ ~g.ok /\ Bad(p, g)
         \/ /\ Enough(t.new, vs, 0) /\ g.ok
            /\ free' = g.free /\ mem' = g.mem
            /\ task' = [task EXCEPT ![p] = [@ EXCEPT !.pc = "commit", !.new = g.dir,
                                                     !.nsz = base + 2 * PGSIZE]]
            /\ UNCHANGED <<pgdir, sz, kstack, state, img, panicked>>

RECURSIVE Total(_)
Total(s) == IF s = <<>> THEN 0 ELSE Head(s) + Total(Tail(s))

(* What a program finds in its memory: the last segment that has a byte for  *)
(* the address, the arguments below the top of the stack, zeros elsewhere.   *)
ProgramImage(prog, args) ==
  LET base == PgRoundUp(Max({PGSIZE} \cup {prog[k].vaddr + prog[k].memsz : k \in DOMAIN prog}))
      top == base + 2 * PGSIZE
      from(a) == {k \in DOMAIN prog : a \in prog[k].vaddr .. prog[k].vaddr + Len(prog[k].data) - 1}
  IN  [a \in 0 .. MaxSz - 1 |->
         CASE a < PGSIZE \/ a >= top -> -1
           [] a >= top - Total(args) /\ a < top -> 3
           [] a >= top - Total(args) - Len(args) - 2 /\ a < top - Total(args) -> 4
           [] a \in PGSIZE .. base - 1 /\ from(a) # {} ->
                LET s == prog[Max(from(a))] IN s.data[a - s.vaddr + 1]
           [] OTHER -> 0]

(* Commit to the user image; freevm(oldpgdir). *)
Commit(p) ==
  LET t == task[p]
      h == FreeVm(Here(p), pgdir[p])
  IN  /\ Runs(p, "commit")
      /\ pgdir' = [pgdir EXCEPT ![p] = t.new] /\ sz' = [sz EXCEPT ![p] = t.nsz]
      /\ free' = h.free /\ mem' = h.mem
      /\ img' = [img EXCEPT ![p] = ProgramImage(t.prog, t.args)]
      /\ task' = [task EXCEPT ![p] = NoTask]
      /\ UNCHANGED <<kstack, state, panicked>>

(* What a program asks for, and what the kernel then does. *)
Call(p) ==
  \/ \E n \in Sbrks \cup {-sz[p]} : SysSbrk(p, n)
  \/ Store(p, sz[p] - 1)
  \/ \E c \in Procs : Fork(p, c)
  \/ \E e \in Execs : SysExec(p, e)

Step(p) == Copy(p) \/ ExecLoad(p) \/ ExecStack(p) \/ Commit(p) \/ Exit(p) \/ RunOn(p) \/ \E c \in Procs : Wait(p, c)

Next == \E p \in Procs :
  \/ calls < MaxCalls /\ Call(p) /\ calls' = calls + 1
  \/ Step(p) /\ UNCHANGED calls

Spec == Init /\ [][Next]_vars

-----------------------------------------------------------------------------
TypeOK ==
  /\ free \subseteq Pages \ {Kpdpt}
  /\ sz \in [Procs -> 0 .. MaxSz] /\ kstack \in [Procs -> Pages \cup {NoPage}]
  /\ state \in [Procs -> {"unused", "embryo", "run", "zombie"}]
  /\ panicked \in {"no", "memory", "remap", "copyuvm", "init", "stale"}

(* Every use of a page: <<whose, table or leaf, where, page>>. *)
Uses(d, dir) == {<<d, "table", t, dir.tab[t]>> : t \in DOMAIN dir.tab \ {<<NENTRIES \div 2>>}}
                  \cup {<<d, "leaf", <<v>>, dir.leaf[v].pa>> : v \in DOMAIN dir.leaf}
AllUses == {<<<<"kernel", 0>>, "table", <<>>, Kpdpt>>}
             \cup UNION {Uses(<<"dir", p>>, pgdir[p]) : p \in Procs}
             \cup UNION {Uses(<<"new", p>>, task[p].new) : p \in Procs}
             \cup {<<<<"stack", p>>, "leaf", <<>>, kstack[p]>> : p \in {q \in Procs : kstack[q] # NoPage}}

(* Pages are conserved: each is free or has one use, as memory, table or     *)
(* kernel stack, whichever call built, copied, replaced or failed halfway.   *)
PagesAccounted ==
  /\ TypeOK
  /\ free = Pages \ {u[4] : u \in AllUses}
  /\ Cardinality({u[4] : u \in AllUses}) = Cardinality(AllUses)

(* A process sees its own memory and nothing else: what it stored, what it   *)
(* inherited at fork(), zeros in what sbrk() added, and after exec() the     *)
(* image of the program; a failed exec() changes nothing.                    *)
ImageRight ==
  \A p \in Procs : state[p] = "run" =>
    \A a \in 0 .. MaxSz - 1 :
      IF Mapped(pgdir[p], a) THEN mem[Pte(pgdir[p], a).pa][a % PGSIZE] = img[p][a]
      ELSE img[p][a] = -1

(* The size of a process says which pages it has, so copyuvm() finds each    *)
(* page and allocuvm() maps none twice: the only panics are for lack of      *)
(* memory and of init, as long as nobody runs on in memory it gave up.       *)
SizeBacked ==
  /\ panicked \notin {"remap", "copyuvm"}
  /\ \A p \in Procs : InUser(p) => DOMAIN pgdir[p].leaf = NewPages(PGSIZE, sz[p])
=============================================================================
