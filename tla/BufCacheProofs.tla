--------------------------- MODULE BufCacheProofs ---------------------------
(* Machine-checked proofs about the buffer cache, for any number of buffers,  *)
(* processes and blocks.                                                      *)
EXTENDS BufCache, FiniteSetTheorems, WellFoundedInduction, TLAPS

Busy == {"bread", "iosleep", "io"}
Uses(p, b) == b \in held[p] \/ (pc[p] # "idle" /\ want[p] = b)
Owns(p, b) == b \in held[p] \/ (pc[p] \in Busy /\ want[p] = b)

(* bcache's list has every buffer. *)
MruInv == \A b \in Bufs : \E i \in Bufs : mru[i] = b

(* A sleep lock has at most one owner, and is locked exactly when it has one; *)
(* whoever looks for a buffer or gives it back does not hold it.              *)
LockInv ==
  /\ \A b \in Bufs : \A p, q \in Procs : Owns(p, b) /\ Owns(q, b) => p = q
  /\ \A b \in Bufs : locked[b] <=> \E p \in Procs : Owns(p, b)
  /\ \A p \in Procs : pc[p] \in {"lock", "lksleep", "bread", "unref"} => want[p] \notin held[p]
  /\ \A p \in Procs : pc[p] = "lksleep" => locked[want[p]]

(* A buffer somebody uses is a block's, and so is one with contents. *)
BlockInv ==
  /\ \A b, c \in Bufs : blockno[b] = blockno[c] /\ blockno[b] # Unused => b = c
  /\ \A p \in Procs, b \in Bufs : Uses(p, b) => blockno[b] # Unused
  /\ \A b \in Bufs : (valid[b] => blockno[b] # Unused) /\ (dirty[b] => valid[b])
RefInv == \A b \in Bufs : refcnt[b] = Cardinality(Users(b))

(* bread() has returned only buffers with contents. *)
ValidInv ==
  /\ \A p \in Procs : \A b \in held[p] : valid[b]
  /\ \A p \in Procs : pc[p] = "io" => valid[want[p]] /\ ~dirty[want[p]]

(* The driver's queue: the buffers that processes sleep for, once each. *)
QueueInv ==
  /\ busy <=> idequeue # <<>>
  /\ \A i, j \in 1..Len(idequeue) : idequeue[i] = idequeue[j] => i = j
  /\ \A i \in 1..Len(idequeue) :
       \E p \in Procs : pc[p] = "iosleep" /\ want[p] = idequeue[i]
  /\ \A p \in Procs :
       pc[p] = "iosleep" => \E i \in 1..Len(idequeue) : idequeue[i] = want[p]

(* What the disk has, if it reports no error. *)
DiskInv ==
  /\ \A b \in Bufs : valid[b] /\ ~dirty[b] => data[b] = disk[blockno[b]]
  /\ idequeue # <<>> /\ dirty[Head(idequeue)]
       => data[Head(idequeue)] = disk[blockno[Head(idequeue)]]

IInv == TypeOK /\ MruInv /\ LockInv /\ BlockInv /\ RefInv /\ ValidInv /\ QueueInv
------------------------------------------------------------------------------
(* A non-empty set of natural numbers has a least element. *)
LEMMA LeastNat ==
  ASSUME NEW T, T \subseteq Nat, T # {}
  PROVE  \E x \in T : \A y \in T : x <= y
<1> DEFINE R == OpToRel(<, Nat)
<1>1. IsWellFoundedOn(R, Nat)
  BY NatLessThanWellFounded, Zenon
<1>2. \E x \in T : \A y \in T : ~(<<y, x>> \in R)
  <2> HIDE DEF R
  <2> QED BY <1>1, WFMin, Zenon
<1>3. \A x, y \in Nat : y < x => <<y, x>> \in R
  BY Zenon DEF OpToRel
<1>4. PICK x \in T : \A y \in T : ~(<<y, x>> \in R)
  BY <1>2, Zenon
<1>5. \A y \in T : ~(y < x)
  <2> HIDE DEF R
  <2> QED BY <1>3, <1>4, Zenon
<1>6. \A y \in T : x <= y
  BY <1>5, SMTT(30)
<1> QED
  BY <1>6, Zenon

(* The search of bget() from the least recently used end finds the last of    *)
(* the buffers it may take.                                                   *)
LEMMA LastOf ==
  ASSUME NEW F, F \subseteq Bufs, F # {}
  PROVE  (CHOOSE i \in F : \A j \in F : j <= i) \in F
<1> DEFINE B == {n \in Nat : \A j \in F : j <= n}
<1>1. NBUF \in B
  BY BufAssumption, SMTT(30) DEF Bufs
<1>2. PICK m \in B : \A n \in B : m <= n
  BY <1>1, LeastNat, Zenon
<1>3. m \in F
  <2> SUFFICES ASSUME m \notin F PROVE FALSE
    BY Zenon
  <2>1. PICK f \in F : TRUE
    BY Zenon
  <2>2. \A j \in F : j \in Nat /\ j # m /\ j <= m
    BY <1>2, SMTT(30) DEF Bufs
  <2>3. f \in Nat /\ 1 <= f /\ f <= m /\ m \in Nat
    BY <1>2, <2>1, <2>2, SMTT(30) DEF Bufs
  <2>4. m - 1 \in B
    BY <2>2, <2>3, SMTT(30)
  <2> QED BY <1>2, <2>3, <2>4, SMTT(30)
<1>4. \E i \in F : \A j \in F : j <= i
  BY <1>2, <1>3, Zenon
<1> QED
  <2> HIDE DEF B
  <2> QED BY <1>4, Zenon

(* brelse() keeps bcache's list a list of all the buffers, each once. *)
LEMMA FrontPerm ==
  ASSUME TypeOK, MruInv, NEW b \in Bufs
  PROVE  /\ Front(b) \in [Bufs -> Bufs]
         /\ \A i, j \in Bufs : Front(b)[i] = Front(b)[j] => i = j
         /\ \A c \in Bufs : \E i \in Bufs : Front(b)[i] = c
<1> DEFINE k == CHOOSE i \in Bufs : mru[i] = b
<1>1. k \in Bufs /\ mru[k] = b
  BY Zenon DEF MruInv
<1>2. Front(b) = [i \in Bufs |-> IF i = 1 THEN b ELSE IF i <= k THEN mru[i - 1] ELSE mru[i]]
  BY Zenon DEF Front
<1> HIDE DEF k
<1>3. \A i \in Bufs : i <= k /\ i # 1 => i - 1 \in Bufs /\ mru[i - 1] # b
  BY <1>1, BufAssumption, SMTT(30) DEF Bufs, TypeOK
<1>4. \A i \in Bufs : i > k => mru[i] # b
  BY <1>1, BufAssumption, SMTT(30) DEF Bufs, TypeOK
<1>5. Front(b) \in [Bufs -> Bufs]
  BY <1>2, <1>3, SMTT(30) DEF TypeOK
<1>6. ASSUME NEW i \in Bufs, NEW j \in Bufs, Front(b)[i] = Front(b)[j] PROVE i = j
  <2>1. \A x \in Bufs : \/ x = 1 /\ Front(b)[x] = b
                        \/ x # 1 /\ x <= k /\ Front(b)[x] = mru[x - 1]
                        \/ x # 1 /\ x > k /\ Front(b)[x] = mru[x]
    BY <1>1, <1>2, SMTT(30) DEF Bufs
  <2>2. \A x, y \in Bufs : mru[x] = mru[y] => x = y
    BY Zenon DEF TypeOK
  <2>3. \A x \in Bufs : x # 1 => Front(b)[x] # b
    BY <2>1, <1>3, <1>4, Zenon
  <2>4. CASE i = 1 \/ j = 1
    BY <1>6, <2>1, <2>3, <2>4, Zenon
  <2>5. CASE i # 1 /\ j # 1 /\ i <= k /\ j <= k
    <3>1. mru[i - 1] = mru[j - 1] /\ i - 1 \in Bufs /\ j - 1 \in Bufs
      BY <1>6, <2>1, <2>5, <1>1, <1>3, SMTT(30) DEF Bufs
    <3>2. i - 1 = j - 1
      BY <2>2, <3>1, Zenon
    <3> QED BY <3>2, SMTT(30) DEF Bufs
  <2>6. CASE i # 1 /\ j # 1 /\ i > k /\ j > k
    BY <1>6, <2>1, <2>2, <2>6, <1>1, SMTT(30) DEF Bufs
  <2>7. CASE i # 1 /\ j # 1 /\ i <= k /\ j > k
    <3>1. mru[i - 1] = mru[j] /\ i - 1 \in Bufs
      BY <1>6, <2>1, <2>7, <1>1, <1>3, SMTT(30) DEF Bufs
    <3>2. i - 1 = j
      BY <2>2, <3>1, Zenon
    <3> QED BY <3>2, <2>7, <1>1, SMTT(30) DEF Bufs
  <2>8. CASE i # 1 /\ j # 1 /\ i > k /\ j <= k
    <3>1. mru[i] = mru[j - 1] /\ j - 1 \in Bufs
      BY <1>6, <2>1, <2>8, <1>1, <1>3, SMTT(30) DEF Bufs
    <3>2. i = j - 1
      BY <2>2, <3>1, Zenon
    <3> QED BY <3>2, <2>8, <1>1, SMTT(30) DEF Bufs
  <2> QED
    BY <1>1, <2>4, <2>5, <2>6, <2>7, <2>8, SMTT(30) DEF Bufs
<1>7. ASSUME NEW c \in Bufs PROVE \E i \in Bufs : Front(b)[i] = c
  <2>1. PICK i \in Bufs : mru[i] = c
    BY Zenon DEF MruInv
  <2>2. CASE i > k
    BY <1>1, <1>2, <2>1, <2>2, BufAssumption, SMTT(30) DEF Bufs
  <2>3. CASE i = k
    BY <1>1, <1>2, <2>1, <2>3, BufAssumption, SMTT(30) DEF Bufs
  <2>4. CASE i < k
    <3>1. i + 1 \in Bufs /\ i + 1 <= k /\ i + 1 # 1
      BY <1>1, <2>4, BufAssumption, SMTT(30) DEF Bufs
    <3> QED BY <1>2, <2>1, <3>1, SMTT(30) DEF Bufs
  <2> QED
    BY <1>1, <2>2, <2>3, <2>4, SMTT(30) DEF Bufs
<1> QED
  BY <1>5, <1>6, <1>7, Zenon

(* The ways bget() ends: the block is cached, a buffer is recycled for it, or *)
(* there is none to recycle.                                                  *)
Hit(p, n, b) ==
  /\ blockno[b] = n /\ Ref(b)
  /\ want' = [want EXCEPT ![p] = b] /\ Goto(p, "lock")
  /\ UNCHANGED <<bufs, locked, mru, ide, held, panicked>>
Miss(p, n, b) ==
  /\ Recyclable(b) /\ \A c \in Bufs : blockno[c] # n
  /\ blockno' = [blockno EXCEPT ![b] = n]
  /\ valid' = [valid EXCEPT ![b] = FALSE] /\ dirty' = [dirty EXCEPT ![b] = FALSE]
  /\ refcnt' = [refcnt EXCEPT ![b] = 1]
  /\ want' = [want EXCEPT ![p] = b] /\ Goto(p, "lock")
  /\ UNCHANGED <<data, locked, mru, ide, held, panicked>>
NoBuffers == panicked' = TRUE /\ UNCHANGED <<bufs, refcnt, locked, mru, ide, procs>>
CanGet(p, n) == pc[p] = "idle" /\ \A b \in held[p] : blockno[b] < n

(* bget() ends in one of them. *)
LEMMA BGetCases ==
  ASSUME TypeOK, NEW p \in Procs, NEW n \in Blocks, BGet(p, n)
  PROVE  CanGet(p, n) /\ (NoBuffers \/ \E b \in Bufs : Hit(p, n, b) \/ Miss(p, n, b))
<1> DEFINE free == {i \in Bufs : Recyclable(mru[i])}
           i0 == CHOOSE i \in free : \A j \in free : j <= i
<1>1. CanGet(p, n)
  BY Zenon DEF BGet, CanGet
<1>2. CASE \E b \in Cached(n) : /\ Ref(b)
                               /\ want' = [want EXCEPT ![p] = b] /\ Goto(p, "lock")
                               /\ UNCHANGED <<bufs, panicked>>
  BY <1>1, <1>2, Zenon DEF BGet, Cached, Hit
<1>3. CASE /\ Cached(n) = {} /\ free = {} /\ panicked' = TRUE
           /\ UNCHANGED <<bufs, refcnt, pc, want>>
  BY <1>1, <1>3, Zenon DEF BGet, NoBuffers, procs
<1>4. CASE /\ Cached(n) = {} /\ free # {}
           /\ blockno' = [blockno EXCEPT ![mru[i0]] = n]
           /\ valid' = [valid EXCEPT ![mru[i0]] = FALSE]
           /\ dirty' = [dirty EXCEPT ![mru[i0]] = FALSE]
           /\ refcnt' = [refcnt EXCEPT ![mru[i0]] = 1]
           /\ want' = [want EXCEPT ![p] = mru[i0]] /\ Goto(p, "lock")
           /\ UNCHANGED <<data, panicked>>
  <2>1. i0 \in free
    BY <1>4, LastOf, Zenon
  <2> HIDE DEF i0
  <2>2. mru[i0] \in Bufs /\ Recyclable(mru[i0])
    BY <2>1, Zenon DEF TypeOK
  <2>3. \A c \in Bufs : blockno[c] # n
    BY <1>4, Zenon DEF Cached
  <2>4. UNCHANGED <<locked, mru, ide, held>>
    BY Zenon DEF BGet
  <2>5. Miss(p, n, mru[i0])
    BY <1>4, <2>2, <2>3, <2>4, Zenon DEF Miss
  <2> QED BY <1>1, <2>2, <2>5, Zenon
<1> QED
  BY <1>2, <1>3, <1>4, Zenon DEF BGet

(* The steps of the system, bget()'s split into its cases. *)
Steps ==
  \/ \E p \in Procs :
       \/ AcquireSleep(p) \/ BRead(p) \/ IdeWait(p) \/ Unref(p)
       \/ \E b \in Bufs : BRelse(p, b)
       \/ \E b \in Bufs, v \in Vals : LogWrite(p, b, v) \/ BWrite(p, b, v)
       \/ \E n \in Blocks : CanGet(p, n) /\ \E b \in Bufs : Hit(p, n, b) \/ Miss(p, n, b)
  \/ IdeIntr
  \/ NoBuffers
  \/ UNCHANGED vars

(* Every step is one of these. *)
LEMMA NextSteps == TypeOK /\ [Next]_vars => Steps
BY BGetCases, Zenon DEF Next, Step, Call, Halted, Steps
------------------------------------------------------------------------------
(* An update of a function keeps its type. *)
LEMMA ExceptType ==
  ASSUME NEW S, NEW T, NEW f \in [S -> T], NEW x \in S, NEW v \in T
  PROVE  [f EXCEPT ![x] = v] \in [S -> T]
BY Zenon

Labels == {"idle", "lock", "lksleep", "bread", "iosleep", "io", "unref"}

(* Every step keeps the types, and bcache's list complete. *)
LEMMA TypeStep == IInv /\ Steps => TypeOK' /\ MruInv'
<1> SUFFICES ASSUME IInv, Steps PROVE TypeOK' /\ MruInv'
  BY Zenon
<1>0. TypeOK /\ MruInv /\ QueueInv /\ BlockInv
  BY Zenon DEF IInv
<1>a. /\ blockno \in [Bufs -> Blocks \cup {Unused}] /\ data \in [Bufs -> Vals]
      /\ refcnt \in [Bufs -> Nat] /\ disk \in [Blocks -> Vals] /\ idequeue \in Seq(Bufs)
      /\ pc \in [Procs -> Labels] /\ want \in [Procs -> Bufs] /\ held \in [Procs -> SUBSET Bufs]
  BY <1>0, Zenon DEF TypeOK, Labels
<1>b. /\ valid \in [Bufs -> BOOLEAN] /\ dirty \in [Bufs -> BOOLEAN] /\ locked \in [Bufs -> BOOLEAN]
      /\ busy \in BOOLEAN /\ panicked \in BOOLEAN
  BY <1>0, Zenon DEF TypeOK
<1>c. ASSUME mru' = mru PROVE MruInv'
  BY <1>0, <1>c, Zenon DEF MruInv
<1>d. ASSUME /\ blockno' \in [Bufs -> Blocks \cup {Unused}] /\ data' \in [Bufs -> Vals]
             /\ refcnt' \in [Bufs -> Nat] /\ disk' \in [Blocks -> Vals] /\ idequeue' \in Seq(Bufs)
             /\ pc' \in [Procs -> Labels] /\ want' \in [Procs -> Bufs]
             /\ held' \in [Procs -> SUBSET Bufs]
             /\ valid' \in [Bufs -> BOOLEAN] /\ dirty' \in [Bufs -> BOOLEAN]
             /\ locked' \in [Bufs -> BOOLEAN]
             /\ busy' \in BOOLEAN /\ panicked' \in BOOLEAN /\ mru' = mru
      PROVE  TypeOK' /\ MruInv'
  BY <1>0, <1>c, <1>d, Zenon DEF TypeOK, Labels
<1>e. ASSUME NEW p \in Procs, NEW l \in Labels PROVE [pc EXCEPT ![p] = l] \in [Procs -> Labels]
  BY <1>a, ExceptType, Zenon
<1>f. \A p \in Procs : want[p] \in Bufs
  BY <1>a, Zenon
<1>g. ASSUME NEW p \in Procs
      PROVE  [held EXCEPT ![p] = @ \cup {want[p]}] \in [Procs -> SUBSET Bufs]
  BY <1>a, <1>f, Zenon
<1>1. ASSUME NEW p \in Procs, AcquireSleep(p) PROVE TypeOK' /\ MruInv'
  <2>1. pc' \in [Procs -> Labels]
    BY <1>1, <1>e, SMTT(30) DEF AcquireSleep, Goto, Labels
  <2>2. locked' \in [Bufs -> BOOLEAN]
    <3>1. CASE locked' = locked
      BY <1>b, <3>1, Zenon
    <3>2. CASE locked' = [locked EXCEPT ![want[p]] = TRUE]
      <4>1. [locked EXCEPT ![want[p]] = TRUE] \in [Bufs -> BOOLEAN]
        BY <1>b, <1>f, ExceptType, Zenon
      <4> QED BY <3>2, <4>1, Zenon
    <3> QED BY <1>1, <3>1, <3>2, Zenon DEF AcquireSleep
  <2> QED
    BY <1>1, <1>a, <1>b, <1>d, <2>1, <2>2, Zenon DEF AcquireSleep, bufs, ide
<1>2. ASSUME NEW p \in Procs, BRead(p) PROVE TypeOK' /\ MruInv'
  <2>1. pc' \in [Procs -> Labels]
    BY <1>2, <1>e, SMTT(30) DEF BRead, IdeRw, Goto, Labels
  <2>2. held' \in [Procs -> SUBSET Bufs]
    BY <1>2, <1>a, <1>g, Zenon DEF BRead
  <2>3. idequeue' \in Seq(Bufs) /\ want[p] \in Bufs
    <3>1. CASE idequeue' = idequeue
      BY <3>1, <1>a, <1>f, Zenon
    <3>2. CASE idequeue' = Append(idequeue, want[p])
      BY <3>2, <1>a, <1>f, SMTT(30)
    <3> QED BY <1>2, <3>1, <3>2, Zenon DEF BRead, IdeRw, ide
  <2>4. disk' \in [Blocks -> Vals]
    <3>1. blockno[want[p]] \in Blocks /\ data'[want[p]] \in Vals
      BY <1>0, <1>2, <1>a, Zenon DEF BRead, bufs, BlockInv, Uses, Unused
    <3> QED
      BY <1>2, <1>a, <3>1, Zenon DEF BRead, IdeRw, IdeStart, ide
  <2>5. busy' \in BOOLEAN
    BY <1>2, <1>b, Zenon DEF BRead, IdeRw, IdeStart, ide
  <2> QED
    BY <1>2, <1>a, <1>b, <1>d, <2>1, <2>2, <2>3, <2>4, <2>5, Zenon DEF BRead, bufs
<1>3. ASSUME NEW p \in Procs, IdeWait(p) PROVE TypeOK' /\ MruInv'
  <2>1. pc' \in [Procs -> Labels]
    BY <1>3, <1>e, SMTT(30) DEF IdeWait, Goto, Labels
  <2>2. held' \in [Procs -> SUBSET Bufs]
    BY <1>3, <1>a, <1>g, Zenon DEF IdeWait
  <2> QED
    BY <1>3, <1>a, <1>b, <1>d, <2>1, <2>2, Zenon DEF IdeWait, bufs, ide
<1>4. ASSUME NEW p \in Procs, Unref(p) PROVE TypeOK' /\ MruInv'
  <2>1. pc' \in [Procs -> Labels]
    BY <1>4, <1>e, Zenon DEF Unref, Goto, Labels
  <2>2. refcnt' \in [Bufs -> Nat]
    <3>1. want[p] \in Bufs /\ refcnt[want[p]] \in Nat \ {0}
      <4>1. want[p] \in Bufs /\ refcnt[want[p]] = Cardinality(Users(want[p]))
        BY <1>a, Zenon DEF IInv, RefInv
      <4>2. p \in Users(want[p]) /\ IsFiniteSet(Users(want[p]))
        BY <1>4, BufAssumption, FS_Subset, Zenon DEF Unref, Users
      <4> QED BY <4>1, <4>2, FS_EmptySet, FS_CardinalityType, Zenon
    <3> QED
      BY <1>4, <1>a, <3>1, SMTT(30) DEF Unref
  <2>3. /\ mru' \in [Bufs -> Bufs] /\ \A i, j \in Bufs : mru'[i] = mru'[j] => i = j
        /\ \A b \in Bufs : \E i \in Bufs : mru'[i] = b
    <3>1. CASE mru' = Front(want[p])
      <4>1. want[p] \in Bufs
        BY <1>f, Zenon
      <4> DEFINE w == Front(want[p])
      <4>2. /\ w \in [Bufs -> Bufs] /\ \A i, j \in Bufs : w[i] = w[j] => i = j
            /\ \A b \in Bufs : \E i \in Bufs : w[i] = b
        BY <1>0, <4>1, FrontPerm, Zenon
      <4>3. mru' = w
        BY <3>1, Zenon
      <4> HIDE DEF w
      <4> QED BY <4>2, <4>3, Zenon
    <3>2. CASE mru' = mru
      BY <1>0, <3>2, Zenon DEF TypeOK, MruInv
    <3> QED BY <1>4, <3>1, <3>2, Zenon DEF Unref
  <2> QED
    BY <1>4, <1>a, <1>b, <2>1, <2>2, <2>3, Zenon DEF Unref, bufs, ide, TypeOK, MruInv, Labels
<1>5. ASSUME NEW p \in Procs, NEW b \in Bufs, BRelse(p, b) PROVE TypeOK' /\ MruInv'
  <2>1. pc' \in [Procs -> Labels]
    BY <1>5, <1>a, Zenon DEF BRelse, Wake, Labels
  <2>2. locked' \in [Bufs -> BOOLEAN]
    BY <1>5, <1>b, ExceptType, Zenon DEF BRelse
  <2>3. held' \in [Procs -> SUBSET Bufs] /\ want' \in [Procs -> Bufs]
    BY <1>5, <1>a, Zenon DEF BRelse
  <2> QED
    BY <1>5, <1>a, <1>b, <1>d, <2>1, <2>2, <2>3, Zenon DEF BRelse, bufs, ide
<1>6. ASSUME NEW p \in Procs, NEW b \in Bufs, NEW v \in Vals, LogWrite(p, b, v)
      PROVE TypeOK' /\ MruInv'
  <2>1. data' \in [Bufs -> Vals] /\ dirty' \in [Bufs -> BOOLEAN]
    BY <1>6, <1>a, <1>b, ExceptType, Zenon DEF LogWrite
  <2> QED
    BY <1>6, <1>a, <1>b, <1>d, <2>1, Zenon DEF LogWrite, ide, procs
<1>7. ASSUME NEW p \in Procs, NEW b \in Bufs, NEW v \in Vals, BWrite(p, b, v)
      PROVE TypeOK' /\ MruInv'
  <2>1. data' \in [Bufs -> Vals] /\ dirty' \in [Bufs -> BOOLEAN]
    BY <1>7, <1>a, <1>b, ExceptType, Zenon DEF BWrite
  <2>2. pc' \in [Procs -> Labels] /\ want' \in [Procs -> Bufs]
    BY <1>7, <1>a, <1>e, Zenon DEF BWrite, IdeRw, Goto, Labels
  <2>3. idequeue' \in Seq(Bufs)
    BY <1>7, <1>a, SMTT(30) DEF BWrite, IdeRw
  <2>4. disk' \in [Blocks -> Vals]
    <3>1. blockno[b] \in Blocks /\ data'[b] \in Vals
      BY <1>0, <1>7, <1>a, <2>1, Zenon DEF BWrite, BlockInv, Uses, Unused
    <3> QED
      BY <1>7, <1>a, <3>1, Zenon DEF BWrite, IdeRw, IdeStart
  <2>5. busy' \in BOOLEAN
    BY <1>7, <1>b, Zenon DEF BWrite, IdeRw, IdeStart
  <2> QED
    BY <1>7, <1>a, <1>b, <1>d, <2>1, <2>2, <2>3, <2>4, <2>5, Zenon DEF BWrite
<1>8. ASSUME NEW p \in Procs, NEW n \in Blocks, NEW b \in Bufs, Hit(p, n, b) \/ Miss(p, n, b)
      PROVE TypeOK' /\ MruInv'
  <2>1. pc' = [pc EXCEPT ![p] = "lock"] /\ want' = [want EXCEPT ![p] = b]
    BY <1>8, Zenon DEF Hit, Miss, Goto
  <2>2. pc' \in [Procs -> Labels] /\ want' \in [Procs -> Bufs]
    BY <2>1, <1>a, <1>e, Zenon DEF Labels
  <2>4. refcnt' \in [Bufs -> Nat] /\ blockno' \in [Bufs -> Blocks \cup {Unused}]
    <3>1. CASE Hit(p, n, b)
      BY <3>1, <1>a, SMTT(30) DEF Hit, Ref, bufs
    <3>2. CASE Miss(p, n, b)
      BY <3>2, <1>a, Zenon DEF Miss
    <3> QED BY <1>8, <3>1, <3>2, Zenon
  <2>3. valid' \in [Bufs -> BOOLEAN] /\ dirty' \in [Bufs -> BOOLEAN]
    BY <1>8, <1>b, ExceptType, Zenon DEF Hit, Miss, bufs
  <2> QED
    BY <1>8, <1>a, <1>b, <1>d, <2>2, <2>3, <2>4, Zenon DEF Hit, Miss, bufs, ide
<1>9. ASSUME IdeIntr PROVE TypeOK' /\ MruInv'
  <2> DEFINE b == Head(idequeue)
  <2>1. idequeue # <<>> /\ b \in Bufs /\ idequeue' \in Seq(Bufs)
    BY <1>9, <1>0, <1>a, SMTT(30) DEF IdeIntr, QueueInv
  <2>2. \A i \in 1..Len(idequeue) : blockno[idequeue[i]] \in Blocks
    BY <1>0, <1>a, SMTT(30) DEF QueueInv, BlockInv, Uses, Unused
  <2>3. blockno[b] \in Blocks
    BY <2>1, <2>2, <1>a, SMTT(30)
  <2>4. data' \in [Bufs -> Vals]
    BY <1>9, <1>a, <2>1, <2>3, Zenon DEF IdeIntr
  <2>5. valid' \in [Bufs -> BOOLEAN] /\ dirty' \in [Bufs -> BOOLEAN]
    BY <1>9, <1>b, <2>1, ExceptType, Zenon DEF IdeIntr
  <2>6. pc' \in [Procs -> Labels]
    BY <1>9, <1>a, Zenon DEF IdeIntr, Wake, Labels
  <2>7. disk' \in [Blocks -> Vals] /\ busy' \in BOOLEAN
    <3>1. CASE idequeue' = <<>>
      BY <1>9, <1>a, <3>1, Zenon DEF IdeIntr, StartNext
    <3>2. CASE idequeue' # <<>>
      <4>1. Head(idequeue') = idequeue[2] /\ 2 \in 1..Len(idequeue)
        BY <1>9, <1>a, <2>1, <3>2, SMTT(30) DEF IdeIntr
      <4>2. blockno[Head(idequeue')] \in Blocks /\ data'[Head(idequeue')] \in Vals
        BY <4>1, <2>2, <2>4, <1>a, SMTT(30)
      <4> QED
        BY <1>9, <1>a, <3>2, <4>2, Zenon DEF IdeIntr, StartNext, IdeStart
    <3> QED BY <3>1, <3>2, Zenon
  <2> QED
    BY <1>9, <1>a, <1>b, <1>d, <2>1, <2>4, <2>5, <2>6, <2>7, Zenon DEF IdeIntr
<1>10. CASE NoBuffers \/ UNCHANGED vars
  BY <1>a, <1>b, <1>d, <1>10, Zenon DEF NoBuffers, vars, bufs, ide, procs
<1> QED
  BY <1>1, <1>2, <1>3, <1>4, <1>5, <1>6, <1>7, <1>8, <1>9, <1>10, Zenon DEF Steps
------------------------------------------------------------------------------
(* How the steps change who uses a buffer and who has its lock. *)
SameUses == \A q \in Procs, c \in Bufs : Uses(q, c)' <=> Uses(q, c)
SameOwners == \A q \in Procs, c \in Bufs : Owns(q, c)' <=> Owns(q, c)
NowUses(p, b) == \A q \in Procs, c \in Bufs : Uses(q, c)' <=> Uses(q, c) \/ (q = p /\ c = b)
NowOwns(p, b) == \A q \in Procs, c \in Bufs : Owns(q, c)' <=> Owns(q, c) \/ (q = p /\ c = b)
NoMoreUses(p, b) == \A q \in Procs, c \in Bufs : Uses(q, c)' <=> Uses(q, c) /\ ~(q = p /\ c = b)
NoMoreOwns(p, b) == \A q \in Procs, c \in Bufs : Owns(q, c)' <=> Owns(q, c) /\ ~(q = p /\ c = b)

(* A buffer without references has no user. *)
LEMMA NoUser ==
  ASSUME IInv, NEW b \in Bufs, refcnt[b] = 0
  PROVE  \A p \in Procs : ~Uses(p, b)
<1>1. IsFiniteSet(Users(b))
  BY BufAssumption, FS_Subset, Zenon DEF Users
<1>2. Users(b) = {}
  BY <1>1, FS_EmptySet, Zenon DEF IInv, RefInv
<1> QED
  BY <1>2, Zenon DEF Users, Uses

(* acquiresleep() takes a free lock or sleeps; it refers to nothing new. *)
LEMMA AcquireEffect ==
  ASSUME IInv, NEW p \in Procs, AcquireSleep(p)
  PROVE  /\ SameUses
         /\ locked[want[p]] => SameOwners
         /\ ~locked[want[p]] => NowOwns(p, want[p])
<1>1. pc \in [Procs -> Labels] /\ want \in [Procs -> Bufs]
  BY Zenon DEF IInv, TypeOK, Labels
<1>2. /\ pc[p] = "lock" /\ held' = held /\ want' = want
      /\ locked[want[p]] => pc' = [pc EXCEPT ![p] = "lksleep"]
      /\ ~locked[want[p]] => pc' = [pc EXCEPT ![p] = "bread"]
  BY Zenon DEF AcquireSleep, Goto
<1> QED
  BY <1>1, <1>2, Zenon DEF SameUses, SameOwners, NowOwns, Uses, Owns, Busy

(* bread() and the end of iderw() change neither who refers nor who locks. *)
LEMMA ReadEffect ==
  ASSUME IInv, NEW p \in Procs, BRead(p) \/ IdeWait(p)
  PROVE  SameUses /\ SameOwners
<1>1. pc \in [Procs -> Labels] /\ want \in [Procs -> Bufs] /\ held \in [Procs -> SUBSET Bufs]
  BY Zenon DEF IInv, TypeOK, Labels
<1>2. /\ pc[p] \in {"bread", "io"} /\ want' = want
      /\ \/ pc' = [pc EXCEPT ![p] = "idle"] /\ held' = [held EXCEPT ![p] = @ \cup {want[p]}]
         \/ pc' = [pc EXCEPT ![p] = "iosleep"] /\ held' = held
  BY Zenon DEF BRead, IdeRw, IdeWait, Goto
<1> QED
  BY <1>1, <1>2, SMTT(30) DEF SameUses, SameOwners, Uses, Owns, Busy

(* The second half of brelse() drops the one reference. *)
LEMMA UnrefEffect ==
  ASSUME IInv, NEW p \in Procs, Unref(p)
  PROVE  Uses(p, want[p]) /\ NoMoreUses(p, want[p]) /\ SameOwners
<1>1. /\ pc \in [Procs -> Labels] /\ want \in [Procs -> Bufs] /\ held \in [Procs -> SUBSET Bufs]
      /\ want[p] \notin held[p]
  BY Zenon DEF IInv, TypeOK, Labels, LockInv, Unref
<1>2. pc[p] = "unref" /\ want' = want /\ pc' = [pc EXCEPT ![p] = "idle"] /\ held' = held
  BY Zenon DEF Unref, Goto
<1> QED
  BY <1>1, <1>2, Zenon DEF NoMoreUses, SameOwners, Uses, Owns, Busy

(* releasesleep() gives up the one lock and keeps the reference. *)
LEMMA RelseEffect ==
  ASSUME IInv, NEW p \in Procs, NEW b \in Bufs, BRelse(p, b)
  PROVE  Owns(p, b) /\ SameUses /\ NoMoreOwns(p, b)
<1>1. /\ pc \in [Procs -> Labels] /\ want \in [Procs -> Bufs] /\ held \in [Procs -> SUBSET Bufs]
  BY Zenon DEF IInv, TypeOK, Labels
<1>2. /\ pc[p] = "idle" /\ b \in held[p] /\ want' = [want EXCEPT ![p] = b]
      /\ held' = [held EXCEPT ![p] = @ \ {b}]
      /\ \A q \in Procs : pc'[q] = IF q = p THEN "unref"
                                  ELSE IF pc[q] = "lksleep" /\ want[q] = b THEN "lock" ELSE pc[q]
  BY <1>1, Zenon DEF BRelse, Wake
<1>3. SameUses
  BY <1>1, <1>2, Zenon DEF SameUses, Uses
<1>4. Owns(p, b) /\ NoMoreOwns(p, b)
  BY <1>1, <1>2, Zenon DEF NoMoreOwns, Owns, Busy
<1> QED
  BY <1>3, <1>4, Zenon

(* log_write() and bwrite() are of a buffer that is locked, and it stays so. *)
LEMMA WriteEffect ==
  ASSUME IInv, NEW p \in Procs, NEW b \in Bufs, NEW v \in Vals, LogWrite(p, b, v) \/ BWrite(p, b, v)
  PROVE  Owns(p, b) /\ SameUses /\ SameOwners
<1>1. /\ pc \in [Procs -> Labels] /\ want \in [Procs -> Bufs] /\ held \in [Procs -> SUBSET Bufs]
  BY Zenon DEF IInv, TypeOK, Labels
<1>2. CASE LogWrite(p, b, v)
  BY <1>2, Zenon DEF LogWrite, procs, SameUses, SameOwners, Uses, Owns
<1>3. CASE BWrite(p, b, v)
  <2>1. /\ pc[p] = "idle" /\ b \in held[p] /\ want' = [want EXCEPT ![p] = b]
        /\ pc' = [pc EXCEPT ![p] = "iosleep"] /\ held' = held
    BY <1>3, Zenon DEF BWrite, IdeRw, Goto
  <2> QED
    BY <1>1, <2>1, Zenon DEF SameUses, SameOwners, Uses, Owns, Busy
<1> QED
  BY <1>2, <1>3, Zenon

(* bget() takes a reference to a buffer the caller had none of. *)
LEMMA GetEffect ==
  ASSUME IInv, NEW p \in Procs, NEW n \in Blocks, NEW b \in Bufs, CanGet(p, n),
         Hit(p, n, b) \/ Miss(p, n, b)
  PROVE  ~Uses(p, b) /\ NowUses(p, b) /\ SameOwners
<1>1. /\ pc \in [Procs -> Labels] /\ want \in [Procs -> Bufs] /\ held \in [Procs -> SUBSET Bufs]
      /\ blockno \in [Bufs -> Blocks \cup {Unused}]
  BY Zenon DEF IInv, TypeOK, Labels
<1>2. b \notin held[p]
  <2>1. CASE Hit(p, n, b)
    BY <2>1, BufAssumption, SMTT(30) DEF Hit, CanGet
  <2>2. CASE Miss(p, n, b)
    BY <2>2, NoUser, Zenon DEF Miss, Recyclable, Uses
  <2> QED BY <2>1, <2>2, Zenon
<1>3. /\ pc[p] = "idle" /\ want' = [want EXCEPT ![p] = b] /\ pc' = [pc EXCEPT ![p] = "lock"]
      /\ held' = held
  BY Zenon DEF Hit, Miss, CanGet, Goto
<1> QED
  BY <1>1, <1>2, <1>3, Zenon DEF NowUses, SameOwners, Uses, Owns, Busy

(* ideintr() wakes sleepers, which keep what they have. *)
LEMMA IntrEffect ==
  ASSUME IInv, IdeIntr
  PROVE  SameUses /\ SameOwners
<1>1. pc \in [Procs -> Labels]
  BY Zenon DEF IInv, TypeOK, Labels
<1>2. /\ held' = held /\ want' = want
      /\ \A q \in Procs : \/ pc[q] = "iosleep" /\ pc'[q] = "io"
                          \/ pc'[q] = pc[q]
  BY Zenon DEF IdeIntr, Wake
<1> QED
  BY <1>1, <1>2, Zenon DEF SameUses, SameOwners, Uses, Owns, Busy

(* A panic and a stutter change nothing here. *)
LEMMA IdleEffect ==
  ASSUME NoBuffers \/ UNCHANGED vars
  PROVE  SameUses /\ SameOwners
BY Zenon DEF NoBuffers, vars, procs, SameUses, SameOwners, Uses, Owns
------------------------------------------------------------------------------
(* refcnt counts the users of a buffer, before and after every step. *)
LEMMA RefStep == IInv /\ Steps => RefInv'
<1> SUFFICES ASSUME IInv, Steps, NEW c \in Bufs PROVE (refcnt[c] = Cardinality(Users(c)))'
  BY Zenon DEF RefInv
<1>0. /\ refcnt[c] = Cardinality(Users(c)) /\ refcnt \in [Bufs -> Nat] /\ want \in [Procs -> Bufs]
      /\ IsFiniteSet(Users(c))
  BY BufAssumption, FS_Subset, Zenon DEF IInv, RefInv, TypeOK, Users
<1>1. ASSUME SameUses PROVE Users(c)' = Users(c)
  BY <1>1, Zenon DEF SameUses, Uses, Users
<1>2. ASSUME SameUses, refcnt' = refcnt PROVE (refcnt[c] = Cardinality(Users(c)))'
  BY <1>0, <1>1, <1>2, Zenon
<1>3. ASSUME NEW p \in Procs, NEW n \in Blocks, NEW b \in Bufs, CanGet(p, n),
             Hit(p, n, b) \/ Miss(p, n, b)
      PROVE  (refcnt[c] = Cardinality(Users(c)))'
  <2>1. ~Uses(p, b) /\ NowUses(p, b)
    BY <1>3, GetEffect, Zenon
  <2>2. /\ refcnt'[b] = refcnt[b] + 1
        /\ c # b => refcnt'[c] = refcnt[c]
    BY <1>0, <1>3, SMTT(30) DEF Hit, Miss, Ref, Recyclable
  <2>3. CASE c = b
    <3>1. Users(c)' = Users(c) \cup {p} /\ p \notin Users(c)
      BY <2>1, <2>3, Zenon DEF NowUses, Uses, Users
    <3>2. Cardinality(Users(c) \cup {p}) = Cardinality(Users(c)) + 1
      BY <1>0, <3>1, FS_AddElement, Zenon
    <3> QED BY <1>0, <2>2, <2>3, <3>1, <3>2, Zenon
  <2>4. CASE c # b
    <3>1. Users(c)' = Users(c)
      BY <2>1, <2>4, Zenon DEF NowUses, Uses, Users
    <3> QED BY <1>0, <2>2, <2>4, <3>1, Zenon
  <2> QED BY <2>3, <2>4, Zenon
<1>4. ASSUME NEW p \in Procs, Unref(p) PROVE (refcnt[c] = Cardinality(Users(c)))'
  <2> DEFINE b == want[p]
  <2>1. b \in Bufs /\ Uses(p, b) /\ NoMoreUses(p, b)
    BY <1>0, <1>4, UnrefEffect, Zenon
  <2>2. /\ refcnt'[b] = refcnt[b] - 1
        /\ c # b => refcnt'[c] = refcnt[c]
    BY <1>0, <1>4, <2>1, Zenon DEF Unref
  <2>3. CASE c = b
    <3>1. Users(c)' = Users(c) \ {p} /\ p \in Users(c)
      BY <2>1, <2>3, Zenon DEF NoMoreUses, Uses, Users
    <3>2. Cardinality(Users(c) \ {p}) = Cardinality(Users(c)) - 1
      BY <1>0, <3>1, FS_RemoveElement, Zenon
    <3> QED BY <1>0, <2>2, <2>3, <3>1, <3>2, Zenon
  <2>4. CASE c # b
    <3>1. Users(c)' = Users(c)
      BY <2>1, <2>4, Zenon DEF NoMoreUses, Uses, Users
    <3> QED BY <1>0, <2>2, <2>4, <3>1, Zenon
  <2> QED BY <2>3, <2>4, Zenon
<1>5. ASSUME NEW p \in Procs, AcquireSleep(p) PROVE SameUses /\ refcnt' = refcnt
  BY <1>5, AcquireEffect, Zenon DEF AcquireSleep
<1>6. ASSUME NEW p \in Procs, BRead(p) \/ IdeWait(p) PROVE SameUses /\ refcnt' = refcnt
  BY <1>6, ReadEffect, Zenon DEF BRead, IdeWait
<1>7. ASSUME NEW p \in Procs, NEW b \in Bufs, BRelse(p, b) PROVE SameUses /\ refcnt' = refcnt
  BY <1>7, RelseEffect, Zenon DEF BRelse
<1>8. ASSUME NEW p \in Procs, NEW b \in Bufs, NEW v \in Vals, LogWrite(p, b, v) \/ BWrite(p, b, v)
      PROVE  SameUses /\ refcnt' = refcnt
  BY <1>8, WriteEffect, Zenon DEF LogWrite, BWrite
<1>9. ASSUME IdeIntr PROVE SameUses /\ refcnt' = refcnt
  BY <1>9, IntrEffect, Zenon DEF IdeIntr
<1>10. ASSUME NoBuffers \/ UNCHANGED vars PROVE SameUses /\ refcnt' = refcnt
  BY <1>10, IdleEffect, Zenon DEF NoBuffers, vars
<1> QED
  BY <1>2, <1>3, <1>4, <1>5, <1>6, <1>7, <1>8, <1>9, <1>10, Zenon DEF Steps

(* A sleep lock has one owner at a time, and its sleepers an owner to wake    *)
(* them.                                                                      *)
LEMMA LockStep == IInv /\ Steps => LockInv'
<1> SUFFICES ASSUME IInv, Steps PROVE LockInv'
  BY Zenon
<1>0. /\ pc \in [Procs -> Labels] /\ want \in [Procs -> Bufs] /\ held \in [Procs -> SUBSET Bufs]
      /\ locked \in [Bufs -> BOOLEAN] /\ LockInv
  BY Zenon DEF IInv, TypeOK, Labels
<1> DEFINE Seek(q) == pc[q] \in {"lock", "lksleep", "bread", "unref"} => want[q] \notin held[q]
           Sleep(q) == pc[q] = "lksleep" => locked[want[q]]
           OneOwner == \A b \in Bufs : \A p, q \in Procs : Owns(p, b) /\ Owns(q, b) => p = q
           Locked == \A b \in Bufs : locked[b] <=> \E p \in Procs : Owns(p, b)
<1>a. LockInv <=> OneOwner /\ Locked /\ \A q \in Procs : Seek(q) /\ Sleep(q)
  BY Zenon DEF LockInv
<1>b. ASSUME OneOwner', Locked', \A q \in Procs : Seek(q)' /\ Sleep(q)' PROVE LockInv'
  BY <1>b, Zenon DEF LockInv
<1>c. ASSUME SameOwners, locked' = locked PROVE OneOwner' /\ Locked'
  <2>1. OneOwner'
    BY <1>0, <1>a, <1>c, Zenon DEF SameOwners
  <2>2. Locked'
    BY <1>0, <1>a, <1>c, Zenon DEF SameOwners
  <2> QED BY <2>1, <2>2, Zenon
<1>1. ASSUME NEW p \in Procs, AcquireSleep(p) PROVE LockInv'
  <2>1. want[p] \in Bufs /\ want' = want /\ held' = held /\ pc[p] = "lock"
    BY <1>0, <1>1, Zenon DEF AcquireSleep
  <2>2. CASE locked[want[p]]
    <3>1. locked' = locked /\ pc' = [pc EXCEPT ![p] = "lksleep"]
      BY <1>1, <2>2, Zenon DEF AcquireSleep, Goto
    <3>2. OneOwner' /\ Locked'
      BY <1>1, <1>c, <2>2, <3>1, AcquireEffect, Zenon
    <3>3. \A q \in Procs : Seek(q)' /\ Sleep(q)'
      BY <1>0, <1>a, <2>1, <2>2, <3>1, Zenon
    <3> QED BY <1>b, <3>2, <3>3, Zenon
  <2>3. CASE ~locked[want[p]]
    <3>1. locked' = [locked EXCEPT ![want[p]] = TRUE] /\ pc' = [pc EXCEPT ![p] = "bread"]
      BY <1>1, <2>3, Zenon DEF AcquireSleep, Goto
    <3>2. NowOwns(p, want[p])
      BY <1>1, <2>3, AcquireEffect, Zenon
    <3>3. \A q \in Procs : ~Owns(q, want[p])
      BY <1>0, <1>a, <2>1, <2>3, Zenon
    <3>4. OneOwner'
      BY <1>0, <1>a, <2>1, <3>2, <3>3, SMTT(30) DEF NowOwns
    <3>5. Locked'
      BY <1>0, <1>a, <2>1, <3>1, <3>2, <3>3, Zenon DEF NowOwns
    <3>6. \A q \in Procs : Seek(q)' /\ Sleep(q)'
      BY <1>0, <1>a, <2>1, <3>1, Zenon
    <3> QED BY <1>b, <3>4, <3>5, <3>6, Zenon
  <2> QED BY <2>2, <2>3, Zenon
<1>2. ASSUME NEW p \in Procs, BRead(p) \/ IdeWait(p) PROVE LockInv'
  <2>1. /\ want' = want /\ locked' = locked
        /\ \/ pc' = [pc EXCEPT ![p] = "idle"] /\ held' = [held EXCEPT ![p] = @ \cup {want[p]}]
           \/ pc' = [pc EXCEPT ![p] = "iosleep"] /\ held' = held
    BY <1>2, Zenon DEF BRead, IdeRw, IdeWait, Goto
  <2>2. OneOwner' /\ Locked'
    BY <1>2, <1>c, <2>1, ReadEffect, Zenon
  <2>3. \A q \in Procs : Seek(q)' /\ Sleep(q)'
    BY <1>0, <1>a, <2>1, SMTT(30)
  <2> QED BY <1>b, <2>2, <2>3, Zenon
<1>3. ASSUME NEW p \in Procs, Unref(p) PROVE LockInv'
  <2>1. want' = want /\ pc' = [pc EXCEPT ![p] = "idle"] /\ held' = held /\ locked' = locked
    BY <1>3, Zenon DEF Unref, Goto
  <2>2. OneOwner' /\ Locked'
    BY <1>3, <1>c, <2>1, UnrefEffect, Zenon
  <2>3. \A q \in Procs : Seek(q)' /\ Sleep(q)'
    BY <1>0, <1>a, <2>1, Zenon
  <2> QED BY <1>b, <2>2, <2>3, Zenon
<1>4. ASSUME NEW p \in Procs, NEW b \in Bufs, BRelse(p, b) PROVE LockInv'
  <2>1. /\ want' = [want EXCEPT ![p] = b] /\ held' = [held EXCEPT ![p] = @ \ {b}]
        /\ locked' = [locked EXCEPT ![b] = FALSE]
        /\ \A q \in Procs : pc'[q] = IF q = p THEN "unref"
                                    ELSE IF pc[q] = "lksleep" /\ want[q] = b THEN "lock" ELSE pc[q]
    BY <1>0, <1>4, Zenon DEF BRelse, Wake
  <2>2. Owns(p, b) /\ NoMoreOwns(p, b)
    BY <1>4, RelseEffect, Zenon
  <2>3. OneOwner'
    BY <1>0, <1>a, <2>2, Zenon DEF NoMoreOwns
  <2>4. Locked'
    BY <1>0, <1>a, <2>1, <2>2, SMTT(30) DEF NoMoreOwns
  <2>5. \A q \in Procs : Seek(q)' /\ Sleep(q)'
    BY <1>0, <1>a, <2>1, Zenon
  <2> QED BY <1>b, <2>3, <2>4, <2>5, Zenon
<1>5. ASSUME NEW p \in Procs, NEW b \in Bufs, NEW v \in Vals, LogWrite(p, b, v) \/ BWrite(p, b, v)
      PROVE  LockInv'
  <2>1. locked' = locked
    BY <1>5, Zenon DEF LogWrite, BWrite
  <2>2. OneOwner' /\ Locked'
    BY <1>5, <1>c, <2>1, WriteEffect, Zenon
  <2>3. \/ UNCHANGED <<pc, want, held>>
        \/ want' = [want EXCEPT ![p] = b] /\ pc' = [pc EXCEPT ![p] = "iosleep"] /\ held' = held
    BY <1>5, Zenon DEF LogWrite, BWrite, IdeRw, Goto, procs
  <2>4. \A q \in Procs : Seek(q)' /\ Sleep(q)'
    BY <1>0, <1>a, <2>1, <2>3, SMTT(30)
  <2> QED BY <1>b, <2>2, <2>4, Zenon
<1>6. ASSUME NEW p \in Procs, NEW n \in Blocks, NEW b \in Bufs, CanGet(p, n),
             Hit(p, n, b) \/ Miss(p, n, b)
      PROVE  LockInv'
  <2>1. /\ locked' = locked /\ held' = held
        /\ want' = [want EXCEPT ![p] = b] /\ pc' = [pc EXCEPT ![p] = "lock"]
    BY <1>6, Zenon DEF Hit, Miss, Goto
  <2>2. SameOwners /\ ~Uses(p, b)
    BY <1>6, GetEffect, Zenon
  <2>3. \A q \in Procs : Seek(q)' /\ Sleep(q)'
    BY <1>0, <1>a, <2>1, <2>2, Zenon DEF Uses
  <2> QED BY <1>b, <1>c, <2>1, <2>2, <2>3, Zenon
<1>7. ASSUME IdeIntr PROVE LockInv'
  <2>1. /\ held' = held /\ want' = want /\ locked' = locked
        /\ \A q \in Procs : \/ pc[q] = "iosleep" /\ pc'[q] = "io"
                            \/ pc'[q] = pc[q]
    BY <1>7, Zenon DEF IdeIntr, Wake
  <2>2. OneOwner' /\ Locked'
    BY <1>7, <1>c, <2>1, IntrEffect, Zenon
  <2>3. \A q \in Procs : Seek(q)' /\ Sleep(q)'
    BY <1>0, <1>a, <2>1, Zenon
  <2> QED BY <1>b, <2>2, <2>3, Zenon
<1>8. CASE NoBuffers \/ UNCHANGED vars
  <2>1. UNCHANGED <<pc, want, held, locked>>
    BY <1>8, Zenon DEF NoBuffers, vars, procs
  <2> QED
    BY <1>0, <2>1, SMTT(30) DEF LockInv, Owns
<1> QED
  BY <1>1, <1>2, <1>3, <1>4, <1>5, <1>6, <1>7, <1>8, Zenon DEF Steps

(* A block has one buffer, recycled only when it has no user, and a buffer    *)
(* with contents is some block's.                                             *)
LEMMA BlockStep == IInv /\ Steps => BlockInv'
<1> SUFFICES ASSUME IInv, Steps PROVE BlockInv'
  BY Zenon
<1>0. /\ blockno \in [Bufs -> Blocks \cup {Unused}] /\ want \in [Procs -> Bufs]
      /\ held \in [Procs -> SUBSET Bufs] /\ idequeue \in Seq(Bufs)
      /\ BlockInv /\ ValidInv /\ QueueInv
  BY Zenon DEF IInv, TypeOK
<1>1. valid \in [Bufs -> BOOLEAN] /\ dirty \in [Bufs -> BOOLEAN]
  BY Zenon DEF IInv, TypeOK
<1>2. ASSUME SameUses \/ (\E p \in Procs : NoMoreUses(p, want[p])), UNCHANGED <<blockno, valid, dirty>>
      PROVE  BlockInv'
  BY <1>0, <1>1, <1>2, Zenon DEF BlockInv, SameUses, NoMoreUses
<1>3. ASSUME NEW p \in Procs, NEW n \in Blocks, NEW b \in Bufs, CanGet(p, n), Hit(p, n, b)
      PROVE  BlockInv'
  <2>1. NowUses(p, b) /\ UNCHANGED <<blockno, valid, dirty>> /\ blockno[b] # Unused
    BY <1>3, GetEffect, BufAssumption, Zenon DEF Hit, bufs, Unused
  <2> QED BY <1>0, <1>1, <2>1, Zenon DEF BlockInv, NowUses
<1>4. ASSUME NEW p \in Procs, NEW n \in Blocks, NEW b \in Bufs, CanGet(p, n), Miss(p, n, b)
      PROVE  BlockInv'
  <2>1. NowUses(p, b) /\ n # Unused
    BY <1>4, GetEffect, BufAssumption, Zenon DEF Unused
  <2>2. /\ \A c \in Bufs : blockno[c] # n
        /\ \A c \in Bufs : blockno'[c] = IF c = b THEN n ELSE blockno[c]
        /\ \A c \in Bufs : c # b => valid'[c] = valid[c] /\ dirty'[c] = dirty[c]
        /\ ~valid'[b] /\ ~dirty'[b]
    BY <1>0, <1>1, <1>4, Zenon DEF Miss
  <2> QED BY <1>0, <2>1, <2>2, SMTT(30) DEF BlockInv, NowUses
<1>5. ASSUME NEW p \in Procs, NEW b \in Bufs, NEW v \in Vals, LogWrite(p, b, v) \/ BWrite(p, b, v)
      PROVE  BlockInv'
  <2>1. SameUses /\ valid[b] /\ blockno' = blockno /\ valid' = valid
    BY <1>0, <1>5, WriteEffect, Zenon DEF LogWrite, BWrite, ValidInv
  <2>2. \A c \in Bufs : c # b => dirty'[c] = dirty[c]
    BY <1>1, <1>5, Zenon DEF LogWrite, BWrite
  <2> QED BY <1>0, <2>1, <2>2, Zenon DEF BlockInv, SameUses
<1>6. ASSUME IdeIntr PROVE BlockInv'
  <2> DEFINE b == Head(idequeue)
  <2>1. idequeue # <<>> /\ b = idequeue[1] /\ 1 \in 1..Len(idequeue) /\ b \in Bufs
    BY <1>0, <1>6, SMTT(30) DEF IdeIntr, QueueInv
  <2>2. blockno[b] # Unused
    BY <1>0, <2>1, SMTT(30) DEF QueueInv, BlockInv, Uses
  <2>3. SameUses /\ blockno' = blockno
    BY <1>6, IntrEffect, Zenon DEF IdeIntr
  <2>4. /\ \A c \in Bufs : c # b => valid'[c] = valid[c] /\ dirty'[c] = dirty[c]
        /\ ~dirty'[b]
    BY <1>1, <1>6, <2>1, Zenon DEF IdeIntr
  <2> HIDE DEF b
  <2> QED BY <1>0, <2>2, <2>3, <2>4, Zenon DEF BlockInv, SameUses
<1>7. ASSUME NEW p \in Procs, AcquireSleep(p) PROVE BlockInv'
  BY <1>2, <1>7, AcquireEffect, Zenon DEF AcquireSleep, bufs
<1>8. ASSUME NEW p \in Procs, BRead(p) \/ IdeWait(p) PROVE BlockInv'
  BY <1>2, <1>8, ReadEffect, Zenon DEF BRead, IdeWait, bufs
<1>9. ASSUME NEW p \in Procs, NEW b \in Bufs, BRelse(p, b) PROVE BlockInv'
  BY <1>2, <1>9, RelseEffect, Zenon DEF BRelse, bufs
<1>10. ASSUME NEW p \in Procs, Unref(p) PROVE BlockInv'
  BY <1>2, <1>10, UnrefEffect, Zenon DEF Unref, bufs
<1>11. CASE NoBuffers \/ UNCHANGED vars
  BY <1>2, <1>11, IdleEffect, Zenon DEF NoBuffers, vars, bufs
<1> QED
  BY <1>3, <1>4, <1>5, <1>6, <1>7, <1>8, <1>9, <1>10, <1>11, Zenon DEF Steps

(* bread() returns buffers with contents, and they keep them. *)
LEMMA ValidStep == IInv /\ Steps => ValidInv'
<1> SUFFICES ASSUME IInv, Steps PROVE ValidInv'
  BY Zenon
<1>0. /\ pc \in [Procs -> Labels] /\ want \in [Procs -> Bufs] /\ held \in [Procs -> SUBSET Bufs]
      /\ idequeue \in Seq(Bufs) /\ ValidInv /\ LockInv /\ QueueInv
  BY Zenon DEF IInv, TypeOK, Labels
<1>1. valid \in [Bufs -> BOOLEAN] /\ dirty \in [Bufs -> BOOLEAN]
  BY Zenon DEF IInv, TypeOK
<1>2. ASSUME NEW p \in Procs, AcquireSleep(p) PROVE ValidInv'
  <2>1. /\ UNCHANGED <<valid, dirty, want, held>>
        /\ \A q \in Procs : pc'[q] = "io" => pc[q] = "io"
    BY <1>0, <1>2, Zenon DEF AcquireSleep, Goto, bufs
  <2> QED BY <1>0, <2>1, Zenon DEF ValidInv
<1>3. ASSUME NEW p \in Procs, BRead(p) \/ IdeWait(p) PROVE ValidInv'
  <2>1. /\ UNCHANGED <<valid, dirty, want>>
        /\ \A q \in Procs : pc'[q] = "io" => pc[q] = "io"
        /\ held' = held \/ (valid[want[p]] /\ held' = [held EXCEPT ![p] = @ \cup {want[p]}])
    BY <1>0, <1>3, Zenon DEF BRead, IdeWait, IdeRw, Goto, bufs
  <2> QED BY <1>0, <2>1, SMTT(30) DEF ValidInv
<1>4. ASSUME NEW p \in Procs, Unref(p) PROVE ValidInv'
  <2>1. /\ UNCHANGED <<valid, dirty, want, held>>
        /\ \A q \in Procs : pc'[q] = "io" => pc[q] = "io"
    BY <1>0, <1>4, Zenon DEF Unref, Goto, bufs
  <2> QED BY <1>0, <2>1, Zenon DEF ValidInv
<1>5. ASSUME NEW p \in Procs, NEW b \in Bufs, BRelse(p, b) PROVE ValidInv'
  <2>1. /\ UNCHANGED <<valid, dirty>>
        /\ \A q \in Procs : pc'[q] = "io" => pc[q] = "io" /\ want'[q] = want[q]
        /\ \A q \in Procs : held'[q] \subseteq held[q]
    BY <1>0, <1>5, Zenon DEF BRelse, Wake, bufs
  <2> QED BY <1>0, <2>1, Zenon DEF ValidInv
<1>6. ASSUME NEW p \in Procs, NEW b \in Bufs, NEW v \in Vals, LogWrite(p, b, v) \/ BWrite(p, b, v)
      PROVE  ValidInv'
  <2>1. /\ valid' = valid /\ held' = held /\ pc[p] = "idle"
        /\ \A q \in Procs : pc'[q] = "io" => pc[q] = "io" /\ want'[q] = want[q]
    BY <1>0, <1>6, Zenon DEF LogWrite, BWrite, IdeRw, Goto, procs
  <2>2. \A c \in Bufs : c # b => dirty'[c] = dirty[c]
    BY <1>1, <1>6, Zenon DEF LogWrite, BWrite
  <2>3. \A q \in Procs : pc[q] = "io" => want[q] # b
    <3>1. Owns(p, b)
      BY <1>6, WriteEffect, Zenon
    <3> QED BY <1>0, <2>1, <3>1, Zenon DEF LockInv, Owns, Busy
  <2> QED BY <1>0, <2>1, <2>2, <2>3, SMTT(30) DEF ValidInv
<1>7. ASSUME NEW p \in Procs, NEW n \in Blocks, NEW b \in Bufs, Hit(p, n, b) PROVE ValidInv'
  <2>1. /\ UNCHANGED <<valid, dirty, held>>
        /\ \A q \in Procs : pc'[q] = "io" => pc[q] = "io" /\ want'[q] = want[q]
    BY <1>0, <1>7, Zenon DEF Hit, Goto, bufs
  <2> QED BY <1>0, <2>1, Zenon DEF ValidInv
<1>8. ASSUME NEW p \in Procs, NEW n \in Blocks, NEW b \in Bufs, Miss(p, n, b) PROVE ValidInv'
  <2>1. /\ held' = held
        /\ \A c \in Bufs : c # b => valid'[c] = valid[c] /\ dirty'[c] = dirty[c]
        /\ \A q \in Procs : pc'[q] = "io" => pc[q] = "io" /\ want'[q] = want[q]
    BY <1>0, <1>1, <1>8, Zenon DEF Miss, Goto
  <2>2. \A q \in Procs : ~Uses(q, b)
    BY <1>8, NoUser, Zenon DEF Miss, Recyclable
  <2> QED BY <1>0, <2>1, <2>2, SMTT(30) DEF ValidInv, Uses
<1>9. ASSUME IdeIntr PROVE ValidInv'
  <2> DEFINE b == Head(idequeue)
  <2>1. b \in Bufs
    BY <1>0, <1>9, SMTT(30) DEF IdeIntr, QueueInv
  <2>2. /\ \A c \in Bufs : c # b => valid'[c] = valid[c] /\ dirty'[c] = dirty[c]
        /\ valid'[b] /\ ~dirty'[b]
    BY <1>1, <1>9, <2>1, Zenon DEF IdeIntr
  <2>3. /\ UNCHANGED <<want, held>>
        /\ \A q \in Procs : pc'[q] = "io" => pc[q] = "io" \/ want[q] = b
    BY <1>0, <1>9, Zenon DEF IdeIntr, Wake
  <2> HIDE DEF b
  <2> QED BY <1>0, <2>2, <2>3, SMTT(30) DEF ValidInv
<1>10. CASE NoBuffers \/ UNCHANGED vars
  BY <1>0, <1>10, Zenon DEF NoBuffers, vars, bufs, procs, ValidInv
<1> QED
  BY <1>2, <1>3, <1>4, <1>5, <1>6, <1>7, <1>8, <1>9, <1>10, Zenon DEF Steps

(* The owner of a buffer that is not asleep for the disk has not queued it. *)
LEMMA NotQueued ==
  ASSUME IInv, NEW p \in Procs, NEW b \in Bufs, Owns(p, b), pc[p] # "iosleep"
  PROVE  \A i \in 1..Len(idequeue) : idequeue[i] # b
BY SMTT(30) DEF IInv, LockInv, QueueInv, Owns, Busy

(* iderw() adds the buffer to the queue and sleeps for it. *)
LEMMA QueueAdd ==
  ASSUME IInv, NEW p \in Procs, NEW b \in Bufs, Owns(p, b), pc[p] # "iosleep",
         NEW d, IdeRw(p, b, d), want' = [want EXCEPT ![p] = b]
  PROVE  QueueInv'
<1>0. /\ pc \in [Procs -> Labels] /\ want \in [Procs -> Bufs] /\ idequeue \in Seq(Bufs) /\ QueueInv
  BY Zenon DEF IInv, TypeOK, Labels
<1>1. idequeue' = Append(idequeue, b) /\ pc' = [pc EXCEPT ![p] = "iosleep"]
  BY Zenon DEF IdeRw, Goto
<1>2. /\ Len(idequeue') = Len(idequeue) + 1 /\ idequeue' # <<>> /\ Len(idequeue) \in Nat
      /\ \A i \in 1..Len(idequeue) : idequeue'[i] = idequeue[i]
      /\ idequeue'[Len(idequeue) + 1] = b
  BY <1>0, <1>1, SMTT(30)
<1>3. \A i \in 1..Len(idequeue) : idequeue[i] # b
  BY NotQueued, Zenon
<1>4. busy'
  BY <1>0, Zenon DEF IdeRw, IdeStart, QueueInv
<1>5. \A i, j \in 1..Len(idequeue') : idequeue'[i] = idequeue'[j] => i = j
  <2>1. \A i, j \in 1..Len(idequeue) : idequeue[i] = idequeue[j] => i = j
    BY <1>0, Zenon DEF QueueInv
  <2>2. \A i \in 1..Len(idequeue') : i \in 1..Len(idequeue) \/ i = Len(idequeue) + 1
    BY <1>2, SMTT(30)
  <2> QED BY <1>2, <1>3, <2>1, <2>2, Zenon
<1>6. \A i \in 1..Len(idequeue') :
        \E q \in Procs : pc'[q] = "iosleep" /\ want'[q] = idequeue'[i]
  <2> TAKE i \in 1..Len(idequeue')
  <2>1. CASE i = Len(idequeue) + 1
    BY <1>0, <1>1, <1>2, <2>1, Zenon
  <2>2. CASE i \in 1..Len(idequeue)
    <3>1. PICK q \in Procs : pc[q] = "iosleep" /\ want[q] = idequeue[i]
      BY <1>0, <2>2, Zenon DEF QueueInv
    <3> QED BY <1>0, <1>1, <1>2, <2>2, <3>1, Zenon
  <2> QED BY <1>2, <2>1, <2>2, SMTT(30)
<1>7. \A q \in Procs : pc'[q] = "iosleep" => \E i \in 1..Len(idequeue') : idequeue'[i] = want'[q]
  <2> SUFFICES ASSUME NEW q \in Procs, pc'[q] = "iosleep"
               PROVE  \E i \in 1..Len(idequeue') : idequeue'[i] = want'[q]
    BY Zenon
  <2>1. CASE q = p
    BY <1>0, <1>2, <2>1, SMTT(30)
  <2>2. CASE q # p
    <3>1. pc[q] = "iosleep" /\ want'[q] = want[q]
      BY <1>0, <1>1, <2>2, Zenon
    <3>2. PICK i \in 1..Len(idequeue) : idequeue[i] = want[q]
      BY <1>0, <3>1, Zenon DEF QueueInv
    <3> QED BY <1>2, <3>1, <3>2, SMTT(30)
  <2> QED BY <2>1, <2>2, Zenon
<1> QED
  BY <1>2, <1>4, <1>5, <1>6, <1>7, Zenon DEF QueueInv

(* ideintr() takes the first buffer off the queue and wakes its owner. *)
LEMMA QueueDrop == ASSUME IInv, IdeIntr PROVE QueueInv'
<1> DEFINE b == Head(idequeue)
<1>0. /\ pc \in [Procs -> Labels] /\ want \in [Procs -> Bufs] /\ idequeue \in Seq(Bufs) /\ QueueInv
  BY Zenon DEF IInv, TypeOK, Labels
<1>1. /\ idequeue # <<>> /\ idequeue' = Tail(idequeue) /\ want' = want
      /\ \A q \in Procs : pc'[q] = IF pc[q] = "iosleep" /\ want[q] = b THEN "io" ELSE pc[q]
  BY <1>0, Zenon DEF IdeIntr, QueueInv, Wake
<1>2. /\ Len(idequeue) \in Nat /\ Len(idequeue') = Len(idequeue) - 1 /\ b = idequeue[1]
      /\ Len(idequeue) > 0
      /\ \A i \in 1..Len(idequeue') : idequeue'[i] = idequeue[i + 1]
  BY <1>0, <1>1, SMTT(30)
<1> HIDE DEF b
<1>3. busy' <=> idequeue' # <<>>
  BY Zenon DEF IdeIntr, StartNext, IdeStart
<1>4. \A i, j \in 1..Len(idequeue') : idequeue'[i] = idequeue'[j] => i = j
  <2> SUFFICES ASSUME NEW i \in 1..Len(idequeue'), NEW j \in 1..Len(idequeue'),
                      idequeue'[i] = idequeue'[j]
               PROVE  i = j
    BY Zenon
  <2>1. i + 1 \in 1..Len(idequeue) /\ j + 1 \in 1..Len(idequeue) /\ idequeue[i + 1] = idequeue[j + 1]
    BY <1>2, SMTT(30)
  <2>2. i + 1 = j + 1
    BY <1>0, <2>1, Zenon DEF QueueInv
  <2> QED BY <1>2, <2>2, SMTT(30)
<1>5. \A i \in 1..Len(idequeue') :
        \E q \in Procs : pc'[q] = "iosleep" /\ want'[q] = idequeue'[i]
  <2> TAKE i \in 1..Len(idequeue')
  <2>1. i + 1 \in 1..Len(idequeue) /\ i + 1 # 1 /\ 1 \in 1..Len(idequeue)
    BY <1>2, SMTT(30)
  <2>2. idequeue[i + 1] # b
    BY <1>0, <1>2, <2>1, Zenon DEF QueueInv
  <2>3. PICK q \in Procs : pc[q] = "iosleep" /\ want[q] = idequeue[i + 1]
    BY <1>0, <2>1, Zenon DEF QueueInv
  <2> QED BY <1>1, <1>2, <2>2, <2>3, Zenon
<1>6. \A q \in Procs : pc'[q] = "iosleep" => \E i \in 1..Len(idequeue') : idequeue'[i] = want'[q]
  <2> SUFFICES ASSUME NEW q \in Procs, pc'[q] = "iosleep"
               PROVE  \E i \in 1..Len(idequeue') : idequeue'[i] = want'[q]
    BY Zenon
  <2>1. pc[q] = "iosleep" /\ want[q] # b
    BY <1>1, Zenon
  <2>2. PICK i \in 1..Len(idequeue) : idequeue[i] = want[q]
    BY <1>0, <2>1, Zenon DEF QueueInv
  <2>3. i # 1 /\ i - 1 \in 1..Len(idequeue') /\ idequeue'[i - 1] = idequeue[i]
    BY <1>2, <2>1, <2>2, SMTT(30)
  <2> QED BY <1>1, <2>2, <2>3, Zenon
<1> QED
  BY <1>3, <1>4, <1>5, <1>6, Zenon DEF QueueInv

(* The queue is what processes sleep for, and the disk works on it. *)
LEMMA QueueStep == IInv /\ Steps => QueueInv'
<1> SUFFICES ASSUME IInv, Steps PROVE QueueInv'
  BY Zenon
<1>0. /\ pc \in [Procs -> Labels] /\ want \in [Procs -> Bufs] /\ QueueInv /\ LockInv /\ ValidInv
  BY Zenon DEF IInv, TypeOK, Labels
<1>1. ASSUME UNCHANGED <<idequeue, busy>>,
             \A q \in Procs : (pc'[q] = "iosleep") = (pc[q] = "iosleep"),
             \A q \in Procs : pc[q] = "iosleep" => want'[q] = want[q]
      PROVE  QueueInv'
  <2>1. \A i \in 1..Len(idequeue') :
          \E p \in Procs : pc'[p] = "iosleep" /\ want'[p] = idequeue'[i]
    <3> TAKE i \in 1..Len(idequeue')
    <3>1. PICK p \in Procs : pc[p] = "iosleep" /\ want[p] = idequeue[i]
      BY <1>0, <1>1, Zenon DEF QueueInv
    <3> QED BY <1>1, <3>1, Zenon
  <2>2. \A p \in Procs :
          pc'[p] = "iosleep" => \E i \in 1..Len(idequeue') : idequeue'[i] = want'[p]
    <3> SUFFICES ASSUME NEW p \in Procs, pc'[p] = "iosleep"
                 PROVE  \E i \in 1..Len(idequeue') : idequeue'[i] = want'[p]
      BY Zenon
    <3>1. PICK i \in 1..Len(idequeue) : idequeue[i] = want[p]
      BY <1>0, <1>1, Zenon DEF QueueInv
    <3> QED BY <1>1, <3>1, Zenon
  <2> QED BY <1>0, <1>1, <2>1, <2>2, SMTT(30) DEF QueueInv
<1>2. ASSUME NEW p \in Procs, AcquireSleep(p) \/ IdeWait(p) \/ Unref(p) PROVE QueueInv'
  <2>1. pc[p] = "io" => valid[want[p]] /\ ~dirty[want[p]]
    BY <1>0, Zenon DEF ValidInv
  <2> QED BY <1>0, <1>1, <1>2, <2>1, Zenon DEF AcquireSleep, IdeWait, Unref, Goto, ide
<1>3. ASSUME NEW p \in Procs, NEW b \in Bufs, BRelse(p, b) PROVE QueueInv'
  BY <1>0, <1>1, <1>3, Zenon DEF BRelse, Wake, ide
<1>4. ASSUME NEW p \in Procs, BRead(p) PROVE QueueInv'
  <2>1. CASE valid[want[p]]
    BY <1>0, <1>1, <1>4, <2>1, Zenon DEF BRead, Goto, ide
  <2>2. CASE ~valid[want[p]]
    <3>1. IdeRw(p, want[p], dirty[want[p]]) /\ pc[p] = "bread" /\ want' = want
      BY <1>4, <2>2, Zenon DEF BRead
    <3>2. Owns(p, want[p]) /\ want[p] \in Bufs /\ want' = [want EXCEPT ![p] = want[p]]
      BY <1>0, <3>1, Zenon DEF Owns, Busy
    <3> QED BY <3>1, <3>2, QueueAdd, Zenon
  <2> QED BY <2>1, <2>2, Zenon
<1>5. ASSUME NEW p \in Procs, NEW b \in Bufs, NEW v \in Vals, LogWrite(p, b, v) PROVE QueueInv'
  BY <1>0, <1>1, <1>5, Zenon DEF LogWrite, ide, procs
<1>6. ASSUME NEW p \in Procs, NEW b \in Bufs, NEW v \in Vals, BWrite(p, b, v) PROVE QueueInv'
  <2>1. IdeRw(p, b, TRUE) /\ pc[p] = "idle" /\ want' = [want EXCEPT ![p] = b] /\ Owns(p, b)
    BY <1>6, Zenon DEF BWrite, Owns
  <2> QED BY <2>1, QueueAdd, Zenon
<1>7. ASSUME NEW p \in Procs, NEW n \in Blocks, NEW b \in Bufs, CanGet(p, n),
             Hit(p, n, b) \/ Miss(p, n, b)
      PROVE  QueueInv'
  BY <1>0, <1>1, <1>7, Zenon DEF CanGet, Hit, Miss, Goto, ide
<1>8. ASSUME IdeIntr PROVE QueueInv'
  BY <1>8, QueueDrop, Zenon
<1>9. CASE NoBuffers \/ UNCHANGED vars
  BY <1>1, <1>9, Zenon DEF NoBuffers, vars, ide, procs
<1> QED
  BY <1>2, <1>3, <1>4, <1>5, <1>6, <1>7, <1>8, <1>9, Zenon DEF Steps

(* The cache agrees with the disk wherever it is clean, and the disk has      *)
(* already taken the contents of a dirty buffer that it works on.             *)
LEMMA DiskStep ==
  ASSUME IoErrors = FALSE, IInv, DiskInv, Steps
  PROVE  DiskInv'
<1>0. /\ blockno \in [Bufs -> Blocks \cup {Unused}] /\ data \in [Bufs -> Vals]
      /\ disk \in [Blocks -> Vals] /\ want \in [Procs -> Bufs] /\ idequeue \in Seq(Bufs)
      /\ LockInv /\ BlockInv /\ QueueInv /\ ValidInv
  BY Zenon DEF IInv, TypeOK
<1>1. valid \in [Bufs -> BOOLEAN] /\ dirty \in [Bufs -> BOOLEAN]
  BY Zenon DEF IInv, TypeOK
<1> DEFINE Clean(c) == valid[c] /\ ~dirty[c] => data[c] = disk[blockno[c]]
           Begun == idequeue # <<>> /\ dirty[Head(idequeue)]
                      => data[Head(idequeue)] = disk[blockno[Head(idequeue)]]
<1>2. (\A c \in Bufs : Clean(c)) /\ Begun
  BY Zenon DEF DiskInv
<1>3. ASSUME \A c \in Bufs : Clean(c)', Begun' PROVE DiskInv'
  BY <1>3, Zenon DEF DiskInv
<1>4. ASSUME idequeue # <<>>
      PROVE  /\ Head(idequeue) = idequeue[1] /\ Head(idequeue) \in Bufs /\ 1 \in 1..Len(idequeue)
             /\ blockno[Head(idequeue)] \in Blocks
             /\ \E q \in Procs : Uses(q, Head(idequeue))
  <2>1. Head(idequeue) = idequeue[1] /\ Head(idequeue) \in Bufs /\ 1 \in 1..Len(idequeue)
    BY <1>0, <1>4, SMTT(30)
  <2>2. \E q \in Procs : Uses(q, Head(idequeue))
    BY <1>0, <2>1, SMTT(30) DEF QueueInv, Uses
  <2>3. blockno[Head(idequeue)] \in Blocks
    BY <1>0, <2>1, <2>2, Zenon DEF BlockInv, Unused
  <2> QED BY <2>1, <2>2, <2>3, Zenon
<1>5. ASSUME UNCHANGED <<bufs, ide>> PROVE DiskInv'
  BY <1>2, <1>5, Zenon DEF bufs, ide, DiskInv
<1>6. ASSUME NEW p \in Procs, BRead(p) PROVE DiskInv'
  <2>1. CASE valid[want[p]]
    BY <1>5, <1>6, <2>1, Zenon DEF BRead
  <2>2. CASE ~valid[want[p]]
    <3>1. UNCHANGED bufs /\ want[p] \in Bufs /\ ~dirty[want[p]]
      BY <1>0, <1>6, <2>2, Zenon DEF BRead, BlockInv
    <3>2. disk' = disk /\ idequeue' = Append(idequeue, want[p])
      BY <1>6, <2>2, <3>1, Zenon DEF BRead, IdeRw, IdeStart
    <3>3. \A c \in Bufs : Clean(c)'
      BY <1>2, <3>1, <3>2, Zenon DEF bufs
    <3>4. CASE idequeue = <<>>
      <4>1. Head(idequeue') = want[p]
        BY <1>0, <3>1, <3>2, <3>4, SMTT(30)
      <4> QED BY <1>3, <3>1, <3>3, <4>1, Zenon DEF bufs
    <3>5. CASE idequeue # <<>>
      <4>1. Head(idequeue') = Head(idequeue) /\ idequeue' # <<>>
        BY <1>0, <3>1, <3>2, <3>5, SMTT(30)
      <4> QED BY <1>2, <1>3, <3>1, <3>2, <3>3, <3>5, <4>1, Zenon DEF bufs
    <3> QED BY <3>4, <3>5, Zenon
  <2> QED BY <2>1, <2>2, Zenon
<1>7. ASSUME NEW p \in Procs, NEW b \in Bufs, NEW v \in Vals, LogWrite(p, b, v) \/ BWrite(p, b, v)
      PROVE  DiskInv'
  <2>1. /\ blockno' = blockno /\ valid' = valid /\ data'[b] = v /\ dirty'[b]
        /\ \A c \in Bufs : c # b => data'[c] = data[c] /\ dirty'[c] = dirty[c]
    BY <1>0, <1>1, <1>7, Zenon DEF LogWrite, BWrite
  <2>2. /\ Owns(p, b) /\ pc[p] # "iosleep" /\ blockno[b] \in Blocks
    BY <1>0, <1>7, WriteEffect, Zenon DEF LogWrite, BWrite, BlockInv, Uses, Unused
  <2>3. \A i \in 1..Len(idequeue) : idequeue[i] # b
    BY <2>2, NotQueued, Zenon
  <2>4. CASE LogWrite(p, b, v)
    <3>1. UNCHANGED ide
      BY <2>4, Zenon DEF LogWrite
    <3>2. \A c \in Bufs : Clean(c)'
      BY <1>2, <2>1, <3>1, Zenon DEF ide
    <3>3. Begun'
      BY <1>2, <1>4, <2>1, <2>3, <3>1, SMTT(30) DEF ide
    <3> QED BY <1>3, <3>2, <3>3, Zenon
  <2>5. CASE BWrite(p, b, v)
    <3>1. idequeue' = Append(idequeue, b)
      BY <2>5, Zenon DEF BWrite, IdeRw
    <3>2. CASE idequeue = <<>>
      <4>1. disk' = [disk EXCEPT ![blockno[b]] = v] /\ Head(idequeue') = b
        BY <1>0, <2>1, <2>5, <3>1, <3>2, SMTT(30) DEF BWrite, IdeRw, IdeStart
      <4>2. \A c \in Bufs : c # b /\ valid[c] => disk'[blockno[c]] = disk[blockno[c]]
        BY <1>0, <2>2, <4>1, Zenon DEF BlockInv
      <4>3. \A c \in Bufs : Clean(c)'
        BY <1>2, <2>1, <4>2, SMTT(30)
      <4>4. Begun'
        BY <1>0, <2>1, <2>2, <4>1, Zenon
      <4> QED BY <1>3, <4>3, <4>4, Zenon
    <3>3. CASE idequeue # <<>>
      <4>1. disk' = disk /\ Head(idequeue') = Head(idequeue)
        BY <1>0, <2>5, <3>1, <3>3, SMTT(30) DEF BWrite, IdeRw
      <4>2. \A c \in Bufs : Clean(c)'
        BY <1>2, <2>1, <4>1, Zenon
      <4>3. Begun'
        BY <1>2, <1>4, <2>1, <2>3, <3>3, <4>1, SMTT(30)
      <4> QED BY <1>3, <4>2, <4>3, Zenon
    <3> QED BY <3>2, <3>3, Zenon
  <2> QED BY <1>7, <2>4, <2>5, Zenon
<1>8. ASSUME NEW p \in Procs, NEW n \in Blocks, NEW b \in Bufs, Miss(p, n, b) PROVE DiskInv'
  <2>1. /\ \A c \in Bufs : c # b => /\ blockno'[c] = blockno[c]
                                   /\ valid'[c] = valid[c] /\ dirty'[c] = dirty[c]
        /\ ~valid'[b] /\ UNCHANGED <<data, ide>>
    BY <1>0, <1>1, <1>8, Zenon DEF Miss
  <2>2. \A q \in Procs : ~Uses(q, b)
    BY <1>8, NoUser, Zenon DEF Miss, Recyclable
  <2>3. \A c \in Bufs : Clean(c)'
    BY <1>2, <2>1, SMTT(30) DEF ide
  <2>4. Begun'
    <3>1. idequeue' = idequeue /\ disk' = disk
      BY <2>1, Zenon DEF ide
    <3>2. idequeue # <<>> => Head(idequeue) \in Bufs /\ Head(idequeue) # b
      BY <1>4, <2>2, Zenon
    <3> QED BY <1>2, <2>1, <3>1, <3>2, Zenon
  <2> QED BY <1>3, <2>3, <2>4, Zenon
<1>9. ASSUME IdeIntr PROVE DiskInv'
  <2> DEFINE b == Head(idequeue)
  <2>1. idequeue # <<>>
    BY <1>0, <1>9, Zenon DEF IdeIntr, QueueInv
  <2>2. /\ b = idequeue[1] /\ b \in Bufs /\ blockno[b] \in Blocks /\ 1 \in 1..Len(idequeue)
    BY <1>4, <2>1, Zenon
  <2>3. dirty[b] => data[b] = disk[blockno[b]]
    BY <1>2, <2>1, Zenon
  <2>4. /\ blockno' = blockno /\ idequeue' = Tail(idequeue)
        /\ \A c \in Bufs : c # b => valid'[c] = valid[c] /\ dirty'[c] = dirty[c]
        /\ ~dirty'[b]
    BY <1>1, <1>9, <2>2, Zenon DEF IdeIntr
  <2>5. data'[b] = disk[blockno[b]] /\ \A c \in Bufs : c # b => data'[c] = data[c]
    BY <1>0, <1>9, <2>2, <2>3, Zenon DEF IdeIntr
  <2> HIDE DEF b
  <2>6. CASE idequeue' = <<>>
    <3>1. disk' = disk
      BY <1>9, <2>6, Zenon DEF IdeIntr, StartNext
    <3>2. \A c \in Bufs : Clean(c)'
      BY <1>2, <2>4, <2>5, <3>1, Zenon
    <3> QED BY <1>3, <2>6, <3>2, Zenon
  <2>7. CASE idequeue' # <<>>
    <3> DEFINE h == Head(idequeue')
    <3>1. h = idequeue[2] /\ 2 \in 1..Len(idequeue)
      BY <1>0, <2>1, <2>4, <2>7, SMTT(30)
    <3>2. h \in Bufs /\ h # b /\ blockno[h] \in Blocks
      <4>1. h # b
        BY <1>0, <2>2, <3>1, SMTT(30) DEF QueueInv
      <4>2. PICK q \in Procs : pc[q] = "iosleep" /\ want[q] = h
        BY <1>0, <3>1, SMTT(30) DEF QueueInv
      <4>3. h \in Bufs /\ Uses(q, h)
        BY <1>0, <4>2, Zenon DEF Uses
      <4> QED BY <1>0, <4>1, <4>3, Zenon DEF BlockInv, Unused
    <3>3. disk' = IF dirty[h] THEN [disk EXCEPT ![blockno[h]] = data'[h]] ELSE disk
      BY <1>9, <2>7, Zenon DEF IdeIntr, StartNext, IdeStart
    <3> HIDE DEF h
    <3>4. \A c \in Bufs : c # h /\ (c = b \/ valid[c]) => disk'[blockno[c]] = disk[blockno[c]]
      BY <1>0, <2>2, <3>2, <3>3, SMTT(30) DEF BlockInv
    <3>5. \A c \in Bufs : Clean(c)'
      BY <1>2, <2>2, <2>4, <2>5, <3>2, <3>3, <3>4, SMTT(30)
    <3>6. Begun'
      BY <1>0, <2>4, <3>2, <3>3, Zenon DEF h
    <3> QED BY <1>3, <3>5, <3>6, Zenon
  <2> QED BY <2>6, <2>7, Zenon
<1>10. ASSUME NEW p \in Procs, AcquireSleep(p) \/ IdeWait(p) \/ Unref(p) PROVE DiskInv'
  BY <1>5, <1>10, Zenon DEF AcquireSleep, IdeWait, Unref
<1>11. ASSUME NEW p \in Procs, NEW b \in Bufs, BRelse(p, b) PROVE DiskInv'
  BY <1>5, <1>11, Zenon DEF BRelse
<1>12. ASSUME NEW p \in Procs, NEW n \in Blocks, NEW b \in Bufs, Hit(p, n, b) PROVE DiskInv'
  BY <1>5, <1>12, Zenon DEF Hit
<1>13. CASE NoBuffers \/ UNCHANGED vars
  BY <1>5, <1>13, Zenon DEF NoBuffers, vars
<1> QED
  BY <1>6, <1>7, <1>8, <1>9, <1>10, <1>11, <1>12, <1>13, Zenon DEF Steps
------------------------------------------------------------------------------
(* binit() establishes the invariant: no buffer is used, the list has all.    *)
LEMMA BufInit == Init => IInv /\ DiskInv
<1> SUFFICES ASSUME Init PROVE IInv /\ DiskInv
  BY Zenon
<1>1. Fill \in Vals /\ 1 \in Bufs
  BY BufAssumption, SMTT(30) DEF Fill, Bufs
<1>2. \A i \in Bufs : NBUF + 1 - i \in Bufs
  BY BufAssumption, SMTT(30) DEF Bufs
<1>3. /\ mru \in [Bufs -> Bufs] /\ \A i, j \in Bufs : mru[i] = mru[j] => i = j
      /\ \A b \in Bufs : mru[NBUF + 1 - b] = b
  <2>1. \A i \in Bufs : mru[i] = NBUF + 1 - i
    BY Zenon DEF Init
  <2>2. \A b \in Bufs : NBUF + 1 - (NBUF + 1 - b) = b
    BY BufAssumption, SMTT(30) DEF Bufs
  <2>3. \A i, j \in Bufs : mru[i] = mru[j] => i = j
    BY <2>1, BufAssumption, SMTT(30) DEF Bufs
  <2>4. mru \in [Bufs -> Bufs]
    BY <1>2, Zenon DEF Init
  <2> QED BY <1>2, <2>1, <2>2, <2>3, <2>4, Zenon
<1>4. TypeOK
  <2>1. /\ valid \in [Bufs -> BOOLEAN] /\ dirty \in [Bufs -> BOOLEAN] /\ locked \in [Bufs -> BOOLEAN]
        /\ busy \in BOOLEAN /\ panicked \in BOOLEAN
    BY Zenon DEF Init
  <2>2. /\ blockno \in [Bufs -> Blocks \cup {Unused}] /\ data \in [Bufs -> Vals]
        /\ refcnt \in [Bufs -> Nat] /\ disk \in [Blocks -> Vals] /\ idequeue \in Seq(Bufs)
        /\ want \in [Procs -> Bufs] /\ held \in [Procs -> SUBSET Bufs]
    BY <1>1, SMTT(30) DEF Init
  <2>3. pc \in [Procs -> {"idle", "lock", "lksleep", "bread", "iosleep", "io", "unref"}]
    BY Zenon DEF Init
  <2> QED BY <1>3, <2>1, <2>2, <2>3, Zenon DEF TypeOK
<1>5. MruInv
  BY <1>2, <1>3, Zenon DEF MruInv
<1>6. \A p \in Procs, b \in Bufs : ~Uses(p, b) /\ ~Owns(p, b)
  BY Zenon DEF Init, Uses, Owns, Busy
<1>7. LockInv /\ BlockInv /\ ValidInv
  <2>1. \A p \in Procs : pc[p] = "idle" /\ held[p] = {}
    BY Zenon DEF Init
  <2>2. \A b \in Bufs : blockno[b] = Unused /\ ~valid[b] /\ ~dirty[b] /\ ~locked[b]
    BY Zenon DEF Init
  <2> QED BY <1>6, <2>1, <2>2, Zenon DEF LockInv, BlockInv, ValidInv
<1>8. RefInv
  <2> SUFFICES ASSUME NEW b \in Bufs PROVE refcnt[b] = Cardinality(Users(b))
    BY Zenon DEF RefInv
  <2>1. Users(b) = {}
    BY <1>6, Zenon DEF Users, Uses
  <2> QED BY <2>1, FS_EmptySet, Zenon DEF Init
<1>9. QueueInv /\ DiskInv
  BY SMTT(30) DEF Init, QueueInv, DiskInv
<1> QED
  BY <1>4, <1>5, <1>7, <1>8, <1>9, Zenon DEF IInv

(* Every step keeps the invariant, ... *)
LEMMA BufNext == IInv /\ [Next]_vars => IInv'
<1>1. IInv => TypeOK
  BY Zenon DEF IInv
<1> QED
  BY <1>1, NextSteps, TypeStep, LockStep, BlockStep, RefStep, ValidStep, QueueStep, Zenon DEF IInv

(* ... which so holds for ever. *)
LEMMA Inductive == Spec => []IInv
BY BufInit, BufNext, PTL DEF Spec

(* bget() never gives a block two buffers, and refcnt is the number of        *)
(* processes between their bget() and their brelse() of it, so that what is   *)
(* recycled has no user.                                                      *)
THEOREM BlocksCachedOnce == Spec => []OneBuffer
<1>1. IInv => OneBuffer
  BY Zenon DEF IInv, OneBuffer, BlockInv, RefInv
<1> QED
  BY <1>1, Inductive, PTL

(* No sleeper of acquiresleep() or iderw() is forgotten: the lock it waits    *)
(* for is taken, its buffer is in the driver's queue, and the disk works.     *)
THEOREM SleepersHaveWakers == Spec => []NoLostWakeup
<1>1. IInv => NoLostWakeup
  BY Zenon DEF IInv, NoLostWakeup, LockInv, QueueInv
<1> QED
  BY <1>1, Inductive, PTL

LockedByOne ==
  \A p, q \in Procs : \A b \in held[p] \cap held[q] : p = q

(* A sleep lock of a buffer is never held twice: what two processes got from  *)
(* bread() and have not given to brelse() are different buffers.              *)
THEOREM BufferLocksExclude == Spec => []LockedByOne
<1>1. IInv => LockedByOne
  BY Zenon DEF IInv, TypeOK, LockInv, LockedByOne, Owns
<1> QED
  BY <1>1, Inductive, PTL

(* On a disk without errors a process holds valid, locked buffers, and every  *)
(* clean valid buffer agrees with the disk.                                   *)
THEOREM HoldersSeeTheDisk == IoErrors = FALSE => (Spec => []HoldersSee)
<1> SUFFICES ASSUME IoErrors = FALSE PROVE Spec => []HoldersSee
  BY Zenon
<1>1. IInv /\ DiskInv /\ [Next]_vars => DiskInv'
  BY NextSteps, DiskStep, Zenon DEF IInv
<1>2. IInv /\ DiskInv => HoldersSee
  <2> SUFFICES ASSUME IInv, DiskInv, NEW p \in Procs, NEW b \in held[p]
               PROVE  locked[b] /\ blockno[b] \in Blocks /\ valid[b]
    BY Zenon DEF HoldersSee, DiskInv
  <2>1. b \in Bufs /\ Owns(p, b) /\ Uses(p, b) /\ blockno[b] \in Blocks \cup {Unused}
    BY Zenon DEF IInv, TypeOK, Owns, Uses
  <2> QED BY <2>1, Zenon DEF IInv, LockInv, BlockInv, ValidInv
<1> QED
  BY <1>1, <1>2, BufInit, Inductive, PTL DEF Spec
------------------------------------------------------------------------------
(* The refinement of BlockStore.  Holder is what the mapping gives holder. *)
Holder == [n \in Blocks |-> {p \in Procs : \E b \in held[p] : blockno[b] = n}]

(* The contents of a block are those of its valid buffer, or else the disk's. *)
ContentsAre ==
  /\ Contents \in [Blocks -> Vals]
  /\ \A b \in Bufs : valid[b] => blockno[b] \in Blocks /\ Contents[blockno[b]] = data[b]
  /\ \A n \in Blocks : (\A b \in Bufs : blockno[b] = n => ~valid[b]) => Contents[n] = disk[n]

(* Contents, the mapping of the refinement, has that description, ... *)
LEMMA ContentsAt == IInv => ContentsAre
<1> SUFFICES ASSUME IInv PROVE ContentsAre
  BY Zenon
<1>0. /\ blockno \in [Bufs -> Blocks \cup {Unused}] /\ data \in [Bufs -> Vals]
      /\ disk \in [Blocks -> Vals] /\ BlockInv
  BY Zenon DEF IInv, TypeOK
<1>1. ASSUME NEW b \in Bufs, valid[b]
      PROVE  blockno[b] \in Blocks /\ Contents[blockno[b]] = data[b]
  <2>1. blockno[b] \in Blocks
    BY <1>0, <1>1, Zenon DEF BlockInv
  <2>2. b \in Cached(blockno[b]) /\ \A c \in Cached(blockno[b]) : c = b
    BY <1>0, <1>1, Zenon DEF BlockInv, Cached
  <2>3. (CHOOSE c \in Cached(blockno[b]) : valid[c]) = b
    BY <1>1, <2>2, Zenon
  <2> QED BY <1>1, <2>1, <2>2, <2>3, Zenon DEF Contents
<1>2. ASSUME NEW n \in Blocks, \A b \in Bufs : blockno[b] = n => ~valid[b]
      PROVE  Contents[n] = disk[n]
  BY <1>2, Zenon DEF Contents, Cached
<1>3. \A n \in Blocks : Contents[n] \in Vals
  BY <1>0, <1>1, <1>2, SMTT(30)
<1>4. Contents \in [Blocks -> Vals]
  <2>1. Contents = [n \in Blocks |-> Contents[n]]
    BY Zenon DEF Contents
  <2> HIDE DEF Contents
  <2> QED BY <1>3, <2>1, Zenon
<1> QED
  BY <1>1, <1>2, <1>4, Zenon DEF ContentsAre

(* ... also after a step. *)
LEMMA ContentsAtNext == IInv' => ContentsAre'
BY ContentsAt, PTL

(* Recycling a buffer loses nothing: it is clean, so the disk has its block. *)
LEMMA ContentsRecycled ==
  ASSUME IInv, IInv', DiskInv, NEW p \in Procs, NEW n \in Blocks, NEW b \in Bufs, Miss(p, n, b)
  PROVE  Contents' = Contents
<1>0. ContentsAre /\ ContentsAre' /\ BlockInv
  BY ContentsAt, ContentsAtNext, Zenon DEF IInv
<1>1. /\ blockno \in [Bufs -> Blocks \cup {Unused}]
      /\ valid \in [Bufs -> BOOLEAN] /\ dirty \in [Bufs -> BOOLEAN]
  BY Zenon DEF IInv, TypeOK
<1>2. /\ \A c \in Bufs : c # b => blockno'[c] = blockno[c] /\ valid'[c] = valid[c]
      /\ blockno'[b] = n /\ ~valid'[b] /\ data' = data /\ disk' = disk
      /\ ~dirty[b] /\ \A c \in Bufs : blockno[c] # n
  BY <1>1, Zenon DEF Miss, Recyclable, ide
<1>3. valid[b] => data[b] = disk[blockno[b]]
  BY <1>2, Zenon DEF DiskInv
<1>4. ASSUME NEW m \in Blocks PROVE Contents'[m] = Contents[m]
  <2>1. CASE \E c \in Bufs : c # b /\ blockno[c] = m /\ valid[c]
    BY <1>0, <1>2, <2>1, SMTT(30) DEF ContentsAre
  <2>2. CASE ~\E c \in Bufs : c # b /\ blockno[c] = m /\ valid[c]
    <3>1. Contents'[m] = disk[m]
      BY <1>0, <1>2, <2>2, Zenon DEF ContentsAre
    <3>2. CASE blockno[b] = m /\ valid[b]
      BY <1>0, <1>3, <3>1, <3>2, Zenon DEF ContentsAre
    <3>3. CASE ~(blockno[b] = m /\ valid[b])
      <4>1. \A c \in Bufs : blockno[c] = m => ~valid[c]
        BY <2>2, <3>3, Zenon
      <4> QED BY <1>0, <3>1, <4>1, Zenon DEF ContentsAre
    <3> QED BY <3>2, <3>3, Zenon
  <2> QED BY <2>1, <2>2, Zenon
<1> QED
  BY <1>0, <1>4, SMTT(30) DEF ContentsAre

(* The disk's work does not change what a block contains. *)
LEMMA ContentsInterrupt ==
  ASSUME IoErrors = FALSE, IInv, IInv', DiskInv, IdeIntr
  PROVE  Contents' = Contents
<1> DEFINE b == Head(idequeue)
<1>0. ContentsAre /\ ContentsAre' /\ BlockInv /\ QueueInv /\ idequeue \in Seq(Bufs)
  BY ContentsAt, ContentsAtNext, Zenon DEF IInv, TypeOK
<1>1. /\ blockno \in [Bufs -> Blocks \cup {Unused}] /\ data \in [Bufs -> Vals]
      /\ valid \in [Bufs -> BOOLEAN] /\ dirty \in [Bufs -> BOOLEAN] /\ disk \in [Blocks -> Vals]
  BY Zenon DEF IInv, TypeOK
<1>2. idequeue # <<>> /\ b = idequeue[1] /\ b \in Bufs /\ 1 \in 1..Len(idequeue)
  BY <1>0, SMTT(30) DEF IdeIntr, QueueInv
<1>3. /\ blockno' = blockno /\ idequeue' = Tail(idequeue) /\ valid'[b]
      /\ \A c \in Bufs : c # b => valid'[c] = valid[c]
  BY <1>1, <1>2, Zenon DEF IdeIntr
<1>4. dirty[b] => data[b] = disk[blockno[b]]
  BY <1>2, Zenon DEF DiskInv
<1>5. data'[b] = disk[blockno[b]] /\ \A c \in Bufs : c # b => data'[c] = data[c]
  BY <1>1, <1>2, <1>4, Zenon DEF IdeIntr
<1>6. valid[b] => data[b] = disk[blockno[b]]
  BY <1>1, <1>2, <1>4, Zenon DEF DiskInv
<1> HIDE DEF b
<1>7. \A m \in Blocks : (\A c \in Bufs : blockno[c] = m => ~valid[c]) => disk'[m] = disk[m]
  <2>1. CASE idequeue' = <<>>
    BY <2>1, Zenon DEF IdeIntr, StartNext
  <2>2. CASE idequeue' # <<>>
    <3> DEFINE h == Head(idequeue')
    <3>1. h = idequeue[2] /\ 2 \in 1..Len(idequeue)
      BY <1>0, <1>2, <1>3, <2>2, SMTT(30)
    <3>2. h \in Bufs /\ (dirty[h] => valid[h])
      BY <1>0, <3>1, SMTT(30) DEF BlockInv
    <3>3. disk' = IF dirty[h] THEN [disk EXCEPT ![blockno[h]] = data'[h]] ELSE disk
      BY <2>2, Zenon DEF IdeIntr, StartNext, IdeStart
    <3> HIDE DEF h
    <3> QED BY <1>1, <3>2, <3>3, Zenon
  <2> QED BY <2>1, <2>2, Zenon
<1>8. ASSUME NEW m \in Blocks PROVE Contents'[m] = Contents[m]
  <2>1. CASE \E c \in Bufs : c # b /\ blockno[c] = m /\ valid[c]
    BY <1>0, <1>3, <1>5, <2>1, SMTT(30) DEF ContentsAre
  <2>2. CASE blockno[b] = m
    <3>1. Contents'[m] = disk[m]
      BY <1>0, <1>2, <1>3, <1>5, <2>2, Zenon DEF ContentsAre
    <3>2. CASE valid[b]
      BY <1>0, <1>2, <1>6, <2>2, <3>1, <3>2, Zenon DEF ContentsAre
    <3>3. CASE ~valid[b]
      <4>1. \A c \in Bufs : blockno[c] = m => ~valid[c]
        BY <1>0, <1>2, <2>2, <3>3, BufAssumption, Zenon DEF BlockInv, Unused
      <4> QED BY <1>0, <3>1, <4>1, Zenon DEF ContentsAre
    <3> QED BY <3>2, <3>3, Zenon
  <2>3. CASE blockno[b] # m /\ ~\E c \in Bufs : c # b /\ blockno[c] = m /\ valid[c]
    <3>1. \A c \in Bufs : blockno[c] = m => ~valid[c] /\ ~valid'[c]
      BY <1>3, <2>3, Zenon
    <3>2. Contents'[m] = disk'[m] /\ Contents[m] = disk[m]
      BY <1>0, <1>3, <3>1, Zenon DEF ContentsAre
    <3> QED BY <1>7, <3>1, <3>2, Zenon
  <2> QED BY <2>1, <2>2, <2>3, Zenon
<1> QED
  BY <1>0, <1>8, SMTT(30) DEF ContentsAre

(* A holder's write changes its block and no other. *)
LEMMA ContentsWritten ==
  ASSUME IInv, IInv', NEW p \in Procs, NEW b \in Bufs, NEW v \in Vals,
         LogWrite(p, b, v) \/ BWrite(p, b, v)
  PROVE  blockno[b] \in Blocks /\ Contents' = [Contents EXCEPT ![blockno[b]] = v]
<1>0. ContentsAre /\ ContentsAre' /\ BlockInv /\ ValidInv
  BY ContentsAt, ContentsAtNext, Zenon DEF IInv
<1>1. /\ blockno \in [Bufs -> Blocks \cup {Unused}] /\ data \in [Bufs -> Vals]
      /\ disk \in [Blocks -> Vals]
  BY Zenon DEF IInv, TypeOK
<1>2. /\ blockno' = blockno /\ valid' = valid /\ data' = [data EXCEPT ![b] = v] /\ valid[b]
      /\ disk' = disk \/ disk' = [disk EXCEPT ![blockno[b]] = data'[b]]
  BY <1>0, Zenon DEF LogWrite, BWrite, IdeRw, IdeStart, ide, ValidInv
<1>3. blockno[b] \in Blocks /\ Contents'[blockno[b]] = v
  BY <1>0, <1>1, <1>2, Zenon DEF ContentsAre
<1>4. ASSUME NEW m \in Blocks, m # blockno[b] PROVE Contents'[m] = Contents[m]
  <2>1. CASE \E c \in Bufs : blockno[c] = m /\ valid[c]
    BY <1>0, <1>1, <1>2, <1>4, <2>1, SMTT(30) DEF ContentsAre
  <2>2. CASE ~\E c \in Bufs : blockno[c] = m /\ valid[c]
    <3>1. disk'[m] = disk[m]
      BY <1>1, <1>2, <1>3, <1>4, Zenon
    <3> QED BY <1>0, <1>2, <2>2, <3>1, Zenon DEF ContentsAre
  <2> QED BY <2>1, <2>2, Zenon
<1> QED
  BY <1>0, <1>3, <1>4, Zenon DEF ContentsAre

(* A process that has locked a block and read it becomes its only holder. *)
LEMMA HolderAdded ==
  ASSUME IInv, NEW p \in Procs, Owns(p, want[p]), want[p] \notin held[p], valid[want[p]],
         blockno' = blockno, held' = [held EXCEPT ![p] = @ \cup {want[p]}]
  PROVE  \E n \in Blocks : Holder[n] = {} /\ Holder' = [Holder EXCEPT ![n] = {p}]
<1> DEFINE b == want[p]
           n == blockno[b]
<1>0. /\ held \in [Procs -> SUBSET Bufs] /\ want \in [Procs -> Bufs]
      /\ blockno \in [Bufs -> Blocks \cup {Unused}] /\ LockInv /\ BlockInv
  BY Zenon DEF IInv, TypeOK
<1>1. b \in Bufs /\ n \in Blocks /\ n # Unused
  BY <1>0, Zenon DEF BlockInv
<1>2. \A q \in Procs : \A c \in held[q] : blockno[c] # n
  <2> SUFFICES ASSUME NEW q \in Procs, NEW c \in held[q], blockno[c] = n PROVE FALSE
    BY Zenon
  <2>1. c = b
    BY <1>0, <1>1, Zenon DEF BlockInv
  <2>2. q = p
    BY <1>0, <1>1, <2>1, Zenon DEF LockInv, Owns
  <2> QED BY <2>1, <2>2, Zenon
<1>3. Holder[n] = {}
  BY <1>1, <1>2, Zenon DEF Holder
<1>4. Holder'[n] = {p}
  BY <1>0, <1>1, <1>2, Zenon DEF Holder
<1>5. \A m \in Blocks : m # n => Holder'[m] = Holder[m]
  BY <1>0, <1>1, Zenon DEF Holder
<1>6. Holder' = [Holder EXCEPT ![n] = {p}]
  <2>1. Holder = [m \in Blocks |-> Holder[m]] /\ Holder' = [m \in Blocks |-> Holder'[m]]
    BY Zenon DEF Holder
  <2> HIDE DEF Holder, n
  <2> QED BY <1>1, <1>4, <1>5, <2>1, Zenon
<1> QED
  BY <1>1, <1>3, <1>6, Zenon

(* brelse() takes the process from the holders of the block. *)
LEMMA HolderRemoved ==
  ASSUME IInv, NEW p \in Procs, NEW b \in Bufs, b \in held[p],
         blockno' = blockno, held' = [held EXCEPT ![p] = @ \ {b}]
  PROVE  \E n \in Blocks : p \in Holder[n] /\ Holder' = [Holder EXCEPT ![n] = @ \ {p}]
<1> DEFINE n == blockno[b]
<1>0. /\ held \in [Procs -> SUBSET Bufs]
      /\ blockno \in [Bufs -> Blocks \cup {Unused}] /\ LockInv /\ BlockInv
  BY Zenon DEF IInv, TypeOK
<1>1. n \in Blocks /\ n # Unused
  BY <1>0, Zenon DEF BlockInv, Uses
<1>2. \A c \in held[p] : blockno[c] = n => c = b
  BY <1>0, <1>1, Zenon DEF BlockInv
<1>3. p \in Holder[n]
  BY <1>1, Zenon DEF Holder
<1>4. Holder'[n] = Holder[n] \ {p}
  BY <1>0, <1>1, <1>2, Zenon DEF Holder
<1>5. \A m \in Blocks : m # n => Holder'[m] = Holder[m]
  BY <1>0, <1>1, Zenon DEF Holder
<1>6. Holder' = [Holder EXCEPT ![n] = @ \ {p}]
  <2>1. Holder = [m \in Blocks |-> Holder[m]] /\ Holder' = [m \in Blocks |-> Holder'[m]]
    BY Zenon DEF Holder
  <2> HIDE DEF Holder, n
  <2> QED BY <1>1, <1>4, <1>5, <2>1, Zenon
<1> QED
  BY <1>1, <1>3, <1>6, Zenon

(* Every step of the cache is a lock, an unlock or a write of the block       *)
(* store, or none of them.                                                    *)
LEMMA StoreStep ==
  ASSUME IoErrors = FALSE, IInv, IInv', DiskInv, Steps
  PROVE  Abs!Next \/ UNCHANGED Abs!vars
<1>0. /\ held \in [Procs -> SUBSET Bufs] /\ want \in [Procs -> Bufs]
      /\ blockno \in [Bufs -> Blocks \cup {Unused}] /\ ValidInv /\ BlockInv /\ LockInv
  BY Zenon DEF IInv, TypeOK
<1>1. ASSUME Contents' = Contents, Holder' = Holder PROVE UNCHANGED Abs!vars
  BY <1>1, Zenon DEF Abs!vars, Holder
<1>2. ASSUME UNCHANGED <<blockno, valid, data, disk>> PROVE Contents' = Contents
  BY <1>2, Zenon DEF Contents, Cached
<1>3. ASSUME UNCHANGED <<blockno, held>> PROVE Holder' = Holder
  BY <1>3, Zenon DEF Holder
<1>4. ASSUME NEW p \in Procs, AcquireSleep(p) \/ Unref(p) PROVE UNCHANGED Abs!vars
  <2>1. UNCHANGED <<blockno, valid, data, disk, held>>
    BY <1>4, Zenon DEF AcquireSleep, Unref, bufs, ide
  <2> QED BY <1>1, <1>2, <1>3, <2>1, Zenon
<1>5. ASSUME NEW p \in Procs, BRead(p) \/ IdeWait(p) PROVE Abs!Next \/ UNCHANGED Abs!vars
  <2>1. want[p] \in Bufs /\ (dirty[want[p]] => valid[want[p]])
    BY <1>0, Zenon DEF BlockInv
  <2>2. UNCHANGED <<blockno, valid, data, disk>>
    BY <1>5, <2>1, Zenon DEF BRead, IdeWait, IdeRw, IdeStart, bufs, ide
  <2>3. CASE held' = held
    BY <1>1, <1>2, <1>3, <2>2, <2>3, Zenon
  <2>4. CASE valid[want[p]] /\ held' = [held EXCEPT ![p] = @ \cup {want[p]}]
    <3>1. CASE want[p] \in held[p]
      <4>1. held' = held
        BY <1>0, <2>4, <3>1, Zenon
      <4> QED BY <2>3, <4>1, Zenon
    <3>2. CASE want[p] \notin held[p]
      <4>1. Owns(p, want[p])
        BY <1>5, Zenon DEF BRead, IdeWait, Owns, Busy
      <4>2. PICK n \in Blocks : Holder[n] = {} /\ Holder' = [Holder EXCEPT ![n] = {p}]
        BY <2>2, <2>4, <3>2, <4>1, HolderAdded, Zenon
      <4>3. Abs!Lock(p, n)
        BY <1>2, <2>2, <4>2, Zenon DEF Abs!Lock, Holder
      <4> QED BY <4>3, Zenon DEF Abs!Next
    <3> QED BY <3>1, <3>2, Zenon
  <2> QED
    BY <1>5, <2>3, <2>4, Zenon DEF BRead, IdeWait
<1>6. ASSUME NEW p \in Procs, NEW b \in Bufs, BRelse(p, b) PROVE Abs!Next
  <2>1. /\ UNCHANGED <<blockno, valid, data, disk>> /\ b \in held[p]
        /\ held' = [held EXCEPT ![p] = @ \ {b}]
    BY <1>6, Zenon DEF BRelse, bufs, ide
  <2>2. PICK n \in Blocks : p \in Holder[n] /\ Holder' = [Holder EXCEPT ![n] = @ \ {p}]
    BY <2>1, HolderRemoved, Zenon
  <2>3. Abs!Unlock(p, n)
    BY <1>2, <2>1, <2>2, Zenon DEF Abs!Unlock, Holder
  <2> QED BY <2>3, Zenon DEF Abs!Next
<1>7. ASSUME NEW p \in Procs, NEW b \in Bufs, NEW v \in Vals, LogWrite(p, b, v) \/ BWrite(p, b, v)
      PROVE  Abs!Next
  <2>1. blockno[b] \in Blocks /\ Contents' = [Contents EXCEPT ![blockno[b]] = v]
    BY <1>7, ContentsWritten, Zenon
  <2>2. b \in held[p] /\ UNCHANGED <<blockno, held>>
    BY <1>7, Zenon DEF LogWrite, BWrite, procs
  <2>3. p \in Holder[blockno[b]] /\ Holder' = Holder
    BY <1>3, <2>1, <2>2, Zenon DEF Holder
  <2>4. Abs!Write(p, blockno[b], v)
    BY <2>1, <2>3, Zenon DEF Abs!Write, Holder
  <2> QED BY <2>1, <2>4, Zenon DEF Abs!Next
<1>8. ASSUME NEW p \in Procs, NEW n \in Blocks, NEW b \in Bufs, Hit(p, n, b)
      PROVE  UNCHANGED Abs!vars
  <2>1. UNCHANGED <<blockno, valid, data, disk, held>>
    BY <1>8, Zenon DEF Hit, bufs, ide
  <2> QED BY <1>1, <1>2, <1>3, <2>1, Zenon
<1>9. ASSUME NEW p \in Procs, NEW n \in Blocks, NEW b \in Bufs, Miss(p, n, b)
      PROVE  UNCHANGED Abs!vars
  <2>1. \A q \in Procs : b \notin held[q]
    BY <1>9, NoUser, Zenon DEF Miss, Recyclable, Uses
  <2>2. held' = held /\ \A c \in Bufs : c # b => blockno'[c] = blockno[c]
    BY <1>0, <1>9, Zenon DEF Miss
  <2>3. Holder' = Holder
    <3>1. \A q \in Procs : \A c \in held[q] : blockno'[c] = blockno[c]
      BY <1>0, <2>1, <2>2, Zenon
    <3> QED BY <2>2, <3>1, SMTT(30) DEF Holder
  <2> QED BY <1>1, <1>9, <2>3, ContentsRecycled, Zenon
<1>10. ASSUME IdeIntr PROVE UNCHANGED Abs!vars
  <2>1. UNCHANGED <<blockno, held>>
    BY <1>10, Zenon DEF IdeIntr
  <2> QED BY <1>1, <1>3, <1>10, <2>1, ContentsInterrupt, Zenon
<1>11. CASE NoBuffers \/ UNCHANGED vars
  <2>1. UNCHANGED <<blockno, valid, data, disk, held>>
    BY <1>11, Zenon DEF NoBuffers, vars, bufs, ide, procs
  <2> QED BY <1>1, <1>2, <1>3, <2>1, Zenon
<1> QED
  BY <1>4, <1>5, <1>6, <1>7, <1>8, <1>9, <1>10, <1>11, Zenon DEF Steps

(* The cache is coherent on a disk without errors: however blocks are         *)
(* evicted, read again, pinned, written behind or through the driver's queue, *)
(* each has one contents, changed only by the process that has it locked.     *)
THEOREM CacheCoherent == IoErrors = FALSE => (Spec => Coherent)
<1> SUFFICES ASSUME IoErrors = FALSE PROVE Spec => Coherent
  BY Zenon
<1>1. Init => Abs!Init
  <2> SUFFICES ASSUME Init PROVE Abs!Init
    BY Zenon
  <2>1. Contents \in [Blocks -> Vals]
    BY BufInit, ContentsAt, Zenon DEF ContentsAre
  <2>2. Holder = [n \in Blocks |-> {}]
    BY Zenon DEF Init, Holder
  <2> QED BY <2>1, <2>2, Zenon DEF Abs!Init, Holder
<1>2. IInv /\ DiskInv /\ [Next]_vars => DiskInv'
  BY NextSteps, DiskStep, Zenon DEF IInv
<1>3. IInv /\ IInv' /\ DiskInv /\ [Next]_vars => [Abs!Next]_(Abs!vars)
  BY NextSteps, StoreStep, Zenon DEF IInv
<1> QED
  BY <1>1, <1>2, <1>3, BufInit, Inductive, PTL DEF Spec, Coherent, Abs!Spec
=============================================================================
