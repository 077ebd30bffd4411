----------------------------- MODULE LogProofs -----------------------------
(* Machine-checked proof that log.c implements the atomic disk, for any       *)
(* number of processes, blocks and crashes, as long as transactions fit in    *)
(* the on-disk log.                                                           *)
EXTENDS Log, FiniteSetTheorems, TLAPS

Distinct(s) == \A i, j \in 1..Len(s) : s[i] = s[j] => i = j
Running == machine \in {"up", "panic"}

(* Who commits commits alone. *)
CommitOK ==
  /\ IsFiniteSet(Inside) /\ outstanding = Cardinality(Inside)
  /\ \A p \in Procs : pc[p] \in Committing =>
       /\ committing /\ Inside = {}
       /\ \A q \in Procs : pc[q] \in Committing => q = p

(* The transaction and the header name each block once and fit in the log. *)
HeadOK == Distinct(lh) /\ Distinct(dhead) /\ Len(dhead) <= NLOG - 1

(* What a running machine has in memory and on disk, by the committer's step. *)
InstallOK(n) ==
  /\ n \in 0..Len(lh) /\ dhead = lh
  /\ \A i \in 1..Len(lh) : dlog[i] = cache[lh[i]]
  /\ \A i \in 1..n : home[lh[i]] = cache[lh[i]]
DiskOK ==
  Running =>
    /\ \A b \in Blocks : InLog(b) \/ cache[b] = home[b]
    /\ \A p \in Procs :
         /\ pc[p] = "wlog" =>
              tail \in 0..Len(lh) /\ \A i \in 1..tail : dlog[i] = cache[lh[i]]
         /\ pc[p] = "whead" => \A i \in 1..Len(lh) : dlog[i] = cache[lh[i]]
         /\ pc[p] = "install" => InstallOK(tail)
         /\ pc[p] = "erase" =>
              lh = <<>> /\ \A i \in 1..Len(dhead) : dlog[i] = cache[dhead[i]]
    /\ (\A p \in Procs : pc[p] \notin {"install", "erase"}) => dhead = <<>>

(* A machine that is off or recovers has nothing in memory but the recovery. *)
RecoverOK ==
  ~Running =>
    /\ \A p \in Procs : pc[p] = "out"
    /\ cache = home
    /\ machine = "recover" => tail \in 0..Len(lh) /\ lh = dhead
                              /\ \A i \in 1..tail : home[lh[i]] = dlog[i]
    /\ machine = "clear" =>
         lh = <<>> /\ \A i \in 1..Len(dhead) : home[dhead[i]] = dlog[i]

IInv == TypeOK /\ CommitOK /\ HeadOK /\ DiskOK /\ RecoverOK

(* What recovery makes of home blocks hm under a log dl with header hd. *)
After(hd, dl, hm) ==
  [b \in Blocks |-> IF \E i \in 1..Len(hd) : hd[i] = b
                    THEN dl[CHOOSE i \in 1..Len(hd) : hd[i] = b]
                    ELSE hm[b]]

(* A block that the header names once comes from the log, another from home. *)
LEMMA AfterAt ==
  ASSUME NEW hd \in Seq(Blocks), Distinct(hd), NEW dl, NEW hm
  PROVE  /\ \A i \in 1..Len(hd) : After(hd, dl, hm)[hd[i]] = dl[i]
         /\ \A b \in Blocks : (\A i \in 1..Len(hd) : hd[i] # b) => After(hd, dl, hm)[b] = hm[b]
<1>1. ASSUME NEW i \in 1..Len(hd) PROVE After(hd, dl, hm)[hd[i]] = dl[i]
  <2> DEFINE k == CHOOSE j \in 1..Len(hd) : hd[j] = hd[i]
  <2>1. k \in 1..Len(hd) /\ hd[k] = hd[i]
    BY Zenon
  <2>2. k = i
    BY <2>1, Zenon DEF Distinct
  <2>3. After(hd, dl, hm)[hd[i]] = dl[k]
    BY SMTT(30) DEF After
  <2> QED
    BY <2>2, <2>3, Zenon
<1>2. ASSUME NEW b \in Blocks, \A i \in 1..Len(hd) : hd[i] # b
      PROVE  After(hd, dl, hm)[b] = hm[b]
  BY <1>2, Zenon DEF After
<1> QED
  BY <1>1, <1>2, Zenon

(* Enough for the disk to come back as f. *)
LEMMA AfterIs ==
  ASSUME NEW hd \in Seq(Blocks), Distinct(hd), NEW dl, NEW hm, NEW f \in [Blocks -> Vals],
         \A i \in 1..Len(hd) : dl[i] = f[hd[i]],
         \A b \in Blocks : (\E i \in 1..Len(hd) : hd[i] = b) \/ hm[b] = f[b]
  PROVE  After(hd, dl, hm) = f
<1>1. ASSUME NEW b \in Blocks PROVE After(hd, dl, hm)[b] = f[b]
  <2>1. CASE \E i \in 1..Len(hd) : hd[i] = b
    BY <2>1, AfterAt, SMTT(30)
  <2>2. CASE \A i \in 1..Len(hd) : hd[i] # b
    BY <2>2, AfterAt, SMTT(30)
  <2> QED
    BY <2>1, <2>2, Zenon
<1> QED
  BY <1>1, SMTT(30) DEF After

(* The log starts empty, and is emptied by every commit and recovery. *)
LEMMA NoBlocks == <<>> \in Seq(Blocks) /\ Len(<<>>) = 0 /\ Distinct(<<>>)
<1>1. <<>> \in Seq(Blocks) /\ Len(<<>>) = 0
  BY SMTT(30)
<1> QED
  BY <1>1, SMTT(30) DEF Distinct

(* With an empty header the home blocks are what counts. *)
LEMMA AfterNothing ==
  ASSUME NEW dl, NEW hm \in [Blocks -> Vals] PROVE After(<<>>, dl, hm) = hm
<1>1. ~\E i \in 1..Len(<<>>) : TRUE
  BY NoBlocks, SMTT(30)
<1> QED
  BY <1>1, Zenon DEF After

(* The initial state satisfies the inductive invariant: the log is empty and
   the cache agrees with the disk. *)
LEMMA LogInit == Init => IInv
<1> SUFFICES ASSUME Init PROVE IInv
  BY Zenon
<1>1. Inside = {} /\ Len(lh) = 0 /\ Len(dhead) = 0 /\ lh = <<>> /\ dhead = <<>>
  BY Zenon DEF Init, Inside
<1>2. TypeOK
  <2>1. (CHOOSE v \in Vals : TRUE) \in Vals
    BY LogAssumption, Zenon
  <2>2. home \in [Blocks -> Vals] /\ cache \in [Blocks -> Vals]
        /\ dlog \in [Slots -> Vals]
    BY <2>1, Zenon DEF Init
  <2>3. pc \in [Procs -> Labels] /\ wrote \in [Procs -> SUBSET Blocks]
    BY Zenon DEF Init, Labels
  <2> QED
    BY <2>2, <2>3, NoBlocks, Zenon DEF Init, TypeOK
<1>3. CommitOK
  BY <1>1, FS_EmptySet, Zenon DEF Init, CommitOK, Committing
<1>4. HeadOK
  BY <1>1, LogAssumption, SMTT(30) DEF HeadOK, Distinct
<1>5. DiskOK /\ RecoverOK
  BY <1>1, Zenon DEF Init, DiskOK, RecoverOK, Running
<1> QED
  BY <1>2, <1>3, <1>4, <1>5, Zenon DEF IInv

(* A block read back from the log by install_trans() is a block. *)
LEMMA InstallType ==
  ASSUME TypeOK, LogFits, tail < Len(lh), Install
  PROVE  home' \in [Blocks -> Vals] /\ cache' \in [Blocks -> Vals] /\ tail' \in Nat
<1>1. tail + 1 \in Slots
  BY LogAssumption, SMTT(30) DEF TypeOK, Slots, LogFits
<1>2. dlog[tail + 1] \in Vals
  BY <1>1, Zenon DEF TypeOK
<1> QED
  BY <1>2, SMTT(30) DEF TypeOK, Install

(* Every step keeps the types; a transaction that fits keeps write_log()
   within the on-disk log. *)
LEMMA LogTypeStep == IInv /\ LogFits /\ [Next]_vars => TypeOK'
<1> SUFFICES ASSUME IInv, LogFits, [Next]_vars PROVE TypeOK'
  BY Zenon
<1>t. TypeOK /\ CommitOK
  BY Zenon DEF IInv
<1>0. /\ {"out", "begin", "sleep", "in", "write", "wlog", "whead", "install", "erase", "done"}
           \subseteq Labels
      /\ Woken \in [Procs -> Labels] /\ pc \in [Procs -> Labels]
  BY <1>t, Zenon DEF TypeOK, Woken, Labels, Committing
<1>u. \A p \in Procs, l \in Labels : /\ [pc EXCEPT ![p] = l] \in [Procs -> Labels]
                                     /\ [Woken EXCEPT ![p] = l] \in [Procs -> Labels]
  BY <1>0, Zenon
<1>1. ASSUME NEW p \in Procs, BeginOp(p) PROVE TypeOK'
  <2>1. pc' \in [Procs -> Labels]
    BY <1>0, <1>u, <1>1, Zenon DEF BeginOp, Goto
  <2>2. outstanding' \in Nat /\ wrote' \in [Procs -> SUBSET Blocks]
    <3>1. CASE committing \/ ~HasRoom
      BY <3>1, <1>t, <1>1, Zenon DEF TypeOK, BeginOp
    <3>2. CASE ~(committing \/ ~HasRoom)
      BY <3>2, <1>t, <1>1, SMTT(30) DEF TypeOK, BeginOp
    <3> QED
      BY <3>1, <3>2, Zenon
  <2> QED
    BY <2>1, <2>2, <1>t, <1>1, Zenon DEF TypeOK, BeginOp, disk
<1>2. ASSUME NEW p \in Procs, LogTest(p) PROVE TypeOK'
  <2>1. pc' \in [Procs -> Labels]
    BY <1>0, <1>u, <1>2, Zenon DEF LogTest, Goto
  <2> QED
    BY <2>1, <1>t, <1>2, Zenon DEF TypeOK, LogTest, disk, log
<1>3. ASSUME NEW p \in Procs, NEW b \in Blocks, NEW v \in Vals, LogWrite(p, b, v) PROVE TypeOK'
  <2>0. pc' \in [Procs -> Labels]
    BY <1>0, <1>u, <1>3, Zenon DEF LogWrite, Goto
  <2>1. lh' \in Seq(Blocks)
    BY <1>t, <1>3, SMTT(30) DEF TypeOK, LogWrite
  <2>2. cache' \in [Blocks -> Vals] /\ wrote' \in [Procs -> SUBSET Blocks]
    BY <1>t, <1>3, Zenon DEF TypeOK, LogWrite
  <2>3. over' \in Nat
    <3>1. over \in Nat /\ (over' = over \/ over' = over + 1)
      BY <1>t, <1>3, Zenon DEF TypeOK, LogWrite
    <3> QED BY <3>1, SMTT(30)
  <2> QED
    BY <2>0, <2>1, <2>2, <2>3, <1>t, <1>3, Zenon DEF TypeOK, LogWrite, disk
<1>4. ASSUME NEW p \in Procs, EndOp(p) PROVE TypeOK'
  <2>1. p \in Inside
    BY <1>4, Zenon DEF EndOp, Up, Inside
  <2>2. outstanding # 0
    BY <1>t, <2>1, FS_EmptySet, Zenon DEF CommitOK
  <2>3. pc' \in [Procs -> Labels]
    BY <1>0, <1>u, <1>4, Zenon DEF EndOp, Goto
  <2> QED
    <3>1. outstanding - 1 \in Nat
      BY <2>2, <1>t, SMTT(30) DEF TypeOK
    <3>2. committing' \in BOOLEAN
      BY <1>t, <1>4, Zenon DEF TypeOK, EndOp
    <3> QED
      BY <2>3, <3>1, <3>2, <1>t, <1>4, Zenon DEF TypeOK, EndOp, disk
<1>5. ASSUME NEW p \in Procs, WriteLog(p) PROVE TypeOK'
  <2>1. pc' \in [Procs -> Labels]
    BY <1>0, <1>u, <1>5, Zenon DEF WriteLog, Goto
  <2>2. dlog' \in [Slots -> Vals] /\ tail' \in Nat
    <3>1. tail < Len(lh) => cache[lh[tail + 1]] \in Vals
      BY <1>t, SMTT(30) DEF TypeOK
    <3> QED
      BY SMTT(60), <3>1, <1>t, <1>5 DEF TypeOK, WriteLog
  <2> QED
    BY <2>1, <2>2, <1>t, <1>5, Zenon DEF TypeOK, WriteLog, log
<1>6. ASSUME NEW p \in Procs, WriteHead(p) PROVE TypeOK'
  <2>1. pc' \in [Procs -> Labels]
    BY <1>0, <1>u, <1>6, Zenon DEF WriteHead, Goto
  <2> QED
    BY <2>1, <1>t, <1>6, Zenon DEF TypeOK, WriteHead, log
<1>7. ASSUME NEW p \in Procs, InstallTrans(p) PROVE TypeOK'
  <2>1. pc' \in [Procs -> Labels]
    BY <1>0, <1>u, <1>7, Zenon DEF InstallTrans, Goto
  <2>2. home' \in [Blocks -> Vals] /\ cache' \in [Blocks -> Vals] /\ tail' \in Nat
    <3>1. CASE tail < Len(lh)
      BY <3>1, InstallType, <1>t, <1>7, Zenon DEF InstallTrans
    <3>2. CASE ~(tail < Len(lh))
      BY <3>2, <1>t, <1>7, Zenon DEF TypeOK, InstallTrans
    <3> QED
      BY <3>1, <3>2, Zenon
  <2>3. lh' \in Seq(Blocks)
    BY <1>t, <1>7, NoBlocks, Zenon DEF TypeOK, InstallTrans
  <2> QED
    BY <2>1, <2>2, <2>3, <1>t, <1>7, Zenon DEF TypeOK, InstallTrans
<1>8. ASSUME NEW p \in Procs, EraseHead(p) PROVE TypeOK'
  <2>1. pc' \in [Procs -> Labels]
    BY <1>0, <1>u, <1>8, Zenon DEF EraseHead, Goto
  <2> QED
    BY <2>1, <1>t, <1>8, Zenon DEF TypeOK, EraseHead, log
<1>9. ASSUME NEW p \in Procs, EndCommit(p) PROVE TypeOK'
  <2>1. pc' \in [Procs -> Labels]
    BY <1>0, <1>u, <1>9, Zenon DEF EndCommit
  <2> QED
    BY <2>1, <1>t, <1>9, Zenon DEF TypeOK, EndCommit, disk
<1>10. CASE Crash
  <2>1. pc' \in [Procs -> Labels] /\ wrote' \in [Procs -> SUBSET Blocks]
    BY <1>0, <1>10, Zenon DEF Crash
  <2> QED
    BY <2>1, <1>t, <1>10, NoBlocks, Zenon DEF TypeOK, Crash, disk
<1>11. CASE ReadHead
  BY <1>t, <1>11, Zenon DEF TypeOK, ReadHead, disk
<1>12. CASE Recover
  <2>2. home' \in [Blocks -> Vals] /\ cache' \in [Blocks -> Vals] /\ tail' \in Nat
    <3>1. CASE tail < Len(lh)
      BY <3>1, InstallType, <1>t, <1>12, Zenon DEF Recover
    <3>2. CASE ~(tail < Len(lh))
      BY <3>2, <1>t, <1>12, Zenon DEF TypeOK, Recover
    <3> QED
      BY <3>1, <3>2, Zenon
  <2>3. lh' \in Seq(Blocks) /\ machine' \in {"up", "off", "recover", "clear", "panic"}
    BY <1>t, <1>12, NoBlocks, Zenon DEF TypeOK, Recover
  <2> QED
    BY <2>2, <2>3, <1>t, <1>12, Zenon DEF TypeOK, Recover
<1>13. CASE ClearHead
  BY <1>t, <1>13, Zenon DEF TypeOK, ClearHead, log
<1>14. CASE UNCHANGED vars
  BY <1>t, <1>14, Zenon DEF TypeOK, vars, log, disk
<1> QED
  BY <1>1, <1>2, <1>3, <1>4, <1>5, <1>6, <1>7, <1>8, <1>9, <1>10, <1>11, <1>12, <1>13, <1>14, Zenon
     DEF Next, Step

(* Steps that leave every process where it is as far as calls go. *)
LEMMA InsideFrame ==
  ASSUME CommitOK, Inside' = Inside, outstanding' = outstanding, committing' = committing,
         \A p \in Procs : pc'[p] \in Committing => pc[p] \in Committing
  PROVE  CommitOK'
BY Zenon DEF CommitOK, Committing

(* Every step keeps the counting of calls, and the committer alone: begin_op()
   lets nobody in while committing is set. *)
LEMMA LogCommitStep == IInv /\ [Next]_vars => CommitOK'
<1> SUFFICES ASSUME IInv, [Next]_vars PROVE CommitOK'
  BY Zenon
<1>t. TypeOK /\ CommitOK /\ pc \in [Procs -> Labels]
  BY Zenon DEF IInv, TypeOK
<1>w. \A p \in Procs : Woken[p] = (IF pc[p] = "sleep" THEN "begin" ELSE pc[p])
  BY Zenon DEF Woken
<1>1. ASSUME NEW p \in Procs, BeginOp(p) PROVE CommitOK'
  <2>1. CASE committing \/ ~HasRoom
    <3>1. Inside' = Inside /\ \A q \in Procs : pc'[q] \in Committing => pc[q] \in Committing
      BY <2>1, <1>t, <1>1, Zenon DEF BeginOp, Goto, Inside, Committing
    <3> QED
      BY <3>1, <2>1, <1>t, <1>1, InsideFrame, Zenon DEF BeginOp
  <2>2. CASE ~(committing \/ ~HasRoom)
    <3>1. Inside' = Inside \cup {p} /\ p \notin Inside
      BY <2>2, <1>t, <1>1, Zenon DEF BeginOp, Goto, Inside
    <3>2. IsFiniteSet(Inside') /\ Cardinality(Inside') = outstanding'
      BY <3>1, <2>2, <1>t, <1>1, FS_AddElement, Zenon DEF BeginOp, CommitOK
    <3>3. \A q \in Procs : pc'[q] \notin Committing
      BY <2>2, <1>t, <1>1, Zenon DEF BeginOp, Goto, Committing, CommitOK
    <3> QED
      BY <3>2, <3>3, Zenon DEF CommitOK, Committing
  <2> QED
    BY <2>1, <2>2, Zenon
<1>2. ASSUME NEW p \in Procs, LogTest(p) PROVE CommitOK'
  <2>1. Inside' = Inside /\ \A q \in Procs : pc'[q] \in Committing => pc[q] \in Committing
    BY <1>t, <1>2, Zenon DEF LogTest, Up, Goto, Inside, Committing
  <2> QED
    BY <2>1, <1>t, <1>2, InsideFrame, Zenon DEF LogTest, log
<1>3. ASSUME NEW p \in Procs, NEW b \in Blocks, NEW v \in Vals, LogWrite(p, b, v) PROVE CommitOK'
  <2>1. Inside' = Inside /\ \A q \in Procs : pc'[q] \in Committing => pc[q] \in Committing
    BY <1>t, <1>3, Zenon DEF LogWrite, Up, Goto, Inside, Committing
  <2> QED
    BY <2>1, <1>t, <1>3, InsideFrame, Zenon DEF LogWrite
<1>4. ASSUME NEW p \in Procs, EndOp(p) PROVE CommitOK'
  <2>1. Inside' = Inside \ {p} /\ p \in Inside
    BY <1>t, <1>w, <1>4, Zenon DEF EndOp, Up, Goto, Inside, Woken
  <2>2. IsFiniteSet(Inside') /\ Cardinality(Inside') = outstanding'
    BY <2>1, <1>t, <1>4, FS_RemoveElement, Zenon DEF EndOp, CommitOK
  <2>3. \A q \in Procs : pc[q] \notin Committing
    BY <2>1, <1>t, Zenon DEF CommitOK
  <2>4. CASE outstanding = 1
    <3>1. Cardinality(Inside') = 0
      BY <2>2, <2>4, <1>4, SMTT(30) DEF EndOp
    <3>2. Inside' = {}
      BY <3>1, <2>2, FS_EmptySet, Zenon
    <3>3. \A q \in Procs : pc'[q] \in Committing => q = p
      BY <2>3, <2>4, <1>t, <1>4, Zenon DEF EndOp, Goto
    <3>4. committing'
      BY <2>4, <1>4, Zenon DEF EndOp
    <3> QED
      BY <2>2, <3>2, <3>3, <3>4, Zenon DEF CommitOK, Committing
  <2>5. CASE outstanding # 1
    <3>1. \A q \in Procs : pc'[q] \notin Committing
      BY <2>3, <2>5, <1>t, <1>w, <1>4, Zenon DEF EndOp, Committing, Woken
    <3> QED
      BY <2>2, <3>1, Zenon DEF CommitOK, Committing
  <2> QED
    BY <2>4, <2>5, Zenon
<1>5. ASSUME NEW p \in Procs, WriteLog(p) PROVE CommitOK'
  <2>1. Inside' = Inside /\ \A q \in Procs : pc'[q] \in Committing => pc[q] \in Committing
    BY <1>t, <1>5, Zenon DEF WriteLog, Up, Goto, Inside, Committing
  <2> QED
    BY <2>1, <1>t, <1>5, InsideFrame, Zenon DEF WriteLog, log
<1>6. ASSUME NEW p \in Procs, WriteHead(p) PROVE CommitOK'
  <2>1. Inside' = Inside /\ \A q \in Procs : pc'[q] \in Committing => pc[q] \in Committing
    BY <1>t, <1>6, Zenon DEF WriteHead, Up, Goto, Inside, Committing
  <2> QED
    BY <2>1, <1>t, <1>6, InsideFrame, Zenon DEF WriteHead, log
<1>7. ASSUME NEW p \in Procs, InstallTrans(p) PROVE CommitOK'
  <2>1. Inside' = Inside /\ \A q \in Procs : pc'[q] \in Committing => pc[q] \in Committing
    BY <1>t, <1>7, Zenon DEF InstallTrans, Up, Goto, Inside, Committing
  <2> QED
    BY <2>1, <1>t, <1>7, InsideFrame, Zenon DEF InstallTrans
<1>8. ASSUME NEW p \in Procs, EraseHead(p) PROVE CommitOK'
  <2>1. Inside' = Inside /\ \A q \in Procs : pc'[q] \in Committing => pc[q] \in Committing
    BY <1>t, <1>8, Zenon DEF EraseHead, Up, Goto, Inside, Committing
  <2> QED
    BY <2>1, <1>t, <1>8, InsideFrame, Zenon DEF EraseHead, log
<1>9. ASSUME NEW p \in Procs, EndCommit(p) PROVE CommitOK'
  <2>1. Inside' = Inside
    BY <1>t, <1>w, <1>9, Zenon DEF EndCommit, Up, Inside, Woken
  <2>2. pc[p] \in Committing
    BY <1>9, Zenon DEF EndCommit, Up, Committing
  <2>3. \A q \in Procs : pc'[q] \notin Committing
    BY <2>2, <1>t, <1>w, <1>9, Zenon DEF EndCommit, CommitOK, Committing, Woken
  <2> QED
    BY <2>1, <2>3, <1>t, <1>9, Zenon DEF EndCommit, CommitOK, Committing
<1>10. CASE Crash
  <2>1. Inside' = {} /\ \A q \in Procs : pc'[q] \notin Committing
    BY <1>10, Zenon DEF Crash, Inside, Committing
  <2> QED
    BY <2>1, <1>10, FS_EmptySet, Zenon DEF Crash, CommitOK, Committing
<1>11. CASE ReadHead \/ Recover \/ ClearHead \/ UNCHANGED vars
  <2>1. UNCHANGED <<pc, outstanding, committing>>
    BY <1>11, Zenon DEF ReadHead, Recover, ClearHead, vars, log
  <2> QED
    BY <2>1, <1>t, InsideFrame, Zenon DEF Inside
<1> QED
  BY <1>1, <1>2, <1>3, <1>4, <1>5, <1>6, <1>7, <1>8, <1>9, <1>10, <1>11, Zenon DEF Next, Step

(* Every step keeps the block numbers of the transaction, and of the header on
   disk, distinct: log_write() absorbs a block it has. *)
LEMMA LogHeadStep == IInv /\ LogFits /\ [Next]_vars => HeadOK'
<1> SUFFICES ASSUME IInv, LogFits, [Next]_vars PROVE HeadOK'
  BY Zenon
<1>t. TypeOK /\ HeadOK
  BY Zenon DEF IInv
<1>1. Distinct(lh')
  <2>1. CASE lh' = lh \/ lh' = <<>> \/ lh' = dhead
    BY <2>1, <1>t, NoBlocks, Zenon DEF HeadOK
  <2>2. ASSUME NEW p \in Procs, NEW b \in Blocks, NEW v \in Vals, LogWrite(p, b, v), ~InLog(b)
        PROVE  Distinct(lh')
    <3>1. lh' = Append(lh, b) /\ lh \in Seq(Blocks)
      BY <1>t, <2>2, Zenon DEF LogWrite, TypeOK
    <3>2. Len(lh') = Len(lh) + 1 /\ lh'[Len(lh) + 1] = b
          /\ \A i \in 1..Len(lh) : lh'[i] = lh[i] /\ lh[i] # b
      BY <3>1, <2>2, SMTT(30) DEF InLog
    <3> QED
      BY <3>1, <3>2, <1>t, SMTT(30) DEF HeadOK, Distinct
  <2>3. \/ lh' = lh \/ lh' = <<>> \/ lh' = dhead
        \/ \E p \in Procs, b \in Blocks, v \in Vals : LogWrite(p, b, v) /\ ~InLog(b)
    BY ZenonT(60) DEF Next, Step, BeginOp, LogTest, LogWrite, EndOp, WriteLog, WriteHead, InstallTrans,
           EraseHead, EndCommit, Crash, ReadHead, Recover, ClearHead, vars, log
  <2> QED
    BY <2>1, <2>2, <2>3, Zenon
<1>2. dhead' = dhead \/ dhead' = lh
  BY Zenon DEF Next, Step, BeginOp, LogTest, LogWrite, EndOp, WriteLog, WriteHead, InstallTrans,
         EraseHead, EndCommit, Crash, ReadHead, Recover, ClearHead, vars, log, disk
<1> QED
  BY <1>1, <1>2, <1>t, Zenon DEF HeadOK, LogFits, Distinct

(* The claims about the disk stand when nobody enters or leaves a commit step. *)
LEMMA DiskFrame ==
  ASSUME DiskOK, UNCHANGED <<lh, cache, home, dlog, dhead, tail>>, Running' => Running,
         \A q \in Procs : \A l \in {"wlog", "whead", "install", "erase"} :
           (pc'[q] = l) = (pc[q] = l)
  PROVE  DiskOK'
<1>1. \A q \in Procs : /\ pc'[q] = "wlog" => pc[q] = "wlog"
                       /\ pc'[q] = "whead" => pc[q] = "whead"
                       /\ pc'[q] = "install" => pc[q] = "install"
                       /\ pc'[q] = "erase" => pc[q] = "erase"
                       /\ pc[q] \in {"install", "erase"} => pc'[q] \in {"install", "erase"}
  BY Zenon
<1> QED
  BY <1>1, Zenon DEF DiskOK, InLog, InstallOK

(* While nobody commits, only the relation of cache, log and disk counts. *)
LEMMA DiskIdle ==
  ASSUME \A p \in Procs : pc'[p] \notin Committing, dhead' = <<>>,
         \A b \in Blocks : InLog(b)' \/ cache'[b] = home'[b]
  PROVE  DiskOK'
BY Zenon DEF DiskOK, Committing

(* Every step keeps what is known of the disk at each label of commit(): how
   far the log is written, and how far it is installed. *)
LEMMA LogDiskStep == IInv /\ LogFits /\ [Next]_vars => DiskOK'
<1> SUFFICES ASSUME IInv, LogFits, [Next]_vars PROVE DiskOK'
  BY Zenon
<1>t. TypeOK /\ CommitOK /\ HeadOK /\ DiskOK /\ RecoverOK /\ pc \in [Procs -> Labels]
  BY Zenon DEF IInv, TypeOK
<1>w. \A p \in Procs : Woken[p] = (IF pc[p] = "sleep" THEN "begin" ELSE pc[p])
  BY Zenon DEF Woken
<1>i. ASSUME Inside # {} PROVE \A p \in Procs : pc[p] \notin Committing
  BY <1>i, <1>t, Zenon DEF CommitOK
<1>d. ASSUME Running, \A p \in Procs : pc[p] \notin Committing
      PROVE  dhead = <<>> /\ \A b \in Blocks : InLog(b) \/ cache[b] = home[b]
  BY <1>d, <1>t, Zenon DEF DiskOK, Committing
<1>o. \A p \in Procs : pc[p] \in Committing => \A q \in Procs \ {p} : pc[q] \notin Committing
  BY <1>t, Zenon DEF CommitOK
<1>u. \A l : \A p \in Procs : Up(p, l) => Running
  BY Zenon DEF Up, Running
<1>1. ASSUME NEW p \in Procs, BeginOp(p) PROVE DiskOK'
  <2>1. \A q \in Procs : \A l \in {"wlog", "whead", "install", "erase"} :
           (pc'[q] = l) = (pc[q] = l)
    BY <1>t, <1>1, Zenon DEF BeginOp, Goto
  <2> QED
    BY <2>1, <1>1, <1>t, DiskFrame, Zenon DEF BeginOp, disk, Running
<1>2. ASSUME NEW p \in Procs, LogTest(p) PROVE DiskOK'
  <2>1. \A q \in Procs : \A l \in {"wlog", "whead", "install", "erase"} :
           (pc'[q] = l) = (pc[q] = l)
    BY <1>t, <1>2, Zenon DEF LogTest, Up, Goto
  <2> QED
    BY <2>1, <1>2, <1>u, <1>t, DiskFrame, Zenon DEF LogTest, disk, log
<1>3. ASSUME NEW p \in Procs, NEW b \in Blocks, NEW v \in Vals, LogWrite(p, b, v) PROVE DiskOK'
  <2>0. p \in Inside /\ Running
    BY <1>3, <1>u, Zenon DEF LogWrite, Up, Inside
  <2>1. \A q \in Procs : pc[q] \notin Committing
    BY <2>0, <1>i, Zenon
  <2>2. \A q \in Procs : pc'[q] \notin Committing
    BY <2>1, <1>3, <1>t, Zenon DEF LogWrite, Goto, Committing
  <2>3. dhead' = <<>> /\ home' = home
    BY <2>0, <2>1, <1>d, <1>3, Zenon DEF LogWrite, disk
  <2>4. \A c \in Blocks : InLog(c) => InLog(c)'
    BY SMTT(60), <1>3, <1>t DEF LogWrite, InLog, TypeOK
  <2>5. InLog(b)'
    <3>1. CASE InLog(b)
      BY <2>4, <3>1, Zenon
    <3>2. CASE ~InLog(b)
      <4>1. lh' = Append(lh, b) /\ lh \in Seq(Blocks)
        BY <1>3, <1>t, <3>2, Zenon DEF LogWrite, TypeOK
      <4>2. Len(lh') = Len(lh) + 1 /\ lh'[Len(lh) + 1] = b /\ Len(lh) \in Nat
        BY <4>1, SMTT(30)
      <4> QED
        BY <4>2, SMTT(30) DEF InLog
    <3> QED
      BY <3>1, <3>2, Zenon
  <2>6. \A c \in Blocks : c # b => cache'[c] = cache[c]
    BY <1>3, <1>t, Zenon DEF LogWrite, TypeOK
  <2>7. \A c \in Blocks : InLog(c)' \/ cache'[c] = home'[c]
    BY <2>0, <2>1, <2>3, <2>4, <2>5, <2>6, <1>d, Zenon
  <2> QED
    BY <2>2, <2>3, <2>7, DiskIdle, Zenon
<1>4. ASSUME NEW p \in Procs, EndOp(p) PROVE DiskOK'
  <2>0. p \in Inside /\ Running
    BY <1>4, <1>u, Zenon DEF EndOp, Up, Inside
  <2>1. \A q \in Procs : pc[q] \notin Committing
    BY <2>0, <1>i, Zenon
  <2>2. dhead' = <<>> /\ \A b \in Blocks : InLog(b)' \/ cache'[b] = home'[b]
    BY <2>0, <2>1, <1>d, <1>4, Zenon DEF EndOp, disk, InLog
  <2>3. CASE outstanding = 1
    <3>1. \A q \in Procs : pc'[q] \in {"wlog", "done"} \/ pc'[q] \notin Committing
      BY <2>1, <2>3, <1>t, <1>4, Zenon DEF EndOp, Goto
    <3>2. tail' = 0 /\ 0 \in 0..Len(lh') /\ \A i \in 1..tail' : FALSE
      BY <1>t, <1>4, SMTT(30) DEF EndOp, TypeOK
    <3> QED
      BY <2>2, <3>1, <3>2, Zenon DEF DiskOK, Committing
  <2>4. CASE outstanding # 1
    <3>1. \A q \in Procs : pc'[q] \notin Committing
      BY <2>1, <2>4, <1>t, <1>w, <1>4, Zenon DEF EndOp, Committing, Woken
    <3> QED
      BY <2>2, <3>1, DiskIdle, Zenon
  <2> QED
    BY <2>3, <2>4, Zenon
<1>5. ASSUME NEW p \in Procs, WriteLog(p) PROVE DiskOK'
  <2>0. pc[p] = "wlog" /\ Running /\ pc[p] \in Committing
    BY <1>5, <1>u, Zenon DEF WriteLog, Up, Committing
  <2>1. \A q \in Procs \ {p} : pc'[q] \notin Committing
    BY <2>0, <1>o, <1>5, <1>t, Zenon DEF WriteLog, Goto
  <2>2. dhead' = <<>> /\ \A b \in Blocks : InLog(b)' \/ cache'[b] = home'[b]
    <3>1. \A q \in Procs : pc[q] \notin {"install", "erase"}
      BY <2>0, <1>o, Zenon DEF Committing
    <3> QED
      BY <3>1, <2>0, <1>t, <1>5, Zenon DEF WriteLog, DiskOK, InLog, log
  <2>3. tail \in 0..Len(lh) /\ \A i \in 1..tail : dlog[i] = cache[lh[i]]
    BY <2>0, <1>t, Zenon DEF DiskOK
  <2>4. CASE tail < Len(lh)
    <3>1. pc'[p] = "wlog" /\ lh' = lh /\ cache' = cache /\ tail' = tail + 1
      BY <2>0, <2>4, <1>5, Zenon DEF WriteLog, log
    <3>2. tail + 1 \in Slots
      BY <2>3, <2>4, LogAssumption, SMTT(30) DEF Slots, LogFits
    <3>3. \A i \in 1..tail + 1 : dlog'[i] = cache[lh[i]]
      <4>1. dlog' = [dlog EXCEPT ![tail + 1] = cache[lh[tail + 1]]] /\ dlog \in [Slots -> Vals]
        BY <2>4, <1>5, <1>t, Zenon DEF WriteLog, TypeOK
      <4>2. dlog'[tail + 1] = cache[lh[tail + 1]]
        BY <4>1, <3>2, Zenon
      <4>3. \A i \in 1..tail : i \in Slots /\ i # tail + 1
        BY <2>3, <3>2, LogAssumption, SMTT(30) DEF Slots
      <4>4. \A i \in 1..tail : dlog'[i] = dlog[i]
        BY <4>1, <4>3, Zenon
      <4>5. \A i \in 1..tail + 1 : i \in 1..tail \/ i = tail + 1
        BY <2>3, SMTT(30)
      <4> QED
        BY <2>3, <4>2, <4>4, <4>5, Zenon
    <3>4. tail' \in 0..Len(lh')
      BY <2>3, <2>4, <3>1, SMTT(30)
    <3> QED
      BY <2>1, <2>2, <3>1, <3>3, <3>4, Zenon DEF DiskOK, Committing
  <2>5. CASE ~(tail < Len(lh))
    <3>1. pc'[p] = "whead" /\ lh' = lh /\ cache' = cache /\ dlog' = dlog
      BY <2>0, <2>5, <1>5, <1>t, Zenon DEF WriteLog, log, Goto
    <3>2. \A i \in 1..Len(lh') : dlog'[i] = cache'[lh'[i]]
      BY <2>3, <2>5, <3>1, SMTT(30)
    <3> QED
      BY <2>1, <2>2, <3>1, <3>2, Zenon DEF DiskOK, Committing
  <2> QED
    BY <2>4, <2>5, Zenon
<1>6. ASSUME NEW p \in Procs, WriteHead(p) PROVE DiskOK'
  <2>0. pc[p] = "whead" /\ Running /\ pc[p] \in Committing
    BY <1>6, <1>u, Zenon DEF WriteHead, Up, Committing
  <2>1. \A q \in Procs \ {p} : pc'[q] \notin Committing
    BY <2>0, <1>o, <1>6, <1>t, Zenon DEF WriteHead, Goto
  <2>2. pc'[p] = "install" /\ UNCHANGED <<lh, cache, home, dlog>> /\ dhead' = lh /\ tail' = 0
    BY <1>6, <1>t, Zenon DEF WriteHead, Goto, log
  <2>3. \A b \in Blocks : InLog(b)' \/ cache'[b] = home'[b]
    BY <2>0, <2>2, <1>t, Zenon DEF DiskOK, InLog
  <2>4. (\A i \in 1..Len(lh) : dlog[i] = cache[lh[i]]) /\ Len(lh) \in Nat
    BY <2>0, <1>t, SMTT(30) DEF DiskOK, TypeOK
  <2>5. InstallOK(tail)'
    BY <2>2, <2>4, SMTT(30) DEF InstallOK
  <2> QED
    BY <2>1, <2>2, <2>3, <2>5, Zenon DEF DiskOK, Committing
<1>7. ASSUME NEW p \in Procs, InstallTrans(p) PROVE DiskOK'
  <2>0. pc[p] = "install" /\ Running /\ pc[p] \in Committing
    BY <1>7, <1>u, Zenon DEF InstallTrans, Up, Committing
  <2>1. \A q \in Procs \ {p} : pc'[q] \notin Committing
    BY <2>0, <1>o, <1>7, <1>t, Zenon DEF InstallTrans, Goto
  <2>2. InstallOK(tail) /\ \A b \in Blocks : InLog(b) \/ cache[b] = home[b]
    BY <2>0, <1>t, Zenon DEF DiskOK
  <2>3. CASE tail < Len(lh)
    <3>0. UNCHANGED <<lh, dlog, dhead>> /\ pc'[p] = "install" /\ tail' = tail + 1
      BY <2>0, <2>3, <1>7, Zenon DEF InstallTrans, Install
    <3>1. tail + 1 \in 1..Len(lh) /\ tail \in Nat /\ Len(lh) \in Nat
      BY <2>2, <2>3, <1>t, SMTT(30) DEF InstallOK, TypeOK
    <3>2. lh[tail + 1] \in Blocks /\ dlog[tail + 1] = cache[lh[tail + 1]]
      BY <3>1, <2>2, <1>t, SMTT(30) DEF InstallOK, TypeOK
    <3>3. cache' = cache
      BY <3>2, <2>3, <1>7, <1>t, Zenon DEF InstallTrans, Install, TypeOK
    <3>4. home' = [home EXCEPT ![lh[tail + 1]] = cache[lh[tail + 1]]]
      BY <3>2, <2>3, <1>7, Zenon DEF InstallTrans, Install
    <3>5. \A b \in Blocks : home[b] = cache[b] => home'[b] = cache[b]
      BY <3>4, <1>t, Zenon DEF TypeOK
    <3>6. home'[lh[tail + 1]] = cache[lh[tail + 1]]
      BY <3>2, <3>4, <1>t, Zenon DEF TypeOK
    <3>7. \A i \in 1..tail + 1 : home'[lh[i]] = cache[lh[i]]
      <4> TAKE i \in 1..tail + 1
      <4>1. CASE i = tail + 1
        BY <4>1, <3>6, Zenon
      <4>2. CASE i # tail + 1
        <5>1. i \in 1..tail /\ i \in 1..Len(lh)
          BY <4>2, <3>1, SMTT(30)
        <5>2. lh[i] \in Blocks
          BY <5>1, <1>t, SMTT(30) DEF TypeOK
        <5> QED
          BY <5>1, <5>2, <3>5, <2>2, Zenon DEF InstallOK
      <4> QED
        BY <4>1, <4>2, Zenon
    <3>8. InstallOK(tail)'
      BY <3>0, <3>1, <3>3, <3>7, <2>2, SMTT(30) DEF InstallOK
    <3>9. \A b \in Blocks : InLog(b)' \/ cache'[b] = home'[b]
      BY <3>0, <3>3, <3>5, <2>2, Zenon DEF InLog
    <3> QED
      BY <2>1, <3>0, <3>8, <3>9, Zenon DEF DiskOK, Committing
  <2>4. CASE ~(tail < Len(lh))
    <3>0. UNCHANGED <<home, cache, dlog, dhead>> /\ pc'[p] = "erase" /\ lh' = <<>>
      BY <2>4, <1>7, <1>t, Zenon DEF InstallTrans, Goto
    <3>1. tail = Len(lh)
      BY SMTT(60), <2>2, <2>4 DEF InstallOK
    <3>2. \A b \in Blocks : cache[b] = home[b]
      BY <3>1, <2>2, Zenon DEF InstallOK, InLog
    <3>3. \A i \in 1..Len(dhead) : dlog[i] = cache[dhead[i]]
      BY <2>2, Zenon DEF InstallOK
    <3> QED
      BY <2>1, <3>0, <3>2, <3>3, Zenon DEF DiskOK, Committing
  <2> QED
    BY <2>3, <2>4, Zenon
<1>8. ASSUME NEW p \in Procs, EraseHead(p) PROVE DiskOK'
  <2>0. pc[p] = "erase" /\ Running /\ pc[p] \in Committing
    BY <1>8, <1>u, Zenon DEF EraseHead, Up, Committing
  <2>1. \A q \in Procs \ {p} : pc'[q] \notin Committing
    BY <2>0, <1>o, <1>8, <1>t, Zenon DEF EraseHead, Goto
  <2>2. pc'[p] = "done" /\ UNCHANGED <<lh, cache, home>> /\ dhead' = <<>>
    BY <2>0, <1>8, <1>t, Zenon DEF EraseHead, Goto, log, DiskOK
  <2>3. \A b \in Blocks : InLog(b)' \/ cache'[b] = home'[b]
    BY <2>0, <2>2, <1>t, Zenon DEF DiskOK, InLog
  <2> QED
    BY <2>1, <2>2, <2>3, Zenon DEF DiskOK, Committing
<1>9. ASSUME NEW p \in Procs, EndCommit(p) PROVE DiskOK'
  <2>1. \A q \in Procs : \A l \in {"wlog", "whead", "install", "erase"} :
           (pc'[q] = l) = (pc[q] = l)
    BY <1>t, <1>w, <1>9, Zenon DEF EndCommit, Up, Woken
  <2> QED
    BY <2>1, <1>9, <1>t, DiskFrame, Zenon DEF EndCommit, disk, Running
<1>10. CASE Crash \/ ReadHead \/ Recover
  BY <1>10, Zenon DEF Crash, ReadHead, Recover, DiskOK, Running
<1>11. CASE ClearHead
  <2>1. \A q \in Procs : pc'[q] \notin Committing
    BY <1>11, <1>t, Zenon DEF ClearHead, RecoverOK, Running, Committing
  <2>2. dhead' = <<>> /\ cache' = home'
    BY <1>11, <1>t, Zenon DEF ClearHead, RecoverOK, Running
  <2> QED
    BY <2>1, <2>2, DiskIdle, Zenon
<1>12. CASE UNCHANGED vars
  BY <1>12, <1>t, DiskFrame, Zenon DEF vars, log, disk, Running
<1> QED
  BY <1>1, <1>2, <1>3, <1>4, <1>5, <1>6, <1>7, <1>8, <1>9, <1>10, <1>11, <1>12, Zenon DEF Next, Step

(* Every step keeps what is known of the disk during recovery: what is
   installed so far is what the log says. *)
LEMMA LogRecoverStep == IInv /\ LogFits /\ [Next]_vars => RecoverOK'
<1> SUFFICES ASSUME IInv, LogFits, [Next]_vars PROVE RecoverOK'
  BY Zenon
<1>t. TypeOK /\ HeadOK /\ RecoverOK
  BY Zenon DEF IInv
<1>1. CASE \E p \in Procs : BeginOp(p) \/ Step(p)
  <2>1. Running'
    BY <1>1, Zenon DEF Step, BeginOp, LogTest, LogWrite, EndOp, WriteLog, WriteHead, InstallTrans,
                EraseHead, EndCommit, Up, Running
  <2> QED
    BY <2>1, Zenon DEF RecoverOK
<1>2. CASE Crash
  BY <1>2, Zenon DEF Crash, disk, RecoverOK, Running
<1>3. CASE ReadHead
  <2>1. Len(dhead) \in Nat
    BY <1>t, SMTT(30) DEF TypeOK
  <2> QED
    BY <2>1, <1>3, <1>t, SMTT(30) DEF ReadHead, disk, RecoverOK, Running
<1>4. CASE Recover
  <2>0. /\ \A p \in Procs : pc'[p] = "out"
        /\ tail \in 0..Len(lh) /\ lh = dhead /\ \A i \in 1..tail : home[lh[i]] = dlog[i]
        /\ cache = home
    BY <1>4, <1>t, Zenon DEF Recover, RecoverOK, Running
  <2>1. CASE tail < Len(lh)
    <3>0. UNCHANGED <<lh, dlog, dhead, machine>> /\ tail' = tail + 1
      BY <2>1, <1>4, Zenon DEF Recover, Install
    <3>1. tail + 1 \in 1..Len(lh) /\ tail \in Nat /\ Len(lh) \in Nat
      BY <2>0, <2>1, <1>t, SMTT(30) DEF TypeOK
    <3>2. lh[tail + 1] \in Blocks
      BY <3>1, <1>t, SMTT(30) DEF TypeOK
    <3>3. cache' = home' /\ home' = [home EXCEPT ![lh[tail + 1]] = dlog[tail + 1]]
      BY <2>0, <2>1, <1>4, Zenon DEF Recover, Install
    <3>4. \A i \in 1..tail + 1 : home'[lh[i]] = dlog[i]
      <4> TAKE i \in 1..tail + 1
      <4>1. CASE i = tail + 1
        BY <4>1, <3>2, <3>3, <1>t, Zenon DEF TypeOK
      <4>2. CASE i # tail + 1
        <5>1. i \in 1..tail /\ i \in 1..Len(lh)
          BY <4>2, <3>1, SMTT(30)
        <5>2. lh[i] \in Blocks /\ lh[i] # lh[tail + 1]
          BY <5>1, <4>2, <3>1, <1>t, SMTT(30) DEF TypeOK, HeadOK, Distinct
        <5> QED
          BY <5>1, <5>2, <3>3, <2>0, <1>t, Zenon DEF TypeOK
      <4> QED
        BY <4>1, <4>2, Zenon
    <3>5. tail' \in 0..Len(lh')
      BY <3>0, <3>1, SMTT(30)
    <3> QED
      BY <2>0, <3>0, <3>3, <3>4, <3>5, <1>4, Zenon DEF RecoverOK, Recover
  <2>2. CASE ~(tail < Len(lh))
    <3>1. tail = Len(lh)
      BY <2>0, <2>2, SMTT(30)
    <3>2. lh' = <<>> /\ machine' = "clear" /\ UNCHANGED <<home, cache, dlog, dhead>>
      BY <2>2, <1>4, Zenon DEF Recover
    <3> QED
      BY <2>0, <3>1, <3>2, Zenon DEF RecoverOK
  <2> QED
    BY <2>1, <2>2, Zenon
<1>5. CASE ClearHead
  BY <1>5, Zenon DEF ClearHead, RecoverOK, Running
<1>6. CASE UNCHANGED vars
  BY <1>6, <1>t, Zenon DEF vars, log, disk, RecoverOK, Running
<1> QED
  BY <1>1, <1>2, <1>3, <1>4, <1>5, <1>6, Zenon DEF Next

(* The invariant is inductive as long as the transaction fits in the log. *)
LEMMA LogStep == IInv /\ LogFits /\ [Next]_vars => IInv'
BY LogTypeStep, LogCommitStep, LogHeadStep, LogDiskStep, LogRecoverStep, Zenon DEF IInv

(* Durable, before and after a step. *)
LEMMA DurableAfter == /\ Durable = After(dhead, dlog, home)
                      /\ Durable' = After(dhead', dlog', home')
BY Zenon DEF Durable, After

(* Every initial state of the log is one of the atomic disk. *)
LEMMA AbsInit == Init => Abs!Init
<1> SUFFICES ASSUME Init PROVE Abs!Init
  BY Zenon
<1>1. dhead = <<>> /\ machine = "up" /\ cache = home /\ home \in [Blocks -> Vals]
  BY Zenon DEF Init
<1>2. Durable = home
  BY <1>1, DurableAfter, AfterNothing, Zenon
<1>3. Inside = {}
  BY Zenon DEF Init, Inside
<1> QED
  BY <1>1, <1>2, <1>3, Zenon DEF Abs!Init

(* What the calls see: the cache, or after a crash what recovery will make. *)
Seen == IF machine \in {"up", "panic"} THEN cache ELSE Durable

(* Every step of the log is one of the atomic disk or leaves it as it is. *)
LEMMA AbsStep == IInv /\ IInv' /\ [Next]_vars => [Abs!Next]_(Abs!vars)
<1> SUFFICES ASSUME IInv, IInv', [Next]_vars
             PROVE  Abs!Next \/ UNCHANGED <<Durable, Seen, Inside>>
  BY Zenon DEF Abs!vars, Seen
<1>t. /\ TypeOK /\ CommitOK /\ HeadOK /\ DiskOK /\ RecoverOK
      /\ TypeOK' /\ HeadOK' /\ DiskOK'
  BY Zenon DEF IInv
<1>h. /\ dhead \in Seq(Blocks) /\ dhead' \in Seq(Blocks) /\ Distinct(dhead) /\ Distinct(dhead')
      /\ cache \in [Blocks -> Vals] /\ home \in [Blocks -> Vals] /\ home' \in [Blocks -> Vals]
      /\ pc \in [Procs -> Labels]
  BY <1>t, Zenon DEF TypeOK, HeadOK, Distinct
<1>w. \A p \in Procs : Woken[p] = (IF pc[p] = "sleep" THEN "begin" ELSE pc[p])
  BY Zenon DEF Woken
<1>d. UNCHANGED disk => Durable' = Durable
  BY DurableAfter, Zenon DEF disk
<1>u. \A l : \A p \in Procs : Up(p, l) => Running /\ Seen = cache
  BY Zenon DEF Up, Running, Seen
<1>m. Running' => Seen' = cache'
  BY Zenon DEF Running, Seen
<1>1. ASSUME NEW p \in Procs, BeginOp(p) PROVE Abs!Next \/ UNCHANGED <<Durable, Seen, Inside>>
  <2>1. Durable' = Durable /\ Seen' = Seen
    BY <1>1, <1>d, Zenon DEF BeginOp, Seen
  <2>2. CASE committing \/ ~HasRoom
    BY <2>1, <2>2, <1>1, <1>h, Zenon DEF BeginOp, Goto, Inside
  <2>3. CASE ~(committing \/ ~HasRoom)
    <3>1. Inside' = Inside \cup {p} /\ p \notin Inside
      BY <2>3, <1>1, <1>h, Zenon DEF BeginOp, Goto, Inside
    <3>2. Abs!Begin(p)
      BY <2>1, <3>1, Zenon DEF Abs!Begin, Seen
    <3> QED
      BY <3>2, Zenon DEF Abs!Next
  <2> QED
    BY <2>2, <2>3, Zenon
<1>2. ASSUME NEW p \in Procs, LogTest(p) PROVE UNCHANGED <<Durable, Seen, Inside>>
  <2>1. Inside' = Inside
    BY <1>2, <1>h, Zenon DEF LogTest, Up, Goto, Inside
  <2>2. Seen' = cache' /\ Seen = cache /\ cache' = cache
    BY <1>2, <1>u, Zenon DEF LogTest, Up, Seen
  <2> QED
    BY <2>1, <2>2, <1>2, <1>d, Zenon DEF LogTest
<1>3. ASSUME NEW p \in Procs, NEW b \in Blocks, NEW v \in Vals, LogWrite(p, b, v) PROVE Abs!Next
  <2>1. Inside' = Inside /\ p \in Inside
    BY <1>3, <1>h, Zenon DEF LogWrite, Up, Goto, Inside
  <2>2. Seen' = [Seen EXCEPT ![b] = v] /\ Durable' = Durable
    BY <1>3, <1>u, <1>d, Zenon DEF LogWrite, Up, Seen
  <2>3. Abs!Write(p, b, v)
    BY <2>1, <2>2, Zenon DEF Abs!Write, Seen
  <2> QED
    BY <2>3, Zenon DEF Abs!Next
<1>4. ASSUME NEW p \in Procs, EndOp(p) PROVE Abs!Next
  <2>1. Inside' = Inside \ {p} /\ p \in Inside
    BY <1>4, <1>h, <1>w, Zenon DEF EndOp, Up, Goto, Inside, Woken
  <2>2. Seen' = Seen /\ Durable' = Durable
    BY <1>4, <1>d, Zenon DEF EndOp, Seen
  <2>3. Abs!End(p)
    BY <2>1, <2>2, Zenon DEF Abs!End, Seen
  <2> QED
    BY <2>3, Zenon DEF Abs!Next
<1>5. ASSUME NEW p \in Procs, WriteLog(p) PROVE UNCHANGED <<Durable, Seen, Inside>>
  <2>1. Inside' = Inside /\ Seen' = cache' /\ Seen = cache /\ cache' = cache /\ home' = home
    BY <1>5, <1>h, Zenon DEF WriteLog, Up, Goto, Inside, Seen
  <2>2. \A q \in Procs : pc[q] \notin {"install", "erase"}
    BY <1>5, <1>t, Zenon DEF WriteLog, Up, CommitOK, Committing
  <2>3. dhead = <<>> /\ dhead' = <<>>
    BY <2>2, <1>5, <1>u, <1>t, Zenon DEF DiskOK, WriteLog
  <2>4. Durable' = Durable
    BY <2>1, <2>3, <1>h, DurableAfter, AfterNothing, Zenon
  <2> QED
    BY <2>1, <2>4, Zenon
<1>6. ASSUME NEW p \in Procs, WriteHead(p) PROVE Abs!Next
  <2>1. /\ Inside' = Inside /\ Seen' = cache /\ Seen = cache /\ Running
        /\ dhead' = lh /\ UNCHANGED <<dlog, home>>
    BY <1>6, <1>h, Zenon DEF WriteHead, Up, Goto, Inside, Seen, Running
  <2>2. Inside = {}
    BY <1>6, <1>t, Zenon DEF WriteHead, Up, CommitOK, Committing
  <2>3. /\ \A i \in 1..Len(lh) : dlog[i] = cache[lh[i]]
        /\ \A b \in Blocks : InLog(b) \/ cache[b] = home[b]
    BY <2>1, <1>6, <1>t, Zenon DEF DiskOK, WriteHead, Up
  <2>4. Durable' = cache
    <3>1. lh \in Seq(Blocks) /\ Distinct(lh)
      BY <2>1, <1>h, Zenon
    <3>2. \A b \in Blocks : (\E i \in 1..Len(lh) : lh[i] = b) \/ home[b] = cache[b]
      BY <2>3, Zenon DEF InLog
    <3>3. After(lh, dlog, home) = cache
      BY SMTT(60), <3>1, <3>2, <2>3, <1>h, AfterIs
    <3> QED
      BY <3>3, <2>1, DurableAfter, Zenon
  <2>5. Abs!Commit
    BY <2>1, <2>2, <2>4, Zenon DEF Abs!Commit, Seen
  <2> QED
    BY <2>5, Zenon DEF Abs!Next
<1>7. ASSUME NEW p \in Procs, InstallTrans(p) PROVE UNCHANGED <<Durable, Seen, Inside>>
  <2>1. /\ Inside' = Inside /\ Seen' = cache' /\ Seen = cache /\ Running
        /\ UNCHANGED <<dhead, dlog>>
    BY <1>7, <1>h, Zenon DEF InstallTrans, Up, Goto, Inside, Seen, Running
  <2>2. InstallOK(tail) /\ \A b \in Blocks : InLog(b) \/ cache[b] = home[b]
    BY <2>1, <1>7, <1>t, Zenon DEF DiskOK, InstallTrans, Up
  <2>3. Durable = cache
    <3>1. /\ \A i \in 1..Len(dhead) : dlog[i] = cache[dhead[i]]
          /\ \A b \in Blocks : (\E i \in 1..Len(dhead) : dhead[i] = b) \/ home[b] = cache[b]
      BY <2>2, Zenon DEF InstallOK, InLog
    <3> QED
      BY <3>1, <1>h, DurableAfter, AfterIs, SMTT(30)
  <2>4. cache' = cache /\ \A b \in Blocks : InLog(b) \/ home'[b] = home[b]
    <3>1. CASE tail < Len(lh)
      <4>1. tail + 1 \in 1..Len(lh)
        BY SMTT(60), <3>1, <2>2, <1>t DEF InstallOK, TypeOK
      <4>2. lh[tail + 1] \in Blocks /\ dlog[tail + 1] = cache[lh[tail + 1]] /\ InLog(lh[tail + 1])
        BY <4>1, <2>2, <1>t, SMTT(30) DEF InstallOK, TypeOK, InLog
      <4> QED
        BY ZenonT(60), <4>2, <3>1, <1>7, <1>h DEF InstallTrans, Install
    <3>2. CASE ~(tail < Len(lh))
      BY <3>2, <1>7, Zenon DEF InstallTrans
    <3> QED
      BY <3>1, <3>2, Zenon
  <2>5. \A b \in Blocks : InLog(b) \/ home'[b] = cache[b]
    BY <2>2, <2>4, Zenon
  <2>6. Durable' = cache
    BY <2>1, <2>2, <2>5, <1>h, DurableAfter, AfterIs, SMTT(30) DEF InstallOK, InLog
  <2> QED
    BY <2>1, <2>3, <2>4, <2>6, Zenon
<1>8. ASSUME NEW p \in Procs, EraseHead(p) PROVE UNCHANGED <<Durable, Seen, Inside>>
  <2>1. /\ Inside' = Inside /\ Seen' = cache' /\ Seen = cache /\ Running
        /\ dhead' = lh /\ UNCHANGED <<dlog, home, cache>>
    BY <1>8, <1>h, Zenon DEF EraseHead, Up, Goto, Inside, Seen, Running
  <2>2. /\ lh = <<>> /\ \A i \in 1..Len(dhead) : dlog[i] = cache[dhead[i]]
        /\ \A b \in Blocks : InLog(b) \/ cache[b] = home[b]
    BY <2>1, <1>8, <1>t, Zenon DEF DiskOK, EraseHead, Up
  <2>3. \A b \in Blocks : cache[b] = home[b]
    BY <2>2, SMTT(30) DEF InLog
  <2>4. Durable = cache /\ cache = home
    BY <2>2, <2>3, <1>h, DurableAfter, AfterIs, SMTT(30)
  <2>5. Durable' = home
    BY <2>1, <2>2, <1>h, DurableAfter, AfterNothing, Zenon
  <2> QED
    BY <2>1, <2>4, <2>5, Zenon
<1>9. ASSUME NEW p \in Procs, EndCommit(p) PROVE UNCHANGED <<Durable, Seen, Inside>>
  <2>1. Inside' = Inside
    BY <1>9, <1>h, <1>w, Zenon DEF EndCommit, Up, Inside, Woken
  <2> QED
    BY <2>1, <1>9, <1>d, Zenon DEF EndCommit, Seen
<1>10. CASE Crash
  <2>1. Inside' = {} /\ Durable' = Durable /\ Seen' = Durable'
    BY <1>10, <1>d, Zenon DEF Crash, Inside, Seen
  <2>2. Abs!Crash
    BY <2>1, Zenon DEF Abs!Crash, Seen
  <2> QED
    BY <2>2, Zenon DEF Abs!Next
<1>11. CASE ReadHead
  BY <1>11, <1>d, Zenon DEF ReadHead, Seen, Inside
<1>12. CASE Recover
  <2>1. Inside' = Inside /\ Seen' = Durable' /\ Seen = Durable /\ UNCHANGED <<dhead, dlog>>
    BY <1>12, Zenon DEF Recover, Inside, Seen
  <2>2. tail \in 0..Len(lh) /\ lh = dhead
    BY <1>12, <1>t, Zenon DEF Recover, RecoverOK, Running
  <2>3. \A b \in Blocks : (\E i \in 1..Len(dhead) : dhead[i] = b) \/ home'[b] = home[b]
    BY <2>2, <1>12, <1>h, SMTT(30) DEF Recover, Install
  <2>4. /\ \A i \in 1..Len(dhead) : dlog[i] = Durable[dhead[i]]
        /\ \A b \in Blocks : (\E i \in 1..Len(dhead) : dhead[i] = b) \/ home[b] = Durable[b]
    BY SMTT(60), <1>h, DurableAfter, AfterAt
  <2>5. Durable \in [Blocks -> Vals]
    <3>1. ASSUME NEW b \in Blocks PROVE Durable[b] \in Vals
      <4>1. CASE \E i \in 1..Len(dhead) : dhead[i] = b
        <5>1. PICK i \in 1..Len(dhead) : dhead[i] = b
          BY <4>1, Zenon
        <5>2. i \in Slots
          BY <1>h, <1>t, LogAssumption, SMTT(30) DEF HeadOK, Slots
        <5> QED
          BY <5>1, <5>2, <2>4, <1>t, SMTT(30) DEF TypeOK
      <4>2. CASE \A i \in 1..Len(dhead) : dhead[i] # b
        BY <4>2, <2>4, <1>h, Zenon
      <4> QED
        BY <4>1, <4>2, Zenon
    <3> QED
      BY <3>1, Zenon DEF Durable
  <2>6. Durable' = Durable
    <3>1. \A b \in Blocks : (\E i \in 1..Len(dhead) : dhead[i] = b) \/ home'[b] = Durable[b]
      BY <2>3, <2>4, Zenon
    <3>2. After(dhead, dlog, home') = Durable
      BY SMTT(60), <3>1, <2>4, <2>5, <1>h, AfterIs
    <3> QED
      BY <3>2, <2>1, DurableAfter, Zenon
  <2> QED
    BY <2>1, <2>6, Zenon
<1>13. CASE ClearHead
  <2>1. /\ Inside' = Inside /\ Seen' = cache' /\ Seen = Durable
        /\ dhead' = lh /\ UNCHANGED <<dlog, home, cache>>
    BY <1>13, Zenon DEF ClearHead, Inside, Seen
  <2>2. lh = <<>> /\ cache = home /\ \A i \in 1..Len(dhead) : home[dhead[i]] = dlog[i]
    BY <1>13, <1>t, Zenon DEF ClearHead, RecoverOK, Running
  <2>3. Durable = home
    BY <2>2, <1>h, DurableAfter, AfterIs, SMTT(30)
  <2>4. Durable' = home
    BY <2>1, <2>2, <1>h, DurableAfter, AfterNothing, Zenon
  <2> QED
    BY <2>1, <2>2, <2>3, <2>4, Zenon
<1>14. CASE UNCHANGED vars
  <2>1. Durable' = Durable /\ Inside' = Inside
    BY <1>14, <1>d, Zenon DEF vars, Inside, disk
  <2> QED
    BY <2>1, <1>14, Zenon DEF vars, Seen
<1> QED
  BY <1>1, <1>2, <1>3, <1>4, <1>5, <1>6, <1>7, <1>8, <1>9, <1>10, <1>11, <1>12, <1>13, <1>14, Zenon
     DEF Next, Step

(* While transactions fit in the blocks that follow the header (LogFits, which *)
(* log_write()'s unlocked test does not give), log.c implements the atomic     *)
(* disk: power may fail at any write of a commit or of a recovery.             *)
THEOREM LogIsAtomic == Spec /\ []LogFits => CrashAtomic
<1>1. Spec /\ []LogFits => []IInv
  BY LogInit, LogStep, PTL DEF Spec
<1>2. Abs!Spec <=> Abs!Init /\ [][Abs!Next]_(Abs!vars)
  BY Zenon DEF Abs!Spec
<1> QED
  BY <1>1, <1>2, AbsInit, AbsStep, PTL DEF Spec, CrashAtomic

(* Whoever commits is alone: begin_op() lets nobody in, end_op() lets nobody *)
(* start a second commit, and outstanding counts the calls under way.        *)
THEOREM CommitsAlone == Spec /\ []LogFits => []CommitAlone
<1>1. Spec /\ []LogFits => []IInv
  BY LogInit, LogStep, PTL DEF Spec
<1>2. IInv => CommitAlone
  BY Zenon DEF IInv, CommitOK, CommitAlone, Committing
<1> QED
  BY <1>1, <1>2, PTL

------------------------------------------------------------------------------
(* The reservations: a call has put every block it updated into the log, and  *)
(* what it may still update is left. The header on disk is that of a          *)
(* transaction whose excess is still counted.                                 *)
ResOK ==
  /\ \A p \in Inside : IsFiniteSet(wrote[p]) /\ \A b \in wrote[p] : InLog(b)
  /\ Len(lh) + Cardinality(Left) <= LOGSIZE + over
  /\ Len(dhead) <= LOGSIZE + over

(* What is left can be counted. *)
LEMMA LeftFinite ==
  IsFiniteSet(Inside) =>
    /\ IsFiniteSet(Left) /\ Cardinality(Left) \in Nat
    /\ Cardinality(Left) <= Cardinality(Inside) * MAXOPBLOCKS
<1> SUFFICES ASSUME IsFiniteSet(Inside)
             PROVE  /\ IsFiniteSet(Left) /\ Cardinality(Left) \in Nat
                    /\ Cardinality(Left) <= Cardinality(Inside) * MAXOPBLOCKS
  BY Zenon
<1>1. MAXOPBLOCKS \in Nat /\ IsFiniteSet(1..MAXOPBLOCKS) /\ Cardinality(1..MAXOPBLOCKS) = MAXOPBLOCKS
  <2>1. MAXOPBLOCKS \in Nat /\ MAXOPBLOCKS > 0 /\ 1 \in Int
    BY LogAssumption, SMTT(30)
  <2>2. IsFiniteSet(1..MAXOPBLOCKS) /\ Cardinality(1..MAXOPBLOCKS) = MAXOPBLOCKS
    BY <2>1, FS_Interval, SMTT(30)
  <2> QED BY <2>1, <2>2, Zenon
<1>2. /\ IsFiniteSet(Inside \X (1..MAXOPBLOCKS))
      /\ Cardinality(Inside \X (1..MAXOPBLOCKS)) = Cardinality(Inside) * MAXOPBLOCKS
  BY <1>1, FS_Product, Zenon
<1>3. Left \in SUBSET (Inside \X (1..MAXOPBLOCKS))
  BY Zenon DEF Left
<1>4. IsFiniteSet(Left) /\ Cardinality(Left) <= Cardinality(Inside \X (1..MAXOPBLOCKS))
  BY <1>2, <1>3, FS_Subset, Zenon
<1> QED
  BY <1>2, <1>4, FS_CardinalityType, Zenon

(* The same after a step. *)
LEMMA LeftFiniteNext ==
  (IsFiniteSet(Inside) =>
     /\ IsFiniteSet(Left) /\ Cardinality(Left) \in Nat
     /\ Cardinality(Left) <= Cardinality(Inside) * MAXOPBLOCKS)'
BY LeftFinite, PTL

(* A step that changes neither the calls under way nor what they wrote. *)
LEMMA ResFrame ==
  ASSUME ResOK, Inside' = Inside, wrote' = wrote, lh' = lh, over' = over,
         Len(dhead') <= LOGSIZE + over
  PROVE  ResOK'
<1>1. Left' = Left
  BY Zenon DEF Left
<1>2. \A b : InLog(b)' <=> InLog(b)
  BY Zenon DEF InLog
<1> QED
  BY <1>1, <1>2, Zenon DEF ResOK

(* A step after which no call is under way. *)
LEMMA ResOutside ==
  ASSUME Inside' = {}, Len(lh') \in Nat, Len(lh') <= LOGSIZE + over',
         Len(dhead') <= LOGSIZE + over'
  PROVE  ResOK'
<1>1. Left' = {}
  BY Zenon DEF Left
<1>2. Len(lh') + 0 = Len(lh')
  BY SMTT(30)
<1> QED
  BY <1>1, <1>2, FS_EmptySet, Zenon DEF ResOK

(* begin_op() lets a call in only when the whole of its reservation is free,  *)
(* log_write() takes a block from it, and a commit starts when all are given  *)
(* back.                                                                      *)
LEMMA ResStep ==
  ASSUME IInv, ResOK, [Next]_vars
  PROVE  ResOK'
<1>t. /\ TypeOK /\ CommitOK /\ pc \in [Procs -> Labels] /\ RecoverOK /\ LOGSIZE \in Nat
      /\ MAXOPBLOCKS \in Nat /\ over \in Nat /\ wrote \in [Procs -> SUBSET Blocks]
  BY LogAssumption, Zenon DEF IInv, TypeOK
<1>l. Len(lh) \in Nat /\ Len(dhead) \in Nat /\ Len(<<>>) = 0 /\ Len(dhead) <= LOGSIZE + over
  BY <1>t, NoBlocks, SMTT(30) DEF TypeOK, ResOK
<1>f. IsFiniteSet(Left) /\ Cardinality(Left) \in Nat
  BY <1>t, LeftFinite, Zenon DEF CommitOK
<1>s. Len(lh) <= LOGSIZE + over /\ 0 \in Nat /\ 0 <= LOGSIZE + over /\ 0 <= LOGSIZE + 0
  BY <1>t, <1>l, <1>f, SMTT(30) DEF ResOK
<1>w. \A p \in Procs : Woken[p] = (IF pc[p] = "sleep" THEN "begin" ELSE pc[p])
  BY Zenon DEF Woken
<1>c. \A p \in Procs : pc[p] \in Committing => Inside = {}
  BY <1>t, Zenon DEF CommitOK
<1>1. ASSUME NEW p \in Procs, BeginOp(p) PROVE ResOK'
  <2>1. lh' = lh /\ dhead' = dhead /\ over' = over
    BY <1>1, Zenon DEF BeginOp, disk
  <2>2. CASE committing \/ ~HasRoom
    <3>1. Inside' = Inside /\ wrote' = wrote
      BY <2>2, <1>t, <1>1, Zenon DEF BeginOp, Goto, Inside
    <3> QED BY <1>l, <2>1, <3>1, ResFrame, Zenon
  <2>3. CASE ~(committing \/ ~HasRoom)
    <3>1. Inside' = Inside \cup {p} /\ p \notin Inside
      BY <2>3, <1>t, <1>1, Zenon DEF BeginOp, Goto, Inside
    <3>2. wrote' = [wrote EXCEPT ![p] = {}]
      BY <2>3, <1>1, Zenon DEF BeginOp
    <3>3. IsFiniteSet(Inside') /\ Cardinality(Inside') = outstanding + 1
      BY <3>1, <1>t, FS_AddElement, Zenon DEF CommitOK
    <3>4. Cardinality(Left') \in Nat /\ Cardinality(Left') <= (outstanding + 1) * MAXOPBLOCKS
      BY <3>3, LeftFiniteNext, Zenon
    <3>5. Len(lh) + (outstanding + 1) * MAXOPBLOCKS <= LOGSIZE
      BY <2>3, Zenon DEF HasRoom
    <3>6. Len(lh') + Cardinality(Left') <= LOGSIZE + over
      <4>1. PICK x \in Nat : x = (outstanding + 1) * MAXOPBLOCKS
        BY <1>t, SMTT(30) DEF TypeOK
      <4> QED BY <1>l, <1>t, <2>1, <3>4, <3>5, <4>1, SMTT(30)
    <3>7. \A q \in Inside' : IsFiniteSet(wrote'[q]) /\ \A b \in wrote'[q] : InLog(b)'
      <4>1. wrote'[p] = {} /\ IsFiniteSet({})
        BY <1>t, <3>2, FS_EmptySet, Zenon
      <4>2. \A q \in Inside : wrote'[q] = wrote[q]
        BY <1>t, <3>1, <3>2, Zenon DEF Inside
      <4>3. \A b : InLog(b)' <=> InLog(b)
        BY <2>1, Zenon DEF InLog
      <4> QED BY <3>1, <4>1, <4>2, <4>3, Zenon DEF ResOK
    <3> QED BY <1>l, <2>1, <3>6, <3>7, Zenon DEF ResOK
  <2> QED BY <2>2, <2>3, Zenon
<1>2. ASSUME NEW p \in Procs, LogTest(p) PROVE ResOK'
  <2>1. Inside' = Inside
    BY <1>t, <1>2, Zenon DEF LogTest, Up, Goto, Inside
  <2> QED BY <2>1, <1>l, <1>2, ResFrame, Zenon DEF LogTest, log, disk
<1>3. ASSUME NEW p \in Procs, NEW b \in Blocks, NEW v \in Vals, LogWrite(p, b, v) PROVE ResOK'
  <2>1. Inside' = Inside /\ p \in Inside
    BY <1>t, <1>3, Zenon DEF LogWrite, Up, Goto, Inside
  <2>2. /\ lh' = IF InLog(b) THEN lh ELSE Append(lh, b)
        /\ wrote' = [wrote EXCEPT ![p] = wrote[p] \cup {b}] /\ dhead' = dhead
        /\ over' = IF InLog(b) \/ Cardinality(wrote[p] \cup {b}) <= MAXOPBLOCKS THEN over ELSE over + 1
    BY <1>3, Zenon DEF LogWrite, disk
  <2>3. IsFiniteSet(wrote[p]) /\ \A c \in wrote[p] : InLog(c)
    BY <2>1, Zenon DEF ResOK
  <2>4. \A c : (InLog(c) \/ c = b) => InLog(c)'
    <3>1. CASE InLog(b)
      BY <2>2, <3>1, Zenon DEF InLog
    <3>2. CASE ~InLog(b)
      <4>1. lh' = Append(lh, b) /\ lh \in Seq(Blocks)
        BY <1>t, <2>2, <3>2, Zenon DEF TypeOK
      <4>2. Len(lh') = Len(lh) + 1 /\ lh'[Len(lh) + 1] = b /\ \A i \in 1..Len(lh) : lh'[i] = lh[i]
        BY <4>1, SMTT(30)
      <4>3. Len(lh) + 1 \in 1..Len(lh') /\ \A i \in 1..Len(lh) : i \in 1..Len(lh')
        BY <1>l, <4>2, SMTT(30)
      <4> QED BY <4>2, <4>3, Zenon DEF InLog
    <3> QED BY <3>1, <3>2, Zenon
  <2>5. \A q \in Inside : wrote'[q] = IF q = p THEN wrote[p] \cup {b} ELSE wrote[q]
    BY <1>t, <2>1, <2>2, Zenon DEF Inside
  <2>6. IsFiniteSet(wrote[p] \cup {b})
    BY <2>3, FS_AddElement, Zenon
  <2>7. \A q \in Inside' : IsFiniteSet(wrote'[q]) /\ \A c \in wrote'[q] : InLog(c)'
    BY <2>1, <2>3, <2>4, <2>5, <2>6, Zenon DEF ResOK
  <2>8. CASE b \in wrote[p]
    <3>1. lh' = lh /\ wrote' = wrote /\ over' = over
      <4>1. InLog(b) /\ wrote[p] \cup {b} = wrote[p]
        BY <2>3, <2>8, Zenon
      <4>2. wrote' = [wrote EXCEPT ![p] = wrote[p]]
        BY <2>2, <4>1, Zenon
      <4> QED BY <1>t, <2>2, <4>1, <4>2, Zenon
    <3> QED BY <1>l, <2>1, <2>2, <3>1, ResFrame, Zenon
  <2>9. CASE b \notin wrote[p]
    <3> DEFINE k == Cardinality(wrote[p])
               x == <<p, k + 1>>
    <3>1. k \in Nat /\ Cardinality(wrote[p] \cup {b}) = k + 1
      BY <2>3, <2>9, FS_AddElement, FS_CardinalityType, Zenon
    <3>2. k + 1 <= MAXOPBLOCKS => k + 1 \in 1..MAXOPBLOCKS /\ k + 1 > k
      BY <1>t, <3>1, SMTT(30)
    <3>3. k + 1 <= MAXOPBLOCKS => x \in Left
      BY <2>1, <3>2, Zenon DEF Left
    <3>4. \A q \in Inside : Cardinality(wrote'[q]) = IF q = p THEN k + 1 ELSE Cardinality(wrote[q])
      BY <2>5, <3>1, Zenon
    <3>5. \A i \in 1..MAXOPBLOCKS : i > k + 1 <=> i > k /\ i # k + 1
      BY <1>t, <3>1, SMTT(30)
    <3> HIDE DEF k
    <3>6. Left' = {y \in Inside \X (1..MAXOPBLOCKS) : y[2] > Cardinality(wrote'[y[1]])}
      BY <2>1, Zenon DEF Left
    <3>7. Left' = Left \ {x}
      <4>1. ASSUME NEW y \in Inside \X (1..MAXOPBLOCKS)
            PROVE  y[2] > Cardinality(wrote'[y[1]]) <=> y[2] > Cardinality(wrote[y[1]]) /\ y # x
        <5>1. PICK q \in Inside, i \in 1..MAXOPBLOCKS : y = <<q, i>> /\ y[1] = q /\ y[2] = i
          BY SMTT(30)
        <5>2. y = x <=> q = p /\ i = k + 1
          BY <5>1, Zenon
        <5>3. CASE q = p
          BY <3>4, <3>5, <5>1, <5>2, <5>3, Zenon DEF k
        <5>4. CASE q # p
          BY <3>4, <5>1, <5>2, <5>4, Zenon
        <5> QED BY <5>3, <5>4, Zenon
      <4> HIDE DEF x
      <4> QED BY <3>6, <4>1, Zenon DEF Left
    <3>8. (Len(lh') = Len(lh) /\ InLog(b)) \/ (Len(lh') = Len(lh) + 1 /\ ~InLog(b))
      <4>1. lh \in Seq(Blocks)
        BY <1>t, Zenon DEF TypeOK
      <4>2. Len(Append(lh, b)) = Len(lh) + 1
        BY <4>1, SMTT(30)
      <4>3. CASE InLog(b)
        <5>1. lh' = lh
          BY <2>2, <4>3, Zenon
        <5> QED BY <4>3, <5>1, Zenon
      <4>4. CASE ~InLog(b)
        <5>1. lh' = Append(lh, b)
          BY <2>2, <4>4, Zenon
        <5> QED BY <4>2, <4>4, <5>1, Zenon
      <4> QED BY <4>3, <4>4, Zenon
    <3>9. PICK c \in Nat : c = Cardinality(Left) /\ Len(lh) + c <= LOGSIZE + over
      BY <1>f, Zenon DEF ResOK
    <3>10. CASE k + 1 <= MAXOPBLOCKS
      <4>1. Cardinality(Left') = c - 1
        <5>1. x \in Left
          BY <3>3, <3>10, Zenon
        <5>2. Cardinality(Left \ {x}) = Cardinality(Left) - 1
          BY <1>f, <5>1, FS_RemoveElement, Zenon
        <5> QED BY <3>7, <3>9, <5>2, Zenon
      <4>2. over' = over
        BY <2>2, <3>1, <3>10, Zenon
      <4>3. Len(lh') + Cardinality(Left') <= LOGSIZE + over'
        BY <1>l, <1>t, <3>8, <3>9, <4>1, <4>2, SMTT(30)
      <4>4. Len(dhead') <= LOGSIZE + over'
        BY <1>l, <2>2, <4>2, Zenon
      <4> QED BY <2>7, <4>3, <4>4, Zenon DEF ResOK
    <3>11. CASE ~(k + 1 <= MAXOPBLOCKS)
      <4>1. x \notin Left
        <5>1. k + 1 \notin 1..MAXOPBLOCKS
          BY <1>t, <3>1, <3>11, SMTT(30)
        <5> QED BY <5>1, Zenon DEF Left
      <4>2. Left' = Left
        BY <3>7, <4>1, Zenon
      <4>3. over' = IF InLog(b) THEN over ELSE over + 1
        BY <2>2, <3>1, <3>11, Zenon
      <4>4. Len(lh') + c <= LOGSIZE + over' /\ Len(dhead) <= LOGSIZE + over'
        BY <1>l, <1>t, <3>8, <3>9, <4>3, SMTT(30)
      <4>5. Len(lh') + Cardinality(Left') <= LOGSIZE + over' /\ Len(dhead') <= LOGSIZE + over'
        BY <2>2, <3>9, <4>2, <4>4, Zenon
      <4> QED BY <2>7, <4>5, Zenon DEF ResOK
    <3> QED BY <3>10, <3>11, Zenon
  <2> QED BY <2>8, <2>9, Zenon
<1>4. ASSUME NEW p \in Procs, EndOp(p) PROVE ResOK'
  <2>1. Inside' = Inside \ {p} /\ p \in Inside
    BY <1>t, <1>w, <1>4, Zenon DEF EndOp, Up, Goto, Inside, Woken
  <2>2. UNCHANGED <<lh, dhead, wrote, over>>
    BY <1>4, Zenon DEF EndOp, disk
  <2>3. Left' \in SUBSET Left
    BY <2>1, <2>2, Zenon DEF Left
  <2>4. IsFiniteSet(Left') /\ Cardinality(Left') <= Cardinality(Left)
    BY <1>f, <2>3, FS_Subset, Zenon
  <2>5. Cardinality(Left') \in Nat
    BY <2>4, FS_CardinalityType, Zenon
  <2>6. Len(lh') + Cardinality(Left') <= LOGSIZE + over
    <3>1. PICK x \in Nat, y \in Nat : x = Cardinality(Left) /\ y = Cardinality(Left')
      BY <1>f, <2>5, Zenon
    <3>2. Len(lh) + x <= LOGSIZE + over /\ y <= x /\ lh' = lh
      BY <2>2, <2>4, <3>1, Zenon DEF ResOK
    <3> QED BY <1>l, <1>t, <3>1, <3>2, SMTT(30)
  <2>7. \A b : InLog(b)' <=> InLog(b)
    BY <2>2, Zenon DEF InLog
  <2> QED BY <1>l, <2>1, <2>2, <2>6, <2>7, Zenon DEF ResOK
<1>5. ASSUME NEW p \in Procs, WriteLog(p) \/ WriteHead(p) \/ EndCommit(p) PROVE ResOK'
  <2>1. Inside' = Inside
    <3>1. CASE WriteLog(p) \/ WriteHead(p)
      BY <1>t, <3>1, Zenon DEF WriteLog, WriteHead, Up, Goto, Inside
    <3>2. CASE EndCommit(p)
      <4>1. pc[p] = "done" /\ \A q \in Procs : pc'[q] = IF q = p THEN "out" ELSE Woken[q]
        BY <3>2, Zenon DEF EndCommit, Up, Woken
      <4>2. \A q \in Procs : pc'[q] \in {"in", "write"} <=> pc[q] \in {"in", "write"}
        BY <1>w, <4>1, Zenon
      <4> QED BY <4>2, Zenon DEF Inside
    <3> QED BY <1>5, <3>1, <3>2, Zenon
  <2>2. lh' = lh /\ wrote' = wrote /\ over' = over /\ (dhead' = dhead \/ dhead' = lh)
    BY <1>5, Zenon DEF WriteLog, WriteHead, EndCommit, log, disk
  <2>3. Len(dhead') <= LOGSIZE + over
    BY <1>l, <1>s, <2>2, Zenon
  <2> QED BY <2>1, <2>2, <2>3, ResFrame, Zenon
<1>6. ASSUME NEW p \in Procs, InstallTrans(p) PROVE ResOK'
  <2>1. Inside' = Inside /\ Inside = {}
    <3>1. pc[p] \in Committing
      BY <1>6, Zenon DEF InstallTrans, Up, Committing
    <3>2. Inside' = Inside
      BY <1>t, <1>6, Zenon DEF InstallTrans, Up, Goto, Inside
    <3> QED BY <1>c, <3>1, <3>2, Zenon
  <2>2. (lh' = lh \/ lh' = <<>>) /\ dhead' = dhead /\ over' = over
    BY <1>6, Zenon DEF InstallTrans
  <2>3. Len(lh') \in Nat /\ Len(lh') <= LOGSIZE + over' /\ Len(dhead') <= LOGSIZE + over'
    BY <1>l, <1>s, <2>2, Zenon
  <2> QED BY <2>1, <2>3, ResOutside, Zenon
<1>7. CASE Crash
  <2>1. Inside' = {}
    BY <1>7, Zenon DEF Crash, Inside
  <2> QED BY <1>7, <1>l, <1>s, <2>1, ResOutside, Zenon DEF Crash, disk
<1>8. CASE ReadHead \/ Recover
  <2>1. \A p \in Procs : pc[p] = "out" /\ pc'[p] = "out"
    BY <1>t, <1>8, Zenon DEF ReadHead, Recover, RecoverOK, Running
  <2>2. Inside' = {}
    BY <2>1, Zenon DEF Inside
  <2>3. (lh' = lh \/ lh' = <<>> \/ lh' = dhead) /\ dhead' = dhead /\ over' = over
    BY <1>8, Zenon DEF ReadHead, Recover, disk
  <2>4. Len(lh') \in Nat /\ Len(lh') <= LOGSIZE + over' /\ Len(dhead') <= LOGSIZE + over'
    BY <1>l, <1>s, <2>3, Zenon
  <2> QED BY <2>2, <2>4, ResOutside, Zenon
<1>9. ASSUME (\E p \in Procs : EraseHead(p)) \/ ClearHead PROVE ResOK'
  <2>1. Inside' = {} /\ lh = <<>>
    <3>1. ASSUME NEW p \in Procs, EraseHead(p) PROVE Inside' = {} /\ lh = <<>>
      <4>1. pc[p] = "erase" /\ Running /\ Inside' = Inside
        BY <1>t, <3>1, Zenon DEF EraseHead, Up, Goto, Inside, Running
      <4>2. pc[p] \in Committing /\ lh = <<>>
        BY <4>1, Zenon DEF IInv, DiskOK, Committing
      <4> QED BY <1>c, <4>1, <4>2, Zenon
    <3>2. CASE ClearHead
      <4>1. \A p \in Procs : pc'[p] = "out"
        BY <1>t, <3>2, Zenon DEF ClearHead, RecoverOK, Running
      <4>2. lh = <<>>
        BY <1>t, <3>2, Zenon DEF ClearHead, RecoverOK, Running
      <4> QED BY <4>1, <4>2, Zenon DEF Inside
    <3> QED BY <1>9, <3>1, <3>2, Zenon
  <2>2. lh' = lh /\ dhead' = lh /\ over' = 0
    BY <1>9, Zenon DEF EraseHead, ClearHead
  <2> QED BY <1>l, <1>s, <2>1, <2>2, ResOutside, Zenon
<1>10. CASE UNCHANGED vars
  <2>1. UNCHANGED <<lh, pc, wrote, dhead, over>>
    BY <1>10, Zenon DEF vars, log, disk
  <2>2. Inside' = Inside
    BY <2>1, Zenon DEF Inside
  <2> QED BY <1>l, <2>1, <2>2, ResFrame, Zenon
<1> QED
  BY <1>1, <1>2, <1>3, <1>4, <1>5, <1>6, <1>7, <1>8, <1>9, <1>10, Zenon DEF Next, Step

(* Nothing is reserved at first. *)
LEMMA ResInit == Init => ResOK
<1> SUFFICES ASSUME Init PROVE ResOK
  BY Zenon
<1>1. Inside = {} /\ lh = <<>> /\ dhead = <<>> /\ over = 0 /\ Len(<<>>) = 0 /\ 0 <= LOGSIZE + 0 /\ 0 + 0 = 0
  BY NoBlocks, LogAssumption, SMTT(30) DEF Init, Inside
<1>2. Left = {}
  BY <1>1, Zenon DEF Left
<1> QED
  BY <1>1, <1>2, FS_EmptySet, Zenon DEF ResOK

(* begin_op()'s reservations are exact: the blocks of the transaction and     *)
(* those the calls under way may still add exceed LOGSIZE by no more than the *)
(* blocks that calls of this transaction added beyond their MAXOPBLOCKS,      *)
(* whatever a call updates, through commits, crashes and recoveries.          *)
THEOREM ReservationsHold == Spec /\ []LogFits => []Reserved
<1>1. IInv /\ LogFits /\ ResOK /\ [Next]_vars => IInv' /\ ResOK'
  BY LogStep, ResStep, Zenon
<1>2. IInv /\ ResOK => Reserved
  BY Zenon DEF IInv, ResOK, Reserved
<1> QED
  BY <1>1, <1>2, LogInit, ResInit, PTL DEF Spec
=============================================================================
