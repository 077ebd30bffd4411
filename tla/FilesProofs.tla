---------------------------- MODULE FilesProofs ----------------------------
(* Machine-checked proofs about descriptors, the file table and pipes, for   *)
(* any number of processes, files, descriptors and pages and any PIPESIZE.   *)
EXTENDS FilesSteps, FiniteSetTheorems, WellFoundedInduction

------------------------------------------------------------------------------
(* A non-empty set of natural numbers has a least element, ... *)
LEMMA LeastNat ==
  ASSUME NEW T, T \subseteq Nat, T # {}
  PROVE  \E x \in T : \A y \in T : x <= y
<1> DEFINE R == OpToRel(<, Nat)
<1>1. IsWellFoundedOn(R, Nat)
  BY NatLessThanWellFounded, Zenon
<1>2. \E x \in T : \A y \in T : ~(<<y, x>> \in R)
  <2> HIDE DEF R
  <2> QED BY <1>1, WFMin, Zenon
<1>3. \A x, y \in Nat : y < x => <<y, x>> \in R
  BY Zenon DEF OpToRel
<1>4. PICK x \in T : \A y \in T : ~(<<y, x>> \in R)
  BY <1>2, Zenon
<1>5. \A y \in T : ~(y < x)
  <2> HIDE DEF R
  <2> QED BY <1>3, <1>4, Zenon
<1>6. \A y \in T : x <= y
  BY <1>5, SMTT(30)
<1> QED
  BY <1>6, Zenon

(* ... so fdalloc() finds one of the descriptors it looks for. *)
LEMMA LeastIn ==
  ASSUME NEW D, D \subseteq Fds, D # {}
  PROVE  Least(D) \in D
<1>1. D \subseteq Nat
  BY FilesAssumption, SMTT(30) DEF Fds
<1>2. \E x \in D : \A y \in D : x <= y
  BY <1>1, LeastNat, Zenon
<1> QED
  BY <1>2, Zenon DEF Least

Eq(x, y) == IF x = y THEN 1 ELSE 0
In(x, S) == IF x \in S THEN 1 ELSE 0

(* How the size of a set changes with one element. *)
LEMMA CardChange ==
  ASSUME NEW U, IsFiniteSet(U), NEW S \in SUBSET U, NEW T \in SUBSET U, NEW x \in U,
         \A y \in U : y # x => ((y \in S) = (y \in T))
  PROVE  /\ Cardinality(S) \in Nat /\ Cardinality(T) \in Nat
         /\ Cardinality(T) = Cardinality(S) + In(x, T) - In(x, S)
<1>1. IsFiniteSet(S) /\ IsFiniteSet(T)
  BY FS_Subset, Zenon
<1>2. Cardinality(S) \in Nat /\ Cardinality(T) \in Nat
  BY <1>1, FS_CardinalityType, Zenon
<1>3. CASE (x \in S) = (x \in T)
  <2>1. S = T
    BY <1>3, SMTT(30)
  <2> QED BY <1>2, <2>1, SMTT(30) DEF Eq, In
<1>4. CASE x \in S /\ x \notin T
  <2>1. T = S \ {x}
    BY <1>4, Zenon
  <2> QED BY <1>1, <1>2, <1>4, <2>1, FS_RemoveElement, SMTT(30) DEF Eq, In
<1>5. CASE x \notin S /\ x \in T
  <2>1. T = S \cup {x}
    BY <1>5, Zenon
  <2> QED BY <1>1, <1>2, <1>5, <2>1, FS_AddElement, SMTT(30) DEF Eq, In
<1> QED
  BY <1>3, <1>4, <1>5, SMTT(30)

(* A set with a member, or with two. *)
LEMMA CardAtLeast ==
  ASSUME NEW S, IsFiniteSet(S), NEW x \in S
  PROVE  /\ Cardinality(S) >= 1
         /\ \A y \in S : y # x => Cardinality(S) >= 2
<1>1. Cardinality(S \ {x}) = Cardinality(S) - 1 /\ IsFiniteSet(S \ {x})
  BY FS_RemoveElement, Zenon
<1>2. Cardinality(S) \in Nat /\ Cardinality(S \ {x}) \in Nat
  BY <1>1, FS_CardinalityType, Zenon
<1>3. ASSUME NEW y \in S, y # x PROVE Cardinality(S) >= 2
  <2>1. /\ Cardinality((S \ {x}) \ {y}) = Cardinality(S \ {x}) - 1
        /\ IsFiniteSet((S \ {x}) \ {y})
    BY <1>1, <1>3, FS_RemoveElement, Zenon
  <2>2. Cardinality((S \ {x}) \ {y}) \in Nat
    BY <2>1, FS_CardinalityType, Zenon
  <2> QED BY <1>1, <1>2, <2>1, <2>2, SMTT(30)
<1> QED
  BY <1>1, <1>2, <1>3, SMTT(30)

(* Descriptors are finitely many. *)
LEMMA FdsFinite == IsFiniteSet(Procs \X Fds) /\ IsFiniteSet(Fds)
<1>1. IsFiniteSet(Fds)
  BY FilesAssumption, FS_Interval, SMTT(30) DEF Fds
<1> QED
  BY <1>1, FilesAssumption, FS_Product, Zenon

(* One descriptor changes: one file may have one more, one file one less. *)
LEMMA DescChange ==
  ASSUME NEW p \in Procs, NEW d \in Fds, NEW f,
         \A q \in Procs, e \in Fds : q # p \/ e # d => ((ofile'[q][e] = f) = (ofile[q][e] = f))
  PROVE  /\ Cardinality(Descriptors(f)) \in Nat /\ Cardinality(Descriptors(f)') \in Nat
         /\ Cardinality(Descriptors(f)')
              = Cardinality(Descriptors(f)) + Eq(ofile'[p][d], f) - Eq(ofile[p][d], f)
<1> DEFINE U == Procs \X Fds
           x == <<p, d>>
<1>1. IsFiniteSet(U) /\ x \in U
  BY FdsFinite, Zenon
<1>2. Descriptors(f) \in SUBSET U /\ Descriptors(f)' \in SUBSET U
  BY Zenon DEF Descriptors
<1>3. \A y \in U : y # x => ((y \in Descriptors(f)) = (y \in Descriptors(f)'))
  <2> SUFFICES ASSUME NEW y \in U, y # x
               PROVE  (y \in Descriptors(f)) = (y \in Descriptors(f)')
    BY Zenon
  <2>1. y[1] \in Procs /\ y[2] \in Fds /\ (y[1] # p \/ y[2] # d)
    BY SMTT(30)
  <2>2. (ofile'[y[1]][y[2]] = f) = (ofile[y[1]][y[2]] = f)
    BY <2>1, Zenon
  <2> QED BY <2>2, SMTT(30) DEF Descriptors
<1>4. /\ x \in Descriptors(f) <=> ofile[p][d] = f
      /\ x \in Descriptors(f)' <=> ofile'[p][d] = f
  BY Zenon DEF Descriptors
<1> HIDE DEF U, x
<1>5. /\ Cardinality(Descriptors(f)) \in Nat /\ Cardinality(Descriptors(f)') \in Nat
      /\ Cardinality(Descriptors(f)')
           = Cardinality(Descriptors(f)) + In(x, Descriptors(f)') - In(x, Descriptors(f))
  BY <1>1, <1>2, <1>3, CardChange, Zenon
<1> QED
  BY <1>4, <1>5, Zenon DEF Eq, In

(* One process moves on: what it is to close or install may change. *)
LEMMA PendChange ==
  ASSUME NEW p \in Procs, NEW f,
         \A q \in Procs : q # p => todo'[q] = todo[q] /\ pc'[q] = pc[q] /\ file'[q] = file[q]
  PROVE  /\ Cardinality(Pending(f)) \in Nat /\ Cardinality(Pending(f)') \in Nat
         /\ Cardinality(Pending(f)')
              = Cardinality(Pending(f)) + In(p, Pending(f)') - In(p, Pending(f))
<1>1. IsFiniteSet(Procs)
  BY FilesAssumption, Zenon
<1>2. Pending(f) \in SUBSET Procs /\ Pending(f)' \in SUBSET Procs
  BY Zenon DEF Pending
<1>3. \A q \in Procs : q # p => ((q \in Pending(f)) = (q \in Pending(f)'))
  BY SMTT(30) DEF Pending
<1> QED
  BY <1>1, <1>2, <1>3, CardChange, SMTT(30)

(* A file in use has references enough for those who use it. *)
LEMMA HasRefs ==
  ASSUME TypeOK, RefInv, NEW f \in Files
  PROVE  Suffice(f)
<1> DEFINE D == Descriptors(f)
           P == Pending(f)
<1>1. IsFiniteSet(D) /\ IsFiniteSet(P)
  <2>1. D \subseteq Procs \X Fds /\ P \subseteq Procs
    BY Zenon DEF Descriptors, Pending
  <2> QED BY <2>1, FdsFinite, FilesAssumption, FS_Subset, Zenon
<1>2. Cardinality(D) \in Nat /\ Cardinality(P) \in Nat /\ ref[f] = Cardinality(D) + Cardinality(P)
  BY <1>1, FS_CardinalityType, Zenon DEF RefInv
<1>3. \A p \in Procs, d \in Fds : ofile[p][d] = f => <<p, d>> \in D
  BY Zenon DEF Descriptors
<1> HIDE DEF D
<1>4. \A p \in Procs, d \in Fds : ofile[p][d] = f => Cardinality(D) >= 1
  BY <1>1, <1>3, CardAtLeast, Zenon
<1>5. ASSUME NEW p \in Procs, NEW q \in Procs, NEW d \in Fds, NEW e \in Fds,
             ofile[p][d] = f, ofile[q][e] = f, p # q
      PROVE  Cardinality(D) >= 2
  <2>1. <<p, d>> \in D /\ <<q, e>> \in D /\ <<q, e>> # <<p, d>>
    BY <1>3, <1>5, Zenon
  <2> QED BY <1>1, <2>1, CardAtLeast, Zenon
<1> HIDE DEF P
<1>6. \A p \in P : Cardinality(P) >= 1 /\ \A q \in P : p # q => Cardinality(P) >= 2
  BY <1>1, CardAtLeast, Zenon
<1>7. \A p \in Procs, d \in Fds : ofile[p][d] = f => ref[f] >= 1
  BY <1>2, <1>4, SMTT(30)
<1>8. \A p \in P : ref[f] >= 1 /\ \A q \in P : p # q => ref[f] >= 2
  BY <1>2, <1>6, SMTT(30)
<1>9. \A p \in Procs, d \in Fds, q \in P : ofile[p][d] = f => ref[f] >= 2
  BY <1>2, <1>4, <1>6, SMTT(30)
<1>10. \A p, q \in Procs, d, e \in Fds :
         ofile[p][d] = f /\ ofile[q][e] = f /\ p # q => ref[f] >= 2
  BY <1>2, <1>5, SMTT(30)
<1> QED
  BY <1>7, <1>8, <1>9, <1>10, Zenon DEF P, Suffice

(* Counted references suffice, and what is counted is finite, ... *)
LEMMA Uses == TypeOK /\ RefInv => UseInv
<1> SUFFICES ASSUME TypeOK, RefInv PROVE UseInv
  BY Zenon
<1>1. \A p \in Procs, f \in Files : Cardinality({d \in Fds : ofile[p][d] = f}) \in Nat
  BY FdsFinite, FS_Subset, FS_CardinalityType, Zenon
<1> QED
  BY <1>1, HasRefs, Zenon DEF UseInv

(* ... also after a step. *)
LEMMA UsesNext == TypeOK' /\ RefInv' => UseInv'
  BY Uses, PTL

(* fdalloc()'s searches succeed: every step is one of these. *)
LEMMA NextSteps == TypeOK /\ [Next]_vars => Steps \/ UNCHANGED vars
<1> SUFFICES ASSUME TypeOK, Next PROVE Steps
  BY Zenon DEF vars
<1>1. PICK p \in Procs :
  \/ PipeAlloc0(p) \/ PipeAlloc1(p) \/ SysOpen(p) \/ Exit(p)
  \/ FileClose(p) \/ ExitClose(p) \/ PipeClose(p) \/ Closed(p) \/ PipeWrite(p) \/ PipeRead(p) \/ Kill(p)
  \/ \E c \in Procs : Fork(p, c)
  \/ \E d \in Fds :
       \/ SysDup(p, d) \/ SysClose(p, d)
       \/ (\E n \in Counts : SysRead(p, d, n)) \/ (\E s \in Buffers : SysWrite(p, d, s))
  BY Zenon DEF Next
<1>2. CASE PipeAlloc0(p)
  <2>1. CASE FreeFile = {} /\ UNCHANGED <<ref, file, pc>>
    <3>1. UNCHANGED vars
      BY <1>2, <2>1, Zenon DEF PipeAlloc0, vars, ftable, work
    <3> QED BY <3>1, Zenon DEF Steps
  <2>2. CASE \E f \in Files : FileAlloc(f) /\ file' = [file EXCEPT ![p] = f] /\ Goto(p, "pipe")
    <3>1. PICK f \in Files : FileAlloc(f) /\ file' = [file EXCEPT ![p] = f] /\ Goto(p, "pipe")
      BY <2>2, Zenon
    <3>2. TakeFile(p, f)
      BY <1>2, <3>1, Zenon DEF PipeAlloc0, FileAlloc, FreeFile, TakeFile
    <3> QED BY <3>2, Zenon DEF Steps
  <2> QED BY <1>2, <2>1, <2>2, Zenon DEF PipeAlloc0
<1>3. CASE PipeAlloc1(p)
  <2>1. CASE FreeFile = {} /\ Close(p, <<file[p]>>) /\ UNCHANGED <<ref, type, end, ofile, pipe, hist>>
    <3>1. OneFile(p)
      BY <1>3, <2>1, Zenon DEF PipeAlloc1, OneFile
    <3> QED BY <3>1, Zenon DEF Steps
  <2>2. CASE ~(FreeFile = {} /\ Close(p, <<file[p]>>) /\ UNCHANGED <<ref, type, end, ofile, pipe, hist>>)
    <3> DEFINE D0 == Least(FreeFd(p))
               D1 == Least(FreeFd(p) \ {D0})
    <3>1. PICK f1 \in Files, g \in free :
          /\ FileAlloc(f1)
          /\ type' = [type EXCEPT ![file[p]] = "PIPE", ![f1] = "PIPE"]
          /\ end' = [end EXCEPT ![file[p]] = [page |-> g, writable |-> FALSE],
                                ![f1] = [page |-> g, writable |-> TRUE]]
          /\ free' = free \ {g}
          /\ readopen' = [readopen EXCEPT ![g] = TRUE]
          /\ writeopen' = [writeopen EXCEPT ![g] = TRUE]
          /\ nread' = [nread EXCEPT ![g] = 0] /\ nwrite' = [nwrite EXCEPT ![g] = 0]
          /\ IF Cardinality(FreeFd(p)) < 2
             THEN Close(p, <<file[p], f1>>) /\ UNCHANGED ofile
             ELSE /\ ofile' = [ofile EXCEPT ![p][D0] = file[p], ![p][D1] = f1]
                  /\ Goto(p, "user") /\ UNCHANGED todo
          /\ UNCHANGED <<data, hist>>
      BY <1>3, <2>2, Zenon DEF PipeAlloc1
    <3>2. NewPipe(p, f1, g)
      BY <1>3, <3>1, Zenon DEF PipeAlloc1, FileAlloc, FreeFile, NewPipe
    <3>3. CASE Cardinality(FreeFd(p)) < 2
      BY <3>1, <3>2, <3>3, Zenon DEF NotInstalled, Steps
    <3>4. CASE ~(Cardinality(FreeFd(p)) < 2)
      <4>1. FreeFd(p) \subseteq Fds /\ IsFiniteSet(FreeFd(p)) /\ Cardinality(FreeFd(p)) \in Nat
        BY FdsFinite, FS_Subset, FS_CardinalityType, SMTT(30) DEF FreeFd
      <4>2. FreeFd(p) # {}
        BY <3>4, <4>1, FS_EmptySet, SMTT(30)
      <4>3. D0 \in FreeFd(p)
        BY <4>1, <4>2, LeastIn, Zenon
      <4> HIDE DEF D0
      <4>4. Cardinality(FreeFd(p) \ {D0}) = Cardinality(FreeFd(p)) - 1
        BY <4>1, <4>3, FS_RemoveElement, Zenon
      <4>5. FreeFd(p) \ {D0} # {}
        <5> SUFFICES ASSUME FreeFd(p) \ {D0} = {} PROVE FALSE
          BY Zenon
        <5>1. Cardinality(FreeFd(p) \ {D0}) = 0
          BY FS_EmptySet, Zenon
        <5> QED BY <3>4, <4>1, <4>4, <5>1, SMTT(30)
      <4>6. D1 \in FreeFd(p) \ {D0}
        BY <4>1, <4>5, LeastIn, Zenon
      <4> HIDE DEF D1
      <4>7. D0 \in Fds /\ D1 \in Fds /\ Installed(p, f1, D0, D1)
        BY <3>1, <3>4, <4>3, <4>6, SMTT(30) DEF Installed, FreeFd
      <4> QED BY <3>2, <4>7, Zenon DEF Steps
    <3> QED BY <3>3, <3>4, Zenon
  <2> QED BY <2>1, <2>2, Zenon
<1>4. CASE SysOpen(p)
  <2>1. PICK f \in Files :
       /\ FileAlloc(f)
       /\ IF FreeFd(p) = {} THEN Close(p, <<f>>) /\ UNCHANGED <<type, ofile>>
          ELSE /\ type' = [type EXCEPT ![f] = "INODE"]
               /\ ofile' = [ofile EXCEPT ![p][Least(FreeFd(p))] = f]
               /\ UNCHANGED <<pc, todo>>
    BY <1>4, Zenon DEF SysOpen
  <2>2. CASE FreeFd(p) = {}
    <3>1. OpenFails(p, f)
      BY <1>4, <2>1, <2>2, ZenonT(60) DEF SysOpen, OpenFails, FileAlloc, FreeFile, fds
    <3> QED BY <3>1, Zenon DEF Steps
  <2>3. CASE FreeFd(p) # {}
    <3>1. Least(FreeFd(p)) \in FreeFd(p)
      BY <2>3, LeastIn, Zenon DEF FreeFd
    <3>2. Least(FreeFd(p)) \in Fds /\ Opens(p, f, Least(FreeFd(p)))
      BY <1>4, <2>1, <2>3, <3>1, ZenonT(60) DEF SysOpen, Opens, FileAlloc, FreeFile, FreeFd
    <3> QED BY <3>2, Zenon DEF Steps
  <2> QED BY <2>2, <2>3, Zenon
<1>5. ASSUME NEW d \in Fds, SysDup(p, d) PROVE Steps
  <2>1. Least(FreeFd(p)) \in FreeFd(p)
    BY <1>5, LeastIn, Zenon DEF FreeFd, SysDup
  <2>2. Least(FreeFd(p)) \in Fds /\ Dups(p, d, Least(FreeFd(p)))
    BY <1>5, <2>1, Zenon DEF SysDup, Dups, FreeFd
  <2> QED BY <2>2, Zenon DEF Steps
<1>6. CASE ExitClose(p)
  <2> DEFINE d == Least(Fds \ FreeFd(p))
  <2>1. Fds \ FreeFd(p) # {}
    BY <1>6, Zenon DEF ExitClose, FreeFd
  <2>2. d \in Fds \ FreeFd(p)
    BY <2>1, LeastIn, Zenon
  <2>3. d \in Fds /\ ExitDrops(p, d)
    <3> HIDE DEF d
    <3>1. Drop(p, ofile[p][d]) /\ ofile' = [ofile EXCEPT ![p][d] = NoFile]
      BY <1>6, Zenon DEF ExitClose, d
    <3> QED BY <1>6, <2>2, <3>1, Zenon DEF ExitClose, ExitDrops, FreeFd
  <2> QED BY <2>3, Zenon DEF Steps
<1> QED
  BY <1>1, <1>2, <1>3, <1>4, <1>5, <1>6, ZenonT(60) DEF Steps
------------------------------------------------------------------------------
(* What a process is to close or install, from where it is. *)
LEMMA PendingAt ==
  ASSUME TypeOK, TodoInv, NEW p \in Procs, NEW f
  PROVE  /\ pc[p] \notin {"close", "pipe"} => p \notin Pending(f)
         /\ pc[p] = "pipe" => (p \in Pending(f) <=> file[p] = f)
         /\ todo[p] = <<>> /\ pc[p] # "pipe" => p \notin Pending(f)
         /\ p \in Pending(f) <=> \/ \E i \in 1..Len(todo[p]) : todo[p][i] = f
                                 \/ pc[p] = "pipe" /\ file[p] = f
<1>1. p \in Pending(f) <=> \/ \E i \in 1..Len(todo[p]) : todo[p][i] = f
                           \/ pc[p] = "pipe" /\ file[p] = f
  BY Zenon DEF Pending
<1>2. pc[p] # "close" => todo[p] = <<>>
  BY Zenon DEF TodoInv
<1>3. todo[p] = <<>> => ~\E i \in 1..Len(todo[p]) : todo[p][i] = f
  BY SMTT(30)
<1> QED
  BY <1>1, <1>2, <1>3, Zenon

(* After the step, likewise. *)
LEMMA PendingThen ==
  ASSUME NEW p \in Procs, NEW f, NEW s, todo'[p] = s
  PROVE  /\ p \in Pending(f)' <=> \/ \E i \in 1..Len(s) : s[i] = f
                                  \/ pc'[p] = "pipe" /\ file'[p] = f
         /\ s = <<>> /\ pc'[p] # "pipe" => p \notin Pending(f)'
<1>1. p \in Pending(f)' <=> \/ \E i \in 1..Len(s) : s[i] = f
                            \/ pc'[p] = "pipe" /\ file'[p] = f
  BY Zenon DEF Pending
<1>2. s = <<>> => ~\E i \in 1..Len(s) : s[i] = f
  BY SMTT(30)
<1> QED
  BY <1>1, <1>2, Zenon

OthersStay(p) ==
  \A q \in Procs : q # p => todo'[q] = todo[q] /\ pc'[q] = pc[q] /\ file'[q] = file[q]

(* References to f are counted after a step of p that changes no descriptor, ... *)
LEMMA RefSame ==
  ASSUME RefInv, NEW p \in Procs, ofile' = ofile, NEW f \in Files,
         OthersStay(p),
         ref'[f] = ref[f] + In(p, Pending(f)') - In(p, Pending(f))
  PROVE  ref'[f] = Cardinality(Descriptors(f)') + Cardinality(Pending(f)')
<1>1. Descriptors(f)' = Descriptors(f)
  BY Zenon DEF Descriptors
<1>2. Cardinality(Descriptors(f)) \in Nat
  <2>1. Descriptors(f) \subseteq Procs \X Fds
    BY Zenon DEF Descriptors
  <2> QED BY <2>1, FdsFinite, FS_Subset, FS_CardinalityType, SMTT(30)
<1>3. /\ Cardinality(Pending(f)) \in Nat /\ Cardinality(Pending(f)') \in Nat
      /\ Cardinality(Pending(f)')
              = Cardinality(Pending(f)) + In(p, Pending(f)') - In(p, Pending(f))
  BY PendChange, Zenon DEF OthersStay
<1>4. ref[f] = Cardinality(Descriptors(f)) + Cardinality(Pending(f))
  BY Zenon DEF RefInv
<1>5. In(p, Pending(f)') \in Nat /\ In(p, Pending(f)) \in Nat
  BY Zenon DEF In
<1> QED
  BY <1>1, <1>2, <1>3, <1>4, <1>5, SMTT(30)

(* ... and after one that may change whether descriptor d is f's. *)
LEMMA RefMove ==
  ASSUME RefInv, NEW p \in Procs, NEW d \in Fds, NEW f \in Files,
         \A q \in Procs, e \in Fds : q # p \/ e # d => ((ofile'[q][e] = f) = (ofile[q][e] = f)),
         OthersStay(p),
         ref'[f] = ref[f] + Eq(ofile'[p][d], f) - Eq(ofile[p][d], f)
                          + In(p, Pending(f)') - In(p, Pending(f))
  PROVE  ref'[f] = Cardinality(Descriptors(f)') + Cardinality(Pending(f)')
<1>1. /\ Cardinality(Descriptors(f)) \in Nat /\ Cardinality(Descriptors(f)') \in Nat
      /\ Cardinality(Descriptors(f)')
           = Cardinality(Descriptors(f)) + Eq(ofile'[p][d], f) - Eq(ofile[p][d], f)
  BY DescChange, Zenon
<1>2. /\ Cardinality(Pending(f)) \in Nat /\ Cardinality(Pending(f)') \in Nat
      /\ Cardinality(Pending(f)')
              = Cardinality(Pending(f)) + In(p, Pending(f)') - In(p, Pending(f))
  BY PendChange, Zenon DEF OthersStay
<1>3. ref[f] = Cardinality(Descriptors(f)) + Cardinality(Pending(f))
  BY Zenon DEF RefInv
<1>4. /\ In(p, Pending(f)') \in Nat /\ In(p, Pending(f)) \in Nat
      /\ Eq(ofile'[p][d], f) \in Nat /\ Eq(ofile[p][d], f) \in Nat
  BY Zenon DEF In, Eq
<1> QED
  BY <1>1, <1>2, <1>3, <1>4, SMTT(30)

(* Nobody closes a file twice, and every reference is accounted for. *)
LEMMA RefStep == IInv /\ Steps => TodoInv' /\ RefInv'
<1> SUFFICES ASSUME IInv, Steps PROVE TodoInv' /\ RefInv'
  BY Zenon
<1>0. TypeOK /\ TodoInv /\ RefInv
  BY Zenon DEF IInv
<1>a. /\ ref \in [Files -> Nat] /\ pc \in [Procs -> Labels] /\ file \in [Procs -> Files \cup {NoFile}]
      /\ todo \in [Procs -> Seq(Files)] /\ ofile \in [Procs -> [Fds -> Files \cup {NoFile}]]
  BY <1>0, Zenon DEF TypeOK, Labels
<1>b. NoFile \notin Files
  BY SMTT(30) DEF NoFile, Files
<1>c. ASSUME NEW p \in Procs, OthersStay(p), pc'[p] # "close" => todo'[p] = <<>>,
             \A i, j \in 1..Len(todo'[p]) : todo'[p][i] = todo'[p][j] => i = j
      PROVE  TodoInv'
  BY <1>0, <1>c, SMTT(30) DEF TodoInv, OthersStay
<1>d. ASSUME NEW p \in Procs, NEW f \in Files, Close(p, <<f>>), file'[p] = NoFile \/ UNCHANGED file,
             \A q \in Procs : q # p => file'[q] = file[q]
      PROVE  /\ OthersStay(p) /\ TodoInv' /\ todo'[p] = <<f>>
             /\ \A h \in Files : p \in Pending(h)' <=> h = f
  <2>1. OthersStay(p) /\ todo'[p] = <<f>> /\ pc'[p] = "close"
    BY <1>d, <1>a, Zenon DEF Close, Goto, OthersStay
  <2>2. \A i, j \in 1..Len(<<f>>) : <<f>>[i] = <<f>>[j] => i = j
    BY SMTT(30)
  <2>3. TodoInv'
    BY <1>c, <2>1, <2>2, SMTT(30)
  <2>4. ASSUME NEW h \in Files PROVE p \in Pending(h)' <=> h = f
    <3>1. p \in Pending(h)' <=> \E i \in 1..Len(<<f>>) : <<f>>[i] = h
      BY <2>1, PendingThen, SMTT(30)
    <3> QED BY <3>1, SMTT(30)
  <2> QED BY <2>1, <2>3, <2>4, Zenon
<1>e. ASSUME NEW p \in Procs, OthersStay(p), ofile' = ofile, ref' = ref,
             todo'[p] = <<>>, todo[p] = <<>>, pc[p] # "pipe", pc'[p] # "pipe"
      PROVE  TodoInv' /\ RefInv'
  <2>1. TodoInv'
    BY <1>c, <1>e, SMTT(30)
  <2>2. ASSUME NEW f \in Files
        PROVE  ref'[f] = Cardinality(Descriptors(f)') + Cardinality(Pending(f)')
    <3>1. p \notin Pending(f) /\ p \notin Pending(f)'
      BY <1>0, <1>e, PendingAt, PendingThen, Zenon
    <3>2. ref'[f] = ref[f] + In(p, Pending(f)') - In(p, Pending(f))
      BY <1>a, <1>e, <3>1, SMTT(30) DEF In
    <3> QED BY <1>0, <1>e, <3>2, RefSame, Zenon
  <2> QED BY <2>1, <2>2, Zenon DEF RefInv
<1>f. ASSUME ref' = ref, ofile' = ofile, todo' = todo, pc' = pc, file' = file PROVE TodoInv' /\ RefInv'
  <2>1. \A f \in Files : Descriptors(f)' = Descriptors(f) /\ Pending(f)' = Pending(f)
    BY <1>f, Zenon DEF Descriptors, Pending
  <2>2. TodoInv'
    BY <1>0, <1>f, Zenon DEF TodoInv
  <2> QED BY <1>0, <1>f, <2>1, <2>2, Zenon DEF RefInv
<1>1. ASSUME NEW p \in Procs, NEW f \in Files, TakeFile(p, f) PROVE TodoInv' /\ RefInv'
  <2>1. /\ OthersStay(p) /\ ofile' = ofile /\ todo'[p] = <<>> /\ todo[p] = <<>> /\ pc[p] = "user"
        /\ pc'[p] = "pipe" /\ file'[p] = f
    BY <1>1, <1>0, <1>a, Zenon DEF TakeFile, At, Goto, OthersStay, TodoInv, fds
  <2>2. TodoInv'
    BY <1>c, <2>1, SMTT(30)
  <2>3. ASSUME NEW h \in Files
        PROVE  ref'[h] = Cardinality(Descriptors(h)') + Cardinality(Pending(h)')
    <3>1. p \notin Pending(h) /\ (p \in Pending(h)' <=> h = f)
      BY <1>0, <2>1, PendingAt, PendingThen, SMTT(30)
    <3>2. ref'[h] = IF h = f THEN ref[h] + 1 ELSE ref[h]
      BY <1>1, <1>a, SMTT(30) DEF TakeFile
    <3>3. ref'[h] = ref[h] + In(p, Pending(h)') - In(p, Pending(h))
      BY <1>a, <3>1, <3>2, SMTT(30) DEF In
    <3> QED BY <1>0, <2>1, <3>3, RefSame, Zenon
  <2> QED BY <2>2, <2>3, Zenon DEF RefInv
<1>2. ASSUME NEW p \in Procs, NEW f \in Files, OpenFails(p, f) PROVE TodoInv' /\ RefInv'
  <2>1. /\ OthersStay(p) /\ TodoInv' /\ \A h \in Files : p \in Pending(h)' <=> h = f
    BY <1>2, <1>d, Zenon DEF OpenFails, work
  <2>2. pc[p] = "user" /\ ofile' = ofile
    BY <1>2, Zenon DEF OpenFails, At, fds
  <2>3. ASSUME NEW h \in Files
        PROVE  ref'[h] = Cardinality(Descriptors(h)') + Cardinality(Pending(h)')
    <3>1. p \notin Pending(h) /\ (p \in Pending(h)' <=> h = f)
      BY <1>0, <2>1, <2>2, PendingAt, SMTT(30)
    <3>2. ref'[h] = IF h = f THEN ref[h] + 1 ELSE ref[h]
      BY <1>2, <1>a, SMTT(30) DEF OpenFails
    <3>3. ref'[h] = ref[h] + In(p, Pending(h)') - In(p, Pending(h))
      BY <1>a, <3>1, <3>2, SMTT(30) DEF In
    <3> QED BY <1>0, <2>1, <2>2, <3>3, RefSame, SMTT(30)
  <2> QED BY <2>1, <2>3, Zenon DEF RefInv
<1>3. ASSUME NEW p \in Procs, OneFile(p) PROVE TodoInv' /\ RefInv'
  <2>0. file[p] \in Files /\ pc[p] = "pipe" /\ ofile' = ofile /\ ref' = ref
    BY <1>3, InUse, Zenon DEF OneFile, At
  <2>1. /\ OthersStay(p) /\ TodoInv' /\ \A h \in Files : p \in Pending(h)' <=> h = file[p]
    BY <1>3, <1>a, <1>d, <2>0, SMTT(30) DEF OneFile
  <2>3. ASSUME NEW h \in Files
        PROVE  ref'[h] = Cardinality(Descriptors(h)') + Cardinality(Pending(h)')
    <3>1. (p \in Pending(h) <=> h = file[p]) /\ (p \in Pending(h)' <=> h = file[p])
      BY <1>0, <2>1, <2>0, PendingAt, SMTT(30)
    <3>3. ref'[h] = ref[h] + In(p, Pending(h)') - In(p, Pending(h))
      BY <1>a, <2>0, <3>1, SMTT(30) DEF In
    <3> QED BY <1>0, <2>1, <2>0, <3>3, RefSame, Zenon
  <2> QED BY <2>1, <2>3, Zenon DEF RefInv
<1>4. ASSUME NEW p \in Procs, NEW f1 \in Files, NEW g \in free, NewPipe(p, f1, g)
      PROVE  /\ file[p] \in Files /\ file[p] # f1 /\ pc[p] = "pipe" /\ todo[p] = <<>>
             /\ \A q \in Procs : q # p => file'[q] = file[q]
             /\ file'[p] = NoFile
             /\ \A h \in Files : ref'[h] = IF h = f1 THEN ref[h] + 1 ELSE ref[h]
             /\ \A h \in Files : p \in Pending(h) <=> h = file[p]
  <2>1. file[p] \in Files /\ ref[file[p]] >= 1 /\ ref[f1] = 0 /\ pc[p] = "pipe" /\ todo[p] = <<>>
    BY <1>4, <1>0, InUse, SMTT(30) DEF NewPipe, At, TodoInv
  <2>2. \A h \in Files : ref'[h] = IF h = f1 THEN ref[h] + 1 ELSE ref[h]
    BY <1>4, <1>a, <2>1, SMTT(30) DEF NewPipe
  <2>3. \A h \in Files : p \in Pending(h) <=> h = file[p]
    BY <1>0, <2>1, PendingAt, Zenon
  <2> QED BY <1>4, <1>a, <2>1, <2>2, <2>3, SMTT(30) DEF NewPipe
<1>5. ASSUME NEW p \in Procs, NEW f1 \in Files, NEW g \in free, NewPipe(p, f1, g), NotInstalled(p, f1)
      PROVE  TodoInv' /\ RefInv'
  <2> DEFINE s == <<file[p], f1>>
  <2>1. file[p] \in Files /\ file[p] # f1
    BY <1>4, <1>5, Zenon
  <2>2. OthersStay(p) /\ todo'[p] = s /\ pc'[p] = "close" /\ ofile' = ofile
    BY <1>4, <1>5, <1>a, SMTT(30) DEF NotInstalled, Close, Goto, OthersStay
  <2>3. Len(s) = 2 /\ s[1] = file[p] /\ s[2] = f1
    BY Zenon
  <2>4. \A i, j \in 1..Len(todo'[p]) : todo'[p][i] = todo'[p][j] => i = j
    <3>1. \A i \in 1..Len(s) : i = 1 \/ i = 2
      BY <2>3, SMTT(30)
    <3> HIDE DEF s
    <3> QED BY <2>1, <2>2, <2>3, <3>1, Zenon
  <2>5. TodoInv'
    BY <1>c, <2>2, <2>4, Zenon
  <2>6. ASSUME NEW h \in Files
        PROVE  ref'[h] = Cardinality(Descriptors(h)') + Cardinality(Pending(h)')
    <3>1. p \in Pending(h)' <=> \E i \in 1..Len(s) : s[i] = h
      <4> HIDE DEF s
      <4> QED BY <2>2, PendingThen, SMTT(30)
    <3>2. p \in Pending(h)' <=> h = file[p] \/ h = f1
      <4>1. 1 \in 1..Len(s) /\ 2 \in 1..Len(s) /\ \A i \in 1..Len(s) : i = 1 \/ i = 2
        BY <2>3, SMTT(30)
      <4> HIDE DEF s
      <4> QED BY <2>3, <3>1, <4>1, Zenon
    <3>3. ref'[h] = ref[h] + In(p, Pending(h)') - In(p, Pending(h))
      BY <1>4, <1>5, <1>a, <2>1, <3>2, SMTT(30) DEF In
    <3> QED BY <1>0, <2>2, <3>3, RefSame, SMTT(30)
  <2> QED BY <2>5, <2>6, Zenon DEF RefInv
<1>6. ASSUME NEW p \in Procs, NEW f1 \in Files, NEW g \in free, NewPipe(p, f1, g),
             NEW d0 \in Fds, NEW d1 \in Fds, Installed(p, f1, d0, d1)
      PROVE  TodoInv' /\ RefInv'
  <2>1. /\ file[p] \in Files /\ file[p] # f1 /\ pc[p] = "pipe" /\ todo[p] = <<>>
        /\ \A h \in Files : ref'[h] = IF h = f1 THEN ref[h] + 1 ELSE ref[h]
        /\ \A h \in Files : p \in Pending(h) <=> h = file[p]
    BY <1>4, <1>6, Zenon
  <2>2. OthersStay(p) /\ todo'[p] = <<>> /\ pc'[p] = "user"
    BY <1>4, <1>6, <1>a, SMTT(30) DEF Installed, Goto, OthersStay
  <2>3. /\ d0 # d1 /\ ofile[p][d0] = NoFile /\ ofile[p][d1] = NoFile
        /\ \A q \in Procs, e \in Fds :
             ofile'[q][e] = IF q = p /\ e = d0 THEN file[p]
                            ELSE IF q = p /\ e = d1 THEN f1 ELSE ofile[q][e]
    BY <1>6, <1>a, Zenon DEF Installed
  <2>4. TodoInv'
    BY <1>c, <2>2, SMTT(30)
  <2>5. ASSUME NEW h \in Files
        PROVE  ref'[h] = Cardinality(Descriptors(h)') + Cardinality(Pending(h)')
    <3>1. p \notin Pending(h)'
      BY <2>2, PendingThen, Zenon
    <3>2. CASE h = f1
      <4>1. /\ \A q \in Procs, e \in Fds : q # p \/ e # d1 => ((ofile'[q][e] = h) = (ofile[q][e] = h))
            /\ ofile'[p][d1] = h /\ ofile[p][d1] # h
        BY <1>b, <2>1, <2>3, <3>2, SMTT(30)
      <4>2. ref'[h] = ref[h] + Eq(ofile'[p][d1], h) - Eq(ofile[p][d1], h)
                          + In(p, Pending(h)') - In(p, Pending(h))
        BY <1>a, <2>1, <3>1, <3>2, <4>1, SMTT(30) DEF Eq, In
      <4> QED BY <1>0, <2>2, <4>1, <4>2, RefMove, SMTT(30)
    <3>3. CASE h # f1
      <4>1. /\ \A q \in Procs, e \in Fds : q # p \/ e # d0 => ((ofile'[q][e] = h) = (ofile[q][e] = h))
            /\ ofile'[p][d0] = file[p] /\ ofile[p][d0] # h
        BY <1>b, <2>1, <2>3, <3>3, SMTT(30)
      <4>2. ref'[h] = ref[h] + Eq(ofile'[p][d0], h) - Eq(ofile[p][d0], h)
                          + In(p, Pending(h)') - In(p, Pending(h))
        BY <1>a, <2>1, <3>1, <3>3, <4>1, SMTT(30) DEF Eq, In
      <4> QED BY <1>0, <2>2, <4>1, <4>2, RefMove, ZenonT(60)
    <3> QED BY <3>2, <3>3, Zenon
  <2> QED BY <2>4, <2>5, Zenon DEF RefInv
<1>7. ASSUME NEW p \in Procs, NEW d \in Fds, NEW v,
             \A q \in Procs, e \in Fds : ofile'[q][e] = IF q = p /\ e = d THEN v ELSE ofile[q][e]
      PROVE  /\ ofile'[p][d] = v
             /\ \A h \in Files : \A q \in Procs, e \in Fds :
                  q # p \/ e # d => ((ofile'[q][e] = h) = (ofile[q][e] = h))
  BY <1>7, Zenon
<1>8. ASSUME NEW p \in Procs, NEW f \in Files, NEW d \in Fds, Opens(p, f, d) PROVE TodoInv' /\ RefInv'
  <2>1. OthersStay(p) /\ todo'[p] = <<>> /\ todo[p] = <<>> /\ pc[p] = "user" /\ pc'[p] = "user"
    BY <1>8, <1>0, <1>a, Zenon DEF Opens, At, OthersStay, TodoInv, work
  <2>2. TodoInv'
    BY <1>c, <2>1, SMTT(30)
  <2>3. /\ ofile[p][d] = NoFile /\ ofile'[p][d] = f
        /\ \A h \in Files : \A q \in Procs, e \in Fds :
             q # p \/ e # d => ((ofile'[q][e] = h) = (ofile[q][e] = h))
    <3>1. \A q \in Procs, c \in Fds : ofile'[q][c] = IF q = p /\ c = d THEN f ELSE ofile[q][c]
      BY <1>8, <1>a, Zenon DEF Opens
    <3> QED BY <1>8, <3>1, SMTT(30) DEF Opens
  <2>4. ASSUME NEW h \in Files
        PROVE  ref'[h] = Cardinality(Descriptors(h)') + Cardinality(Pending(h)')
    <3>1. p \notin Pending(h) /\ p \notin Pending(h)'
      BY <1>0, <2>1, PendingAt, PendingThen, Zenon
    <3>2. ref'[h] = IF h = f THEN ref[h] + 1 ELSE ref[h]
      BY <1>8, <1>a, SMTT(30) DEF Opens
    <3>3. ref'[h] = ref[h] + Eq(ofile'[p][d], h) - Eq(ofile[p][d], h)
                          + In(p, Pending(h)') - In(p, Pending(h))
      BY <1>a, <1>b, <2>3, <3>1, <3>2, SMTT(30) DEF Eq, In
    <3> QED BY <1>0, <2>1, <2>3, <3>3, RefMove, ZenonT(60)
  <2> QED BY <2>2, <2>4, Zenon DEF RefInv
<1>9. ASSUME NEW p \in Procs, NEW d \in Fds, NEW e \in Fds, Dups(p, d, e) PROVE TodoInv' /\ RefInv'
  <2> DEFINE f == ofile[p][d]
  <2>0. f \in Files
    BY <1>9, <1>a, SMTT(30) DEF Dups
  <2>1. OthersStay(p) /\ todo'[p] = <<>> /\ todo[p] = <<>> /\ pc[p] = "user" /\ pc'[p] = "user"
    BY <1>9, <1>0, <1>a, Zenon DEF Dups, At, OthersStay, TodoInv, work
  <2>2. TodoInv'
    BY <1>c, <2>1, SMTT(30)
  <2>3. /\ ofile[p][e] = NoFile /\ ofile'[p][e] = f
        /\ \A h \in Files : \A q \in Procs, c \in Fds :
             q # p \/ c # e => ((ofile'[q][c] = h) = (ofile[q][c] = h))
    <3>1. \A q \in Procs, c \in Fds : ofile'[q][c] = IF q = p /\ c = e THEN f ELSE ofile[q][c]
      BY <1>9, <1>a, Zenon DEF Dups
    <3> QED BY <1>9, <3>1, SMTT(30) DEF Dups
  <2>4. \A h \in Files : ref'[h] = IF h = f THEN ref[h] + 1 ELSE ref[h]
    BY <1>9, <1>a, <2>0, Zenon DEF Dups
  <2> HIDE DEF f
  <2>5. ASSUME NEW h \in Files
        PROVE  ref'[h] = Cardinality(Descriptors(h)') + Cardinality(Pending(h)')
    <3>1. p \notin Pending(h) /\ p \notin Pending(h)'
      BY <1>0, <2>1, PendingAt, PendingThen, Zenon
    <3>3. ref'[h] = ref[h] + Eq(ofile'[p][e], h) - Eq(ofile[p][e], h)
                          + In(p, Pending(h)') - In(p, Pending(h))
      BY <1>a, <1>b, <2>3, <3>1, <2>4, SMTT(30) DEF Eq, In
    <3> QED BY <1>0, <2>1, <2>3, <3>3, RefMove, ZenonT(60)
  <2> QED BY <2>2, <2>5, Zenon DEF RefInv
<1>10. ASSUME NEW p \in Procs, NEW d \in Fds, ExitDrops(p, d) PROVE TodoInv' /\ RefInv'
  <2> DEFINE f == ofile[p][d]
  <2>0. f \in Files /\ ref[f] >= 1
    BY <1>10, InUse, Zenon DEF ExitDrops
  <2>1. OthersStay(p) /\ todo'[p] = <<>> /\ todo[p] = <<>> /\ pc[p] = "exit" /\ pc'[p] = "exit"
    BY <1>10, <1>0, <1>a, SMTT(30) DEF ExitDrops, Drop, At, OthersStay, TodoInv, work
  <2>2. TodoInv'
    BY <1>c, <2>1, SMTT(30)
  <2>3. /\ ofile'[p][d] = NoFile
        /\ \A h \in Files : \A q \in Procs, c \in Fds :
             q # p \/ c # d => ((ofile'[q][c] = h) = (ofile[q][c] = h))
    <3>1. \A q \in Procs, c \in Fds : ofile'[q][c] = IF q = p /\ c = d THEN NoFile ELSE ofile[q][c]
      BY <1>10, <1>a, Zenon DEF ExitDrops
    <3> QED BY <1>10, <3>1, SMTT(30) DEF ExitDrops
  <2>4. \A h \in Files : ref'[h] = IF h = f THEN ref[h] - 1 ELSE ref[h]
    BY <1>10, <1>a, <2>0, SMTT(30) DEF ExitDrops, Drop
  <2>5. ASSUME NEW h \in Files
        PROVE  ref'[h] = Cardinality(Descriptors(h)') + Cardinality(Pending(h)')
    <3>1. p \notin Pending(h) /\ p \notin Pending(h)'
      BY <1>0, <2>1, PendingAt, PendingThen, Zenon
    <3>3. ref'[h] = ref[h] + Eq(ofile'[p][d], h) - Eq(ofile[p][d], h)
                          + In(p, Pending(h)') - In(p, Pending(h))
      BY <1>a, <1>b, <2>3, <3>1, <2>4, SMTT(30) DEF Eq, In
    <3> QED BY <1>0, <2>1, <2>3, <3>3, RefMove, ZenonT(60)
  <2> QED BY <2>2, <2>5, Zenon DEF RefInv
<1>11. ASSUME NEW p \in Procs, NEW d \in Fds, SysClose(p, d) PROVE TodoInv' /\ RefInv'
  <2> DEFINE f == ofile[p][d]
  <2>0. f \in Files /\ pc[p] = "user"
    BY <1>11, InUse, Zenon DEF SysClose, At
  <2>1. /\ OthersStay(p) /\ TodoInv' /\ \A h \in Files : p \in Pending(h)' <=> h = f
    BY <1>11, <1>d, <2>0, Zenon DEF SysClose, work
  <2>3. /\ ofile'[p][d] = NoFile
        /\ \A h \in Files : \A q \in Procs, c \in Fds :
             q # p \/ c # d => ((ofile'[q][c] = h) = (ofile[q][c] = h))
    <3>1. \A q \in Procs, c \in Fds : ofile'[q][c] = IF q = p /\ c = d THEN NoFile ELSE ofile[q][c]
      BY <1>11, <1>a, Zenon DEF SysClose
    <3> QED BY <1>11, <3>1, SMTT(30) DEF SysClose
  <2>5. ASSUME NEW h \in Files
        PROVE  ref'[h] = Cardinality(Descriptors(h)') + Cardinality(Pending(h)')
    <3>1. p \notin Pending(h) /\ ref'[h] = ref[h]
      BY <1>0, <1>11, <2>0, PendingAt, SMTT(30) DEF SysClose, ftable
    <3>3. ref'[h] = ref[h] + Eq(ofile'[p][d], h) - Eq(ofile[p][d], h)
                          + In(p, Pending(h)') - In(p, Pending(h))
      BY <1>a, <1>b, <2>1, <2>3, <3>1, SMTT(30) DEF Eq, In
    <3> QED BY <1>0, <2>1, <2>3, <3>3, RefMove, ZenonT(60)
  <2> QED BY <2>1, <2>5, Zenon DEF RefInv
<1>12. ASSUME NEW p \in Procs, FileClose(p) PROVE TodoInv' /\ RefInv'
  <2> DEFINE s == todo[p]
             f == Head(s)
  <2>0. f \in Files /\ ref[f] >= 1 /\ s \in Seq(Files) /\ s # <<>> /\ pc[p] = "close"
    BY <1>12, <1>a, InUse, Zenon DEF FileClose, At
  <2>1. OthersStay(p) /\ todo'[p] = Tail(s) /\ pc'[p] = "close" /\ ofile' = ofile
    BY <1>12, <1>a, Zenon DEF FileClose, Drop, At, OthersStay, work
  <2>2. /\ Len(Tail(s)) = Len(s) - 1 /\ Len(s) \in Nat /\ Len(s) >= 1 /\ f = s[1]
        /\ \A i \in 1..Len(Tail(s)) : Tail(s)[i] = s[i + 1]
    BY <2>0, SMTT(30)
  <2>3. \A i, j \in 1..Len(s) : s[i] = s[j] => i = j
    BY <1>0, Zenon DEF TodoInv
  <2>4. \A h \in Files : ref'[h] = IF h = f THEN ref[h] - 1 ELSE ref[h]
    BY <1>12, <1>a, <2>0, Zenon DEF FileClose, Drop
  <2> HIDE DEF s, f
  <2>5. \A i, j \in 1..Len(Tail(s)) : Tail(s)[i] = Tail(s)[j] => i = j
    <3> SUFFICES ASSUME NEW i \in 1..Len(Tail(s)), NEW j \in 1..Len(Tail(s)), Tail(s)[i] = Tail(s)[j]
                 PROVE  i = j
      BY Zenon
    <3>1. i + 1 \in 1..Len(s) /\ j + 1 \in 1..Len(s) /\ s[i + 1] = s[j + 1]
      BY <2>2, SMTT(30)
    <3>2. i + 1 = j + 1
      BY <2>3, <3>1, Zenon
    <3> QED BY <2>2, <3>2, SMTT(30)
  <2>6. TodoInv'
    BY <1>c, <2>1, <2>5, Zenon
  <2>7. ASSUME NEW h \in Files
        PROVE  ref'[h] = Cardinality(Descriptors(h)') + Cardinality(Pending(h)')
    <3>1. p \in Pending(h) <=> \E i \in 1..Len(s) : s[i] = h
      BY <1>0, <2>0, PendingAt, SMTT(30) DEF s
    <3>2. p \in Pending(h)' <=> \E i \in 1..Len(Tail(s)) : Tail(s)[i] = h
      <4>1. p \in Pending(h)' <=> \/ \E i \in 1..Len(todo'[p]) : todo'[p][i] = h
                                  \/ pc'[p] = "pipe" /\ file'[p] = h
        BY Zenon DEF Pending
      <4> QED BY <2>1, <4>1, Zenon
    <3>3. CASE h = f
      <4>1. p \in Pending(h)
        BY <2>2, <3>1, <3>3, SMTT(30)
      <4>2. p \notin Pending(h)'
        <5> SUFFICES ASSUME NEW i \in 1..Len(Tail(s)), Tail(s)[i] = h PROVE FALSE
          BY <3>2, Zenon
        <5>1. i + 1 \in 1..Len(s) /\ 1 \in 1..Len(s) /\ s[i + 1] = s[1]
          BY <2>2, <3>3, SMTT(30)
        <5>2. i + 1 = 1
          BY <2>3, <5>1, Zenon
        <5> QED BY <2>2, <5>2, SMTT(30)
      <4>3. ref'[h] = ref[h] + In(p, Pending(h)') - In(p, Pending(h))
        BY <1>a, <2>4, <3>3, <4>1, <4>2, SMTT(30) DEF In
      <4> QED BY <1>0, <2>1, <4>3, RefSame, SMTT(30)
    <3>4. CASE h # f
      <4>1. p \in Pending(h) <=> p \in Pending(h)'
        <5>1. ASSUME NEW i \in 1..Len(Tail(s)), Tail(s)[i] = h PROVE \E j \in 1..Len(s) : s[j] = h
          <6>1. i + 1 \in 1..Len(s) /\ s[i + 1] = h
            BY <2>2, <5>1, SMTT(30)
          <6> QED BY <6>1, Zenon
        <5>2. ASSUME NEW i \in 1..Len(s), s[i] = h
              PROVE  \E j \in 1..Len(Tail(s)) : Tail(s)[j] = h
          <6>1. i # 1
            BY <2>2, <3>4, <5>2, SMTT(30)
          <6>2. i - 1 \in 1..Len(Tail(s)) /\ Tail(s)[i - 1] = s[(i - 1) + 1] /\ (i - 1) + 1 = i
            BY <2>2, <6>1, SMTT(30)
          <6> QED BY <5>2, <6>2, Zenon
        <5> QED BY <3>1, <3>2, <5>1, <5>2, SMTT(30)
      <4>3. ref'[h] = ref[h] + In(p, Pending(h)') - In(p, Pending(h))
        BY <1>a, <2>4, <3>4, <4>1, SMTT(30) DEF In
      <4> QED BY <1>0, <2>1, <4>3, RefSame, Zenon
    <3> QED BY <3>3, <3>4, Zenon
  <2> QED BY <2>6, <2>7, Zenon DEF RefInv
<1>13. ASSUME NEW p \in Procs, NEW c \in Procs, Fork(p, c) PROVE TodoInv' /\ RefInv'
  <2>1. c # p /\ pc[p] = "user" /\ pc[c] = "user" /\ \A d \in Fds : ofile[c][d] = NoFile
    BY <1>13, SMTT(30) DEF Fork, At, IInv, CallInv
  <2>2. todo' = todo /\ file' = file /\ \A q \in Procs : pc'[q] = IF q = c THEN "user" ELSE pc[q]
    BY <1>13, <1>a, Zenon DEF Fork, Goto, work
  <2>3. TodoInv'
    BY <1>0, <2>1, <2>2, SMTT(30) DEF TodoInv
  <2>4. ASSUME NEW f \in Files
        PROVE  ref'[f] = Cardinality(Descriptors(f)') + Cardinality(Pending(f)')
    <3> DEFINE D == {d \in Fds : ofile[p][d] = f}
               N == {c} \X D
    <3>1. Pending(f)' = Pending(f)
      BY <2>1, <2>2, Zenon DEF Pending
    <3>2. IsFiniteSet(D) /\ Cardinality(D) \in Nat
      BY FdsFinite, FS_Subset, FS_CardinalityType, SMTT(30)
    <3>3. IsFiniteSet({c}) /\ Cardinality({c}) = 1
      BY FS_Singleton, Zenon
    <3>4. IsFiniteSet(N) /\ Cardinality(N) = Cardinality(D)
      <4> HIDE DEF D
      <4>1. IsFiniteSet(N) /\ Cardinality(N) = Cardinality({c}) * Cardinality(D)
        BY <3>2, <3>3, FS_Product, Zenon
      <4> QED BY <3>2, <3>3, <4>1, SMTT(30)
    <3>5. \A q \in Procs, d \in Fds : ofile'[q][d] = IF q = c THEN ofile[p][d] ELSE ofile[q][d]
      BY <1>13, <1>a, Zenon DEF Fork
    <3>6. Descriptors(f)' = Descriptors(f) \cup N
      <4>1. ASSUME NEW u \in Procs \X Fds
            PROVE  u \in Descriptors(f)' <=> u \in Descriptors(f) \/ u \in N
        <5>1. u[1] \in Procs /\ u[2] \in Fds /\ u = <<u[1], u[2]>>
          BY SMTT(30)
        <5>2. u \in Descriptors(f)' <=> ofile'[u[1]][u[2]] = f
          BY Zenon DEF Descriptors
        <5>3. u \in Descriptors(f) <=> ofile[u[1]][u[2]] = f
          BY Zenon DEF Descriptors
        <5>4. u \in N <=> u[1] = c /\ ofile[p][u[2]] = f
          BY <5>1, Zenon
        <5>5. u[1] = c => ofile[u[1]][u[2]] # f
          BY <1>b, <2>1, <5>1, SMTT(30)
        <5> QED BY <3>5, <5>1, <5>2, <5>3, <5>4, <5>5, SMTT(30)
      <4>2. Descriptors(f)' \subseteq Procs \X Fds /\ Descriptors(f) \subseteq Procs \X Fds
            /\ N \subseteq Procs \X Fds
        BY Zenon DEF Descriptors
      <4> HIDE DEF N
      <4> QED BY <4>1, <4>2, Zenon
    <3>7. Descriptors(f) \cap N = {}
      <4> SUFFICES ASSUME NEW u \in Descriptors(f), u \in N PROVE FALSE
        BY Zenon
      <4>1. u[1] = c /\ u[2] \in Fds /\ ofile[u[1]][u[2]] = f
        BY Zenon DEF Descriptors
      <4> QED BY <1>b, <2>1, <4>1, Zenon
    <3>8. IsFiniteSet(Descriptors(f)) /\ Cardinality(Descriptors(f)) \in Nat
      <4>1. Descriptors(f) \subseteq Procs \X Fds
        BY Zenon DEF Descriptors
      <4> QED BY <4>1, FdsFinite, FS_Subset, FS_CardinalityType, SMTT(30)
    <3>9. Cardinality(Pending(f)) \in Nat
      <4>1. Pending(f) \subseteq Procs
        BY Zenon DEF Pending
      <4> QED BY <4>1, FilesAssumption, FS_Subset, FS_CardinalityType, SMTT(30)
    <3>10. ref'[f] = ref[f] + Cardinality(D)
      BY <1>13, <1>a, Zenon DEF Fork, Dup
    <3>11. ref[f] = Cardinality(Descriptors(f)) + Cardinality(Pending(f))
      BY <1>0, Zenon DEF RefInv
    <3>12. Cardinality(Descriptors(f) \cup N) = Cardinality(Descriptors(f)) + Cardinality(N)
      <4> HIDE DEF N, D
      <4>1. Cardinality(Descriptors(f) \cup N)
              = Cardinality(Descriptors(f)) + Cardinality(N) - Cardinality(Descriptors(f) \cap N)
        BY <3>4, <3>8, FS_Union, SMTT(30)
      <4>2. Cardinality(Descriptors(f) \cap N) = 0
        BY <3>7, FS_EmptySet, Zenon
      <4> QED BY <3>2, <3>4, <3>8, <4>1, <4>2, SMTT(30)
    <3> HIDE DEF N, D
    <3> QED BY <3>1, <3>2, <3>4, <3>6, <3>8, <3>9, <3>10, <3>11, <3>12, SMTT(30)
  <2> QED BY <2>3, <2>4, Zenon DEF RefInv
<1>14. ASSUME NEW p \in Procs, PipeClose(p) PROVE TodoInv' /\ RefInv'
  BY <1>f, <1>14, Zenon DEF PipeClose, ftable, fds, work
<1>15. ASSUME NEW p \in Procs, Kill(p) PROVE TodoInv' /\ RefInv'
  BY <1>f, <1>15, Zenon DEF Kill, ftable, fds, work
<1>16. ASSUME UNCHANGED vars PROVE TodoInv' /\ RefInv'
  BY <1>f, <1>16, Zenon DEF vars, ftable, fds, work
<1>17. ASSUME NEW p \in Procs, Exit(p) PROVE TodoInv' /\ RefInv'
  <2>1. /\ OthersStay(p) /\ ofile' = ofile /\ ref' = ref /\ pc[p] = "user" /\ pc'[p] = "exit"
        /\ todo'[p] = <<>> /\ todo[p] = <<>>
    BY <1>17, <1>0, <1>a, Zenon DEF Exit, At, Goto, OthersStay, TodoInv, ftable, fds, work
  <2> QED BY <1>e, <2>1, Zenon
<1>18. ASSUME NEW p \in Procs, Closed(p) PROVE TodoInv' /\ RefInv'
  <2>1. /\ OthersStay(p) /\ ofile' = ofile /\ ref' = ref /\ pc[p] # "pipe" /\ pc'[p] = "user"
        /\ todo'[p] = <<>> /\ todo[p] = <<>>
    BY <1>18, <1>0, <1>a, SMTT(30) DEF Closed, At, Goto, OthersStay, TodoInv, ftable, work
  <2> QED BY <1>e, <2>1, Zenon
<1>19. ASSUME NEW p \in Procs, NEW d \in Fds, NEW n \in Counts, SysRead(p, d, n) PROVE TodoInv' /\ RefInv'
  <2>1. /\ OthersStay(p) /\ ofile' = ofile /\ ref' = ref /\ pc[p] # "pipe" /\ pc'[p] = "read"
        /\ todo'[p] = <<>> /\ todo[p] = <<>>
    BY <1>19, <1>0, <1>a, ZenonT(60) DEF SysRead, At, Goto, OthersStay, TodoInv, ftable, fds
  <2> QED BY <1>e, <2>1, Zenon
<1>20. ASSUME NEW p \in Procs, NEW d \in Fds, NEW s \in Buffers, SysWrite(p, d, s) PROVE TodoInv' /\ RefInv'
  <2>1. /\ OthersStay(p) /\ ofile' = ofile /\ ref' = ref /\ pc[p] # "pipe" /\ pc'[p] = "write"
        /\ todo'[p] = <<>> /\ todo[p] = <<>>
    BY <1>20, <1>0, <1>a, ZenonT(60) DEF SysWrite, At, Goto, OthersStay, TodoInv, ftable, fds
  <2> QED BY <1>e, <2>1, Zenon
<1>21. ASSUME NEW p \in Procs, PipeWrite(p) PROVE TodoInv' /\ RefInv'
  <2>1. /\ OthersStay(p) /\ ofile' = ofile /\ ref' = ref /\ pc[p] # "pipe" /\ pc'[p] # "pipe"
        /\ todo'[p] = <<>> /\ todo[p] = <<>>
    BY <1>21, <1>0, <1>a, ZenonT(60) DEF PipeWrite, At, Goto, OthersStay, TodoInv, ftable, fds
  <2> QED BY <1>e, <2>1, Zenon
<1>22. ASSUME NEW p \in Procs, PipeRead(p) PROVE TodoInv' /\ RefInv'
  <2>1. /\ OthersStay(p) /\ ofile' = ofile /\ ref' = ref /\ pc[p] # "pipe" /\ pc'[p] # "pipe"
        /\ todo'[p] = <<>> /\ todo[p] = <<>>
    BY <1>22, <1>0, <1>a, ZenonT(60) DEF PipeRead, At, Goto, OthersStay, TodoInv, ftable, fds
  <2> QED BY <1>e, <2>1, Zenon
<1> QED
  BY <1>1, <1>2, <1>3, <1>5, <1>6, <1>8, <1>9, <1>10, <1>11, <1>12, <1>13, <1>14, <1>15, <1>16, <1>17,
     <1>18, <1>19, <1>20, <1>21, <1>22, ZenonT(60) DEF Steps
------------------------------------------------------------------------------
(* The table is empty and every page free when the system starts. *)
LEMMA FilesInit == Init => IInv
<1> SUFFICES ASSUME Init PROVE IInv
  BY Zenon
<1>1. PIPESIZE \in Nat /\ PIPESIZE > 0 /\ UINT \in Nat /\ UINT > 0 /\ Bytes # {}
  BY FilesAssumption, SMTT(30)
<1>2. TypeOK
  <2>1. Junk \in [0 .. PIPESIZE - 1 -> Bytes]
    BY <1>1, Zenon DEF Junk
  <2>2. data \in [Pages -> [0 .. PIPESIZE - 1 -> Bytes]]
    BY <2>1, Zenon DEF Init
  <2>3. PICK p \in Procs : alive = [q \in Procs |-> q = p]
    BY Zenon DEF Init
  <2>4. alive \in [Procs -> BOOLEAN]
    BY <2>3, Zenon
  <2>5. nread \in [Pages -> 0 .. UINT - 1] /\ nwrite \in [Pages -> 0 .. UINT - 1]
    BY <1>1, SMTT(30) DEF Init
  <2> QED BY <2>2, <2>4, <2>5, SMTT(30) DEF Init, TypeOK
<1>3. \A f \in Files : Descriptors(f) = {} /\ Pending(f) = {}
  BY SMTT(30) DEF Init, Descriptors, Pending, Files, NoFile
<1>4. TodoInv
  BY SMTT(30) DEF Init, TodoInv
<1>5. RefInv
  <2>1. Cardinality({}) = 0
    BY FS_EmptySet, Zenon
  <2>2. \A f \in Files : Cardinality(Descriptors(f)) = 0 /\ Cardinality(Pending(f)) = 0
    BY <1>3, <2>1, Zenon
  <2> QED BY <2>2, SMTT(30) DEF Init, RefInv
<1>6. FileInv
  BY Zenon DEF Init, FileInv
<1>7. CallInv
  BY Zenon DEF Init, CallInv
<1>8. EndInv
  <2>1. \A e \in Ends : ~OpenEnd(e)
    BY EndFacts, Zenon DEF Init, OpenEnd
  <2> QED BY <2>1, Zenon DEF Init, EndInv, NoDangling
<1>9. PipeInv
  <2>1. (0 - 0) % UINT = 0
    BY <1>1, ModDiff, SMTT(30)
  <2> QED BY <1>1, <2>1, SMTT(30) DEF Init, PipeInv, Held
<1>10. NoLostWakeup
  BY Zenon DEF Init, NoLostWakeup
<1> QED
  BY <1>2, <1>4, <1>5, <1>6, <1>7, <1>8, <1>9, <1>10, Uses, SMTT(30) DEF IInv

(* Nothing happens, nothing changes. *)
LEMMA FilesStutter ==
  ASSUME IInv, UNCHANGED vars
  PROVE  IInv'
<1> USE DEF vars, ftable, fds, pipe, work, hist
<1>1. TypeOK' /\ TodoInv' /\ FileInv' /\ CallInv'
  <2>1. TypeOK'
    BY Zenon DEF IInv, TypeOK
  <2>2. TodoInv'
    BY Zenon DEF IInv, TodoInv
  <2>3. FileInv'
    BY Zenon DEF IInv, FileInv
  <2>4. CallInv'
    <3>1. CallInv
      BY Zenon DEF IInv
    <3>2. UNCHANGED <<alive, pc, ofile, file, type, end, chan>>
      BY Zenon
    <3> QED BY ONLY <3>1, <3>2, SMTT(30) DEF CallInv
  <2> QED BY <2>1, <2>2, <2>3, <2>4, Zenon
<1>2. RefInv'
  BY Zenon DEF IInv, RefInv, Descriptors, Pending
<1>3. EndInv'
  BY Zenon DEF IInv, EndInv, NoDangling, OpenEnd
<1>4. PipeInv' /\ NoLostWakeup'
  BY Zenon DEF IInv, PipeInv, NoLostWakeup, Held, Empty, Full
<1> QED
  BY <1>1, <1>2, <1>3, <1>4, UsesNext, Zenon DEF IInv

(* Every step keeps the invariant. *)
LEMMA FilesNext == IInv /\ [Next]_vars => IInv'
<1> SUFFICES ASSUME IInv, [Next]_vars PROVE IInv'
  BY Zenon
<1>1. Steps \/ UNCHANGED vars
  BY NextSteps, Zenon DEF IInv
<1>2. ASSUME Steps PROVE IInv'
  BY <1>2, TypeStep, RefStep, UsesNext, FileStep, CallStep, EndStep, PipeStep, WakeStep, SMTT(30) DEF IInv
<1> QED
  BY <1>1, <1>2, FilesStutter, Zenon

(* The invariant holds in every state of every behaviour. *)
LEMMA Inductive == Spec => []IInv
  BY FilesInit, FilesNext, PTL DEF Spec

(* The reference count of a struct file is the number of descriptors that    *)
(* name it plus the number of calls that are to close or install it, under   *)
(* any interleaving of open(), pipe(), dup(), close(), fork() and exit():    *)
(* filedup() and fileclose() cannot panic, and no file is reused while open. *)
THEOREM RefsAreCounted == Spec => []RefsCounted
<1>1. IInv => RefsCounted
  BY Zenon DEF IInv, TodoInv, RefInv, RefsCounted
<1> QED
  BY <1>1, Inductive, PTL

(* The two ends of a pipe are open exactly as long as a file names them or   *)
(* pipeclose() is about to close them, once each, and the page is given back *)
(* by kfree() exactly when both are closed.                                  *)
THEOREM PipesFreedOnce == Spec => []NoDangling
<1>1. IInv => NoDangling
  BY Zenon DEF IInv, EndInv
<1> QED
  BY <1>1, Inductive, PTL

(* A process sleeps in piperead() only while the pipe is empty and may be    *)
(* written, in pipewrite() only while it is full and may be read, also when  *)
(* the counters have wrapped around.                                         *)
THEOREM PipeSleepersWait == Spec => []NoLostWakeup
<1>1. IInv => NoLostWakeup
  BY Zenon DEF IInv
<1> QED
  BY <1>1, Inductive, PTL

(* After a read() has returned 0 the pipe stays empty and no file is left    *)
(* that could write to it.                                                   *)
THEOREM EndOfFileIsFinal == Spec => []EofIsFinal
<1>1. IInv => EofIsFinal
  <2> SUFFICES ASSUME IInv, NEW g \in Pages, eof[g]
               PROVE  /\ Empty(g)
                      /\ \A f \in Files : type[f] = "PIPE" => end[f] # [page |-> g, writable |-> TRUE]
    BY Zenon DEF EofIsFinal
  <2>1. Empty(g) /\ ~writeopen[g]
    BY Zenon DEF IInv, PipeInv
  <2>2. ASSUME NEW f \in Files, type[f] = "PIPE", end[f] = [page |-> g, writable |-> TRUE] PROVE FALSE
    <3>1. OpenEnd(end[f])
      BY <2>2, Zenon DEF IInv, EndInv, NoDangling
    <3> QED BY <2>1, <2>2, <3>1, SMTT(30) DEF OpenEnd
  <2> QED BY <2>1, <2>2, Zenon
<1> QED
  BY <1>1, Inductive, PTL

(* Readers are given the bytes that writers stored, in order, none lost, none *)
(* twice, also when nread and nwrite wrap around: pipe.c implements bounded   *)
(* byte streams.                                                              *)
THEOREM PipesAreStreams == Spec => Streams
<1>1. Init => Abs!Init
  <2> SUFFICES ASSUME Init PROVE Abs!Init
    BY Zenon
  <2>1. free = Pages
    BY Zenon DEF Init
  <2> QED BY <2>1, Zenon DEF Abs!Init
<1>2. IInv /\ IInv' /\ [Next]_vars => [Abs!Next]_(Abs!vars)
  <2> SUFFICES ASSUME IInv, IInv', [Next]_vars PROVE [Abs!Next]_(Abs!vars)
    BY Zenon
  <2>1. Steps \/ UNCHANGED vars
    BY NextSteps, Zenon DEF IInv
  <2>2. CASE UNCHANGED vars
    BY <2>2, Zenon DEF vars, pipe, hist, Abs!vars, Contents, Oldest, Held
  <2> QED BY <2>1, <2>2, StreamStep, Zenon
<1> QED
  BY <1>1, <1>2, Inductive, PTL DEF Spec, Streams, Abs!Spec
==============================================================================
