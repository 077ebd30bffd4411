----------------------------- MODULE ProcProofs -----------------------------
(***************************************************************************)
(* For every size of the process table: each process has a live parent to  *)
(* reap it, wait() misses no exit, no slot is taken by two forks, pids are *)
(* distinct.                                                               *)
(***************************************************************************)
EXTENDS Proc, TLAPS

(* init runs or sleeps for ever, and is never on its way out of exit(). *)
InitLives == Initproc \in Live /\ pc[Initproc] # "exit"

(* What a process sleeps on tells which call it is in. *)
Channels ==
  \A p \in Slots : state[p] = "SLEEPING" =>
    \/ pc[p] = "wait" /\ chan[p] = p
    \/ pc[p] = "sleep" /\ chan[p] = Ticks

(* fork() and the slots it fills are in one-to-one correspondence. *)
Forks ==
  /\ \A p \in Slots : pc[p] = "fork" => state[p] = "RUNNABLE" /\ np[p] \in Slots /\ state[np[p]] = "EMBRYO"
  /\ \A p \in Slots : pc[p] # "fork" => np[p] = NoProc
  /\ \A p, q \in Slots : np[p] = np[q] /\ np[p] # NoProc => p = q
  /\ \A q \in Slots : state[q] = "EMBRYO" => \E p \in Slots : np[p] = q

(* A slot that holds no process is nobody's child, nor is init, and no      *)
(* process is its own.                                                      *)
Unparented ==
  /\ parent[Initproc] = NoProc
  /\ \A p \in Slots : /\ parent[p] # p
                      /\ state[p] \in {"UNUSED", "EMBRYO"} => parent[p] = NoProc

Pids == PidsUnique /\ \A p \in Slots : pid[p] < nextpid

Inv == TypeOK /\ InitLives /\ Channels /\ Forks /\ Unparented /\ HasReaper /\ Pids /\ NoMissedExit

(* Slot numbers and channels are distinct numbers. *)
LEMMA Numbers ==
  /\ Initproc \in Slots /\ NoProc \notin Slots
  /\ Ticks \notin Slots /\ Ticks # NoChan /\ NoChan \notin Slots
  /\ Slots \subseteq NoChan..Ticks /\ Ticks \in NoChan..Ticks /\ NoChan \in NoChan..Ticks
  /\ Slots \subseteq Nat
BY ProcAssumption DEF Slots, Initproc, NoProc, NoChan, Ticks

(* wakeup1() and a signal only make sleepers RUNNABLE. *)
LEMMA WakeType ==
  ASSUME NEW st \in [Slots -> States], NEW c, NEW A
  PROVE Wakeup1(st, c) \in [Slots -> States] /\ Roused(st, A) \in [Slots -> States]
BY DEF Wakeup1, Roused, States

(* The three ways wait() can go. *)
WaitReaps(p, q) ==
  /\ q \in Zombies(p)
  /\ Set(q, "UNUSED") /\ pid' = [pid EXCEPT ![q] = 0]
  /\ parent' = [parent EXCEPT ![q] = NoProc] /\ killed' = [killed EXCEPT ![q] = FALSE]
  /\ Goto(p, "ret") /\ chan' = [chan EXCEPT ![p] = NoChan]
WaitFails(p) ==
  /\ Goto(p, "ret") /\ chan' = [chan EXCEPT ![p] = NoChan]
  /\ UNCHANGED <<state, pid, parent, killed>>
WaitSleeps(p) ==
  /\ Zombies(p) = {} /\ Children(p) # {}
  /\ Goto(p, "wait") /\ Sleep(p, p) /\ UNCHANGED <<pid, parent, killed>>

(* wait() reaps, fails or sleeps. *)
LEMMA WaitCases ==
  ASSUME NEW p \in Slots, Wait(p)
  PROVE /\ At(p, "user") \/ At(p, "wait")
        /\ (\E q \in Slots : WaitReaps(p, q)) \/ WaitFails(p) \/ WaitSleeps(p)
        /\ UNCHANGED <<sigs, nextpid, loop, bounds>>
<1>1. CASE Zombies(p) # {}
  BY <1>1 DEF Wait, WaitReaps, Zombies, Children
<1>2. CASE Zombies(p) = {}
  BY <1>2 DEF Wait, WaitFails, WaitSleeps
<1> QED BY <1>1, <1>2

(* What a step may be. *)
Steps(p) ==
  \/ AllocProc(p) \/ NoMemory(p) \/ ForkRun(p) \/ SysExit(p) \/ BecomeZombie(p)
  \/ Wait(p) \/ SysSleep(p) \/ SleepLoop(p) \/ (\E n \in 1..MaxPid : Kill(p, n))
  \/ (\E b \in BOOLEAN : Signal(p, b) \/ SysAlarm(p, b))
  \/ Interrupt(p) \/ Fault(p) \/ CheckSignals(p)

(* A step of Next, by the action that takes it. *)
LEMMA NextCases ==
  ASSUME [Next]_vars
  PROVE (\E p \in Slots : Steps(p)) \/ Tick \/ UNCHANGED vars
BY DEF Next, Steps, Kernel, Program, Halted

(* The typing part of TypeOK. *)
Typed ==
  /\ state \in [Slots -> States] /\ pid \in [Slots -> Nat] /\ nextpid \in Nat \ {0}
  /\ parent \in [Slots -> Slots \cup {NoProc}]
  /\ chan \in [Slots -> NoChan..Ticks]
  /\ killed \in [Slots -> BOOLEAN] /\ signal_pending \in [Slots -> BOOLEAN]
  /\ alarmed \in [Slots -> BOOLEAN] /\ ignores \in [Slots -> BOOLEAN]
  /\ due \in [Slots -> BOOLEAN]
  /\ pc \in [Slots -> Labels] /\ np \in [Slots -> Slots \cup {NoProc}]
  /\ sent \in Nat /\ panicked \in BOOLEAN

(* Steps keep the types. *)
LEMMA TypeStep ==
  ASSUME Inv, [Next]_vars
  PROVE Typed'
<1> USE DEF At, Goto, Set, sigs, loop, bounds, PidAfter
<1>0. Typed BY DEF Inv, TypeOK, Typed
<1>l. {"user", "ret", "fork", "exit", "wait", "sleep"} \subseteq Labels BY DEF Labels
<1>s. {"UNUSED", "EMBRYO", "SLEEPING", "RUNNABLE", "ZOMBIE"} \subseteq States BY DEF States
<1>1. ASSUME NEW p \in Slots, AllocProc(p) PROVE Typed'
  <2>1. CASE Unused = {}
    BY <2>1, <1>0, <1>1, <1>l DEF AllocProc, Typed
  <2>2. ASSUME NEW q \in Unused, Set(q, "EMBRYO"), pid' = [pid EXCEPT ![q] = nextpid],
               nextpid' = PidAfter(nextpid),
               signal_pending' = [signal_pending EXCEPT ![q] = FALSE],
               ignores' = [ignores EXCEPT ![q] = FALSE], alarmed' = [alarmed EXCEPT ![q] = FALSE],
               np' = [np EXCEPT ![p] = q], Goto(p, "fork")
        PROVE Typed'
    <3>1. q \in Slots BY DEF Unused
    <3>2. UNCHANGED <<parent, chan, killed, due, bounds>> BY <1>1 DEF AllocProc
    <3>3. state' \in [Slots -> States] /\ np' \in [Slots -> Slots \cup {NoProc}]
      BY <2>2, <3>1, <1>0, <1>s DEF Typed
    <3>4. pid' \in [Slots -> Nat] /\ nextpid' \in Nat \ {0} /\ pc' \in [Slots -> Labels]
      BY <2>2, <3>1, <1>0, <1>l DEF Typed
    <3>5. /\ signal_pending' \in [Slots -> BOOLEAN] /\ ignores' \in [Slots -> BOOLEAN]
          /\ alarmed' \in [Slots -> BOOLEAN]
      BY <2>2, <3>1, <1>0 DEF Typed
    <3> QED BY <3>2, <3>3, <3>4, <3>5, <1>0 DEF Typed
  <2> QED BY <2>1, <2>2, <1>1 DEF AllocProc
<1>2. ASSUME NEW p \in Slots, ForkRun(p) PROVE Typed'
  <2>1. np[p] \in Slots BY <1>2 DEF ForkRun, Inv, Forks
  <2> QED BY <2>1, <1>0, <1>2, <1>l, <1>s DEF ForkRun, Typed
<1>3. ASSUME NEW p \in Slots, BecomeZombie(p) PROVE Typed'
  <2> DEFINE told == Wakeup1(state, parent[p])
             st == IF TellInit(p) THEN Wakeup1(told, Initproc) ELSE told
  <2>1. told \in [Slots -> States] BY <1>0, WakeType DEF Typed
  <2>2. Wakeup1(told, Initproc) \in [Slots -> States] BY <2>1, WakeType
  <2>3. st \in [Slots -> States] BY <2>1, <2>2
  <2>4. state' = [st EXCEPT ![p] = "ZOMBIE"] BY <1>3 DEF BecomeZombie
  <2>5. state' \in [Slots -> States] BY <2>3, <2>4, <1>s
  <2>6. parent' \in [Slots -> Slots \cup {NoProc}]
    BY <1>0, <1>3, Numbers DEF Typed, BecomeZombie, Reparent
  <2> QED BY <2>5, <2>6, <1>0, <1>3 DEF BecomeZombie, Typed
<1>4. ASSUME NEW p \in Slots, Wait(p) PROVE Typed'
  <2>1. ASSUME NEW q \in Slots, WaitReaps(p, q) PROVE Typed'
    BY <2>1, <1>4, WaitCases, <1>0, <1>l, <1>s, Numbers DEF WaitReaps, Typed
  <2>2. CASE WaitFails(p)
    BY <2>2, <1>4, WaitCases, <1>0, <1>l, Numbers DEF WaitFails, Typed
  <2>3. CASE WaitSleeps(p)
    BY <2>3, <1>4, WaitCases, <1>0, <1>l, <1>s, Numbers DEF WaitSleeps, Sleep, Typed
  <2> QED BY <2>1, <2>2, <2>3, <1>4, WaitCases
<1>5. ASSUME NEW p \in Slots, SysSleep(p) \/ SleepLoop(p) PROVE Typed'
  <2>1. CASE SysSleep(p)
    BY <2>1, <1>0, <1>l, <1>s, Numbers DEF SysSleep, Sleep, Typed
  <2>2. CASE SleepLoop(p) /\ (due[p] \/ killed[p])
    <3>1. /\ pc' = [pc EXCEPT ![p] = "ret"] /\ chan' = [chan EXCEPT ![p] = NoChan]
          /\ due' = [due EXCEPT ![p] = FALSE]
          /\ UNCHANGED <<state, pid, parent, killed, sigs, nextpid, np, bounds>>
      BY <2>2, Zenon DEF SleepLoop
    <3> QED BY <3>1, <1>0, <1>l, Numbers DEF Typed
  <2>3. CASE SleepLoop(p) /\ ~(due[p] \/ killed[p])
    BY <2>3, <1>0, <1>s, Numbers DEF SleepLoop, Sleep, Typed
  <2> QED BY <2>1, <2>2, <2>3, <1>5
<1>6. ASSUME NEW p \in Slots, NEW n \in 1..MaxPid, Kill(p, n) PROVE Typed'
  <2>1. state' \in [Slots -> States] /\ signal_pending' \in [Slots -> BOOLEAN]
    <3>1. CASE UNCHANGED <<state, signal_pending>> BY <3>1, <1>0 DEF Typed
    <3>2. ASSUME NEW q \in Slots, signal_pending' = [signal_pending EXCEPT ![q] = TRUE],
                 state' = Roused(state, {q})
          PROVE state' \in [Slots -> States] /\ signal_pending' \in [Slots -> BOOLEAN]
      BY <3>2, <1>0, WakeType DEF Typed
    <3> QED BY <3>1, <3>2, <1>6 DEF Kill
  <2> QED BY <2>1, <1>6, <1>0, <1>l DEF Kill, SendsOne, Typed
<1>7. ASSUME NEW p \in Slots, NEW b \in BOOLEAN, Signal(p, b) \/ SysAlarm(p, b) PROVE Typed'
  BY <1>7, <1>0, <1>l DEF Signal, SysAlarm, SendsOne, Typed
<1>8. ASSUME NEW p \in Slots, NoMemory(p) \/ SysExit(p) \/ Interrupt(p) \/ Fault(p) \/ CheckSignals(p) PROVE Typed'
  BY ZenonT(60), <1>8, <1>0, <1>l DEF NoMemory, SysExit, Interrupt, Fault, CheckSignals, Exit, Typed
<1>9. CASE Tick
  <2>1. PICK A \in SUBSET {p \in Slots : alarmed[p]} :
          /\ alarmed' = [p \in Slots |-> alarmed[p] /\ p \notin A]
          /\ signal_pending' = [p \in Slots |-> signal_pending[p] \/ p \in A]
          /\ state' = Roused(Wakeup1(state, Ticks), A)
    BY <1>9 DEF Tick
  <2>2. state' \in [Slots -> States]
    <3>1. Wakeup1(state, Ticks) \in [Slots -> States] BY <1>0, WakeType DEF Typed
    <3> QED BY <3>1, <2>1, WakeType
  <2>3. /\ alarmed' \in [Slots -> BOOLEAN] /\ signal_pending' \in [Slots -> BOOLEAN]
        /\ due' \in [Slots -> BOOLEAN]
    BY <2>1, <1>0, <1>9, Zenon DEF Typed, Tick
  <2> QED BY <2>2, <2>3, <1>0, <1>9 DEF Tick, Typed
<1>10. CASE UNCHANGED vars
  BY <1>10, <1>0 DEF vars, Typed
<1> QED BY <1>1, <1>2, <1>3, <1>4, <1>5, <1>6, <1>7, <1>8, <1>9, <1>10, NextCases DEF Steps

Rest == InitLives /\ Channels /\ Forks /\ Unparented /\ HasReaper /\ Pids /\ NoMissedExit

(* A step that may wake sleepers, and moves a running process on outside     *)
(* fork(), but changes neither the family tree nor the slots.                *)
Quiet ==
  /\ UNCHANGED <<parent, pid, nextpid, np>>
  /\ \A q \in Slots :
       /\ \/ state'[q] = state[q]
          \/ state[q] = "SLEEPING" /\ state'[q] = "RUNNABLE"
       /\ \/ pc'[q] = pc[q] /\ chan'[q] = chan[q]
          \/ /\ state[q] = "RUNNABLE" /\ pc[q] # "fork" /\ pc'[q] # "fork"
             /\ pc'[q] = "exit" => q # Initproc

(* Quiet steps keep the invariant. *)
LEMMA QuietStep ==
  ASSUME Inv, Quiet
  PROVE Rest'
<1> USE Numbers DEF Quiet
<1>1. InitLives' BY DEF Inv, InitLives, Live
<1>2. Channels' BY DEF Inv, Channels
<1>3. Forks'
  <2>1. \A p \in Slots : (pc[p] = "fork" <=> pc'[p] = "fork") OBVIOUS
  <2>2. \A p \in Slots : (state[p] = "EMBRYO" <=> state'[p] = "EMBRYO") OBVIOUS
  <2>3. \A p \in Slots : state[p] = "RUNNABLE" => state'[p] = "RUNNABLE" OBVIOUS
  <2>4. np' = np OBVIOUS
  <2>5. Forks BY DEF Inv
  <2> HIDE DEF Quiet
  <2>6. ASSUME NEW p \in Slots, pc'[p] = "fork"
        PROVE state'[p] = "RUNNABLE" /\ np'[p] \in Slots /\ state'[np'[p]] = "EMBRYO"
    BY <2>1, <2>2, <2>3, <2>4, <2>5, <2>6 DEF Forks
  <2>7. ASSUME NEW q \in Slots, state'[q] = "EMBRYO" PROVE \E p \in Slots : np'[p] = q
    BY <2>2, <2>4, <2>5, <2>7 DEF Forks
  <2>8. ASSUME NEW p \in Slots, pc'[p] # "fork" PROVE np'[p] = NoProc
    BY <2>1, <2>4, <2>5, <2>8 DEF Forks
  <2>9. \A p, q \in Slots : np'[p] = np'[q] /\ np'[p] # NoProc => p = q
    BY <2>4, <2>5 DEF Forks
  <2> QED BY <2>6, <2>7, <2>8, <2>9 DEF Forks
<1>4. Unparented' BY DEF Inv, Unparented
<1>5. HasReaper'
  <2>1. Live \subseteq Live' BY DEF Live
  <2> QED BY <2>1 DEF Inv, HasReaper
<1>6. Pids' BY DEF Inv, Pids, PidsUnique
<1>7. NoMissedExit'
  <2>1. \A p \in Slots : (state[p] = "ZOMBIE" <=> state'[p] = "ZOMBIE") OBVIOUS
  <2>2. \A p \in Slots : Zombies(p)' = Zombies(p) /\ Children(p)' = Children(p)
    BY <2>1 DEF Zombies, Children
  <2>3. \A p \in Slots : state'[p] = "SLEEPING" => state[p] = "SLEEPING" /\ pc'[p] = pc[p] OBVIOUS
  <2> QED BY <2>2, <2>3 DEF Inv, NoMissedExit
<1> QED BY <1>1, <1>2, <1>3, <1>4, <1>5, <1>6, <1>7 DEF Rest

(* A running process that goes to sleep keeps it too. *)
LEMMA SleepStep ==
  ASSUME Inv, NEW p \in Slots, state[p] = "RUNNABLE", pc[p] # "fork",
         UNCHANGED <<parent, pid, nextpid, np>>, state' = [state EXCEPT ![p] = "SLEEPING"],
         NEW l, NEW c, pc' = [pc EXCEPT ![p] = l], chan' = [chan EXCEPT ![p] = c],
         (l = "wait" /\ c = p /\ Zombies(p) = {} /\ Children(p) # {}) \/ (l = "sleep" /\ c = Ticks)
  PROVE Rest'
<1> USE Numbers
<1>0. /\ state \in [Slots -> States] /\ pc \in [Slots -> Labels] /\ chan \in [Slots -> NoChan..Ticks]
  BY DEF Inv, TypeOK
<1>1. InitLives' BY <1>0 DEF Inv, InitLives, Live
<1>2. Channels' BY <1>0 DEF Inv, Channels
<1>3. Forks'
  <2>1. \A q \in Slots : (pc[q] = "fork" <=> pc'[q] = "fork") BY <1>0
  <2>2. \A q \in Slots : (state[q] = "EMBRYO" <=> state'[q] = "EMBRYO") BY <1>0
  <2>3. \A q \in Slots : pc[q] = "fork" => state'[q] = state[q] BY <1>0
  <2> QED BY <2>1, <2>2, <2>3 DEF Inv, Forks
<1>4. Unparented' BY <1>0 DEF Inv, Unparented
<1>5. HasReaper'
  <2>1. Live \subseteq Live' BY <1>0 DEF Live
  <2> QED BY <2>1, <1>0 DEF Inv, HasReaper
<1>6. Pids' BY DEF Inv, Pids, PidsUnique
<1>7. NoMissedExit' BY <1>0 DEF Inv, NoMissedExit, Zombies, Children
<1> QED BY <1>1, <1>2, <1>3, <1>4, <1>5, <1>6, <1>7 DEF Rest

(* allocproc() takes an UNUSED slot for one fork. *)
LEMMA AllocStep ==
  ASSUME Inv, NEW p \in Slots, NEW q \in Unused, state[p] = "RUNNABLE", pc[p] = "user",
         state' = [state EXCEPT ![q] = "EMBRYO"], pid' = [pid EXCEPT ![q] = nextpid],
         nextpid' = PidAfter(nextpid), np' = [np EXCEPT ![p] = q], pc' = [pc EXCEPT ![p] = "fork"],
         UNCHANGED <<parent, chan>>
  PROVE Rest'
<1> USE Numbers
<1>0. /\ state \in [Slots -> States] /\ pc \in [Slots -> Labels] /\ np \in [Slots -> Slots \cup {NoProc}]
      /\ pid \in [Slots -> Nat] /\ nextpid \in Nat /\ parent \in [Slots -> Slots \cup {NoProc}]
  BY DEF Inv, TypeOK
<1>q. q \in Slots /\ state[q] = "UNUSED" BY DEF Unused
<1>1. InitLives' BY <1>0, <1>q DEF Inv, InitLives, Live
<1>2. Channels' BY <1>0, <1>q DEF Inv, Channels
<1>3. Forks'
  <2>1. \A r \in Slots : np[r] # q BY <1>q, <1>0 DEF Inv, Forks
  <2>2. \A r \in Slots : pc[r] = "fork" => np[r] # q /\ r # p BY <2>1
  <2> QED BY <1>0, <1>q, <2>1, <2>2 DEF Inv, Forks
<1>4. Unparented' BY <1>0, <1>q DEF Inv, Unparented
<1>5. HasReaper'
  <2>1. Live \subseteq Live' BY <1>0, <1>q DEF Live
  <2> QED BY <2>1, <1>0, <1>q DEF Inv, HasReaper
<1>6. Pids' BY <1>0, <1>q DEF Inv, Pids, PidsUnique, PidAfter
<1>7. NoMissedExit' BY <1>0, <1>q DEF Inv, NoMissedExit, Zombies, Children
<1> QED BY <1>1, <1>2, <1>3, <1>4, <1>5, <1>6, <1>7 DEF Rest

(* The new child's parent is alive: it is the process that forks. *)
LEMMA ForkRunStep ==
  ASSUME Inv, NEW p \in Slots, ForkRun(p)
  PROVE Rest'
<1> USE Numbers DEF ForkRun, Set, At
<1>0. /\ state \in [Slots -> States] /\ pc \in [Slots -> Labels] /\ np \in [Slots -> Slots \cup {NoProc}]
      /\ parent \in [Slots -> Slots \cup {NoProc}]
  BY DEF Inv, TypeOK
<1>q. np[p] \in Slots /\ state[np[p]] = "EMBRYO" /\ np[p] # p /\ pc[np[p]] # "fork"
  BY DEF Inv, Forks
<1>1. InitLives' BY <1>0, <1>q DEF Inv, InitLives, Live
<1>2. Channels' BY <1>0, <1>q DEF Inv, Channels
<1>3. Forks'
  <2>1. \A r \in Slots \ {p} : np[r] # np[p] BY <1>q DEF Inv, Forks
  <2> QED BY <1>0, <1>q, <2>1 DEF Inv, Forks
<1>4. Unparented'
  <2>1. np[p] # Initproc BY <1>q DEF Inv, InitLives, Live
  <2> QED BY <2>1, <1>0, <1>q DEF Inv, Unparented
<1>5. HasReaper'
  <2>1. Live \subseteq Live' /\ p \in Live BY <1>0, <1>q DEF Live
  <2> QED BY <2>1, <1>0, <1>q DEF Inv, HasReaper
<1>6. Pids' BY DEF Inv, Pids, PidsUnique
<1>7. NoMissedExit'
  <2>1. \A r \in Slots \ {p} : Zombies(r)' = Zombies(r) /\ Children(r) \subseteq Children(r)'
    BY <1>0, <1>q DEF Zombies, Children, Inv, Unparented
  <2>2. \A r \in Slots : state'[r] = "SLEEPING" => r # p /\ state[r] = "SLEEPING" /\ pc'[r] = pc[r]
    BY <1>0, <1>q
  <2> QED BY <2>1, <2>2 DEF Inv, NoMissedExit
<1> QED BY <1>1, <1>2, <1>3, <1>4, <1>5, <1>6, <1>7 DEF Rest

(* exit() wakes the parent, passes the children to init, which lives, and    *)
(* wakes init if one of them is a ZOMBIE.                                    *)
LEMMA ZombieStep ==
  ASSUME Inv, NEW p \in Slots, BecomeZombie(p)
  PROVE Rest'
<1> USE Numbers
<1>0. /\ state \in [Slots -> States] /\ pc \in [Slots -> Labels] /\ np \in [Slots -> Slots \cup {NoProc}]
      /\ parent \in [Slots -> Slots \cup {NoProc}] /\ chan \in [Slots -> NoChan..Ticks]
  BY DEF Inv, TypeOK
<1>p. /\ state[p] = "RUNNABLE" /\ pc[p] = "exit" /\ p # Initproc
      /\ UNCHANGED <<pid, chan, nextpid, pc, np>>
      /\ parent' = [q \in Slots |-> IF parent[q] = p THEN Initproc ELSE parent[q]]
  BY DEF BecomeZombie, At, Inv, InitLives, loop, Reparent
<1>w. \A st \in [Slots -> States], c \in NoChan..Ticks, q \in Slots :
        Wakeup1(st, c)[q] = IF st[q] = "SLEEPING" /\ chan[q] = c THEN "RUNNABLE" ELSE st[q]
  BY DEF Wakeup1
<1> DEFINE told == Wakeup1(state, parent[p])
<1>t. told \in [Slots -> States] /\ Wakeup1(told, Initproc) \in [Slots -> States]
  <2>1. told \in [Slots -> States] BY <1>0, WakeType
  <2> QED BY <2>1, WakeType
<1>s. state' = [(IF TellInit(p) THEN Wakeup1(told, Initproc) ELSE told) EXCEPT ![p] = "ZOMBIE"]
  BY DEF BecomeZombie
<1> HIDE DEF told
<1>a. \A q \in Slots \ {p} : state'[q] = IF TellInit(p) THEN Wakeup1(told, Initproc)[q] ELSE told[q]
  BY <1>s, <1>t
<1>b. \A q \in Slots : told[q] = IF state[q] = "SLEEPING" /\ chan[q] = parent[p] THEN "RUNNABLE" ELSE state[q]
  <2>1. parent[p] \in NoChan..Ticks BY <1>0 DEF NoProc, NoChan
  <2> QED BY <2>1, <1>0, <1>w DEF told
<1>c. \A q \in Slots : Wakeup1(told, Initproc)[q]
                         = IF told[q] = "SLEEPING" /\ chan[q] = Initproc THEN "RUNNABLE" ELSE told[q]
  BY <1>t, <1>w
<1>d. ASSUME NEW q \in Slots \ {p}
      PROVE state'[q] = state[q] \/ (state[q] = "SLEEPING" /\ state'[q] = "RUNNABLE")
  <2>1. told[q] = state[q] \/ (state[q] = "SLEEPING" /\ told[q] = "RUNNABLE") BY <1>b
  <2>2. CASE TellInit(p)
    <3>1. state'[q] = Wakeup1(told, Initproc)[q] BY <1>a, <2>2
    <3>2. state'[q] = told[q] \/ (told[q] = "SLEEPING" /\ state'[q] = "RUNNABLE") BY <3>1, <1>c
    <3> QED BY <3>2, <2>1
  <2>3. CASE ~TellInit(p) BY <2>1, <1>a, <2>3
  <2> QED BY <2>2, <2>3
<1>e. state'[p] = "ZOMBIE" BY <1>s, <1>t
<1>1. InitLives' BY <1>d, <1>p DEF Inv, InitLives, Live
<1>2. Channels' BY <1>d, <1>e, <1>p DEF Inv, Channels
<1>3. Forks'
  <2>1. \A q \in Slots : (state[q] = "EMBRYO" <=> state'[q] = "EMBRYO") BY <1>d, <1>e, <1>p
  <2>2. \A q \in Slots : pc[q] = "fork" => state'[q] = state[q] BY <1>d, <1>p DEF Inv, Forks
  <2> QED BY ZenonT(60), <2>1, <2>2, <1>p DEF Inv, Forks
<1>4. Unparented'
  <2>1. ASSUME NEW q \in Slots, state'[q] \in {"UNUSED", "EMBRYO"} PROVE parent'[q] = NoProc
    <3>1. state[q] \in {"UNUSED", "EMBRYO"} /\ q # p BY <2>1, <1>d, <1>e
    <3>2. parent[q] = NoProc BY <3>1 DEF Inv, Unparented
    <3> QED BY <3>2, <1>p
  <2>2. \A q \in Slots : parent'[q] # q BY <1>p DEF Inv, Unparented
  <2>3. parent'[Initproc] = NoProc BY <1>p DEF Inv, Unparented
  <2> QED BY <2>1, <2>2, <2>3 DEF Unparented
<1>5. HasReaper'
  <2>1. Live \subseteq Live' \cup {p} BY <1>d DEF Live
  <2>2. Initproc \in Live' BY <1>1 DEF InitLives
  <2>3. ASSUME NEW q \in Slots \ {Initproc}, state'[q] \in {"SLEEPING", "RUNNABLE", "ZOMBIE"}
        PROVE parent'[q] \in Live'
    <3>1. state[q] \in {"SLEEPING", "RUNNABLE", "ZOMBIE"} BY <2>3, <1>d, <1>p
    <3>2. parent[q] \in Live BY <3>1 DEF Inv, HasReaper
    <3> QED BY <3>2, <2>1, <2>2, <1>p
  <2> QED BY <2>3 DEF HasReaper
<1>6. Pids' BY <1>p DEF Inv, Pids, PidsUnique
<1>7. NoMissedExit'
  <2> SUFFICES ASSUME NEW r \in Slots, state'[r] = "SLEEPING", pc'[r] = "wait"
               PROVE Zombies(r)' = {} /\ Children(r)' # {}
    BY DEF NoMissedExit
  <2>1. r # p /\ state[r] = "SLEEPING" /\ pc[r] = "wait" /\ chan[r] = r
    BY <1>d, <1>e, <1>p DEF Inv, Channels
  <2>2. Zombies(r) = {} /\ Children(r) # {} BY <2>1 DEF Inv, NoMissedExit
  <2>3. parent[p] # r BY <2>1, <1>a, <1>b, <1>c
  <2>4. TellInit(p) => r # Initproc BY <2>1, <1>a, <1>b, <1>c
  <2>5. Children(r) \subseteq Children(r)' BY <2>1, <1>p DEF Children
  <2>6. ASSUME NEW q \in Zombies(r)' PROVE FALSE
    <3>1. q \in Slots /\ parent'[q] = r /\ state'[q] = "ZOMBIE" BY DEF Zombies, Children
    <3>2. CASE q = p BY <3>2, <3>1, <2>3, <1>p DEF Inv, Unparented
    <3>3. CASE q # p /\ parent[q] = p
      <4>1. state[q] = "ZOMBIE" /\ r = Initproc BY <3>3, <3>1, <1>d, <1>p
      <4>2. TellInit(p) BY <4>1, <3>1, <3>3 DEF TellInit, Children
      <4> QED BY <4>1, <4>2, <2>4
    <3>4. CASE q # p /\ parent[q] # p
      <4>1. state[q] = "ZOMBIE" /\ parent[q] = r BY <3>4, <3>1, <1>d, <1>p
      <4> QED BY <4>1, <3>1, <2>2 DEF Zombies, Children
    <3> QED BY <3>2, <3>3, <3>4
  <2> QED BY <2>2, <2>5, <2>6
<1> QED BY <1>1, <1>2, <1>3, <1>4, <1>5, <1>6, <1>7 DEF Rest

(* wait() frees a slot that no live process has as its parent. *)
LEMMA ReapStep ==
  ASSUME Inv, NEW p \in Slots, NEW q \in Slots, state[p] = "RUNNABLE", pc[p] # "fork",
         WaitReaps(p, q), UNCHANGED <<nextpid, np>>
  PROVE Rest'
<1> USE Numbers DEF WaitReaps, Goto, Set
<1>0. /\ state \in [Slots -> States] /\ pc \in [Slots -> Labels] /\ np \in [Slots -> Slots \cup {NoProc}]
      /\ parent \in [Slots -> Slots \cup {NoProc}] /\ chan \in [Slots -> NoChan..Ticks]
      /\ pid \in [Slots -> Nat] /\ nextpid \in Nat \ {0}
  BY DEF Inv, TypeOK
<1>q. state[q] = "ZOMBIE" /\ parent[q] = p /\ q # p BY DEF Zombies, Children
<1>1. InitLives' BY <1>0, <1>q DEF Inv, InitLives, Live
<1>2. Channels' BY <1>0, <1>q DEF Inv, Channels
<1>3. Forks'
  <2>1. \A r \in Slots : (state[r] = "EMBRYO" <=> state'[r] = "EMBRYO") BY <1>0, <1>q
  <2>2. \A r \in Slots : (pc[r] = "fork" <=> pc'[r] = "fork") BY <1>0
  <2>3. \A r \in Slots : state[r] = "RUNNABLE" => state'[r] = "RUNNABLE" BY <1>0, <1>q
  <2> QED BY <2>1, <2>2, <2>3 DEF Inv, Forks
<1>4. Unparented' BY <1>0, <1>q DEF Inv, Unparented
<1>5. HasReaper'
  <2>1. Live \subseteq Live' BY <1>0, <1>q DEF Live
  <2> QED BY <2>1, <1>0, <1>q DEF Inv, HasReaper
<1>6. Pids' BY <1>0, <1>q DEF Inv, Pids, PidsUnique
<1>7. NoMissedExit'
  <2>1. \A r \in Slots \ {p} : Zombies(r)' = Zombies(r) /\ Children(r)' = Children(r)
    BY <1>0, <1>q DEF Zombies, Children
  <2>2. \A r \in Slots : state'[r] = "SLEEPING" => r # p /\ state[r] = "SLEEPING" /\ pc'[r] = pc[r]
    BY <1>0, <1>q
  <2> QED BY <2>1, <2>2 DEF Inv, NoMissedExit
<1> QED BY <1>1, <1>2, <1>3, <1>4, <1>5, <1>6, <1>7 DEF Rest

(* Every step keeps the invariant. *)
LEMMA InvStep ==
  ASSUME Inv, [Next]_vars
  PROVE Inv'
<1> USE DEF At, Goto, Set
<1>t. Typed' BY TypeStep
<1>0. /\ state \in [Slots -> States] /\ pc \in [Slots -> Labels] /\ chan \in [Slots -> NoChan..Ticks]
  BY DEF Inv, TypeOK
<1>1. ASSUME NEW p \in Slots, AllocProc(p) PROVE Rest'
  <2>1. CASE Unused = {}
    <3>1. Quiet BY <2>1, <1>1, <1>0 DEF AllocProc, Quiet
    <3> QED BY <3>1, QuietStep
  <2>2. ASSUME NEW q \in Unused, Set(q, "EMBRYO"), pid' = [pid EXCEPT ![q] = nextpid],
               nextpid' = PidAfter(nextpid), np' = [np EXCEPT ![p] = q], Goto(p, "fork")
        PROVE Rest'
    <3>1. UNCHANGED <<parent, chan>> /\ state[p] = "RUNNABLE" /\ pc[p] = "user" BY <1>1 DEF AllocProc
    <3> QED BY <2>2, <3>1, AllocStep
  <2> QED BY <2>1, <2>2, <1>1 DEF AllocProc
<1>2. ASSUME NEW p \in Slots, Wait(p) PROVE Rest'
  <2>0. /\ state[p] = "RUNNABLE" /\ pc[p] # "fork" /\ UNCHANGED <<nextpid, np>>
    BY <1>2, WaitCases DEF loop
  <2>1. ASSUME NEW q \in Slots, WaitReaps(p, q) PROVE Rest'
    BY <2>0, <2>1, ReapStep
  <2>2. CASE WaitFails(p)
    <3>1. Quiet BY <2>2, <2>0, <1>0 DEF WaitFails, Quiet
    <3> QED BY <3>1, QuietStep
  <2>3. CASE WaitSleeps(p)
    BY <2>0, <2>3, SleepStep DEF WaitSleeps, Sleep
  <2> QED BY <2>1, <2>2, <2>3, <1>2, WaitCases
<1>3. ASSUME NEW p \in Slots, SysSleep(p) PROVE Rest'
  BY <1>3, SleepStep DEF SysSleep, Sleep, loop
<1>4. ASSUME NEW p \in Slots, SleepLoop(p) PROVE Rest'
  <2>1. CASE due[p] \/ killed[p]
    <3>1. /\ pc' = [pc EXCEPT ![p] = "ret"] /\ chan' = [chan EXCEPT ![p] = NoChan]
          /\ state[p] = "RUNNABLE" /\ pc[p] = "sleep"
          /\ UNCHANGED <<state, pid, parent, nextpid, np>>
      BY <1>4, <2>1, Zenon DEF SleepLoop
    <3>2. Quiet BY <3>1, <1>0 DEF Quiet
    <3> QED BY <3>2, QuietStep
  <2>2. CASE ~(due[p] \/ killed[p])
    <3>1. /\ pc' = [pc EXCEPT ![p] = "sleep"] /\ chan' = [chan EXCEPT ![p] = Ticks]
          /\ state' = [state EXCEPT ![p] = "SLEEPING"]
          /\ state[p] = "RUNNABLE" /\ pc[p] = "sleep"
          /\ UNCHANGED <<pid, parent, nextpid, np>>
      BY <1>4, <2>2, <1>0 DEF SleepLoop, Sleep
    <3> QED BY <3>1, SleepStep
  <2> QED BY <2>1, <2>2
<1>5. ASSUME NEW p \in Slots, NEW n \in 1..MaxPid, Kill(p, n) PROVE Rest'
  <2>1. \A q \in Slots : \/ state'[q] = state[q]
                         \/ state[q] = "SLEEPING" /\ state'[q] = "RUNNABLE"
    BY <1>5 DEF Kill, Roused
  <2>2. Quiet BY <1>5, <2>1, <1>0 DEF Kill, Quiet, loop
  <2> QED BY <2>2, QuietStep
<1>6. ASSUME NEW p \in Slots, NEW b \in BOOLEAN, Signal(p, b) \/ SysAlarm(p, b) PROVE Rest'
  <2>1. Quiet BY <1>6, <1>0 DEF Signal, SysAlarm, Quiet, loop
  <2> QED BY <2>1, QuietStep
<1>7. ASSUME NEW p \in Slots, NoMemory(p) \/ SysExit(p) \/ Interrupt(p) \/ Fault(p) \/ CheckSignals(p) PROVE Rest'
  <2>1. Quiet BY <1>7, <1>0 DEF NoMemory, SysExit, Interrupt, Fault, CheckSignals, Exit, Quiet, loop
  <2> QED BY <2>1, QuietStep
<1>8. ASSUME Tick PROVE Rest'
  <2>1. \A q \in Slots : \/ state'[q] = state[q]
                         \/ state[q] = "SLEEPING" /\ state'[q] = "RUNNABLE"
    BY <1>8 DEF Tick, Roused, Wakeup1
  <2>2. Quiet BY <1>8, <2>1 DEF Tick, Quiet
  <2> QED BY <2>2, QuietStep
<1>9. ASSUME UNCHANGED vars PROVE Rest'
  <2>1. Quiet BY <1>9 DEF vars, Quiet, loop
  <2> QED BY <2>1, QuietStep
<1>10. Rest'
  BY <1>1, <1>2, <1>3, <1>4, <1>5, <1>6, <1>7, <1>8, <1>9, NextCases,
     ForkRunStep, ZombieStep DEF Steps
<1>11. \A p \in Slots : state'[p] = "SLEEPING" => chan'[p] # NoChan
  BY <1>10, Numbers DEF Rest, Channels
<1> QED BY <1>t, <1>10, <1>11 DEF Inv, Rest, Typed, TypeOK

(* The invariant holds when userinit() returns. *)
LEMMA InvInit ==
  ASSUME Init
  PROVE Inv
<1> USE Numbers DEF Init
<1>1. TypeOK
  <2>1. "user" \in Labels /\ {"RUNNABLE", "UNUSED"} \subseteq States BY DEF States, Labels
  <2>2. state \in [Slots -> States] /\ pc \in [Slots -> Labels] BY <2>1
  <2>3. pid \in [Slots -> Nat] /\ nextpid \in Nat \ {0} /\ sent \in Nat OBVIOUS
  <2>4. /\ parent \in [Slots -> Slots \cup {NoProc}] /\ np \in [Slots -> Slots \cup {NoProc}]
        /\ chan \in [Slots -> NoChan..Ticks]
    OBVIOUS
  <2> QED BY <2>2, <2>3, <2>4 DEF TypeOK
<1>2. InitLives /\ Channels /\ Forks BY DEF InitLives, Live, Channels, Forks
<1>3. Unparented /\ HasReaper /\ NoMissedExit BY DEF Unparented, HasReaper, NoMissedExit
<1>4. Pids BY DEF Pids, PidsUnique
<1> QED BY <1>1, <1>2, <1>3, <1>4 DEF Inv

(* The inductive invariant holds in every reachable state. *)
THEOREM ProcInvariant == Spec => []Inv
BY InvInit, InvStep, PTL DEF Spec

(* Types, for every size of the process table. *)
THEOREM ProcTypes == Spec => []TypeOK
<1>1. Inv => TypeOK BY DEF Inv
<1> QED BY <1>1, ProcInvariant, PTL

(* Whatever exit() and fork() interleave, a process has a live parent. *)
THEOREM AlwaysReaper == Spec => []HasReaper
<1>1. Inv => HasReaper BY DEF Inv
<1> QED BY <1>1, ProcInvariant, PTL

(* wait() never sleeps through the exit of a child. *)
THEOREM ExitsSeen == Spec => []NoMissedExit
<1>1. Inv => NoMissedExit BY DEF Inv
<1> QED BY <1>1, ProcInvariant, PTL

(* Each slot that allocproc() took belongs to one fork() under way. *)
THEOREM EmbryosAreOwned == Spec => []EmbryosOwned
<1>1. Inv => EmbryosOwned
  <2> SUFFICES ASSUME Inv, NEW q \in Slots, state[q] = "EMBRYO"
               PROVE \E p \in Live : np[p] = q /\ pc[p] = "fork" /\ \A r \in Slots \ {p} : np[r] # q
    BY DEF EmbryosOwned
  <2>1. PICK p \in Slots : np[p] = q BY DEF Inv, Forks
  <2>2. pc[p] = "fork" /\ state[p] = "RUNNABLE" BY <2>1, Numbers DEF Inv, Forks
  <2>3. \A r \in Slots \ {p} : np[r] # q BY <2>1, Numbers DEF Inv, Forks
  <2> QED BY <2>1, <2>2, <2>3 DEF Live
<1> QED BY <1>1, ProcInvariant, PTL

(* No two slots ever have the same pid. *)
THEOREM PidsAreUnique == Spec => []PidsUnique
<1>1. Inv => PidsUnique BY DEF Inv, Pids
<1> QED BY <1>1, ProcInvariant, PTL
=============================================================================
