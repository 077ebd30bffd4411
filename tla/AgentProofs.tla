---------------------------- MODULE AgentProofs ----------------------------
(* Machine-checked proofs that the agent only ever asks for legal parameters, *)
(* that the kernel takes them, and that they only tighten, for every set of   *)
(* statistics the kernel may report.                                          *)
EXTENDS Agent, FiniteSetTheorems, TLAPS

(* clamp() returns a value between its bounds. *)
LEMMA ClampRange ==
  ASSUME NEW v \in Int, NEW lo \in Int, NEW hi \in Int, lo <= hi
  PROVE  clamp(v, lo, hi) \in Int /\ lo <= clamp(v, lo, hi) /\ clamp(v, lo, hi) <= hi
BY DEF clamp

(* RequestsLegal, spelled out on the agent's variables. *)
CurOK ==
  /\ cur_q0 \in Int /\ cur_q1 \in Int /\ cur_q2 \in Int /\ cur_boost \in Int
  /\ cur_af \in Int /\ cur_as \in Int /\ cur_aging \in Int
  /\ 1 <= cur_q0 /\ cur_q0 <= 10 /\ cur_q0 <= cur_q1
  /\ cur_q1 <= 20 /\ cur_q1 <= cur_q2 /\ cur_q2 <= 40
  /\ 10 <= cur_boost /\ cur_boost <= 500
  /\ cur_as = 10 /\ cur_as < cur_af /\ cur_af <= 90
  /\ 1 <= cur_aging /\ cur_aging <= 100

(* The parameters the agent works with stay within the ranges it clamps to. *)
LEMMA CurLegal == CurOK => RequestsLegal
BY AgentAssumption DEF CurOK, RequestsLegal, Legal, Update

(* One run of decide_and_update(), whichever rules fire, keeps CurOK: each    *)
(* rule clamps what it changes, and q1 and q2 are raised to q0 at the end.    *)
LEMMA DecideOK ==
  ASSUME CurOK, NEW F, Decide(F)
  PROVE  CurOK'
<1> DEFINE q0_1 == IF 1 \in F THEN clamp(cur_q0 - 1, 1, 10) ELSE cur_q0
           q0_2 == IF 2 \in F THEN clamp(q0_1 + 1, 1, 10) ELSE q0_1
           q0_3 == IF 3 \in F THEN clamp(q0_2 - 1, 1, 10) ELSE q0_2
           boost_1 == IF 1 \in F THEN clamp(cur_boost - 20, 10, 500) ELSE cur_boost
           boost_4 == IF 4 \in F THEN clamp(boost_1 - 10, 10, 500) ELSE boost_1
           q1 == IF cur_q1 < q0_3 THEN q0_3 ELSE cur_q1
           af == IF 5 \in F THEN cur_af + 10 ELSE cur_af - 5
<1>1. /\ cur_q0' = q0_3 /\ cur_q1' = q1
      /\ cur_q2' = IF cur_q2 < q1 THEN q1 ELSE cur_q2
      /\ cur_boost' = boost_4 /\ cur_as' = cur_as
      /\ cur_af' = clamp(af, cur_as + 1, 90)
      /\ cur_aging' = IF 6 \in F THEN clamp(cur_aging - 3, 1, 100) ELSE cur_aging
  BY DEF Decide
<1>2. q0_1 \in Int /\ 1 <= q0_1 /\ q0_1 <= 10
  BY ClampRange DEF CurOK
<1>3. q0_2 \in Int /\ 1 <= q0_2 /\ q0_2 <= 10
  <2> HIDE DEF q0_1
  <2> QED BY <1>2, ClampRange
<1>4. q0_3 \in Int /\ 1 <= q0_3 /\ q0_3 <= 10
  <2> HIDE DEF q0_2
  <2> QED BY <1>3, ClampRange
<1>5. boost_1 \in Int /\ 10 <= boost_1 /\ boost_1 <= 500
  BY ClampRange DEF CurOK
<1>6. boost_4 \in Int /\ 10 <= boost_4 /\ boost_4 <= 500
  <2> HIDE DEF boost_1
  <2> QED BY <1>5, ClampRange
<1>7. cur_af' \in Int /\ cur_as < cur_af' /\ cur_af' <= 90
  <2>1. af \in Int /\ cur_as + 1 \in Int /\ cur_as + 1 <= 90
    BY DEF CurOK
  <2> HIDE DEF af
  <2> QED BY <1>1, <2>1, ClampRange DEF CurOK
<1>8. cur_aging' \in Int /\ 1 <= cur_aging' /\ cur_aging' <= 100
  BY <1>1, ClampRange DEF CurOK
<1> HIDE DEF q0_3, boost_4
<1>9. /\ cur_q0' \in Int /\ 1 <= cur_q0' /\ cur_q0' <= 10 /\ cur_q0' <= cur_q1'
      /\ cur_q1' \in Int /\ cur_q1' <= 20
      /\ cur_q2' \in Int /\ cur_q1' <= cur_q2' /\ cur_q2' <= 40
  BY <1>1, <1>4 DEF CurOK
<1> QED
  BY <1>1, <1>6, <1>7, <1>8, <1>9 DEF CurOK

(* Every update the agent computes is legal, rr_mode aside: setschedparam()   *)
(* can refuse it for no other reason, whatever getschedstats() reports and    *)
(* however often each rule of decide_and_update() fires.                      *)
THEOREM AgentRequestsLegal == Spec => []RequestsLegal
<1>1. Init => CurOK
  BY DEF Init, CurOK
<1>2. CurOK /\ [Next]_vars => CurOK'
  <2> SUFFICES ASSUME CurOK, [Next]_vars PROVE CurOK'
    OBVIOUS
  <2>1. ASSUME NEW st \in Stats, Epoch(st) PROVE CurOK'
    BY <2>1, DecideOK DEF Epoch
  <2>2. CASE UNCHANGED cur
    BY <2>2 DEF cur, CurOK
  <2>3. ASSUME NEW rr \in UnsetRr, Actuate(rr) PROVE UNCHANGED cur
    BY <2>3 DEF Actuate
  <2>4. CASE Tick \/ Awake \/ RaiseAlert
    BY <2>2, <2>4 DEF Tick, Awake, RaiseAlert
  <2> QED
    BY <2>1, <2>2, <2>3, <2>4 DEF Next, vars
<1> QED
  BY <1>1, <1>2, CurLegal, PTL DEF Spec

------------------------------------------------------------------------------
(* The sums of compute_workload_type() are finite. *)
LEMMA UnitsFinite ==
  ASSUME NEW n \in Nat, NEW f \in [1..n -> Nat]
  PROVE  IsFiniteSet(Units(f)) /\ Total(f) \in Nat
<1> DEFINE S == {{i} \X (1..f[i]) : i \in 1..n}
           h == [i \in 1..n |-> {i} \X (1..f[i])]
<1>1. h \in Surjection(1..n, S)
  BY Zenon DEF Surjection
<1>2. IsFiniteSet(1..n)
  BY FS_Interval
<1>3. IsFiniteSet(S)
  <2> HIDE DEF S, h
  <2> QED BY <1>1, <1>2, FS_Surjection, Zenon
<1>4. ASSUME NEW i \in 1..n PROVE IsFiniteSet({i} \X (1..f[i]))
  <2>1. f[i] \in Int /\ 1 \in Int
    OBVIOUS
  <2>2. IsFiniteSet({i}) /\ IsFiniteSet(1..f[i])
    BY <2>1, FS_Interval, FS_Singleton, Zenon
  <2> QED BY <2>2, FS_Product, Zenon
<1>5. IsFiniteSet(UNION S)
  <2>1. \A T \in S : IsFiniteSet(T)
    BY <1>4, Zenon
  <2> HIDE DEF S
  <2> QED BY <1>3, <2>1, FS_UNION, Zenon
<1>6. Units(f) = UNION S
  BY Zenon DEF Units
<1> QED
  BY <1>5, <1>6, FS_CardinalityType, Zenon DEF Total

(* A sum of smaller numbers is smaller. *)
LEMMA TotalMonotone ==
  ASSUME NEW n \in Nat, NEW f \in [1..n -> Nat], NEW g \in [1..n -> Nat],
         \A i \in 1..n : f[i] <= g[i]
  PROVE  Total(f) <= Total(g)
<1>1. \A i \in 1..n : 1..f[i] \subseteq 1..g[i]
  OBVIOUS
<1>2. Units(f) \in SUBSET Units(g)
  <2>1. \A x \in Units(f) : \E i \in 1..n : x \in {i} \X (1..f[i])
    BY Zenon DEF Units
  <2>2. \A i \in 1..n : {i} \X (1..f[i]) \subseteq {i} \X (1..g[i])
    BY <1>1, Zenon
  <2>3. \A i \in 1..n : {i} \X (1..g[i]) \subseteq Units(g)
    BY Zenon DEF Units
  <2> QED BY <2>1, <2>2, <2>3, Zenon
<1> QED
  BY <1>2, UnitsFinite, FS_Subset, Zenon DEF Total

(* A part that is no more than the rest is at most half of the whole. *)
LEMMA AtMostHalf ==
  ASSUME NEW a \in Nat, NEW b \in Nat, a <= b, a + b # 0
  PROVE  (a * 100) \div (a + b) <= 50
<1> DEFINE d == a + b
           q == (a * 100) \div d
<1>1. d \in Nat /\ d > 0 /\ a * 100 \in Nat /\ a * 100 <= 50 * d
  OBVIOUS
<1>2. q \in Int /\ d * q <= a * 100
  <2> HIDE DEF d
  <2> QED BY <1>1
<1> HIDE DEF q
<1>3. SUFFICES ASSUME q >= 51 PROVE FALSE
  BY <1>2 DEF q
<1>4. d * q >= d * 51
  <2> HIDE DEF d
  <2> QED BY <1>1, <1>2, <1>3
<1> HIDE DEF d
<1>5. d * 51 > 50 * d
  BY <1>1
<1> QED BY <1>1, <1>2, <1>4, <1>5

(* Yields are preemptions, so workload_type is never above 50. *)
LEMMA WorkloadAtMost50 ==
  ASSUME NEW st \in Stats
  PROVE  compute_workload_type(st) \in Int /\ compute_workload_type(st) <= 50
<1> DEFINE f == [i \in DOMAIN st |-> st[i].yield_count]
           g == [i \in DOMAIN st |-> st[i].preempt_count]
<1>1. /\ st \in Seq(Stat)
      /\ \A i \in DOMAIN st : st[i].yield_count <= st[i].preempt_count
  BY StatsAssumption, Zenon
<1>2. PICK n \in Nat : DOMAIN st = 1..n /\ st \in [1..n -> Stat]
  BY <1>1
<1>3. \A i \in 1..n : st[i].yield_count \in Nat /\ st[i].preempt_count \in Nat
  BY <1>2 DEF Stat
<1>4. f \in [1..n -> Nat] /\ g \in [1..n -> Nat] /\ \A i \in 1..n : f[i] <= g[i]
  BY <1>1, <1>2, <1>3, Zenon
<1>5. Yields(st) = Total(f) /\ Preempts(st) = Total(g)
  BY Zenon DEF Yields, Preempts
<1> HIDE DEF f, g
<1>6. Yields(st) \in Nat /\ Preempts(st) \in Nat /\ Yields(st) <= Preempts(st)
  BY <1>4, <1>5, UnitsFinite, TotalMonotone, Zenon
<1>7. CASE Yields(st) + Preempts(st) = 0
  BY <1>7 DEF compute_workload_type
<1>8. CASE Yields(st) + Preempts(st) # 0
  <2>1. (Yields(st) * 100) \div (Yields(st) + Preempts(st)) <= 50
    BY <1>6, <1>8, AtMostHalf, Zenon
  <2>2. (Yields(st) * 100) \div (Yields(st) + Preempts(st)) \in Int
    BY <1>6, <1>8
  <2> QED BY <1>8, <2>1, <2>2, Zenon DEF compute_workload_type
<1> QED
  BY <1>7, <1>8, Zenon

(* So rule 2 is never counted, and never fires. *)
LEMMA RuleTwoIdle ==
  ASSUME NEW st \in Stats
  PROVE  Counted(st)[2] = 0 /\ 2 \notin Fires(st)
<1>1. ~Holds(2, st)
  <2>1. Holds(2, st) <=> compute_workload_type(st) > 70
    BY DEF Holds
  <2> QED BY <2>1, WorkloadAtMost50
<1>2. Counted(st)[2] = 0
  BY <1>1 DEF Counted
<1> QED
  BY <1>2 DEF Fires, Needed

(* The other rules widen nothing. *)
LEMMA DecideTightens ==
  ASSUME CurOK, NEW F, 2 \notin F, Decide(F)
  PROVE  cur_q0' <= cur_q0 /\ cur_boost' <= cur_boost /\ cur_aging' <= cur_aging
<1> DEFINE q0_1 == IF 1 \in F THEN clamp(cur_q0 - 1, 1, 10) ELSE cur_q0
           q0_3 == IF 3 \in F THEN clamp(q0_1 - 1, 1, 10) ELSE q0_1
           boost_1 == IF 1 \in F THEN clamp(cur_boost - 20, 10, 500) ELSE cur_boost
           boost_4 == IF 4 \in F THEN clamp(boost_1 - 10, 10, 500) ELSE boost_1
<1>1. /\ cur_q0' = q0_3 /\ cur_boost' = boost_4
      /\ cur_aging' = IF 6 \in F THEN clamp(cur_aging - 3, 1, 100) ELSE cur_aging
  BY DEF Decide
<1>2. q0_1 \in Int /\ 1 <= q0_1 /\ q0_1 <= cur_q0
  BY DEF CurOK, clamp
<1>3. q0_3 <= cur_q0
  <2> HIDE DEF q0_1
  <2> QED BY <1>2 DEF CurOK, clamp
<1>4. boost_1 \in Int /\ 10 <= boost_1 /\ boost_1 <= cur_boost
  BY DEF CurOK, clamp
<1>5. boost_4 <= cur_boost
  <2> HIDE DEF boost_1
  <2> QED BY <1>4 DEF CurOK, clamp
<1> HIDE DEF q0_3, boost_4
<1>6. cur_aging' <= cur_aging
  BY <1>1 DEF CurOK, clamp
<1> QED
  BY <1>1, <1>3, <1>5, <1>6, Zenon

(* The agent and the kernel together: rule 2 is never counted, and what the   *)
(* agent is about to ask for is no wider than what the kernel runs with.      *)
AgentInv ==
  /\ TypeOK /\ CurOK /\ cnt[2] = 0
  /\ cur_q0 <= schedp.q0_quantum /\ cur_boost <= schedp.boost_interval

(* What OnlyTightens says of one step. *)
Tighter ==
  /\ cur_q0' <= cur_q0 /\ cur_boost' <= cur_boost /\ cur_aging' <= cur_aging
  /\ schedp'.q0_quantum <= schedp.q0_quantum
  /\ schedp'.boost_interval <= schedp.boost_interval

(* The settings of sagent.c and of pinit() agree. *)
LEMMA AgentStart == Init => AgentInv /\ (pc = "sleep" => schedp = Update(0))
<1> SUFFICES ASSUME Init PROVE AgentInv /\ pc # "sleep"
  OBVIOUS
<1>1. CurOK
  BY DEF Init, CurOK
<1>2. cnt \in [1..6 -> {0, 1, 2}] /\ cnt[2] = 0
  BY DEF Init
<1>3. schedp \in Params /\ schedp.q0_quantum = 4 /\ schedp.boost_interval = 500
  BY DEF Init, Params
<1>4. TypeOK
  BY <1>1, <1>2, <1>3 DEF Init, TypeOK, CurOK
<1> QED
  BY <1>1, <1>2, <1>3, <1>4 DEF Init, AgentInv

(* Every step keeps the invariant and tightens. *)
LEMMA AgentStep ==
  ASSUME AgentInv, [Next]_vars
  PROVE  AgentInv' /\ Tighter
<1>t. /\ TypeOK /\ CurOK /\ schedp \in Params /\ schedp.q0_quantum \in Int /\ schedp.boost_interval \in Int
      /\ cur_q0 \in Int /\ cur_boost \in Int /\ cur_aging \in Int
      /\ cur_q0 <= schedp.q0_quantum /\ cur_boost <= schedp.boost_interval /\ cnt[2] = 0
  BY DEF AgentInv, TypeOK, Params, CurOK
<1>n. /\ cur_q0 <= cur_q0 /\ cur_boost <= cur_boost /\ cur_aging <= cur_aging
      /\ schedp.q0_quantum <= schedp.q0_quantum /\ schedp.boost_interval <= schedp.boost_interval
  BY <1>t
<1>1. ASSUME NEW st \in Stats, Epoch(st) PROVE AgentInv' /\ Tighter
  <2>1. /\ alert' = sched_alert /\ cnt' = Counted(st) /\ pc' = "actuate"
        /\ UNCHANGED <<timer, schedp, sched_alert>> /\ Decide(Fires(st))
    BY <1>1, Zenon DEF Epoch, kernel
  <2>2. CurOK' /\ cur_q0' <= cur_q0 /\ cur_boost' <= cur_boost /\ cur_aging' <= cur_aging
    BY <1>t, <2>1, RuleTwoIdle, DecideOK, DecideTightens, Zenon
  <2>3. cnt' \in [1..6 -> {0, 1, 2}] /\ cnt'[2] = 0
    <3>1. \A r \in 1..6 : cnt[r] \in {0, 1, 2}
      BY <1>t DEF TypeOK
    <3>2. \A r \in 1..6 : Counted(st)[r] \in {0, 1, 2}
      BY <3>1 DEF Counted
    <3>3. Counted(st) \in [1..6 -> {0, 1, 2}]
      BY <3>2 DEF Counted
    <3> QED BY <2>1, <3>3, RuleTwoIdle, Zenon
  <2>4. TypeOK'
    BY <1>t, <2>1, <2>2, <2>3 DEF TypeOK, CurOK
  <2>5. cur_q0' <= schedp'.q0_quantum /\ cur_boost' <= schedp'.boost_interval
    BY <1>t, <2>1, <2>2 DEF CurOK
  <2> QED BY <1>n, <2>1, <2>2, <2>3, <2>4, <2>5, Zenon DEF AgentInv, Tighter
<1>2. ASSUME NEW rr \in UnsetRr, Actuate(rr) PROVE AgentInv' /\ Tighter
  <2>1. UNCHANGED <<cur, cnt, alert>> /\ pc' = "sleep" /\ timer' \in {ALERT_SLEEP, EPOCH_TICKS}
    BY <1>2, Zenon DEF Actuate
  <2>2. /\ CurOK' /\ cur_q0' = cur_q0 /\ cur_boost' = cur_boost /\ cur_aging' = cur_aging
        /\ UNCHANGED <<cur_q1, cur_q2, cur_af, cur_as>>
    BY <1>t, <2>1 DEF cur, CurOK
  <2>3. /\ schedp' = schedp \/ schedp' = Update(rr)
        /\ sched_alert' = sched_alert \/ sched_alert' = 0
    BY <1>2, Zenon DEF Actuate, kernel
  <2>4. Update(rr) \in Params /\ Update(rr).q0_quantum = cur_q0 /\ Update(rr).boost_interval = cur_boost
    BY <1>t, AgentAssumption DEF Update, Params, CurOK
  <2>5. /\ schedp' \in Params
        /\ cur_q0 <= schedp'.q0_quantum /\ schedp'.q0_quantum <= schedp.q0_quantum
        /\ cur_boost <= schedp'.boost_interval /\ schedp'.boost_interval <= schedp.boost_interval
    BY <1>t, <1>n, <2>3, <2>4, Zenon
  <2>6. TypeOK'
    BY <1>t, <2>1, <2>2, <2>3, <2>5, AgentAssumption DEF TypeOK
  <2> QED BY <1>t, <1>n, <2>1, <2>2, <2>5, <2>6, Zenon DEF AgentInv, Tighter
<1>3. ASSUME UNCHANGED <<cur, cnt, schedp>>, TypeOK' PROVE AgentInv' /\ Tighter
  <2>1. CurOK' /\ cur_q0' = cur_q0 /\ cur_boost' = cur_boost /\ cur_aging' = cur_aging
    BY <1>t, <1>3 DEF cur, CurOK
  <2> QED BY <1>t, <1>n, <1>3, <2>1, Zenon DEF AgentInv, Tighter
<1>4. CASE Tick \/ Awake \/ RaiseAlert \/ UNCHANGED vars
  <2>1. UNCHANGED <<cur, cnt, schedp>>
    BY <1>4, Zenon DEF Tick, Awake, RaiseAlert, vars, kernel
  <2>2. TypeOK'
    BY <1>4, <1>t, <2>1 DEF Tick, Awake, RaiseAlert, vars, kernel, TypeOK, cur
  <2> QED BY <1>3, <2>1, <2>2, Zenon
<1> QED
  BY <1>1, <1>2, <1>4, Zenon DEF Next

(* The agent can only tighten the scheduler, whatever it observes: rule 2,    *)
(* the one rule that would widen the Q0 quantum, never fires, because the     *)
(* kernel counts every yield as a preemption too.                             *)
THEOREM AgentOnlyTightens == Spec => OnlyTightens
<1>1. AgentInv /\ [Next]_vars => AgentInv' /\ Tighter
  BY AgentStep
<1> QED
  BY <1>1, AgentStart, PTL DEF Spec, OnlyTightens, Tighter

(* With rr_mode zero, as the fresh stack page leaves it, the kernel takes     *)
(* every update: while the agent sleeps the kernel runs with its values.      *)
THEOREM AgentUpdatesTaken == UnsetRr = {0} => (Spec => []UpdatesTaken)
<1> SUFFICES ASSUME UnsetRr = {0} PROVE Spec => []UpdatesTaken
  OBVIOUS
<1> DEFINE Taken == pc = "sleep" => schedp = Update(0)
<1>1. AgentInv /\ Taken /\ [Next]_vars => AgentInv' /\ Taken'
  <2> SUFFICES ASSUME AgentInv, Taken, [Next]_vars PROVE Taken'
    BY AgentStep
  <2>1. ASSUME NEW st \in Stats, Epoch(st) PROVE Taken'
    BY <2>1 DEF Epoch
  <2>2. ASSUME NEW rr \in UnsetRr, Actuate(rr) PROVE Taken'
    <3>1. rr = 0 /\ Legal(Update(0))
      BY CurLegal DEF AgentInv, RequestsLegal
    <3>2. schedp' = Update(0) /\ UNCHANGED cur
      BY <2>2, <3>1, Zenon DEF Actuate
    <3>3. Update(0)' = Update(0)
      BY <3>2 DEF Update, cur
    <3> QED BY <3>2, <3>3, Zenon
  <2>3. CASE Tick \/ Awake \/ RaiseAlert \/ UNCHANGED vars
    <3>1. UNCHANGED <<cur, schedp>> /\ (pc' = pc \/ pc' = "observe")
      BY <2>3, Zenon DEF Tick, Awake, RaiseAlert, vars, kernel
    <3>2. Update(0)' = Update(0)
      BY <3>1 DEF Update, cur
    <3> QED BY <3>1, <3>2
  <2> QED BY <2>1, <2>2, <2>3, Zenon DEF Next
<1>2. AgentInv /\ Taken => UpdatesTaken
  BY DEF AgentInv, UpdatesTaken
<1>3. Init => AgentInv /\ Taken
  BY AgentStart
<1> QED
  BY <1>1, <1>2, <1>3, PTL DEF Spec
=============================================================================
