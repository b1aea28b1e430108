--------------------------- MODULE MpcNodeProofs ---------------------------
(***************************************************************************)
(* InductiveInv of MpcNode is an invariant for every value of the          *)
(* constants, and with it the safety properties TLC checks on small ones,  *)
(* those of MCMpcNode about runs of solves included.                       *)
(***************************************************************************)
EXTENDS MCMpcNode, SequenceTheorems, FiniteSetTheorems, TLAPS

\* The shared assumptions on the constants, in one fact.
LEMMA Constants ==
    /\ MaxPos \in Nat /\ GoalRadius \in Nat /\ AlignStart \in Nat
    /\ GoalTolerance \in Nat
    /\ OdomTimeout \in Nat /\ PathTimeout \in Nat /\ LidarMaxAge \in Nat
    /\ SolvePeriod \in Nat \ {0}
    /\ EngageCycles \in Nat \ {0} /\ ClearCycles \in Nat \ {0}
    /\ SoftHoldCycles \in Nat
    /\ MaxConsecFailures \in Nat \ {0}
    /\ None \notin Poses
    /\ Window \in Nat \ {0} /\ Window <= 20 /\ CfgVxMax \in Nat \ {0} /\ VxFloor \in Nat \ {0}
BY MpcAssumption, TrackerAssumption, AdaptiveAssumption

-----------------------------------------------------------------------------
(* Lemmas about the operators the solve is built from                      *)

\* A solve leaves a tracker state of the right shape, and never a warm start
\* that has outlived MaxConsecFailures failures in a row.
LEMMA TrackerStep ==
    ASSUME NEW t \in Trackers, NEW outcome \in Outcomes, NEW r \in Reference,
           t.warm # "none" => t.fails < MaxConsecFailures
    PROVE  /\ TrackerAfter(t, outcome, r) \in Trackers
           /\ TrackerAfter(t, outcome, r).warm # "none"
                 => TrackerAfter(t, outcome, r).fails < MaxConsecFailures
<1> USE Constants DEF Trackers, Source, Reference, Outcomes
<1>1. \A n \in 0..MaxConsecFailures : CountFailure(n) \in 0..MaxConsecFailures
  BY DEF CountFailure
<1>2. CASE Contouring
  <2>1. TrackerAfter(t, outcome, r) = ContouringSolve(t, outcome, r)
    BY <1>2 DEF TrackerAfter
  <2>2. CASE outcome = "ok"
    BY <2>1, <2>2 DEF ContouringSolve
  <2>3. CASE outcome = "nofit"
    BY <2>1, <2>3 DEF ContouringSolve
  <2>4. CASE outcome = "fail"
    <3> DEFINE n == CountFailure(IF t.warm = "none" \/ t.fails >= MaxConsecFailures
                                 THEN 0 ELSE t.fails)
    <3>1. n \in 0..MaxConsecFailures
      BY <1>1
    <3>2. TrackerAfter(t, outcome, r) =
            [warm |-> IF n >= MaxConsecFailures THEN "none" ELSE t.warm, fails |-> n]
      BY <2>1, <2>4 DEF ContouringSolve
    <3> HIDE DEF n
    <3> QED BY <3>1, <3>2
  <2> QED BY <1>2, <2>2, <2>3, <2>4
<1>3. CASE ~Contouring
  <2>1. TrackerAfter(t, outcome, r) = TrackingSolve(t, outcome, r)
    BY <1>3 DEF TrackerAfter
  <2>2. t.fails \in 0..MaxConsecFailures
    OBVIOUS
  <2> QED BY <1>1, <1>3, <2>1, <2>2 DEF TrackingSolve
<1> QED BY <1>2, <1>3

\* The window of outcomes stays a sequence of booleans.
LEMMA RecentTyped ==
    ASSUME NEW s \in Seq(BOOLEAN), NEW ok \in BOOLEAN
    PROVE  RecentAfter(s, ok) \in Seq(BOOLEAN)
<1>1. Append(s, ok) \in Seq(BOOLEAN) /\ Append(s, ok) # <<>>
  OBVIOUS
<1>2. Tail(Append(s, ok)) \in Seq(BOOLEAN)
  BY <1>1
<1> QED BY <1>1, <1>2 DEF RecentAfter

\* The adaptive ceiling stays a natural number.
LEMMA VxTyped ==
    ASSUME NEW s, NEW v \in Nat
    PROVE  VxAfter(s, v) \in Nat
BY Constants DEF VxAfter, Lower, Upper

\* One debounce step keeps its counters in range, and an engaged mode is one
\* that still needs clear solves to let go.
LEMMA SecurityStep ==
    ASSUME security_mode \in BOOLEAN,
           engage_count \in 0..EngageCycles, clear_count \in 0..ClearCycles,
           security_mode => clear_count < ClearCycles,
           NEW near \in BOOLEAN, SecurityEscape(near)
    PROVE  /\ security_mode' \in BOOLEAN
           /\ engage_count' \in 0..EngageCycles /\ clear_count' \in 0..ClearCycles
           /\ security_mode' => clear_count' < ClearCycles
<1> USE Constants DEF SecurityEscape, Lower
<1>1. CASE near
  BY <1>1
<1>2. CASE ~near
  <2>1. /\ engage_count' = 0
        /\ clear_count' = IF security_mode THEN clear_count + 1 ELSE clear_count
        /\ security_mode' = (security_mode /\ clear_count + 1 < ClearCycles)
    BY <1>2
  <2> QED BY <2>1
<1> QED BY <1>1, <1>2

\* The soft hold: a remembered command has been decayed once per failure since
\* the last good solve, and there were at most SoftHoldCycles of them.
LEMMA CommandStep ==
    ASSUME last_good \in GoodCmds, soft_hold \in 0..(SoftHoldCycles + 1),
           last_good.src # "none" => soft_hold <= SoftHoldCycles /\ last_good.dec = soft_hold,
           NEW solved \in BOOLEAN, NEW r \in Reference, CommandAfter(solved, r)
    PROVE  /\ last_good' \in GoodCmds /\ soft_hold' \in 0..(SoftHoldCycles + 1)
           /\ last_good'.src # "none"
                => soft_hold' <= SoftHoldCycles /\ last_good'.dec = soft_hold'
<1> USE Constants DEF GoodCmds, NoGoodCmd, Source, Reference, Lower, CommandAfter
<1>1. CASE solved
  BY <1>1
<1>2. CASE ~solved /\ soft_hold + 1 <= SoftHoldCycles
  BY <1>2 DEF Decayed
<1>3. CASE ~solved /\ ~(soft_hold + 1 <= SoftHoldCycles)
  BY <1>3
<1> QED BY <1>1, <1>2, <1>3

-----------------------------------------------------------------------------
(* The inductive invariant                                                 *)

\* The node starts in the invariant.
LEMMA InitInv == Init => InductiveInv
<1> USE Constants DEF Init, PoseAgeCap, PathAgeCap, ScanAgeCap
<1> SUFFICES ASSUME Init PROVE InductiveInv
  OBVIOUS
<1>1. TypeOK
  <2>1. recent \in Seq(BOOLEAN)
    BY EmptySeq
  <2>2. last_good \in GoodCmds /\ cmd_vel \in Cmds /\ tracker \in Trackers
    BY DEF GoodCmds, NoGoodCmd, Source, Reference, Trackers, ColdTracker, Cmds, Zero
  <2>3. pose \in Poses \cup {None} /\ goal \in Poses \cup {None}
    BY DEF Init
  <2>4. nav_state \in NavStates /\ nav_published \in NavStates \cup {None}
    BY DEF NavStates
  <2>5. pose_age \in 0..PoseAgeCap /\ path_age \in 0..PathAgeCap /\ scan_age \in 0..ScanAgeCap
    OBVIOUS
  <2>6. engage_count \in 0..EngageCycles /\ clear_count \in 0..ClearCycles
        /\ soft_hold \in 0..(SoftHoldCycles + 1) /\ timer \in 0..SolvePeriod /\ vx_max \in Nat
    OBVIOUS
  <2>7. path \in BOOLEAN /\ cloud \in BOOLEAN /\ security_mode \in BOOLEAN /\ setpoint \in BOOLEAN
    OBVIOUS
  <2> QED BY <2>1, <2>2, <2>3, <2>4, <2>5, <2>6, <2>7 DEF TypeOK
<1>2. cmd_vel.src = "none" /\ cmd_vel.wz = "none" /\ last_good.src = "none"
      /\ tracker.warm = "none" /\ nav_state = "IDLE"
  BY DEF Zero, NoGoodCmd, ColdTracker
<1> QED
  BY <1>1, <1>2 DEF InductiveInv, SecurityStateImpliesMode, ArrivalIsCold, ArrivalIsStill,
     CommandIsFresh, SoftHoldIsBounded, WarmStartIsBounded, Moving

\* A message never disturbs the invariant: only the goal callback touches the
\* navigation state, and what a message refreshes only gets younger.
LEMMA InputsKeepInv == InductiveInv /\ Inputs => InductiveInv'
<1> SUFFICES ASSUME InductiveInv, Inputs PROVE InductiveInv'
  OBVIOUS
<1> USE Constants DEF InductiveInv, TypeOK, SecurityStateImpliesMode, ArrivalIsCold,
        ArrivalIsStill, CommandIsFresh, SoftHoldIsBounded, WarmStartIsBounded,
        security, solver, NavStates, PoseAgeCap, PathAgeCap, ScanAgeCap
<1>1. ASSUME NEW g \in Poses, GoalCb(g) PROVE InductiveInv'
  BY <1>1 DEF GoalCb, Moving
<1>2. ASSUME NEW p \in Poses, PoseCb(p) PROVE InductiveInv'
  BY <1>2 DEF PoseCb, Moving
<1>3. ASSUME NEW age \in 0..(LidarMaxAge + 1), NEW usable \in BOOLEAN, LidarCb(age, usable)
      PROVE  InductiveInv'
  BY <1>3 DEF LidarCb, Moving
<1>4. ASSUME NEW nonempty \in BOOLEAN, NEW far \in BOOLEAN, PathCb(nonempty, far)
      PROVE  InductiveInv'
  BY <1>4 DEF PathCb, Moving
<1> QED BY <1>1, <1>2, <1>3, <1>4 DEF Inputs

\* Time ages the data by one tick, and moves the timer with it.
LEMMA TickKeepsInv == InductiveInv /\ Tick => InductiveInv'
<1> SUFFICES ASSUME InductiveInv, Tick PROVE InductiveInv'
  OBVIOUS
<1> USE Constants DEF InductiveInv, security, solver
<1>1. TypeOK'
  BY DEF TypeOK, Tick, Lower, PoseAgeCap, PathAgeCap, ScanAgeCap
<1>2. CommandIsFresh'
  <2>1. /\ timer' = timer + 1 /\ UNCHANGED cmd_vel
        /\ pose_age' = Lower(pose_age + 1, PoseAgeCap)
        /\ path_age' = Lower(path_age + 1, PathAgeCap)
    BY DEF Tick
  <2>2. timer \in Nat /\ pose_age \in Nat /\ path_age \in Nat
    BY DEF TypeOK, PoseAgeCap, PathAgeCap
  <2>3. pose_age' <= pose_age + 1 /\ path_age' <= path_age + 1
    BY <2>1, <2>2 DEF Lower, PoseAgeCap, PathAgeCap
  <2>4. pose_age' \in Int /\ path_age' \in Int
    BY <2>1, <2>2 DEF Lower, PoseAgeCap, PathAgeCap
  <2>5. Moving(cmd_vel) => pose_age' <= OdomTimeout + timer'
    BY <2>1, <2>2, <2>3, <2>4 DEF CommandIsFresh
  <2>6. Moving(cmd_vel) /\ cmd_vel.wz # "align" => path_age' <= PathTimeout + timer'
    BY <2>1, <2>2, <2>3, <2>4 DEF CommandIsFresh
  <2> QED BY <2>1, <2>5, <2>6 DEF CommandIsFresh, Moving
<1>3. /\ (nav_state \in {"ALIGNING", "GOAL_REACHED"} => goal # None)'
      /\ (security_mode => clear_count < ClearCycles)'
      /\ SecurityStateImpliesMode' /\ ArrivalIsCold' /\ ArrivalIsStill'
      /\ SoftHoldIsBounded' /\ WarmStartIsBounded'
  BY DEF Tick, SecurityStateImpliesMode, ArrivalIsCold, ArrivalIsStill, Moving,
         SoftHoldIsBounded, WarmStartIsBounded
<1> QED BY <1>1, <1>2, <1>3

\* The five ways a solve ends before it reaches the security check.
LEMMA EarlyKeepsInv == InductiveInv /\ TimerFires /\ SolveEarly => InductiveInv'
<1> SUFFICES ASSUME InductiveInv, TimerFires, SolveEarly PROVE InductiveInv'
  OBVIOUS
<1> USE Constants DEF InductiveInv, TimerFires, inputs, security, solver, SetState,
        PublishState, PublishStop, ForgetWarmStart, PoseAgeCap, PathAgeCap,
        ScanAgeCap, SecurityStateImpliesMode, ArrivalIsCold, ArrivalIsStill,
        SoftHoldIsBounded, WarmStartIsBounded
<1>1. Zero \in Cmds /\ ~Moving(Zero) /\ Zero.src = "none" /\ Zero.wz = "none"
  BY DEF Zero, Cmds, Source, Moving
<1>2. Forget(tracker) \in Trackers /\ Forget(tracker).warm = "none"
  BY DEF Forget, TypeOK, Trackers, Source
<1>3. CASE SolvePoseLost
  BY <1>1, <1>3 DEF SolvePoseLost, TypeOK, NavStates, CommandIsFresh
<1>4. CASE SolveHold
  BY <1>1, <1>4 DEF SolveHold, TypeOK, NavStates, CommandIsFresh
<1>5. CASE SolveAlign
  <2>0. ~PoseLost /\ InGoalRadius
    BY <1>5 DEF SolveAlign
  <2>1a. goal # None
    BY <2>0 DEF InGoalRadius
  <2>1b. pose_age <= OdomTimeout
    BY <2>0 DEF PoseLost, TypeOK
  <2>1. pose_age <= OdomTimeout /\ goal # None
    BY <2>1a, <2>1b
  <2> DEFINE turn == [Zero EXCEPT !.wz = "align"]
  <2>2. turn \in Cmds /\ turn.src = "none" /\ turn.wz = "align"
    BY DEF Zero, Cmds, Source
  <2>3. cmd_vel' = turn
    BY <1>5 DEF SolveAlign
  <2> HIDE DEF turn
  <2>4. TypeOK'
    <3>1. tracker' \in Trackers /\ setpoint' \in BOOLEAN
      BY <1>2, <1>5 DEF SolveAlign
    <3>2. nav_state' \in NavStates /\ nav_published' \in NavStates \cup {None}
      BY <1>5 DEF SolveAlign, NavStates
    <3>3. UNCHANGED <<inputs, security, last_good, soft_hold, recent, vx_max>>
      BY <1>5 DEF SolveAlign
    <3> QED BY <2>2, <2>3, <3>1, <3>2, <3>3 DEF TypeOK
  <2>5. CommandIsFresh'
    BY <1>5, <2>1, <2>2, <2>3 DEF SolveAlign, CommandIsFresh, TypeOK
  <2> QED BY <1>2, <1>5, <2>1, <2>2, <2>3, <2>4, <2>5 DEF SolveAlign
<1>6. CASE SolveArrive
  <2>1. goal # None
    BY <1>6 DEF SolveArrive, InGoalRadius
  <2>2. tracker' \in Trackers /\ tracker'.warm = "none" /\ setpoint' = FALSE
    BY <1>2, <1>6 DEF SolveArrive
  <2>3. nav_state' \in NavStates /\ nav_published' \in NavStates \cup {None}
        /\ nav_state' = "GOAL_REACHED"
    BY <1>6 DEF SolveArrive, NavStates
  <2>4. cmd_vel' = Zero /\ UNCHANGED <<inputs, security, last_good, soft_hold, recent, vx_max>>
    BY <1>6 DEF SolveArrive
  <2>5. TypeOK'
    <3>1. cmd_vel' \in Cmds
      BY <1>1, <2>4
    <3>2. UNCHANGED <<inputs, security, last_good, soft_hold, recent, vx_max>>
      BY <2>4
    <3>3. tracker' \in Trackers /\ setpoint' \in BOOLEAN
      BY <2>2
    <3>4. nav_state' \in NavStates /\ nav_published' \in NavStates \cup {None}
      BY <2>3
    <3> QED BY <3>1, <3>2, <3>3, <3>4 DEF TypeOK
  <2>6. CommandIsFresh'
    BY <1>1, <2>4 DEF CommandIsFresh
  <2> QED BY <1>1, <2>1, <2>2, <2>3, <2>4, <2>5, <2>6
<1>7. CASE SolvePathLost
  BY <1>1, <1>7 DEF SolvePathLost, TypeOK, NavStates, CommandIsFresh
<1> QED BY <1>3, <1>4, <1>5, <1>6, <1>7 DEF SolveEarly

\* A solve that goes all the way.  It runs only on fresh data and never at a
\* goal the node holds or aligns at, so the state it leaves is one of three.
LEMMA FullKeepsInv ==
    ASSUME InductiveInv, TimerFires, NEW near \in Sightings, NEW outcome \in Outcomes,
           SolveFull(near, outcome)
    PROVE  InductiveInv'
<1> DEFINE entering  == security_mode' /\ ~security_mode
           reference == IF security_mode' /\ Fed /\ SecurityEnable THEN "escape" ELSE "path"
           start     == IF entering THEN Forget(tracker) ELSE tracker
<1> USE Constants
<1>1. near \in BOOLEAN /\ reference \in Reference
  BY DEF Sightings, Reference
<1>2. Solved(outcome) \in BOOLEAN
  BY DEF Solved
<1>3. /\ security_mode' \in BOOLEAN
      /\ engage_count' \in 0..EngageCycles /\ clear_count' \in 0..ClearCycles
      /\ security_mode' => clear_count' < ClearCycles
  BY <1>1, SecurityStep DEF SolveFull, InductiveInv, TypeOK
<1>4. /\ last_good' \in GoodCmds /\ soft_hold' \in 0..(SoftHoldCycles + 1)
      /\ last_good'.src # "none"
           => soft_hold' <= SoftHoldCycles /\ last_good'.dec = soft_hold'
  <2>1. CommandAfter(Solved(outcome), reference)
    BY DEF SolveFull
  <2> QED BY <1>1, <1>2, <2>1, CommandStep DEF InductiveInv, TypeOK, SoftHoldIsBounded
<1>5. start \in Trackers /\ (start.warm # "none" => start.fails < MaxConsecFailures)
  BY DEF InductiveInv, TypeOK, Trackers, Source, Forget, WarmStartIsBounded
<1>6. tracker' \in Trackers /\ (tracker'.warm # "none" => tracker'.fails < MaxConsecFailures)
  <2>1. tracker' = TrackerAfter(start, outcome, reference)
    BY DEF SolveFull
  <2> HIDE DEF start, reference
  <2> QED BY <1>1, <1>5, <2>1, TrackerStep
<1>7. recent' \in Seq(BOOLEAN) /\ vx_max' \in Nat
  <2>1. Adapt(Solved(outcome))
    BY DEF SolveFull
  <2>2. recent \in Seq(BOOLEAN) /\ vx_max \in Nat
    BY DEF InductiveInv, TypeOK
  <2>3. RecentAfter(recent, Solved(outcome)) \in Seq(BOOLEAN)
    BY <1>2, <2>2, RecentTyped
  <2>4. \A s : VxAfter(s, vx_max) \in Nat
    BY <2>2, VxTyped
  <2> QED BY <2>1, <2>2, <2>3, <2>4 DEF Adapt
<1>8. /\ cmd_vel' \in Cmds
      /\ cmd_vel'.src = last_good'.src /\ cmd_vel'.dec = last_good'.dec
      /\ cmd_vel'.wz # "align"
  <2>1. cmd_vel' = [src |-> last_good'.src, dec |-> last_good'.dec,
                    wz |-> IF Blends THEN "blend" ELSE "none"]
    BY DEF SolveFull
  <2> QED BY <1>4, <2>1 DEF Cmds, GoodCmds
<1>9. /\ nav_state' \in NavStates \ {"ALIGNING", "GOAL_REACHED"}
      /\ nav_state' = "SECURITY" => security_mode'
  <2>1. nav_state' = NavStateOfFullSolve /\ ~(goal # None /\ nav_state = "GOAL_REACHED")
    BY DEF SolveFull, SetState
  <2> QED BY <2>1 DEF NavStateOfFullSolve, InductiveInv, TypeOK, NavStates,
                      SecurityStateImpliesMode
<1>10. /\ pose_age <= OdomTimeout /\ path_age <= PathTimeout
       /\ UNCHANGED inputs /\ nav_published' = nav_state' /\ setpoint' = TRUE
  BY DEF SolveFull, PoseLost, PathLost, PublishState, InductiveInv, TypeOK, PoseAgeCap,
         PathAgeCap
<1>11. timer' = 0
  BY DEF TimerFires
<1>12. TypeOK'
  BY <1>3, <1>4, <1>6, <1>7, <1>8, <1>9, <1>10, <1>11 DEF InductiveInv, TypeOK, inputs
<1>13. CommandIsFresh'
  BY <1>10, <1>11 DEF CommandIsFresh, inputs, InductiveInv, TypeOK
<1> HIDE DEF entering, reference, start
<1>14. SoftHoldIsBounded'
  BY <1>4, <1>8 DEF SoftHoldIsBounded
<1> QED
  BY <1>3, <1>6, <1>9, <1>12, <1>13, <1>14 DEF InductiveInv, SecurityStateImpliesMode,
     ArrivalIsCold, ArrivalIsStill, WarmStartIsBounded

\* Every step of the node keeps the invariant.
LEMMA NextKeepsInv == InductiveInv /\ [Next]_vars => InductiveInv'
<1> SUFFICES ASSUME InductiveInv, [Next]_vars PROVE InductiveInv'
  OBVIOUS
<1>1. CASE UNCHANGED vars
  BY <1>1 DEF vars, inputs, security, solver, InductiveInv, TypeOK,
     SecurityStateImpliesMode, ArrivalIsCold, ArrivalIsStill, CommandIsFresh,
     SoftHoldIsBounded, WarmStartIsBounded, Moving
<1>2. CASE Inputs
  BY <1>2, InputsKeepInv
<1>3. CASE Solve
  BY <1>3, EarlyKeepsInv, FullKeepsInv DEF Solve
<1>4. CASE Tick
  BY <1>4, TickKeepsInv
<1> QED BY <1>1, <1>2, <1>3, <1>4 DEF Next

\* InductiveInv holds in every reachable state of the node.
THEOREM Invariance == Spec => []InductiveInv
<1>1. InductiveInv /\ [Next]_vars => InductiveInv'
  BY NextKeepsInv
<1> QED BY InitInv, <1>1, PTL DEF Spec

-----------------------------------------------------------------------------
(* The speed ceiling                                                       *)

\* One update keeps the ceiling between its floor and the configured limit.
LEMMA CeilingStep ==
    ASSUME NEW s, NEW v \in Nat, Lower(VxFloor, CfgVxMax) <= v, v <= CfgVxMax
    PROVE  /\ Lower(VxFloor, CfgVxMax) <= VxAfter(s, v)
           /\ VxAfter(s, v) <= CfgVxMax
<1> USE Constants
<1>1. CASE Failing(s)
  <2>1. VxAfter(s, v) = Lower(v, Upper(VxFloor, (9 * v) \div 10))
    BY <1>1 DEF VxAfter
  <2>2. (9 * v) \div 10 \in Nat
    OBVIOUS
  <2> QED BY <2>1, <2>2 DEF Lower, Upper
<1>2. CASE ~Failing(s) /\ Healthy(s) /\ v < CfgVxMax
  <2>1. VxAfter(s, v) = Lower(CfgVxMax, (21 * v) \div 20)
    BY <1>2 DEF VxAfter
  <2>2. (21 * v) \div 20 \in Nat /\ v <= (21 * v) \div 20
    OBVIOUS
  <2> QED BY <2>1, <2>2 DEF Lower
<1>3. CASE ~Failing(s) /\ ~(Healthy(s) /\ v < CfgVxMax)
  BY <1>3 DEF VxAfter
<1> QED BY <1>1, <1>2, <1>3

\* No step moves the ceiling out of its limits.
LEMMA CeilingKept ==
    InductiveInv /\ VxWithinLimits /\ [Next]_vars => VxWithinLimits'
<1> SUFFICES ASSUME InductiveInv, VxWithinLimits, [Next]_vars PROVE VxWithinLimits'
  OBVIOUS
<1>1. CASE UNCHANGED vx_max
  BY <1>1 DEF VxWithinLimits
<1>2. ASSUME NEW near \in Sightings, NEW outcome \in Outcomes, SolveFull(near, outcome)
      PROVE  VxWithinLimits'
  <2>1. Adapt(Solved(outcome)) /\ vx_max \in Nat
    BY <1>2 DEF SolveFull, InductiveInv, TypeOK
  <2>2. UNCHANGED vx_max \/ vx_max' = VxAfter(recent', vx_max)
    BY <2>1 DEF Adapt
  <2>3. CASE vx_max' = VxAfter(recent', vx_max)
    BY <2>1, <2>3, CeilingStep DEF VxWithinLimits
  <2> QED BY <2>2, <2>3, <1>1
<1>3. Inputs \/ Tick \/ SolveEarly \/ UNCHANGED vars => UNCHANGED vx_max
  BY DEF Inputs, GoalCb, PoseCb, LidarCb, PathCb, Tick, SolveEarly, SolvePoseLost,
         SolveHold, SolveAlign, SolveArrive, SolvePathLost, solver, vars
<1> QED BY <1>1, <1>2, <1>3 DEF Next, Solve

-----------------------------------------------------------------------------
(* The window of outcomes                                                  *)

\* The window never holds more outcomes than it has room for.
RecentIsShort == Len(recent) <= Window

\* The oldest outcome makes room for the new one.
LEMMA RecentStep ==
    ASSUME NEW s \in Seq(BOOLEAN), NEW ok \in BOOLEAN, Len(s) <= Window
    PROVE  Len(RecentAfter(s, ok)) <= Window
<1>1. Append(s, ok) \in Seq(BOOLEAN) /\ Append(s, ok) # <<>>
  OBVIOUS
<1>2. Len(Append(s, ok)) = Len(s) + 1 /\ Len(s) \in Nat
  OBVIOUS
<1>3. Len(Tail(Append(s, ok))) = Len(s)
  BY <1>1, <1>2
<1> QED BY <1>2, <1>3, Constants DEF RecentAfter

\* A window that counts as healthy has no failure in it: one in twenty is not
\* below 5 %, and there is no room for more than twenty.
LEMMA HealthyIsClean ==
    ASSUME NEW s \in Seq(BOOLEAN), Len(s) <= Window, Healthy(s)
    PROVE  \A i \in DOMAIN s : s[i]
<1> DEFINE failed == {i \in DOMAIN s : ~s[i]}
<1>1. DOMAIN s = 1..Len(s) /\ Len(s) \in Nat
  OBVIOUS
<1>2. IsFiniteSet(DOMAIN s)
  BY <1>1, FS_Interval
<1>3. IsFiniteSet(failed)
  BY <1>2, FS_Subset
<1>4. Cardinality(failed) \in Nat
  BY <1>3, FS_CardinalityType
<1>5. 20 * Cardinality(failed) < Len(s)
  BY DEF Healthy, Failures
<1> HIDE DEF failed
<1>6. Cardinality(failed) = 0
  BY <1>1, <1>4, <1>5, Constants
<1>7. failed = {}
  BY <1>3, <1>6, FS_EmptySet
<1> QED BY <1>7 DEF failed

\* Only a full solve writes the window and the ceiling.
LEMMA OthersKeepCeiling ==
    Inputs \/ Tick \/ SolveEarly \/ UNCHANGED vars => UNCHANGED <<recent, vx_max>>
BY DEF Inputs, GoalCb, PoseCb, LidarCb, PathCb, Tick, SolveEarly, SolvePoseLost,
       SolveHold, SolveAlign, SolveArrive, SolvePathLost, solver, vars

\* Every step leaves the window short, and raises the ceiling over a clean one only.
LEMMA WindowStep ==
    ASSUME InductiveInv, RecentIsShort, [Next]_vars
    PROVE  /\ RecentIsShort'
           /\ vx_max' > vx_max => \A i \in DOMAIN recent' : recent'[i]
<1>0. recent \in Seq(BOOLEAN) /\ vx_max \in Nat
  BY DEF InductiveInv, TypeOK
<1>1. CASE UNCHANGED <<recent, vx_max>>
  BY <1>0, <1>1 DEF RecentIsShort
<1>2. ASSUME NEW near \in Sightings, NEW outcome \in Outcomes, SolveFull(near, outcome),
             AdaptiveEnabled
      PROVE  /\ RecentIsShort'
             /\ vx_max' > vx_max => \A i \in DOMAIN recent' : recent'[i]
  <2>1. recent' = RecentAfter(recent, Solved(outcome)) /\ vx_max' = VxAfter(recent', vx_max)
    BY <1>2 DEF SolveFull, Adapt
  <2>2. Solved(outcome) \in BOOLEAN
    BY DEF Solved
  <2>3. recent' \in Seq(BOOLEAN) /\ Len(recent') <= Window
    BY <1>0, <2>1, <2>2, RecentTyped, RecentStep DEF RecentIsShort
  <2>4. ASSUME vx_max' > vx_max PROVE Healthy(recent')
    <3>1. CASE Failing(recent')
      <4>1. Upper(VxFloor, (9 * vx_max) \div 10) \in Int
        BY <1>0, Constants DEF Upper
      <4>2. vx_max' = Lower(vx_max, Upper(VxFloor, (9 * vx_max) \div 10))
        BY <2>1, <3>1 DEF VxAfter
      <4> QED BY <1>0, <2>4, <4>1, <4>2 DEF Lower
    <3>2. CASE ~Failing(recent')
      BY <1>0, <2>1, <2>4, <3>2 DEF VxAfter
    <3> QED BY <3>1, <3>2
  <2> QED BY <2>3, <2>4, HealthyIsClean DEF RecentIsShort
<1>3. ASSUME NEW near \in Sightings, NEW outcome \in Outcomes, SolveFull(near, outcome),
             ~AdaptiveEnabled
      PROVE  UNCHANGED <<recent, vx_max>>
  BY <1>3 DEF SolveFull, Adapt
<1> QED BY <1>1, <1>2, <1>3, OthersKeepCeiling DEF Next, Solve

-----------------------------------------------------------------------------
(* The history of the security layer                                       *)

\* The history variables watch and do not interfere.
LEMMA HistoryStep == [HNext]_hvars => [Next]_vars
<1>1. UNCHANGED hvars => UNCHANGED vars
  BY DEF hvars
<1>2. HNext => Next
  BY DEF HNext, HSolveFull, Next, Inputs, Solve
<1> QED BY <1>1, <1>2

\* One debounce step: the counters go with the history, and the mode changes
\* only at the end of a run.
LEMMA DebounceStep ==
    ASSUME InductiveInv, HistoryInv, NEW near \in BOOLEAN, SecurityEscape(near),
           near_run'  = IF near THEN Lower(near_run + 1, EngageCycles) ELSE 0,
           clear_run' = IF near THEN 0 ELSE Lower(clear_run + 1, ClearCycles)
    PROVE  /\ HistoryInv'
           /\ ~security_mode /\ security_mode' => near_run' >= EngageCycles
           /\ security_mode /\ ~security_mode' => clear_run' >= ClearCycles
<1> USE Constants DEF InductiveInv, TypeOK, HistoryInv, Lower
<1>1. CASE near
  BY <1>1 DEF SecurityEscape
<1>2. CASE ~near
  <2>1. /\ engage_count' = 0
        /\ clear_count' = IF security_mode THEN clear_count + 1 ELSE clear_count
        /\ security_mode' = (security_mode /\ clear_count + 1 < ClearCycles)
    BY <1>2 DEF SecurityEscape
  <2>2. near_run' = 0 /\ clear_run' = Lower(clear_run + 1, ClearCycles)
    BY <1>2
  <2>3. CASE security_mode
    <3>1. clear_count' = clear_count + 1 /\ clear_count < ClearCycles
      BY <2>1, <2>3
    <3>2. HistoryInv' /\ (clear_count + 1 >= ClearCycles => clear_run' >= ClearCycles)
      BY <2>1, <2>2, <3>1
    <3>3. clear_count + 1 < ClearCycles \/ clear_count + 1 >= ClearCycles
      OBVIOUS
    <3>4. security_mode' \/ clear_count + 1 >= ClearCycles
      BY <2>1, <2>3, <3>3, Zenon
    <3> QED BY <2>3, <3>2, <3>4, Zenon
  <2>4. CASE ~security_mode
    <3>1. clear_count' = clear_count /\ ~security_mode'
      BY <2>1, <2>4
    <3>2. HistoryInv'
      BY <2>1, <2>2, <3>1
    <3> QED BY <2>4, <3>1, <3>2
  <2> QED BY <2>3, <2>4
<1> QED BY <1>1, <1>2

\* Every step with its history.
LEMMA HistoryKept ==
    ASSUME InductiveInv, HistoryInv, [HNext]_hvars
    PROVE  /\ HistoryInv'
           /\ ~security_mode /\ security_mode' => near_run' >= EngageCycles
           /\ security_mode /\ ~security_mode' => clear_run' >= ClearCycles
<1>1. CASE UNCHANGED <<security, history>>
  BY <1>1 DEF security, history, HistoryInv
<1>2. ASSUME NEW near \in Sightings, NEW outcome \in Outcomes, HSolveFull(near, outcome)
      PROVE  /\ HistoryInv'
             /\ ~security_mode /\ security_mode' => near_run' >= EngageCycles
             /\ security_mode /\ ~security_mode' => clear_run' >= ClearCycles
  <2>1. near \in BOOLEAN
    BY DEF Sightings
  <2>2. /\ SecurityEscape(near)
        /\ near_run'  = IF near THEN Lower(near_run + 1, EngageCycles) ELSE 0
        /\ clear_run' = IF near THEN 0 ELSE Lower(clear_run + 1, ClearCycles)
    BY <1>2 DEF HSolveFull, SolveFull
  <2> QED BY <2>1, <2>2, DebounceStep
<1>3. UNCHANGED hvars => UNCHANGED <<security, history>>
  BY DEF hvars, vars
<1>4. HNext => \/ UNCHANGED <<security, history>>
               \/ \E near \in Sightings, outcome \in Outcomes : HSolveFull(near, outcome)
  BY DEF HNext, GoalCb, PoseCb, LidarCb, PathCb, Tick, SolveEarly, SolvePoseLost,
         SolveHold, SolveAlign, SolveArrive, SolvePathLost
<1> QED BY <1>1, <1>2, <1>3, <1>4

-----------------------------------------------------------------------------
(* The promise to the planners                                             *)

\* Messages: a path is received, everything else leaves the follower alone.
LEMMA InputsFollow == Inputs => [Follower!FollowerNext]_(Follower!follower_vars)
<1> USE DEF Follower!FollowerNext, Follower!follower_vars, Drive
<1>1. ASSUME NEW nonempty \in BOOLEAN, NEW far \in BOOLEAN, PathCb(nonempty, far)
      PROVE  \E p \in {"path"} \cup {"none"} : Follower!Receive(p)
  <2>1. Follower!Receive(IF nonempty THEN "path" ELSE "none")
    BY <1>1 DEF PathCb, Follower!Receive
  <2> QED BY <2>1
<1>2. ASSUME NEW g \in Poses, GoalCb(g) PROVE UNCHANGED Follower!follower_vars
  BY <1>2 DEF GoalCb
<1>3. ASSUME NEW p \in Poses, PoseCb(p) PROVE UNCHANGED Follower!follower_vars
  BY <1>3 DEF PoseCb
<1>4. ASSUME NEW age \in 0..(LidarMaxAge + 1), NEW usable \in BOOLEAN, LidarCb(age, usable)
      PROVE  UNCHANGED Follower!follower_vars
  BY <1>4 DEF LidarCb
<1> QED BY <1>1, <1>2, <1>3, <1>4 DEF Inputs

\* Every way through a solve decides on a drive that the path allows.
LEMMA SolveFollows == InductiveInv /\ Solve => Follower!Decide
<1> SUFFICES ASSUME InductiveInv, Solve PROVE Follower!Decide
  OBVIOUS
<1>1. timer = SolvePeriod /\ timer' = 0
  BY DEF Solve, TimerFires
<1>2. UNCHANGED inputs
  BY DEF Solve, SolveEarly, SolvePoseLost, SolveHold, SolveAlign, SolveArrive,
         SolvePathLost, SolveFull
<1>3. CASE SolveEarly
  <2>1. cmd_vel' = Zero \/ cmd_vel' = [Zero EXCEPT !.wz = "align"]
    BY <1>3 DEF SolveEarly, SolvePoseLost, SolveHold, SolveAlign, SolveArrive,
                SolvePathLost, PublishStop
  <2>2. Drive' = "none"
    BY <2>1 DEF Drive, Zero
  <2> QED BY <1>1, <1>2, <2>2 DEF Follower!Decide, inputs
<1>4. CASE \E near \in Sightings, outcome \in Outcomes : SolveFull(near, outcome)
  <2>1. ~PathLost
    BY <1>4 DEF SolveFull
  <2>2. path = TRUE /\ path_age <= PathTimeout
    BY <2>1, Constants DEF PathLost, InductiveInv, TypeOK, PathAgeCap
  <2>3. Drive' \in {"none", "path", "other"}
    BY DEF Drive
  <2>4. Follower!Fresh
    BY <2>2 DEF Follower!Fresh
  <2> QED BY <1>1, <1>2, <2>2, <2>3, <2>4 DEF Follower!Decide, inputs
<1> QED BY <1>3, <1>4 DEF Solve

\* Time passes for both alike.
LEMMA TickFollows == InductiveInv /\ Tick => Follower!Pass
BY DEF Tick, Follower!Pass, Follower!Smaller, Follower!AgeCap, Lower, PathAgeCap, Drive

-----------------------------------------------------------------------------
(* What a reader should know of                                            *)

\* Every variable keeps its type.
THEOREM TypeCorrect == Spec => []TypeOK
BY Invariance, PTL DEF InductiveInv

\* A command that moves the robot never outlives its odometry or its path by
\* more than the watchdog limit plus one solve period.
THEOREM Freshness == Spec => []CommandIsFresh
BY Invariance, PTL DEF InductiveInv

\* SECURITY is reported only while the security layer is engaged.
THEOREM SecurityReporting == Spec => []SecurityStateImpliesMode
BY Invariance, PTL DEF InductiveInv

\* The soft hold is bounded by the number of failed solves.
THEOREM SoftHold == Spec => []SoftHoldIsBounded
BY Invariance, PTL DEF InductiveInv

\* At a goal the robot is commanded zero, and the next drive starts cold.
THEOREM Arrival == Spec => []ArrivalIsCold /\ []ArrivalIsStill
BY Invariance, PTL DEF InductiveInv

\* No warm start outlives MaxConsecFailures failures in a row.
THEOREM WarmStart == Spec => []WarmStartIsBounded
BY Invariance, PTL DEF InductiveInv

\* The adaptive ceiling stays between its floor and the configured limit.
THEOREM Ceiling == Spec => []VxWithinLimits
<1>1. Init => VxWithinLimits
  BY Constants DEF Init, VxWithinLimits, Lower
<1> QED BY <1>1, CeilingKept, Invariance, PTL DEF Spec

\* The node implements the promise that the other planners count on.
THEOREM FollowerRefinement == Spec => ImplementsFollower
<1>1. Init => Follower!FollowerInit
  BY DEF Init, Follower!FollowerInit, Follower!AgeCap, PathAgeCap, Drive, Zero
<1>2. InductiveInv /\ [Next]_vars => [Follower!FollowerNext]_(Follower!follower_vars)
  <2>1. UNCHANGED vars => UNCHANGED Follower!follower_vars
    BY DEF vars, inputs, Drive, Follower!follower_vars
  <2> QED BY <2>1, InputsFollow, SolveFollows, TickFollows DEF Next, Follower!FollowerNext
<1> QED BY <1>1, <1>2, Invariance, PTL DEF Spec, ImplementsFollower, Follower!FollowerSpec

\* Only a new goal or a lost pose ends the hold at a goal.
THEOREM HoldEnds == Spec => HoldEndsOnlyByGoalOrPoseLoss
<1> DEFINE Kept == nav_state = "GOAL_REACHED" /\ nav_state' # "GOAL_REACHED"
                     => goal' # goal \/ PoseLost
<1>1. InductiveInv /\ [Next]_vars => [Kept]_vars
  <2> SUFFICES ASSUME InductiveInv, Next, nav_state = "GOAL_REACHED",
                      nav_state' # "GOAL_REACHED", goal' = goal, ~PoseLost
               PROVE  FALSE
    OBVIOUS
  <2>1. goal # None
    BY DEF InductiveInv
  <2>2. ~Inputs
    <3>1. \A g \in Poses : ~GoalCb(g)
      <4> SUFFICES ASSUME NEW g \in Poses, GoalCb(g) PROVE FALSE
        OBVIOUS
      <4>1. g = goal /\ ~Duplicate(g)
        BY DEF GoalCb
      <4>2. g.at \in Nat
        BY Constants DEF Poses
      <4>3. Dist(g.at, g.at) = 0
        BY <4>2 DEF Dist
      <4> QED BY <2>1, <4>1, <4>3, Constants DEF Duplicate
    <3>2. \A p \in Poses : ~PoseCb(p)
      BY DEF PoseCb
    <3>3. \A age \in 0..(LidarMaxAge + 1), usable \in BOOLEAN : ~LidarCb(age, usable)
      BY DEF LidarCb
    <3>4. \A nonempty, far \in BOOLEAN : ~PathCb(nonempty, far)
      BY DEF PathCb
    <3> QED BY <3>1, <3>2, <3>3, <3>4 DEF Inputs
  <2>3. ~Tick
    BY DEF Tick
  <2>4. ~SolveEarly
    BY <2>1 DEF SolveEarly, SolvePoseLost, SolveHold, SolveAlign, SolveArrive,
                SolvePathLost, SetState
  <2>5. \A near \in Sightings, outcome \in Outcomes : ~SolveFull(near, outcome)
    BY <2>1 DEF SolveFull
  <2> QED BY <2>2, <2>3, <2>4, <2>5 DEF Next, Solve
<1> QED BY <1>1, Invariance, PTL DEF Spec, HoldEndsOnlyByGoalOrPoseLoss

\* The speed ceiling recovers only over a window without a single failure.
THEOREM Recovery == Spec => RecoversOnlyWhenClean
<1> DEFINE Raised == vx_max' > vx_max => \A i \in DOMAIN recent' : recent'[i]
<1>1. Init => RecentIsShort
  BY Constants DEF Init, RecentIsShort
<1>2. InductiveInv /\ RecentIsShort /\ [Next]_vars => RecentIsShort' /\ [Raised]_vars
  BY WindowStep
<1> QED BY <1>1, <1>2, Invariance, PTL DEF Spec, RecoversOnlyWhenClean

\* The node with its history is the node: what holds of one holds of the other.
THEOREM HistoryIsPassive == HSpec => Spec
<1>1. HInit => Init
  BY DEF HInit
<1> QED BY <1>1, HistoryStep, PTL DEF HSpec, Spec

\* The debounce holds both ways.
LEMMA Debounce == HSpec => EngagesOnlyAfterEnoughSightings /\ ReleasesOnlyAfterEnoughClears
<1> DEFINE Engaged  == ~security_mode /\ security_mode' => near_run' >= EngageCycles
           Released == security_mode /\ ~security_mode' => clear_run' >= ClearCycles
<1>1. HInit => HistoryInv
  BY DEF HInit, Init, HistoryInv
<1>2. InductiveInv /\ HistoryInv /\ [HNext]_hvars
        => HistoryInv' /\ [Engaged]_hvars /\ [Released]_hvars
  BY HistoryKept
<1>3. HSpec => []InductiveInv
  BY HistoryIsPassive, Invariance, PTL
<1> QED BY <1>1, <1>2, <1>3, PTL DEF HSpec, EngagesOnlyAfterEnoughSightings,
           ReleasesOnlyAfterEnoughClears

\* The security mode engages only at the end of EngageCycles solves in a row that
\* saw an obstacle near.
THEOREM Engagement == HSpec => EngagesOnlyAfterEnoughSightings
  BY Debounce

\* It lets go only at the end of ClearCycles solves in a row that did not.
THEOREM Release == HSpec => ReleasesOnlyAfterEnoughClears
  BY Debounce
=============================================================================
