------------------------------ MODULE MpcNode ------------------------------
(***************************************************************************)
(* The MPC node of the navigation stack (a_star_mpc_planner/mpc_node.py):  *)
(* the navigation state machine, the watchdogs, the debounced security     *)
(* layer, the soft hold over failed solves, and the command it leaves in   *)
(* force on /mpc/cmd_vel.                                                  *)
(*                                                                         *)
(* The node is one single-threaded executor: each callback is one atomic   *)
(* action.  Time is counted in ticks.  Every watchdog compares an age with *)
(* a limit, so the state keeps ages, saturated just above the largest      *)
(* value any comparison or property distinguishes.  The solve timer fires  *)
(* every SolvePeriod ticks.                                                *)
(*                                                                         *)
(* Data abstraction.  The robot moves on the integer line 0..MaxPos with a *)
(* heading from Headings; a velocity is represented by where it came from: *)
(* the reference it tracks ("path" or "escape"), how often the soft hold   *)
(* has decayed it, and whether a yaw command is added to it.               *)
(***************************************************************************)
EXTENDS Integers, Sequences, AdaptiveLimits, MpcTracker

CONSTANTS
    MaxPos,          \* the robot and its goals lie in 0..MaxPos
    Headings,        \* headings told apart by goal_heading_tolerance
    GoalRadius,      \* goal_reached_radius
    GoalTolerance,   \* duplicate_goal_xy_tolerance
    AlignStart,      \* goal_align_start_dist
    RequireHeading,  \* require_goal_heading
    OdomTimeout,     \* odom_timeout_sec, in ticks
    PathTimeout,     \* path_timeout_sec, in ticks
    LidarMaxAge,     \* lidar_max_age_sec, in ticks
    SolvePeriod,     \* ticks between two solves (1 / mpc_rate_hz)
    SecurityEnable,  \* mpc_security_enable
    EngageCycles,    \* mpc_security_engage_cycles
    ClearCycles,     \* mpc_security_clear_cycles
    SoftHoldCycles,  \* mpc_soft_hold_cycles
    None             \* Python's None

Poses == [at : 0..MaxPos, yaw : Headings]

ASSUME MpcAssumption ==
    /\ MaxPos \in Nat
    /\ GoalRadius \in Nat /\ GoalTolerance \in Nat /\ AlignStart \in Nat
    /\ RequireHeading \in BOOLEAN /\ SecurityEnable \in BOOLEAN
    /\ OdomTimeout \in Nat /\ PathTimeout \in Nat /\ LidarMaxAge \in Nat
    /\ SolvePeriod \in Nat \ {0}
    /\ EngageCycles \in Nat \ {0} /\ ClearCycles \in Nat \ {0}
    /\ SoftHoldCycles \in Nat
    /\ None \notin Poses

NavStates == {"IDLE", "NAVIGATING", "ALIGNING", "GOAL_REACHED", "SECURITY", "STOPPED"}

\* Commands.  wz names a yaw rate that does not come from the solver.
Cmds == [src : Source, dec : 0..SoftHoldCycles, wz : {"none", "align", "blend"}]
Zero == [src |-> "none", dec |-> 0, wz |-> "none"]
Moving(c) == c.src # "none" \/ c.wz # "none"

GoodCmds == [src : Source, dec : 0..SoftHoldCycles]
NoGoodCmd == [src |-> "none", dec |-> 0]

Dist(a, b) == IF a < b THEN b - a ELSE a - b

VARIABLES
    pose, pose_age,             \* last odometry and ticks since it arrived
    goal,                       \* _goal_xy and _goal_yaw, set together
    nav_state, nav_published,   \* _nav_state, and the last /navigation/state
    path, path_age,             \* is there an A* path; ticks since a message
    cloud, scan_age,            \* is a cloud kept; age of the last scan stamp
    security_mode, engage_count, clear_count,
    last_good, soft_hold,       \* _last_good_cmd, _soft_hold_count
    tracker,                    \* warm start and failure count
    setpoint,                   \* is the setpoint low-pass filter seeded
    recent, vx_max,             \* _recent_solves, _adaptive_vx_max
    cmd_vel,                    \* the command in force on /mpc/cmd_vel
    timer                       \* ticks since the last solve

inputs   == <<pose, pose_age, goal, path, path_age, cloud, scan_age>>
security == <<security_mode, engage_count, clear_count>>
solver   == <<last_good, soft_hold, tracker, recent, vx_max>>
vars     == <<inputs, nav_state, nav_published, security, solver, setpoint, cmd_vel, timer>>

-----------------------------------------------------------------------------
PoseAgeCap == OdomTimeout + SolvePeriod + 1
PathAgeCap == PathTimeout + SolvePeriod + 1
ScanAgeCap == LidarMaxAge + SolvePeriod + 1

TypeOK ==
    /\ pose \in Poses \cup {None} /\ pose_age \in 0..PoseAgeCap
    /\ goal \in Poses \cup {None}
    /\ nav_state \in NavStates /\ nav_published \in NavStates \cup {None}
    /\ path \in BOOLEAN /\ path_age \in 0..PathAgeCap
    /\ cloud \in BOOLEAN /\ scan_age \in 0..ScanAgeCap
    /\ security_mode \in BOOLEAN
    /\ engage_count \in 0..EngageCycles /\ clear_count \in 0..ClearCycles
    /\ last_good \in GoodCmds /\ soft_hold \in 0..(SoftHoldCycles + 1)
    /\ tracker \in Trackers
    /\ setpoint \in BOOLEAN
    /\ recent \in Seq(BOOLEAN) /\ vx_max \in Nat
    /\ cmd_vel \in Cmds
    /\ timer \in 0..SolvePeriod

Init ==
    /\ pose = None /\ pose_age = PoseAgeCap
    /\ goal = None
    /\ nav_state = "IDLE" /\ nav_published = None
    /\ path = FALSE /\ path_age = PathAgeCap
    /\ cloud = FALSE /\ scan_age = ScanAgeCap
    /\ security_mode = FALSE /\ engage_count = 0 /\ clear_count = 0
    /\ last_good = NoGoodCmd /\ soft_hold = 0
    /\ tracker = ColdTracker
    /\ setpoint = FALSE
    /\ recent = <<>> /\ vx_max = CfgVxMax
    /\ cmd_vel = Zero
    /\ timer = 0

-----------------------------------------------------------------------------
(* Subscriptions                                                           *)

\* Within both tolerances of the current goal.
Duplicate(g) == goal # None /\ Dist(g.at, goal.at) <= GoalTolerance /\ g.yaw = goal.yaw

\* _goal_cb: a duplicate is ignored; any other goal replaces the current one
\* and re-arms navigation, whatever the state was.
GoalCb(g) ==
    /\ ~Duplicate(g)
    /\ goal' = g
    /\ nav_state' = "NAVIGATING"
    /\ UNCHANGED <<pose, pose_age, path, path_age, cloud, scan_age, nav_published,
                   security, solver, setpoint, cmd_vel, timer>>

\* _odom_cb and _pose_cb.
PoseCb(p) ==
    /\ pose' = p /\ pose_age' = 0
    /\ UNCHANGED <<goal, path, path_age, cloud, scan_age, nav_state, nav_published,
                   security, solver, setpoint, cmd_vel, timer>>

\* _lidar_cb: the stamp of every message counts, the last usable cloud is kept.
\* age is how old the header stamp already is on arrival.
LidarCb(age, usable) ==
    /\ scan_age' = age
    /\ cloud' = (cloud \/ usable)
    /\ UNCHANGED <<pose, pose_age, goal, path, path_age, nav_state, nav_published,
                   security, solver, setpoint, cmd_vel, timer>>

\* _path_cb: the setpoint filter restarts when the path is empty, or when its
\* anchor lies further than mpc_setpoint_reset_dist away.
PathCb(nonempty, far) ==
    /\ path' = nonempty /\ path_age' = 0
    /\ setpoint' = (setpoint /\ nonempty /\ ~far)
    /\ UNCHANGED <<pose, pose_age, goal, cloud, scan_age, nav_state, nav_published,
                   security, solver, cmd_vel, timer>>

-----------------------------------------------------------------------------
(* The solve timer, _solve_cb: one disjunct per way through the function   *)

SetState(s) == nav_state' = s
PublishStop == cmd_vel' = Zero
PublishState == nav_published' = nav_state'

\* A plausible slip: the setpoint filter keeps its last value.
HalfForgetWarmStart ==
    /\ tracker' = Forget(tracker)
    /\ UNCHANGED setpoint

\* self._tracker._prev_u = _prev_x = None; _setpoint_filtered_xy/yaw = None
ForgetWarmStart ==
    /\ tracker' = Forget(tracker)
    /\ setpoint' = FALSE

PoseLost == pose = None \/ pose_age > OdomTimeout

\* A plausible slip: with no pose the timer callback just returns, and the last
\* command stays in force.
SilentSolvePoseLost ==
    /\ PoseLost
    /\ SetState("STOPPED")
    /\ UNCHANGED <<inputs, nav_published, security, solver, setpoint, cmd_vel>>

\* No pose, or a stale one: hard stop.  /navigation/state is not published.
SolvePoseLost ==
    /\ PoseLost
    /\ SetState("STOPPED") /\ PublishStop
    /\ UNCHANGED <<inputs, nav_published, security, solver, setpoint>>

\* Arrived earlier: keep publishing zero until the state is changed elsewhere.
SolveHold ==
    /\ ~PoseLost /\ goal # None /\ nav_state = "GOAL_REACHED"
    /\ SetState(nav_state)
    /\ PublishStop /\ PublishState
    /\ UNCHANGED <<inputs, security, solver, setpoint>>

InGoalRadius == goal # None /\ pose # None /\ Dist(pose.at, goal.at) <= GoalRadius
Aligned == ~RequireHeading \/ pose.yaw = goal.yaw

\* Inside the radius with the wrong heading: turn in place.
SolveAlign ==
    /\ ~PoseLost /\ nav_state # "GOAL_REACHED" /\ InGoalRadius /\ ~Aligned
    /\ SetState("ALIGNING")
    /\ ForgetWarmStart
    /\ cmd_vel' = [Zero EXCEPT !.wz = "align"]
    /\ PublishState
    /\ UNCHANGED <<inputs, security, last_good, soft_hold, recent, vx_max>>

\* Inside the radius, heading good enough: arrival.
SolveArrive ==
    /\ ~PoseLost /\ nav_state # "GOAL_REACHED" /\ InGoalRadius /\ Aligned
    /\ SetState("GOAL_REACHED")
    /\ ForgetWarmStart
    /\ PublishStop /\ PublishState
    /\ UNCHANGED <<inputs, security, last_good, soft_hold, recent, vx_max>>

\* A plausible slip: only a missing path counts, not an old one.
MissingPathLost == ~path

PathLost == ~path \/ path_age > PathTimeout

\* A plausible slip: the path watchdog runs before the arrival test.
EarlyPathLost ==
    /\ ~PoseLost /\ PathLost
    /\ SetState("STOPPED") /\ PublishStop /\ PublishState
    /\ UNCHANGED <<inputs, security, solver, setpoint>>

\* No fresh A* path: hard stop.
SolvePathLost ==
    /\ ~PoseLost /\ ~InGoalRadius /\ ~(goal # None /\ nav_state = "GOAL_REACHED")
    /\ PathLost
    /\ SetState("STOPPED") /\ PublishStop /\ PublishState
    /\ UNCHANGED <<inputs, security, solver, setpoint>>

\* The obstacles this solve sees: none when the scan is stale.
Fed == cloud /\ scan_age <= LidarMaxAge

\* A plausible slip: the clear counter survives an obstacle that comes back.
ForgetfulSecurityEscape(near) ==
    IF near
    THEN /\ engage_count' = Lower(engage_count + 1, EngageCycles)
         /\ clear_count' = IF security_mode THEN clear_count ELSE 0
         /\ security_mode' = (security_mode \/ engage_count + 1 >= EngageCycles)
    ELSE /\ engage_count' = 0
         /\ clear_count' = IF security_mode THEN clear_count + 1 ELSE clear_count
         /\ security_mode' = (security_mode /\ clear_count + 1 < ClearCycles)

\* A plausible slip: a solve with nothing near leaves the engage count alone, so
\* separate glimpses of an obstacle add up.
GlimpsingSecurityEscape(near) ==
    IF near
    THEN /\ engage_count' = Lower(engage_count + 1, EngageCycles)
         /\ clear_count' = 0
         /\ security_mode' = (security_mode \/ engage_count + 1 >= EngageCycles)
    ELSE /\ UNCHANGED engage_count
         /\ clear_count' = IF security_mode THEN clear_count + 1 ELSE clear_count
         /\ security_mode' = (security_mode /\ clear_count + 1 < ClearCycles)

\* _security_escape, the debounce.  near: some obstacle point is within
\* mpc_security_radius.  No obstacles (or a stale scan) count as not near.
\* engage_count is compared with EngageCycles only, so it is held there.
SecurityEscape(near) ==
    IF near
    THEN /\ engage_count' = Lower(engage_count + 1, EngageCycles)
         /\ clear_count' = 0
         /\ security_mode' = (security_mode \/ engage_count + 1 >= EngageCycles)
    ELSE /\ engage_count' = 0
         /\ clear_count' = IF security_mode THEN clear_count + 1 ELSE clear_count
         /\ security_mode' = (security_mode /\ clear_count + 1 < ClearCycles)

\* A plausible slip: leaving the security mode does not restore the state.
StickyNavState ==
    IF security_mode' THEN "SECURITY"
    ELSE IF goal # None /\ nav_state # "SECURITY" THEN "NAVIGATING"
    ELSE nav_state

\* The state a full solve leaves: SECURITY while the mode is on, NAVIGATING on
\* leaving it, NAVIGATING when there is a goal; without a goal it is kept.
NavStateOfFullSolve ==
    IF security_mode' THEN "SECURITY"
    ELSE IF security_mode \/ (goal # None /\ nav_state # "SECURITY") THEN "NAVIGATING"
    ELSE nav_state

\* In tracking mode the yaw command is blended towards the goal heading close to
\* the goal, whatever the solver returned.
Blends ==
    /\ ~Contouring /\ RequireHeading /\ goal # None
    /\ nav_state' = "NAVIGATING"
    /\ AlignStart > GoalRadius /\ Dist(pose.at, goal.at) < AlignStart
    /\ pose.yaw # goal.yaw

Decayed(good) == IF good.src = "none" THEN good ELSE [good EXCEPT !.dec = @ + 1]

\* A plausible slip: the remembered command is not dropped after the last hold.
EndlessCommandAfter(solved, reference) ==
    IF solved
    THEN /\ last_good' = [src |-> reference, dec |-> 0]
         /\ soft_hold' = 0
    ELSE /\ soft_hold' = Lower(soft_hold + 1, SoftHoldCycles + 1)
         /\ last_good' = IF soft_hold + 1 <= SoftHoldCycles THEN Decayed(last_good)
                         ELSE last_good

\* A plausible slip: one hold too many.
LateCommandAfter(solved, reference) ==
    IF solved
    THEN /\ last_good' = [src |-> reference, dec |-> 0]
         /\ soft_hold' = 0
    ELSE /\ soft_hold' = Lower(soft_hold + 1, SoftHoldCycles + 1)
         /\ last_good' = IF soft_hold <= SoftHoldCycles THEN Decayed(last_good)
                         ELSE NoGoodCmd

\* The command of a solve: the solution, or the soft hold on the last good one.
CommandAfter(solved, reference) ==
    IF solved
    THEN /\ last_good' = [src |-> reference, dec |-> 0]
         /\ soft_hold' = 0
    ELSE /\ soft_hold' = Lower(soft_hold + 1, SoftHoldCycles + 1)
         /\ last_good' = IF soft_hold + 1 <= SoftHoldCycles THEN Decayed(last_good)
                         ELSE NoGoodCmd

Adapt(solved) ==
    IF AdaptiveEnabled
    THEN /\ recent' = RecentAfter(recent, solved)
         /\ vx_max' = VxAfter(recent', vx_max)
    ELSE UNCHANGED <<recent, vx_max>>

\* What the security layer can see of the obstacles in this solve.
Sightings == IF Fed /\ SecurityEnable THEN BOOLEAN ELSE {FALSE}

\* Everything passes: security check, solve, adaptive limits, command, state.
\* near: an obstacle is within the security radius; outcome: of tracker.solve.
SolveFull(near, outcome) ==
    LET entering  == security_mode' /\ ~security_mode
        reference == IF security_mode' /\ Fed /\ SecurityEnable THEN "escape" ELSE "path"
    IN  /\ ~PoseLost /\ ~InGoalRadius /\ ~(goal # None /\ nav_state = "GOAL_REACHED")
        /\ ~PathLost
        /\ SecurityEscape(near)
        /\ SetState(NavStateOfFullSolve)
        /\ tracker' = TrackerAfter(IF entering THEN Forget(tracker) ELSE tracker,
                                   outcome, reference)
        /\ setpoint' = TRUE
        /\ CommandAfter(Solved(outcome), reference)
        /\ cmd_vel' = [src |-> last_good'.src, dec |-> last_good'.dec,
                       wz |-> IF Blends THEN "blend" ELSE "none"]
        /\ Adapt(Solved(outcome))
        /\ PublishState
        /\ UNCHANGED inputs

SolveEarly == SolvePoseLost \/ SolveHold \/ SolveAlign \/ SolveArrive \/ SolvePathLost

TimerFires == timer = SolvePeriod /\ timer' = 0

Solve ==
    /\ TimerFires
    /\ \/ SolveEarly
       \/ \E near \in Sightings, outcome \in Outcomes : SolveFull(near, outcome)

\* Time passes; the timer is served before more than SolvePeriod has passed.
Tick ==
    /\ timer < SolvePeriod /\ timer' = timer + 1
    /\ pose_age' = Lower(pose_age + 1, PoseAgeCap)
    /\ path_age' = Lower(path_age + 1, PathAgeCap)
    /\ scan_age' = Lower(scan_age + 1, ScanAgeCap)
    /\ UNCHANGED <<pose, goal, path, cloud, nav_state, nav_published, security,
                   solver, setpoint, cmd_vel>>

Inputs ==
    \/ \E g \in Poses : GoalCb(g)
    \/ \E p \in Poses : PoseCb(p)
    \/ \E age \in 0..(LidarMaxAge + 1), usable \in BOOLEAN : LidarCb(age, usable)
    \/ \E nonempty, far \in BOOLEAN : PathCb(nonempty, far)

Next == Inputs \/ Solve \/ Tick

Spec == Init /\ [][Next]_vars

\* The executor keeps serving the timer and time keeps passing; nothing is
\* assumed of the publishers the node listens to.
FairSpec == Spec /\ WF_vars(Solve) /\ WF_vars(Tick)

-----------------------------------------------------------------------------
(* Invariants                                                              *)

\* The published state SECURITY and the security layer never come apart: the
\* node reports SECURITY only while the mode is engaged.  mpc_node.py 1258-1284.
SecurityStateImpliesMode == nav_state = "SECURITY" => security_mode

\* While the node holds at a goal or aligns to its heading, nothing of the drive
\* that got it there is left: no warm start and no seeded setpoint filter, so
\* the next drive starts cold.  mpc_node.py 1148-1165.
ArrivalIsCold ==
    nav_state \in {"ALIGNING", "GOAL_REACHED"} => tracker.warm = "none" /\ ~setpoint

\* Holding at a goal means commanding zero until something re-arms the node.
ArrivalIsStill == nav_state = "GOAL_REACHED" => ~Moving(cmd_vel)

\* End to end through both watchdogs: a command that moves the robot never
\* outlives the odometry it was computed from by more than the timeout plus one
\* solve period, nor the A* path (unless it turns in place at the goal).
\* mpc_node.py 1114-1126, 1173-1182.
CommandIsFresh ==
    Moving(cmd_vel) =>
        /\ pose_age <= OdomTimeout + timer
        /\ cmd_vel.wz # "align" => path_age <= PathTimeout + timer

\* The soft hold is bounded by failed solves: the remembered command has been
\* decayed once per failure since the last good solve, and is gone once there
\* were more than SoftHoldCycles of them.  mpc_node.py 1416-1445.
SoftHoldIsBounded ==
    /\ last_good.src # "none" => soft_hold <= SoftHoldCycles /\ last_good.dec = soft_hold
    /\ cmd_vel.src # "none" => cmd_vel.dec <= soft_hold

\* A warm start never survives MaxConsecFailures failures in a row, in either
\* tracker.  mpc_tracker.py 538-606, mpcc_tracker.py 501-538.
WarmStartIsBounded == tracker.warm # "none" => tracker.fails < MaxConsecFailures

\* The adaptive ceiling stays between its floor and the configured limit.
VxWithinLimits == Lower(VxFloor, CfgVxMax) <= vx_max /\ vx_max <= CfgVxMax

\* The inductive strengthening of the invariants above.  Holding and aligning
\* presuppose a goal (the goal is never dropped), and an engaged security mode
\* has always fewer clear solves than it needs to let go.
InductiveInv ==
    /\ TypeOK
    /\ nav_state \in {"ALIGNING", "GOAL_REACHED"} => goal # None
    /\ security_mode => clear_count < ClearCycles
    /\ SecurityStateImpliesMode
    /\ ArrivalIsCold
    /\ ArrivalIsStill
    /\ CommandIsFresh
    /\ SoftHoldIsBounded
    /\ WarmStartIsBounded

-----------------------------------------------------------------------------
(* Refinement                                                              *)

\* What the command in force does, in the terms of PathFollower: turning in
\* place at the goal is no drive, a decayed command and an escape are Other.
Drive ==
    IF cmd_vel.src = "none" /\ cmd_vel.wz # "blend" THEN "none"
    ELSE IF cmd_vel.src = "path" /\ cmd_vel.dec = 0 THEN "path"
    ELSE "other"

\* Whatever its state, its solver and its other inputs do, the node keeps the
\* promise that the planners in front of it count on.  mpc_node.py 1111-1445.
Follower == INSTANCE PathFollower WITH
    Paths <- {"path"}, Nothing <- "none", Other <- "other",
    Timeout <- PathTimeout, Period <- SolvePeriod,
    path <- IF path THEN "path" ELSE "none", age <- path_age, drive <- Drive
ImplementsFollower == Follower!FollowerSpec

-----------------------------------------------------------------------------
(* Action properties                                                       *)

\* A hold at a goal ends only in a new goal or a lost pose: no path, scan or
\* solver outcome restarts the robot.  mpc_node.py 1117-1145.
HoldEndsOnlyByGoalOrPoseLoss ==
    [][nav_state = "GOAL_REACHED" /\ nav_state' # "GOAL_REACHED"
         => goal' # goal \/ PoseLost]_vars

\* The speed ceiling is raised only over a window without a single failure: at
\* the configured length of 20, one failure is exactly 5 % and not below it.
RecoversOnlyWhenClean ==
    [][vx_max' > vx_max => \A i \in DOMAIN recent' : recent'[i]]_vars

-----------------------------------------------------------------------------
(* Liveness                                                                *)

\* Once odometry stops for good, the robot is commanded to stop, for good.
PoseLossStopsRobot == <>[](pose_age > OdomTimeout) => <>[](~Moving(cmd_vel))

\* A robot that stays where its goal is, rightly oriented and localised, is
\* eventually held there, whatever A*, the lidar or the solver do: A* stops
\* publishing on arrival, so the arrival test must not wait for a fresh path.
ArrivalIsNoticed ==
    \A g \in Poses :
        <>[](goal = g /\ InGoalRadius /\ Aligned /\ pose_age <= OdomTimeout)
            => <>[](nav_state = "GOAL_REACHED")

\* "a clean, latched stop that holds until a NEW /global_goal is published": once the
\* robot holds at a goal, it never moves again unless it gets another one.
\* mpc_node.py 1140-1141; against it stands the pose watchdog, which runs first and
\* leaves STOPPED behind (1121-1126): a robot that then finds itself outside the
\* radius drives.
HoldLastsUntilNewGoal ==
    \A g \in Poses :
        [](nav_state = "GOAL_REACHED" /\ goal = g => [](~Moving(cmd_vel)) \/ <>(goal # g))
=============================================================================
