---------------------------- MODULE MCGoalDrift ----------------------------
(***************************************************************************)
(* The A* node and the MPC node, both in full, in a world where nothing    *)
(* fails: messages arrive, the search and the solver succeed, and the      *)
(* robot moves wherever it is commanded to.  They differ in which goals    *)
(* they take for the same.                                                 *)
(***************************************************************************)
EXTENDS MpcNode

VARIABLES
    kept, seen, backend, fused, localised, target, lidar, maps, grid_age,
    route, route_age, due, sent   \* of AStarNode, lidar being its cloud

AStar == INSTANCE AStarNode WITH
    Cells <- {}, DecaySec <- 0, MaxCells <- 0,
    Goals <- Poses,
    SameGoal <- {g \in Poses \X Poses : Dist(g[1].at, g[2].at) <= GoalTolerance},
    Fusions <- {{}}, MapMaxAge <- 0, GridMaxAge <- 0, FollowRoute <- FALSE, RouteMaxAge <- 0,
    cloud <- lidar

astar  == <<kept, seen, backend, fused, localised, target, lidar, maps, grid_age,
            route, route_age, due, sent>>
dvars  == <<vars, astar>>

DInit == Init /\ AStar!AStarInit /\ backend = "gaussian" /\ target = None

DGoal(g) == GoalCb(g) /\ AStar!GoalCb(g)

\* A robot that is not commanded to move is where it was.
DPose(p) ==
    /\ pose = None \/ Moving(cmd_vel) \/ p = pose
    /\ PoseCb(p) /\ AStar!PoseCb

DLidar == LidarCb(0, TRUE) /\ AStar!LidarCb(TRUE, {})

ArrivedAtTarget == target # None /\ pose # None /\ Dist(pose.at, target.at) <= GoalRadius

DReplan ==
    /\ sent = None
    /\ AStar!Replan(ArrivedAtTarget)
    /\ ~AStar!Silent(ArrivedAtTarget) => sent' # None
    /\ UNCHANGED vars

DPath == sent # None /\ sent' = None /\ PathCb(TRUE, FALSE) /\ UNCHANGED
    <<kept, seen, backend, fused, localised, target, lidar, maps, grid_age, route, route_age, due>>

DSolve ==
    /\ TimerFires
    /\ SolveEarly \/ SolveFull(FALSE, "ok")
    /\ UNCHANGED astar

DTick == sent = None /\ Tick /\ AStar!AStarTick

DNext ==
    \/ \E g \in Poses : DGoal(g)
    \/ \E p \in Poses : DPose(p)
    \/ DLidar \/ DReplan \/ DPath \/ DSolve \/ DTick

\* Sensors keep coming, timers are served, time passes.
DSpec ==
    /\ DInit /\ [][DNext]_dvars
    /\ WF_dvars(\E p \in Poses : DPose(p)) /\ WF_dvars(DLidar)
    /\ WF_dvars(DReplan) /\ WF_dvars(DPath) /\ WF_dvars(DSolve) /\ WF_dvars(DTick)

\* The comment of the MPC node: "Any new goal clears a prior arrival and resumes
\* driving".  mpc_node.py 499-506.
NewGoalResumesDriving ==
    \A g \in Poses :
        (goal = g /\ ~InGoalRadius) ~> (Moving(cmd_vel) \/ InGoalRadius \/ goal # g)
=============================================================================
