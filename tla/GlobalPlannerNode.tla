-------------------------- MODULE GlobalPlannerNode --------------------------
(***************************************************************************)
(* The global planner node (a_star_mpc_planner/global_planner_node.py):    *)
(* what it keeps of its inputs, and its replan timer, which counts the     *)
(* cloud it has, builds the map and plans on it (AStarPlanner).            *)
(* A route is the goal it leads to.                                        *)
(***************************************************************************)
EXTENDS GlobalCostmap

CONSTANTS
    Goals,        \* cells that are sent as goals
    MaxRange,     \* max_range, in cells
    GoalRadius,   \* goal_reached_radius, in cells
    None          \* Python's None

\* What is assumed of the constants.
GlobalPlannerConstants ==
    /\ CostmapConstants
    /\ Goals \subseteq Cells
    /\ MaxRange \in Nat /\ GoalRadius \in Nat
    /\ None \notin Int /\ \A cells \in SUBSET Cells : None # cells

VARIABLES
    pose,         \* _pose_xy
    global_goal,  \* _goal_xy
    obs,          \* _latest_obs, the cells it has points in
    route         \* the last message on /global_path

global_vars == <<costmap, pose, global_goal, obs, route>>

GlobalTypeOK ==
    /\ CostmapTypeOK
    /\ pose \in Int \cup {None}
    /\ {global_goal, route} \subseteq Goals \cup {None}
    /\ obs \in (SUBSET Cells) \cup {None}

GlobalInit ==
    /\ CostmapInit
    /\ pose = None /\ global_goal = None /\ obs = None /\ route = None

OdomCb(at) == pose' = at /\ UNCHANGED <<costmap, global_goal, obs, route>>

\* _obs_cb: an empty cloud leaves the last one in place.
ObsCb(cells) ==
    /\ obs' = IF cells = {} THEN obs ELSE cells
    /\ UNCHANGED <<costmap, pose, global_goal, route>>

GoalCb(g) == global_goal' = g /\ UNCHANGED <<costmap, pose, obs, route>>

\* The points in range of the robot.  However old the cloud is, it is counted.
InRange == IF obs = None THEN {} ELSE {c \in obs : Far(c, pose) < MaxRange}

\* _replan_cb: nothing at all without a pose or a goal; else the map is updated,
\* also at the goal, where no route is published, and where there is none.
ReplanCb ==
    /\ pose # None /\ global_goal # None
    /\ UpdateCostmap(InRange, pose)
    /\ \/ UNCHANGED route
       \/ Far(pose, global_goal) > GoalRadius /\ route' = global_goal
    /\ UNCHANGED <<pose, global_goal, obs>>
=============================================================================
