------------------------------ MODULE NavLoop ------------------------------
(***************************************************************************)
(* The planning loop: an operator who sends goals, the global planner that *)
(* turns them into routes, the A* node (AStarNode) and the MPC node, of    *)
(* which only its promise PathFollower is used; MpcNode implements it.     *)
(*                                                                         *)
(* A goal reaches the A* node and the global planner at different times.   *)
(* A path may be lost on its way to the MPC node, but does not travel for  *)
(* longer than a tick; nor does a route.                                   *)
(***************************************************************************)
EXTENDS Integers, FiniteSets

CONSTANTS
    Cells, DecaySec, MaxCells,                        \* see PersistentMap
    Goals, Fusions, MapMaxAge, GridMaxAge, RouteMaxAge, None, \* see AStarNode
    PathTimeout, SolvePeriod, Other                   \* see PathFollower

VARIABLES
    kept, seen, backend, fused, localised, target, cloud, maps, grid_age,
    route, route_age, due, sent,    \* of AStarNode
    path, path_age, timer, drive,   \* of PathFollower; a path is its goal
    goal,          \* the operator's last goal
    to_astar,      \* is it still on its way to the A* node
    to_global,     \* is it still on its way to the global planner
    global_goal,   \* _goal_xy of the global planner
    goal_age,      \* ticks since both have it, up to Settled + 1
    grid_since     \* ticks since a readable external grid, up to GridHorizon + 1

AStar == INSTANCE AStarNode WITH
    SameGoal <- {<<g, g>> : g \in Goals}, FollowRoute <- TRUE
MPC == INSTANCE PathFollower WITH
    Paths <- Goals, Nothing <- None, Timeout <- PathTimeout, Period <- SolvePeriod,
    age <- path_age

ASSUME NavLoopAssumption ==
    /\ AStar!NodeConstants
    /\ PathTimeout \in Nat /\ SolvePeriod \in Nat \ {0}
    /\ Other \notin Goals \cup {None}

operator == <<goal, to_astar, to_global, global_goal, goal_age, grid_since>>
astar    == <<kept, seen, backend, fused, localised, target, cloud, maps, grid_age,
              route, route_age, due, sent>>
mpc      == <<path, path_age, timer, drive>>
vars     == <<operator, astar, mpc>>

\* Route, path and command, one after the other, as old as each may become.
Settled     == RouteMaxAge + PathTimeout + SolvePeriod
GridHorizon == GridMaxAge + PathTimeout + SolvePeriod

TypeOK ==
    /\ AStar!AStarTypeOK
    /\ MPC!FollowerTypeOK
    /\ {goal, global_goal} \subseteq Goals \cup {None}
    /\ to_astar \in BOOLEAN /\ to_global \in BOOLEAN
    /\ goal_age \in 0..(Settled + 1) /\ grid_since \in 0..(GridHorizon + 1)

Init ==
    /\ AStar!AStarInit
    /\ MPC!FollowerInit
    /\ goal = None /\ global_goal = None
    /\ to_astar = FALSE /\ to_global = FALSE /\ goal_age = 0
    /\ grid_since = GridHorizon + 1

SendGoal(g) ==
    /\ goal' = g /\ to_astar' = TRUE /\ to_global' = TRUE /\ goal_age' = 0
    /\ UNCHANGED <<global_goal, grid_since, astar, mpc>>

GoalReachesAStar ==
    /\ to_astar /\ to_astar' = FALSE
    /\ AStar!GoalCb(goal)
    /\ UNCHANGED <<goal, to_global, global_goal, goal_age, grid_since, mpc>>

GoalReachesGlobalPlanner ==
    /\ to_global /\ to_global' = FALSE
    /\ global_goal' = goal
    /\ UNCHANGED <<goal, to_astar, goal_age, grid_since, astar, mpc>>

\* The global planner replans for the goal it has.
RouteArrives ==
    /\ global_goal # None
    /\ AStar!GlobalPathCb(global_goal)
    /\ UNCHANGED <<operator, mpc>>

SensorsOfAStar == AStar!Sensors /\ UNCHANGED <<operator, mpc>>

\* The adapter publishes a grid; a message may be empty, cut off, or declare no
\* cells, or more than it has.
GridMessages == [size : {0, 4, 5}, cells : 0..2]
GridArrives(msg) ==
    /\ AStar!ExternalCostmapCb(AStar!Readable(msg))
    /\ grid_since' = IF AStar!Readable(msg) THEN 0 ELSE grid_since
    /\ UNCHANGED <<goal, to_astar, to_global, global_goal, goal_age, mpc>>

Replan ==
    /\ sent = None
    /\ \E arrived \in BOOLEAN : AStar!Replan(arrived)
    /\ UNCHANGED <<operator, mpc>>

\* The path reaches the MPC node, or is lost.
PathArrives ==
    /\ sent # None /\ sent' = None
    /\ MPC!Receive(sent.for) \/ UNCHANGED mpc
    /\ UNCHANGED <<operator, kept, seen, backend, fused, localised, target, cloud, maps,
                   grid_age, route, route_age, due>>

Solve == MPC!Decide /\ UNCHANGED <<operator, astar>>

Tick ==
    /\ sent = None
    /\ AStar!AStarTick
    /\ MPC!Pass
    /\ goal_age' = IF to_astar \/ to_global \/ goal_age > Settled THEN goal_age
                   ELSE goal_age + 1
    /\ grid_since' = IF grid_since > GridHorizon THEN grid_since ELSE grid_since + 1
    /\ UNCHANGED <<goal, to_astar, to_global, global_goal>>

Next ==
    \/ \E g \in Goals : SendGoal(g)
    \/ GoalReachesAStar \/ GoalReachesGlobalPlanner
    \/ RouteArrives \/ SensorsOfAStar
    \/ \E msg \in GridMessages : GridArrives(msg)
    \/ Replan \/ PathArrives \/ Solve
    \/ Tick

Spec == Init /\ [][Next]_vars

-----------------------------------------------------------------------------
(* Properties                                                              *)

\* Once the last goal has been with the A* node and the global planner for as
\* long as a cached route, a path and a command may live in a row, no solution
\* along a path for another goal is in force: the route that the A* node keeps
\* over a new goal is followed for a bounded time, whatever is lost and whoever
\* hears of the goal first.  a_star_node.py 480-493, 508-530, mpc_node.py 1173-1182.
DrivesForCurrentGoal ==
    goal # None /\ goal_age > Settled /\ drive \in Goals => drive = goal

\* On an external costmap, no command that drives is in force unless a readable
\* grid arrived within the three ages that add up on its way, however many
\* unreadable ones came since.  a_star_node.py 681-697, 1036-1042.
DrivesOnFreshGrid ==
    backend = "external_grid" /\ drive # None => grid_since <= GridHorizon

\* No path that is published crosses a cell that was hit within the decay time,
\* also when the obstacle has long left the view of the sensor and scans come
\* empty, unless newer hits filled the memory.  a_star_node.py 600-660, 877-913,
\* persistent_map.py 55-118.
PathsAvoidRecentHits ==
    [][backend = "gaussian" /\ sent = None /\ sent' # None =>
         \A c \in sent'.through :
            seen[c] <= DecaySec =>
                Cardinality(kept) = MaxCells /\ \A d \in kept : seen[d] <= seen[c]]_vars
=============================================================================
