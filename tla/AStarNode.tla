------------------------------ MODULE AStarNode ------------------------------
(***************************************************************************)
(* The A* node (a_star_mpc_planner/a_star_node.py): what it caches of its  *)
(* inputs and for how long it uses it, when it plans, for which goal, and  *)
(* when it is silent.  The search itself is AStarPlanner.                  *)
(*                                                                         *)
(* Data abstraction.  A pose is known or not; a route of the global        *)
(* planner is the goal it leads to (a route of less than two points is no  *)
(* route); a cloud is there or not; a path is the goal it leads towards    *)
(* and the cells it crosses.  What a live cloud blocks is left open: only  *)
(* remembered and fused cells are sure to block, and every live obstacle   *)
(* is entered into the memory in the same callback.  They are sure to      *)
(* block with step_over_height 0.0, as the configuration has it; with the  *)
(* node's default of 0.08 a remembered cell in which the live cloud shows  *)
(* nothing but low points is stepped over (gaussian_grid_map.py 209-213,   *)
(* a_star_planner.py 323-338).                                             *)
(***************************************************************************)
EXTENDS PersistentMap

CONSTANTS
    Goals,
    SameGoal,     \* pairs of goals within the duplicate tolerances
    Fusions,      \* sets of maps that may be configured to be fused
    MapMaxAge,    \* slam_map_max_age_sec, dlio_map_max_age_sec, in ticks
    GridMaxAge,   \* external_costmap_max_age_sec, in ticks
    FollowRoute,  \* follow_global_path
    RouteMaxAge,  \* global_path_max_age_sec, in ticks
    None          \* Python's None

MapSources == {"slam", "dlio"}

\* What is assumed of the constants.
NodeConstants ==
    /\ MapConstants
    /\ SameGoal \subseteq Goals \X Goals
    /\ Fusions \subseteq SUBSET MapSources /\ Fusions # {}
    /\ MapMaxAge \in Nat /\ GridMaxAge \in Nat /\ RouteMaxAge \in Nat
    /\ FollowRoute \in BOOLEAN
    /\ None \notin Goals /\ None \notin Nat

Messages == [for : Goals, through : SUBSET Cells]

VARIABLES
    backend,     \* _costmap_backend
    fused,       \* the maps of _enable_slam_map and _enable_dlio_map
    localised,   \* is there a _pose
    target,      \* _goal, None while _goal_initialized is False
    cloud,       \* is there a _lidar_points
    maps,        \* the fused maps: obstacle cells and age, up to MapMaxAge + 1
    grid_age,    \* ticks since _external_grid_t; None without a grid
    route,       \* _global_path: the goal it leads to
    route_age,   \* ticks since _global_path_t
    due,         \* is the replan timer due
    sent         \* the message on /a_star/path that nobody has taken yet

setup      == <<backend, fused>>
sensed     == <<cloud, map_vars, maps>>
astar_vars == <<setup, localised, target, sensed, grid_age, route, route_age, due, sent>>

Backends == {"gaussian", "external_grid"}

AStarTypeOK ==
    /\ backend \in Backends /\ fused \in Fusions \cup {{}}
    /\ localised \in BOOLEAN /\ cloud \in BOOLEAN /\ due \in BOOLEAN
    /\ target \in Goals \cup {None} /\ route \in Goals \cup {None}
    /\ MapTypeOK
    /\ maps \in [MapSources -> [cells : SUBSET Cells, age : 0..(MapMaxAge + 1)]]
    /\ grid_age \in 0..(GridMaxAge + 1) \cup {None}
    /\ route_age \in 0..(RouteMaxAge + 1)
    /\ sent \in Messages \cup {None}

\* An unknown costmap_backend falls back to 'gaussian'.
Backend(parameter) == IF parameter \in Backends THEN parameter ELSE "gaussian"

\* With wait_for_goal the node starts without a goal, else with that of its
\* parameters.  An external grid disables the fused maps.  A map that never came
\* is like one that is stale.
AStarInit ==
    /\ \E parameter \in Backends \cup {"other"} : backend = Backend(parameter)
    /\ fused \in (IF backend = "external_grid" THEN {{}} ELSE Fusions)
    /\ target \in Goals \cup {None}
    /\ localised = FALSE /\ cloud = FALSE
    /\ MapInit
    /\ maps = [s \in MapSources |-> [cells |-> {}, age |-> MapMaxAge + 1]]
    /\ grid_age = None
    /\ route = None /\ route_age = RouteMaxAge + 1
    /\ due = FALSE /\ sent = None

-----------------------------------------------------------------------------
(* Subscriptions                                                           *)

\* _odom_cb and _pose_cb: the pose has no age limit here.
PoseCb ==
    /\ localised' = TRUE
    /\ UNCHANGED <<setup, target, sensed, grid_age, route, route_age, due, sent>>

\* _goal_cb: a goal within both tolerances of the current one is ignored.  The
\* heading is not looked at, and the cached route is left alone.
GoalCb(g) ==
    /\ target' = IF target # None /\ <<g, target>> \in SameGoal THEN target ELSE g
    /\ UNCHANGED <<setup, localised, sensed, grid_age, route, route_age, due, sent>>

\* _global_path_cb: None is an empty route.
GlobalPathCb(r) ==
    /\ FollowRoute
    /\ route' = r
    /\ route_age' = IF r = None THEN route_age ELSE 0
    /\ UNCHANGED <<setup, localised, target, sensed, grid_age, due, sent>>

\* A plausible slip: an empty scan wipes the memory.
WipingLidarCb(usable, hits) ==
    /\ backend = "gaussian"
    /\ IF usable THEN Update(hits) /\ cloud' = TRUE
       ELSE kept' = {} /\ UNCHANGED <<seen, cloud>>
    /\ UNCHANGED <<setup, localised, target, maps, grid_age, route, route_age, due, sent>>

\* _lidar_cb: a scan that is empty, or out of range, keeps the last cloud and
\* only lets the memory decay; one that cannot be parsed does nothing.  What is
\* left after the ground is removed need not contain an obstacle.
LidarCb(usable, hits) ==
    /\ backend = "gaussian"
    /\ IF usable THEN Update(hits) /\ cloud' = TRUE
       ELSE Update({}) /\ UNCHANGED cloud
    /\ UNCHANGED <<setup, localised, target, maps, grid_age, route, route_age, due, sent>>

CacheMap(s, cells) ==
    /\ s \in fused
    /\ maps' = [maps EXCEPT ![s] = [cells |-> cells, age |-> 0]]
    /\ UNCHANGED <<setup, localised, target, cloud, map_vars, grid_age,
                   route, route_age, due, sent>>

\* _slam_map_cb
SlamMapCb(cells) == CacheMap("slam", cells)

\* _dlio_map_cb: a cloud that is empty or cannot be parsed is ignored; one
\* without an obstacle is kept.
DlioMapCb(cells) == CacheMap("dlio", cells)

\* parse_costmap_raw: what it takes for a grid.  A message is its length and
\* the number of cells per side that it declares.
Readable(msg) == msg.size >= 4 /\ msg.cells > 0 /\ msg.size = 4 + msg.cells * msg.cells

\* A plausible slip: the stamp is taken before the message is decoded.
HastyExternalCostmapCb(readable) ==
    /\ backend = "external_grid"
    /\ grid_age' = IF readable \/ grid_age # None THEN 0 ELSE None
    /\ UNCHANGED <<setup, localised, target, sensed, route, route_age, due, sent>>

\* _external_costmap_cb: a message that parse_costmap_raw rejects leaves the
\* last grid and its stamp.
ExternalCostmapCb(readable) ==
    /\ backend = "external_grid"
    /\ grid_age' = IF readable THEN 0 ELSE grid_age
    /\ UNCHANGED <<setup, localised, target, sensed, route, route_age, due, sent>>

-----------------------------------------------------------------------------
(* The replan timer                                                        *)

\* A plausible slip: a cached route never becomes stale.
LastingCarrotTarget == IF FollowRoute /\ route # None THEN route ELSE target

\* _carrot_target: a point of the route if there is a recent one, else the goal.
CarrotTarget ==
    IF FollowRoute /\ route # None /\ route_age <= RouteMaxAge THEN route ELSE target

\* The ways through _replan_cb and _replan_external that publish nothing.
Blocked ==
    IF backend = "gaussian" THEN ~localised \/ (~cloud /\ kept = {})
    ELSE ~localised \/ grid_age = None
StaleGrid == backend = "external_grid" /\ grid_age > GridMaxAge
Silent(arrived) == Blocked \/ target = None \/ StaleGrid \/ arrived

Recent(s) == s \in fused /\ maps[s].age <= MapMaxAge

\* extract_slam_obstacle_points: nothing of a map that is stale.
SlamObstacles == IF Recent("slam") THEN maps["slam"].cells ELSE {}

\* _extract_dlio_obstacle_points
DlioObstacles == IF Recent("dlio") THEN maps["dlio"].cells ELSE {}

\* The cells that are sure to block when nothing is stepped over: the memory and the
\* fused maps.
DirectObstacles == kept \cup SlamObstacles \cup DlioObstacles

\* A path toward the target around the obstacles; none if the search fails.
PublishPath(for, obstacles) ==
    \/ UNCHANGED sent
    \/ \E cells \in SUBSET (Cells \ obstacles) : sent' = [for |-> for, through |-> cells]

\* _replan_cb on a grid of its own.  arrived: the pose is within
\* goal_reached_radius of the goal.  (The grids it publishes go to the display.)
ReplanGaussian(arrived) ==
    /\ backend = "gaussian"
    /\ IF Silent(arrived) THEN UNCHANGED sent ELSE PublishPath(CarrotTarget, DirectObstacles)

\* _replan_external: straight to the goal; its grid replaces the obstacles.
ReplanExternal(arrived) ==
    /\ backend = "external_grid"
    /\ IF Silent(arrived) THEN UNCHANGED sent ELSE PublishPath(target, {})

Replan(arrived) ==
    /\ due /\ due' = FALSE
    /\ ReplanGaussian(arrived) \/ ReplanExternal(arrived)
    /\ UNCHANGED <<setup, localised, target, sensed, grid_age, route, route_age>>

Older(age, limit) == IF age <= limit THEN age + 1 ELSE age

\* Time passes once the timer has been served.
AStarTick ==
    /\ ~due /\ due' = TRUE
    /\ Age
    /\ maps' = [s \in MapSources |-> [maps[s] EXCEPT !.age = Older(@, MapMaxAge)]]
    /\ grid_age' = IF grid_age = None THEN None ELSE Older(grid_age, GridMaxAge)
    /\ route_age' = Older(route_age, RouteMaxAge)
    /\ UNCHANGED <<setup, localised, target, cloud, route, sent>>

Sensors ==
    \/ PoseCb
    \/ \E usable \in BOOLEAN, hits \in SUBSET Cells : LidarCb(usable, hits)
    \/ \E cells \in SUBSET Cells : SlamMapCb(cells) \/ DlioMapCb(cells)
=============================================================================
