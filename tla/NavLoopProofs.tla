---------------------------- MODULE NavLoopProofs ---------------------------
(***************************************************************************)
(* The planning loop follows the last goal, and drives on a fresh grid,    *)
(* for every set of goals and cells and every age limit; and its A* node   *)
(* plans around what it remembers.                                         *)
(*                                                                         *)
(* The invariant bounds, link by link, how old what led to the command in  *)
(* force may be: route, message, path, drive.                              *)
(***************************************************************************)
EXTENDS NavLoop, TLAPS

Memory == INSTANCE PersistentMapProofs

\* The goal on its way, and where it has arrived.
GoalIsTold ==
    /\ to_astar \/ to_global => goal # None
    /\ goal_age > 0 => ~to_astar /\ ~to_global
    /\ goal # None /\ ~to_astar => target = goal
    /\ goal # None /\ ~to_global => global_goal = goal

\* What leads to another goal is older than the goal has been known.
GoalInv ==
    /\ GoalIsTold
    /\ goal # None =>
        /\ route \notin {None, goal} /\ route_age <= RouteMaxAge => goal_age <= route_age
        /\ sent # None => sent.for = goal \/ goal_age <= RouteMaxAge
        /\ path \notin {None, goal} /\ path_age <= PathTimeout
               => goal_age <= RouteMaxAge + path_age
        /\ drive \in Goals \ {goal} => goal_age <= RouteMaxAge + PathTimeout + timer

\* Whatever is under way on an external costmap came from a grid that was fresh.
GridInv ==
    backend = "external_grid" =>
        /\ grid_age # None /\ grid_age <= GridMaxAge => grid_since <= grid_age
        /\ sent # None => grid_since <= GridMaxAge
        /\ path # None /\ path_age <= PathTimeout => grid_since <= GridMaxAge + path_age
        /\ drive # None => grid_since <= GridMaxAge + PathTimeout + timer

\* The remembered cells are the newest.
MemoryInv == Memory!MapInv

\* Every module counts alike.
LEMMA SameCount ==
    \A s : /\ AStar!Cardinality(s) = Cardinality(s)
           /\ Memory!Cardinality(s) = Cardinality(s)
           /\ AStar!IsFiniteSet(s) = IsFiniteSet(s)
           /\ Memory!IsFiniteSet(s) = IsFiniteSet(s)
<1>1. \A s : AStar!Cardinality(s) = Cardinality(s)
  BY Zenon DEF AStar!Cardinality, Cardinality
<1>2. \A s : Memory!Cardinality(s) = Cardinality(s)
  BY Zenon DEF Memory!Cardinality, Cardinality
<1>3. \A s : AStar!IsFiniteSet(s) = IsFiniteSet(s)
  BY Zenon DEF AStar!IsFiniteSet, IsFiniteSet
<1>4. \A s : Memory!IsFiniteSet(s) = IsFiniteSet(s)
  BY Zenon DEF Memory!IsFiniteSet, IsFiniteSet
<1> QED BY <1>1, <1>2, <1>3, <1>4

\* What the assumption says of the constants.
LEMMA Constants ==
    /\ {DecaySec, MaxCells, MapMaxAge, GridMaxAge, RouteMaxAge, PathTimeout} \subseteq Nat
    /\ SolvePeriod \in Nat \ {0}
    /\ None \notin Goals \cup Nat /\ Other \notin Goals \cup {None}
    /\ Fusions \subseteq SUBSET AStar!MapSources
    /\ Memory!MapConstants
BY NavLoopAssumption, SameCount DEF AStar!NodeConstants, AStar!MapConstants, Memory!MapConstants

-----------------------------------------------------------------------------
(* The memory                                                              *)

\* A scan updates the memory, a tick lets it grow old, the rest leaves it alone.
LEMMA MemoryStep == [Next]_vars => [Memory!MapNext]_(Memory!map_vars)
<1> SUFFICES ASSUME [Next]_vars
             PROVE  Memory!MapNext \/ UNCHANGED <<kept, seen>>
  BY DEF Memory!map_vars
<1> USE DEF vars, astar, AStar!map_vars
<1>1. ASSUME NEW g \in Goals, SendGoal(g) PROVE UNCHANGED <<kept, seen>>
  BY <1>1 DEF SendGoal
<1>2. CASE GoalReachesAStar
  BY <1>2 DEF GoalReachesAStar, AStar!GoalCb, AStar!sensed
<1>3. CASE GoalReachesGlobalPlanner
  BY <1>3 DEF GoalReachesGlobalPlanner
<1>4. CASE RouteArrives
  BY <1>4 DEF RouteArrives, AStar!GlobalPathCb, AStar!sensed
<1>5. CASE SensorsOfAStar
  <2>1. CASE AStar!PoseCb
    BY <2>1 DEF AStar!PoseCb, AStar!sensed
  <2>2. ASSUME NEW usable \in BOOLEAN, NEW hits \in SUBSET Cells,
               AStar!LidarCb(usable, hits)
        PROVE  Memory!MapNext
    <3>1. AStar!Update(hits) \/ AStar!Update({})
      BY <2>2 DEF AStar!LidarCb
    <3>2. ASSUME NEW h \in SUBSET Cells, AStar!Update(h) PROVE Memory!Update(h)
      BY <3>2, SameCount, Zenon
         DEF AStar!Update, Memory!Update, AStar!Confirmed, Memory!Confirmed,
             AStar!Unexpired, Memory!Unexpired, AStar!NewestOf, Memory!NewestOf
    <3>3. {} \in SUBSET Cells
      OBVIOUS
    <3> QED BY <3>1, <3>2, <3>3 DEF Memory!MapNext
  <2>3. ASSUME NEW s, NEW cells, AStar!CacheMap(s, cells) PROVE UNCHANGED <<kept, seen>>
    BY <2>3 DEF AStar!CacheMap
  <2> QED BY <1>5, <2>1, <2>2, <2>3
          DEF SensorsOfAStar, AStar!Sensors, AStar!SlamMapCb, AStar!DlioMapCb
<1>6. ASSUME NEW msg \in GridMessages, GridArrives(msg) PROVE UNCHANGED <<kept, seen>>
  BY <1>6 DEF GridArrives, AStar!ExternalCostmapCb, AStar!sensed
<1>7. CASE Replan
  BY <1>7 DEF Replan, AStar!Replan, AStar!sensed
<1>8. CASE PathArrives
  BY <1>8 DEF PathArrives
<1>9. CASE Solve
  BY <1>9 DEF Solve
<1>10. CASE Tick
  BY <1>10 DEF Tick, AStar!AStarTick, AStar!Age, Memory!MapNext, Memory!Age,
               AStar!SeenCap, Memory!SeenCap
<1> QED BY <1>1, <1>2, <1>3, <1>4, <1>5, <1>6, <1>7, <1>8, <1>9, <1>10 DEF Next

\* The A* node uses the memory as it is meant to be used.
LEMMA MemoryIsKept == Spec => []MemoryInv
<1>1. Init => Memory!MapInit
  BY DEF Init, AStar!AStarInit, AStar!MapInit, Memory!MapInit, AStar!SeenCap, Memory!SeenCap
<1>2. Spec => Memory!MapSpec
  BY <1>1, MemoryStep, PTL DEF Spec, Memory!MapSpec
<1>3. Memory!MapSpec => []Memory!MapInv
  BY Constants, Memory!MapInvariance
<1> QED BY <1>2, <1>3, PTL DEF MemoryInv

\* The memory is typed for the node as it is for itself.
LEMMA MemoryTypes ==
    /\ MemoryInv => AStar!MapTypeOK
    /\ MemoryInv' => AStar!MapTypeOK'
BY SameCount, Zenon
   DEF MemoryInv, Memory!MapInv, Memory!MapTypeOK, AStar!MapTypeOK,
       AStar!SeenCap, Memory!SeenCap

-----------------------------------------------------------------------------
(* Types                                                                   *)

\* What belongs to the operator and to the MPC node, and to the A* node.
OperatorTypes ==
    /\ {goal, global_goal} \subseteq Goals \cup {None}
    /\ to_astar \in BOOLEAN /\ to_global \in BOOLEAN
    /\ goal_age \in 0..(Settled + 1) /\ grid_since \in 0..(GridHorizon + 1)

\* The loop starts typed.
LEMMA TypesStart == Init => TypeOK
<1> SUFFICES ASSUME Init PROVE TypeOK
  OBVIOUS
<1> USE Constants
<1>1. Settled \in Nat /\ GridHorizon \in Nat
  BY DEF Settled, GridHorizon
<1>2. OperatorTypes
  <2>1. goal_age \in 0..(Settled + 1) /\ grid_since \in 0..(GridHorizon + 1)
    BY <1>1 DEF Init
  <2> QED BY <2>1, Zenon DEF Init, OperatorTypes
<1>3. MPC!FollowerTypeOK
  BY DEF Init, MPC!FollowerTypeOK, MPC!FollowerInit, MPC!AgeCap
<1>4. AStar!MapTypeOK
  <2>1. Memory!MapInit
    BY DEF Init, AStar!AStarInit, AStar!MapInit, Memory!MapInit, AStar!SeenCap, Memory!SeenCap
  <2> QED BY <2>1, MemoryTypes, Memory!MapStarts DEF MemoryInv
<1>5. backend \in AStar!Backends /\ fused \in Fusions \cup {{}}
  BY DEF Init, AStar!AStarInit, AStar!Backend, AStar!Backends
<1>6. maps \in [AStar!MapSources -> [cells : SUBSET Cells, age : 0..(MapMaxAge + 1)]]
  BY DEF Init, AStar!AStarInit
<1>7. AStar!AStarTypeOK
  <2>1. route_age \in 0..(RouteMaxAge + 1)
    BY DEF Init, AStar!AStarInit
  <2> QED BY <1>4, <1>5, <1>6, <2>1, Zenon DEF Init, AStar!AStarInit, AStar!AStarTypeOK
<1> QED BY <1>2, <1>3, <1>7 DEF TypeOK, OperatorTypes

\* A step of the A* node alone, or of nobody in it, keeps its types.
LEMMA AStarTypesKept ==
    ASSUME TypeOK, GoalIsTold, MemoryInv', [Next]_vars
    PROVE  AStar!AStarTypeOK'
<1> USE Constants DEF AStar!AStarTypeOK
<1>0. AStar!AStarTypeOK /\ AStar!MapTypeOK' /\ {goal, global_goal} \subseteq Goals \cup {None}
  BY MemoryTypes DEF TypeOK
<1>1. ASSUME UNCHANGED astar PROVE AStar!AStarTypeOK'
  BY <1>0, <1>1 DEF astar
<1>2. CASE GoalReachesAStar
  BY <1>0, <1>2 DEF GoalReachesAStar, AStar!GoalCb, GoalIsTold, AStar!setup, AStar!sensed
<1>3. CASE RouteArrives
  BY <1>0, <1>3 DEF RouteArrives, AStar!GlobalPathCb, AStar!setup, AStar!sensed
<1>4. CASE AStar!PoseCb
  BY <1>0, <1>4 DEF AStar!PoseCb, AStar!setup, AStar!sensed
<1>5. ASSUME NEW usable \in BOOLEAN, NEW hits \in SUBSET Cells, AStar!LidarCb(usable, hits)
      PROVE  AStar!AStarTypeOK'
  BY <1>0, <1>5 DEF AStar!LidarCb, AStar!setup
<1>6. ASSUME NEW s, NEW cells \in SUBSET Cells, AStar!CacheMap(s, cells)
      PROVE  AStar!AStarTypeOK'
  <2>1. [cells |-> cells, age |-> 0] \in [cells : SUBSET Cells, age : 0..(MapMaxAge + 1)]
    OBVIOUS
  <2>2. maps' \in [AStar!MapSources -> [cells : SUBSET Cells, age : 0..(MapMaxAge + 1)]]
    BY <1>0, <1>6, <2>1 DEF AStar!CacheMap
  <2> QED BY <1>0, <1>6, <2>2 DEF AStar!CacheMap, AStar!setup, AStar!map_vars
<1>7. ASSUME NEW msg \in GridMessages, GridArrives(msg) PROVE AStar!AStarTypeOK'
  BY <1>0, <1>7 DEF GridArrives, AStar!ExternalCostmapCb, AStar!setup, AStar!sensed
<1>8. CASE Replan
  <2>1. sent' \in AStar!Messages \cup {None}
    <3>1. AStar!CarrotTarget \in Goals \cup {None}
      BY <1>0 DEF AStar!CarrotTarget
    <3>2. target # None => AStar!CarrotTarget \in Goals
      BY <1>0 DEF AStar!CarrotTarget
    <3>3. ASSUME NEW for \in Goals, NEW obstacles, AStar!PublishPath(for, obstacles)
          PROVE  sent' \in AStar!Messages \cup {None}
      BY <1>0, <3>3 DEF AStar!PublishPath, AStar!Messages
    <3> QED BY <1>0, <1>8, <3>2, <3>3
            DEF Replan, AStar!Replan, AStar!ReplanGaussian, AStar!ReplanExternal, AStar!Silent
  <2> QED BY <1>0, <1>8, <2>1 DEF Replan, AStar!Replan, AStar!setup, AStar!sensed
<1>9. CASE PathArrives
  BY <1>0, <1>9 DEF PathArrives
<1>10. CASE Tick
  <2>1. maps' \in [AStar!MapSources -> [cells : SUBSET Cells, age : 0..(MapMaxAge + 1)]]
    <3>1. maps' = [s \in AStar!MapSources |->
                     [maps[s] EXCEPT !.age = AStar!Older(maps[s].age, MapMaxAge)]]
      BY <1>10 DEF Tick, AStar!AStarTick
    <3>2. ASSUME NEW s \in AStar!MapSources
          PROVE  [maps[s] EXCEPT !.age = AStar!Older(maps[s].age, MapMaxAge)]
                    \in [cells : SUBSET Cells, age : 0..(MapMaxAge + 1)]
      <4>1. maps[s] \in [cells : SUBSET Cells, age : 0..(MapMaxAge + 1)]
        BY <1>0
      <4>2. AStar!Older(maps[s].age, MapMaxAge) \in 0..(MapMaxAge + 1)
        BY <4>1 DEF AStar!Older
      <4> QED BY <4>1, <4>2
    <3> QED BY <3>1, <3>2
  <2>2. grid_age' \in 0..(GridMaxAge + 1) \cup {None} /\ route_age' \in 0..(RouteMaxAge + 1)
    BY <1>0, <1>10 DEF Tick, AStar!AStarTick, AStar!Older
  <2> QED BY <1>0, <1>10, <2>1, <2>2 DEF Tick, AStar!AStarTick, AStar!setup
<1>11. ASSUME NEW g \in Goals, SendGoal(g) PROVE UNCHANGED astar
  BY <1>11 DEF SendGoal
<1>12. GoalReachesGlobalPlanner \/ Solve \/ UNCHANGED vars => UNCHANGED astar
  BY DEF GoalReachesGlobalPlanner, Solve, vars
<1> QED BY <1>1, <1>2, <1>3, <1>4, <1>5, <1>6, <1>7, <1>8, <1>9, <1>10, <1>11, <1>12
        DEF Next, SensorsOfAStar, AStar!Sensors, AStar!SlamMapCb, AStar!DlioMapCb

\* And so do the steps of the operator, the global planner and the MPC node.
LEMMA TypesKept ==
    ASSUME TypeOK, GoalIsTold, MemoryInv', [Next]_vars
    PROVE  TypeOK'
<1> USE Constants
<1>1. AStar!AStarTypeOK'
  BY AStarTypesKept
<1>2. OperatorTypes'
  <2>1. Settled \in Nat /\ GridHorizon \in Nat
    BY DEF Settled, GridHorizon
  <2> USE <2>1 DEF OperatorTypes
  <2>2. OperatorTypes
    BY DEF TypeOK
  <2>3. UNCHANGED operator => OperatorTypes'
    BY <2>2 DEF operator
  <2>4. ASSUME NEW g \in Goals, SendGoal(g) PROVE OperatorTypes'
    BY <2>2, <2>4 DEF SendGoal
  <2>5. CASE GoalReachesAStar
    BY <2>2, <2>5 DEF GoalReachesAStar
  <2>6. CASE GoalReachesGlobalPlanner
    BY <2>2, <2>6 DEF GoalReachesGlobalPlanner
  <2>7. ASSUME NEW msg \in GridMessages, GridArrives(msg) PROVE OperatorTypes'
    BY <2>2, <2>7 DEF GridArrives
  <2>8. CASE Tick
    BY <2>2, <2>8 DEF Tick
  <2>9. RouteArrives \/ SensorsOfAStar \/ Replan \/ PathArrives \/ Solve \/ UNCHANGED vars
            => UNCHANGED operator
    BY DEF RouteArrives, SensorsOfAStar, Replan, PathArrives, Solve, vars
  <2> QED BY <2>3, <2>4, <2>5, <2>6, <2>7, <2>8, <2>9 DEF Next
<1>3. MPC!FollowerTypeOK'
  <2> USE DEF MPC!FollowerTypeOK, MPC!AgeCap
  <2>1. MPC!FollowerTypeOK
    BY DEF TypeOK
  <2>2. UNCHANGED mpc => MPC!FollowerTypeOK'
    BY <2>1 DEF mpc
  <2>3. CASE PathArrives
    BY <2>1, <2>2, <2>3 DEF PathArrives, MPC!Receive, TypeOK, AStar!AStarTypeOK, AStar!Messages
  <2>4. CASE Solve
    BY <2>1, <2>4 DEF Solve, MPC!Decide, MPC!Fresh
  <2>5. CASE Tick
    BY <2>1, <2>5 DEF Tick, MPC!Pass, MPC!Smaller
  <2>6. ASSUME NEW g \in Goals, SendGoal(g) PROVE UNCHANGED mpc
    BY <2>6 DEF SendGoal
  <2>7. ASSUME NEW msg \in GridMessages, GridArrives(msg) PROVE UNCHANGED mpc
    BY <2>7 DEF GridArrives
  <2>8. GoalReachesAStar \/ GoalReachesGlobalPlanner \/ RouteArrives \/ SensorsOfAStar
            \/ Replan \/ UNCHANGED vars => UNCHANGED mpc
    BY DEF GoalReachesAStar, GoalReachesGlobalPlanner, RouteArrives, SensorsOfAStar,
           Replan, vars
  <2> QED BY <2>2, <2>3, <2>4, <2>5, <2>6, <2>7, <2>8 DEF Next
<1> QED BY <1>1, <1>2, <1>3 DEF TypeOK, OperatorTypes

-----------------------------------------------------------------------------
(* The links, one step at a time                                           *)

LinksInv == GoalInv /\ GridInv

\* What the types say of the numbers in the links.
LEMMA Numbers ==
    ASSUME TypeOK
    PROVE  /\ {goal_age, grid_since, route_age, path_age, timer} \subseteq Nat
           /\ grid_age \in Nat \cup {None}
           /\ goal_age <= Settled + 1 /\ grid_since <= GridHorizon + 1
           /\ timer <= SolvePeriod
           /\ {goal, global_goal, target, route, path} \subseteq Goals \cup {None}
           /\ drive \in Goals \cup {None, Other}
           /\ sent # None => sent.for \in Goals
<1> USE Constants
<1>1. OperatorTypes
  BY DEF TypeOK, OperatorTypes
<1>2. MPC!FollowerTypeOK
  BY DEF TypeOK
<1>3. Settled \in Nat /\ GridHorizon \in Nat /\ MPC!AgeCap \in Nat
  BY DEF Settled, GridHorizon, MPC!AgeCap
<1>4. sent # None => sent.for \in Goals
  BY DEF TypeOK, AStar!AStarTypeOK, AStar!Messages
<1>5. /\ grid_age \in Nat \cup {None} /\ route_age \in Nat
      /\ {target, route} \subseteq Goals \cup {None}
  BY DEF TypeOK, AStar!AStarTypeOK
<1> QED BY <1>1, <1>2, <1>3, <1>4, <1>5 DEF OperatorTypes, MPC!FollowerTypeOK

\* A new goal is nobody's yet.
LEMMA SendGoalKeepsLinks ==
    ASSUME TypeOK, LinksInv, NEW g \in Goals, SendGoal(g)
    PROVE  LinksInv'
<1> USE Constants, Numbers
<1>1. GoalInv'
  BY DEF LinksInv, SendGoal, GoalInv, GoalIsTold, astar, mpc
<1>2. GridInv'
  BY DEF LinksInv, SendGoal, GridInv, astar, mpc
<1> QED BY <1>1, <1>2 DEF LinksInv

\* The A* node takes the goal.
LEMMA AStarHearsKeepsLinks ==
    ASSUME TypeOK, LinksInv, GoalReachesAStar
    PROVE  LinksInv'
<1> USE Constants, Numbers
<1>1. /\ to_astar /\ ~to_astar' /\ target' = goal
      /\ UNCHANGED <<goal, to_global, global_goal, goal_age, grid_since, mpc>>
      /\ UNCHANGED <<backend, grid_age, route, route_age, sent>>
  BY DEF GoalReachesAStar, AStar!GoalCb, AStar!setup, AStar!sensed
<1>2. GoalInv'
  BY <1>1 DEF LinksInv, GoalInv, GoalIsTold, mpc
<1>3. GridInv'
  BY <1>1 DEF LinksInv, GridInv, mpc
<1> QED BY <1>2, <1>3 DEF LinksInv

\* The global planner takes the goal.
LEMMA PlannerHearsKeepsLinks ==
    ASSUME TypeOK, LinksInv, GoalReachesGlobalPlanner
    PROVE  LinksInv'
<1> USE Constants, Numbers
<1>1. GoalInv'
  BY DEF LinksInv, GoalReachesGlobalPlanner, GoalInv, GoalIsTold, astar, mpc
<1>2. GridInv'
  BY DEF LinksInv, GoalReachesGlobalPlanner, GridInv, astar, mpc
<1> QED BY <1>1, <1>2 DEF LinksInv

\* A route to another goal comes only while the goal is still on its way.
LEMMA RouteKeepsLinks ==
    ASSUME TypeOK, LinksInv, RouteArrives
    PROVE  LinksInv'
<1> USE Constants, Numbers
<1>1. /\ route' = global_goal /\ global_goal # None /\ route_age' = 0
      /\ UNCHANGED <<operator, mpc, backend, target, grid_age, sent>>
  BY DEF RouteArrives, AStar!GlobalPathCb, AStar!setup, AStar!sensed
<1>2. goal # None /\ global_goal # goal => goal_age = 0
  BY DEF LinksInv, GoalInv, GoalIsTold
<1>3. GoalInv'
  BY <1>1, <1>2 DEF LinksInv, GoalInv, GoalIsTold, operator, mpc
<1>4. GridInv'
  BY <1>1 DEF LinksInv, GridInv, operator, mpc
<1> QED BY <1>3, <1>4 DEF LinksInv

\* Sensors change none of the links.
LEMMA SensorsKeepLinks ==
    ASSUME TypeOK, LinksInv, SensorsOfAStar
    PROVE  LinksInv'
<1>1. UNCHANGED <<operator, mpc, backend, target, grid_age, route, route_age, sent>>
  BY DEF SensorsOfAStar, AStar!Sensors, AStar!PoseCb, AStar!LidarCb, AStar!SlamMapCb,
         AStar!DlioMapCb, AStar!CacheMap, AStar!setup, AStar!sensed
<1> QED BY <1>1 DEF LinksInv, GoalInv, GoalIsTold, GridInv, operator, mpc

\* A readable grid is a fresh one; another changes nothing.
LEMMA GridKeepsLinks ==
    ASSUME TypeOK, LinksInv, NEW msg \in GridMessages, GridArrives(msg)
    PROVE  LinksInv'
<1> USE Constants, Numbers
<1>1. /\ UNCHANGED <<goal, to_astar, to_global, global_goal, goal_age, mpc>>
      /\ UNCHANGED <<backend, target, route, route_age, sent>>
      /\ \/ grid_since' = 0 /\ grid_age' = 0
         \/ UNCHANGED <<grid_since, grid_age>>
  BY DEF GridArrives, AStar!ExternalCostmapCb, AStar!setup, AStar!sensed
<1>2. GoalInv'
  BY <1>1 DEF LinksInv, GoalInv, GoalIsTold, mpc
<1>3. GridInv'
  <2>1. CASE UNCHANGED <<grid_since, grid_age>>
    BY <1>1, <2>1 DEF LinksInv, GridInv, mpc
  <2>2. CASE grid_since' = 0 /\ grid_age' = 0
    BY <1>1, <2>2 DEF LinksInv, GridInv, mpc
  <2> QED BY <1>1, <2>1, <2>2
<1> QED BY <1>2, <1>3 DEF LinksInv

\* A path for another goal comes of a recent route, or before the A* node has heard.
LEMMA ReplanKeepsLinks ==
    ASSUME TypeOK, LinksInv, Replan
    PROVE  LinksInv'
<1> USE Constants, Numbers
<1>1. UNCHANGED <<operator, mpc, backend, target, grid_age, route, route_age>>
  BY DEF Replan, AStar!Replan, AStar!setup, AStar!sensed
<1>2. ASSUME sent' # None
      PROVE  /\ backend = "gaussian" => sent'.for = AStar!CarrotTarget
             /\ backend # "gaussian" => sent'.for = target
             /\ backend = "external_grid" => ~AStar!StaleGrid /\ grid_age # None
  BY <1>2 DEF Replan, AStar!Replan, AStar!ReplanGaussian, AStar!ReplanExternal,
              AStar!PublishPath, AStar!Silent, AStar!Blocked
<1>3. GoalInv'
  <2>1. goal # None /\ target # goal => goal_age <= RouteMaxAge
    BY DEF LinksInv, GoalInv, GoalIsTold
  <2>2. goal # None /\ AStar!CarrotTarget # goal => goal_age <= RouteMaxAge
    BY <2>1 DEF LinksInv, GoalInv, AStar!CarrotTarget
  <2>3. goal # None /\ sent' # None => sent'.for = goal \/ goal_age <= RouteMaxAge
    BY <1>2, <2>1, <2>2
  <2> QED BY <1>1, <2>3 DEF LinksInv, GoalInv, GoalIsTold, operator, mpc
<1>4. GridInv'
  <2>1. backend = "external_grid" /\ sent' # None => grid_since <= GridMaxAge
    BY <1>2 DEF LinksInv, GridInv, AStar!StaleGrid
  <2> QED BY <1>1, <2>1 DEF LinksInv, GridInv, operator, mpc
<1> QED BY <1>3, <1>4 DEF LinksInv

\* The path that arrives is the one that was sent.
LEMMA PathKeepsLinks ==
    ASSUME TypeOK, LinksInv, PathArrives
    PROVE  LinksInv'
<1> USE Constants, Numbers
<1>1. /\ sent # None /\ sent' = None
      /\ UNCHANGED <<operator, backend, target, grid_age, route, route_age, timer, drive>>
      /\ \/ path' = sent.for /\ path_age' = 0
         \/ UNCHANGED <<path, path_age>>
  BY DEF PathArrives, MPC!Receive, mpc
<1>2. GoalInv'
  BY <1>1 DEF LinksInv, GoalInv, GoalIsTold, operator
<1>3. GridInv'
  BY <1>1 DEF LinksInv, GridInv, operator
<1> QED BY <1>2, <1>3 DEF LinksInv

\* The MPC node decides on the path it has, if that is recent.
LEMMA SolveKeepsLinks ==
    ASSUME TypeOK, LinksInv, Solve
    PROVE  LinksInv'
<1> USE Constants, Numbers
<1>1. /\ timer' = 0 /\ UNCHANGED <<operator, astar, path, path_age>>
      /\ drive' # None => path # None /\ path_age <= PathTimeout /\ drive' \in {path, Other}
  BY DEF Solve, MPC!Decide, MPC!Fresh
<1>2. GoalInv'
  BY <1>1 DEF LinksInv, GoalInv, GoalIsTold, operator, astar
<1>3. GridInv'
  BY <1>1 DEF LinksInv, GridInv, operator, astar
<1> QED BY <1>2, <1>3 DEF LinksInv

\* A tick ages every link alike, or ends it; no message is under way then.
LEMMA TickKeepsLinks ==
    ASSUME TypeOK, LinksInv, Tick
    PROVE  LinksInv'
<1> USE Constants, Numbers
<1>1. /\ sent = None /\ sent' = None /\ timer' = timer + 1
      /\ UNCHANGED <<goal, to_astar, to_global, global_goal, backend, target, route,
                     path, drive>>
  BY DEF Tick, AStar!AStarTick, AStar!setup, MPC!Pass
<1>2. /\ goal_age' \in {goal_age, goal_age + 1}
      /\ to_astar \/ to_global => goal_age' = goal_age
      /\ grid_since' \in {grid_since, grid_since + 1}
  BY DEF Tick
<1>3. /\ route_age' <= RouteMaxAge => route_age' = route_age + 1
      /\ path_age' <= PathTimeout => path_age' = path_age + 1
      /\ grid_age' # None /\ grid_age' <= GridMaxAge
             => grid_age # None /\ grid_age' = grid_age + 1
  <2>1. route_age' <= RouteMaxAge => route_age' = route_age + 1
    BY DEF Tick, AStar!AStarTick, AStar!Older
  <2>2. path_age' <= PathTimeout => path_age' = path_age + 1
    BY DEF Tick, MPC!Pass, MPC!Smaller, MPC!AgeCap
  <2>3. grid_age' # None /\ grid_age' <= GridMaxAge
            => grid_age # None /\ grid_age' = grid_age + 1
    BY DEF Tick, AStar!AStarTick, AStar!Older
  <2> QED BY <2>1, <2>2, <2>3
<1>4. {route_age', path_age'} \subseteq Nat /\ grid_age' \in Nat \cup {None}
  BY DEF Tick, AStar!AStarTick, AStar!Older, MPC!Pass, MPC!Smaller, MPC!AgeCap
<1>5. GoalInv'
  <2>1. GoalIsTold'
    BY <1>1, <1>2 DEF LinksInv, GoalInv, GoalIsTold
  <2>2. goal # None /\ route \notin {None, goal} /\ route_age' <= RouteMaxAge
            => goal_age' <= route_age'
    BY <1>2, <1>3, <1>4 DEF LinksInv, GoalInv
  <2>3. goal # None /\ path \notin {None, goal} /\ path_age' <= PathTimeout
            => goal_age' <= RouteMaxAge + path_age'
    BY <1>2, <1>3, <1>4 DEF LinksInv, GoalInv
  <2>4. goal # None /\ drive \in Goals \ {goal}
            => goal_age' <= RouteMaxAge + PathTimeout + timer'
    BY <1>1, <1>2 DEF LinksInv, GoalInv
  <2> QED BY <1>1, <2>1, <2>2, <2>3, <2>4 DEF GoalInv
<1>6. GridInv'
  <2>1. SUFFICES ASSUME backend = "external_grid" PROVE GridInv'
    BY <1>1 DEF GridInv
  <2>2. grid_age' # None /\ grid_age' <= GridMaxAge => grid_since' <= grid_age'
    BY <1>2, <1>3, <1>4, <2>1 DEF LinksInv, GridInv
  <2>3. path # None /\ path_age' <= PathTimeout => grid_since' <= GridMaxAge + path_age'
    BY <1>2, <1>3, <1>4, <2>1 DEF LinksInv, GridInv
  <2>4. drive # None => grid_since' <= GridMaxAge + PathTimeout + timer'
    BY <1>1, <1>2, <2>1 DEF LinksInv, GridInv
  <2> QED BY <1>1, <2>2, <2>3, <2>4 DEF GridInv
<1> QED BY <1>5, <1>6 DEF LinksInv

-----------------------------------------------------------------------------
(* What a reader should know of                                            *)

\* Types and links hold in every state.
THEOREM LoopInvariance == Spec => [](TypeOK /\ LinksInv)
<1>1. Init => TypeOK /\ LinksInv
  <2>1. Init => GoalInv
    BY Constants DEF Init, GoalInv, GoalIsTold
  <2>2. Init => GridInv
    BY DEF Init, GridInv, AStar!AStarInit, MPC!FollowerInit
  <2> QED BY <2>1, <2>2, TypesStart DEF LinksInv
<1>2. TypeOK /\ LinksInv /\ MemoryInv' /\ [Next]_vars => (TypeOK /\ LinksInv)'
  <2> SUFFICES ASSUME TypeOK, LinksInv, MemoryInv', [Next]_vars
               PROVE  TypeOK' /\ LinksInv'
    OBVIOUS
  <2>1. TypeOK'
    BY TypesKept DEF LinksInv, GoalInv
  <2>2. LinksInv'
    <3>1. UNCHANGED vars => LinksInv'
      BY DEF LinksInv, GoalInv, GoalIsTold, GridInv, vars, operator, astar, mpc
    <3> QED BY <3>1, SendGoalKeepsLinks, AStarHearsKeepsLinks, PlannerHearsKeepsLinks,
               RouteKeepsLinks, SensorsKeepLinks, GridKeepsLinks, ReplanKeepsLinks,
               PathKeepsLinks, SolveKeepsLinks, TickKeepsLinks DEF Next
  <2> QED BY <2>1, <2>2
<1> QED BY <1>1, <1>2, MemoryIsKept, PTL DEF Spec

\* Every variable of the loop keeps its type.
THEOREM LoopTypes == Spec => []TypeOK
BY LoopInvariance, PTL

\* A new goal is followed after the three ages that add up, at the latest.
THEOREM FollowsCurrentGoal == Spec => []DrivesForCurrentGoal
<1>1. TypeOK /\ LinksInv => DrivesForCurrentGoal
  <2> SUFFICES ASSUME TypeOK, LinksInv, goal # None, goal_age > Settled, drive \in Goals
               PROVE  drive = goal
    BY DEF DrivesForCurrentGoal
  <2>1. goal_age \in Nat /\ timer \in Nat /\ timer <= SolvePeriod
    BY Numbers
  <2> QED BY <2>1, Constants DEF LinksInv, GoalInv, Settled
<1> QED BY <1>1, LoopInvariance, PTL

\* On an external costmap the robot does not drive for longer than that after
\* the last readable grid.
THEOREM FollowsFreshGrid == Spec => []DrivesOnFreshGrid
<1>1. TypeOK /\ LinksInv => DrivesOnFreshGrid
  <2> SUFFICES ASSUME TypeOK, LinksInv, backend = "external_grid", drive # None
               PROVE  grid_since <= GridHorizon
    BY DEF DrivesOnFreshGrid
  <2>1. grid_since \in Nat /\ timer \in Nat /\ timer <= SolvePeriod
    BY Numbers
  <2> QED BY <2>1, Constants DEF LinksInv, GridInv, GridHorizon
<1> QED BY <1>1, LoopInvariance, PTL

\* A path crosses no cell that was hit within the decay time, unless newer hits
\* fill the memory.
THEOREM PathsAvoidMemory == Spec => PathsAvoidRecentHits
<1>1. TypeOK /\ MemoryInv /\ [Next]_vars =>
        (backend = "gaussian" /\ sent = None /\ sent' # None =>
            \A c \in sent'.through :
                seen[c] <= DecaySec =>
                    Cardinality(kept) = MaxCells /\ \A d \in kept : seen[d] <= seen[c])
  <2> SUFFICES ASSUME TypeOK, MemoryInv, [Next]_vars, backend = "gaussian",
                      sent = None, sent' # None,
                      NEW c \in sent'.through, seen[c] <= DecaySec
               PROVE  Cardinality(kept) = MaxCells /\ \A d \in kept : seen[d] <= seen[c]
    OBVIOUS
  <2>1. Replan
    <3>1. ASSUME NEW g \in Goals PROVE ~SendGoal(g)
      BY DEF SendGoal, astar
    <3>2. ~GoalReachesAStar /\ ~GoalReachesGlobalPlanner /\ ~RouteArrives
      BY DEF GoalReachesAStar, AStar!GoalCb, GoalReachesGlobalPlanner, RouteArrives,
             AStar!GlobalPathCb, astar
    <3>3. ~SensorsOfAStar
      BY DEF SensorsOfAStar, AStar!Sensors, AStar!PoseCb, AStar!LidarCb, AStar!SlamMapCb,
             AStar!DlioMapCb, AStar!CacheMap
    <3>4. ASSUME NEW msg \in GridMessages PROVE ~GridArrives(msg)
      BY DEF GridArrives, AStar!ExternalCostmapCb
    <3>5. ~PathArrives /\ ~Solve /\ ~Tick
      BY DEF PathArrives, Solve, Tick, AStar!AStarTick, astar
    <3>6. ~UNCHANGED vars
      BY DEF vars, astar
    <3> QED BY <3>1, <3>2, <3>3, <3>4, <3>5, <3>6 DEF Next
  <2>2. sent'.through \subseteq Cells \ kept
    BY <2>1 DEF Replan, AStar!Replan, AStar!ReplanGaussian, AStar!ReplanExternal,
                AStar!PublishPath, AStar!DirectObstacles
  <2> QED BY <2>2, SameCount DEF MemoryInv, Memory!MapInv, Memory!NewestKept
<1>2. TypeOK /\ MemoryInv /\ [Next]_vars => [backend = "gaussian" /\ sent = None /\ sent' # None =>
            \A c \in sent'.through :
                seen[c] <= DecaySec =>
                    Cardinality(kept) = MaxCells /\ \A d \in kept : seen[d] <= seen[c]]_vars
  BY <1>1
<1> QED BY <1>2, LoopTypes, MemoryIsKept, PTL DEF Spec, PathsAvoidRecentHits
=============================================================================
