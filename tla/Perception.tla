----------------------------- MODULE Perception -----------------------------
(***************************************************************************)
(* From the lidar to the map of the global planner: the local map node     *)
(* (LocalVoxelMap) and the global planner (GlobalPlannerNode) in a world   *)
(* of floor and obstacles that come and go.                                *)
(*                                                                         *)
(* An obstacle hides the floor of its column.  A scan shows the world, or  *)
(* is empty.  A cloud on its way to the planners may be lost; the global   *)
(* one and the A* node with its local grid get it both, or neither: each   *)
(* keeps the last one with a point in it.                                  *)
(***************************************************************************)
EXTENDS Integers, FiniteSets

CONSTANTS
    Columns, Heights, FloorHeight, ObstacleHeight, Stops,    \* the world
    Watched,                                          \* a column
    TileWidth, MinPts, MinTotal, GroundBand, MaxHeight, Foot, \* GroundSegmentation
    HalfWidth, MinRange, ZBelow, ZAbove, Persistence,
    FirstBeats, BeatPeriod,                           \* LocalVoxelMap
    GlobalHalfWidth, Scale, DecayNum, DecayDen, HitThreshold, HitCap,
    RobotRadius, FreeRadius,                          \* GlobalCostmap
    Goals, MaxRange, GoalRadius,                      \* GlobalPlannerNode
    GridHalfWidth, GridRadius,                        \* GaussianGridMap
    None

VARIABLES
    up, robot, last_seen, beat,                           \* of the local map
    origin, occ, free, pose, global_goal, obs, route,     \* of the global planner
    world,    \* columns with an obstacle
    counted   \* hits counted in Watched since its count was last zero, up to Enough

LocalMap == INSTANCE LocalVoxelMap
Global   == INSTANCE GlobalPlannerNode WITH Cells <- Columns, Unset <- None
Local    == INSTANCE GaussianGridMap WITH Cells <- Columns

ASSUME PerceptionAssumption ==
    /\ LocalMap!LocalMapConstants /\ Global!GlobalPlannerConstants
    /\ Local!GridMapConstants
    /\ Watched \in Columns /\ Stops \subseteq Int
    /\ FloorHeight \in Heights /\ ObstacleHeight \in Heights
    /\ IsFiniteSet(Columns) /\ IsFiniteSet(Heights)

\* The obstacles that are spoken of: in the band of the local map, taller than
\* what counts as ground, and the robot stands on the floor.
ASSUME WorldAssumption ==
    /\ ObstacleHeight - FloorHeight \in (GroundBand + 1)..MaxHeight
    /\ {FloorHeight, ObstacleHeight} \subseteq ZBelow..ZAbove
    /\ ObstacleHeight - Foot <= MaxHeight /\ FloorHeight - Foot <= GroundBand

\* Counts fade, and one hit is not enough: at the defaults 0.997 and 2.0.
ASSUME DecayAssumption == DecayNum < DecayDen /\ 2 * Scale <= HitThreshold

local == <<up, robot, last_seen, beat>>
global == <<origin, occ, free, pose, global_goal, obs, route>>
vars   == <<local, global, world, counted>>

\* The hits in a row that it takes at least to reach the threshold.
Enough == 3

TypeOK ==
    /\ LocalMap!LocalTypeOK
    /\ Global!GlobalTypeOK
    /\ world \subseteq Columns
    /\ counted \in 0..Enough

Init ==
    /\ LocalMap!LocalInit
    /\ Global!GlobalInit
    /\ world \in SUBSET Columns
    /\ counted = 0

\* Obstacles appear and vanish.
WorldChanges ==
    /\ \E c \in Columns : world' = (world \ {c}) \cup ({c} \ world)
    /\ UNCHANGED <<local, global, counted>>

Odometry(x) ==
    /\ LocalMap!OnOdom(x) \/ (~up /\ UNCHANGED local)
    /\ Global!OdomCb(x)
    /\ UNCHANGED <<world, counted>>

Scenery ==
    {[x |-> c, h |-> ObstacleHeight] : c \in world}
        \cup {[x |-> c, h |-> FloorHeight] : c \in Columns \ world}

\* A scan; what the local map makes of it reaches the global planner, or not.
Scan(points) ==
    /\ LocalMap!OnCloud(points)
    /\ \/ up' /\ \E raw \in {LocalMap!Centers(last_seen')} : Global!ObsCb(LocalMap!ObstaclesOf(raw))
       \/ UNCHANGED global
    /\ UNCHANGED <<world, counted>>

\* A scan that shows the world and is not lost afterwards.
GoodScan ==
    /\ LocalMap!OnCloud(Scenery)
    /\ up' /\ \E raw \in {LocalMap!Centers(last_seen')} : Global!ObsCb(LocalMap!ObstaclesOf(raw))
    /\ UNCHANGED <<world, counted>>

SendGoal(g) == Global!GoalCb(g) /\ UNCHANGED <<local, world, counted>>

Replan ==
    /\ Global!ReplanCb
    /\ counted' = IF occ'[Watched] = 0 THEN 0
                  ELSE IF counted < Enough /\ \E d \in Global!InRange : Global!Index(d, pose) = Watched
                       THEN counted + 1
                  ELSE counted
    /\ UNCHANGED <<local, world>>

Tick == LocalMap!VoxelsAge /\ UNCHANGED <<global, world, counted>>

Next ==
    \/ WorldChanges
    \/ \E x \in Stops : Odometry(x)
    \/ \E points \in {Scenery, {}} : Scan(points)
    \/ \E g \in Goals : SendGoal(g)
    \/ Replan
    \/ Tick

Spec == Init /\ [][Next]_vars

\* Scans keep coming, and some of the clouds get through; the replan timer is
\* served; time passes.
FairSpec == Spec /\ SF_vars(GoodScan) /\ WF_vars(Replan) /\ WF_vars(Tick)

-----------------------------------------------------------------------------
(* Properties                                                              *)

\* The watched cell does not block before it was counted three times since its
\* count was zero: counts decay before they grow, so that two hits in a row stay
\* short of the threshold they are meant to reach.  (The three may be one cloud.)
\* global_costmap.py 94-122, 150.
BlocksAfterEnoughCounts == Watched \in Global!Occupied => counted = Enough

\* The cloud shows the column.
Shown(c) == up /\ robot # None /\ LocalMap!Gap(c, robot) \in MinRange..HalfWidth

\* So many columns of the tile are shown that its ground is known.
GroundKnown(d) ==
    Cardinality({e \in Columns : Shown(e) /\ e \div TileWidth = d \div TileWidth}) >= MinPts

\* A scan that gets through brings every obstacle that has floor beside it to the
\* planners, also when the floor lies in the tile next to that of the obstacle.
\* local_voxel_map_node.py 196-254, ground_segmentation.py 116-150.
ShownObstaclesArePublished ==
    [][GoodScan =>
        \A c \in world, d \in Columns \ world :
            Shown(c) /\ Shown(d) /\ GroundKnown(d) /\ LocalMap!Gap(c, d) <= TileWidth
                => obs' # None /\ c \in obs']_vars

\* Nothing but an obstacle gets to the planners, seen there no longer ago than
\* the map may keep it - unless the whole map is so sparse that it is published
\* as it is.  ground_segmentation.py 108-114, 131-150.
OnlyObstaclesArePublished ==
    [][obs' # obs /\ Cardinality(LocalMap!Centers(last_seen')) >= MinTotal
         => \A c \in obs' : last_seen'[[x |-> c, h |-> ObstacleHeight]] <= Persistence]_vars

\* What the window holds was seen in the world, and the watched count is no
\* higher than the hits since it was last zero make it.
PerceptionInv ==
    /\ TypeOK
    /\ \A v \in LocalMap!Centers(last_seen) : v.h \in {FloorHeight, ObstacleHeight}
    /\ counted = 0 => occ[Watched] = 0
    /\ counted = 1 => occ[Watched] <= Scale
    /\ counted = 2 => occ[Watched] <= Global!Decayed(Scale) + Scale

\* The local map sees the column, and the global map has room for it.
InView(c) ==
    /\ up /\ robot # None /\ global_goal # None
    /\ LocalMap!Gap(c, robot) <= HalfWidth /\ Global!InGrid(c, pose)

FloorBeside(c) == \E d \in Columns \ world : InView(d) /\ LocalMap!Gap(c, d) <= TileWidth

\* What the A* node would plan around, from the cloud it has.
LocalBlocks == IF obs = None \/ pose = None THEN {} ELSE Local!HardBlocked(obs, pose)

\* An obstacle that stays where it is, in view and with floor beside it, blocks
\* the map of the global planner in the end and for good, whatever is lost on
\* the way, unless the robot has stood there; and the local grid, if it is in
\* the window of that.  local_voxel_map_node.py 196-254, ground_segmentation.py
\* 131-150, global_planner_node.py 133-158, gaussian_grid_map.py 137-292.
StandingObstacleBlocks ==
    \A c \in Columns :
        <>[](InView(c) /\ c \in world /\ FloorBeside(c))
            => <>[](/\ c \in Global!Lethal \cup free
                    /\ c \in LocalBlocks \cup (Columns \ Local!Window(pose)))

\* "so stale/removed obstacles fade over time": an obstacle that is gone for good
\* stops blocking, as long as the local map still finds another one (the planner
\* ignores a cloud with nothing in it).  global_costmap.py 104-106,
\* global_planner_node.py 139.
RemovedObstacleFades ==
    \A c, d \in Columns :
        <>[](/\ c \notin world /\ InView(c)
             /\ d \in world /\ InView(d) /\ FloorBeside(d))
            => <>[](c \notin Global!Occupied)
=============================================================================
