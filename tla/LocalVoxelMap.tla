---------------------------- MODULE LocalVoxelMap ----------------------------
(***************************************************************************)
(* The local map node (g1_local_map/local_voxel_map_node.py): a rolling    *)
(* window of voxels around the robot, each kept for Persistence ticks      *)
(* after its last hit; the ground is removed from what the window holds,   *)
(* and the rest is published for every scan.                               *)
(*                                                                         *)
(* A voxel whose age is OldVoxel is one the dictionary does not hold, or   *)
(* would evict before it is next read.                                     *)
(***************************************************************************)
EXTENDS GroundSegmentation

CONSTANTS
    Columns,      \* columns of the world, a set of integers
    Heights,      \* heights of voxels
    HalfWidth,    \* half_width, in columns
    MinRange,     \* min_range, in columns
    ZBelow, ZAbove, \* the vertical crop: heights around the sensor
    Persistence,  \* persistence_s, in ticks
    FirstBeats,   \* scans that are all logged (5)
    BeatPeriod,   \* then one in so many is (10)
    None          \* Python's None

\* What is assumed of the constants.
LocalMapConstants ==
    /\ GroundConstants
    /\ Columns \subseteq Int /\ Heights \subseteq Int
    /\ HalfWidth \in Nat /\ MinRange \in Nat /\ ZBelow \in Int /\ ZAbove \in Int
    /\ Persistence \in Nat /\ FirstBeats \in Nat /\ BeatPeriod \in Nat \ {0}
    /\ None \notin Int

Voxels == [x : Columns, h : Heights]
OldVoxel == Persistence + 1

VARIABLES
    up,         \* is the process running
    robot,      \* column of robot_xyz; None while have_odom is False
    last_seen,  \* ticks since the last hit of each voxel, up to OldVoxel
    beat        \* _tick, folded so that Logged keeps its meaning

local_vars == <<up, robot, last_seen, beat>>

LocalTypeOK ==
    /\ up \in BOOLEAN
    /\ robot \in Int \cup {None}
    /\ last_seen \in [Voxels -> 0..OldVoxel]
    /\ beat \in 0..(FirstBeats + BeatPeriod)

LocalInit ==
    /\ up = TRUE /\ robot = None /\ beat = 0
    /\ last_seen = [v \in Voxels |-> OldVoxel]

Gap(a, b) == IF a < b THEN b - a ELSE a - b

\* The heartbeat: the first scans, then one in BeatPeriod.
NextBeat == IF beat = FirstBeats + BeatPeriod THEN FirstBeats + 1 ELSE beat + 1
Logged(n) == n <= FirstBeats \/ n % BeatPeriod = 0

\* 1. The crop: box, vertical band, not the robot itself.
Cropped(points) ==
    {v \in points : /\ Gap(v.x, robot) <= HalfWidth /\ Gap(v.x, robot) >= MinRange
                    /\ v.h \in ZBelow..ZAbove}

\* VoxelAccumulator.update and prune: what left the window is dropped; what is
\* too old has the age OldVoxel already.
Accumulated(hits) ==
    [v \in Voxels |-> IF Gap(v.x, robot) > HalfWidth + 1 THEN OldVoxel
                      ELSE IF v \in hits THEN 0
                      ELSE last_seen[v]]

Centers(ages) == {v \in Voxels : ages[v] <= Persistence}

\* The heartbeat line reads a key of seg_info that is missing while there is no
\* voxel at all: the callback raises, and spin() ends the process.
Raises(raw) == raw = {} /\ Logged(NextBeat)

OnOdom(x) == up /\ robot' = x /\ UNCHANGED <<up, last_seen, beat>>

\* _on_cloud with a position: accumulate, log, publish.  What it publishes, if
\* it gets that far, is ObstaclesOf.
OnCloud(points) ==
    /\ up /\ robot # None
    /\ \E hits \in {Cropped(points)} : last_seen' = Accumulated(hits)
    /\ beat' = NextBeat
    /\ up' = ~Raises(Centers(last_seen'))
    /\ UNCHANGED robot

\* The obstacle cloud, as far as its readers look: columns.
ObstaclesOf(raw) == {v.x : v \in SegmentGround(raw)}

VoxelsAge ==
    /\ last_seen' = [v \in Voxels |-> IF last_seen[v] < OldVoxel THEN last_seen[v] + 1
                                      ELSE OldVoxel]
    /\ UNCHANGED <<up, robot, beat>>
=============================================================================
