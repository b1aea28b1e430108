------------------------- MODULE GroundSegmentation -------------------------
(***************************************************************************)
(* What g1_local_map/ground_segmentation.py keeps of a cloud: everything   *)
(* that stands more than ground_band above the lowest point around it.     *)
(*                                                                         *)
(* A point is a voxel [x, h]: its column, one of the two horizontal axes,  *)
(* and its height, counted in voxels along "up".  A tile is a ground cell. *)
(***************************************************************************)
EXTENDS Integers, FiniteSets, FiniteSetsExt

CONSTANTS
    TileWidth,   \* columns in a ground tile (ground_cell / voxel_size)
    MinPts,      \* ground_min_pts
    MinTotal,    \* ground_min_total
    GroundBand,  \* ground_band
    MaxHeight,   \* max_height
    Foot         \* robot_z - leg_offset

\* What is assumed of the constants.
GroundConstants ==
    /\ TileWidth \in Nat \ {0} /\ MinPts \in Nat \ {0} /\ MinTotal \in Nat
    /\ GroundBand \in Nat /\ MaxHeight \in Nat /\ Foot \in Int

Tile(v) == v.x \div TileWidth
InTile(points, t) == {v \in points : Tile(v) = t}

\* A lone low point does not define ground.
Populated(points, t) == Cardinality(InTile(points, t)) >= MinPts

\* A plausible slip: no pooling, a tile knows only its own points.
OwnPooled(points, t) ==
    {v.h : v \in {w \in points : Tile(w) = t /\ Populated(points, t)}}

\* The heights a tile and its neighbours offer as ground.
Pooled(points, t) ==
    {v.h : v \in {w \in points : Tile(w) \in (t - 1)..(t + 1) /\ Populated(points, Tile(w))}}

\* The lowest counts; where there is none, the foot of the robot.
GroundAt(heights) == IF heights = {} THEN Foot ELSE Min(heights)

Above(points, v) == v.h - GroundAt(Pooled(points, Tile(v)))

\* A plausible slip: what lies within the band is kept as well.
BandlessSegmentGround(points) ==
    IF Cardinality(points) < MinTotal
    THEN {v \in points : v.h - Foot <= MaxHeight}
    ELSE {v \in points : Above(points, v) \in 0..MaxHeight}

\* segment_ground: too few points for minima are passed through.
SegmentGround(points) ==
    IF Cardinality(points) < MinTotal
    THEN {v \in points : v.h - Foot <= MaxHeight}
    ELSE {v \in points : Above(points, v) \in (GroundBand + 1)..MaxHeight}
=============================================================================
