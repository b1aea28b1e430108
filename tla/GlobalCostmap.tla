---------------------------- MODULE GlobalCostmap ----------------------------
(***************************************************************************)
(* The map of the global planner (a_star_mpc_planner/global_costmap.py):   *)
(* per cell a count of hits that decays and is capped, and whether the     *)
(* robot has ever stood there.  Cells are the columns of LocalVoxelMap;    *)
(* the second horizontal axis is like the first.                           *)
(*                                                                         *)
(* The factor decay is DecayNum / DecayDen; counts are rounded down to     *)
(* multiples of 1 / Scale.                                                 *)
(***************************************************************************)
EXTENDS Integers

CONSTANTS
    Cells,               \* a set of integers
    GlobalHalfWidth,     \* half_width, in cells
    Scale,               \* a count of one hit
    DecayNum, DecayDen,  \* decay
    HitThreshold,        \* hit_threshold, in units of 1 / Scale
    HitCap,              \* hit_cap, in units of 1 / Scale
    RobotRadius,         \* robot_radius, in cells
    FreeRadius,          \* free_radius, in cells
    Unset                \* the origin before set_origin

\* What is assumed of the constants.
CostmapConstants ==
    /\ Cells \subseteq Int
    /\ GlobalHalfWidth \in Nat
    /\ Scale \in Nat \ {0} /\ DecayDen \in Nat \ {0} /\ DecayNum \in 0..DecayDen
    /\ HitThreshold \in Nat \ {0} /\ HitCap \in Nat
    /\ RobotRadius \in Nat /\ FreeRadius \in Nat
    /\ Unset \notin Int

VARIABLES
    origin,   \* where the robot was when the origin was fixed
    occ,      \* _occ
    free      \* _free

costmap == <<origin, occ, free>>

CostmapTypeOK ==
    /\ origin \in Int \cup {Unset}
    /\ occ \in [Cells -> 0..HitCap]
    /\ free \subseteq Cells

CostmapInit == origin = Unset /\ occ = [c \in Cells |-> 0] /\ free = {}

Far(a, b) == IF a < b THEN b - a ELSE a - b

\* set_origin: fixed by the first pose, once and for all.
Origin(at) == IF origin = Unset THEN at ELSE origin

\* The cells of the grid; the world beyond it is not mapped.
InGrid(c, at) == c - Origin(at) >= 0 - GlobalHalfWidth /\ c - Origin(at) < GlobalHalfWidth

\* The cell a point is counted in: the conversion to an index rounds towards zero,
\* so that the first cell of the grid also stands for the one before it.
Index(c, at) == IF c + 1 = Origin(at) - GlobalHalfWidth THEN c + 1 ELSE c

\* The footprint of the robot, at least one cell wide.
Disk(at) == {c \in Cells : Far(c, at) <= IF FreeRadius = 0 THEN 1 ELSE FreeRadius}

Decayed(n) == (n * DecayNum) \div DecayDen
Capped(n) == IF n < HitCap THEN n ELSE HitCap

\* A plausible slip: the cap is not applied.
UncappedCount(n, hit) == Decayed(n) + IF hit THEN Scale ELSE 0

\* A plausible slip: decay only where there is something to see.
LazyCount(n, hit) == IF hit THEN Capped(Decayed(n) + Scale) ELSE n

\* A plausible slip: a cell that is hit does not decay.
KeptCount(n, hit) == IF hit THEN Capped(n + Scale) ELSE Decayed(n)

\* First decay, then one hit, whatever the number of points in the cell.
Count(n, hit) == IF hit THEN Capped(Decayed(n) + Scale) ELSE Decayed(n)

\* update(): one cloud, and the robot where it stands.
UpdateCostmap(hits, at) ==
    /\ origin' = Origin(at)
    /\ occ' = [c \in Cells |-> Count(occ[c], InGrid(c, at) /\ \E d \in hits : Index(d, at) = c)]
    /\ free' = free \cup {c \in Disk(at) : InGrid(c, at)}

\* build(): occupied, and lethal within robot_radius; where the robot has been
\* stays traversable.
Occupied == {c \in Cells \ free : occ[c] >= HitThreshold}
Lethal == {c \in Cells \ free : \E o \in Occupied : Far(c, o) <= RobotRadius}
=============================================================================
