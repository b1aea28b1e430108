---------------------------- MODULE PlannerGrid ----------------------------
(***************************************************************************)
(* The grid arithmetic of the A* planner (a_star_planner.py): which cells  *)
(* are traversable, what a move costs, the heuristic, the Bresenham line   *)
(* and the choice of a local goal.  A cell carries a kind instead of an    *)
(* occupancy probability and a height:                                     *)
(*   open     no obstacle mass                                             *)
(*   near     probability below obstacle_threshold, so passable at a cost  *)
(*   low      probability at the threshold, height below step_over_height  *)
(*   blocked  probability at the threshold and too high, or height unknown *)
(* Lengths are hundredths of a cell: the resolution scales every cost and  *)
(* the heuristic alike and drops out of each comparison.                   *)
(***************************************************************************)
EXTENDS Integers, Sequences

CONSTANTS
    N,         \* cells along each side of the grid
    Kinds,     \* the kinds that occur; no height layer: no "low"
    NearCost,  \* 1 + obstacle_cost_weight * (prob / threshold)^2
    LowCost,   \* 1 + obstacle_cost_weight * step_over_cost_scale
    None       \* Python's None

ASSUME GridAssumption ==
    /\ N \in Nat \ {0}
    /\ Kinds \subseteq {"open", "near", "low", "blocked"}
    /\ NearCost \in Nat \ {0} /\ LowCost \in Nat \ {0}
    /\ None \notin Nat \cup (Int \X Int)

Cell == (0..(N - 1)) \X (0..(N - 1))
Grids == [Cell -> Kinds]

Gap(i, j) == IF i < j THEN j - i ELSE i - j

\* _is_free, for a cell inside the grid.
Free(grid, c) == grid[c] # "blocked"

\* _cell_cost of a traversable cell.
CellCost(grid, c) ==
    CASE grid[c] = "near" -> NearCost
      [] grid[c] = "low"  -> LowCost
      [] OTHER            -> 1

IsDiagonal(c, m) == c[1] # m[1] /\ c[2] # m[2]

\* _MOTION: 8-connected moves, by length.
StepLength(c, m) == IF IsDiagonal(c, m) THEN 142 ELSE 100
StepCost(grid, c, m) == StepLength(c, m) * CellCost(grid, m)

\* "Prevent diagonal moves through blocked corners".
CornersFree(grid, c, m) ==
    IsDiagonal(c, m) => Free(grid, <<m[1], c[2]>>) /\ Free(grid, <<c[1], m[2]>>)

\* The neighbours the search expands c into.
Moves(grid, c) ==
    {m \in Cell : /\ m # c /\ Gap(c[1], m[1]) <= 1 /\ Gap(c[2], m[2]) <= 1
                  /\ Free(grid, m)
                  /\ CornersFree(grid, c, m)}

\* The square root, rounded down.
Root(n) == CHOOSE r \in 0..n : r * r <= n /\ n < (r + 1) * (r + 1)

\* _h, for each distance d along both axes: 100 * hypot(d), rounded down.  (A
\* set of pairs is evaluated once, a function at every application.)
Hypots == {<<d, Root(10000 * (d[1] * d[1] + d[2] * d[2]))>> : d \in Cell}

Apart(c, m) == <<Gap(c[1], m[1]), Gap(c[2], m[2])>>

\* A plausible slip: Manhattan distance, which overestimates on a diagonal.
ManhattanH(c, goal) == 100 * (Apart(c, goal)[1] + Apart(c, goal)[2])

H(c, goal) == (CHOOSE p \in Hypots : p[1] = Apart(c, goal))[2]

-----------------------------------------------------------------------------
(* Line of sight                                                           *)

Sign(from, to) == IF from < to THEN 1 ELSE -1
Longer(i, j) == IF i < j THEN j ELSE i

\* The loop of _line_of_sight as a function of the number of iterations; it
\* reaches b after as many of them as the longer axis has cells between.
Line(a, b) ==
    LET dx == Gap(a[1], b[1])
        dy == Gap(a[2], b[2])
        at[k \in 0..Longer(dx, dy)] ==
            IF k = 0 THEN [cell |-> a, err |-> dx - dy]
            ELSE LET p == at[k - 1]
                     alongX == 2 * p.err > -dy
                     alongY == 2 * p.err < dx
                 IN  [cell |-> <<IF alongX THEN p.cell[1] + Sign(a[1], b[1]) ELSE p.cell[1],
                                 IF alongY THEN p.cell[2] + Sign(a[2], b[2]) ELSE p.cell[2]>>,
                      err  |-> p.err - (IF alongX THEN dy ELSE 0) + (IF alongY THEN dx ELSE 0)]
    IN  [k \in 0..Longer(dx, dy) |-> at[k].cell]

\* _line_of_sight: every cell of the line is free.
Sight(grid, a, b) == \A k \in DOMAIN Line(a, b) : Free(grid, Line(a, b)[k])

-----------------------------------------------------------------------------
(* The local goal                                                          *)

\* How far towards the goal one axis may go, as the fraction of the distance
\* that stays inside the grid.
Room(s, goal) ==
    LET room == IF s < goal THEN N - 1 - s ELSE s
    IN  IF room < Gap(s, goal) THEN <<room, Gap(s, goal)>> ELSE <<1, 1>>

Clamp(i) == IF i < 0 THEN 0 ELSE IF i > N - 1 THEN N - 1 ELSE i

\* _ray_grid_boundary: the cell 97 % of the way from start to where the ray to
\* an outside goal leaves the grid.
RayGridBoundary(start, goal) ==
    LET x == Room(start[1], goal[1])
        y == Room(start[2], goal[2])
        t == IF x[1] * y[2] <= y[1] * x[2] THEN x ELSE y
        At(s, g) == Clamp((100 * t[2] * s + 97 * t[1] * (g - s)) \div (100 * t[2]))
    IN  <<At(start[1], goal[1]), At(start[2], goal[2])>>

Rings(a, b) == Longer(Gap(a[1], b[1]), Gap(a[2], b[2]))

\* _nearest_free: a breadth-first search over 8-connected cells meets one of
\* the free cells with the fewest king moves from c first.
NearestFree(grid, c) ==
    {f \in Cell : Free(grid, f) /\ \A e \in Cell : Free(grid, e) => Rings(c, f) <= Rings(c, e)}

\* _local_goal: the cells it may return, none when the whole grid is blocked.
\* goal is the index world_to_index computes, inside the grid or outside.
LocalGoals(grid, start, goal) ==
    LET wanted == IF goal \in Cell THEN goal ELSE RayGridBoundary(start, goal)
    IN  NearestFree(grid, wanted)
=============================================================================
