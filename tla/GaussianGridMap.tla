-------------------------- MODULE GaussianGridMap --------------------------
(***************************************************************************)
(* The local grid of the A* node (a_star_mpc_planner/gaussian_grid_map.py) *)
(* as config/planner_params_default.yaml has it: no ground segmentation    *)
(* (the cloud is one of obstacles already) and no height layers.           *)
(*                                                                         *)
(* It keeps nothing from one update to the next.  The band of soft costs   *)
(* around the lethal cells stays below the threshold and is left out.      *)
(***************************************************************************)
EXTENDS Integers

CONSTANTS
    Cells,            \* a set of integers
    GridHalfWidth,    \* half_width, in cells
    GridRadius        \* robot_radius, in cells

\* What is assumed of the constants.
GridMapConstants ==
    Cells \subseteq Int /\ GridHalfWidth \in Nat /\ GridRadius \in Nat

\* The grid is centred on the robot.
Window(at) == {c \in Cells : at - GridHalfWidth <= c /\ c < at + GridHalfWidth}

\* Points of the cloud and the direct obstacles, as far as they are in the window.
InWindow(points, at) == points \cap Window(at)

\* update(): cells within robot_radius of an obstacle are hard blocks.
HardBlocked(points, at) ==
    {c \in Window(at) :
        \E o \in InWindow(points, at) : o - GridRadius <= c /\ c <= o + GridRadius}
=============================================================================
