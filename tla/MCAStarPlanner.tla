--------------------------- MODULE MCAStarPlanner ---------------------------
(***************************************************************************)
(* AStarPlanner on every grid of three by three cells, from the corner     *)
(* and the centre, and from outside the grid.                              *)
(***************************************************************************)
EXTENDS AStarPlanner

MCStarts == {<<0, 0>>, <<1, 1>>, <<3, 1>>}

\* The far corner, a knight's move away, and a goal outside the grid.
MCGoals == {<<2, 2>>, <<1, 2>>, <<7, 7>>}
=============================================================================
