---------------------------- MODULE AStarPlanner ----------------------------
(***************************************************************************)
(* One call of AStarPlanner.plan (a_star_planner.py): the choice of a      *)
(* local goal, the search, and the line-of-sight shortcut over the path it *)
(* found.  One action is one iteration of the loop it stands for.          *)
(*                                                                         *)
(* An entry of the heap is its priority and the chain of nodes from the    *)
(* start to its cell, each with the cost it was reached at: _Node and its  *)
(* parents.  The heap is the set of its entries; among equally good ones   *)
(* any may be popped.                                                      *)
(***************************************************************************)
EXTENDS PlannerGrid

CONSTANTS
    Starts,  \* indices of robot positions, inside the grid or not
    Goals    \* indices of global goals, inside the grid or not

ASSUME PlannerAssumption == Starts \subseteq Int \X Int /\ Goals \subseteq Int \X Int

VARIABLES
    grid, start, goal,  \* the arguments of plan()
    phase,              \* "called", "search", "pull" or "returned"
    target,             \* the local goal
    open, closed,       \* the heap; cost of each expanded cell, or None
    path,               \* the cells of the chain that reached the target
    anchor, i,          \* loop variables of _shortcut_path, counted from 1
    out                 \* the waypoints; returned <<>> stands for None

arguments == <<grid, start, goal>>
pulling   == <<path, anchor, i>>
vars      == <<arguments, phase, target, open, closed, pulling, out>>

Node == [cell : Cell, g : Nat]
Entry == [f : Nat, chain : Seq(Node)]
CellOf(e) == e.chain[Len(e.chain)].cell
CostOf(e) == e.chain[Len(e.chain)].g

TypeOK ==
    /\ grid \in Grids /\ start \in Int \X Int /\ goal \in Int \X Int
    /\ phase \in {"called", "search", "pull", "returned"}
    /\ target \in Cell \cup {None}
    /\ open \in SUBSET Entry /\ closed \in [Cell -> Nat \cup {None}]
    /\ path \in Seq(Cell) /\ anchor \in Nat /\ i \in Nat
    /\ out \in Seq(Cell)

Init ==
    /\ grid \in Grids /\ start \in Starts /\ goal \in Goals
    /\ phase = "called" /\ target = None
    /\ open = {} /\ closed = [c \in Cell |-> None]
    /\ path = <<>> /\ anchor = 1 /\ i = 2
    /\ out = <<>>

\* plan() up to the search: no cell to start from (the robot has left the map, or
\* there is none yet), no free cell at all, already there, or a search.
SelectLocalGoal ==
    /\ phase = "called"
    /\ UNCHANGED <<arguments, closed, pulling>>
    /\ \/ /\ start \notin Cell \/ LocalGoals(grid, start, goal) = {}
          /\ phase' = "returned" /\ UNCHANGED <<target, open, out>>
       \/ \E t \in LocalGoals(grid, start, goal) :
            /\ start \in Cell /\ target' = t
            /\ IF t = start
               THEN phase' = "returned" /\ out' = <<start>> /\ UNCHANGED open
               ELSE /\ phase' = "search" /\ UNCHANGED out
                    /\ open' = {[f |-> H(start, t), chain |-> <<[cell |-> start, g |-> 0]>>]}

\* What the heap may pop: least estimate, and least cost among those.
Best == {e \in open : \A d \in open :
            e.f < d.f \/ (e.f = d.f /\ CostOf(e) <= CostOf(d))}

\* "while open_heap" ends: no path.
HeapEmpty ==
    /\ phase = "search" /\ open = {}
    /\ phase' = "returned"
    /\ UNCHANGED <<arguments, target, open, closed, pulling, out>>

\* A plausible slip: break instead of continue on a cell met before.
BreakOnClosed ==
    /\ phase = "search"
    /\ \E e \in Best : closed[CellOf(e)] # None
    /\ phase' = "returned"
    /\ UNCHANGED <<arguments, target, open, closed, pulling, out>>

\* A popped cell that was expanded before is dropped.
SkipClosed ==
    /\ phase = "search"
    /\ \E e \in Best : closed[CellOf(e)] # None /\ open' = open \ {e}
    /\ UNCHANGED <<arguments, phase, target, closed, pulling, out>>

Extend(e, m) ==
    LET g == CostOf(e) + StepCost(grid, CellOf(e), m)
    IN  [f |-> g + H(m, target), chain |-> Append(e.chain, [cell |-> m, g |-> g])]

\* The target is popped: _extract_path.
PopTarget ==
    /\ phase = "search"
    /\ \E e \in Best :
        /\ closed[CellOf(e)] = None /\ CellOf(e) = target
        /\ closed' = [closed EXCEPT ![target] = CostOf(e)]
        /\ path' = [k \in DOMAIN e.chain |-> e.chain[k].cell]
        /\ out' = <<e.chain[1].cell>>
    /\ phase' = "pull"
    /\ UNCHANGED <<arguments, target, open, anchor, i>>

\* Another cell is popped and expanded.
Expand ==
    /\ phase = "search"
    /\ \E e \in Best :
        /\ closed[CellOf(e)] = None /\ CellOf(e) # target
        /\ closed' = [closed EXCEPT ![CellOf(e)] = CostOf(e)]
        /\ open' = (open \ {e}) \cup
                   {Extend(e, m) : m \in {m \in Moves(grid, CellOf(e)) : closed[m] = None}}
    /\ UNCHANGED <<arguments, phase, target, pulling, out>>

\* A plausible slip: the segment grows while its own end is in sight, so it ends
\* one vertex late.
PullTooFar ==
    /\ phase = "pull" /\ i < Len(path)
    /\ IF Sight(grid, path[anchor], path[i])
       THEN UNCHANGED <<out, anchor>>
       ELSE out' = Append(out, path[i]) /\ anchor' = i
    /\ i' = i + 1
    /\ UNCHANGED <<arguments, phase, target, open, closed, path>>

\* One round of _shortcut_path: while the next cell is in sight of the anchor
\* the segment grows, else it ends here and the next one starts.
Pull ==
    /\ phase = "pull" /\ i < Len(path)
    /\ IF Sight(grid, path[anchor], path[i + 1])
       THEN UNCHANGED <<out, anchor>>
       ELSE out' = Append(out, path[i]) /\ anchor' = i
    /\ i' = i + 1
    /\ UNCHANGED <<arguments, phase, target, open, closed, path>>

\* The last vertex is kept and the waypoints are returned.
Return ==
    /\ phase = "pull" /\ i >= Len(path)
    /\ out' = Append(out, path[Len(path)])
    /\ phase' = "returned"
    /\ UNCHANGED <<arguments, target, open, closed, pulling>>

Next ==
    \/ SelectLocalGoal
    \/ HeapEmpty \/ SkipClosed \/ PopTarget \/ Expand
    \/ Pull \/ Return

Spec == Init /\ [][Next]_vars

-----------------------------------------------------------------------------
(* Properties                                                              *)

Found == phase = "returned" /\ path # <<>>

\* A lower bound on what reaching a cell can cost: what it did cost, or what
\* the heuristic leaves of the cost of the target.
Bound(c) == IF closed[c] # None THEN closed[c] ELSE closed[target] - H(c, target)

\* The search returns a cheapest path.  The bound is zero at the start, no move
\* raises it by more than the move costs, and the moves of the path raise it by
\* exactly that: no walk to the target costs less than the path.
\* a_star_planner.py 253-307, "Standard A*", with the heuristic of 357-364.
BoundIsFeasible ==
    /\ Bound(start) = 0
    /\ \A c \in Cell : \A m \in Moves(grid, c) : Bound(m) <= Bound(c) + StepCost(grid, c, m)

PathIsTight ==
    /\ path[1] = start /\ path[Len(path)] = target
    /\ \A k \in 1..(Len(path) - 1) :
          /\ path[k + 1] \in Moves(grid, path[k])
          /\ Bound(path[k + 1]) = Bound(path[k]) + StepCost(grid, path[k], path[k + 1])

FoundIsCheapest == Found => BoundIsFeasible /\ PathIsTight

\* None is returned only if there is no way: the expanded cells hold the start,
\* not the target, and no move leads out of them.  a_star_planner.py 307.
Expanded == {c \in Cell : closed[c] # None}
FailureIsGenuine ==
    phase = "returned" /\ out = <<>> /\ target # None =>
        /\ start \in Expanded /\ target \notin Expanded
        /\ \A c \in Expanded : Moves(grid, c) \subseteq Expanded

\* The shortcut drops vertices "while never cutting through a non-free cell":
\* each segment is a legal move or a line of free cells, from the robot's cell
\* to the local goal.  a_star_planner.py 366-389.
Passable(a, b) == b \in Moves(grid, a) \/ Sight(grid, a, b)
ShortcutIsSafe ==
    phase = "returned" /\ out # <<>> =>
        /\ out[1] = start /\ out[Len(out)] = target
        /\ \A k \in 1..(Len(out) - 1) : Passable(out[k], out[k + 1])

-----------------------------------------------------------------------------
(* The inductive strengthening                                             *)

\* What an entry of the heap is: a walk from the start through expanded cells,
\* at the costs they were expanded at, with the priority of its last cell.
RootNode == [cell |-> start, g |-> 0]
IsWalk(e) ==
    /\ e.chain # <<>> /\ e.chain[1] = RootNode
    /\ e.f = CostOf(e) + H(CellOf(e), target)
    /\ \A k \in 1..(Len(e.chain) - 1) :
          /\ closed[e.chain[k].cell] = e.chain[k].g
          /\ e.chain[k + 1].cell \in Moves(grid, e.chain[k].cell)
          /\ e.chain[k + 1].g =
                e.chain[k].g + StepCost(grid, e.chain[k].cell, e.chain[k + 1].cell)

\* The search begins at the start.
IsRooted ==
    \/ closed[start] = 0
    \/ /\ \A c \in Cell : closed[c] = None
       /\ open = {[f |-> H(start, target), chain |-> <<RootNode>>]}

\* Cells are expanded in the order of their estimates.
IsMonotone ==
    \A c \in Cell, e \in open : closed[c] # None => closed[c] + H(c, target) <= e.f

\* Every move out of an expanded cell leads to a cell that was expanded, or
\* waits in the heap, at no more than the cost over that move.
Frontier ==
    \A c \in Cell : closed[c] # None =>
        \A m \in Moves(grid, c) :
            LET cost == closed[c] + StepCost(grid, c, m)
            IN  IF closed[m] # None THEN closed[m] <= cost
                ELSE \E e \in open : CellOf(e) = m /\ CostOf(e) <= cost

SearchInv ==
    /\ start \in Cell /\ target \in Cell /\ target # start /\ closed[target] = None
    /\ \A e \in open : IsWalk(e)
    /\ IsRooted /\ IsMonotone /\ Frontier

\* Where the shortcut stands: the waypoints so far are passable and end at the
\* anchor, from which the cell at i is passable too.
PullInv ==
    /\ target \in Cell /\ Len(path) > 1
    /\ anchor < i /\ anchor \in 1..Len(path) /\ i \in 1..Len(path)
    /\ out # <<>> /\ out[1] = start /\ out[Len(out)] = path[anchor]
    /\ \A k \in 1..(Len(out) - 1) : Passable(out[k], out[k + 1])
    /\ Passable(path[anchor], path[i])

PlanInv ==
    /\ TypeOK
    /\ phase = "called" => closed = [c \in Cell |-> None] /\ target = None
    /\ phase \in {"called", "search"} => path = <<>> /\ anchor = 1 /\ i = 2 /\ out = <<>>
    /\ phase = "search" => SearchInv
    /\ phase = "pull" => BoundIsFeasible /\ PathIsTight /\ PullInv
    /\ phase = "returned" => FoundIsCheapest /\ FailureIsGenuine /\ ShortcutIsSafe
=============================================================================
