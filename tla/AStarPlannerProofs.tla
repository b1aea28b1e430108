------------------------- MODULE AStarPlannerProofs -------------------------
(***************************************************************************)
(* The A* planner for every grid, every cost and every goal: the search    *)
(* returns a cheapest path and gives up only when there is none, and the   *)
(* shortcut leads through passable segments.                               *)
(***************************************************************************)
EXTENDS AStarPlanner, TLAPS, FiniteSetTheorems

-----------------------------------------------------------------------------
(* The heuristic is consistent                                             *)

\* A bounded nonempty set of numbers has a least element.
LEMMA SmallestNumber ==
  ASSUME NEW n \in Nat, NEW T \in SUBSET (0..n), T # {}
  PROVE  \E k \in T : \A j \in T : k <= j
<1> DEFINE S == 0..n
<1> DEFINE U == {x \in SUBSET S : \E k \in T : x = 0..k}
<1>1. IsFiniteSet(S)
  BY FS_Interval
<1>2. IsWellFoundedOn(StrictSubsetOrdering(S), SUBSET S)
  <2> HIDE DEF S
  <2>1. FiniteSubsetsOf(S) = SUBSET S
    BY <1>1, FS_FiniteSubsetsOfFinite
  <2>2. IsWellFoundedOn(StrictSubsetOrdering(S), FiniteSubsetsOf(S))
    BY FS_StrictSubsetOrderingWellFounded
  <2> QED BY <2>1, <2>2
<1>3. U # {}
  <2>1. PICK k \in T : TRUE
    OBVIOUS
  <2>2. 0..k \in U
    OBVIOUS
  <2> QED BY <2>2
<1>4. PICK x \in U : \A y \in U : <<y, x>> \notin StrictSubsetOrdering(S)
  <2> HIDE DEF S
  <2>1. U \subseteq SUBSET S
    OBVIOUS
  <2> HIDE DEF U
  <2> QED BY <1>2, <1>3, <2>1, WFMin
<1>5. PICK k \in T : x = 0..k
  OBVIOUS
<1>6. ASSUME NEW j \in T, j < k PROVE FALSE
  <2>1. 0..j \in U
    OBVIOUS
  <2>2. 0..j \subseteq 0..k /\ 0..j # 0..k
    BY <1>6
  <2>3. <<0..j, x>> \in StrictSubsetOrdering(S)
    BY <2>1, <2>2, <1>5 DEF StrictSubsetOrdering
  <2> QED BY <1>4, <2>1, <2>3
<1> QED BY <1>6

\* Root is the square root, rounded down.
LEMMA RootIsFloor ==
  ASSUME NEW n \in Nat
  PROVE  /\ Root(n) \in Nat
         /\ Root(n) * Root(n) <= n /\ n < (Root(n) + 1) * (Root(n) + 1)
<1> DEFINE Above == {k \in 0..(n + 1) : n < k * k}
<1>1. n + 1 \in Above
  <2>1. (n + 1) * (n + 1) = n * n + 2 * n + 1
    OBVIOUS
  <2>2. n * n >= 0
    OBVIOUS
  <2> QED BY <2>1, <2>2
<1>2. PICK k \in Above : \A j \in Above : k <= j
  <2>1. Above \in SUBSET (0..(n + 1)) /\ n + 1 \in Nat
    OBVIOUS
  <2> HIDE DEF Above
  <2> QED BY <1>1, <2>1, SmallestNumber
<1>3. k # 0
  OBVIOUS
<1> DEFINE r == k - 1
<1>4. r \in 0..n /\ r \notin Above
  BY <1>2, <1>3
<1>5. r * r <= n /\ n < (r + 1) * (r + 1)
  BY <1>4
<1>6. \E q \in 0..n : q * q <= n /\ n < (q + 1) * (q + 1)
  <2> HIDE DEF r
  <2> QED BY <1>4, <1>5
<1>7. /\ Root(n) \in 0..n
      /\ Root(n) * Root(n) <= n /\ n < (Root(n) + 1) * (Root(n) + 1)
  BY <1>6 DEF Root
<1> QED BY <1>7

\* The rounded distance drops by at most 100 when one axis comes closer by one.
LEMMA StraightBound ==
  ASSUME NEW x \in Nat, NEW y \in Nat, NEW n \in Nat, NEW m \in Nat,
         n * n <= 10000 * ((x + 1) * (x + 1) + y * y),
         10000 * (x * x + y * y) < (m + 1) * (m + 1)
  PROVE  n <= 100 + m
<1>1. m + 1 > 100 * x
  <2> SUFFICES ASSUME m + 1 <= 100 * x PROVE FALSE
    OBVIOUS
  <2>1. (m + 1) * (m + 1) <= (100 * x) * (100 * x)
    OBVIOUS
  <2>2. y * y >= 0
    OBVIOUS
  <2>3. (100 * x) * (100 * x) = 10000 * (x * x)
    OBVIOUS
  <2> QED BY <2>1, <2>2, <2>3
<1> SUFFICES ASSUME n >= m + 1 + 100 PROVE FALSE
  OBVIOUS
<1>2. n * n >= (m + 1 + 100) * (m + 1 + 100)
  OBVIOUS
<1>3. (m + 1 + 100) * (m + 1 + 100) = (m + 1) * (m + 1) + 200 * (m + 1) + 10000
  OBVIOUS
<1>4. (x + 1) * (x + 1) = x * x + 2 * x + 1
  OBVIOUS
<1> QED BY <1>1, <1>2, <1>3, <1>4

\* ... and by at most 142 when both do: 142 is more than 100 times root two.
LEMMA DiagonalBound ==
  ASSUME NEW x \in Nat, NEW y \in Nat, NEW n \in Nat, NEW m \in Nat,
         n * n <= 10000 * ((x + 1) * (x + 1) + (y + 1) * (y + 1)),
         10000 * (x * x + y * y) < (m + 1) * (m + 1)
  PROVE  n <= 142 + m
<1> DEFINE s == x + y
<1>1. 142 * (m + 1) >= 10000 * s
  <2> SUFFICES ASSUME 142 * (m + 1) < 10000 * s PROVE FALSE
    OBVIOUS
  <2>1. (142 * (m + 1)) * (142 * (m + 1)) <= (10000 * s) * (10000 * s)
    OBVIOUS
  <2>2. s * s <= 2 * (x * x + y * y)
    <3>1. (x - y) * (x - y) >= 0
      OBVIOUS
    <3>2. (x - y) * (x - y) = x * x - 2 * (x * y) + y * y
      OBVIOUS
    <3>3. s * s = x * x + 2 * (x * y) + y * y
      OBVIOUS
    <3> QED BY <3>1, <3>2, <3>3
  <2>3. (10000 * s) * (10000 * s) = 100000000 * (s * s)
    OBVIOUS
  <2>4. (142 * (m + 1)) * (142 * (m + 1)) = 20164 * ((m + 1) * (m + 1))
    OBVIOUS
  <2> QED BY <2>1, <2>2, <2>3, <2>4
<1> SUFFICES ASSUME n >= m + 1 + 142 PROVE FALSE
  OBVIOUS
<1>2. n * n >= (m + 1 + 142) * (m + 1 + 142)
  OBVIOUS
<1>3. (m + 1 + 142) * (m + 1 + 142) = (m + 1) * (m + 1) + 284 * (m + 1) + 20164
  OBVIOUS
<1>4. /\ (x + 1) * (x + 1) = x * x + 2 * x + 1
      /\ (y + 1) * (y + 1) = y * y + 2 * y + 1
  OBVIOUS
<1> QED BY <1>1, <1>2, <1>3, <1>4

\* What the heuristic is, between cells of the grid.
LEMMA HeuristicValue ==
  ASSUME NEW c \in Cell, NEW t \in Cell
  PROVE  LET x == Gap(c[1], t[1])
             y == Gap(c[2], t[2])
         IN  /\ x \in Nat /\ y \in Nat /\ H(c, t) \in Nat
             /\ H(c, t) * H(c, t) <= 10000 * (x * x + y * y)
             /\ 10000 * (x * x + y * y) < (H(c, t) + 1) * (H(c, t) + 1)
<1> DEFINE x == Gap(c[1], t[1])
           y == Gap(c[2], t[2])
           n == 10000 * (x * x + y * y)
<1>1. x \in 0..(N - 1) /\ y \in 0..(N - 1) /\ <<x, y>> \in Cell
  BY GridAssumption DEF Cell, Gap
<1>2. n \in Nat
  <2>1. x * x \in Nat /\ y * y \in Nat
    BY <1>1
  <2> QED BY <2>1
<1>3. <<<<x, y>>, Root(n)>> \in Hypots
  BY <1>1 DEF Hypots
<1>4. \A p \in Hypots : p[1] = <<x, y>> => p[2] = Root(n)
  <2> TAKE p \in Hypots
  <2>1. PICK d \in Cell : p = <<d, Root(10000 * (d[1] * d[1] + d[2] * d[2]))>>
    BY DEF Hypots
  <2> HAVE p[1] = <<x, y>>
  <2>2. d = <<x, y>> /\ p[2] = Root(10000 * (d[1] * d[1] + d[2] * d[2]))
    BY <2>1
  <2> QED BY <2>2
<1>5. H(c, t) = Root(n)
  <2> HIDE DEF n, x, y
  <2>1. Apart(c, t) = <<x, y>>
    BY DEF Apart, x, y
  <2> DEFINE p == CHOOSE p \in Hypots : p[1] = <<x, y>>
  <2>2. p \in Hypots /\ p[1] = <<x, y>>
    <3>1. \E q \in Hypots : q[1] = <<x, y>>
      BY <1>3
    <3> QED BY <3>1
  <2> QED BY <1>4, <2>1, <2>2 DEF H
<1> HIDE DEF n
<1>6. /\ Root(n) \in Nat
      /\ Root(n) * Root(n) <= n /\ n < (Root(n) + 1) * (Root(n) + 1)
  BY <1>2, RootIsFloor
<1> QED BY <1>1, <1>5, <1>6 DEF n

\* The heuristic is exact at the target.
LEMMA HeuristicAtTarget ==
  ASSUME NEW t \in Cell
  PROVE  H(t, t) = 0
<1>1. Gap(t[1], t[1]) = 0 /\ Gap(t[2], t[2]) = 0
  BY GridAssumption DEF Cell, Gap
<1>2. H(t, t) \in Nat /\ H(t, t) * H(t, t) <= 0
  BY <1>1, HeuristicValue
<1> QED BY <1>2

\* A move costs at least its length.
LEMMA StepCostBound ==
  ASSUME NEW gr \in Grids, NEW c \in Cell, NEW m \in Cell
  PROVE  StepCost(gr, c, m) \in Nat /\ StepCost(gr, c, m) >= StepLength(c, m)
<1> DEFINE l == StepLength(c, m)
           w == CellCost(gr, m)
<1>1. l \in Nat /\ w \in Nat /\ w >= 1
  BY GridAssumption DEF StepLength, CellCost
<1>2. StepCost(gr, c, m) = l * w
  BY DEF StepCost
<1> HIDE DEF l, w
<1>3. l * w \in Nat /\ l * w >= l
  BY <1>1
<1> QED BY <1>2, <1>3 DEF l

\* No move brings the robot closer, in the heuristic's eyes, by more than the
\* move costs.
LEMMA HeuristicIsConsistent ==
  ASSUME NEW gr \in Grids, NEW c \in Cell, NEW m \in Moves(gr, c), NEW t \in Cell
  PROVE  /\ m \in Cell /\ m # c
         /\ StepCost(gr, c, m) \in Nat /\ H(c, t) \in Nat /\ H(m, t) \in Nat
         /\ H(c, t) <= StepCost(gr, c, m) + H(m, t)
<1>1. m \in Cell /\ m # c /\ Gap(c[1], m[1]) <= 1 /\ Gap(c[2], m[2]) <= 1
  BY DEF Moves
<1> DEFINE x == Gap(m[1], t[1])
           y == Gap(m[2], t[2])
           u == Gap(c[1], t[1])
           v == Gap(c[2], t[2])
<1>2. x \in Nat /\ y \in Nat /\ u \in Nat /\ v \in Nat
  BY <1>1, GridAssumption DEF Cell, Gap
<1>3. /\ u <= x + 1 /\ v <= y + 1
      /\ ~IsDiagonal(c, m) => u <= x \/ v <= y
  BY <1>1, GridAssumption DEF Cell, Gap, IsDiagonal
<1>4. /\ H(c, t) \in Nat /\ H(c, t) * H(c, t) <= 10000 * (u * u + v * v)
      /\ H(m, t) \in Nat /\ 10000 * (x * x + y * y) < (H(m, t) + 1) * (H(m, t) + 1)
  BY <1>1, HeuristicValue
<1>5. H(c, t) <= StepLength(c, m) + H(m, t)
  <2> HIDE DEF x, y, u, v
  <2>1. u * u <= (x + 1) * (x + 1) /\ v * v <= (y + 1) * (y + 1)
    BY <1>2, <1>3
  <2>2. CASE IsDiagonal(c, m)
    <3>1. H(c, t) * H(c, t) <= 10000 * ((x + 1) * (x + 1) + (y + 1) * (y + 1))
      BY <1>2, <1>4, <2>1
    <3>2. H(c, t) <= 142 + H(m, t)
      BY <1>2, <1>4, <3>1, DiagonalBound
    <3> QED BY <2>2, <3>2 DEF StepLength
  <2>3. CASE ~IsDiagonal(c, m) /\ v <= y
    <3>1. v * v <= y * y
      BY <1>2, <2>3
    <3>2. H(c, t) * H(c, t) <= 10000 * ((x + 1) * (x + 1) + y * y)
      BY <1>2, <1>4, <2>1, <3>1
    <3>3. H(c, t) <= 100 + H(m, t)
      BY <1>2, <1>4, <3>2, StraightBound
    <3> QED BY <2>3, <3>3 DEF StepLength
  <2>4. CASE ~IsDiagonal(c, m) /\ u <= x
    <3>1. u * u <= x * x
      BY <1>2, <2>4
    <3>2. H(c, t) * H(c, t) <= 10000 * ((y + 1) * (y + 1) + x * x)
      BY <1>2, <1>4, <2>1, <3>1
    <3>3. 10000 * (y * y + x * x) < (H(m, t) + 1) * (H(m, t) + 1)
      BY <1>2, <1>4
    <3>4. H(c, t) <= 100 + H(m, t)
      BY <1>2, <1>4, <3>2, <3>3, StraightBound
    <3> QED BY <2>4, <3>4 DEF StepLength
  <2> QED BY <1>3, <2>2, <2>3, <2>4
<1>6. StepCost(gr, c, m) \in Nat /\ StepCost(gr, c, m) >= StepLength(c, m)
  BY <1>1, StepCostBound
<1>7. StepLength(c, m) \in Nat
  BY DEF StepLength
<1> QED BY <1>1, <1>4, <1>5, <1>6, <1>7

-----------------------------------------------------------------------------
(* Entries of the heap                                                     *)

\* The types of an entry of the heap: its cells, costs and priority.
LEMMA EntryFacts ==
  ASSUME NEW e \in Entry, e.chain # <<>>
  PROVE  /\ Len(e.chain) \in Nat /\ Len(e.chain) > 0
         /\ CellOf(e) \in Cell /\ CostOf(e) \in Nat /\ e.f \in Nat
         /\ \A k \in 1..Len(e.chain) : e.chain[k].cell \in Cell /\ e.chain[k].g \in Nat
<1>1. e.chain \in Seq(Node) /\ Len(e.chain) > 0
  BY DEF Entry
<1>2. \A k \in 1..Len(e.chain) : e.chain[k] \in Node
  BY <1>1
<1> QED BY <1>1, <1>2 DEF Entry, Node, CellOf, CostOf

\* What expanding an entry pushes: the same chain, one node longer.
LEMMA ExtendFacts ==
  ASSUME grid \in Grids, target \in Cell,
         NEW e \in Entry, e.chain # <<>>, NEW m \in Moves(grid, CellOf(e))
  PROVE  LET d == Extend(e, m)
             n == Len(e.chain)
         IN  /\ d \in Entry /\ d.chain # <<>> /\ Len(d.chain) = n + 1
             /\ \A k \in 1..n : d.chain[k] = e.chain[k]
             /\ CellOf(d) = m
             /\ CostOf(d) = CostOf(e) + StepCost(grid, CellOf(e), m)
             /\ d.f = CostOf(d) + H(m, target)
<1> DEFINE d == Extend(e, m)
           g == CostOf(e) + StepCost(grid, CellOf(e), m)
           node == [cell |-> m, g |-> g]
<1>1. /\ Len(e.chain) \in Nat /\ Len(e.chain) > 0
      /\ CellOf(e) \in Cell /\ CostOf(e) \in Nat
  BY EntryFacts
<1>2. /\ m \in Cell /\ StepCost(grid, CellOf(e), m) \in Nat /\ H(m, target) \in Nat
  BY <1>1, HeuristicIsConsistent
<1>3. d.f = g + H(m, target) /\ d.chain = Append(e.chain, node)
  BY DEF Extend
<1>4. g \in Nat /\ node \in Node /\ node.g = g /\ node.cell = m
  BY <1>1, <1>2 DEF Node
<1> HIDE DEF node, g
<1>5. /\ d.chain \in Seq(Node) /\ Len(d.chain) = Len(e.chain) + 1
      /\ d.chain[Len(e.chain) + 1] = node
      /\ \A k \in 1..Len(e.chain) : d.chain[k] = e.chain[k]
  BY <1>3, <1>4 DEF Entry
<1>6. d \in Entry
  <2>1. d = [f |-> g + H(m, target), chain |-> d.chain]
    BY <1>3 DEF Extend, g
  <2>2. g + H(m, target) \in Nat
    BY <1>2, <1>4
  <2> HIDE DEF d
  <2> QED BY <2>1, <2>2, <1>5 DEF Entry
<1>7. d.chain # <<>>
  BY <1>1, <1>5
<1>8. CellOf(d) = m /\ CostOf(d) = g
  BY <1>4, <1>5 DEF CellOf, CostOf
<1> QED BY <1>3, <1>5, <1>6, <1>7, <1>8 DEF g

-----------------------------------------------------------------------------
(* Every step keeps the invariant                                          *)

\* plan() starts in the invariant.
LEMMA PlanInit == Init => PlanInv
<1> SUFFICES ASSUME Init PROVE PlanInv
  OBVIOUS
<1>1. TypeOK
  BY PlannerAssumption DEF Init, TypeOK, Entry
<1> QED BY <1>1 DEF Init, PlanInv

\* Choosing the local goal and pushing the start keeps the invariant.
LEMMA SelectStep ==
  ASSUME PlanInv, SelectLocalGoal
  PROVE  PlanInv'
<1> USE DEF PlanInv
<1>1. /\ phase = "called" /\ closed = [c \in Cell |-> None] /\ target = None
      /\ path = <<>> /\ anchor = 1 /\ i = 2 /\ out = <<>>
      /\ UNCHANGED <<grid, start, goal, closed, path, anchor, i>>
  BY DEF SelectLocalGoal, arguments, pulling
<1>2. CASE phase' = "returned" /\ UNCHANGED <<target, open, out>>
  <2>1. TypeOK'
    BY <1>1, <1>2 DEF TypeOK
  <2> QED BY <1>1, <1>2, <2>1
          DEF FoundIsCheapest, Found, FailureIsGenuine, ShortcutIsSafe
<1>3. ASSUME NEW t \in LocalGoals(grid, start, goal), start \in Cell, target' = t, t = start,
             phase' = "returned", out' = <<start>>, UNCHANGED open
      PROVE  PlanInv'
  <2>1. t \in Cell
    BY <1>3 DEF TypeOK
  <2>2. TypeOK'
    BY <1>1, <1>3, <2>1 DEF TypeOK
  <2>3. ShortcutIsSafe'
    BY <1>1, <1>3 DEF ShortcutIsSafe
  <2> QED BY <1>1, <1>3, <2>2, <2>3 DEF FoundIsCheapest, Found, FailureIsGenuine
<1>4. ASSUME NEW t \in LocalGoals(grid, start, goal), start \in Cell, target' = t, t # start,
             phase' = "search", UNCHANGED out,
             open' = {[f |-> H(start, t), chain |-> <<[cell |-> start, g |-> 0]>>]}
      PROVE  PlanInv'
  <2> DEFINE node == [cell |-> start, g |-> 0]
             e == [f |-> H(start, t), chain |-> <<node>>]
  <2>1. t \in Cell /\ start \in Cell /\ H(start, t) \in Nat
    <3>1. t \in Cell
      BY DEF LocalGoals, NearestFree
    <3>2. start \in Cell
      BY <1>4
    <3> QED BY <3>1, <3>2, HeuristicValue
  <2>2. node \in Node /\ <<node>> \in Seq(Node) /\ e \in Entry
    BY <2>1 DEF Node, Entry
  <2>3. TypeOK'
    BY <1>1, <1>4, <2>1, <2>2 DEF TypeOK
  <2>4. \A c \in Cell : closed'[c] = None
    BY <1>1
  <2>5. IsWalk(e)'
    <3>1. CellOf(e) = start /\ CostOf(e) = 0
      BY DEF CellOf, CostOf
    <3>2. e.f = CostOf(e) + H(CellOf(e), t)
      BY <3>1, <2>1
    <3> QED BY <1>1, <1>4, <3>1, <3>2 DEF IsWalk, RootNode, CellOf, CostOf
  <2>6. IsRooted'
    BY <1>1, <1>4, <2>4 DEF IsRooted, RootNode
  <2>7. IsMonotone' /\ Frontier'
    BY <2>4 DEF IsMonotone, Frontier
  <2>8. SearchInv'
    BY <1>1, <1>4, <2>1, <2>4, <2>5, <2>6, <2>7 DEF SearchInv
  <2> QED BY <1>1, <1>4, <2>3, <2>8
<1> QED BY <1>2, <1>3, <1>4 DEF SelectLocalGoal

\* Giving up on an empty heap keeps the invariant: with nothing waiting, the
\* frontier condition closes the expanded cells under moves.
LEMMA HeapEmptyStep ==
  ASSUME PlanInv, HeapEmpty
  PROVE  PlanInv'
<1> USE DEF PlanInv
<1>1. /\ phase = "search" /\ open = {} /\ phase' = "returned"
      /\ UNCHANGED <<grid, start, goal, target, open, closed, path, anchor, i, out>>
  BY DEF HeapEmpty, arguments, pulling
<1>2. TypeOK'
  BY <1>1 DEF TypeOK
<1>3. start \in Expanded /\ target \notin Expanded
  <2>1. closed[start] = 0
    BY <1>1 DEF SearchInv, IsRooted
  <2>2. None # 0
    BY GridAssumption
  <2> QED BY <1>1, <2>1, <2>2 DEF Expanded, SearchInv, TypeOK
<1>4. ASSUME NEW c \in Expanded, NEW m \in Moves(grid, c) PROVE m \in Expanded
  <2>1. m \in Cell
    BY DEF Moves
  <2> QED BY <1>1, <1>4, <2>1 DEF Expanded, SearchInv, Frontier
<1>5. FailureIsGenuine'
  BY <1>1, <1>3, <1>4 DEF FailureIsGenuine, Expanded
<1> QED BY <1>1, <1>2, <1>5 DEF FoundIsCheapest, Found, ShortcutIsSafe

\* Dropping an entry whose cell was expanded keeps the invariant.
LEMMA SkipStep ==
  ASSUME PlanInv, SkipClosed
  PROVE  PlanInv'
<1> USE DEF PlanInv
<1>1. PICK e \in Best : closed[CellOf(e)] # None /\ open' = open \ {e}
  BY DEF SkipClosed
<1>2. /\ phase = "search" /\ phase' = "search"
      /\ UNCHANGED <<grid, start, goal, target, closed, path, anchor, i, out>>
  BY DEF SkipClosed, arguments, pulling
<1>3. TypeOK'
  BY <1>1, <1>2 DEF TypeOK
<1>4. \A d \in open' : IsWalk(d)'
  BY <1>1, <1>2 DEF SearchInv, IsWalk, CellOf, CostOf, RootNode
<1>5. IsRooted'
  <2>1. CASE closed[start] = 0
    BY <1>2, <2>1 DEF IsRooted
  <2>2. CASE \A c \in Cell : closed[c] = None
    <3>1. e \in Entry /\ e.chain # <<>>
      BY <1>1, <1>2 DEF Best, TypeOK, SearchInv, IsWalk
    <3>2. CellOf(e) \in Cell
      BY <3>1, EntryFacts
    <3> QED BY <1>1, <2>2, <3>2
  <2> QED BY <1>2, <2>1, <2>2 DEF SearchInv, IsRooted
<1>6. IsMonotone'
  BY <1>1, <1>2 DEF SearchInv, IsMonotone
<1>7. Frontier'
  <2> SUFFICES ASSUME NEW c \in Cell, closed[c] # None, NEW m \in Moves(grid, c),
                      closed[m] = None,
                      NEW d \in open, CellOf(d) = m,
                      CostOf(d) <= closed[c] + StepCost(grid, c, m)
               PROVE  d \in open'
    BY <1>2 DEF SearchInv, Frontier
  <2> QED BY <1>1
<1> QED BY <1>2, <1>3, <1>4, <1>5, <1>6, <1>7 DEF SearchInv

\* What holds of the entry the heap pops, when its cell is new.
LEMMA PopFacts ==
  ASSUME PlanInv, phase = "search", NEW e \in Best, closed[CellOf(e)] = None
  PROVE  LET x == CellOf(e)
             g == CostOf(e)
         IN  /\ e \in open /\ e \in Entry /\ e.chain # <<>> /\ IsWalk(e)
             /\ x \in Cell /\ g \in Nat /\ e.f = g + H(x, target)
             /\ \A d \in open : e.f <= d.f
             /\ \A c \in Cell : closed[c] # None => closed[c] \in Nat
             /\ \A c \in Cell : closed[c] # None /\ x \in Moves(grid, c)
                                 => g <= closed[c] + StepCost(grid, c, x)
             /\ \A m \in Moves(grid, x) :
                   closed[m] # None => closed[m] <= g + StepCost(grid, x, m)
             /\ closed[start] = 0 \/ (x = start /\ g = 0)
<1> DEFINE x == CellOf(e)
           g == CostOf(e)
<1>1. SearchInv /\ TypeOK
  BY DEF PlanInv
<1>2. e \in open /\ e \in Entry /\ IsWalk(e) /\ e.chain # <<>>
  BY <1>1 DEF Best, SearchInv, IsWalk, TypeOK
<1>3. x \in Cell /\ g \in Nat /\ e.f = g + H(x, target)
  BY <1>2, EntryFacts DEF IsWalk
<1>4. \A d \in open : d \in Entry /\ d.chain # <<>> /\ d.f = CostOf(d) + H(CellOf(d), target)
                      /\ CellOf(d) \in Cell /\ CostOf(d) \in Nat
  BY <1>1, EntryFacts DEF SearchInv, IsWalk, TypeOK
<1>5. \A d \in open : e.f <= d.f
  <2> TAKE d \in open
  <2>1. e.f \in Nat /\ d.f \in Nat
    BY <1>2, <1>1 DEF TypeOK, Entry
  <2>2. e.f < d.f \/ e.f = d.f
    BY DEF Best
  <2> QED BY <2>1, <2>2
<1>6. \A c \in Cell : closed[c] # None => closed[c] \in Nat
  BY <1>1 DEF TypeOK
<1>7. target \in Cell
  BY <1>1 DEF SearchInv
<1>8. H(x, target) \in Nat
  BY <1>3, <1>7, HeuristicValue
<1>9. ASSUME NEW c \in Cell, closed[c] # None, x \in Moves(grid, c)
      PROVE  g <= closed[c] + StepCost(grid, c, x)
  <2>1. PICK d \in open : CellOf(d) = x /\ CostOf(d) <= closed[c] + StepCost(grid, c, x)
    BY <1>1, <1>3, <1>9 DEF SearchInv, Frontier
  <2>2. e.f <= d.f /\ d.f = CostOf(d) + H(x, target) /\ CostOf(d) \in Nat
    BY <1>4, <1>5, <2>1
  <2>3. StepCost(grid, c, x) \in Nat /\ closed[c] \in Nat
    BY <1>1, <1>3, <1>6, <1>9, StepCostBound DEF TypeOK
  <2> HIDE DEF x, g
  <2> QED BY <1>3, <1>8, <2>1, <2>2, <2>3
<1>10. ASSUME NEW m \in Moves(grid, x), closed[m] # None
       PROVE  closed[m] <= g + StepCost(grid, x, m)
  <2>1. /\ m \in Cell /\ StepCost(grid, x, m) \in Nat /\ H(m, target) \in Nat
        /\ H(x, target) <= StepCost(grid, x, m) + H(m, target)
    BY <1>1, <1>3, <1>7, HeuristicIsConsistent DEF TypeOK
  <2>2. closed[m] + H(m, target) <= e.f /\ closed[m] \in Nat
    BY <1>1, <1>2, <1>6, <1>10, <2>1 DEF SearchInv, IsMonotone
  <2> HIDE DEF x, g
  <2> QED BY <1>3, <1>8, <2>1, <2>2
<1>11. closed[start] = 0 \/ (x = start /\ g = 0)
  <2>1. CASE closed[start] = 0
    BY <2>1
  <2>2. CASE open = {[f |-> H(start, target), chain |-> <<RootNode>>]}
    <3>1. e.chain = <<RootNode>>
      BY <1>2, <2>2
    <3> QED BY <3>1 DEF CellOf, CostOf, RootNode
  <2> QED BY <1>1, <2>1, <2>2 DEF SearchInv, IsRooted
<1> QED BY <1>2, <1>3, <1>5, <1>6, <1>9, <1>10, <1>11

\* Expanding a cell keeps the invariant: its cost is final, as the heuristic is
\* consistent.
LEMMA ExpandStep ==
  ASSUME PlanInv, Expand
  PROVE  PlanInv'
<1> USE DEF PlanInv
<1>1. PICK e \in Best :
        /\ closed[CellOf(e)] = None /\ CellOf(e) # target
        /\ closed' = [closed EXCEPT ![CellOf(e)] = CostOf(e)]
        /\ open' = (open \ {e}) \cup
                   {Extend(e, m) : m \in {m \in Moves(grid, CellOf(e)) : closed[m] = None}}
  BY DEF Expand
<1>2. /\ phase = "search" /\ phase' = "search"
      /\ UNCHANGED <<grid, start, goal, target, path, anchor, i, out>>
  BY DEF Expand, arguments, pulling
<1> DEFINE x == CellOf(e)
           g == CostOf(e)
           New == {m \in Moves(grid, x) : closed[m] = None}
<1>3. /\ e \in open /\ e \in Entry /\ e.chain # <<>> /\ IsWalk(e)
      /\ x \in Cell /\ g \in Nat /\ e.f = g + H(x, target)
      /\ \A d \in open : e.f <= d.f
      /\ \A c \in Cell : closed[c] # None => closed[c] \in Nat
      /\ \A c \in Cell : closed[c] # None /\ x \in Moves(grid, c)
                          => g <= closed[c] + StepCost(grid, c, x)
      /\ \A m \in Moves(grid, x) :
            closed[m] # None => closed[m] <= g + StepCost(grid, x, m)
      /\ closed[start] = 0 \/ (x = start /\ g = 0)
  BY <1>1, <1>2, PopFacts
<1>4. TypeOK /\ SearchInv /\ start \in Cell /\ target \in Cell /\ grid \in Grids /\ g # None
  BY <1>2, <1>3, GridAssumption DEF SearchInv, TypeOK
<1>5. \A m \in New : LET d == Extend(e, m)
                         n == Len(e.chain)
                     IN  /\ d \in Entry /\ d.chain # <<>> /\ Len(d.chain) = n + 1
                         /\ \A k \in 1..n : d.chain[k] = e.chain[k]
                         /\ CellOf(d) = m
                         /\ CostOf(d) = g + StepCost(grid, x, m)
                         /\ d.f = CostOf(d) + H(m, target)
  BY <1>3, <1>4, ExtendFacts
<1>6. /\ closed' \in [Cell -> Nat \cup {None}] /\ closed'[x] = g
      /\ \A c \in Cell : c # x => closed'[c] = closed[c]
  BY <1>1, <1>3, <1>4 DEF TypeOK
<1>7. TypeOK'
  BY <1>1, <1>2, <1>4, <1>5, <1>6 DEF TypeOK
<1>8. \A c \in Cell : closed[c] # None => closed'[c] = closed[c]
  BY <1>1, <1>6
<1>9. ASSUME NEW d \in open PROVE IsWalk(d)'
  <2>1. /\ IsWalk(d) /\ d \in Entry /\ d.chain # <<>>
    BY <1>4 DEF SearchInv, IsWalk, TypeOK
  <2>2. \A k \in 1..(Len(d.chain) - 1) : closed'[d.chain[k].cell] = closed[d.chain[k].cell]
    <3> TAKE k \in 1..(Len(d.chain) - 1)
    <3>1. d.chain[k].cell \in Cell /\ d.chain[k].g \in Nat
      BY <2>1, EntryFacts
    <3>2. closed[d.chain[k].cell] # None
      BY <2>1, <3>1, GridAssumption DEF IsWalk
    <3> QED BY <1>8, <3>1, <3>2
  <2> QED BY <1>2, <2>1, <2>2 DEF IsWalk, CellOf, CostOf, RootNode
<1>10. ASSUME NEW m \in New, NEW d \in Entry, d = Extend(e, m) PROVE IsWalk(d)'
  <2> DEFINE n == Len(e.chain)
  <2>1. /\ d \in Entry /\ d.chain # <<>> /\ Len(d.chain) = n + 1
        /\ \A k \in 1..n : d.chain[k] = e.chain[k]
        /\ CellOf(d) = m /\ CostOf(d) = g + StepCost(grid, x, m)
        /\ d.f = CostOf(d) + H(m, target)
    BY <1>5, <1>10
  <2>2. n \in Nat /\ n > 0 /\ e.chain[n].cell = x /\ e.chain[n].g = g
    BY <1>3, EntryFacts DEF CellOf, CostOf
  <2>3. d.chain[n + 1].cell = m /\ d.chain[n + 1].g = g + StepCost(grid, x, m)
    BY <2>1 DEF CellOf, CostOf
  <2>4. IsWalk(e)'
    BY <1>3, <1>9
  <2> HIDE DEF n, x, g
  <2>5. ASSUME NEW k \in 1..n
        PROVE  /\ closed'[d.chain[k].cell] = d.chain[k].g
               /\ d.chain[k + 1].cell \in Moves(grid, d.chain[k].cell)
               /\ d.chain[k + 1].g =
                     d.chain[k].g + StepCost(grid, d.chain[k].cell, d.chain[k + 1].cell)
    <3>1. CASE k = n
      BY <1>6, <2>1, <2>2, <2>3, <3>1 DEF New
    <3>2. CASE k # n
      <4>1. k \in 1..(n - 1) /\ k + 1 \in 1..n
        BY <2>2, <3>2
      <4>2. d.chain[k] = e.chain[k] /\ d.chain[k + 1] = e.chain[k + 1]
        BY <2>1, <4>1
      <4> QED BY <1>2, <2>4, <4>1, <4>2 DEF IsWalk, n
    <3> QED BY <3>1, <3>2
  <2>6. d.chain[1] = RootNode
    BY <1>3, <2>1, <2>2 DEF IsWalk
  <2>7. Len(d.chain) - 1 = n
    BY <2>1, <2>2
  <2> QED BY <1>2, <2>1, <2>5, <2>6, <2>7 DEF IsWalk, CellOf, CostOf, RootNode
<1>11. \A d \in open' : IsWalk(d)'
  <2> TAKE d \in open'
  <2>1. CASE d \in open
    BY <1>9, <2>1
  <2>2. ASSUME NEW m \in New, d = Extend(e, m) PROVE IsWalk(d)'
    BY <1>5, <1>10, <2>2
  <2> QED BY <1>1, <2>1, <2>2
<1>12. IsRooted'
  BY <1>2, <1>3, <1>4, <1>6, <1>8, GridAssumption DEF IsRooted, TypeOK
<1>13. IsMonotone'
  <2> SUFFICES ASSUME NEW c \in Cell, NEW d \in open', closed'[c] # None
               PROVE  closed'[c] + H(c, target) <= d.f
    BY <1>2 DEF IsMonotone
  <2>1. e.f <= d.f
    <3>1. CASE d \in open
      BY <1>3, <3>1
    <3>2. ASSUME NEW m \in New, d = Extend(e, m) PROVE e.f <= d.f
      <4>1. /\ StepCost(grid, x, m) \in Nat /\ H(m, target) \in Nat /\ H(x, target) \in Nat
            /\ H(x, target) <= StepCost(grid, x, m) + H(m, target)
        BY <1>3, <1>4, HeuristicIsConsistent
      <4>2. d.f = g + StepCost(grid, x, m) + H(m, target)
        BY <1>5, <3>2
      <4> HIDE DEF x, g
      <4> QED BY <1>3, <4>1, <4>2
    <3> QED BY <1>1, <3>1, <3>2
  <2>2. CASE c = x
    BY <1>3, <1>6, <2>1, <2>2
  <2>3. CASE c # x
    <3>1. closed'[c] = closed[c]
      BY <1>6, <2>3
    <3>2. closed[c] + H(c, target) <= e.f
      BY <1>3, <1>4, <3>1 DEF SearchInv, IsMonotone
    <3>3. closed[c] \in Nat /\ H(c, target) \in Nat
      <4>1. closed[c] # None
        BY <3>1
      <4>2. closed[c] \in Nat
        BY <1>3, <4>1
      <4> QED BY <1>4, <4>2, HeuristicValue
    <3>4. e.f \in Nat /\ d.f \in Nat
      BY <1>3, <1>7 DEF TypeOK, Entry
    <3> QED BY <2>1, <3>1, <3>2, <3>3, <3>4
  <2> QED BY <2>2, <2>3
<1>14. Frontier'
  <2> SUFFICES ASSUME NEW c \in Cell, closed'[c] # None, NEW m \in Moves(grid, c)
               PROVE  IF closed'[m] # None THEN closed'[m] <= closed'[c] + StepCost(grid, c, m)
                      ELSE \E d \in open' : CellOf(d) = m
                              /\ CostOf(d) <= closed'[c] + StepCost(grid, c, m)
    BY <1>2 DEF Frontier, CellOf, CostOf
  <2>1. m \in Cell /\ m # c
    BY DEF Moves
  <2>2. CASE c # x /\ m = x
    <3>1. closed'[c] = closed[c] /\ closed'[m] = g
      BY <1>6, <2>2
    <3>2. g <= closed[c] + StepCost(grid, c, m)
      BY <1>3, <2>2, <3>1
    <3> QED BY <1>4, <3>1, <3>2
  <2>3. CASE c # x /\ m # x
    <3>1. closed'[c] = closed[c] /\ closed'[m] = closed[m]
      BY <1>6, <2>1, <2>3
    <3>2. CASE closed[m] # None
      BY <1>4, <3>1, <3>2 DEF SearchInv, Frontier
    <3>3. CASE closed[m] = None
      <4>1. PICK d \in open : CellOf(d) = m /\ CostOf(d) <= closed[c] + StepCost(grid, c, m)
        BY <1>4, <3>1, <3>3 DEF SearchInv, Frontier
      <4>2. d \in open'
        BY <1>1, <2>3, <4>1
      <4> QED BY <3>1, <3>3, <4>1, <4>2
    <3> QED BY <3>2, <3>3
  <2>4. CASE c = x
    <3>1. closed'[c] = g /\ closed'[m] = closed[m]
      BY <1>6, <2>1, <2>4
    <3>2. CASE closed[m] # None
      BY <1>3, <2>4, <3>1, <3>2
    <3>3. CASE closed[m] = None
      <4>1. m \in New
        BY <2>4, <3>3
      <4>2. Extend(e, m) \in open'
        BY <1>1, <4>1
      <4>3. /\ CellOf(Extend(e, m)) = m
            /\ CostOf(Extend(e, m)) = g + StepCost(grid, x, m)
        BY <1>5, <4>1
      <4>4. g + StepCost(grid, x, m) \in Nat
        <5>1. StepCost(grid, x, m) \in Nat
          BY <1>3, <1>4, <2>1, StepCostBound
        <5> QED BY <1>3, <5>1
      <4> HIDE DEF x, g
      <4> QED BY <2>4, <3>1, <3>3, <4>2, <4>3, <4>4
    <3> QED BY <3>2, <3>3
  <2> QED BY <2>2, <2>3, <2>4
<1>15. start' \in Cell /\ target' \in Cell /\ (target # start)' /\ closed'[target'] = None
  BY <1>1, <1>2, <1>4, <1>6 DEF SearchInv
<1>16. SearchInv'
  BY <1>11, <1>12, <1>13, <1>14, <1>15 DEF SearchInv
<1> QED BY <1>2, <1>7, <1>16

\* What holds when the heap pops the target.
LEMMA TargetFacts ==
  ASSUME PlanInv, phase = "search", NEW e \in Best,
         closed[CellOf(e)] = None, CellOf(e) = target,
         closed' = [closed EXCEPT ![target] = CostOf(e)],
         UNCHANGED <<grid, start, target>>
  PROVE  /\ closed' \in [Cell -> Nat \cup {None}] /\ closed'[target] = CostOf(e)
         /\ closed'[start] = 0
         /\ \A k \in 1..Len(e.chain) : closed'[e.chain[k].cell] = e.chain[k].g
         /\ BoundIsFeasible'
<1> DEFINE g == CostOf(e)
<1>1. /\ e \in open /\ e \in Entry /\ e.chain # <<>> /\ IsWalk(e)
      /\ target \in Cell /\ g \in Nat /\ e.f = g + H(target, target)
      /\ \A d \in open : e.f <= d.f
      /\ \A c \in Cell : closed[c] # None => closed[c] \in Nat
      /\ \A c \in Cell : closed[c] # None /\ target \in Moves(grid, c)
                          => g <= closed[c] + StepCost(grid, c, target)
      /\ \A m \in Moves(grid, target) :
            closed[m] # None => closed[m] <= g + StepCost(grid, target, m)
      /\ closed[start] = 0 \/ (target = start /\ g = 0)
  BY PopFacts
<1>2. TypeOK /\ SearchInv /\ grid \in Grids /\ start \in Cell /\ target # start
  BY DEF PlanInv, SearchInv, TypeOK
<1>3. g # None /\ \A n \in Nat : n # None
  BY <1>1, GridAssumption
<1>4. /\ closed' \in [Cell -> Nat \cup {None}] /\ closed'[target] = g
      /\ \A c \in Cell : c # target => closed'[c] = closed[c]
  BY <1>1, <1>2 DEF TypeOK
<1>5. closed'[start] = 0
  BY <1>1, <1>2, <1>4
<1>6. e.f = g
  BY <1>1, HeuristicAtTarget
<1>7. ASSUME NEW k \in 1..Len(e.chain) PROVE closed'[e.chain[k].cell] = e.chain[k].g
  <2>1. Len(e.chain) \in Nat /\ e.chain[k].cell \in Cell /\ e.chain[k].g \in Nat
    BY <1>1, EntryFacts
  <2>2. CASE k = Len(e.chain)
    BY <1>4, <2>2 DEF CellOf, CostOf
  <2>3. CASE k # Len(e.chain)
    <3>1. k \in 1..(Len(e.chain) - 1)
      BY <2>1, <2>3
    <3>2. closed[e.chain[k].cell] = e.chain[k].g
      BY <1>1, <3>1 DEF IsWalk
    <3>3. e.chain[k].cell # target
      BY <1>3, <2>1, <3>2
    <3> QED BY <1>4, <2>1, <3>2, <3>3
  <2> QED BY <2>2, <2>3
<1>8. ASSUME NEW c \in Cell, NEW m \in Moves(grid, c)
      PROVE  Bound(m)' <= Bound(c)' + StepCost(grid, c, m)
  <2> DEFINE s == StepCost(grid, c, m)
             hc == H(c, target)
             hm == H(m, target)
  <2>1. m \in Cell /\ m # c /\ s \in Nat /\ hc \in Nat /\ hm \in Nat /\ hc <= s + hm
    BY <1>1, <1>2, HeuristicIsConsistent
  <2>2. ASSUME NEW k \in Cell
        PROVE  /\ closed'[k] # None => Bound(k)' = closed'[k]
               /\ closed'[k] = None => Bound(k)' = g - H(k, target)
    BY <1>4 DEF Bound
  <2>3. ASSUME NEW k \in Cell, closed'[k] # None
        PROVE  closed'[k] \in Nat /\ closed'[k] + H(k, target) <= g
    <3>1. CASE k = target
      BY <1>1, <1>4, <3>1, HeuristicAtTarget
    <3>2. CASE k # target
      <4>1. closed'[k] = closed[k] /\ closed[k] # None
        BY <1>4, <2>3, <3>2
      <4>2. closed[k] + H(k, target) <= e.f
        BY <1>1, <1>2, <4>1 DEF SearchInv, IsMonotone
      <4> QED BY <1>1, <1>6, <4>1, <4>2
    <3> QED BY <3>1, <3>2
  <2>4. CASE closed'[c] = None /\ closed'[m] = None
    <3>1. Bound(c)' = g - hc /\ Bound(m)' = g - hm
      BY <2>1, <2>2, <2>4
    <3> HIDE DEF g, s, hc, hm
    <3>2. Bound(m)' <= Bound(c)' + s
      BY <1>1, <2>1, <3>1
    <3> QED BY <3>2 DEF s
  <2>5. CASE closed'[c] = None /\ closed'[m] # None
    <3>1. Bound(c)' = g - hc /\ Bound(m)' = closed'[m]
      BY <2>1, <2>2, <2>5
    <3>2. closed'[m] \in Nat /\ closed'[m] + hm <= g
      BY <2>1, <2>3, <2>5
    <3> HIDE DEF g, s, hc, hm
    <3>3. Bound(m)' <= Bound(c)' + s
      BY <1>1, <2>1, <3>1, <3>2
    <3> QED BY <3>3 DEF s
  <2>6. CASE c = target
    <3>1. Bound(c)' = g /\ m # target /\ closed'[m] = closed[m]
      BY <1>3, <1>4, <2>1, <2>2, <2>6
    <3>2. CASE closed[m] # None
      BY <1>1, <2>1, <2>2, <2>6, <3>1, <3>2
    <3>3. CASE closed[m] = None
      <4>1. Bound(m)' = g - hm
        BY <2>1, <2>2, <3>1, <3>3
      <4> HIDE DEF g, s, hm
      <4>2. Bound(m)' <= Bound(c)' + s
        BY <1>1, <2>1, <3>1, <4>1
      <4> QED BY <4>2 DEF s
    <3> QED BY <3>2, <3>3
  <2>7. CASE c # target /\ closed'[c] # None
    <3>1. closed[c] # None /\ Bound(c)' = closed[c] /\ closed[c] \in Nat
      BY <1>1, <1>4, <2>2, <2>7
    <3>2. CASE m = target
      <4>1. Bound(m)' = g
        BY <1>3, <1>4, <2>1, <2>2, <3>2
      <4> QED BY <1>1, <3>1, <3>2, <4>1
    <3>3. CASE m # target /\ closed[m] # None
      <4>1. Bound(m)' = closed[m]
        BY <1>4, <2>1, <2>2, <3>3
      <4> QED BY <1>2, <3>1, <3>3, <4>1 DEF SearchInv, Frontier
    <3>4. CASE m # target /\ closed[m] = None
      <4>1. PICK d \in open : CellOf(d) = m /\ CostOf(d) <= closed[c] + s
        BY <1>2, <3>1, <3>4 DEF SearchInv, Frontier
      <4>2. CostOf(d) \in Nat /\ d.f = CostOf(d) + hm
        <5>1. d \in Entry /\ IsWalk(d)
          BY <1>2 DEF SearchInv, TypeOK
        <5>2. d.chain # <<>>
          BY <5>1 DEF IsWalk
        <5> QED BY <4>1, <5>1, <5>2, EntryFacts DEF IsWalk
      <4>3. g <= d.f
        BY <1>1, <1>6
      <4>4. Bound(m)' = g - hm
        BY <1>4, <2>1, <2>2, <3>4
      <4> HIDE DEF g, s, hm
      <4>5. Bound(m)' <= Bound(c)' + s
        BY <1>1, <2>1, <3>1, <4>1, <4>2, <4>3, <4>4
      <4> QED BY <4>5 DEF s
    <3> QED BY <3>2, <3>3, <3>4
  <2> QED BY <2>4, <2>5, <2>6, <2>7
<1>9. BoundIsFeasible'
  <2>1. Bound(start)' = 0
    BY <1>3, <1>5 DEF Bound
  <2> QED BY <1>8, <2>1 DEF BoundIsFeasible
<1> QED BY <1>4, <1>5, <1>7, <1>9

\* Popping the target turns the costs into a proof that its path is cheapest.
LEMMA PopTargetStep ==
  ASSUME PlanInv, PopTarget
  PROVE  PlanInv'
<1>1. PICK e \in Best :
        /\ closed[CellOf(e)] = None /\ CellOf(e) = target
        /\ closed' = [closed EXCEPT ![target] = CostOf(e)]
        /\ path' = [k \in DOMAIN e.chain |-> e.chain[k].cell]
        /\ out' = <<e.chain[1].cell>>
  BY DEF PopTarget
<1>2. /\ phase = "search" /\ phase' = "pull"
      /\ UNCHANGED <<grid, start, goal, target, open, anchor, i>>
  BY DEF PopTarget, arguments
<1> DEFINE n == Len(e.chain)
<1>3. /\ TypeOK /\ SearchInv /\ target \in Cell /\ target # start
      /\ path = <<>> /\ anchor = 1 /\ i = 2
  BY <1>2 DEF PlanInv, SearchInv
<1>4. e \in open /\ e \in Entry /\ e.chain # <<>> /\ IsWalk(e)
  BY <1>1, <1>2, PopFacts
<1>5. /\ closed' \in [Cell -> Nat \cup {None}] /\ closed'[target] = CostOf(e)
      /\ closed'[start] = 0
      /\ \A k \in 1..n : closed'[e.chain[k].cell] = e.chain[k].g
      /\ BoundIsFeasible'
  BY <1>1, <1>2, TargetFacts
<1>6. /\ n \in Nat /\ n > 0 /\ DOMAIN e.chain = 1..n
      /\ e.chain[1].cell = start /\ e.chain[n].cell = target
      /\ \A k \in 1..n : e.chain[k].cell \in Cell /\ e.chain[k].g \in Nat
  BY <1>1, <1>4, EntryFacts DEF Entry, IsWalk, RootNode, CellOf
<1>7. n > 1
  BY <1>3, <1>6
<1>8. /\ path' \in Seq(Cell) /\ Len(path') = n
      /\ \A k \in 1..n : path'[k] = e.chain[k].cell
  BY <1>1, <1>6
<1>9. TypeOK'
  BY <1>1, <1>2, <1>3, <1>5, <1>6, <1>8 DEF TypeOK
<1>10. PathIsTight'
  <2>1. ASSUME NEW k \in 1..(n - 1)
        PROVE  /\ path'[k + 1] \in Moves(grid, path'[k])
               /\ Bound(path[k + 1])' = Bound(path[k])' + StepCost(grid, path'[k], path'[k + 1])
    <3>1. k \in 1..n /\ k + 1 \in 1..n
      BY <1>6
    <3>2. \A j \in 1..n : Bound(path[j])' = e.chain[j].g
      <4> TAKE j \in 1..n
      <4>1. closed'[path'[j]] = e.chain[j].g /\ e.chain[j].g \in Nat
        BY <1>5, <1>6, <1>8
      <4>2. closed'[path'[j]] # None
        BY <4>1, GridAssumption
      <4> QED BY <4>1, <4>2 DEF Bound
    <3>3. /\ e.chain[k + 1].cell \in Moves(grid, e.chain[k].cell)
          /\ e.chain[k + 1].g =
                e.chain[k].g + StepCost(grid, e.chain[k].cell, e.chain[k + 1].cell)
      BY <1>4, <2>1 DEF IsWalk
    <3> HIDE DEF n
    <3>4. path'[k] = e.chain[k].cell /\ path'[k + 1] = e.chain[k + 1].cell
      BY <1>8, <3>1
    <3>5. /\ Bound(path[k])' = e.chain[k].g
          /\ Bound(path[k + 1])' = e.chain[k + 1].g
      BY <3>1, <3>2
    <3> QED BY <3>3, <3>4, <3>5
  <2>2. path'[1] = start /\ path'[Len(path')] = target
    BY <1>6, <1>8
  <2> HIDE DEF n
  <2>3. \A k \in 1..(Len(path') - 1) :
          /\ path'[k + 1] \in Moves(grid, path'[k])
          /\ Bound(path[k + 1])' = Bound(path[k])' + StepCost(grid, path'[k], path'[k + 1])
    BY <1>8, <2>1
  <2> QED BY <1>2, <2>2, <2>3 DEF PathIsTight
<1>11. PullInv'
  <2>1. out' = <<start>> /\ path'[1] = start
    BY <1>1, <1>6, <1>8
  <2>2. path'[2] \in Moves(grid, path'[1])
    BY <1>2, <1>6, <1>7, <1>8, <1>10 DEF PathIsTight
  <2>3. Passable(path[1], path[2])'
    BY <1>2, <2>2 DEF Passable
  <2> QED BY <1>2, <1>3, <1>6, <1>7, <1>8, <2>1, <2>3 DEF PullInv
<1> QED BY <1>2, <1>5, <1>9, <1>10, <1>11 DEF PlanInv

\* One round of the shortcut keeps its waypoints passable.
LEMMA PullStep ==
  ASSUME PlanInv, Pull
  PROVE  PlanInv'
<1>1. /\ phase = "pull" /\ phase' = "pull" /\ i < Len(path) /\ i' = i + 1
      /\ UNCHANGED <<grid, start, goal, target, open, closed, path>>
  BY DEF Pull, arguments
<1>2. TypeOK /\ BoundIsFeasible /\ PathIsTight /\ PullInv
  BY <1>1 DEF PlanInv
<1>3. /\ path \in Seq(Cell) /\ Len(path) \in Nat /\ out \in Seq(Cell)
      /\ i \in 1..Len(path) /\ i + 1 \in 1..Len(path) /\ anchor \in 1..Len(path)
      /\ path[i] \in Cell
  BY <1>1, <1>2 DEF TypeOK, PullInv
<1>4. BoundIsFeasible' /\ PathIsTight'
  BY <1>1, <1>2 DEF BoundIsFeasible, PathIsTight, Bound
<1>5. TypeOK' /\ PullInv'
  <2>1. CASE Sight(grid, path[anchor], path[i + 1]) /\ UNCHANGED <<out, anchor>>
    <3>1. TypeOK'
      BY <1>1, <1>2, <1>3, <2>1 DEF TypeOK
    <3>2. Passable(path[anchor], path[i + 1])
      BY <2>1 DEF Passable
    <3> QED BY <1>1, <1>2, <1>3, <2>1, <3>1, <3>2 DEF PullInv, Passable
  <2>2. CASE out' = Append(out, path[i]) /\ anchor' = i
    <3>1. /\ out' \in Seq(Cell) /\ Len(out') = Len(out) + 1 /\ Len(out) \in Nat
          /\ out'[Len(out) + 1] = path[i]
          /\ \A k \in 1..Len(out) : out'[k] = out[k]
      BY <1>3, <2>2
    <3>2. out # <<>> /\ Len(out) > 0
      BY <1>2, <1>3 DEF PullInv
    <3>3. TypeOK'
      BY <1>1, <1>2, <1>3, <2>2, <3>1 DEF TypeOK
    <3>4. ASSUME NEW k \in 1..(Len(out') - 1) PROVE Passable(out'[k], out'[k + 1])
      <4>1. CASE k = Len(out)
        BY <1>2, <3>1, <3>2, <4>1 DEF PullInv
      <4>2. CASE k # Len(out)
        <5>1. k \in 1..(Len(out) - 1) /\ k \in 1..Len(out) /\ k + 1 \in 1..Len(out)
          BY <3>1, <4>2
        <5> QED BY <1>2, <3>1, <5>1 DEF PullInv
      <4> QED BY <4>1, <4>2
    <3>5. Passable(path[i], path[i + 1])
      <4>1. path[i + 1] \in Moves(grid, path[i])
        BY <1>2, <1>3 DEF PathIsTight
      <4> QED BY <4>1 DEF Passable
    <3>6. out'[1] = start /\ out'[Len(out')] = path[i] /\ out' # <<>>
      BY <1>2, <3>1, <3>2 DEF PullInv
    <3>7. (\A k \in 1..(Len(out) - 1) : Passable(out[k], out[k + 1]))'
      BY <1>1, <3>4 DEF Passable
    <3>8. Passable(path[anchor], path[i])'
      BY <1>1, <2>2, <3>5 DEF Passable
    <3>9. anchor' < i' /\ anchor' \in 1..Len(path') /\ i' \in 1..Len(path')
      BY <1>1, <1>3, <2>2
    <3> QED BY <1>1, <1>2, <2>2, <3>3, <3>6, <3>7, <3>8, <3>9 DEF PullInv
  <2> QED BY <2>1, <2>2 DEF Pull
<1> QED BY <1>1, <1>4, <1>5 DEF PlanInv

\* Returning the waypoints keeps the invariant.
LEMMA ReturnStep ==
  ASSUME PlanInv, Return
  PROVE  PlanInv'
<1>1. /\ phase = "pull" /\ phase' = "returned" /\ i >= Len(path)
      /\ out' = Append(out, path[Len(path)])
      /\ UNCHANGED <<grid, start, goal, target, open, closed, path, anchor, i>>
  BY DEF Return, arguments, pulling
<1>2. TypeOK /\ BoundIsFeasible /\ PathIsTight /\ PullInv
  BY <1>1 DEF PlanInv
<1>3. /\ path \in Seq(Cell) /\ out \in Seq(Cell) /\ i = Len(path)
      /\ path[Len(path)] = target /\ target \in Cell
  BY <1>1, <1>2 DEF TypeOK, PullInv, PathIsTight
<1>4. /\ out' \in Seq(Cell) /\ Len(out') = Len(out) + 1 /\ Len(out) \in Nat
      /\ out'[Len(out) + 1] = target
      /\ \A k \in 1..Len(out) : out'[k] = out[k]
  BY <1>1, <1>3
<1>5. Len(out) > 0
  BY <1>2, <1>3 DEF PullInv
<1>6. ASSUME NEW k \in 1..(Len(out') - 1) PROVE Passable(out'[k], out'[k + 1])
  <2>1. CASE k = Len(out)
    BY <1>2, <1>3, <1>4, <1>5, <2>1 DEF PullInv
  <2>2. CASE k # Len(out)
    <3>1. k \in 1..(Len(out) - 1) /\ k \in 1..Len(out) /\ k + 1 \in 1..Len(out)
      BY <1>4, <2>2
    <3> QED BY <1>2, <1>4, <3>1 DEF PullInv
  <2> QED BY <2>1, <2>2
<1>7. out'[1] = start /\ out'[Len(out')] = target /\ out' # <<>>
  BY <1>2, <1>4, <1>5 DEF PullInv
<1>8. ShortcutIsSafe'
  BY <1>1, <1>6, <1>7 DEF ShortcutIsSafe, Passable
<1>9. FoundIsCheapest'
  BY <1>1, <1>2 DEF FoundIsCheapest, BoundIsFeasible, PathIsTight, Bound
<1>10. FailureIsGenuine'
  BY <1>7 DEF FailureIsGenuine
<1>11. TypeOK'
  BY <1>1, <1>2, <1>4 DEF TypeOK
<1> QED BY <1>1, <1>8, <1>9, <1>10, <1>11 DEF PlanInv

\* The invariant reads nothing but the planner's variables.
LEMMA StutterStep ==
  ASSUME PlanInv, UNCHANGED vars
  PROVE  PlanInv'
<1>1. UNCHANGED <<grid, start, goal, phase, target, open, closed, path, anchor, i, out>>
  BY DEF vars, arguments, pulling
<1>2. TypeOK'
  BY <1>1 DEF PlanInv, TypeOK
<1>3. phase = "search" => SearchInv'
  BY <1>1 DEF PlanInv, SearchInv, IsWalk, IsRooted, IsMonotone, Frontier, RootNode, CellOf, CostOf
<1>4. phase = "pull" => BoundIsFeasible' /\ PathIsTight' /\ PullInv'
  BY <1>1 DEF PlanInv, BoundIsFeasible, PathIsTight, Bound, PullInv, Passable
<1>5. phase = "returned" => FoundIsCheapest' /\ FailureIsGenuine' /\ ShortcutIsSafe'
  BY <1>1 DEF PlanInv, FoundIsCheapest, Found, BoundIsFeasible, PathIsTight, Bound,
              FailureIsGenuine, Expanded, ShortcutIsSafe, Passable
<1> QED BY <1>1, <1>2, <1>3, <1>4, <1>5 DEF PlanInv

-----------------------------------------------------------------------------
(* The theorems                                                            *)

\* The inductive invariant of one call of plan().
THEOREM PlannerInvariance == Spec => []PlanInv
<1>1. Init => PlanInv
  BY PlanInit
<1>2. PlanInv /\ [Next]_vars => PlanInv'
  <2> SUFFICES ASSUME PlanInv, [Next]_vars PROVE PlanInv'
    OBVIOUS
  <2>1. CASE SelectLocalGoal
    BY <2>1, SelectStep
  <2>2. CASE HeapEmpty
    BY <2>2, HeapEmptyStep
  <2>3. CASE SkipClosed
    BY <2>3, SkipStep
  <2>4. CASE PopTarget
    BY <2>4, PopTargetStep
  <2>5. CASE Expand
    BY <2>5, ExpandStep
  <2>6. CASE Pull
    BY <2>6, PullStep
  <2>7. CASE Return
    BY <2>7, ReturnStep
  <2>8. CASE UNCHANGED vars
    BY <2>8, StutterStep
  <2> QED BY <2>1, <2>2, <2>3, <2>4, <2>5, <2>6, <2>7, <2>8 DEF Next
<1> QED BY <1>1, <1>2, PTL DEF Spec

\* The planner's state is well typed.
THEOREM PlannerTypes == Spec => []TypeOK
<1>1. PlanInv => TypeOK
  BY DEF PlanInv
<1> QED BY <1>1, PlannerInvariance, PTL

\* On every grid, at every cost of the cells, no walk to the local goal costs
\* less than the path _a_star returns.
THEOREM SearchIsOptimal == Spec => []FoundIsCheapest
<1>1. PlanInv => FoundIsCheapest
  <2> SUFFICES ASSUME PlanInv, Found PROVE BoundIsFeasible /\ PathIsTight
    BY DEF FoundIsCheapest
  <2> QED BY DEF PlanInv, FoundIsCheapest, Found
<1> QED BY <1>1, PlannerInvariance, PTL

\* plan() returns None only if no walk leads to the local goal.
THEOREM FailureHasAReason == Spec => []FailureIsGenuine
<1>1. PlanInv => FailureIsGenuine
  BY DEF PlanInv, FailureIsGenuine
<1> QED BY <1>1, PlannerInvariance, PTL

\* The waypoints lead from the robot to the local goal through legal moves and
\* lines of free cells.
THEOREM ShortcutCutsNothing == Spec => []ShortcutIsSafe
<1>1. PlanInv => ShortcutIsSafe
  BY DEF PlanInv, ShortcutIsSafe
<1> QED BY <1>1, PlannerInvariance, PTL
=============================================================================
