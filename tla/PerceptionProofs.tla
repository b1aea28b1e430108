-------------------------- MODULE PerceptionProofs --------------------------
(***************************************************************************)
(* What the local map shows of the world, and when the global map blocks,  *)
(* for every world, every window and every decay.                          *)
(***************************************************************************)
EXTENDS Perception, FiniteSetTheorems, TLAPS

\* The assumptions on the constants, in the terms of the module.
LEMMA Constants ==
    /\ Columns \subseteq Int /\ Heights \subseteq Int
    /\ IsFiniteSet(Columns) /\ IsFiniteSet(Heights)
    /\ FloorHeight \in Heights /\ ObstacleHeight \in Heights
    /\ TileWidth \in Nat \ {0} /\ MinPts \in Nat \ {0} /\ MinTotal \in Nat
    /\ GroundBand \in Nat /\ MaxHeight \in Nat /\ Foot \in Int
    /\ HalfWidth \in Nat /\ MinRange \in Nat /\ ZBelow \in Int /\ ZAbove \in Int
    /\ Persistence \in Nat /\ FirstBeats \in Nat /\ BeatPeriod \in Nat \ {0}
    /\ Scale \in Nat \ {0} /\ DecayDen \in Nat \ {0} /\ DecayNum \in Nat
    /\ DecayNum <= DecayDen /\ HitThreshold \in Nat \ {0} /\ HitCap \in Nat
    /\ Goals \subseteq Columns /\ Watched \in Columns /\ Stops \subseteq Int
    /\ None \notin Int
BY PerceptionAssumption
   DEF LocalMap!LocalMapConstants, LocalMap!GroundConstants,
       Global!GlobalPlannerConstants, Global!CostmapConstants

-----------------------------------------------------------------------------
(* Decay                                                                   *)

\* A product of a larger number and one that is not negative is no smaller.
LEMMA Monotone ==
    ASSUME NEW a \in Int, NEW b \in Int, NEW d \in Nat, a <= b
    PROVE  d * a <= d * b
<1>1. d * (b - a) >= 0
  BY SMT
<1>2. d * (b - a) = d * b - d * a
  BY SMT
<1> QED BY <1>1, <1>2

\* A quotient is below a number when the dividend is below its multiple.
LEMMA QuotientBelow ==
    ASSUME NEW a \in Int, NEW d \in Nat \ {0}, NEW n \in Int, a < d * n
    PROVE  a \div d \in Int /\ a \div d < n
<1> DEFINE q == a \div d
<1>1. q \in Int /\ d * q <= a
  OBVIOUS
<1>2. SUFFICES ASSUME n <= q PROVE FALSE
  BY <1>1
<1>3. d * n <= d * q
  BY <1>1, <1>2, Monotone
<1>4. d * n \in Int /\ d * q \in Int
  BY <1>1
<1> HIDE DEF q
<1> QED BY <1>1, <1>3, <1>4

\* Decay keeps the order, never lifts a count, and lowers every positive one.
LEMMA DecayFacts ==
    ASSUME NEW n \in Nat
    PROVE  /\ Global!Decayed(n) \in 0..n
           /\ n > 0 => Global!Decayed(n) < n
           /\ \A m \in Nat : m <= n => Global!Decayed(m) <= Global!Decayed(n)
<1> USE Constants DEF Global!Decayed
<1>1. n * DecayNum \in Nat /\ n * DecayNum <= n * DecayDen
  BY Monotone
<1>2. (n * DecayNum) \div DecayDen \in Nat
  BY <1>1
<1>3. (n * DecayNum) \div DecayDen < n + 1
  <2>1. DecayDen * (n + 1) = n * DecayDen + DecayDen /\ DecayDen * (n + 1) \in Int
    OBVIOUS
  <2>2. n * DecayNum < DecayDen * (n + 1)
    BY <1>1, <2>1
  <2> QED BY <1>1, <2>2, QuotientBelow
<1>4. ASSUME n > 0 PROVE (n * DecayNum) \div DecayDen < n
  <2>1. DecayNum + 1 <= DecayDen
    BY DecayAssumption
  <2>2. n * (DecayNum + 1) <= n * DecayDen
    BY <2>1, Monotone
  <2>3. n * (DecayNum + 1) = n * DecayNum + n /\ n * DecayDen = DecayDen * n
    OBVIOUS
  <2>4. n * DecayNum < DecayDen * n
    BY <1>1, <1>4, <2>2, <2>3
  <2> QED BY <1>1, <2>4, QuotientBelow
<1>5. ASSUME NEW m \in Nat, m <= n
      PROVE  (m * DecayNum) \div DecayDen <= (n * DecayNum) \div DecayDen
  <2> DEFINE q == (n * DecayNum) \div DecayDen
  <2>1. DecayNum * m <= DecayNum * n
    BY <1>5, Monotone
  <2>2. n * DecayNum < DecayDen * q + DecayDen /\ q \in Int
    BY <1>1
  <2>3. DecayDen * (q + 1) = DecayDen * q + DecayDen /\ DecayDen * (q + 1) \in Int
    BY <2>2
  <2>4. m * DecayNum = DecayNum * m /\ n * DecayNum = DecayNum * n /\ m * DecayNum \in Int
    OBVIOUS
  <2>5. m * DecayNum < DecayDen * (q + 1)
    BY <1>1, <2>1, <2>2, <2>3, <2>4
  <2> HIDE DEF q
  <2>6. (m * DecayNum) \div DecayDen < q + 1 /\ (m * DecayNum) \div DecayDen \in Int
    BY <2>2, <2>4, <2>5, QuotientBelow
  <2> QED BY <2>2, <2>6 DEF q
<1> QED BY <1>2, <1>3, <1>4, <1>5

\* A count stays within the cap.
LEMMA CountTyped ==
    ASSUME NEW n \in 0..HitCap, NEW hit \in BOOLEAN
    PROVE  Global!Count(n, hit) \in 0..HitCap
<1>1. Global!Decayed(n) \in 0..n
  BY DecayFacts, Constants
<1> QED BY <1>1, Constants DEF Global!Count, Global!Capped

-----------------------------------------------------------------------------
(* Ground                                                                  *)

\* Columns that are no further apart than a tile is wide lie in the same tile or
\* in neighbouring ones.
LEMMA NeighbouringTiles ==
    ASSUME NEW c \in Int, NEW d \in Int, LocalMap!Gap(c, d) <= TileWidth
    PROVE  d \div TileWidth \in (c \div TileWidth - 1)..(c \div TileWidth + 1)
<1> DEFINE p == c \div TileWidth
           q == d \div TileWidth
<1> USE Constants
<1>1. p \in Int /\ TileWidth * p <= c /\ c < TileWidth * p + TileWidth
  OBVIOUS
<1>2. q \in Int /\ TileWidth * q <= d /\ d < TileWidth * q + TileWidth
  OBVIOUS
<1>3. c <= d + TileWidth /\ d <= c + TileWidth
  BY DEF LocalMap!Gap
<1>4. \A x \in Int : TileWidth * (x + 2) = TileWidth * x + TileWidth + TileWidth
  OBVIOUS
<1>5. TileWidth * p \in Int /\ TileWidth * q \in Int
  BY <1>1, <1>2
<1> HIDE DEF p, q
<1>6. q <= p + 1
  <2>1. SUFFICES ASSUME p + 2 <= q PROVE FALSE
    BY <1>1, <1>2
  <2>2. TileWidth * (p + 2) <= TileWidth * q
    BY <1>1, <1>2, <2>1, Monotone
  <2> QED BY <1>1, <1>2, <1>3, <1>4, <1>5, <2>2
<1>7. p - 1 <= q
  <2>1. SUFFICES ASSUME q + 2 <= p PROVE FALSE
    BY <1>1, <1>2
  <2>2. TileWidth * (q + 2) <= TileWidth * p
    BY <1>1, <1>2, <2>1, Monotone
  <2> QED BY <1>1, <1>2, <1>3, <1>4, <1>5, <2>2
<1> QED BY <1>1, <1>2, <1>6, <1>7 DEF p, q

\* The lowest of two heights.
LEMMA MinOfTwo ==
    ASSUME NEW heights, NEW low \in Int, NEW high \in Int, low <= high,
           low \in heights, heights \subseteq {low, high}
    PROVE  LocalMap!Min(heights) = low
<1>1. \A x \in heights : low <= x
  OBVIOUS
<1> DEFINE lowest == LocalMap!Min(heights)
<1>2. lowest \in heights /\ \A y \in heights : lowest <= y
  BY <1>1 DEF LocalMap!Min
<1> HIDE DEF lowest
<1>3. lowest <= low /\ (lowest = low \/ lowest = high)
  BY <1>2
<1>4. lowest = low
  BY <1>3
<1> QED BY <1>4 DEF lowest

-----------------------------------------------------------------------------
(* The inductive invariant                                                 *)

\* What every scan of the world is made of.
Visible == [x : Columns, h : {FloorHeight, ObstacleHeight}]

\* A scan shows voxels of the world.
LEMMA SceneryTyped == TypeOK => Scenery \subseteq Visible /\ Visible \subseteq LocalMap!Voxels
BY Constants DEF TypeOK, Scenery, Visible, LocalMap!Voxels

\* The perception starts in the invariant.
LEMMA InitInv == Init => PerceptionInv
<1> SUFFICES ASSUME Init PROVE PerceptionInv
  OBVIOUS
<1> USE Constants DEF Init, LocalMap!LocalInit, Global!GlobalInit, Global!CostmapInit
<1>1. LocalMap!LocalTypeOK
  BY DEF LocalMap!LocalTypeOK, LocalMap!OldVoxel
<1>2. Global!GlobalTypeOK
  <2>1. occ \in [Columns -> 0..HitCap]
    OBVIOUS
  <2>2. origin \in Int \cup {None} /\ free \subseteq Columns
    OBVIOUS
  <2>3. /\ pose \in Int \cup {None} /\ {global_goal, route} \subseteq Goals \cup {None}
        /\ obs \in (SUBSET Columns) \cup {None}
    OBVIOUS
  <2> QED BY <2>1, <2>2, <2>3 DEF Global!GlobalTypeOK, Global!CostmapTypeOK
<1>3. LocalMap!Centers(last_seen) = {}
  BY DEF LocalMap!Centers, LocalMap!OldVoxel
<1> QED BY <1>1, <1>2, <1>3 DEF PerceptionInv, TypeOK, Enough

\* The heartbeat goes on counting in its range.
LEMMA BeatTyped == LocalMap!LocalTypeOK => LocalMap!NextBeat \in 0..(FirstBeats + BeatPeriod)
BY Constants DEF LocalMap!LocalTypeOK, LocalMap!NextBeat

\* After a scan the window holds what it showed, and what it held before.
LEMMA ScanStep ==
    ASSUME PerceptionInv, NEW points \in SUBSET Visible, LocalMap!OnCloud(points)
    PROVE  /\ LocalMap!LocalTypeOK'
           /\ \A v \in LocalMap!Centers(last_seen') : v.h \in {FloorHeight, ObstacleHeight}
           /\ UNCHANGED robot
           /\ last_seen' = LocalMap!Accumulated(LocalMap!Cropped(points))
<1> USE Constants DEF PerceptionInv, TypeOK
<1> DEFINE hits == LocalMap!Cropped(points)
<1>1. last_seen' = LocalMap!Accumulated(hits) /\ UNCHANGED robot
  BY DEF LocalMap!OnCloud
<1>2. hits \subseteq Visible
  BY DEF LocalMap!Cropped
<1> HIDE DEF hits
<1>3. last_seen \in [LocalMap!Voxels -> 0..LocalMap!OldVoxel]
  BY DEF LocalMap!LocalTypeOK
<1>4. LocalMap!OldVoxel \in Nat /\ LocalMap!OldVoxel > Persistence
  BY DEF LocalMap!OldVoxel
<1>5. last_seen' \in [LocalMap!Voxels -> 0..LocalMap!OldVoxel]
  BY <1>1, <1>3, <1>4 DEF LocalMap!Accumulated
<1>6. ASSUME NEW v \in LocalMap!Centers(last_seen')
      PROVE  v.h \in {FloorHeight, ObstacleHeight}
  <2>1. v \in LocalMap!Voxels /\ last_seen'[v] <= Persistence
    BY <1>6 DEF LocalMap!Centers
  <2>2. CASE v \in hits
    BY <1>2, <2>2 DEF Visible
  <2>3. CASE v \notin hits
    <3>1. last_seen'[v] = last_seen[v]
      BY <1>1, <1>4, <2>1, <2>3 DEF LocalMap!Accumulated
    <3> QED BY <2>1, <3>1 DEF LocalMap!Centers
  <2> QED BY <2>2, <2>3
<1>7. LocalMap!LocalTypeOK'
  BY <1>1, <1>5, BeatTyped DEF LocalMap!OnCloud, LocalMap!LocalTypeOK
<1> QED BY <1>1, <1>6, <1>7 DEF hits

\* What is published are columns of the world.
LEMMA PublishedTyped ==
    ASSUME NEW ages PROVE LocalMap!ObstaclesOf(LocalMap!Centers(ages)) \subseteq Columns
<1> DEFINE raw == LocalMap!Centers(ages)
<1>1. raw \subseteq LocalMap!Voxels
  BY DEF LocalMap!Centers
<1>2. LocalMap!SegmentGround(raw) \subseteq raw
  BY DEF LocalMap!SegmentGround
<1> HIDE DEF raw
<1>3. LocalMap!ObstaclesOf(raw) \subseteq Columns
  BY <1>1, <1>2 DEF LocalMap!ObstaclesOf, LocalMap!Voxels
<1> QED BY <1>3 DEF raw

\* A scan, whether or not the planners hear of it.
LEMMA ScanKeepsInv ==
    ASSUME PerceptionInv, NEW points \in {Scenery, {}}, Scan(points)
    PROVE  PerceptionInv'
<1>1. points \in SUBSET Visible /\ LocalMap!OnCloud(points) /\ UNCHANGED <<world, counted>>
  BY SceneryTyped DEF PerceptionInv, Scan
<1>2. /\ LocalMap!LocalTypeOK'
      /\ \A v \in LocalMap!Centers(last_seen') : v.h \in {FloorHeight, ObstacleHeight}
  BY <1>1, ScanStep
<1>3. Global!GlobalTypeOK' /\ UNCHANGED <<origin, occ, free, pose, global_goal, route>>
  <2>1. CASE UNCHANGED global
    BY <2>1 DEF global, PerceptionInv, TypeOK, Global!GlobalTypeOK, Global!CostmapTypeOK
  <2>2. CASE Global!ObsCb(LocalMap!ObstaclesOf(LocalMap!Centers(last_seen')))
    BY <2>2, PublishedTyped DEF Global!ObsCb, Global!costmap, PerceptionInv, TypeOK,
       Global!GlobalTypeOK, Global!CostmapTypeOK
  <2> QED BY <2>1, <2>2 DEF Scan
<1> QED BY <1>1, <1>2, <1>3 DEF PerceptionInv, TypeOK

\* A replan: one step of decay, and at most one hit in the watched cell.
LEMMA ReplanKeepsInv == PerceptionInv /\ Replan => PerceptionInv'
<1> SUFFICES ASSUME PerceptionInv, Replan PROVE PerceptionInv'
  OBVIOUS
<1> USE Constants
<1> DEFINE hit(c) == Global!InGrid(c, pose) /\ \E d \in Global!InRange : Global!Index(d, pose) = c
<1>1. Global!UpdateCostmap(Global!InRange, pose) /\ pose \in Int
  BY DEF Replan, Global!ReplanCb, PerceptionInv, TypeOK, Global!GlobalTypeOK
<1>2. occ \in [Columns -> 0..HitCap] /\ counted \in 0..3
  BY DEF PerceptionInv, TypeOK, Global!GlobalTypeOK, Global!CostmapTypeOK, Enough
<1>3. occ' = [c \in Columns |-> Global!Count(occ[c], hit(c))]
  BY <1>1 DEF Global!UpdateCostmap
<1>4. occ' \in [Columns -> 0..HitCap]
  BY <1>2, <1>3, CountTyped
<1>5. Global!GlobalTypeOK'
  <2>1. origin' \in Int \cup {None}
    BY <1>1 DEF Global!UpdateCostmap, Global!Origin, PerceptionInv, TypeOK,
       Global!GlobalTypeOK, Global!CostmapTypeOK
  <2>2. free' \subseteq Columns
    BY <1>1 DEF Global!UpdateCostmap, Global!Disk, PerceptionInv, TypeOK,
       Global!GlobalTypeOK, Global!CostmapTypeOK
  <2>3. /\ pose' \in Int \cup {None} /\ {global_goal', route'} \subseteq Goals \cup {None}
        /\ obs' \in (SUBSET Columns) \cup {None}
    BY DEF Replan, Global!ReplanCb, PerceptionInv, TypeOK, Global!GlobalTypeOK
  <2> QED BY <1>4, <2>1, <2>2, <2>3 DEF Global!GlobalTypeOK, Global!CostmapTypeOK
<1>6. /\ LocalMap!LocalTypeOK' /\ world' \subseteq Columns
      /\ \A v \in LocalMap!Centers(last_seen') : v.h \in {FloorHeight, ObstacleHeight}
  BY DEF Replan, local, PerceptionInv, TypeOK, LocalMap!LocalTypeOK
<1> DEFINE n == occ[Watched]
           m == occ'[Watched]
<1>7. n \in Nat /\ m \in Nat /\ m = Global!Count(n, hit(Watched))
  BY <1>2, <1>3, <1>4
<1>8. /\ Global!Decayed(n) \in 0..n
      /\ Global!Decayed(Scale) \in Nat
      /\ n <= Scale => Global!Decayed(n) <= Global!Decayed(Scale)
      /\ m <= Global!Decayed(n) + Scale
      /\ ~hit(Watched) => m <= n
  <2>1. Global!Decayed(n) \in 0..n /\ Global!Decayed(Scale) \in Nat
    BY <1>7, DecayFacts
  <2>2. n <= Scale => Global!Decayed(n) <= Global!Decayed(Scale)
    BY <1>7, DecayFacts
  <2> HIDE DEF n, m, hit
  <2>3. m <= Global!Decayed(n) + Scale /\ (~hit(Watched) => m <= n)
    BY <1>7, <2>1 DEF Global!Count, Global!Capped
  <2> QED BY <2>1, <2>2, <2>3
<1>9. \/ m = 0 /\ counted' = 0
      \/ counted < 3 /\ counted' = counted + 1
      \/ counted' = counted /\ (counted = 3 \/ ~hit(Watched))
  BY <1>2 DEF Replan, Enough
<1>10. /\ counted = 0 => n = 0
       /\ counted = 1 => n <= Scale
       /\ counted = 2 => n <= Global!Decayed(Scale) + Scale
  BY DEF PerceptionInv
<1> HIDE DEF n, m, hit
<1>11. /\ counted' \in 0..3
       /\ counted' = 0 => m = 0
       /\ counted' = 1 => m <= Scale
       /\ counted' = 2 => m <= Global!Decayed(Scale) + Scale
  <2>1. CASE m = 0 /\ counted' = 0
    BY <2>1, <1>7
  <2>2. CASE counted < 3 /\ counted' = counted + 1
    <3>1. CASE counted = 0
      BY <1>7, <1>8, <1>10, <2>2, <3>1
    <3>2. CASE counted = 1
      BY <1>7, <1>8, <1>10, <2>2, <3>2
    <3>3. CASE counted = 2
      BY <1>7, <2>2, <3>3
    <3> QED BY <1>2, <2>2, <3>1, <3>2, <3>3
  <2>3. CASE counted' = counted /\ (counted = 3 \/ ~hit(Watched))
    BY <1>2, <1>7, <1>8, <1>10, <2>3
  <2> QED BY <1>9, <2>1, <2>2, <2>3
<1> QED BY <1>5, <1>6, <1>11 DEF PerceptionInv, TypeOK, Enough, m

\* Every other step leaves window and counts alone, or lets the window age.
LEMMA OthersKeepInv ==
    ASSUME PerceptionInv,
           \/ WorldChanges \/ (\E x \in Stops : Odometry(x)) \/ (\E g \in Goals : SendGoal(g))
           \/ Tick \/ UNCHANGED vars
    PROVE  PerceptionInv'
<1> USE Constants DEF PerceptionInv, TypeOK, LocalMap!LocalTypeOK, Global!GlobalTypeOK,
        Global!CostmapTypeOK
<1>1. CASE WorldChanges
  BY <1>1 DEF WorldChanges, local, global
<1>2. ASSUME NEW x \in Stops, Odometry(x) PROVE PerceptionInv'
  BY <1>2 DEF Odometry, LocalMap!OnOdom, Global!OdomCb, Global!costmap, local
<1>3. ASSUME NEW g \in Goals, SendGoal(g) PROVE PerceptionInv'
  BY <1>3 DEF SendGoal, Global!GoalCb, Global!costmap, local
<1>4. CASE Tick
  <2>1. last_seen \in [LocalMap!Voxels -> 0..LocalMap!OldVoxel] /\ LocalMap!OldVoxel \in Nat
    BY DEF LocalMap!OldVoxel
  <2>2. /\ last_seen' \in [LocalMap!Voxels -> 0..LocalMap!OldVoxel]
        /\ \A v \in LocalMap!Voxels : last_seen[v] <= last_seen'[v]
    BY <1>4, <2>1 DEF Tick, LocalMap!VoxelsAge
  <2>3. LocalMap!Centers(last_seen') \subseteq LocalMap!Centers(last_seen)
    BY <2>1, <2>2 DEF LocalMap!Centers
  <2> QED BY <1>4, <2>2, <2>3 DEF Tick, LocalMap!VoxelsAge, global
<1>5. CASE UNCHANGED vars
  BY <1>5 DEF vars, local, global
<1> QED BY <1>1, <1>2, <1>3, <1>4, <1>5

\* PerceptionInv holds in every reachable state.
THEOREM PerceptionInvariance == Spec => []PerceptionInv
<1>1. PerceptionInv /\ [Next]_vars => PerceptionInv'
  BY ScanKeepsInv, ReplanKeepsInv, OthersKeepInv DEF Next
<1> QED BY InitInv, <1>1, PTL DEF Spec

-----------------------------------------------------------------------------
(* What is published                                                       *)

\* Each column of the world that a scan shows is in the window afterwards.
LEMMA ShownIsHeld ==
    ASSUME PerceptionInv, LocalMap!OnCloud(Scenery), NEW e \in Columns, Shown(e)
    PROVE  [x |-> e, h |-> IF e \in world THEN ObstacleHeight ELSE FloorHeight]
               \in LocalMap!Centers(last_seen')
<1> DEFINE v == [x |-> e, h |-> IF e \in world THEN ObstacleHeight ELSE FloorHeight]
<1> USE Constants
<1>1. v \in Scenery /\ v.x = e /\ v.h \in {FloorHeight, ObstacleHeight}
  BY DEF Scenery, PerceptionInv, TypeOK
<1>2. v \in LocalMap!Voxels
  BY SceneryTyped, <1>1 DEF PerceptionInv
<1> HIDE DEF v
<1>3. v \in LocalMap!Cropped(Scenery)
  BY <1>1, WorldAssumption DEF LocalMap!Cropped, Shown
<1>4. last_seen' = LocalMap!Accumulated(LocalMap!Cropped(Scenery))
  BY DEF LocalMap!OnCloud
<1>5. LocalMap!Gap(v.x, robot) \in Int /\ LocalMap!Gap(v.x, robot) <= HalfWidth
  BY <1>1 DEF Shown
<1>6. last_seen'[v] = 0
  BY <1>2, <1>3, <1>4, <1>5 DEF LocalMap!Accumulated
<1> QED BY <1>2, <1>6 DEF LocalMap!Centers, v

\* The local map counts with the cardinality that the library's theorems speak of.
LEMMA SameCardinality == \A S : LocalMap!Cardinality(S) = Cardinality(S)
  BY DEF Cardinality, LocalMap!Cardinality

\* The window is finite.
LEMMA WindowIsFinite == \A ages : IsFiniteSet(LocalMap!Centers(ages))
<1> USE Constants
<1>1. IsFiniteSet(Columns \X Heights)
  BY FS_Product
<1> DEFINE voxel == [p \in Columns \X Heights |-> [x |-> p[1], h |-> p[2]]]
<1>2. voxel \in [Columns \X Heights -> LocalMap!Voxels]
  BY DEF LocalMap!Voxels
<1>3. \A v \in LocalMap!Voxels : \E p \in Columns \X Heights : voxel[p] = v
  <2> SUFFICES ASSUME NEW v \in LocalMap!Voxels
               PROVE  \E p \in Columns \X Heights : voxel[p] = v
    OBVIOUS
  <2>1. v.x \in Columns /\ v.h \in Heights /\ v = [x |-> v.x, h |-> v.h]
    BY DEF LocalMap!Voxels
  <2>2. <<v.x, v.h>> \in Columns \X Heights /\ voxel[<<v.x, v.h>>] = v
    BY <2>1
  <2> QED BY <2>2
<1>4. voxel \in Surjection(Columns \X Heights, LocalMap!Voxels)
  BY <1>2, <1>3 DEF Surjection
<1>5. IsFiniteSet(LocalMap!Voxels)
  BY <1>1, <1>4, FS_Surjection
<1> QED BY <1>5, FS_Subset DEF LocalMap!Centers

\* Ground that is known by its columns is known by their voxels.
LEMMA KnownGroundIsPopulated ==
    ASSUME PerceptionInv, LocalMap!OnCloud(Scenery), NEW d \in Columns, GroundKnown(d)
    PROVE  LocalMap!Populated(LocalMap!Centers(last_seen'), d \div TileWidth)
<1> USE Constants
<1> DEFINE raw   == LocalMap!Centers(last_seen')
           tile  == LocalMap!InTile(raw, d \div TileWidth)
           cols  == {v.x : v \in tile}
           shown == {e \in Columns : Shown(e) /\ e \div TileWidth = d \div TileWidth}
<1>1. IsFiniteSet(tile)
  BY WindowIsFinite, FS_Subset DEF LocalMap!InTile
<1>2. shown \subseteq cols
  <2> SUFFICES ASSUME NEW e \in shown PROVE e \in cols
    OBVIOUS
  <2> DEFINE v == [x |-> e, h |-> IF e \in world THEN ObstacleHeight ELSE FloorHeight]
  <2>1. v \in raw /\ v.x = e
    BY ShownIsHeld
  <2> HIDE DEF v
  <2>2. v \in tile
    BY <2>1 DEF LocalMap!InTile, LocalMap!Tile
  <2> QED BY <2>1, <2>2
<1> HIDE DEF tile
<1> DEFINE column == [v \in tile |-> v.x]
<1>3. column \in Surjection(tile, cols)
  BY DEF Surjection
<1>4. IsFiniteSet(cols) /\ Cardinality(cols) <= Cardinality(tile)
  BY <1>1, <1>3, FS_Surjection
<1>5. IsFiniteSet(shown) /\ Cardinality(shown) <= Cardinality(cols)
  BY <1>2, <1>4, FS_Subset
<1>6. Cardinality(shown) >= MinPts
  BY DEF GroundKnown
<1>7. Cardinality(shown) \in Nat /\ Cardinality(cols) \in Nat /\ Cardinality(tile) \in Nat
  BY <1>1, <1>4, <1>5, FS_CardinalityType
<1> HIDE DEF shown, cols
<1>8. Cardinality(tile) >= MinPts
  BY <1>4, <1>5, <1>6, <1>7
<1>9. Cardinality(LocalMap!InTile(raw, d \div TileWidth)) >= MinPts
  BY <1>8 DEF tile
<1> QED BY <1>9, SameCardinality DEF LocalMap!Populated

\* The ground that is pooled in a tile is the floor where some of it is known, and
\* else no lower.
LEMMA PooledHeights ==
    ASSUME NEW raw, \A v \in raw : v.h \in {FloorHeight, ObstacleHeight}, NEW t
    PROVE  /\ FloorHeight \in LocalMap!Pooled(raw, t)
                 => LocalMap!GroundAt(LocalMap!Pooled(raw, t)) = FloorHeight
           /\ FloorHeight \notin LocalMap!Pooled(raw, t)
                 => LocalMap!GroundAt(LocalMap!Pooled(raw, t)) \in {ObstacleHeight, Foot}
<1> USE Constants, WorldAssumption
<1> DEFINE heights == LocalMap!Pooled(raw, t)
<1>1. heights \subseteq {FloorHeight, ObstacleHeight}
  BY DEF LocalMap!Pooled
<1>2. FloorHeight \in Int /\ ObstacleHeight \in Int /\ FloorHeight <= ObstacleHeight
  OBVIOUS
<1> HIDE DEF heights
<1>3. CASE FloorHeight \in heights
  <2>1. LocalMap!Min(heights) = FloorHeight
    BY <1>1, <1>2, <1>3, MinOfTwo
  <2> QED BY <1>3, <2>1 DEF LocalMap!GroundAt, heights
<1>4. CASE FloorHeight \notin heights /\ heights # {}
  <2>1. ObstacleHeight \in heights /\ heights \subseteq {ObstacleHeight, ObstacleHeight}
    BY <1>1, <1>4
  <2> DEFINE high == ObstacleHeight
  <2>2. high \in Int /\ high <= high /\ high \in heights /\ heights \subseteq {high, high}
    BY <1>2, <2>1
  <2> HIDE DEF high
  <2>3. LocalMap!Min(heights) = high
    BY <2>2, MinOfTwo
  <2> QED BY <1>4, <2>3 DEF LocalMap!GroundAt, heights, high
<1>5. CASE heights = {}
  BY <1>5 DEF LocalMap!GroundAt, heights
<1> QED BY <1>3, <1>4, <1>5

\* The step that brings an obstacle to the planners.
LEMMA ObstacleIsPublished ==
    ASSUME PerceptionInv, GoodScan, NEW c \in world, NEW d \in Columns \ world,
           Shown(c), Shown(d), GroundKnown(d), LocalMap!Gap(c, d) <= TileWidth
    PROVE  obs' # None /\ c \in obs'
<1> USE Constants
<1> DEFINE raw      == LocalMap!Centers(last_seen')
           obstacle == [x |-> c, h |-> ObstacleHeight]
           floor    == [x |-> d, h |-> FloorHeight]
<1>1. LocalMap!OnCloud(Scenery) /\ Global!ObsCb(LocalMap!ObstaclesOf(raw))
  BY DEF GoodScan
<1>2. c \in Columns /\ c \in Int /\ d \in Int
  BY DEF PerceptionInv, TypeOK
<1>3. obstacle \in raw /\ floor \in raw
  BY <1>1, <1>2, ShownIsHeld
<1>4. \A v \in raw : v.h \in {FloorHeight, ObstacleHeight}
  BY <1>1, ScanStep, SceneryTyped DEF PerceptionInv
<1>5. LocalMap!Populated(raw, d \div TileWidth)
  BY <1>1, KnownGroundIsPopulated
<1>6. d \div TileWidth \in (c \div TileWidth - 1)..(c \div TileWidth + 1)
  BY <1>2, NeighbouringTiles
<1> HIDE DEF raw
<1>7. FloorHeight \in LocalMap!Pooled(raw, c \div TileWidth)
  <2>1. floor.x = d /\ floor.h = FloorHeight
    OBVIOUS
  <2> HIDE DEF floor
  <2> QED BY <1>3, <1>5, <1>6, <2>1 DEF LocalMap!Pooled, LocalMap!Tile
<1>8. obstacle.x = c /\ obstacle.h = ObstacleHeight
  OBVIOUS
<1> HIDE DEF obstacle, floor
<1>9. LocalMap!Above(raw, obstacle) = ObstacleHeight - FloorHeight
  BY <1>4, <1>7, <1>8, PooledHeights DEF LocalMap!Above, LocalMap!Tile
<1>10. obstacle \in LocalMap!SegmentGround(raw)
  BY <1>3, <1>8, <1>9, WorldAssumption DEF LocalMap!SegmentGround
<1>11. c \in LocalMap!ObstaclesOf(raw)
  BY <1>8, <1>10 DEF LocalMap!ObstaclesOf
<1>12. LocalMap!ObstaclesOf(raw) \subseteq Columns
  BY PublishedTyped DEF raw
<1>13. \A cells \in SUBSET Columns : None # cells
  BY PerceptionAssumption DEF Global!GlobalPlannerConstants
<1> QED BY <1>1, <1>11, <1>12, <1>13 DEF Global!ObsCb

\* What is published of a window that is not sparse is an obstacle in it.
LEMMA PublishedIsObstacle ==
    ASSUME NEW raw, \A v \in raw : v.h \in {FloorHeight, ObstacleHeight},
           raw \subseteq LocalMap!Voxels,
           Cardinality(raw) >= MinTotal, Cardinality(raw) \in Nat,
           NEW c \in LocalMap!ObstaclesOf(raw)
    PROVE  [x |-> c, h |-> ObstacleHeight] \in raw
<1> USE Constants
<1>1. PICK v \in LocalMap!SegmentGround(raw) : c = v.x
  BY DEF LocalMap!ObstaclesOf
<1>0. ~(Cardinality(raw) < MinTotal)
  OBVIOUS
<1>2. v \in raw /\ LocalMap!Above(raw, v) \in (GroundBand + 1)..MaxHeight
  BY <1>0, <1>1, SameCardinality DEF LocalMap!SegmentGround
<1>3. v.h \in {FloorHeight, ObstacleHeight} /\ v = [x |-> v.x, h |-> v.h]
  BY <1>2 DEF LocalMap!Voxels
<1> DEFINE ground == LocalMap!GroundAt(LocalMap!Pooled(raw, LocalMap!Tile(v)))
<1>4. ground \in {FloorHeight, ObstacleHeight, Foot}
  BY PooledHeights
<1>5. v.h - ground > GroundBand
  BY <1>2 DEF LocalMap!Above
<1> HIDE DEF ground
<1>6. v.h # FloorHeight
  BY <1>4, <1>5, WorldAssumption
<1> QED BY <1>1, <1>2, <1>3, <1>6

\* A step that changes what the planners have of the cloud publishes the window.
LEMMA PublishingStep ==
    ASSUME PerceptionInv, [Next]_vars, obs' # obs,
           Cardinality(LocalMap!Centers(last_seen')) >= MinTotal, NEW c \in obs'
    PROVE  last_seen'[[x |-> c, h |-> ObstacleHeight]] <= Persistence
<1> DEFINE raw == LocalMap!Centers(last_seen')
<1>1. \E points \in {Scenery, {}} : Scan(points) /\ ~UNCHANGED global
  BY DEF Next, WorldChanges, Odometry, SendGoal, Replan, Tick, vars, global, local,
         Global!OdomCb, Global!GoalCb, Global!ReplanCb
<1>2. PICK points \in {Scenery, {}} : Scan(points) /\ ~UNCHANGED global
  BY <1>1
<1>3. LocalMap!OnCloud(points) /\ Global!ObsCb(LocalMap!ObstaclesOf(raw))
  BY <1>2 DEF Scan
<1>4. \A v \in raw : v.h \in {FloorHeight, ObstacleHeight}
  BY <1>3, ScanStep, SceneryTyped DEF PerceptionInv
<1>5. c \in LocalMap!ObstaclesOf(raw)
  BY <1>3 DEF Global!ObsCb
<1>6. raw \subseteq LocalMap!Voxels /\ Cardinality(raw) \in Nat
  BY WindowIsFinite, FS_CardinalityType DEF LocalMap!Centers
<1> HIDE DEF raw
<1>7. [x |-> c, h |-> ObstacleHeight] \in raw
  BY <1>4, <1>5, <1>6, PublishedIsObstacle DEF raw
<1> QED BY <1>7 DEF raw, LocalMap!Centers

-----------------------------------------------------------------------------
(* What a reader should know of                                            *)

\* Every variable keeps its type.
THEOREM PerceptionTypes == Spec => []TypeOK
BY PerceptionInvariance, PTL DEF PerceptionInv

\* However slowly counts fade, a cell that two hits in a row should block takes
\* three.
THEOREM ThreeCounts == Spec => []BlocksAfterEnoughCounts
<1>1. PerceptionInv => BlocksAfterEnoughCounts
  <2> SUFFICES ASSUME PerceptionInv, Watched \in Global!Occupied PROVE counted = 3
    BY DEF BlocksAfterEnoughCounts, Enough
  <2>1. occ[Watched] >= 2 * Scale /\ occ[Watched] \in Nat /\ counted \in 0..3
    <3>1. occ[Watched] >= HitThreshold /\ occ[Watched] \in Nat /\ counted \in 0..3
      BY Constants DEF Global!Occupied, PerceptionInv, TypeOK, Global!GlobalTypeOK,
         Global!CostmapTypeOK, Enough
    <3> QED BY <3>1, Constants, DecayAssumption
  <2>2. Global!Decayed(Scale) \in Nat /\ Global!Decayed(Scale) < Scale
    BY Constants, DecayFacts
  <2> QED BY <2>1, <2>2, Constants DEF PerceptionInv
<1> QED BY <1>1, PerceptionInvariance, PTL

\* A scan that gets through shows the planners every obstacle beside known floor.
THEOREM ObstaclesGetThrough == Spec => ShownObstaclesArePublished
<1> DEFINE Published ==
      GoodScan =>
        \A c \in world, d \in Columns \ world :
            Shown(c) /\ Shown(d) /\ GroundKnown(d) /\ LocalMap!Gap(c, d) <= TileWidth
                => obs' # None /\ c \in obs'
<1>1. PerceptionInv => Published
  BY ObstacleIsPublished
<1> QED BY <1>1, PerceptionInvariance, PTL DEF Spec, ShownObstaclesArePublished

\* And nothing else, unless the window is sparse.
THEOREM NothingElseGetsThrough == Spec => OnlyObstaclesArePublished
<1> DEFINE Genuine ==
      obs' # obs /\ Cardinality(LocalMap!Centers(last_seen')) >= MinTotal
         => \A c \in obs' : last_seen'[[x |-> c, h |-> ObstacleHeight]] <= Persistence
<1>1. PerceptionInv /\ [Next]_vars => [Genuine]_vars
  BY PublishingStep
<1> QED BY <1>1, PerceptionInvariance, PTL DEF Spec, OnlyObstaclesArePublished
=============================================================================
