------------------------- MODULE PersistentMapProofs ------------------------
(***************************************************************************)
(* The obstacle memory keeps its bound and its order of age for every      *)
(* number of cells, age limit and size.                                    *)
(***************************************************************************)
EXTENDS PersistentMap, FiniteSetTheorems, TLAPS

MapInv == MapTypeOK /\ NewestKept

\* The ages after an update are ages, and a hit makes a cell no older.
LEMMA ConfirmedFacts ==
    ASSUME MapConstants, MapTypeOK, NEW hits \in SUBSET Cells
    PROVE  /\ Confirmed(hits) \in [Cells -> 0..SeenCap]
           /\ \A c \in Cells : Confirmed(hits)[c] <= seen[c]
           /\ \A c \in hits : Confirmed(hits)[c] = 0
           /\ \A c \in Cells \ hits : Confirmed(hits)[c] = seen[c]
<1>1. 0 \in 0..SeenCap
  BY DEF MapConstants, SeenCap
<1> QED BY <1>1 DEF MapTypeOK, Confirmed

\* What is left of a set of entries: all of them if there is room, else the bound
\* is reached and nothing older is left than what was dropped.
LEMMA NewestOfFacts ==
    ASSUME MapConstants, NEW fresh \in SUBSET Cells, NEW ages,
           NEW s \in NewestOf(fresh, ages)
    PROVE  /\ s \subseteq fresh /\ Cardinality(s) <= MaxCells
           /\ Cardinality(fresh) <= MaxCells => s = fresh
           /\ Cardinality(fresh) > MaxCells =>
                 /\ Cardinality(s) = MaxCells
                 /\ \A c \in s, d \in fresh \ s : ages[c] <= ages[d]
<1>1. IsFiniteSet(fresh)
  BY FS_Subset DEF MapConstants
<1>2. Cardinality(fresh) \in Nat /\ MaxCells \in Nat
  BY <1>1, FS_CardinalityType DEF MapConstants
<1> QED BY <1>2 DEF NewestOf

\* The memory starts empty, and with nothing seen lately.
LEMMA MapStarts == MapConstants /\ MapInit => MapInv
<1> SUFFICES ASSUME MapConstants, MapInit PROVE MapInv
  OBVIOUS
<1>1. Cardinality({}) = 0
  BY FS_EmptySet
<1>2. MapTypeOK
  BY <1>1 DEF MapConstants, MapInit, MapTypeOK, SeenCap
<1>3. NewestKept
  BY DEF MapConstants, MapInit, NewestKept, SeenCap
<1> QED BY <1>2, <1>3 DEF MapInv

\* An update keeps the types.
LEMMA UpdateTyped ==
    ASSUME MapConstants, MapInv, NEW hits \in SUBSET Cells, Update(hits)
    PROVE  MapTypeOK'
<1>1. Unexpired(hits) \in SUBSET Cells
  BY DEF MapInv, MapTypeOK, Unexpired
<1>2. kept' \subseteq Cells /\ Cardinality(kept') <= MaxCells
  BY <1>1, NewestOfFacts DEF Update
<1>3. seen' \in [Cells -> 0..SeenCap]
  BY ConfirmedFacts DEF MapInv, Update
<1> QED BY <1>2, <1>3 DEF MapTypeOK

\* An update keeps the newest: what it drops, it drops from a full memory, and
\* what was missing before is older than all that was in it.
LEMMA UpdateKeepsNewest ==
    ASSUME MapConstants, MapInv, NEW hits \in SUBSET Cells, Update(hits)
    PROVE  NewestKept'
<1> DEFINE fresh == Unexpired(hits)
<1>1. fresh \in SUBSET Cells /\ IsFiniteSet(fresh)
  BY FS_Subset DEF MapConstants, MapInv, MapTypeOK, Unexpired
<1>2. Cardinality(fresh) \in Nat /\ MaxCells \in Nat /\ DecaySec \in Nat
  BY <1>1, FS_CardinalityType DEF MapConstants
<1>3. kept' \subseteq fresh
  BY <1>1, NewestOfFacts DEF Update
<1>4. kept' \in NewestOf(fresh, seen') /\ seen' = Confirmed(hits)
  BY DEF Update
<1>5. SUFFICES ASSUME NEW c \in Cells \ kept', seen'[c] <= DecaySec
               PROVE  /\ Cardinality(kept') = MaxCells
                      /\ \A d \in kept' : seen'[d] <= seen'[c]
  BY DEF NewestKept
<1>6. CASE c \in fresh
  <2>1. Cardinality(fresh) > MaxCells
    BY <1>1, <1>2, <1>4, <1>6, NewestOfFacts
  <2> QED BY <1>1, <1>4, <1>6, <2>1, NewestOfFacts
<1>7. CASE c \notin fresh
  <2>1. c \notin kept \cup hits
    BY <1>4, <1>5, <1>7 DEF Unexpired
  <2>2. seen'[c] = seen[c]
    BY <1>4, <2>1, ConfirmedFacts DEF MapInv
  <2>3. Cardinality(kept) = MaxCells /\ \A d \in kept : seen[d] <= seen[c]
    BY <1>5, <2>1, <2>2 DEF MapInv, NewestKept
  <2>4. seen \in [Cells -> 0..SeenCap] /\ seen' \in [Cells -> 0..SeenCap]
        /\ SeenCap \in Nat /\ kept \subseteq Cells
    BY <1>2, <1>4, ConfirmedFacts DEF MapInv, MapTypeOK, SeenCap
  <2>5. \A d \in kept \cup hits : seen'[d] <= seen'[c]
    <3>1. SUFFICES ASSUME NEW d \in kept \cup hits PROVE seen'[d] <= seen'[c]
      OBVIOUS
    <3>2. d \in Cells
      BY <2>4
    <3>3. CASE d \in hits
      BY <1>4, <2>4, <3>3, ConfirmedFacts DEF MapInv
    <3>4. CASE d \in kept
      <4>1. seen'[d] <= seen[d] /\ seen[d] <= seen'[c]
        BY <1>4, <2>2, <2>3, <3>2, <3>4, ConfirmedFacts DEF MapInv
      <4> QED BY <2>4, <3>2, <4>1
    <3> QED BY <3>3, <3>4
  <2>6. kept \subseteq fresh
    <3>1. SUFFICES ASSUME NEW d \in kept PROVE d \in fresh
      OBVIOUS
    <3>2. seen'[d] <= DecaySec
      BY <1>2, <1>5, <2>4, <2>5
    <3> QED BY <1>4, <3>2 DEF Unexpired
  <2>7. Cardinality(kept') = MaxCells
    <3>1. CASE Cardinality(fresh) > MaxCells
      BY <1>1, <1>4, <3>1, NewestOfFacts
    <3>2. CASE Cardinality(fresh) <= MaxCells
      <4>1. Cardinality(kept) <= Cardinality(fresh)
        BY <1>1, <2>6, FS_Subset
      <4>2. kept' = fresh
        BY <1>1, <1>4, <3>2, NewestOfFacts
      <4> QED BY <1>2, <2>3, <3>2, <4>1, <4>2
    <3> QED BY <1>2, <3>1, <3>2
  <2>8. kept' \subseteq kept \cup hits
    BY <1>3 DEF Unexpired
  <2> QED BY <2>5, <2>7, <2>8
<1> QED BY <1>6, <1>7

\* Time keeps types and order: cells grow old together, up to the cap.
LEMMA AgeKeepsInv == MapConstants /\ MapInv /\ Age => MapInv'
<1> SUFFICES ASSUME MapConstants, MapInv, Age PROVE MapInv'
  OBVIOUS
<1>1. SeenCap \in Nat /\ DecaySec \in Nat /\ SeenCap = DecaySec + 1
  BY DEF MapConstants, SeenCap
<1>2. seen \in [Cells -> 0..SeenCap] /\ kept \subseteq Cells
  BY DEF MapInv, MapTypeOK
<1>3. /\ seen' = [c \in Cells |-> IF seen[c] < SeenCap THEN seen[c] + 1 ELSE SeenCap]
      /\ kept' = kept
  BY DEF Age
<1>4. MapTypeOK'
  BY <1>1, <1>2, <1>3 DEF MapInv, MapTypeOK
<1>5. NewestKept'
  <2>1. SUFFICES ASSUME NEW c \in Cells \ kept, seen'[c] <= DecaySec
                 PROVE  /\ Cardinality(kept) = MaxCells
                        /\ \A d \in kept : seen'[d] <= seen'[c]
    BY <1>3 DEF NewestKept
  <2>2. seen[c] < SeenCap /\ seen'[c] = seen[c] + 1 /\ seen[c] <= DecaySec
    BY <1>1, <1>2, <1>3, <2>1
  <2>3. Cardinality(kept) = MaxCells /\ \A d \in kept : seen[d] <= seen[c]
    BY <2>2 DEF MapInv, NewestKept
  <2>4. \A d \in kept : seen'[d] <= seen[d] + 1
    BY <1>1, <1>2, <1>3
  <2>5. \A d \in kept : seen'[d] <= seen'[c]
    BY <1>1, <1>2, <1>3, <2>2, <2>3, <2>4
  <2> QED BY <2>3, <2>5
<1> QED BY <1>4, <1>5 DEF MapInv

\* The memory is within its bound, and what it dropped is no newer than what it
\* keeps, for every history of scans and pauses.
THEOREM MapInvariance == ASSUME MapConstants PROVE MapSpec => []MapInv
<1>1. MapInit => MapInv
  BY MapStarts
<1>2. MapInv /\ [MapNext]_map_vars => MapInv'
  <2> SUFFICES ASSUME MapInv, [MapNext]_map_vars PROVE MapInv'
    OBVIOUS
  <2>1. CASE \E hits \in SUBSET Cells : Update(hits)
    BY <2>1, UpdateTyped, UpdateKeepsNewest DEF MapInv
  <2>2. CASE Age
    BY <2>2, AgeKeepsInv
  <2>3. CASE UNCHANGED map_vars
    BY <2>3 DEF map_vars, MapInv, MapTypeOK, NewestKept
  <2> QED BY <2>1, <2>2, <2>3 DEF MapNext
<1> QED BY <1>1, <1>2, PTL DEF MapSpec

\* Eviction never drops a newer cell for an older one, nor leaves room unused.
THEOREM MemoryKeepsNewest == ASSUME MapConstants PROVE MapSpec => []NewestKept
<1>1. MapInv => NewestKept
  BY DEF MapInv
<1> QED BY <1>1, MapInvariance, PTL
=============================================================================
