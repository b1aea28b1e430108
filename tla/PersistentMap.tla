---------------------------- MODULE PersistentMap ----------------------------
(***************************************************************************)
(* The obstacle memory of the A* node (persistent_map.py): the cells that  *)
(* were hit, each with the time of its last hit, bounded by age and by     *)
(* number.  Both bounds act on every update, and only there.               *)
(*                                                                         *)
(* The dictionary _cells is the set kept; the time of a cell is replaced   *)
(* by its age, seen.  seen also runs on for cells that were evicted, which *)
(* the code forgets: no action reads it there, the properties do.          *)
(***************************************************************************)
EXTENDS Integers, FiniteSets

CONSTANTS
    Cells,     \* cells of the world
    DecaySec,  \* decay_sec, in ticks; zero: never
    MaxCells   \* max_cells

\* What is assumed of the constants.
MapConstants ==
    /\ IsFiniteSet(Cells)
    /\ DecaySec \in Nat /\ MaxCells \in Nat

VARIABLES
    kept,  \* the cells in _cells
    seen   \* ticks since the last hit of each cell

map_vars == <<kept, seen>>

SeenCap == DecaySec + 1

MapTypeOK ==
    /\ kept \subseteq Cells /\ Cardinality(kept) <= MaxCells
    /\ seen \in [Cells -> 0..SeenCap]

MapInit == kept = {} /\ seen = [c \in Cells |-> SeenCap]

\* t = now for every cell that was hit.
Confirmed(hits) == [c \in Cells |-> IF c \in hits THEN 0 ELSE seen[c]]

\* The cells that are not stale: t >= now - decay_sec.
Unexpired(hits) ==
    {c \in kept \cup hits : DecaySec = 0 \/ Confirmed(hits)[c] <= DecaySec}

\* What an overflow leaves: the oldest entries are dropped first; among entries
\* of one age the order of insertion decides, here any choice.
NewestOf(fresh, ages) ==
    IF Cardinality(fresh) <= MaxCells THEN {fresh}
    ELSE {s \in SUBSET fresh :
            /\ Cardinality(s) = MaxCells
            /\ \A c \in s, d \in fresh \ s : ages[c] <= ages[d]}

\* update(): the hits are entered, then _evict removes what is stale and what
\* is too much.
Update(hits) ==
    /\ seen' = Confirmed(hits)
    /\ kept' \in NewestOf(Unexpired(hits), Confirmed(hits))

\* Time passes; nothing is evicted.
Age ==
    /\ seen' = [c \in Cells |-> IF seen[c] < SeenCap THEN seen[c] + 1 ELSE SeenCap]
    /\ UNCHANGED kept

MapNext == (\E hits \in SUBSET Cells : Update(hits)) \/ Age

MapSpec == MapInit /\ [][MapNext]_map_vars

-----------------------------------------------------------------------------
\* A cell hit recently enough is missing only from a full map, all of whose
\* cells were hit since: eviction by age and by number, in whatever order scans
\* and pauses come, never drop a newer cell for an older one, and never leave
\* room unused.  persistent_map.py 105-118.
NewestKept ==
    \A c \in Cells \ kept :
        seen[c] <= DecaySec =>
            /\ Cardinality(kept) = MaxCells
            /\ \A d \in kept : seen[d] <= seen[c]
=============================================================================
