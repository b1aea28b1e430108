----------------------------- MODULE MCMpcNode -----------------------------
(***************************************************************************)
(* MpcNode with the history its comments speak of: how many solves in a    *)
(* row saw an obstacle near, and how many in a row did not.                *)
(***************************************************************************)
EXTENDS MpcNode

VARIABLES
    near_run,   \* solves in a row with an obstacle near, up to EngageCycles
    clear_run   \* solves in a row without one, up to ClearCycles

history == <<near_run, clear_run>>
hvars   == <<vars, history>>

HInit == Init /\ near_run = 0 /\ clear_run = 0

HSolveFull(near, outcome) ==
    /\ TimerFires
    /\ SolveFull(near, outcome)
    /\ near_run'  = IF near THEN Lower(near_run + 1, EngageCycles) ELSE 0
    /\ clear_run' = IF near THEN 0 ELSE Lower(clear_run + 1, ClearCycles)

HNext ==
    \/ \E g \in Poses : GoalCb(g) /\ UNCHANGED history
    \/ \E p \in Poses : PoseCb(p) /\ UNCHANGED history
    \/ \E age \in 0..(LidarMaxAge + 1), usable \in BOOLEAN :
            LidarCb(age, usable) /\ UNCHANGED history
    \/ \E nonempty, far \in BOOLEAN : PathCb(nonempty, far) /\ UNCHANGED history
    \/ TimerFires /\ SolveEarly /\ UNCHANGED history
    \/ \E near \in Sightings, outcome \in Outcomes : HSolveFull(near, outcome)
    \/ Tick /\ UNCHANGED history

HSpec == HInit /\ [][HNext]_hvars

\* What the counters of the code know of the history: sightings in a row they
\* count exactly, solves without one only from where the mode was engaged.
HistoryInv ==
    /\ near_run = engage_count
    /\ clear_run \in Nat /\ clear_count <= clear_run

\* "Engages only when a REAL obstacle point is within mpc_security_radius for
\* mpc_security_engage_cycles consecutive solves": separate glimpses of an
\* obstacle never add up.  mpc_node.py 880-902.
EngagesOnlyAfterEnoughSightings ==
    [][~security_mode /\ security_mode' => near_run' >= EngageCycles]_hvars

\* "disengages only after mpc_security_clear_cycles clean solves", where every
\* obstacle seen near starts the count again.  mpc_node.py 882-908.
ReleasesOnlyAfterEnoughClears ==
    [][security_mode /\ ~security_mode' => clear_run' >= ClearCycles]_hvars
=============================================================================
