----------------------------- MODULE MpcTracker -----------------------------
(***************************************************************************)
(* The part of the two MPC trackers that outlives one solve: the warm      *)
(* start and the count of consecutive failures.  mpc_tracker.MPCTracker    *)
(* (mpc_mode: tracking) and mpcc_tracker.MPCCTracker (contouring) treat a  *)
(* failed solve differently: the first drops its warm start at once, the   *)
(* second keeps it until MaxConsecFailures failures in a row.              *)
(*                                                                         *)
(* The optimisation itself is a nondeterministic outcome.  A warm start is *)
(* represented by the reference it was computed for: the A* path or the    *)
(* two-point escape path of the security layer.                            *)
(***************************************************************************)
EXTENDS Integers

CONSTANTS
    Contouring,        \* mpc_mode = 'contouring'
    MaxConsecFailures  \* _MAX_CONSEC_FAILURES (3)

ASSUME TrackerAssumption ==
    /\ Contouring \in BOOLEAN
    /\ MaxConsecFailures \in Nat \ {0}

Reference == {"path", "escape"}
Source == Reference \cup {"none"}

Trackers == [warm : Source, fails : 0..MaxConsecFailures]

ColdTracker == [warm |-> "none", fails |-> 0]

\* What one call of solve() can end in.  "spike": solved, but the cost jumped
\* so far above its recent mean that the solution is not kept as a warm start.
\* "nofit": no reference could be fitted to the path, IPOPT is not called.
Outcomes == IF Contouring THEN {"ok", "fail", "nofit"} ELSE {"ok", "spike", "fail"}
Solved(outcome) == outcome \in {"ok", "spike"}

\* tracker._prev_u = tracker._prev_x = None, as mpc_node does at a mode change.
Forget(t) == [t EXCEPT !.warm = "none"]

\* The count compares only against the limit, so it is held at the limit.
CountFailure(n) == IF n < MaxConsecFailures THEN n + 1 ELSE n

\* MPCTracker.solve: every failure clears the warm start.
TrackingSolve(t, outcome, reference) ==
    CASE outcome = "ok"    -> [warm |-> reference, fails |-> 0]
      [] outcome = "spike" -> [warm |-> "none", fails |-> 0]
      [] OTHER             -> [warm |-> "none", fails |-> CountFailure(t.fails)]

\* A plausible slip: the failure count is dropped on a cold start but the warm
\* start is never discarded.
ClingingSolve(t, outcome, reference) ==
    CASE outcome = "ok"    -> [warm |-> reference, fails |-> 0]
      [] outcome = "nofit" -> t
      [] OTHER             -> [t EXCEPT !.fails = CountFailure(@)]

\* MPCCTracker.solve: a cold guess resets the count before the solve; a failure
\* keeps the warm start until the count reaches the limit; without a fitted
\* reference solve() returns before it touches either.
ContouringSolve(t, outcome, reference) ==
    LET cold == t.warm = "none" \/ t.fails >= MaxConsecFailures
        n    == CountFailure(IF cold THEN 0 ELSE t.fails)
    IN  CASE outcome = "ok"    -> [warm |-> reference, fails |-> 0]
          [] outcome = "nofit" -> t
          [] OTHER -> [warm |-> IF n >= MaxConsecFailures THEN "none" ELSE t.warm,
                       fails |-> n]

TrackerAfter(t, outcome, reference) ==
    IF Contouring THEN ContouringSolve(t, outcome, reference)
    ELSE TrackingSolve(t, outcome, reference)
=============================================================================
