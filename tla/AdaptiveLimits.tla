--------------------------- MODULE AdaptiveLimits ---------------------------
(***************************************************************************)
(* The adaptive velocity ceiling of mpc_node.py: a sliding window of       *)
(* solver outcomes lowers the forward-speed limit given to the tracker     *)
(* when too many solves fail, and raises it again once the solver is       *)
(* healthy.  Speeds are integers (millimetres per second in the code's     *)
(* terms); the float products 0.90 * v and 1.05 * v become their integer   *)
(* parts.                                                                  *)
(***************************************************************************)
EXTENDS Integers, Sequences, FiniteSets

CONSTANTS
    AdaptiveEnabled,  \* adaptive_vel_limits
    Window,           \* length of the deque of recent outcomes, at most its 20
    MinSamples,       \* outcomes needed before the rate is acted on (10)
    VxFloor,          \* lowest ceiling the reduction reaches (0.15 m/s)
    CfgVxMax          \* configured ceiling, mpc_vx_max

ASSUME AdaptiveAssumption ==
    /\ AdaptiveEnabled \in BOOLEAN
    /\ Window \in 1..20
    /\ MinSamples \in Nat \ {0}
    /\ VxFloor \in Nat \ {0}
    /\ CfgVxMax \in Nat \ {0}

Lower(a, b) == IF a < b THEN a ELSE b
Upper(a, b) == IF a < b THEN b ELSE a

\* deque(maxlen=Window).append(ok): the oldest outcome falls out of a full deque.
RecentAfter(recent, ok) ==
    LET longer == Append(recent, ok)
    IN  IF Len(longer) > Window THEN Tail(longer) ELSE longer

Failures(recent) == Cardinality({i \in DOMAIN recent : ~recent[i]})

\* fail_rate > 0.30 and fail_rate < 0.05, over enough samples.
Failing(recent) == Len(recent) >= MinSamples /\ 10 * Failures(recent) > 3 * Len(recent)
Healthy(recent) == Len(recent) >= MinSamples /\ 20 * Failures(recent) < Len(recent)

\* A plausible slip: the ceiling recovers whenever the rate is not failing.
EagerVxAfter(recent, vx) ==
    IF Failing(recent)
    THEN Lower(vx, Upper(VxFloor, (9 * vx) \div 10))
    ELSE IF Len(recent) >= MinSamples THEN Lower(CfgVxMax, (21 * vx) \div 20) ELSE vx

\* A plausible slip: the reduction forgets the floor.
FloorlessVxAfter(recent, vx) ==
    IF Failing(recent) THEN (9 * vx) \div 10
    ELSE IF Healthy(recent) /\ vx < CfgVxMax THEN Lower(CfgVxMax, (21 * vx) \div 20)
    ELSE vx

\* The ceiling after an outcome: down 10 % (never below VxFloor, never up), or
\* up 5 % (never above the configured ceiling), or unchanged.
VxAfter(recent, vx) ==
    IF Failing(recent)
    THEN Lower(vx, Upper(VxFloor, (9 * vx) \div 10))
    ELSE IF Healthy(recent) /\ vx < CfgVxMax THEN Lower(CfgVxMax, (21 * vx) \div 20)
    ELSE vx
=============================================================================
