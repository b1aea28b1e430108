--------------------------- MODULE JointSmoother ---------------------------
(***************************************************************************)
(* What lies between the AMO policy and the motors (amo/joint_filters.py,  *)
(* amo/activation_utils.py): pose blend, running filter, rate clamp and    *)
(* gain ramp.  Operators only.                                             *)
(*                                                                         *)
(* One joint stands for the 29, which are treated alike.  An angle is an   *)
(* integer; a share of the whole is a number of parts of One, rounded      *)
(* down; time is counted in calls of step, as the code does it.            *)
(***************************************************************************)
EXTENDS Integers

CONSTANTS
    One,          \* a whole, in parts
    Blend,        \* blend_s
    GainRamp,     \* gain_ramp_s
    KpStart,      \* kp_scale_start, in parts
    KdStart,      \* kd_scale_start, in parts
    ClampDelta,   \* clamp_delta; 0: no clamp
    Alpha,        \* alpha of the EWMA filter, in parts
    Wn,           \* wn * dt of the critically damped filter, in parts
    Release,      \* release_s; 0: never
    ReleaseRamp   \* release_ramp_s

JointConstants ==
    /\ One \in Nat \ {0} /\ Alpha \in 1..One /\ Wn \in 1..One
    /\ KpStart \in 0..One /\ KdStart \in 0..One
    /\ {Blend, GainRamp, ClampDelta, Release, ReleaseRamp} \subseteq Nat

FilterKinds == {"none", "ewma", "critdamp"}

-----------------------------------------------------------------------------
(* activation_utils                                                        *)

\* smoothstep(n / d), in parts: a * a * (3 - 2 * a) on [0, 1].
Smoothstep(n, d) ==
    LET a == IF n < 0 THEN 0 ELSE IF n > d THEN d ELSE n
    IN  (One * a * a * (3 * d - 2 * a)) \div (d * d * d)

\* command_ramp_factor
RampFactor(t, ramp) == IF ramp <= 0 THEN One ELSE Smoothstep(t, ramp)

\* gain_ramp_scale
GainScale(t, start) ==
    IF GainRamp <= 0 THEN One
    ELSE start + ((One - start) * Smoothstep(t, GainRamp)) \div One

\* (1 - w) * x + w * y
Mix(w, x, y) == x + (w * (y - x)) \div One

\* clamp_step_delta
ClampStep(prev, desired) ==
    IF ClampDelta <= 0 THEN desired
    ELSE IF desired > prev + ClampDelta THEN prev + ClampDelta
    ELSE IF desired < prev - ClampDelta THEN prev - ClampDelta
    ELSE desired

-----------------------------------------------------------------------------
(* joint_filters: a smoother is [measured, prev, y, yd, t]                 *)

\* A plausible slip: the smoother starts from the zero posture.
ResetToZero(q) == [measured |-> 0, prev |-> 0, y |-> 0, yd |-> 0, t |-> 0]

\* JointSmoother.reset: every layer starts at the measured posture.
Reset(q) == [measured |-> q, prev |-> q, y |-> q, yd |-> 0, t |-> 0]

Blending(s) == Blend > 0 /\ s.t < Blend

\* release_factor: 0 while the filters are engaged, One when they are released.
ReleaseFactor(s) ==
    IF Release <= 0 \/ s.t < Release THEN 0
    ELSE IF ReleaseRamp <= 0 THEN One
    ELSE Smoothstep(s.t - Release, ReleaseRamp)

\* Layer A.
Blended(s, raw) ==
    IF Blending(s) THEN Mix(Smoothstep(s.t, Blend), s.measured, raw) ELSE raw

\* The running filter, one step toward the target: its output and rate.
FilterStep(kind, s, target) ==
    CASE kind = "none"     -> [y |-> target, yd |-> s.yd]
      [] kind = "ewma"     -> [y |-> Mix(Alpha, s.y, target), yd |-> s.yd]
      [] kind = "critdamp" ->
           LET accel == (Wn * Wn * (target - s.y)) \div (One * One)
                        - (2 * Wn * s.yd) \div One
           IN  [y |-> s.y + s.yd + accel, yd |-> s.yd + accel]

\* JointSmoother.step: blend, filter, clamp; filter and clamp fade out with the
\* release factor, and keep their state once they are out.
Step(kind, s, raw) ==
    LET r        == ReleaseFactor(s)
        target   == Blended(s, raw)
        f        == IF r < One /\ kind # "none" THEN FilterStep(kind, s, target)
                    ELSE [y |-> s.y, yd |-> s.yd]
        filtered == IF r < One /\ kind # "none" THEN Mix(r, f.y, target) ELSE target
        cmd      == IF r >= One THEN filtered
                    ELSE Mix(r, ClampStep(s.prev, filtered), filtered)
    IN  [s EXCEPT !.prev = cmd, !.y = f.y, !.yd = f.yd, !.t = s.t + 1]
=============================================================================
