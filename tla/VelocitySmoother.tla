-------------------------- MODULE VelocitySmoother --------------------------
(***************************************************************************)
(* One axis of VelocitySmoother (g1_sim_bridge/unitree_loco.py): a ramp    *)
(* over the time since the last reset, a low-pass and a slew limit, with   *)
(* integer speeds and time in ticks.                                       *)
(***************************************************************************)
EXTENDS Integers

CONSTANTS
    Ramp,                \* startup_ramp_s, in ticks
    Slew,                \* accel_max, per tick
    AlphaNum, AlphaDen   \* lowpass_alpha

\* What is assumed of the constants.
SmootherConstants ==
    /\ Ramp \in Nat /\ Slew \in Nat /\ AlphaDen \in Nat \ {0} /\ AlphaNum \in 0..AlphaDen

\* _approach: the low-pass, limited to what the slew allows in the time passed.
Approach(prev, target, lim) ==
    LET step == (AlphaNum * (target - prev)) \div AlphaDen
    IN  prev + IF step > lim THEN lim ELSE IF step < 0 - lim THEN 0 - lim ELSE step

\* The share of the request that the ramp lets through.
Ramped(wanted, elapsed) ==
    IF elapsed >= Ramp THEN wanted ELSE (wanted * elapsed) \div Ramp

\* step()
Smoothed(prev, wanted, elapsed, dt) == Approach(prev, Ramped(wanted, elapsed), Slew * dt)
=============================================================================
