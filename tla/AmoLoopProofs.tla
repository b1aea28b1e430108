---------------------------- MODULE AmoLoopProofs ----------------------------
(***************************************************************************)
(* The AMO loop for every configuration of the smoothing that settles      *)
(* before the hold is over: what the ramps and the clamp do, when the      *)
(* policy walks, and how the program ends.                                 *)
(***************************************************************************)
EXTENDS AmoLoop, TLAPS

\* The assumptions on the constants, in the terms of the module.
LEMMA Constants ==
    /\ One \in Nat \ {0} /\ Alpha \in 1..One /\ Wn \in 1..One
    /\ KpStart \in 0..One /\ KdStart \in 0..One
    /\ Blend \in Nat /\ GainRamp \in Nat /\ ClampDelta \in Nat
    /\ ReleaseAt \in Nat \ {0} /\ ReleaseRamp \in Nat
    /\ Stabilize \in Nat /\ CommandRamp \in Nat /\ StateTimeout \in Nat
    /\ MaxVel \in Nat \ {0} /\ Lo \in Int /\ Hi \in Int /\ Lo <= Hi
    /\ Postures \subseteq Lo..Hi /\ Actions \subseteq Int
    /\ Requested \subseteq Nat /\ Sticks \subseteq Nat
    /\ CommandHold \in Nat /\ GainRamp <= CommandHold
    /\ ReleaseAt + ReleaseRamp <= CommandHold
  BY AmoAssumption, SettlingAssumption DEF JointConstants, CommandHold

-----------------------------------------------------------------------------
(* Ramps                                                                   *)

\* A product of a larger number and one that is not negative is no smaller.
LEMMA Monotone ==
    ASSUME NEW a \in Int, NEW b \in Int, NEW d \in Nat, a <= b
    PROVE  d * a <= d * b
<1>1. d * (b - a) >= 0
  BY SMT
<1>2. d * (b - a) = d * b - d * a
  BY SMT
<1> QED BY <1>1, <1>2

\* A larger dividend has no smaller quotient, and quotients of multiples are exact.
LEMMA QuotientsAreOrdered ==
    ASSUME NEW x \in Int, NEW y \in Int, NEW d \in Nat \ {0}, x <= y
    PROVE  /\ x \div d \in Int /\ y \div d \in Int /\ x \div d <= y \div d
           /\ d * (x \div d) <= x
<1> DEFINE p == x \div d
           q == y \div d
<1>1. p \in Int /\ q \in Int /\ d * p \in Int /\ d * q \in Int
  OBVIOUS
<1>2. d * p <= x /\ y < d * q + d
  OBVIOUS
<1>3. p <= q
  <2>1. SUFFICES ASSUME q + 1 <= p PROVE FALSE
    BY <1>1
  <2>2. d * (q + 1) <= d * p
    BY <1>1, <2>1, Monotone
  <2>3. d * (q + 1) = d * q + d
    BY <1>1
  <2> HIDE DEF p, q
  <2> QED BY <1>1, <1>2, <2>2, <2>3
<1> QED BY <1>1, <1>2, <1>3

\* A multiple is divided without a rest.
LEMMA QuotientOfMultiple ==
    ASSUME NEW n \in Int, NEW d \in Nat \ {0}
    PROVE  (d * n) \div d = n
<1> DEFINE q == (d * n) \div d
<1>1. d * n \in Int /\ q \in Int /\ d * q \in Int
  OBVIOUS
<1>2. d * q <= d * n /\ d * n < d * q + d
  BY <1>1
<1>3. q <= n
  <2>1. SUFFICES ASSUME n + 1 <= q PROVE FALSE
    BY <1>1
  <2>2. d * (n + 1) <= d * q
    BY <1>1, <2>1, Monotone
  <2>3. d * (n + 1) = d * n + d
    OBVIOUS
  <2> HIDE DEF q
  <2> QED BY <1>1, <1>2, <2>2, <2>3
<1>4. n <= q
  <2>1. SUFFICES ASSUME q + 1 <= n PROVE FALSE
    BY <1>1
  <2>2. d * (q + 1) <= d * n
    BY <1>1, <2>1, Monotone
  <2>3. d * (q + 1) = d * q + d
    BY <1>1
  <2> HIDE DEF q
  <2> QED BY <1>1, <1>2, <2>2, <2>3
<1> QED BY <1>1, <1>3, <1>4

\* The polynomial under the smoothstep, without its scale.
Cubic(a, d) == a * a * (3 * d - 2 * a)

\* It grows from zero to the cube of the whole.
LEMMA CubicGrows ==
    ASSUME NEW d \in Nat, NEW a \in 0..d, NEW b \in a..d
    PROVE  /\ Cubic(a, d) \in Int /\ Cubic(b, d) \in Int
           /\ 0 <= Cubic(a, d) /\ Cubic(a, d) <= Cubic(b, d)
           /\ Cubic(d, d) = d * d * d
<1> DEFINE rise == 3 * ((d - b) * (a + b)) + (b - a) * (b + 2 * a)
<1>1. a \in Nat /\ b \in Nat /\ b - a \in Nat /\ d - b \in Nat /\ 3 * d - 2 * a \in Nat
  OBVIOUS
<1>2. \A x, y \in Nat : x * y \in Nat
  OBVIOUS
<1>3. rise \in Nat
  BY <1>1, <1>2
<1>4. Cubic(a, d) \in Nat
  <2>1. a * a \in Nat
    BY <1>1, <1>2
  <2> QED BY <1>1, <1>2, <2>1 DEF Cubic
<1>5. Cubic(b, d) - Cubic(a, d) = (b - a) * rise
  BY <1>1, SMT DEF Cubic
<1>6. (b - a) * rise \in Nat
  BY <1>1, <1>2, <1>3
<1>7. Cubic(b, d) \in Int
  BY <1>1, SMT DEF Cubic
<1>8. Cubic(d, d) = d * d * d
  BY SMT DEF Cubic
<1> HIDE DEF rise
<1> QED BY <1>4, <1>5, <1>6, <1>7, <1>8

\* The number of steps that the smoothstep looks at.
Within(n, d) == IF n < 0 THEN 0 ELSE IF n > d THEN d ELSE n

\* The smoothstep is a share of the whole, all of it from the end of the ramp on,
\* and it never falls.
LEMMA SmoothstepRises ==
    ASSUME NEW d \in Nat \ {0}, NEW m \in Int, NEW n \in Int, m <= n
    PROVE  /\ Smoothstep(m, d) \in 0..One /\ Smoothstep(n, d) \in 0..One
           /\ Smoothstep(m, d) <= Smoothstep(n, d)
           /\ n >= d => Smoothstep(n, d) = One
<1> USE Constants
<1> DEFINE a == Within(m, d)
           b == Within(n, d)
           cube == d * d * d
<1>1. a \in 0..d /\ b \in a..d /\ (n >= d => b = d)
  BY DEF Within
<1>2. cube \in Nat \ {0}
  <2>1. d * d \in Nat \ {0}
    BY SMT
  <2> QED BY <2>1, SMT
<1>3. /\ Cubic(a, d) \in Int /\ Cubic(b, d) \in Int
      /\ 0 <= Cubic(a, d) /\ Cubic(a, d) <= Cubic(b, d)
  BY <1>1, CubicGrows
<1>4. Cubic(b, d) <= cube /\ (n >= d => Cubic(b, d) = cube)
  <2>1. Cubic(b, d) <= Cubic(d, d) /\ Cubic(d, d) = cube
    <3>1. b \in 0..d /\ d \in b..d
      BY <1>1
    <3> QED BY <3>1, CubicGrows
  <2> QED BY <1>1, <2>1
<1>5. /\ Smoothstep(m, d) = (One * Cubic(a, d)) \div cube
      /\ Smoothstep(n, d) = (One * Cubic(b, d)) \div cube
  <2>1. \A x \in Int : One * x * x * (3 * d - 2 * x) = One * Cubic(x, d)
    BY SMT DEF Cubic
  <2>2. a \in Int /\ b \in Int
    BY <1>1
  <2>3. /\ Smoothstep(m, d) = (One * a * a * (3 * d - 2 * a)) \div cube
        /\ Smoothstep(n, d) = (One * b * b * (3 * d - 2 * b)) \div cube
    BY DEF Smoothstep, Within
  <2> QED BY <2>1, <2>2, <2>3
<1> HIDE DEF a, b, cube
<1>6. /\ 0 <= One * Cubic(a, d) /\ One * Cubic(a, d) <= One * Cubic(b, d)
      /\ One * Cubic(b, d) <= One * cube
  <2>1. One * 0 = 0
    OBVIOUS
  <2> QED BY <1>2, <1>3, <1>4, <2>1, Monotone
<1>7. One * Cubic(a, d) \in Int /\ One * Cubic(b, d) \in Int /\ One * cube \in Int
  BY <1>2, <1>3
<1>8. (One * cube) \div cube = One /\ 0 \div cube = 0
  <2>1. One * cube = cube * One /\ cube * 0 = 0
    BY <1>2
  <2> QED BY <1>2, <2>1, QuotientOfMultiple
<1> DEFINE x == One * Cubic(a, d)
           y == One * Cubic(b, d)
           z == One * cube
<1>9. /\ 0 <= x /\ x <= y /\ y <= z /\ x \in Int /\ y \in Int /\ z \in Int
      /\ Smoothstep(m, d) = x \div cube /\ Smoothstep(n, d) = y \div cube
      /\ z \div cube = One
  BY <1>5, <1>6, <1>7, <1>8
<1> HIDE DEF x, y, z
<1>10. 0 \div cube <= x \div cube /\ x \div cube \in Int
  BY <1>2, <1>9, QuotientsAreOrdered
<1>11. x \div cube <= y \div cube /\ y \div cube \in Int
  BY <1>2, <1>9, QuotientsAreOrdered
<1>12. y \div cube <= z \div cube
  BY <1>2, <1>9, QuotientsAreOrdered
<1>13. n >= d => y = z
  BY <1>4 DEF y, z
<1> QED BY <1>8, <1>9, <1>10, <1>11, <1>12, <1>13

\* The same of one number of steps.
LEMMA SmoothstepBounds ==
    ASSUME NEW d \in Nat \ {0}, NEW n \in Int
    PROVE  Smoothstep(n, d) \in 0..One /\ (n >= d => Smoothstep(n, d) = One)
<1>1. n <= n
  OBVIOUS
<1> QED BY <1>1, SmoothstepRises

\* So is the ramp of the command.
LEMMA RampRises ==
    ASSUME NEW ramp \in Nat, NEW m \in Int, NEW n \in Int, m <= n
    PROVE  /\ RampFactor(m, ramp) \in 0..One /\ RampFactor(n, ramp) \in 0..One
           /\ RampFactor(m, ramp) <= RampFactor(n, ramp)
  BY SmoothstepRises, Constants DEF RampFactor

\* Gains are between the scale they start from and the whole, and full when their
\* ramp is over.
LEMMA GainsRise ==
    ASSUME NEW start \in 0..One, NEW t \in Int
    PROVE  /\ GainScale(t, start) \in start..One
           /\ t >= GainRamp => GainScale(t, start) = One
<1> USE Constants
<1>1. CASE GainRamp <= 0
  BY <1>1 DEF GainScale
<1>2. CASE GainRamp > 0
  <2> DEFINE part == Smoothstep(t, GainRamp)
             rest == One - start
  <2>1. part \in 0..One /\ (t >= GainRamp => part = One)
    BY <1>2, SmoothstepBounds
  <2>2. rest \in Nat
    OBVIOUS
  <2>3. GainScale(t, start) = start + (rest * part) \div One
    BY <1>2 DEF GainScale
  <2> HIDE DEF part
  <2>4. /\ rest * part \in Int /\ rest * One \in Int
        /\ rest * 0 <= rest * part /\ rest * part <= rest * One
    BY <2>1, <2>2, Monotone
  <2>5. rest * 0 = One * 0 /\ rest * One = One * rest
    BY <2>2
  <2>6. (One * rest) \div One = rest /\ (One * 0) \div One = 0
    BY <2>2, QuotientOfMultiple
  <2>7. /\ (rest * part) \div One \in Int
        /\ 0 <= (rest * part) \div One /\ (rest * part) \div One <= rest
    <3>1. One * 0 = 0
      OBVIOUS
    <3> QED BY <2>4, <2>5, <2>6, <3>1, QuotientsAreOrdered
  <2>8. t >= GainRamp => (rest * part) \div One = rest
    BY <2>1, <2>5, <2>6
  <2> QED BY <2>2, <2>3, <2>7, <2>8
<1> QED BY <1>1, <1>2

-----------------------------------------------------------------------------
(* One step of the smoother                                                *)

\* A share of an integer toward another is an integer, and no share is nothing.
LEMMA MixTyped ==
    ASSUME NEW w \in Int, NEW x \in Int, NEW y \in Int
    PROVE  Mix(w, x, y) \in Int /\ Mix(0, x, y) = x
<1>1. w * (y - x) \in Int /\ 0 * (y - x) = One * 0
  BY Constants
<1>2. (One * 0) \div One = 0
  BY Constants, QuotientOfMultiple
<1> QED BY <1>1, <1>2, Constants DEF Mix

\* The release factor is a share, and whole from the end of its ramp on.
LEMMA ReleaseRises ==
    ASSUME NEW s, s.t \in Nat
    PROVE  /\ ReleaseFactor(s) \in 0..One
           /\ s.t >= ReleaseAt + ReleaseRamp => ReleaseFactor(s) = One
<1> USE Constants
<1>1. CASE s.t < ReleaseAt \/ ReleaseRamp <= 0
  BY <1>1 DEF ReleaseFactor
<1>2. CASE s.t >= ReleaseAt /\ ReleaseRamp > 0
  <2> DEFINE n == s.t - ReleaseAt
  <2>1. n \in Int /\ ReleaseRamp \in Nat \ {0}
    BY <1>2
  <2>2. Smoothstep(n, ReleaseRamp) \in 0..One
        /\ (n >= ReleaseRamp => Smoothstep(n, ReleaseRamp) = One)
    BY <2>1, SmoothstepBounds
  <2>3. ReleaseFactor(s) = Smoothstep(n, ReleaseRamp)
    BY <1>2 DEF ReleaseFactor
  <2> QED BY <2>2, <2>3
<1> QED BY <1>1, <1>2

\* The states of a smoother.
Smoothers == [measured : Int, prev : Int, y : Int, yd : Int, t : Nat]

\* Every filter gives an integer and keeps one.
LEMMA FilterTyped ==
    ASSUME NEW kind \in FilterKinds, NEW s \in Smoothers, NEW target \in Int
    PROVE  FilterStep(kind, s, target) \in [y : Int, yd : Int]
<1>1. s.y \in Int /\ s.yd \in Int
  BY DEF Smoothers
<1>2. CASE kind = "none"
  BY <1>1, <1>2 DEF FilterStep
<1>3. CASE kind = "ewma"
  <2>1. Alpha \in Int
    BY Constants
  <2>2. Mix(Alpha, s.y, target) \in Int
    BY <1>1, <2>1, MixTyped
  <2> QED BY <1>1, <1>3, <2>2 DEF FilterStep
<1>4. CASE kind = "critdamp"
  <2> DEFINE accel == (Wn * Wn * (target - s.y)) \div (One * One)
                      - (2 * Wn * s.yd) \div One
  <2>1. Wn * Wn * (target - s.y) \in Int /\ 2 * Wn * s.yd \in Int
    BY <1>1, Constants
  <2>2. One * One \in Nat \ {0}
    BY Constants, SMT
  <2>3. accel \in Int
    BY <2>1, <2>2, Constants
  <2>4. FilterStep(kind, s, target) = [y |-> s.y + s.yd + accel, yd |-> s.yd + accel]
    BY <1>4 DEF FilterStep
  <2> HIDE DEF accel
  <2> QED BY <1>1, <2>3, <2>4
<1> QED BY <1>2, <1>3, <1>4 DEF FilterKinds

\* A step keeps the types, counts itself, and while nothing is released it moves by
\* no more than the clamp, whatever the policy asks for.
LEMMA SmootherStep ==
    ASSUME NEW kind \in FilterKinds, NEW s \in Smoothers, NEW raw \in Int
    PROVE  /\ Step(kind, s, raw) \in Smoothers
           /\ Step(kind, s, raw).measured = s.measured
           /\ Step(kind, s, raw).t = s.t + 1
           /\ ReleaseFactor(s) = 0 /\ ClampDelta > 0
                 => Distance(s.prev, Step(kind, s, raw).prev) <= ClampDelta
<1> USE Constants
<1> DEFINE r        == ReleaseFactor(s)
           target   == Blended(s, raw)
           f        == IF r < One /\ kind # "none" THEN FilterStep(kind, s, target)
                       ELSE [y |-> s.y, yd |-> s.yd]
           filtered == IF r < One /\ kind # "none" THEN Mix(r, f.y, target) ELSE target
           cmd      == IF r >= One THEN filtered
                       ELSE Mix(r, ClampStep(s.prev, filtered), filtered)
<1>1. /\ s.measured \in Int /\ s.prev \in Int /\ s.y \in Int /\ s.yd \in Int /\ s.t \in Nat
      /\ s = [measured |-> s.measured, prev |-> s.prev, y |-> s.y, yd |-> s.yd, t |-> s.t]
  BY DEF Smoothers
<1>2. Step(kind, s, raw) = [s EXCEPT !.prev = cmd, !.y = f.y, !.yd = f.yd, !.t = s.t + 1]
  BY DEF Step
<1>3. r \in 0..One
  BY <1>1, ReleaseRises
<1>4. target \in Int
  <2>1. CASE Blending(s)
    <3> DEFINE w == Smoothstep(s.t, Blend)
    <3>1. w \in 0..One
      BY <1>1, <2>1, SmoothstepBounds DEF Blending
    <3> HIDE DEF w
    <3>2. Mix(w, s.measured, raw) \in Int
      BY <1>1, <3>1, MixTyped
    <3> QED BY <2>1, <3>2 DEF Blended, w
  <2>2. CASE ~Blending(s)
    BY <2>2 DEF Blended
  <2> QED BY <2>1, <2>2
<1> HIDE DEF r, target
<1>5. f \in [y : Int, yd : Int]
  BY <1>1, <1>4, FilterTyped
<1> HIDE DEF f
<1>6. filtered \in Int
  <2>1. Mix(r, f.y, target) \in Int
    BY <1>3, <1>4, <1>5, MixTyped
  <2> QED BY <1>4, <2>1
<1> HIDE DEF filtered
<1>7. ClampStep(s.prev, filtered) \in Int
      /\ (ClampDelta > 0 => Distance(s.prev, ClampStep(s.prev, filtered)) <= ClampDelta)
  BY <1>1, <1>6 DEF ClampStep, Distance
<1> DEFINE clamped == ClampStep(s.prev, filtered)
<1> HIDE DEF clamped
<1>8. Mix(r, clamped, filtered) \in Int /\ Mix(0, clamped, filtered) = clamped
  BY <1>3, <1>6, <1>7, MixTyped DEF clamped
<1>9. cmd = IF r >= One THEN filtered ELSE Mix(r, clamped, filtered)
  BY DEF clamped
<1> HIDE DEF cmd
<1>10. cmd \in Int /\ (r = 0 => cmd = clamped)
  BY <1>3, <1>6, <1>8, <1>9
<1>11. Step(kind, s, raw) = [measured |-> s.measured, prev |-> cmd, y |-> f.y,
                             yd |-> f.yd, t |-> s.t + 1]
  BY <1>1, <1>2
<1>12. f.y \in Int /\ f.yd \in Int
  BY <1>5
<1>13. Step(kind, s, raw) \in Smoothers
  BY <1>1, <1>10, <1>11, <1>12 DEF Smoothers
<1>14. Step(kind, s, raw).prev = cmd /\ Step(kind, s, raw).t = s.t + 1
       /\ Step(kind, s, raw).measured = s.measured
  BY <1>11
<1>15. ASSUME r = 0, ClampDelta > 0 PROVE Distance(s.prev, cmd) <= ClampDelta
  BY <1>7, <1>10, <1>15 DEF clamped
<1> QED BY <1>13, <1>14, <1>15 DEF r

\* The caps on the time leave out nothing: hold and ramps are over by then.
LEMMA TCapBound ==
    TCap \in Nat /\ CommandHold + CommandRamp <= TCap /\ GainRamp <= TCap
<1> DEFINE ends == {CommandHold + CommandRamp, ReleaseAt + ReleaseRamp, GainRamp}
<1> USE Constants
<1>1. CommandHold + CommandRamp \in ends /\ \A u \in ends : u <= CommandHold + CommandRamp
  OBVIOUS
<1>2. TCap \in ends /\ \A u \in ends : u <= TCap
  BY <1>1 DEF TCap
<1> QED BY <1>2

\* The limits hold what they get, and bring nothing further apart.
LEMMA Limits ==
    ASSUME NEW x \in Int, NEW y \in Int
    PROVE  /\ ClampToLimits(x) \in Poses
           /\ x \in Poses => ClampToLimits(x) = x
           /\ Distance(ClampToLimits(x), ClampToLimits(y)) <= Distance(x, y)
  BY Constants DEF ClampToLimits, Poses, Distance

-----------------------------------------------------------------------------
(* The inductive invariant                                                 *)

LEMMA InitInv == Init => AmoInv
<1> SUFFICES ASSUME Init PROVE AmoInv
  OBVIOUS
<1> USE Constants
<1>1. /\ setup \in [source : Sources, filter : Filters, observe_only : BOOLEAN]
      /\ held \in Requested \cup {0} /\ pad \in Pads
  BY DEF Init, Pads
<1>2. smoother \in [measured : Poses, prev : Int, y : Int, yd : Int, t : 0..TCap]
  BY TCapBound DEF Init, Reset, Poses
<1>3. gains \in (KpStart..One) \X (KdStart..One)
  BY DEF Init
<1>4. sent \in Poses /\ command \in 0..MaxVel /\ blind \in 0..StateTimeout
  BY DEF Init, Poses
<1>5. TypeOK
  BY <1>1, <1>2, <1>3, <1>4 DEF Init, TypeOK
<1> QED BY <1>5 DEF Init, AmoInv, WalksOnlyWhenSettled, NeverLeftDriven

\* What is asked for is zero, a request, or what a stick makes of the range.
LEMMA LiveTyped ==
    ASSUME TypeOK
    PROVE  Live \in Nat /\ (Live > 0 => Live \in Requested \cup {MaxVel * x : x \in Sticks})
<1> USE Constants
<1>1. CASE setup.source = "joystick"
  <2>1. CASE pad = None
    BY <1>1, <2>1 DEF Live, PadCommand
  <2>2. CASE pad # None
    <3> DEFINE x == pad.stick
    <3>1. x \in Sticks
      BY <2>2 DEF TypeOK, Pads
    <3> HIDE DEF x
    <3>2. x * MaxVel = MaxVel * x /\ x * MaxVel \in Nat
      BY <3>1
    <3>3. Live \in {0, x * MaxVel}
      BY <1>1 DEF Live, PadCommand, x
    <3> QED BY <3>1, <3>2, <3>3
  <2> QED BY <2>1, <2>2
<1>2. CASE setup.source # "joystick"
  BY <1>2 DEF Live, TypeOK
<1> QED BY <1>1, <1>2

\* The command is in its range, zero during the hold, and no more than the ramp
\* makes of what is asked for.
LEMMA AxisEases ==
    ASSUME TypeOK, NEW t \in Nat
    PROVE  /\ Axis(t) \in 0..MaxVel
           /\ Axis(t) > 0 => /\ t >= CommandHold /\ Live > 0
                             /\ Axis(t) * One <= Live * RampFactor(t - CommandHold, CommandRamp)
<1> USE Constants
<1>1. CASE t < CommandHold
  BY <1>1 DEF Axis, Eased, Lower
<1>2. CASE t >= CommandHold
  <2> DEFINE part  == RampFactor(t - CommandHold, CommandRamp)
             eased == (part * Live) \div One
             axis  == Axis(t)
  <2>1. part \in Nat
    <3>1. t - CommandHold \in Int /\ t - CommandHold <= t - CommandHold
      OBVIOUS
    <3> QED BY <3>1, RampRises
  <2>2. Live \in Nat
    BY LiveTyped
  <2>3. axis = Lower(eased, MaxVel)
    BY <1>2 DEF Axis, Eased
  <2> HIDE DEF part, axis
  <2>4. part * Live \in Nat /\ part * Live = Live * part
    BY <2>1, <2>2
  <2>5. eased \in Int /\ 0 <= eased /\ One * eased <= part * Live
    <3>1. 0 = One * 0 /\ (One * 0) \div One = 0
      BY QuotientOfMultiple
    <3>2. 0 \div One <= eased /\ eased \in Int
      BY <2>4, QuotientsAreOrdered
    <3>3. part * Live <= part * Live
      BY <2>4
    <3>4. One * eased <= part * Live
      BY <2>4, <3>3, QuotientsAreOrdered
    <3> QED BY <3>1, <3>2, <3>4
  <2>6. Live = 0 => eased = 0
    <3>1. part * 0 = One * 0 /\ (One * 0) \div One = 0
      BY <2>1, QuotientOfMultiple
    <3> QED BY <3>1
  <2> HIDE DEF eased
  <2>7. axis \in 0..MaxVel /\ axis <= eased
    BY <2>3, <2>5 DEF Lower
  <2>8. One * axis <= One * eased /\ One * axis = axis * One
    BY <2>5, <2>7, Monotone
  <2>9. axis * One <= Live * part
    <3>1. One * axis \in Int /\ One * eased \in Int
      BY <2>5, <2>7
    <3> QED BY <2>4, <2>5, <2>8, <3>1
  <2>10. axis > 0 => Live > 0
    BY <2>2, <2>5, <2>6, <2>7
  <2> QED BY <1>2, <2>7, <2>9, <2>10 DEF axis, part
<1> QED BY <1>1, <1>2

\* What an iteration does to smoother and motors.
LEMMA DriveStep ==
    ASSUME AmoInv, NEW a \in Actions, Drive(a)
    PROVE  \E next \in Smoothers :
              /\ next.t = smoother.t + 1 /\ next.measured = smoother.measured
              /\ smoother' = [next EXCEPT !.t = Lower(next.t, TCap)]
              /\ asked' \in Poses \cup {None}
              /\ Command(next)
              /\ ReleaseFactor(smoother) = 0 /\ ClampDelta > 0
                    => Distance(smoother.prev, next.prev) <= ClampDelta
<1> USE Constants
<1> DEFINE raw  == PolicyTarget(a)
           next == Step(setup.filter, smoother, raw)
<1>1. raw \in Poses /\ raw \in Int
  BY Limits DEF PolicyTarget, Poses
<1>2. smoother \in Smoothers
  BY TCapBound DEF AmoInv, TypeOK, Smoothers, Poses
<1>3. setup.filter \in FilterKinds
  BY AmoAssumption DEF AmoInv, TypeOK
<1>4. /\ next \in Smoothers /\ next.measured = smoother.measured
      /\ next.t = smoother.t + 1
      /\ ReleaseFactor(smoother) = 0 /\ ClampDelta > 0
            => Distance(smoother.prev, next.prev) <= ClampDelta
  BY <1>1, <1>2, <1>3, SmootherStep
<1>5. /\ smoother' = [next EXCEPT !.t = Lower(next.t, TCap)]
      /\ asked' = (IF smoother.t = 0 \/ asked = raw THEN raw ELSE None)
      /\ Command(next)
  BY DEF Drive
<1> HIDE DEF raw, next
<1> QED BY <1>1, <1>4, <1>5

LEMMA DriveKeepsInv ==
    ASSUME AmoInv, NEW a \in Actions, Drive(a)
    PROVE  AmoInv'
<1> USE Constants
<1>1. PICK next \in Smoothers :
              /\ next.t = smoother.t + 1 /\ next.measured = smoother.measured
              /\ smoother' = [next EXCEPT !.t = Lower(next.t, TCap)]
              /\ asked' \in Poses \cup {None}
              /\ Command(next)
  BY DriveStep
<1>2. /\ process = "running" /\ process' = process /\ seen' = TRUE /\ command' = Axis(smoother.t)
      /\ UNCHANGED <<setup, stop, robot, request>> /\ blind' = Blindness
      /\ ~(Blindness > StateTimeout)
  BY DEF Drive, Guarded, Measured, AmoInv, TypeOK
<1>3. smoother.t \in 0..TCap /\ smoother.measured \in Poses
  BY DEF AmoInv, TypeOK
<1>4. TCap \in Nat
  BY TCapBound
<1>5. next = [measured |-> next.measured, prev |-> next.prev, y |-> next.y,
              yd |-> next.yd, t |-> next.t]
      /\ next.prev \in Int /\ next.y \in Int /\ next.yd \in Int
  BY DEF Smoothers
<1>6. /\ smoother' \in [measured : Poses, prev : Int, y : Int, yd : Int, t : 0..TCap]
      /\ smoother'.t \in Nat /\ smoother.t <= smoother'.t
      /\ smoother'.prev = next.prev
  BY <1>1, <1>3, <1>4, <1>5 DEF Lower
<1>7. command' \in 0..MaxVel
  BY <1>2, <1>3, <1>4, AxisEases DEF AmoInv
<1>8. blind' \in 0..StateTimeout
  BY <1>2 DEF Blindness, AmoInv, TypeOK
<1>9. /\ gains' \in (KpStart..One) \X (KdStart..One) /\ sent' \in Poses
      /\ motors' \in {"off", "driven", "damped"}
      /\ setup.observe_only => motors' # "driven"
      /\ ~setup.observe_only => sent' = ClampToLimits(next.prev)
  <2>1. CASE setup.observe_only
    BY <1>1, <2>1 DEF Command, AmoInv, TypeOK
  <2>2. CASE ~setup.observe_only
    <3>1. /\ GainScale(next.t, KpStart) \in KpStart..One
          /\ GainScale(next.t, KdStart) \in KdStart..One
      BY <1>1, <1>3, GainsRise
    <3> QED BY <1>1, <1>5, <2>2, <3>1, Limits DEF Command
  <2> QED BY <2>1, <2>2
<1>10. ASSUME command' > 0 PROVE WalksOnlyWhenSettled'
  <2>1. /\ smoother.t >= CommandHold /\ Live > 0
        /\ command' * One <= Live * RampFactor(smoother.t - CommandHold, CommandRamp)
    BY <1>2, <1>3, <1>4, <1>10, AxisEases DEF AmoInv
  <2>2. ReleaseFactor(smoother') = One
    <3>1. smoother'.t >= ReleaseAt + ReleaseRamp
      BY <1>3, <1>6, <2>1
    <3> QED BY <1>6, <3>1, ReleaseRises
  <2>3. motors' = "driven" => gains' = <<One, One>>
    <3>1. CASE setup.observe_only
      BY <1>9, <3>1
    <3>2. CASE ~setup.observe_only
      <4>1. next.t >= GainRamp /\ next.t \in Int
        BY <1>1, <1>3, <2>1
      <4>2. GainScale(next.t, KpStart) = One /\ GainScale(next.t, KdStart) = One
        BY <4>1, GainsRise
      <4> QED BY <1>1, <3>2, <4>2 DEF Command
    <3> QED BY <3>1, <3>2
  <2> DEFINE before == RampFactor(smoother.t - CommandHold, CommandRamp)
             after  == RampFactor(smoother'.t - CommandHold, CommandRamp)
  <2>4. before \in Nat /\ after \in Nat /\ before <= after
    <3> DEFINE m == smoother.t - CommandHold
               n == smoother'.t - CommandHold
    <3>1. m \in Int /\ n \in Int /\ m <= n
      BY <1>3, <1>6
    <3> HIDE DEF m, n
    <3>2. /\ RampFactor(m, CommandRamp) \in 0..One /\ RampFactor(n, CommandRamp) \in 0..One
          /\ RampFactor(m, CommandRamp) <= RampFactor(n, CommandRamp)
      BY <3>1, RampRises
    <3> QED BY <3>2 DEF m, n
  <2>5. command' * One <= Live * before
    BY <2>1
  <2> HIDE DEF before, after
  <2>6. Live \in Nat /\ Live \in Requested \cup {MaxVel * x : x \in Sticks}
    BY <2>1, LiveTyped DEF AmoInv
  <2>7. Live * before <= Live * after
    BY <2>4, <2>6, Monotone
  <2>8. command' * One <= Live * after
    <3>1. command' * One \in Int /\ Live * before \in Int /\ Live * after \in Int
      BY <1>7, <2>4, <2>6
    <3> QED BY <2>5, <2>7, <3>1
  <2>9. \E v \in Requested \cup {MaxVel * x : x \in Sticks} : command' * One <= v * after
    BY <2>6, <2>8
  <2> QED BY <1>2, <2>2, <2>3, <2>9 DEF WalksOnlyWhenSettled, after
<1>11. WalksOnlyWhenSettled'
  BY <1>10 DEF WalksOnlyWhenSettled
<1>12. TypeOK'
  BY <1>1, <1>2, <1>6, <1>7, <1>8, <1>9 DEF AmoInv, TypeOK, robot, request, Poses, Pads
<1> QED BY <1>2, <1>6, <1>9, <1>11, <1>12 DEF AmoInv, NeverLeftDriven, ClampToLimits

\* The hand-off starts from the posture the robot is found in.
LEMMA HandOffKeepsInv ==
    ASSUME AmoInv, NEW q \in Postures, HandOff(q)
    PROVE  AmoInv'
<1> USE Constants DEF HandOff
<1>1. q \in Poses /\ q \in Int /\ ClampToLimits(q) = q
  BY Limits DEF Poses
<1>2. smoother' \in [measured : Poses, prev : Int, y : Int, yd : Int, t : 0..TCap]
      /\ smoother'.prev = q
  BY <1>1, TCapBound DEF Reset
<1>3. seen' \in BOOLEAN /\ blind' \in 0..StateTimeout
  BY DEF AmoInv, TypeOK
<1>4. TypeOK'
  BY <1>1, <1>2, <1>3 DEF AmoInv, TypeOK, robot, request, Poses, Pads
<1>5. sent' = ClampToLimits(smoother'.prev)
  BY <1>1, <1>2
<1> QED
  BY <1>4, <1>5 DEF AmoInv, WalksOnlyWhenSettled, NeverLeftDriven, ClampToLimits

\* The other steps leave smoother and command alone.
LEMMA OthersKeepInv ==
    ASSUME AmoInv,
           \/ StartFails \/ LoopEnds \/ LoopRaises \/ ShutsDown \/ Signal \/ Killed
           \/ RobotTips \/ LowStateChanges
           \/ \E v \in Requested : WebSocketSets(v)
           \/ \E p \in Pads : PadMoves(p)
           \/ UNCHANGED vars
    PROVE  AmoInv'
<1> USE Constants DEF vars, robot, request, output
<1>1. /\ UNCHANGED <<setup, smoother, command, sent, gains, asked>>
      /\ stop' \in BOOLEAN /\ upright' \in BOOLEAN /\ seen' \in BOOLEAN
      /\ low_state' \in {"live", "frozen", "none"}
      /\ held' \in Requested \cup {0} /\ pad' \in Pads
  BY DEF AmoInv, TypeOK, StartFails, LoopEnds, LoopRaises, ShutsDown, Signal, Killed,
         RobotTips, LowStateChanges, WebSocketSets, PadMoves, Measured
<1>2. blind' \in 0..StateTimeout
  BY DEF AmoInv, TypeOK, StartFails, LoopEnds, LoopRaises, ShutsDown, Signal, Killed,
         RobotTips, LowStateChanges, WebSocketSets, PadMoves, Blindness, Lower
<1>3. /\ process' \in {"starting", "running", "exiting", "done", "killed"}
      /\ motors' \in {"off", "driven", "damped"}
      /\ process' = "starting" => process = "starting" /\ motors' = motors
      /\ process' = "running" => process = "running" /\ seen' = seen /\ motors' = motors
      /\ motors' = "driven" => motors = "driven"
      /\ process' = "done" => motors' # "driven"
  BY DEF AmoInv, TypeOK, NeverLeftDriven, StartFails, LoopEnds, LoopRaises, ShutsDown, Signal,
         Killed, RobotTips, LowStateChanges, WebSocketSets, PadMoves
<1>4. TypeOK'
  BY <1>1, <1>2, <1>3 DEF AmoInv, TypeOK, Poses, Pads
<1>5. WalksOnlyWhenSettled'
  BY <1>1, <1>3 DEF AmoInv, WalksOnlyWhenSettled
<1> QED BY <1>1, <1>3, <1>4, <1>5 DEF AmoInv, NeverLeftDriven, ClampToLimits

-----------------------------------------------------------------------------
(* Theorems                                                                *)

\* AmoInv holds in every reachable state.
THEOREM AmoInvariance == Spec => []AmoInv
<1>1. AmoInv /\ [Next]_vars => AmoInv'
  BY DriveKeepsInv, HandOffKeepsInv, OthersKeepInv DEF Next, Loop
<1> QED BY InitInv, <1>1, PTL DEF Spec

\* Types hold throughout: poses stay within the limits of the joint, gains within
\* their ramps, the command within its range.
THEOREM AmoTypes == Spec => []TypeOK
<1>1. AmoInv => TypeOK
  BY DEF AmoInv
<1> QED BY AmoInvariance, <1>1, PTL

\* Whatever stick, WebSocket, posture and policy do, the policy is asked to walk
\* only with filters released and gains full, and never faster than the ramp allows;
\* and only after the robot was measured upright, however long ago that was.
THEOREM WalksSettled == Spec => []WalksOnlyWhenSettled
<1>1. AmoInv => WalksOnlyWhenSettled
  BY DEF AmoInv
<1> QED BY AmoInvariance, <1>1, PTL

\* However the program ends of its own, it does not leave the motors driven.
THEOREM EndsUndriven == Spec => []NeverLeftDriven
<1>1. AmoInv => NeverLeftDriven
  BY DEF AmoInv
<1> QED BY AmoInvariance, <1>1, PTL

\* While nothing of the smoothing is released, no command is further from the one
\* before than the clamp allows, for every filter and every policy.
THEOREM ClampHolds == Spec => EngagedClampHolds
<1> DEFINE Near == process = "running" /\ ClampDelta > 0 /\ ReleaseFactor(smoother) = 0
                      => Distance(sent, sent') <= ClampDelta
<1>1. AmoInv /\ [Next]_vars => Near
  <2> SUFFICES ASSUME AmoInv, [Next]_vars, process = "running", ClampDelta > 0,
                      ReleaseFactor(smoother) = 0
               PROVE  Distance(sent, sent') <= ClampDelta
    OBVIOUS
  <2>1. sent \in Int
    BY Constants DEF AmoInv, TypeOK, Poses
  <2>2. CASE sent' = sent
    BY <2>1, <2>2, Constants DEF Distance
  <2>3. CASE sent' # sent
    <3>1. PICK a \in Actions : Drive(a)
      BY <2>3 DEF Next, Loop, HandOff, StartFails, LoopEnds, LoopRaises, ShutsDown, Signal,
                  Killed, RobotTips, LowStateChanges, WebSocketSets, PadMoves, vars, output
    <3>2. PICK next \in Smoothers :
              /\ Command(next) /\ Distance(smoother.prev, next.prev) <= ClampDelta
      BY <3>1, DriveStep
    <3>3. sent = ClampToLimits(smoother.prev) /\ sent' = ClampToLimits(next.prev)
      BY <2>3, <3>2 DEF Command, AmoInv
    <3>4. smoother.prev \in Int /\ next.prev \in Int
      BY DEF AmoInv, TypeOK, Smoothers
    <3>5. Distance(sent, sent') <= Distance(smoother.prev, next.prev)
      BY <3>3, <3>4, Limits
    <3>6. Distance(sent, sent') \in Int /\ Distance(smoother.prev, next.prev) \in Int
      <4>1. sent \in Int /\ sent' \in Int
        BY <2>1, <3>3, <3>4, Limits, Constants DEF Poses
      <4> QED BY <3>4, <4>1 DEF Distance
    <3> QED BY <3>2, <3>5, <3>6, Constants
  <2> QED BY <2>2, <2>3
<1>2. AmoInv /\ [Next]_vars => [Near]_vars
  BY <1>1
<1>3. []AmoInv /\ [][Next]_vars => [][Near]_vars
  BY <1>2, PTL
<1> QED BY AmoInvariance, <1>3, PTL DEF Spec, EngagedClampHolds
=============================================================================
