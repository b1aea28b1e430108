-------------------------- MODULE LocoBridgeProofs --------------------------
(***************************************************************************)
(* The bridge to the native gait never moves the robot on an old command,  *)
(* never lets its command jump after a stop, and brings the robot up in    *)
(* the proper order, for every value of the constants.                     *)
(***************************************************************************)
EXTENDS LocoBridge, TLAPS

-----------------------------------------------------------------------------
(* Arithmetic of the smoother                                              *)

\* A product of a larger number and a positive one is larger.
LEMMA Monotone ==
    ASSUME NEW a \in Int, NEW b \in Int, NEW d \in Nat, a <= b
    PROVE  d * a <= d * b
<1>1. d * (b - a) >= 0
  BY SMT
<1>2. d * (b - a) = d * b - d * a
  BY SMT
<1> QED BY <1>1, <1>2

\* When the larger of two numbers grows by one, and the other by no more, their
\* difference does not shrink.
LEMMA DifferenceGrows ==
    ASSUME NEW a \in Int, NEW b \in Int, NEW c \in Int, NEW d \in Int,
           c = a + 1, d <= b + 1
    PROVE  a - b \in Int /\ c - d \in Int /\ a - b <= c - d
OBVIOUS

\* A share of a number, rounded down, lies between zero and the number.
LEMMA ShareIsBetween ==
    ASSUME NEW x \in Int, NEW d \in Nat \ {0}, NEW n \in 0..d
    PROVE  LET q == (n * x) \div d
           IN  /\ q \in Int
               /\ x >= 0 => 0 <= q /\ q <= x
               /\ x <= 0 => x <= q /\ q <= 0
<1> DEFINE q == (n * x) \div d
<1>1. q \in Int /\ n * x \in Int /\ d * q \in Int /\ d * x \in Int
  OBVIOUS
<1>2. d * q <= n * x /\ n * x < d * q + d
  BY <1>1
<1>3. CASE x >= 0
  <2>1. 0 <= n * x
    BY <1>3
  <2>2. n * x <= d * x
    <3>1. x * n <= x * d
      BY <1>3, Monotone
    <3> QED BY <3>1
  <2>3. 0 <= q
    <3>1. SUFFICES ASSUME q <= -1 PROVE FALSE
      BY <1>1
    <3>2. d * q <= d * (-1)
      BY <1>1, <3>1, Monotone
    <3>3. d * (-1) = -d
      OBVIOUS
    <3> HIDE DEF q
    <3> QED BY <1>1, <1>2, <2>1, <3>2, <3>3
  <2>4. q <= x
    <3>1. SUFFICES ASSUME x + 1 <= q PROVE FALSE
      BY <1>1
    <3>2. d * (x + 1) <= d * q
      BY <1>1, <3>1, Monotone
    <3>3. d * (x + 1) = d * x + d
      OBVIOUS
    <3> HIDE DEF q
    <3> QED BY <1>1, <1>2, <2>2, <3>2, <3>3
  <2> QED BY <1>1, <1>3, <2>1, <2>2, <2>3, <2>4
<1>4. CASE x <= 0
  <2>1. n * x <= 0
    BY <1>4
  <2>2. d * x <= n * x
    <3>1. (-x) * n <= (-x) * d
      BY <1>4, Monotone
    <3> QED BY <3>1
  <2>3. q <= 0
    <3>1. SUFFICES ASSUME 1 <= q PROVE FALSE
      BY <1>1
    <3>2. d * 1 <= d * q
      BY <1>1, <3>1, Monotone
    <3> HIDE DEF q
    <3> QED BY <1>1, <1>2, <2>1, <3>2
  <2>4. x <= q
    <3>1. SUFFICES ASSUME q + 1 <= x PROVE FALSE
      BY <1>1
    <3>2. d * (q + 1) <= d * x
      BY <1>1, <3>1, Monotone
    <3>3. d * (q + 1) = d * q + d
      BY <1>1
    <3> HIDE DEF q
    <3> QED BY <1>1, <1>2, <2>2, <3>2, <3>3
  <2> QED BY <1>1, <1>4, <2>1, <2>2, <2>3, <2>4
<1> QED BY <1>1, <1>3, <1>4

\* What the smoother gives lies within the limits of what it is given, and no
\* further from the last one than the slew allows.
LEMMA SmoothedFacts ==
    ASSUME NEW prev \in Int, NEW wanted \in Int, NEW t \in Nat, NEW d \in Nat,
           NEW m \in Nat, 0 - m <= prev, prev <= m, 0 - m <= wanted, wanted <= m
    PROVE  LET v == Smoothed(prev, wanted, t, d)
           IN  /\ v \in (0 - m)..m
               /\ prev - Slew * d <= v /\ v <= prev + Slew * d
<1> USE LocoAssumption DEF SmootherConstants
<1> DEFINE target == Ramped(wanted, t)
           step   == (AlphaNum * (target - prev)) \div AlphaDen
           lim    == Slew * d
<1>1. target \in Int /\ 0 - m <= target /\ target <= m
  <2>1. CASE t >= Ramp
    BY <2>1 DEF Ramped
  <2>2. CASE t < Ramp
    <3>1. t \in 0..Ramp /\ Ramp \in Nat \ {0}
      BY <2>2
    <3>2. /\ (t * wanted) \div Ramp \in Int
          /\ wanted >= 0 => 0 <= (t * wanted) \div Ramp /\ (t * wanted) \div Ramp <= wanted
          /\ wanted <= 0 => wanted <= (t * wanted) \div Ramp /\ (t * wanted) \div Ramp <= 0
      BY <3>1, ShareIsBetween
    <3>3. t * wanted = wanted * t
      OBVIOUS
    <3>4. target = (t * wanted) \div Ramp
      BY <2>2, <3>3 DEF Ramped
    <3> QED BY <3>2, <3>4
  <2> QED BY <2>1, <2>2
<1>2. lim \in Nat
  OBVIOUS
<1> HIDE DEF target, lim
<1>3. /\ step \in Int
      /\ target - prev >= 0 => 0 <= step /\ step <= target - prev
      /\ target - prev <= 0 => target - prev <= step /\ step <= 0
  <2>1. target - prev \in Int
    BY <1>1
  <2> QED BY <2>1, ShareIsBetween
<1>4. Smoothed(prev, wanted, t, d)
        = prev + (IF step > lim THEN lim ELSE IF step < 0 - lim THEN 0 - lim ELSE step)
  BY DEF Smoothed, Approach, target, lim
<1> HIDE DEF step
<1> QED BY <1>1, <1>2, <1>3, <1>4 DEF lim

-----------------------------------------------------------------------------
(* The inductive invariant                                                 *)

\* Under the bring-up thread the robot stands, or walks, before it may walk, unless
\* the firmware has not followed the StandUp it accepted.
BringUpInOrder ==
    process = "up" /\ bring_up \in {"start", "wait"} => fsm \in {"stand", "walk"} \/ ignored

\* A velocity in force was sent on a command that was recent then.
HeldIsRecent == vel # 0 => hold > 0 /\ cmd_age + hold <= CmdTimeout + Hold

\* The filter has moved by what the slew allows up to the last timer callback.
FilterIsSlow ==
    /\ estop => smooth = 0
    /\ Slew = 0 => smooth = 0
    /\ \/ since_stop = SinceCap
       \/ dt <= since_stop /\ Distance(smooth) <= Slew * (since_stop - dt)

LocoInv == TypeOK /\ BringUpInOrder /\ HeldIsRecent /\ FilterIsSlow

\* What the assumption says of the constants.
LEMMA Constants ==
    /\ {Ramp, Slew, MaxVel, CmdTimeout, Hold, RpcTimeout, Attempts} \subseteq Nat
    /\ Hold > 0 /\ RpcTimeout > 0 /\ Attempts > 0
    /\ Requests \subseteq Nat /\ AutoBringUp \in BOOLEAN /\ DampOnShutdown \in BOOLEAN
    /\ {CmdAgeCap, DtCap, SinceCap} \subseteq Nat
    /\ CmdAgeCap = CmdTimeout + Hold + 1 /\ SinceCap = MaxVel + 1
    /\ 0 \in 0..DtCap /\ 0 \in 0..RpcTimeout /\ 0 \in 0..Ramp
BY LocoAssumption DEF SmootherConstants, CmdAgeCap, DtCap, SinceCap

\* A call of the service: what is sent is in force, or what was still is.
LEMMA SetVelocityFacts ==
    ASSUME TypeOK, NEW v \in (0 - MaxVel)..MaxVel, SetVelocity(v)
    PROVE  /\ vel' \in (0 - MaxVel)..MaxVel /\ hold' \in 0..Hold
           /\ calling' \in 0..RpcTimeout /\ fsm' = fsm
           /\ \/ UNCHANGED <<vel, hold>>
              \/ hold' = Hold /\ (v = 0 => vel' = 0)
BY Constants DEF TypeOK, SetVelocity

\* A stop: zero is sent, or the service does not answer and nothing changes.
LEMMA StopFacts ==
    ASSUME TypeOK, HeldIsRecent, SetVelocity(0), UNCHANGED cmd_age
    PROVE  /\ vel' \in (0 - MaxVel)..MaxVel /\ hold' \in 0..Hold
           /\ calling' \in 0..RpcTimeout /\ fsm' = fsm
           /\ HeldIsRecent'
<1>1. 0 \in (0 - MaxVel)..MaxVel
  BY Constants
<1> QED BY <1>1, SetVelocityFacts DEF HeldIsRecent

\* A state of the firmware that is set.
LEMMA EntersFsmFacts ==
    ASSUME TypeOK, HeldIsRecent, NEW f \in Fsms, EntersFsm(f), UNCHANGED cmd_age
    PROVE  /\ fsm' = f /\ vel' \in (0 - MaxVel)..MaxVel /\ hold' \in 0..Hold
           /\ HeldIsRecent'
<1>1. vel' \in {vel, 0} /\ hold' = hold /\ fsm' = f
  BY DEF EntersFsm
<1>2. 0 \in (0 - MaxVel)..MaxVel
  BY Constants
<1> QED BY <1>1, <1>2 DEF TypeOK, HeldIsRecent

\* The bridge starts in the invariant.
LEMMA LocoStarts == Init => LocoInv
<1> SUFFICES ASSUME Init PROVE LocoInv
  OBVIOUS
<1> USE Constants
<1>1. /\ cmd \in (0 - MaxVel)..MaxVel /\ cmd_age \in 0..CmdAgeCap
      /\ smooth \in (0 - MaxVel)..MaxVel /\ elapsed \in 0..Ramp
      /\ dt \in 0..DtCap /\ calling \in 0..RpcTimeout /\ attempt \in 0..Attempts
      /\ vel \in (0 - MaxVel)..MaxVel /\ hold \in 0..Hold /\ since_stop \in 0..SinceCap
  BY DEF Init
<1>2. {estop, due, service, ignored} \subseteq BOOLEAN
  BY DEF Init
<1>3. TypeOK
  BY <1>1, <1>2 DEF Init, TypeOK, Processes, BringUps
<1>4. BringUpInOrder /\ HeldIsRecent
  BY DEF Init, BringUpInOrder, HeldIsRecent
<1>5. FilterIsSlow
  <2>1. Slew * (since_stop - dt) = 0
    BY DEF Init
  <2> QED BY <2>1 DEF Init, FilterIsSlow, Distance
<1> QED BY <1>3, <1>4, <1>5 DEF LocoInv

\* A command is stored within its limits.
LEMMA TwistKeepsInv ==
    ASSUME LocoInv, NEW v \in Int, OnTwist(v)
    PROVE  LocoInv'
<1> USE Constants DEF LocoInv
<1>1. cmd' \in (0 - MaxVel)..MaxVel /\ cmd_age' = 0
  BY DEF OnTwist, Clip, Lower
<1>2. UNCHANGED <<process, estop, smooth, elapsed, dt, due, calling, bring_up, attempt,
                  ignored, service, fsm, vel, hold, since_stop>>
  BY DEF OnTwist, filter, thread, firmware
<1>3. TypeOK'
  BY <1>1, <1>2 DEF TypeOK
<1>4. BringUpInOrder'
  BY <1>2 DEF BringUpInOrder
<1>5. HeldIsRecent'
  BY <1>1, <1>2 DEF HeldIsRecent, TypeOK
<1>6. FilterIsSlow'
  BY <1>2 DEF FilterIsSlow, Distance
<1> QED BY <1>3, <1>4, <1>5, <1>6

\* An e-stop that engages resets the filter and stops the gait; the time until
\* the next timer callback starts before it.
LEMMA EstopKeepsInv ==
    ASSUME LocoInv, NEW engaged \in BOOLEAN, OnEstop(engaged)
    PROVE  LocoInv'
<1> USE Constants
<1>1. /\ estop' = engaged
      /\ UNCHANGED <<process, cmd_age, dt, due, bring_up, attempt, ignored, service>>
  BY DEF OnEstop, thread
<1>2. CASE engaged /\ ~estop
  <2>1. /\ cmd' = 0 /\ smooth' = 0 /\ elapsed' = 0 /\ SetVelocity(0)
        /\ since_stop' = Lower(dt, SinceCap)
    BY <1>2 DEF OnEstop, ResetSmoother
  <2>2. /\ vel' \in (0 - MaxVel)..MaxVel /\ hold' \in 0..Hold
        /\ calling' \in 0..RpcTimeout /\ fsm' = fsm /\ HeldIsRecent'
    BY <1>1, <2>1, StopFacts DEF LocoInv
  <2>3. since_stop' \in 0..SinceCap /\ 0 \in (0 - MaxVel)..MaxVel /\ 0 \in 0..Ramp
    BY <2>1 DEF LocoInv, TypeOK, Lower
  <2>4. TypeOK'
    BY <1>1, <2>1, <2>2, <2>3 DEF LocoInv, TypeOK
  <2>5. BringUpInOrder'
    BY <1>1, <2>2 DEF LocoInv, BringUpInOrder
  <2>6. FilterIsSlow'
    <3>1. since_stop' = SinceCap \/ since_stop' = dt'
      BY <1>1, <2>1 DEF Lower
    <3>2. dt \in Nat
      BY DEF LocoInv, TypeOK
    <3>3. since_stop' = dt' => Slew * (since_stop' - dt') = 0
      BY <1>1, <3>2
    <3> QED BY <1>1, <2>1, <3>1, <3>2, <3>3 DEF FilterIsSlow, Distance
  <2> QED BY <2>2, <2>4, <2>5, <2>6 DEF LocoInv
<1>3. CASE ~(engaged /\ ~estop)
  <2>1. UNCHANGED <<cmd, smooth, elapsed, calling, fsm, vel, hold, since_stop>>
    BY <1>3 DEF OnEstop, filter, firmware
  <2>2. TypeOK'
    BY <1>1, <2>1 DEF LocoInv, TypeOK
  <2>3. BringUpInOrder' /\ HeldIsRecent'
    BY <1>1, <2>1 DEF LocoInv, BringUpInOrder, HeldIsRecent
  <2>4. FilterIsSlow'
    BY <1>1, <1>3, <2>1 DEF LocoInv, FilterIsSlow, Distance
  <2> QED BY <2>2, <2>3, <2>4 DEF LocoInv
<1> QED BY <1>2, <1>3

\* The timer: a stop, or one step of the filter that is sent on.
LEMMA TimerKeepsInv == LocoInv /\ OnTick => LocoInv'
<1> SUFFICES ASSUME LocoInv, OnTick PROVE LocoInv'
  OBVIOUS
<1> USE Constants
<1>1. /\ due' = FALSE /\ dt' = 0
      /\ UNCHANGED <<process, cmd_age, estop, bring_up, attempt, ignored, service>>
  BY DEF OnTick, thread
<1>2. /\ cmd \in (0 - MaxVel)..MaxVel /\ smooth \in (0 - MaxVel)..MaxVel /\ dt \in Nat
      /\ elapsed \in 0..Ramp /\ cmd_age \in Nat /\ since_stop \in 0..SinceCap
  BY DEF LocoInv, TypeOK
<1>3. ASSUME cmd' \in (0 - MaxVel)..MaxVel, smooth' \in (0 - MaxVel)..MaxVel,
             elapsed' \in 0..Ramp, since_stop' \in 0..SinceCap,
             vel' \in (0 - MaxVel)..MaxVel, hold' \in 0..Hold,
             calling' \in 0..RpcTimeout, fsm' = fsm
      PROVE  TypeOK' /\ BringUpInOrder'
  <2>1. dt' \in 0..DtCap
    BY <1>1
  <2>2. due' \in BOOLEAN
    BY <1>1
  <2>3. TypeOK'
    BY <1>1, <1>3, <2>1, <2>2 DEF LocoInv, TypeOK
  <2>4. BringUpInOrder'
    BY <1>1, <1>3 DEF LocoInv, BringUpInOrder
  <2> QED BY <2>3, <2>4
<1>4. ASSUME smooth' = 0, since_stop' = 0 PROVE FilterIsSlow'
  <2>1. Slew * (since_stop' - dt') = 0
    BY <1>1, <1>4
  <2> QED BY <1>1, <1>4, <2>1 DEF FilterIsSlow, Distance
<1>5. CASE estop \/ Stale
  <2>1. SetVelocity(0) /\ since_stop' = 0 /\ cmd' \in {cmd, 0} /\ smooth' = 0
        /\ elapsed' \in {elapsed, 0}
    BY <1>5 DEF OnTick, filter, ResetSmoother, LocoInv, FilterIsSlow
  <2>2. /\ vel' \in (0 - MaxVel)..MaxVel /\ hold' \in 0..Hold
        /\ calling' \in 0..RpcTimeout /\ fsm' = fsm /\ HeldIsRecent'
    BY <1>1, <2>1, StopFacts DEF LocoInv
  <2>3. TypeOK' /\ BringUpInOrder'
    BY <1>2, <1>3, <2>1, <2>2
  <2> QED BY <1>4, <2>1, <2>2, <2>3 DEF LocoInv
<1>6. CASE ~estop /\ ~Stale
  <2>1. /\ smooth' = Smoothed(smooth, cmd, elapsed, dt) /\ SetVelocity(smooth')
        /\ UNCHANGED <<cmd, elapsed, since_stop>>
    BY <1>6 DEF OnTick
  <2>2. /\ smooth' \in (0 - MaxVel)..MaxVel
        /\ smooth - Slew * dt <= smooth' /\ smooth' <= smooth + Slew * dt
    <3>1. /\ smooth \in Int /\ cmd \in Int /\ elapsed \in Nat /\ dt \in Nat /\ MaxVel \in Nat
          /\ 0 - MaxVel <= smooth /\ smooth <= MaxVel /\ 0 - MaxVel <= cmd /\ cmd <= MaxVel
      BY <1>2
    <3> QED BY ONLY <2>1, <3>1, SmoothedFacts
  <2>3. /\ vel' \in (0 - MaxVel)..MaxVel /\ hold' \in 0..Hold
        /\ calling' \in 0..RpcTimeout /\ fsm' = fsm
        /\ UNCHANGED <<vel, hold>> \/ hold' = Hold
    BY <2>1, <2>2, SetVelocityFacts DEF LocoInv
  <2>4. TypeOK' /\ BringUpInOrder'
    BY <1>2, <1>3, <2>1, <2>2, <2>3
  <2>5. HeldIsRecent'
    <3>1. cmd_age <= CmdTimeout
      BY <1>2, <1>6 DEF Stale
    <3> QED BY <1>1, <1>2, <2>3, <3>1 DEF LocoInv, HeldIsRecent
  <2>6. FilterIsSlow'
    <3>1. ASSUME Slew = 0 PROVE smooth' = 0
      <4>1. smooth = 0 /\ Slew * dt = 0
        BY <1>2, <3>1 DEF LocoInv, FilterIsSlow
      <4> QED BY <2>2, <4>1
    <3>2. ASSUME since_stop # SinceCap
          PROVE  Distance(smooth') <= Slew * (since_stop - 0)
      <4>1. dt <= since_stop /\ Distance(smooth) <= Slew * (since_stop - dt)
        BY <3>2 DEF LocoInv, FilterIsSlow
      <4>2. Slew * (since_stop - dt) = Slew * since_stop - Slew * dt
        BY <1>2
      <4>3. Slew * since_stop \in Int /\ Slew * dt \in Int
        BY <1>2
      <4>4. Distance(smooth') <= Slew * since_stop
        BY <1>2, <2>2, <4>1, <4>2, <4>3 DEF Distance
      <4> QED BY <1>2, <4>4
    <3>3. 0 <= since_stop
      BY <1>2
    <3> QED BY <1>1, <1>6, <2>1, <3>1, <3>2, <3>3 DEF FilterIsSlow
  <2> QED BY <2>4, <2>5, <2>6 DEF LocoInv
<1> QED BY <1>5, <1>6

\* The thread and the operator set states of the firmware in the proper order.
LEMMA FirmwareKeepsInv ==
    ASSUME LocoInv, BringUp \/ OperatorSetsFsm \/ ServiceChanges
    PROVE  LocoInv'
<1> USE Constants
<1>1. UNCHANGED <<process, cmd, cmd_age, estop, smooth, elapsed, dt, due, calling, since_stop>>
  BY DEF BringUp, OperatorSetsFsm, ServiceChanges, bridge, filter
<1>2. FilterIsSlow'
  BY <1>1 DEF LocoInv, FilterIsSlow, Distance
<1>3. ASSUME fsm' \in Fsms, vel' \in (0 - MaxVel)..MaxVel, hold' \in 0..Hold,
             bring_up' \in BringUps, attempt' \in 0..Attempts, ignored' \in BOOLEAN,
             service' \in BOOLEAN
      PROVE  TypeOK'
  BY <1>1, <1>3 DEF LocoInv, TypeOK
<1>4. CASE ServiceChanges
  <2>1. service' \in BOOLEAN /\ UNCHANGED <<bring_up, attempt, ignored, fsm, vel, hold>>
    BY <1>4 DEF ServiceChanges, thread, firmware
  <2>2. TypeOK'
    BY <1>3, <2>1 DEF LocoInv, TypeOK
  <2> QED BY <1>1, <1>2, <2>1, <2>2 DEF LocoInv, BringUpInOrder, HeldIsRecent
<1>5. CASE OperatorSetsFsm
  <2>1. bring_up = "none" /\ UNCHANGED <<bring_up, attempt, ignored, service>>
        /\ \E f \in Fsms : EntersFsm(f)
    BY <1>5 DEF OperatorSetsFsm, thread, Fsms
  <2>2. fsm' \in Fsms /\ vel' \in (0 - MaxVel)..MaxVel /\ hold' \in 0..Hold /\ HeldIsRecent'
    BY <1>1, <2>1, EntersFsmFacts DEF LocoInv
  <2>3. TypeOK'
    BY <1>3, <2>1, <2>2 DEF LocoInv, TypeOK
  <2> QED BY <1>2, <2>1, <2>2, <2>3 DEF LocoInv, BringUpInOrder
<1>6. CASE BringUp
  <2>1. UNCHANGED service
    BY <1>6 DEF BringUp
  <2>2. TypeOK /\ HeldIsRecent /\ UNCHANGED cmd_age
    BY <1>1 DEF LocoInv
  <2>3. ASSUME NEW f \in Fsms, NEW next \in BringUps, ThreadCalls(f, next)
        PROVE  /\ fsm' \in {f, fsm} /\ vel' \in (0 - MaxVel)..MaxVel /\ hold' \in 0..Hold
               /\ HeldIsRecent'
               /\ (service /\ bring_up' = next) \/ bring_up' = "none"
    <3>1. CASE service /\ EntersFsm(f)
      BY <2>2, <2>3, <3>1, EntersFsmFacts DEF ThreadCalls
    <3>2. CASE UNCHANGED firmware
      BY <2>2, <2>3, <3>2 DEF ThreadCalls, firmware, TypeOK, HeldIsRecent
    <3> QED BY <2>3, <3>1, <3>2 DEF ThreadCalls
  <2>4. ASSUME UNCHANGED firmware
        PROVE  /\ fsm' = fsm /\ vel' \in (0 - MaxVel)..MaxVel /\ hold' \in 0..Hold
               /\ HeldIsRecent'
    BY <2>2, <2>4 DEF firmware, TypeOK, HeldIsRecent
  <2>5. {"damp", "stand", "walk"} = Fsms
        /\ {"none", "probe", "damp", "stand", "start", "wait"} = BringUps
    BY DEF Fsms, BringUps
  <2>6. fsm \in Fsms /\ attempt \in 0..Attempts /\ {ignored, service} \subseteq BOOLEAN
    BY <2>2 DEF TypeOK
  <2>7. CASE BringUpProbes
    <3>1. bring_up' \in {"damp", "none"} /\ UNCHANGED <<attempt, ignored, firmware>>
      BY <2>7 DEF BringUpProbes
    <3>2. TypeOK'
      BY <1>3, <2>1, <2>4, <2>5, <2>6, <3>1
    <3> QED BY <1>2, <2>4, <3>1, <3>2 DEF LocoInv, BringUpInOrder
  <2>8. CASE BringUpDamps
    <3>1. ThreadCalls("damp", "stand") /\ UNCHANGED <<attempt, ignored>>
      BY <2>8 DEF BringUpDamps
    <3>2. /\ fsm' \in Fsms /\ vel' \in (0 - MaxVel)..MaxVel /\ hold' \in 0..Hold
          /\ HeldIsRecent' /\ bring_up' \in {"stand", "none"}
      BY <2>3, <2>5, <2>6, <3>1
    <3>3. TypeOK'
      BY <1>3, <2>1, <2>5, <2>6, <3>1, <3>2
    <3> QED BY <1>2, <3>2, <3>3 DEF LocoInv, BringUpInOrder
  <2>9. CASE BringUpStands
    <3>1. /\ ThreadCalls("stand", "start") /\ attempt' = attempt
          /\ ignored' = (service /\ fsm' # "stand")
      BY <2>9 DEF BringUpStands
    <3>2. /\ fsm' \in Fsms /\ vel' \in (0 - MaxVel)..MaxVel /\ hold' \in 0..Hold
          /\ HeldIsRecent'
          /\ (service /\ bring_up' = "start") \/ bring_up' = "none"
      BY <2>3, <2>5, <2>6, <3>1
    <3>3. ignored' \in BOOLEAN
      BY <3>1
    <3>4. TypeOK'
      BY <1>3, <2>1, <2>5, <2>6, <3>1, <3>2, <3>3
    <3>5. BringUpInOrder'
      BY <3>1, <3>2 DEF BringUpInOrder
    <3> QED BY <1>2, <3>2, <3>4, <3>5 DEF LocoInv
  <2>10. CASE BringUpStarts
    <3>1. /\ bring_up = "start" /\ attempt' \in 0..Attempts /\ ThreadCalls("walk", "wait")
          /\ ignored' = ignored
      BY <2>6, <2>10 DEF BringUpStarts
    <3>2. /\ fsm' \in {fsm, "walk"} /\ vel' \in (0 - MaxVel)..MaxVel /\ hold' \in 0..Hold
          /\ HeldIsRecent' /\ bring_up' \in {"wait", "none"}
      BY <2>3, <2>5, <2>6, <3>1
    <3>3. TypeOK'
      BY <1>3, <2>1, <2>5, <2>6, <3>1, <3>2
    <3> QED BY <1>1, <1>2, <3>1, <3>2, <3>3 DEF LocoInv, BringUpInOrder
  <2>11. CASE BringUpWaits
    <3>1. /\ bring_up = "wait" /\ bring_up' \in {"start", "none"}
          /\ UNCHANGED <<attempt, ignored, firmware>>
      BY <2>11 DEF BringUpWaits
    <3>2. TypeOK'
      BY <1>3, <2>1, <2>4, <2>5, <2>6, <3>1
    <3> QED BY <1>1, <1>2, <2>4, <3>1, <3>2 DEF LocoInv, BringUpInOrder
  <2> QED BY <1>6, <2>7, <2>8, <2>9, <2>10, <2>11 DEF BringUp
<1> QED BY <1>4, <1>5, <1>6

\* The process starts, stops the gait on its way out, or is gone.
LEMMA ProcessKeepsInv ==
    ASSUME LocoInv,
           BridgeStarts \/ BridgeProbes \/ BridgeReady \/ BridgeShutsDown \/ BridgeEnds
    PROVE  LocoInv'
<1> USE Constants
<1>1. CASE BridgeStarts
  <2>1. /\ process' = "connecting" /\ cmd' = 0 /\ cmd_age' = 0 /\ estop' = FALSE /\ smooth' = 0
        /\ elapsed' = 0 /\ dt' = 0 /\ calling' = 0 /\ since_stop' = 0
        /\ UNCHANGED <<due, bring_up, attempt, ignored, service, fsm, vel, hold>>
    BY <1>1 DEF BridgeStarts, ResetSmoother, thread, firmware
  <2>2. /\ cmd' \in (0 - MaxVel)..MaxVel /\ cmd_age' \in 0..CmdAgeCap
        /\ smooth' \in (0 - MaxVel)..MaxVel /\ elapsed' \in 0..Ramp
        /\ dt' \in 0..DtCap /\ calling' \in 0..RpcTimeout
        /\ since_stop' \in 0..SinceCap
    BY <2>1
  <2>3. estop' \in BOOLEAN
    BY <2>1
  <2>4. TypeOK'
    BY <2>1, <2>2, <2>3 DEF LocoInv, TypeOK, Processes
  <2>5. BringUpInOrder'
    BY <2>1 DEF BringUpInOrder
  <2>6. HeldIsRecent'
    BY <2>1 DEF LocoInv, HeldIsRecent, TypeOK
  <2>7. FilterIsSlow'
    <3>1. Slew * (since_stop' - dt') = 0
      BY <2>1
    <3> QED BY <2>1, <3>1 DEF FilterIsSlow, Distance
  <2> QED BY <2>4, <2>5, <2>6, <2>7 DEF LocoInv
<1>2. CASE BridgeProbes \/ BridgeReady
  <2>1. UNCHANGED <<cmd, cmd_age, estop, smooth, elapsed, dt, attempt, ignored, service,
                    fsm, vel, hold, since_stop>>
    BY <1>2 DEF BridgeProbes, BridgeReady, filter, thread, firmware
  <2>2. /\ process' \in Processes /\ due' \in BOOLEAN /\ bring_up' \in BringUps
        /\ calling' \in 0..RpcTimeout /\ BringUpInOrder'
    <3>1. CASE BridgeProbes
      <4>1. /\ process' = "probing" /\ calling' \in {0, RpcTimeout}
            /\ due' = due /\ bring_up' = bring_up
        BY <3>1 DEF BridgeProbes, thread
      <4> QED BY <4>1 DEF LocoInv, TypeOK, Processes, BringUpInOrder
    <3>2. CASE BridgeReady
      <4>1. /\ process' = "up" /\ calling' = calling /\ due' = FALSE
            /\ bring_up' \in {"probe", "none"}
        BY <3>2 DEF BridgeReady
      <4>2. due' \in BOOLEAN
        BY <4>1
      <4> QED BY <4>1, <4>2 DEF LocoInv, TypeOK, Processes, BringUps, BringUpInOrder
    <3> QED BY <1>2, <3>1, <3>2
  <2>3. TypeOK'
    BY <2>1, <2>2 DEF LocoInv, TypeOK
  <2>4. HeldIsRecent' /\ FilterIsSlow'
    BY <2>1 DEF LocoInv, HeldIsRecent, FilterIsSlow, Distance
  <2> QED BY <2>2, <2>3, <2>4 DEF LocoInv
<1>3. CASE BridgeShutsDown
  <2>1. /\ process' = "exiting"
        /\ UNCHANGED <<cmd, cmd_age, estop, smooth, elapsed, dt, due, calling, bring_up,
                       attempt, ignored, service, since_stop>>
        /\ fsm' \in {"damp", fsm}
        /\ (vel' = 0 /\ hold' = Hold) \/ UNCHANGED <<vel, hold>>
    BY <1>3 DEF BridgeShutsDown, filter, thread, firmware
  <2>2. /\ process' \in Processes /\ fsm' \in Fsms
        /\ vel' \in (0 - MaxVel)..MaxVel /\ hold' \in 0..Hold
    BY <2>1 DEF LocoInv, TypeOK, Processes, Fsms
  <2>3. TypeOK'
    BY <2>1, <2>2 DEF LocoInv, TypeOK
  <2>4. BringUpInOrder' /\ HeldIsRecent' /\ FilterIsSlow'
    BY <2>1 DEF LocoInv, BringUpInOrder, HeldIsRecent, FilterIsSlow, Distance
  <2> QED BY <2>3, <2>4 DEF LocoInv
<1>4. CASE BridgeEnds
  <2>1. /\ process' = "down" /\ bring_up' = "none" /\ attempt' = 0 /\ ignored' = FALSE
        /\ UNCHANGED <<cmd, cmd_age, estop, smooth, elapsed, dt, due, calling, service,
                       fsm, vel, hold, since_stop>>
    BY <1>4 DEF BridgeEnds, filter, firmware
  <2>2. process' \in Processes /\ bring_up' \in BringUps /\ attempt' \in 0..Attempts
    BY <2>1 DEF Processes, BringUps
  <2>3. ignored' \in BOOLEAN
    BY <2>1
  <2>4. TypeOK'
    BY <2>1, <2>2, <2>3 DEF LocoInv, TypeOK
  <2>5. BringUpInOrder' /\ HeldIsRecent' /\ FilterIsSlow'
    BY <2>1 DEF LocoInv, BringUpInOrder, HeldIsRecent, FilterIsSlow, Distance
  <2> QED BY <2>4, <2>5 DEF LocoInv
<1> QED BY <1>1, <1>2, <1>3, <1>4

\* Time: the command ages as the hold runs down, and the filter has more of it.
LEMMA TickKeepsInv == LocoInv /\ Tick => LocoInv'
<1> SUFFICES ASSUME LocoInv, Tick PROVE LocoInv'
  OBVIOUS
<1> USE Constants
<1>1. UNCHANGED <<process, cmd, estop, smooth, bring_up, attempt, ignored, service, fsm>>
  BY DEF Tick, thread
<1>2. /\ cmd_age' \in 0..CmdAgeCap /\ cmd_age' <= cmd_age + 1
      /\ elapsed' \in 0..Ramp /\ dt' \in 0..DtCap /\ dt' <= dt + 1
      /\ calling' \in 0..RpcTimeout /\ since_stop' \in 0..SinceCap
      /\ since_stop' = SinceCap \/ since_stop' = since_stop + 1
      /\ since_stop = SinceCap => since_stop' = SinceCap
  <2>1. cmd_age' \in 0..CmdAgeCap /\ cmd_age' <= cmd_age + 1
    <3>1. cmd_age \in 0..CmdAgeCap /\ CmdAgeCap \in Nat
      BY DEF LocoInv, TypeOK
    <3>2. cmd_age' = IF cmd_age + 1 < CmdAgeCap THEN cmd_age + 1 ELSE CmdAgeCap
      BY DEF Tick, Lower
    <3> QED BY ONLY <3>1, <3>2
  <2>2. elapsed' \in 0..Ramp
    <3>1. elapsed \in 0..Ramp /\ Ramp \in Nat
      BY DEF LocoInv, TypeOK
    <3>2. elapsed' = IF elapsed + 1 < Ramp THEN elapsed + 1 ELSE Ramp
      BY DEF Tick, Lower
    <3> QED BY ONLY <3>1, <3>2
  <2>3. dt' \in 0..DtCap /\ dt' <= dt + 1
    <3>1. dt \in 0..DtCap /\ DtCap \in Nat
      BY DEF LocoInv, TypeOK
    <3>2. dt' = IF dt + 1 < DtCap THEN dt + 1 ELSE DtCap
      BY DEF Tick, Lower
    <3> QED BY ONLY <3>1, <3>2
  <2>4. calling' \in 0..RpcTimeout
    BY DEF LocoInv, TypeOK, Tick
  <2>5. /\ since_stop' \in 0..SinceCap
        /\ since_stop' = SinceCap \/ since_stop' = since_stop + 1
        /\ since_stop = SinceCap => since_stop' = SinceCap
    <3>1. since_stop \in 0..SinceCap /\ SinceCap \in Nat
      BY DEF LocoInv, TypeOK
    <3>2. since_stop' = IF since_stop + 1 < SinceCap THEN since_stop + 1 ELSE SinceCap
      BY DEF Tick, Lower
    <3> QED BY ONLY <3>1, <3>2
  <2> QED BY <2>1, <2>2, <2>3, <2>4, <2>5
<1>3. /\ hold' \in 0..Hold /\ vel' \in (0 - MaxVel)..MaxVel
      /\ vel' # 0 => vel' = vel /\ hold > 1 /\ hold' = hold - 1
  BY DEF LocoInv, TypeOK, Tick
<1>4. due' \in BOOLEAN
  BY DEF Tick
<1>5. TypeOK'
  BY <1>1, <1>2, <1>3, <1>4 DEF LocoInv, TypeOK
<1>6. BringUpInOrder'
  BY <1>1 DEF LocoInv, BringUpInOrder
<1>7. HeldIsRecent'
  <2>1. cmd_age \in Nat /\ hold \in Nat
    BY DEF LocoInv, TypeOK
  <2> QED BY <1>2, <1>3, <2>1 DEF LocoInv, HeldIsRecent
<1>8. FilterIsSlow'
  <2>1. SUFFICES ASSUME since_stop' # SinceCap
                 PROVE  dt' <= since_stop' /\ Distance(smooth) <= Slew * (since_stop' - dt')
    BY <1>1 DEF LocoInv, FilterIsSlow
  <2>2. /\ since_stop # SinceCap /\ since_stop' = since_stop + 1
        /\ dt <= since_stop /\ Distance(smooth) <= Slew * (since_stop - dt)
    BY <1>2, <2>1 DEF LocoInv, FilterIsSlow
  <2>3. dt \in Nat /\ since_stop \in Nat /\ smooth \in Int
    BY DEF LocoInv, TypeOK
  <2>4. since_stop - dt \in Int /\ since_stop' - dt' \in Int
        /\ since_stop - dt <= since_stop' - dt'
    <3>1. dt \in Int /\ since_stop \in Int /\ dt' \in Int /\ since_stop' \in Int
      BY <1>2, <2>3
    <3>2. dt' <= dt + 1 /\ since_stop' = since_stop + 1
      BY <1>2, <2>2
    <3> QED BY <3>1, <3>2, DifferenceGrows
  <2>5. Slew * (since_stop - dt) <= Slew * (since_stop' - dt')
    BY <2>4, Monotone
  <2>6. Slew * (since_stop - dt) \in Int /\ Slew * (since_stop' - dt') \in Int
        /\ Distance(smooth) \in Int
    BY <2>3, <2>4 DEF Distance
  <2> QED BY <1>2, <2>2, <2>3, <2>5, <2>6
<1> QED BY <1>5, <1>6, <1>7, <1>8 DEF LocoInv

-----------------------------------------------------------------------------
(* What a reader should know of                                            *)

\* The invariant holds in every state.
THEOREM LocoInvariance == Spec => []LocoInv
<1>1. LocoInv /\ [Next]_vars => LocoInv'
  <2> SUFFICES ASSUME LocoInv, [Next]_vars PROVE LocoInv'
    OBVIOUS
  <2>1. ASSUME NEW v \in Requests, OnTwist(v) \/ OnTwist(0 - v) PROVE LocoInv'
    <3>1. v \in Int /\ 0 - v \in Int
      BY Constants
    <3> QED BY <2>1, <3>1, TwistKeepsInv
  <2>2. UNCHANGED vars => LocoInv'
    BY DEF vars, bridge, filter, thread, firmware, LocoInv, TypeOK, BringUpInOrder,
           HeldIsRecent, FilterIsSlow, Distance
  <2> QED BY <2>1, <2>2, EstopKeepsInv, TimerKeepsInv, FirmwareKeepsInv, ProcessKeepsInv,
             TickKeepsInv DEF Next
<1> QED BY <1>1, LocoStarts, PTL DEF Spec

\* Every variable keeps its type: all that is sent is within the limits.
THEOREM LocoTypes == Spec => []TypeOK
BY LocoInvariance, PTL DEF LocoInv

\* The robot does not move on a command older than watchdog and hold together.
THEOREM Recency == Spec => []VelocityIsRecent
<1>1. LocoInv => VelocityIsRecent
  BY Constants DEF LocoInv, HeldIsRecent, VelocityIsRecent, TypeOK
<1> QED BY <1>1, LocoInvariance, PTL

\* After a stop the command grows by what the slew limit allows.
THEOREM NoJump == Spec => []NoJumpAfterStop
<1>1. LocoInv => NoJumpAfterStop
  <2> SUFFICES ASSUME LocoInv PROVE Distance(smooth) <= Slew * since_stop
    BY DEF NoJumpAfterStop
  <2> USE Constants
  <2>1. /\ smooth \in (0 - MaxVel)..MaxVel /\ dt \in Nat /\ since_stop \in Nat
        /\ Distance(smooth) \in Nat /\ Distance(smooth) <= MaxVel
    BY DEF LocoInv, TypeOK, Distance
  <2>2. CASE since_stop # SinceCap
    <3>1. Distance(smooth) <= Slew * (since_stop - dt)
      BY <2>2 DEF LocoInv, FilterIsSlow
    <3>2. Slew * (since_stop - dt) <= Slew * since_stop
      BY <2>1, Monotone
    <3>3. Slew * (since_stop - dt) \in Int /\ Slew * since_stop \in Int
      BY <2>1
    <3> QED BY <2>1, <3>1, <3>2, <3>3
  <2>3. CASE since_stop = SinceCap /\ Slew = 0
    <3>1. smooth = 0 /\ Slew * since_stop = 0
      BY <2>1, <2>3 DEF LocoInv, FilterIsSlow
    <3> QED BY <3>1 DEF Distance
  <2>4. CASE since_stop = SinceCap /\ Slew # 0
    <3>1. SinceCap * 1 <= SinceCap * Slew
      <4>1. 1 \in Int /\ Slew \in Int /\ SinceCap \in Nat /\ 1 <= Slew
        BY <2>4
      <4> QED BY ONLY <4>1, Monotone
    <3>2. MaxVel <= Slew * since_stop
      BY <2>4, <3>1
    <3> QED BY <2>1, <3>2
  <2> QED BY <2>2, <2>3, <2>4
<1> QED BY <1>1, LocoInvariance, PTL

\* Under a running bridge the walking state is entered only from the standing one,
\* unless the bring-up asks for it after a StandUp that the firmware has accepted and
\* not followed.
THEOREM WalksFromStanding == Spec => WalksOnlyFromStanding
<1>1. LocoInv /\ [Next]_vars
        => (process = "up" /\ fsm' = "walk" /\ fsm # "walk"
               => fsm = "stand" \/ (bring_up = "start" /\ ignored))
  <2> SUFFICES ASSUME LocoInv, [Next]_vars, process = "up", fsm' = "walk", fsm # "walk"
               PROVE  fsm = "stand" \/ (bring_up = "start" /\ ignored)
    OBVIOUS
  <2>1. fsm \in Fsms /\ 0 \in (0 - MaxVel)..MaxVel
    BY Constants DEF LocoInv, TypeOK
  <2>2. ASSUME NEW v PROVE ~OnTwist(v)
    BY DEF OnTwist, firmware
  <2>3. ASSUME NEW engaged \in BOOLEAN PROVE ~OnEstop(engaged)
    BY DEF OnEstop, SetVelocity, firmware
  <2>4. ~OnTick
    BY DEF OnTick, SetVelocity
  <2>5. ~Tick /\ ~BridgeStarts /\ ~BridgeProbes /\ ~BridgeReady /\ ~BridgeShutsDown
        /\ ~BridgeEnds /\ ~ServiceChanges /\ ~UNCHANGED vars
    BY DEF Tick, BridgeStarts, BridgeProbes, BridgeReady, BridgeShutsDown, BridgeEnds,
           ServiceChanges, vars, firmware
  <2>6. CASE OperatorSetsFsm
    BY <2>6 DEF OperatorSetsFsm, EntersFsm
  <2>7. CASE BringUp
    <3>1. ~BringUpProbes /\ ~BringUpDamps /\ ~BringUpStands /\ ~BringUpWaits
      BY DEF BringUpProbes, BringUpDamps, BringUpStands, BringUpWaits, ThreadCalls,
             EntersFsm, firmware
    <3>2. BringUpStarts
      BY <2>7, <3>1 DEF BringUp
    <3> QED BY <2>1, <3>2 DEF BringUpStarts, LocoInv, BringUpInOrder
  <2> QED BY <2>2, <2>3, <2>4, <2>5, <2>6, <2>7 DEF Next
<1>2. LocoInv /\ [Next]_vars
        => [process = "up" /\ fsm' = "walk" /\ fsm # "walk"
               => fsm = "stand" \/ (bring_up = "start" /\ ignored)]_vars
  BY <1>1
<1> QED BY <1>2, LocoInvariance, PTL DEF Spec, WalksOnlyFromStanding
=============================================================================
