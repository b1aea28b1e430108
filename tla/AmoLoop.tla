------------------------------ MODULE AmoLoop ------------------------------
(***************************************************************************)
(* The control loop of the AMO gait (amo/amo_inference.py with             *)
(* amo/amo_policy.py): hand-off from the posture the robot is found in,    *)
(* safety guards, the command that is held at zero and then eased in, the  *)
(* policy, the smoothing and the motors, until a signal, a guard or an     *)
(* exception ends the loop.                                                *)
(*                                                                         *)
(* An iteration is one step: signal handlers only raise a flag that its    *)
(* head looks at.  Between iterations the robot tips, LowState stops       *)
(* coming, pad and WebSocket change the request.  The policy may ask for   *)
(* any pose.  The three axes of the command are treated alike.             *)
(***************************************************************************)
EXTENDS Integers

CONSTANTS
    One, Blend, GainRamp, KpStart, KdStart, ClampDelta, Alpha, Wn,
    ReleaseS,        \* release_s; None: when the blend is over
    ReleaseRamp,
    Stabilize,       \* stabilize_s
    CommandRamp,     \* startup_command_ramp_s
    StateTimeout,    \* state_timeout_s, in iterations
    Sources,         \* kinds of command.source the loop is run with
    Filters,         \* kinds of filter it is run with
    Deadman,         \* is a deadman button configured (and its name known)
    Requested,       \* requests, constant or over the WebSocket
    Sticks,          \* deflections of the stick of the pad
    DeadZone,        \* deadzone
    MaxVel,          \* max_forward_vel, both at the pad and at the policy
    Postures,        \* where the joint may be found
    Actions,         \* poses the policy asks for
    Lo, Hi,          \* the limits of the joint
    None             \* no value

ReleaseAt == IF ReleaseS = None THEN Blend ELSE ReleaseS

INSTANCE JointSmoother WITH Release <- ReleaseAt

ASSUME AmoAssumption ==
    /\ JointConstants
    /\ {Stabilize, CommandRamp, StateTimeout, DeadZone} \subseteq Nat
    /\ MaxVel \in Nat \ {0} /\ {Lo, Hi} \subseteq Int /\ Lo <= Hi
    /\ Postures \subseteq Lo..Hi /\ Actions \subseteq Int
    /\ Requested \subseteq Nat /\ Sticks \subseteq Nat /\ Sticks # {}
    /\ Filters \subseteq FilterKinds /\ Deadman \in BOOLEAN
    /\ Sources \subseteq {"zero", "constant", "websocket", "joystick"}

VARIABLES
    setup,      \* the command source and filter, and observe_only
    process,    \* "starting", "running", "exiting", "done" or "killed"
    stop,       \* stop["flag"]
    upright,    \* is the robot
    low_state,  \* LowState comes in ("live"), has stopped ("frozen"), is None
    seen,       \* was the robot upright when it was last measured
    blind,      \* iterations since low_state was last there
    held,       \* CommandSource._cmd
    pad,        \* wireless_remote: button and stick, or None
    smoother,   \* JointSmoother, and the gain scales it last gave
    command,    \* the axis the policy was last given for command3
    motors,     \* "off", "driven" or "damped"
    sent,       \* the pose the motors were last sent, at first the measured one
    gains,      \* and their gain scales
    asked       \* the pose the policy has asked for ever since the hand-off, or None

robot   == <<upright, low_state>>
request == <<held, pad>>
output  == <<smoother, command, motors, sent, gains, asked>>
vars    == <<setup, process, stop, robot, seen, blind, request, output>>

Lower(a, b) == IF a < b THEN a ELSE b

\* The command is zero during the blend and while the robot settles.
CommandHold == Blend + Stabilize

\* The smoothing is released and the gains are full before the hold is over: 5 s,
\* 1 s and 2 s of 5 s and 10 s (config/amo_g1.yaml).
ASSUME SettlingAssumption ==
    /\ ReleaseAt > 0 /\ ReleaseAt + ReleaseRamp <= CommandHold
    /\ GainRamp <= CommandHold

\* After this nothing depends on the time any more.
TCap ==
    LET ends == {CommandHold + CommandRamp, ReleaseAt + ReleaseRamp, GainRamp}
    IN  CHOOSE t \in ends : \A u \in ends : u <= t

Pads     == [button : BOOLEAN, stick : Sticks] \cup {None}
Poses    == Lo..Hi

TypeOK ==
    /\ setup \in [source : Sources, filter : Filters, observe_only : BOOLEAN]
    /\ process \in {"starting", "running", "exiting", "done", "killed"}
    /\ {stop, upright, seen} \subseteq BOOLEAN
    /\ low_state \in {"live", "frozen", "none"} /\ blind \in 0..StateTimeout
    /\ held \in Requested \cup {0} /\ pad \in Pads
    /\ smoother \in [measured : Poses, prev : Int, y : Int, yd : Int, t : 0..TCap]
    /\ command \in 0..MaxVel
    /\ motors \in {"off", "driven", "damped"} /\ sent \in Poses
    /\ gains \in (KpStart..One) \X (KdStart..One)
    /\ asked \in Poses \cup {None}

\* run() up to the hand-off: nothing is sent, and LowState may not be there yet.
Init ==
    /\ setup \in [source : Sources, filter : Filters, observe_only : BOOLEAN]
    /\ process = "starting" /\ stop = FALSE
    /\ upright = TRUE /\ low_state \in {"live", "none"}
    /\ seen = TRUE /\ blind = 0
    /\ held \in (IF setup.source = "constant" THEN Requested ELSE {0})
    /\ pad = None
    /\ smoother = Reset(Lo) /\ command = 0
    /\ motors = "off" /\ sent = Lo /\ gains = <<KpStart, KdStart>> /\ asked = None

-----------------------------------------------------------------------------
(* What the command source gives                                           *)

\* JoystickCommandSource.get: zero without the pad or its deadman button.
PadCommand ==
    IF pad = None \/ (Deadman /\ ~pad.button) THEN 0
    ELSE IF pad.stick < DeadZone THEN 0
    ELSE pad.stick * MaxVel

Live ==
    IF setup.source = "joystick" THEN (IF low_state = "none" THEN 0 ELSE PadCommand)
    ELSE held

\* A plausible slip: the settling time is not waited for.
HastyEased(t) == (RampFactor(t - Blend, CommandRamp) * Live) \div One

\* command3: zero until the hold is over, then eased in.
Eased(t) ==
    IF t < CommandHold THEN 0
    ELSE (RampFactor(t - CommandHold, CommandRamp) * Live) \div One

\* A plausible slip: a request beyond the range is passed on.
UnclippedAxis(t) == Eased(t)

\* _build_ctrl: the axis the policy sees is clipped.
Axis(t) == Lower(Eased(t), MaxVel)

-----------------------------------------------------------------------------
(* The loop                                                                *)

\* _clamp_to_limits
ClampToLimits(q) == IF q < Lo THEN Lo ELSE IF q > Hi THEN Hi ELSE q

\* policy_target: whatever the policy makes of what it sees, within the limits.
PolicyTarget(action) == ClampToLimits(action)

\* command(): gains and pose reach the motors, unless the loop only observes.
Command(next) ==
    \/ setup.observe_only /\ UNCHANGED <<motors, sent, gains>>
    \/ /\ ~setup.observe_only
       /\ motors' = "driven"
       /\ gains' = <<GainScale(next.t, KpStart), GainScale(next.t, KdStart)>>
       /\ sent' = ClampToLimits(next.prev)

\* setup, wait_until_ready, update, reset at the measured posture.
HandOff(q) ==
    /\ process = "starting" /\ low_state # "none"
    /\ process' = "running"
    /\ smoother' = Reset(q) /\ sent' = q /\ asked' = None
    /\ seen' = (IF low_state = "live" THEN upright ELSE seen) /\ blind' = 0
    /\ UNCHANGED <<setup, stop, robot, request, command, motors, gains>>

\* An exception before the loop leaves everything as it is.
StartFails ==
    /\ process = "starting" /\ process' = "done"
    /\ UNCHANGED <<setup, stop, robot, seen, blind, request, output>>

\* update(), and the head of the loop.
Measured == IF low_state = "live" THEN upright ELSE seen
Blindness == IF low_state = "none" THEN blind + 1 ELSE 0

\* The guards that end the loop: LowState is not there, or the robot tips.
Guarded == Blindness > StateTimeout \/ ~Measured

\* The state is refreshed and the loop is left.
LoopEnds ==
    /\ process = "running"
    /\ \/ stop /\ UNCHANGED <<seen, blind>>
       \/ ~stop /\ Guarded /\ seen' = Measured /\ blind' = Lower(Blindness, StateTimeout)
    /\ process' = "exiting"
    /\ UNCHANGED <<setup, stop, robot, request, output>>

\* A plausible slip: there is no finally.
UncaughtLoopRaises ==
    /\ process = "running" /\ ~stop /\ process' = "done"
    /\ UNCHANGED <<setup, stop, robot, seen, blind, request, output>>

\* Policy or environment raise.
LoopRaises ==
    /\ process = "running" /\ ~stop /\ process' = "exiting"
    /\ UNCHANGED <<setup, stop, robot, seen, blind, request, output>>

\* One iteration: command, policy, smoothing, gains, motors.
Drive(action) ==
    /\ process = "running" /\ ~stop /\ ~Guarded
    /\ seen' = Measured /\ blind' = Blindness
    /\ command' = Axis(smoother.t)
    /\ LET raw  == PolicyTarget(action)
           next == Step(setup.filter, smoother, raw)
       IN  /\ smoother' = [next EXCEPT !.t = Lower(next.t, TCap)]
           /\ asked' = (IF smoother.t = 0 \/ asked = raw THEN raw ELSE None)
           /\ Command(next)
    /\ UNCHANGED <<setup, process, stop, robot, request>>

\* finally: the motors are damped.
ShutsDown ==
    /\ process = "exiting" /\ process' = "done" /\ motors' = "damped"
    /\ UNCHANGED <<setup, stop, robot, seen, blind, request, smoother, command, sent,
                   gains, asked>>

Loop == LoopEnds \/ LoopRaises \/ \E a \in Actions : Drive(a)

-----------------------------------------------------------------------------
(* The world around it                                                     *)

Alive == process \in {"starting", "running", "exiting"}

\* SIGINT or SIGTERM; before the loop they end the program.
Signal ==
    /\ Alive /\ ~stop
    /\ IF process = "starting" THEN process' = "done" /\ UNCHANGED stop
       ELSE stop' = TRUE /\ UNCHANGED process
    /\ UNCHANGED <<setup, robot, seen, blind, request, output>>

\* SIGKILL, or a crash of the machine: nothing is damped.
Killed ==
    /\ Alive /\ process' = "killed"
    /\ UNCHANGED <<setup, stop, robot, seen, blind, request, output>>

\* Afterwards nothing of this is looked at any more.
Watching == process \in {"starting", "running"}

RobotTips ==
    /\ Watching /\ upright' = ~upright
    /\ UNCHANGED <<setup, process, stop, low_state, seen, blind, request, output>>

LowStateChanges ==
    /\ Watching /\ low_state' \in {"live", "frozen", "none"} \ {low_state}
    /\ (low_state = "none" => low_state' = "live")
    /\ UNCHANGED <<setup, process, stop, upright, seen, blind, request, output>>

\* A message of the WebSocket.
WebSocketSets(v) ==
    /\ Watching /\ setup.source = "websocket" /\ held' = v
    /\ UNCHANGED <<setup, process, stop, robot, seen, blind, pad, output>>

\* The pad is part of LowState.
PadMoves(p) ==
    /\ Watching /\ setup.source = "joystick" /\ low_state = "live" /\ pad' = p
    /\ UNCHANGED <<setup, process, stop, robot, seen, blind, held, output>>

Next ==
    \/ \E q \in Postures : HandOff(q)
    \/ StartFails \/ Loop \/ ShutsDown
    \/ Signal \/ Killed \/ RobotTips \/ LowStateChanges
    \/ \E v \in Requested : WebSocketSets(v)
    \/ \E p \in Pads : PadMoves(p)

Spec == Init /\ [][Next]_vars

\* The loop runs, and what it leaves is cleaned up.
FairSpec == Spec /\ WF_vars(Loop) /\ WF_vars(ShutsDown)

-----------------------------------------------------------------------------
(* Properties                                                              *)

Distance(x, y) == IF x < y THEN y - x ELSE x - y

\* While the policy asks for one pose, no two commands in a row are further
\* apart than the clamp allows, the first one and the posture the robot was
\* found in included, and also while filter and clamp are faded out: no hand-off
\* snaps.  joint_filters.py 157-231, amo_inference.py 310-313,
\* config/amo_g1.yaml release_ramp_s.
NoHandOffSnaps == [][asked' # None => Distance(sent, sent') <= ClampDelta]_vars

\* The policy is asked to walk only when it has the joints to itself, at full
\* gains, and the robot was upright when it was last measured; and never faster
\* than the ramp allows, whatever the stick or the WebSocket asked for all the
\* while.  The last measurement may be of any age: when LowState freezes, the loop
\* goes on with it (351-353) and does not see the robot tip.
\* amo_inference.py 314-376.
WalksOnlyWhenSettled ==
    command > 0 /\ process = "running" =>
        /\ seen /\ ReleaseFactor(smoother) = One
        /\ motors = "driven" => gains = <<One, One>>
        /\ \E v \in Requested \cup {MaxVel * x : x \in Sticks} :
               command * One <= v * RampFactor(smoother.t - CommandHold, CommandRamp)

\* As long as filter and clamp are engaged, no two commands in a row are further
\* apart than the clamp allows, the first one and the posture the robot was found
\* in included, whatever the policy asks for and however it changes its mind.
\* joint_filters.py 157-231, amo_inference.py 310-313, 371-378.
EngagedClampHolds ==
    [][process = "running" /\ ClampDelta > 0 /\ ReleaseFactor(smoother) = 0
          => Distance(sent, sent') <= ClampDelta]_vars

\* The program never ends of its own with the motors driven, whether a signal, a
\* guard or an exception ended it, before the loop or in it.  amo_inference.py
\* 343-393.
NeverLeftDriven == process = "done" => motors # "driven"

\* A signal, an exception, a tilt that lasts and is measured, a LowState object that
\* is not there and does not come back: each ends with the motors damped, unless the
\* process is killed.  (A LowState that only stops being refreshed is not noticed,
\* although docker/config/amo_g1.yaml 26 says "abort if no fresh LowState within this
\* window": the object received once refreshes the timer for ever, 352-353.)
\* amo_inference.py 343-393.
TroubleEndsDamped ==
    /\ (motors = "driven" /\ (stop \/ process \in {"exiting", "done"}))
           ~> (motors = "damped" \/ process = "killed")
    /\ (motors = "driven" /\ low_state = "live" /\ ~upright)
           ~> (motors = "damped" \/ process = "killed" \/ upright \/ low_state # "live")
    /\ (motors = "driven" /\ low_state = "none")
           ~> (motors = "damped" \/ process = "killed" \/ low_state # "none")

\* Before the hand-off nothing was sent and nothing was asked of the policy; a loop
\* that only observes never drives; and what the motors were last sent is what the
\* smoother last gave.
AmoInv ==
    /\ TypeOK /\ WalksOnlyWhenSettled /\ NeverLeftDriven
    /\ process = "starting" => command = 0 /\ motors = "off"
    /\ setup.observe_only => motors # "driven"
    /\ process = "running" /\ ~setup.observe_only => sent = ClampToLimits(smoother.prev)
=============================================================================
