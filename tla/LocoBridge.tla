----------------------------- MODULE LocoBridge -----------------------------
(***************************************************************************)
(* The bridge to the native gait of the robot                              *)
(* (g1_sim_bridge/cmd_vel_to_unitree_loco_node.py with unitree_loco.py):   *)
(* watchdog, e-stop, velocity smoother, the bring-up thread, and shutdown; *)
(* and the firmware's loco service as far as the bridge relies on it.      *)
(*                                                                         *)
(* The executor runs one callback at a time; the bring-up thread runs      *)
(* between them.  A call to a service that does not answer has no effect   *)
(* and holds its thread up for RpcTimeout; time passes meanwhile.  A state *)
(* that the firmware is asked for it enters at once, or accepts and stays  *)
(* where it is.  It holds a velocity for Hold ticks and moves in its       *)
(* walking state only.  The three axes are treated alike; a velocity is    *)
(* one integer.                                                            *)
(***************************************************************************)
EXTENDS VelocitySmoother

CONSTANTS
    Requests,        \* speeds the planner asks for, in either direction
    MaxVel,          \* max_forward_vel
    CmdTimeout,      \* cmd_timeout_sec, in ticks of the timer
    Hold,            \* velocity_hold_s, in ticks
    RpcTimeout,      \* timeout of the client, in ticks
    Attempts,        \* attempts of bring_up to start the walking state
    AutoBringUp,     \* auto_bring_up
    DampOnShutdown   \* damp_on_shutdown

ASSUME LocoAssumption ==
    /\ SmootherConstants
    /\ Requests \subseteq Nat /\ MaxVel \in Nat
    /\ CmdTimeout \in Nat /\ Hold \in Nat \ {0}
    /\ RpcTimeout \in Nat \ {0} /\ Attempts \in Nat \ {0}
    /\ AutoBringUp \in BOOLEAN /\ DampOnShutdown \in BOOLEAN

VARIABLES
    process,     \* "connecting" and "probing" (__init__), "up", "exiting"
                 \* (destroy_node has run) or "down"
    cmd,         \* _cmd
    cmd_age,     \* ticks since _last_cmd_t
    estop,       \* _estop
    smooth,      \* the output of the smoother
    elapsed,     \* ticks since its last reset
    dt,          \* ticks since _last_tick_t
    due,         \* is the timer due
    calling,     \* ticks the executor still waits for an answer
    bring_up,    \* the next step of the bring-up thread
    attempt,     \* its attempts so far
    ignored,     \* did the firmware accept its StandUp and not stand up
    service,     \* does the loco service answer
    fsm,         \* state of the firmware
    vel,         \* velocity it holds
    hold,        \* for how long it still does
    since_stop   \* ticks since the timer was last served with a stop or before one,
                 \* or __init__ took the first stamps

filter   == <<smooth, elapsed>>
bridge   == <<process, cmd, cmd_age, estop, filter, dt, due, calling>>
thread   == <<bring_up, attempt, ignored>>
firmware == <<fsm, vel, hold>>
vars     == <<bridge, thread, service, firmware, since_stop>>

Lower(a, b) == IF a < b THEN a ELSE b

\* More than these cannot be told apart: from rest, no step is longer than MaxVel,
\* and only a bridge that has just started waits longer than for one call.
CmdAgeCap   == CmdTimeout + Hold + 1
DtCap       == RpcTimeout + 1 + MaxVel
SinceCap    == MaxVel + 1

Fsms     == {"damp", "stand", "walk"}
Processes == {"connecting", "probing", "up", "exiting", "down"}
BringUps == {"none", "probe", "damp", "stand", "start", "wait"}

TypeOK ==
    /\ process \in Processes
    /\ cmd \in (0 - MaxVel)..MaxVel /\ cmd_age \in 0..CmdAgeCap
    /\ estop \in BOOLEAN
    /\ smooth \in (0 - MaxVel)..MaxVel /\ elapsed \in 0..Ramp
    /\ dt \in 0..DtCap /\ due \in BOOLEAN /\ calling \in 0..RpcTimeout
    /\ bring_up \in BringUps /\ attempt \in 0..Attempts /\ ignored \in BOOLEAN
    /\ service \in BOOLEAN
    /\ fsm \in Fsms /\ vel \in (0 - MaxVel)..MaxVel /\ hold \in 0..Hold
    /\ since_stop \in 0..SinceCap

Init ==
    /\ process = "down"
    /\ cmd = 0 /\ cmd_age = CmdAgeCap /\ estop = FALSE
    /\ smooth = 0 /\ elapsed = 0 /\ dt = 0 /\ due = FALSE /\ calling = 0
    /\ bring_up = "none" /\ attempt = 0 /\ ignored = FALSE
    /\ service = TRUE /\ fsm \in Fsms /\ vel = 0 /\ hold = 0
    /\ since_stop = 0

-----------------------------------------------------------------------------
(* The loco service                                                        *)

\* SetVelocity, for Hold ticks.  Its code is not looked at.
SetVelocity(v) ==
    /\ IF service
       THEN /\ vel' = (IF fsm = "walk" THEN v ELSE 0) /\ hold' = Hold
            /\ calling' = 0
       ELSE /\ UNCHANGED <<vel, hold>>
            /\ calling' = RpcTimeout
    /\ UNCHANGED fsm

\* The firmware enters a state.  Only the walking state moves.
EntersFsm(f) ==
    /\ fsm' = f
    /\ vel' = (IF f = "walk" THEN vel ELSE 0)
    /\ UNCHANGED hold

ServiceChanges == service' = ~service /\ UNCHANGED <<bridge, thread, firmware, since_stop>>

\* The operator brings the robot up and down by hand, in the proper order, and
\* leaves it alone while the bridge does so.
OperatorSetsFsm ==
    /\ bring_up = "none"
    /\ \/ EntersFsm("damp")
       \/ fsm = "damp" /\ EntersFsm("stand")
       \/ fsm = "stand" /\ EntersFsm("walk")
    /\ UNCHANGED <<bridge, thread, service, since_stop>>

-----------------------------------------------------------------------------
(* Callbacks of the bridge                                                 *)

Free == process = "up" /\ calling = 0

\* A plausible slip: the lower bound is forgotten.
OneSidedClip(v) == Lower(MaxVel, v)

Clip(v) == IF v < 0 - MaxVel THEN 0 - MaxVel ELSE Lower(MaxVel, v)

\* _on_twist: stored during a stop as well.
OnTwist(v) ==
    /\ Free
    /\ cmd' = Clip(v) /\ cmd_age' = 0
    /\ UNCHANGED <<process, estop, filter, dt, due, calling, thread, service,
                   firmware, since_stop>>

ResetSmoother == smooth' = 0 /\ elapsed' = 0

\* A plausible slip: the smoother is not reset by a stop.
RollingOnEstop(engaged) ==
    /\ Free
    /\ estop' = engaged
    /\ IF engaged /\ ~estop
       THEN cmd' = 0 /\ SetVelocity(0) /\ since_stop' = Lower(dt, SinceCap) /\ UNCHANGED filter
       ELSE UNCHANGED <<cmd, filter, calling, firmware, since_stop>>
    /\ UNCHANGED <<process, cmd_age, dt, due, thread, service>>

\* _on_estop: acts on a change; an engagement forgets command and smoother, and
\* stops the gait at once.
OnEstop(engaged) ==
    /\ Free
    /\ estop' = engaged
    /\ IF engaged /\ ~estop
       THEN cmd' = 0 /\ ResetSmoother /\ SetVelocity(0) /\ since_stop' = Lower(dt, SinceCap)
       ELSE UNCHANGED <<cmd, filter, calling, firmware, since_stop>>
    /\ UNCHANGED <<process, cmd_age, dt, due, thread, service>>

Stale == cmd_age > CmdTimeout

\* A plausible slip: the e-stop is left to its callback.
UnguardedTick ==
    /\ Free /\ due /\ due' = FALSE /\ dt' = 0
    /\ IF Stale
       THEN /\ cmd' = 0 /\ ResetSmoother
            /\ SetVelocity(0) /\ since_stop' = 0
       ELSE /\ smooth' = Smoothed(smooth, cmd, elapsed, dt)
            /\ SetVelocity(smooth')
            /\ UNCHANGED <<cmd, elapsed, since_stop>>
    /\ UNCHANGED <<process, cmd_age, estop, thread, service>>

\* A plausible slip: a stale command is not noticed.
CarefreeTick ==
    /\ Free /\ due /\ due' = FALSE /\ dt' = 0
    /\ IF estop
       THEN /\ SetVelocity(0) /\ since_stop' = 0
            /\ UNCHANGED <<cmd, filter>>
       ELSE /\ smooth' = Smoothed(smooth, cmd, elapsed, dt)
            /\ SetVelocity(smooth')
            /\ UNCHANGED <<cmd, elapsed, since_stop>>
    /\ UNCHANGED <<process, cmd_age, estop, thread, service>>

\* _tick: zero during a stop, zero and a reset without a recent command, else
\* the smoothed command, whatever the bring-up has come to.
OnTick ==
    /\ Free /\ due /\ due' = FALSE /\ dt' = 0
    /\ IF estop
       THEN /\ SetVelocity(0) /\ since_stop' = 0
            /\ UNCHANGED <<cmd, filter>>
       ELSE IF Stale
       THEN /\ cmd' = 0 /\ ResetSmoother
            /\ SetVelocity(0) /\ since_stop' = 0
       ELSE /\ smooth' = Smoothed(smooth, cmd, elapsed, dt)
            /\ SetVelocity(smooth')
            /\ UNCHANGED <<cmd, elapsed, since_stop>>
    /\ UNCHANGED <<process, cmd_age, estop, thread, service>>

-----------------------------------------------------------------------------
(* The bring-up thread                                                     *)

\* A plausible slip: a call without an answer does not end the bring-up.
HopefulThreadCalls(f, next) ==
    /\ bring_up' = next
    /\ (service /\ EntersFsm(f)) \/ UNCHANGED firmware

\* SetFsmId by the thread: accepted, whether or not the firmware follows (only the
\* return code is looked at), or it raises and the thread ends.
ThreadCalls(f, next) ==
    \/ service /\ bring_up' = next /\ (EntersFsm(f) \/ UNCHANGED firmware)
    \/ ~service /\ bring_up' = "none" /\ UNCHANGED firmware

\* bring_up: probe, damp, stand up, then the walking state, with time to settle
\* between them.  Any failure is raised and logged, and nothing else.
BringUpProbes ==
    /\ bring_up = "probe"
    /\ bring_up' = IF service THEN "damp" ELSE "none"
    /\ UNCHANGED <<attempt, ignored, firmware>>

BringUpDamps ==
    /\ bring_up = "damp" /\ ThreadCalls("damp", "stand")
    /\ UNCHANGED <<attempt, ignored>>

\* Whether the robot has stood up by the end of the pause, nobody asks.
BringUpStands ==
    /\ bring_up = "stand" /\ ThreadCalls("stand", "start")
    /\ ignored' = (service /\ fsm' # "stand")
    /\ UNCHANGED attempt

BringUpStarts ==
    /\ bring_up = "start" /\ attempt < Attempts
    /\ attempt' = attempt + 1
    /\ ThreadCalls("walk", "wait")
    /\ UNCHANGED ignored

\* _wait_for_fsm: seen in time, or the next attempt, or the last has failed.
BringUpWaits ==
    /\ bring_up = "wait"
    /\ bring_up' \in (IF service /\ fsm = "walk" THEN {"none"} ELSE {})
                        \cup {IF attempt < Attempts THEN "start" ELSE "none"}
    /\ UNCHANGED <<attempt, ignored, firmware>>

\* The thread is a daemon: it lives until the process is gone.
BringUp ==
    /\ process # "down"
    /\ BringUpProbes \/ BringUpDamps \/ BringUpStands \/ BringUpStarts \/ BringUpWaits
    /\ UNCHANGED <<bridge, service, since_stop>>

-----------------------------------------------------------------------------
(* Life of the process, and time                                           *)

\* __init__ up to the connect, which may take its time: the stamps are taken first.
BridgeStarts ==
    /\ process = "down" /\ process' = "connecting"
    /\ cmd' = 0 /\ cmd_age' = 0 /\ estop' = FALSE
    /\ ResetSmoother /\ dt' = 0 /\ calling' = 0 /\ since_stop' = 0
    /\ UNCHANGED <<due, thread, service, firmware>>

\* The probe only warns, in the end.
BridgeProbes ==
    /\ process = "connecting" /\ process' = "probing"
    /\ calling' = (IF service THEN 0 ELSE RpcTimeout)
    /\ UNCHANGED <<cmd, cmd_age, estop, filter, dt, due, thread, service, firmware, since_stop>>

\* Thread, subscriptions and timer come last.
BridgeReady ==
    /\ process = "probing" /\ calling = 0 /\ process' = "up"
    /\ due' = FALSE
    /\ bring_up' = (IF AutoBringUp THEN "probe" ELSE "none")
    /\ UNCHANGED <<cmd, cmd_age, estop, filter, dt, calling, attempt, ignored, service,
                   firmware, since_stop>>

\* destroy_node: stop, then damp.  The answers are not looked at.
BridgeShutsDown ==
    /\ Free
    /\ process' = "exiting"
    /\ IF service THEN /\ fsm' \in {fsm} \cup (IF DampOnShutdown THEN {"damp"} ELSE {})
                       /\ vel' = 0 /\ hold' = Hold
       ELSE UNCHANGED firmware
    /\ UNCHANGED <<cmd, cmd_age, estop, filter, dt, due, calling, thread, service, since_stop>>

\* The process is gone, by itself or killed, and its thread with it; also before
\* it was up, when there is no SDK to connect with.
BridgeEnds ==
    /\ process # "down" /\ process' = "down"
    /\ bring_up' = "none" /\ attempt' = 0 /\ ignored' = FALSE
    /\ UNCHANGED <<cmd, cmd_age, estop, filter, dt, due, calling, service, firmware, since_stop>>

\* Time passes when no callback is ready.  A velocity that is not renewed ends.
Tick ==
    /\ process = "up" => calling > 0 \/ ~due
    /\ cmd_age' = Lower(cmd_age + 1, CmdAgeCap)
    /\ elapsed' = Lower(elapsed + 1, Ramp)
    /\ dt' = Lower(dt + 1, DtCap)
    /\ due' = (process = "up")
    /\ calling' = IF calling > 0 THEN calling - 1 ELSE 0
    /\ hold' = IF hold > 0 THEN hold - 1 ELSE 0
    /\ vel' = IF hold > 1 THEN vel ELSE 0
    /\ since_stop' = Lower(since_stop + 1, SinceCap)
    /\ UNCHANGED <<process, cmd, estop, smooth, thread, service, fsm>>

Next ==
    \/ \E v \in Requests : OnTwist(v) \/ OnTwist(0 - v)
    \/ \E engaged \in BOOLEAN : OnEstop(engaged)
    \/ OnTick
    \/ BringUp
    \/ BridgeStarts \/ BridgeProbes \/ BridgeReady \/ BridgeShutsDown \/ BridgeEnds
    \/ ServiceChanges \/ OperatorSetsFsm
    \/ Tick

Spec == Init /\ [][Next]_vars

\* The executor serves its timer, and time passes.
FairSpec == Spec /\ WF_vars(OnTick) /\ WF_vars(Tick)

-----------------------------------------------------------------------------
(* Properties                                                              *)

Distance(v) == IF v < 0 THEN 0 - v ELSE v

\* The robot never moves on a command older than the watchdog and the hold of
\* the firmware add up to, also when the bridge dies, is held up by a call, or
\* talks to a service that comes and goes.
\* cmd_vel_to_unitree_loco_node.py 65-68, 195-206.
VelocityIsRecent == vel # 0 => cmd_age < CmdTimeout + Hold

\* After every stop, of whatever cause, the command grows from zero by what the
\* slew limit allows in the time since the last timer callback that sent zero,
\* or came before an e-stop: no memory of the filter and no time spent in the
\* stop lets it jump.  (Counted from the e-stop itself it may: _on_estop leaves
\* _last_tick_t alone, and a call that does not answer in it counts as time to
\* accelerate.)  unitree_loco.py 68-111, cmd_vel_to_unitree_loco_node.py 172-206.
NoJumpAfterStop == Distance(smooth) <= Slew * since_stop

\* Under a running bridge the robot enters the walking state only from standing,
\* unless the firmware has accepted the StandUp of the bring-up and not followed:
\* a call that fails ends the bring-up, and a walking state that does not come is
\* asked for again only from where it was asked for first.  (StandUp is judged by
\* its return code and a pause, unitree_loco.py 273-282.  Not once the process is
\* on its way out.)  unitree_loco.py 240-298.
WalksOnlyFromStanding ==
    [][process = "up" /\ fsm' = "walk" /\ fsm # "walk"
          => fsm = "stand" \/ (bring_up = "start" /\ ignored)]_vars

\* When the e-stop stays engaged, the planner silent or the bridge dead, the
\* robot is stopped in the end, for good.
StopStopsRobot == <>[](estop \/ Stale \/ process # "up") => <>[](vel = 0)
=============================================================================
