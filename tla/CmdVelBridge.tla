---------------------------- MODULE CmdVelBridge ----------------------------
(***************************************************************************)
(* The last leg of the velocity command: the bridge node that forwards     *)
(* /mpc/cmd_vel to the AMO gait over a WebSocket                           *)
(* (g1_sim_bridge/cmd_vel_to_amo_node.py), the keyboard e-stop that        *)
(* overrides it (estop_keyboard_node.py) and the command holder at the     *)
(* gait (amo/amo_inference.py).                                            *)
(*                                                                         *)
(* The bridge is one single-threaded executor.  Its sends are blocking: a  *)
(* connect that is not answered keeps the executor busy for the socket     *)
(* timeout, while messages queue up and watchdogs age.  Time is counted in *)
(* ticks of the bridge timer; it passes only when the executor has nothing *)
(* ready or is busy.  A velocity is one integer: the three axes are        *)
(* clipped and forwarded in the same way.                                  *)
(***************************************************************************)
EXTENDS Integers, Sequences

CONSTANTS
    Requests,        \* velocities the planner asks for
    VMax,            \* max_forward_vel, max_lateral_vel, max_yaw_rate
    CmdTimeout,      \* cmd_timeout_sec, in ticks
    ConnectTimeout,  \* the socket timeout of _connect, in ticks
    QueueDepth,      \* depth of the /mpc/cmd_vel subscription
    None             \* no value

ASSUME BridgeAssumption ==
    /\ Requests \subseteq Int
    /\ VMax \in Nat /\ CmdTimeout \in Nat
    /\ ConnectTimeout \in Nat \ {0} /\ QueueDepth \in Nat \ {0}
    /\ None \notin Int /\ None \notin BOOLEAN

Speeds == (-VMax)..VMax

VARIABLES
    planner_up,   \* is something publishing on /mpc/cmd_vel
    inbox,        \* queue of the /mpc/cmd_vel subscription
    helper,       \* the e-stop helper: "off", "released" or "engaged"
    estop_inbox,  \* the /estop sample the bridge has not processed
    bridge_up,
    cmd, cmd_age, \* _cmd; ticks since _last_cmd_t
    estop,        \* _estop
    sock,         \* _sock: "none", "live", or "dead" when its peer is gone
    sending,      \* the frame of a connect in progress
    busy,         \* ticks until that connect times out
    timer,        \* is the timer due
    amo,          \* the gait's server: "up", "refusing" or "silent"
    amo_cmd       \* CommandSource._cmd

bridge == <<cmd, cmd_age, estop>>
wire   == <<sock, sending, busy, amo_cmd>>
vars   == <<planner_up, inbox, helper, estop_inbox, bridge_up, bridge, wire, timer, amo>>

CmdAgeCap == CmdTimeout + 1

TypeOK ==
    /\ planner_up \in BOOLEAN /\ bridge_up \in BOOLEAN
    /\ inbox \in Seq(Requests) /\ Len(inbox) <= QueueDepth
    /\ helper \in {"off", "released", "engaged"}
    /\ estop_inbox \in BOOLEAN \cup {None} /\ estop \in BOOLEAN
    /\ cmd \in Speeds /\ cmd_age \in 0..CmdAgeCap
    /\ sock \in {"none", "live", "dead"}
    /\ sending \in Speeds \cup {None} /\ busy \in 0..ConnectTimeout
    /\ timer \in BOOLEAN
    /\ amo \in {"up", "refusing", "silent"} /\ amo_cmd \in Speeds

\* Nothing runs yet; the bridge and the helper start in any order.
Init ==
    /\ planner_up = FALSE /\ inbox = <<>>
    /\ helper = "off" /\ estop_inbox = None
    /\ bridge_up = FALSE /\ cmd = 0 /\ cmd_age = 0 /\ estop = FALSE
    /\ sock = "none" /\ sending = None /\ busy = 0 /\ timer = FALSE
    /\ amo = "refusing" /\ amo_cmd = 0

-----------------------------------------------------------------------------
(* The planner and the e-stop helper                                       *)

\* The MPC node publishes a Twist; the oldest of a full queue is dropped.
PublishTwist(v) ==
    /\ planner_up /\ bridge_up
    /\ LET longer == Append(inbox, v)
       IN  inbox' = IF Len(longer) > QueueDepth THEN Tail(longer) ELSE longer
    /\ UNCHANGED <<planner_up, helper, estop_inbox, bridge_up, bridge, wire, timer, amo>>

PlannerStartsOrDies ==
    /\ planner_up' = ~planner_up
    /\ UNCHANGED <<inbox, helper, estop_inbox, bridge_up, bridge, wire, timer, amo>>

\* publish(): the latest sample replaces an unprocessed one (KEEP_LAST, 1).
PublishEstop(engaged) == estop_inbox' = IF bridge_up THEN engaged ELSE estop_inbox

HelperUnchanged == UNCHANGED <<planner_up, inbox, bridge_up, bridge, wire, timer, amo>>

\* main() publishes False before it reads a key.
HelperStarts ==
    /\ helper = "off" /\ helper' = "released"
    /\ PublishEstop(FALSE)
    /\ HelperUnchanged

\* 's', and every 0.1 s while engaged.
HelperStops ==
    /\ helper # "off" /\ helper' = "engaged"
    /\ PublishEstop(TRUE)
    /\ HelperUnchanged

\* 'g'.
HelperGoes ==
    /\ helper # "off" /\ helper' = "released"
    /\ PublishEstop(FALSE)
    /\ HelperUnchanged

\* 'q', end of input or Ctrl-C: True is published, then the publisher and the
\* sample it latched are gone.
HelperQuits ==
    /\ helper # "off" /\ helper' = "off"
    /\ PublishEstop(TRUE)
    /\ HelperUnchanged

\* The terminal is closed or the process killed: nothing is published.
HelperCrashes ==
    /\ helper # "off" /\ helper' = "off"
    /\ UNCHANGED estop_inbox
    /\ HelperUnchanged

-----------------------------------------------------------------------------
(* The bridge                                                              *)

\* _WSClient.send_json: connect on demand; a failure drops the socket.  Writing
\* to a connection whose peer is gone is swallowed until the reset comes back.
SendJson(v) ==
    \/ /\ sock = "live" /\ amo_cmd' = v
       /\ UNCHANGED <<sock, sending, busy>>
    \/ /\ sock = "dead" /\ sock' \in {"dead", "none"}
       /\ UNCHANGED <<sending, busy, amo_cmd>>
    \/ /\ sock = "none" /\ amo = "up"
       /\ sock' = "live" /\ amo_cmd' = v
       /\ UNCHANGED <<sending, busy>>
    \/ /\ sock = "none" /\ amo = "refusing"
       /\ UNCHANGED wire
    \/ /\ sock = "none" /\ amo = "silent"
       /\ sending' = v /\ busy' = ConnectTimeout
       /\ UNCHANGED <<sock, amo_cmd>>

Idle == bridge_up /\ sending = None

\* A server that comes up during the connect still gets the frame.
ConnectCompletes ==
    /\ sending # None /\ amo = "up"
    /\ sock' = "live" /\ amo_cmd' = sending
    /\ sending' = None /\ busy' = 0
    /\ UNCHANGED <<planner_up, inbox, helper, estop_inbox, bridge_up, bridge, timer, amo>>

Clip(v) == IF v > VMax THEN VMax ELSE IF v < -VMax THEN -VMax ELSE v

\* _on_twist: stored and counted as fresh, also while the e-stop is engaged.
OnTwist ==
    /\ Idle /\ inbox # <<>>
    /\ cmd' = Clip(Head(inbox)) /\ cmd_age' = 0
    /\ inbox' = Tail(inbox)
    /\ UNCHANGED <<planner_up, helper, estop_inbox, bridge_up, estop, wire, timer, amo>>

\* A plausible slip: engaging only sets the flag, the next tick sends the zero,
\* and the command that was in force is kept for the release.
LazyOnEstop ==
    /\ Idle /\ estop_inbox # None
    /\ estop' = estop_inbox /\ estop_inbox' = None
    /\ UNCHANGED <<cmd, cmd_age, wire, planner_up, inbox, helper, bridge_up, timer, amo>>

\* _on_estop: only a change acts.  Engaging drops the command and sends zero;
\* releasing leaves whatever was stored since.
OnEstop ==
    /\ Idle /\ estop_inbox # None
    /\ estop' = estop_inbox /\ estop_inbox' = None
    /\ IF estop' /\ ~estop
       THEN cmd' = 0 /\ cmd_age' = 0 /\ SendJson(0)
       ELSE UNCHANGED <<cmd, cmd_age, wire>>
    /\ UNCHANGED <<planner_up, inbox, helper, bridge_up, timer, amo>>

\* A plausible slip: the watchdog comes first and its branch returns; a stop is
\* only honoured for stale commands.
WatchdogOnly ==
    /\ Idle /\ timer /\ timer' = FALSE
    /\ cmd' = IF cmd_age > CmdTimeout THEN 0 ELSE cmd
    /\ SendJson(cmd')
    /\ UNCHANGED <<planner_up, inbox, helper, estop_inbox, bridge_up, cmd_age, estop, amo>>

\* A plausible slip: no watchdog, the last command is re-sent for ever.
NoWatchdog ==
    /\ Idle /\ timer /\ timer' = FALSE
    /\ UNCHANGED cmd
    /\ SendJson(IF estop THEN 0 ELSE cmd)
    /\ UNCHANGED <<planner_up, inbox, helper, estop_inbox, bridge_up, cmd_age, estop, amo>>

\* _tick: zero while engaged; else the command, zeroed when it is too old.
OnTimer ==
    /\ Idle /\ timer /\ timer' = FALSE
    /\ cmd' = IF ~estop /\ cmd_age > CmdTimeout THEN 0 ELSE cmd
    /\ SendJson(IF estop THEN 0 ELSE cmd')
    /\ UNCHANGED <<planner_up, inbox, helper, estop_inbox, bridge_up, cmd_age, estop, amo>>

\* __init__: the subscription inherits the sample the helper has latched.
BridgeStarts ==
    /\ ~bridge_up /\ bridge_up' = TRUE
    /\ cmd' = 0 /\ cmd_age' = 0 /\ estop' = FALSE
    /\ estop_inbox' = IF helper = "off" THEN None ELSE helper = "engaged"
    /\ UNCHANGED <<planner_up, inbox, helper, wire, timer, amo>>

\* The process ends, with or without destroy_node: the socket is closed and
\* nothing is sent.
BridgeEnds ==
    /\ bridge_up /\ bridge_up' = FALSE
    /\ cmd' = 0 /\ cmd_age' = 0 /\ estop' = FALSE
    /\ inbox' = <<>> /\ estop_inbox' = None
    /\ sock' = "none" /\ sending' = None /\ busy' = 0 /\ timer' = FALSE
    /\ UNCHANGED <<planner_up, helper, amo_cmd, amo>>

-----------------------------------------------------------------------------
(* The gait and time                                                       *)

\* A new CommandSource starts at zero.
GaitStarts ==
    /\ amo # "up" /\ amo' = "up" /\ amo_cmd' = 0
    /\ UNCHANGED <<planner_up, inbox, helper, estop_inbox, bridge_up, bridge,
                   sock, sending, busy, timer>>

\* The gait process, or its whole host, goes away; the robot is damped.
GaitEnds(how) ==
    /\ amo' = how /\ amo # how /\ amo_cmd' = 0
    /\ sock' = IF sock = "live" THEN "dead" ELSE sock
    /\ UNCHANGED <<planner_up, inbox, helper, estop_inbox, bridge_up, bridge,
                   sending, busy, timer>>

Ready == Idle /\ (timer \/ inbox # <<>> \/ estop_inbox # None)

\* A tick: the timer falls due (missed periods collapse into one), and a
\* connect that is not answered in time fails.
Tick ==
    /\ ~Ready
    /\ timer' = bridge_up
    /\ cmd_age' = IF bridge_up /\ cmd_age < CmdAgeCap THEN cmd_age + 1 ELSE cmd_age
    /\ busy' = IF busy > 0 THEN busy - 1 ELSE 0
    /\ sending' = IF busy > 1 THEN sending ELSE None
    /\ UNCHANGED <<planner_up, inbox, helper, estop_inbox, bridge_up, cmd, estop,
                   sock, amo, amo_cmd>>

Helper == HelperStarts \/ HelperStops \/ HelperGoes \/ HelperQuits \/ HelperCrashes
Gait == GaitStarts \/ \E how \in {"refusing", "silent"} : GaitEnds(how)

Next ==
    \/ \E v \in Requests : PublishTwist(v)
    \/ PlannerStartsOrDies
    \/ Helper
    \/ OnTwist \/ OnEstop \/ OnTimer \/ ConnectCompletes
    \/ BridgeStarts \/ BridgeEnds
    \/ Gait
    \/ Tick

Spec == Init /\ [][Next]_vars

\* The executor serves what is ready, time passes however many messages arrive,
\* and TCP reports a dead peer after finitely many writes.
ResetNoticed == OnTimer /\ sock = "dead" /\ sock' = "none"
Fairness ==
    /\ WF_vars(OnTwist) /\ WF_vars(OnEstop) /\ WF_vars(OnTimer)
    /\ SF_vars(Tick) /\ SF_vars(ResetNoticed)
FairSpec == Spec /\ Fairness

-----------------------------------------------------------------------------
(* Properties                                                              *)

\* The bridge keeps to the abstract gate: the gait gets zero, or the clipped
\* latest request handed over while the e-stop was not engaged and the request
\* not older than the timeout.  cmd_vel_to_amo_node.py 166-209.
Gate == INSTANCE CommandGate WITH
    Nothing <- None, stopped <- estop, wanted <- cmd,
    live <- cmd_age <= CmdTimeout, flight <- sending, out <- amo_cmd
ImplementsGate == Gate!GateSpec

\* While a connection stands, a command that moves the gait means that the
\* e-stop is not engaged and that the command has not outlived the watchdog by
\* more than the tick on which it is noticed, whatever died upstream and however
\* long a connect held the executor up.  cmd_vel_to_amo_node.py 177-203.
ConnectedIsGuarded ==
    sock = "live" /\ amo_cmd # 0 =>
        /\ ~estop
        /\ cmd_age <= CmdTimeout \/ timer

\* The inductive strengthening: who may hold a socket or a frame under way, and
\* what that frame can be.
BridgeInv ==
    /\ TypeOK
    /\ sock = "live" => bridge_up /\ amo = "up"
    /\ sending # None => bridge_up /\ sock = "none"
    /\ sending \notin {None, 0} => ~estop /\ (cmd_age <= CmdTimeout \/ timer)
    /\ ConnectedIsGuarded

\* Once the planner is gone for good, a bridge and a gait that stay up bring
\* the robot to rest, whatever was queued and whatever the socket went through.
\* cmd_vel_to_amo_node.py 83-97, 195-203.
PlannerDeathStopsGait ==
    <>[](~planner_up /\ bridge_up /\ amo = "up") => <>[](amo_cmd = 0)

\* An e-stop that stays engaged reaches the gait, also through a bridge that
\* was started after the key was pressed, and nothing moves it afterwards.
\* estop_keyboard_node.py 74-98, cmd_vel_to_amo_node.py 147-155, 177-194.
StopReachesGait ==
    <>[](helper = "engaged" /\ bridge_up /\ amo = "up") => <>[](amo_cmd = 0)

\* "the bridge zeroes on a stale /mpc/cmd_vel, so a crash also stops the robot",
\* of a launch that the bridge is part of.  README.md 213-216.
CrashStopsRobot == <>[](~planner_up /\ ~bridge_up) => <>[](amo_cmd = 0)
=============================================================================
