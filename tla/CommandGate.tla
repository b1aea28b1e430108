---------------------------- MODULE CommandGate ----------------------------
(***************************************************************************)
(* What the bridge between the planner and the gait promises, without its  *)
(* queues, sockets and timers: the command in force at the gait is zero,   *)
(* or one that was handed to the transport while the gate was open and the *)
(* request it came from was live.                                          *)
(***************************************************************************)
EXTENDS Integers

CONSTANTS
    Speeds,   \* the commands the gait may be given, 0 among them
    Nothing   \* no frame is under way

VARIABLES
    stopped,  \* the gate is closed by the operator
    wanted,   \* the request in force
    live,     \* the request is recent enough to be acted on
    flight,   \* a frame handed to a transport that has not delivered it yet
    out       \* the command in force at the gait

gate_vars == <<stopped, wanted, live, flight, out>>

GateInit ==
    /\ ~stopped /\ wanted = 0 /\ live \in BOOLEAN
    /\ flight = Nothing /\ out = 0

\* A request is accepted, also while the gate is closed.
Accept(v) ==
    /\ flight = Nothing
    /\ wanted' = v /\ live' = TRUE
    /\ UNCHANGED <<stopped, flight, out>>

Expire == live' = FALSE /\ UNCHANGED <<stopped, wanted, flight, out>>

\* The operator closes the gate: whatever was requested before is forgotten.
Close ==
    /\ ~stopped /\ flight = Nothing
    /\ stopped' = TRUE /\ wanted' = 0 /\ live' = TRUE
    /\ out' \in {0, out}
    /\ flight' \in {0, Nothing}

Open == stopped /\ flight = Nothing /\ stopped' = FALSE /\ UNCHANGED <<wanted, live, flight, out>>

\* What may be handed to the transport now.
Admissible == {0} \cup IF ~stopped /\ live THEN {wanted} ELSE {}

\* A frame is handed over; it is delivered at once, is under way, or is lost.
Forward(v) ==
    /\ v \in Admissible /\ flight = Nothing
    /\ wanted' \in {0, wanted}
    /\ \/ out' = v /\ flight' = Nothing
       \/ out' = out /\ flight' \in {v, Nothing}
    /\ UNCHANGED <<stopped, live>>

\* The frame under way is delivered, or the transport gives up on it.
Deliver == flight # Nothing /\ out' = flight /\ flight' = Nothing /\ UNCHANGED <<stopped, wanted, live>>
GiveUp ==
    /\ flight # Nothing /\ flight' = Nothing
    /\ live' = live \/ live' = FALSE
    /\ UNCHANGED <<stopped, wanted, out>>

\* The gate itself, or the gait, starts over.
Reset ==
    /\ stopped' = FALSE /\ wanted' = 0 /\ live' \in BOOLEAN
    /\ flight' = Nothing /\ out' = out
GaitResets == out' = 0 /\ UNCHANGED <<stopped, wanted, live, flight>>

GateNext ==
    \/ \E v \in Speeds : Accept(v) \/ Forward(v)
    \/ Expire \/ Close \/ Open \/ Deliver \/ GiveUp \/ Reset \/ GaitResets

GateSpec == GateInit /\ [][GateNext]_gate_vars
=============================================================================
