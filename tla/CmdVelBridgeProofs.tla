------------------------- MODULE CmdVelBridgeProofs -------------------------
(***************************************************************************)
(* BridgeInv is an invariant of CmdVelBridge for every value of the        *)
(* constants, and the bridge implements CommandGate.                       *)
(***************************************************************************)
EXTENDS CmdVelBridge, SequenceTheorems, TLAPS

\* What leaves Clip is within the limits, and so is zero.
LEMMA ClipTyped ==
    /\ 0 \in Speeds
    /\ \A v \in Int : Clip(v) \in Speeds
BY BridgeAssumption DEF Speeds, Clip

\* None is no velocity and no e-stop sample.
LEMMA NoneIsNothing == None \notin Speeds /\ None \notin BOOLEAN
BY BridgeAssumption DEF Speeds

\* What a send does to the wire: a live socket afterwards means that the gait
\* is up and has exactly this frame; a connect under way holds this frame.
LEMMA SendStep ==
    ASSUME TypeOK, sending = None, sock = "live" => amo = "up",
           NEW v \in Speeds, SendJson(v)
    PROVE  /\ sock' \in {"none", "live", "dead"}
           /\ sending' \in {None, v} /\ busy' \in 0..ConnectTimeout
           /\ amo_cmd' \in {amo_cmd, v}
           /\ sock' = "live" => amo = "up" /\ amo_cmd' = v
           /\ sending' # None => sock' = "none" /\ amo_cmd' = amo_cmd
<1> USE BridgeAssumption DEF TypeOK, SendJson, wire
<1>1. CASE sock = "live"
  BY <1>1
<1>2. CASE sock = "dead"
  BY <1>2
<1>3. CASE sock = "none"
  BY <1>3
<1> QED BY <1>1, <1>2, <1>3

\* A subscription queue stays within its depth.
LEMMA QueueStep ==
    ASSUME NEW s \in Seq(Requests), Len(s) <= QueueDepth, NEW v \in Requests
    PROVE  LET longer == Append(s, v)
               t == IF Len(longer) > QueueDepth THEN Tail(longer) ELSE longer
           IN  t \in Seq(Requests) /\ Len(t) <= QueueDepth
<1> DEFINE longer == Append(s, v)
<1>1. longer \in Seq(Requests) /\ Len(longer) = Len(s) + 1 /\ longer # <<>>
  OBVIOUS
<1>2. Tail(longer) \in Seq(Requests) /\ Len(Tail(longer)) = Len(longer) - 1
  BY <1>1
<1>3. Len(s) \in Nat /\ QueueDepth \in Nat
  BY BridgeAssumption
<1> QED BY <1>1, <1>2, <1>3

\* Taking a message leaves a shorter queue.
LEMMA HeadStep ==
    ASSUME NEW s \in Seq(Requests), s # <<>>, Len(s) <= QueueDepth
    PROVE  Head(s) \in Requests /\ Tail(s) \in Seq(Requests) /\ Len(Tail(s)) <= QueueDepth
<1>1. Len(s) \in Nat /\ Len(Tail(s)) = Len(s) - 1
  OBVIOUS
<1>2. QueueDepth \in Nat
  BY BridgeAssumption
<1> QED BY <1>1, <1>2

\* The empty queue is a queue.
LEMMA EmptyQueue == <<>> \in Seq(Requests) /\ Len(<<>>) <= QueueDepth
BY BridgeAssumption

-----------------------------------------------------------------------------
(* The inductive invariant                                                 *)

\* The bridge starts in the invariant.
LEMMA BridgeInit == Init => BridgeInv
<1> SUFFICES ASSUME Init PROVE BridgeInv
  OBVIOUS
<1>1. inbox \in Seq(Requests) /\ Len(inbox) <= QueueDepth
  BY EmptyQueue DEF Init
<1>2. cmd_age \in 0..CmdAgeCap /\ busy \in 0..ConnectTimeout
  BY BridgeAssumption DEF Init, CmdAgeCap
<1> QED BY <1>1, <1>2, ClipTyped DEF Init, BridgeInv, TypeOK, ConnectedIsGuarded

\* The steps of the planner, the helper and the gait.
LEMMA OutsideKeepsInv ==
    ASSUME BridgeInv,
           \/ \E v \in Requests : PublishTwist(v)
           \/ PlannerStartsOrDies \/ Helper \/ Gait
    PROVE  BridgeInv'
<1> USE BridgeAssumption DEF BridgeInv, ConnectedIsGuarded, CmdAgeCap
<1>1. CASE \E v \in Requests : PublishTwist(v)
  <2>1. PICK v \in Requests : PublishTwist(v)
    BY <1>1
  <2>2. inbox' \in Seq(Requests) /\ Len(inbox') <= QueueDepth
    BY <2>1, QueueStep DEF PublishTwist, TypeOK
  <2>3. /\ UNCHANGED <<planner_up, helper, estop_inbox, bridge_up, timer, amo>>
        /\ UNCHANGED <<cmd, cmd_age, estop, sock, sending, busy, amo_cmd>>
    BY <2>1 DEF PublishTwist, bridge, wire
  <2> QED BY <2>2, <2>3 DEF TypeOK
<1>2. CASE PlannerStartsOrDies
  BY <1>2 DEF PlannerStartsOrDies, bridge, wire, TypeOK
<1>3. CASE Helper
  <2>1. /\ UNCHANGED <<planner_up, inbox, bridge_up, timer, amo>>
        /\ UNCHANGED <<cmd, cmd_age, estop, sock, sending, busy, amo_cmd>>
    BY <1>3 DEF Helper, HelperStarts, HelperStops, HelperGoes, HelperQuits,
                HelperCrashes, HelperUnchanged, bridge, wire
  <2>2. helper' \in {"off", "released", "engaged"} /\ estop_inbox' \in BOOLEAN \cup {None}
    BY <1>3 DEF Helper, HelperStarts, HelperStops, HelperGoes, HelperQuits,
                HelperCrashes, PublishEstop, TypeOK
  <2> QED BY <2>1, <2>2 DEF TypeOK
<1>4. CASE Gait
  <2>1. /\ UNCHANGED <<planner_up, inbox, helper, estop_inbox, bridge_up, timer>>
        /\ UNCHANGED <<cmd, cmd_age, estop, sending, busy>>
        /\ amo_cmd' = 0
    BY <1>4 DEF Gait, GaitStarts, GaitEnds, bridge
  <2>2. amo' \in {"up", "refusing", "silent"}
    BY <1>4 DEF Gait, GaitStarts, GaitEnds
  <2>3. /\ sock' \in {"none", "live", "dead"} /\ sock' # "live"
        /\ sock = "none" => sock' = "none"
    BY <1>4 DEF Gait, GaitStarts, GaitEnds, TypeOK
  <2> QED BY <2>1, <2>2, <2>3, ClipTyped DEF TypeOK
<1> QED BY <1>1, <1>2, <1>3, <1>4

\* The callbacks of the bridge that send.
LEMMA SendsKeepInv ==
    ASSUME BridgeInv, OnEstop \/ OnTimer \/ ConnectCompletes
    PROVE  BridgeInv'
<1> USE BridgeAssumption DEF BridgeInv, ConnectedIsGuarded, CmdAgeCap
<1>1. CASE OnEstop
  <2>1. /\ UNCHANGED <<planner_up, inbox, helper, bridge_up, timer, amo>>
        /\ bridge_up /\ sending = None
        /\ estop' \in BOOLEAN /\ estop_inbox' \in BOOLEAN \cup {None}
    BY <1>1 DEF OnEstop, Idle, TypeOK
  <2>2. CASE estop' /\ ~estop
    <3>1. cmd' = 0 /\ cmd_age' = 0 /\ SendJson(0)
      BY <1>1, <2>2 DEF OnEstop
    <3>2. /\ sock' \in {"none", "live", "dead"}
          /\ sending' \in {None, 0} /\ busy' \in 0..ConnectTimeout
          /\ amo_cmd' \in {amo_cmd, 0}
          /\ sock' = "live" => amo = "up" /\ amo_cmd' = 0
          /\ sending' # None => sock' = "none"
      BY <2>1, <3>1, SendStep, ClipTyped
    <3> QED BY <2>1, <3>1, <3>2, ClipTyped DEF TypeOK
  <2>3. CASE ~(estop' /\ ~estop)
    <3>1. UNCHANGED <<cmd, cmd_age, sock, sending, busy, amo_cmd>>
      BY <1>1, <2>3 DEF OnEstop, wire
    <3> QED BY <2>1, <2>3, <3>1 DEF TypeOK
  <2> QED BY <2>2, <2>3
<1>2. CASE OnTimer
  <2> DEFINE v == IF estop THEN 0 ELSE cmd'
  <2>1. /\ UNCHANGED <<planner_up, inbox, helper, estop_inbox, bridge_up, cmd_age, estop, amo>>
        /\ bridge_up /\ sending = None /\ timer' = FALSE
        /\ cmd' = IF ~estop /\ cmd_age > CmdTimeout THEN 0 ELSE cmd
        /\ SendJson(v)
    BY <1>2 DEF OnTimer, Idle
  <2>2. /\ cmd' \in Speeds /\ v \in Speeds
        /\ v # 0 => ~estop /\ cmd_age <= CmdTimeout
    BY <2>1, ClipTyped DEF TypeOK
  <2>3. /\ sock' \in {"none", "live", "dead"}
        /\ sending' \in {None, v} /\ busy' \in 0..ConnectTimeout
        /\ amo_cmd' \in {amo_cmd, v}
        /\ sock' = "live" => amo = "up" /\ amo_cmd' = v
        /\ sending' # None => sock' = "none"
    BY <2>1, <2>2, SendStep
  <2> HIDE DEF v
  <2> QED BY <2>1, <2>2, <2>3 DEF TypeOK
<1>3. CASE ConnectCompletes
  <2>1. /\ UNCHANGED <<planner_up, inbox, helper, estop_inbox, bridge_up, timer, amo>>
        /\ UNCHANGED <<cmd, cmd_age, estop>>
        /\ sending # None /\ amo = "up" /\ sock' = "live" /\ amo_cmd' = sending
        /\ sending' = None /\ busy' = 0
    BY <1>3 DEF ConnectCompletes, bridge
  <2> QED BY <2>1 DEF TypeOK
<1> QED BY <1>1, <1>2, <1>3

\* The other steps: a command is stored, the bridge starts or ends, time passes.
LEMMA QuietKeepsInv ==
    ASSUME BridgeInv, OnTwist \/ BridgeStarts \/ BridgeEnds \/ Tick
    PROVE  BridgeInv'
<1> USE BridgeAssumption DEF BridgeInv, ConnectedIsGuarded, CmdAgeCap
<1>1. CASE OnTwist
  <2>1. /\ UNCHANGED <<planner_up, helper, estop_inbox, bridge_up, estop, timer, amo>>
        /\ UNCHANGED <<sock, sending, busy, amo_cmd>>
        /\ cmd' = Clip(Head(inbox)) /\ cmd_age' = 0 /\ inbox' = Tail(inbox)
        /\ inbox # <<>> /\ sending = None
    BY <1>1 DEF OnTwist, Idle, wire
  <2>2. /\ Head(inbox) \in Requests
        /\ inbox' \in Seq(Requests) /\ Len(inbox') <= QueueDepth
    BY <2>1, HeadStep DEF TypeOK
  <2>3. cmd' \in Speeds
    BY <2>1, <2>2, ClipTyped
  <2> QED BY <2>1, <2>2, <2>3 DEF TypeOK
<1>2. CASE BridgeStarts
  <2>1. /\ UNCHANGED <<planner_up, inbox, helper, timer, amo>>
        /\ UNCHANGED <<sock, sending, busy, amo_cmd>>
        /\ ~bridge_up /\ bridge_up' = TRUE /\ cmd' = 0 /\ cmd_age' = 0 /\ estop' = FALSE
        /\ estop_inbox' \in BOOLEAN \cup {None}
    BY <1>2 DEF BridgeStarts, wire
  <2>2. cmd_age' \in 0..(CmdTimeout + 1) /\ sending = None /\ sock # "live"
    BY <2>1
  <2> QED BY <2>1, <2>2, ClipTyped DEF TypeOK
<1>3. CASE BridgeEnds
  <2>1. /\ UNCHANGED <<planner_up, helper, amo_cmd, amo>>
        /\ bridge_up' = FALSE /\ cmd' = 0 /\ cmd_age' = 0 /\ estop' = FALSE
        /\ inbox' = <<>> /\ estop_inbox' = None
        /\ sock' = "none" /\ sending' = None /\ busy' = 0 /\ timer' = FALSE
    BY <1>3 DEF BridgeEnds
  <2>2. inbox' \in Seq(Requests) /\ Len(inbox') <= QueueDepth
    BY <2>1, EmptyQueue
  <2>3. cmd_age' \in 0..(CmdTimeout + 1) /\ busy' \in 0..ConnectTimeout
    BY <2>1
  <2> QED BY <2>1, <2>2, <2>3, ClipTyped DEF TypeOK
<1>4. CASE Tick
  <2>1. /\ UNCHANGED <<planner_up, inbox, helper, estop_inbox, bridge_up, cmd, estop>>
        /\ UNCHANGED <<sock, amo, amo_cmd>>
        /\ timer' = bridge_up
        /\ sending' = IF busy > 1 THEN sending ELSE None
    BY <1>4 DEF Tick
  <2>2. cmd_age' \in 0..(CmdTimeout + 1) /\ busy' \in 0..ConnectTimeout
    BY <1>4 DEF Tick, TypeOK
  <2> QED BY <2>1, <2>2 DEF TypeOK
<1> QED BY <1>1, <1>2, <1>3, <1>4

\* The bridge's invariant, for every clip, timeout, queue depth and request.
THEOREM BridgeInvariance == Spec => []BridgeInv
<1>1. ASSUME BridgeInv, [Next]_vars PROVE BridgeInv'
  <2>1. CASE Next
    BY <1>1, <2>1, OutsideKeepsInv, SendsKeepInv, QuietKeepsInv DEF Next
  <2>2. CASE UNCHANGED vars
    BY <1>1, <2>2 DEF vars, bridge, wire, BridgeInv, TypeOK, ConnectedIsGuarded
  <2> QED BY <1>1, <2>1, <2>2
<1> QED BY <1>1, BridgeInit, PTL DEF Spec

\* Every variable keeps its range.
THEOREM BridgeTypes == Spec => []TypeOK
BY BridgeInvariance, PTL DEF BridgeInv

\* Connected, the gait moves only with the e-stop released and the watchdog
\* within its limit.
THEOREM Guarded == Spec => []ConnectedIsGuarded
BY BridgeInvariance, PTL DEF BridgeInv

-----------------------------------------------------------------------------
(* The refinement                                                          *)

\* A send hands the frame v over in one of the ways the gate allows.
LEMMA SendForwards ==
    ASSUME TypeOK, sending = None, NEW v \in Speeds, SendJson(v)
    PROVE  \/ amo_cmd' = v /\ sending' = None
           \/ amo_cmd' = amo_cmd /\ sending' \in {v, None}
BY NoneIsNothing DEF TypeOK, SendJson, wire

\* Each step of the bridge is a step of the gate, or changes nothing it knows.
LEMMA GateStep ==
    ASSUME BridgeInv, Next
    PROVE  Gate!GateNext \/ UNCHANGED Gate!gate_vars
<1> USE DEF Gate!gate_vars
<1>1. CASE (\E v \in Requests : PublishTwist(v)) \/ PlannerStartsOrDies \/ Helper
  <2>1. UNCHANGED <<cmd, cmd_age, estop, sending, amo_cmd>>
    BY <1>1 DEF PublishTwist, PlannerStartsOrDies, Helper, HelperStarts, HelperStops,
                HelperGoes, HelperQuits, HelperCrashes, HelperUnchanged, bridge, wire
  <2> QED BY <2>1
<1>2. CASE OnTwist
  <2>1. /\ UNCHANGED <<estop, sending, amo_cmd>> /\ sending = None
        /\ cmd' = Clip(Head(inbox)) /\ cmd_age' = 0 /\ inbox # <<>>
    BY <1>2 DEF OnTwist, Idle, wire
  <2>2. cmd' \in Speeds
    BY <2>1, HeadStep, ClipTyped, BridgeAssumption DEF BridgeInv, TypeOK
  <2>3. cmd_age' <= CmdTimeout
    BY <2>1, BridgeAssumption
  <2>4. Gate!Accept(cmd')
    BY <2>1, <2>3 DEF Gate!Accept
  <2> QED BY <2>2, <2>4 DEF Gate!GateNext
<1>3. CASE OnEstop
  <2>1. sending = None /\ estop' \in BOOLEAN
    BY <1>3, NoneIsNothing DEF OnEstop, Idle, BridgeInv, TypeOK
  <2>2. CASE estop' /\ ~estop
    <3>1. cmd' = 0 /\ cmd_age' = 0 /\ SendJson(0)
      BY <1>3, <2>2 DEF OnEstop
    <3>2. \/ amo_cmd' = 0 /\ sending' = None
          \/ amo_cmd' = amo_cmd /\ sending' \in {0, None}
      BY <2>1, <3>1, SendForwards, ClipTyped DEF BridgeInv
    <3>3. cmd_age' <= CmdTimeout
      BY <3>1, BridgeAssumption
    <3>4. Gate!Close
      BY <2>1, <2>2, <3>1, <3>2, <3>3 DEF Gate!Close
    <3> QED BY <3>4 DEF Gate!GateNext
  <2>3. CASE ~(estop' /\ ~estop)
    <3>1. UNCHANGED <<cmd, cmd_age, sending, amo_cmd>>
      BY <1>3, <2>3 DEF OnEstop, wire
    <3>2. estop \in BOOLEAN
      BY DEF BridgeInv, TypeOK
    <3>3. CASE estop' = estop
      BY <3>1, <3>3
    <3>4. CASE estop' # estop
      <4>1. Gate!Open
        BY <2>1, <2>3, <3>1, <3>2, <3>4 DEF Gate!Open
      <4> QED BY <4>1 DEF Gate!GateNext
    <3> QED BY <3>3, <3>4
  <2> QED BY <2>2, <2>3
<1>4. CASE OnTimer
  <2> DEFINE v == IF estop THEN 0 ELSE cmd'
  <2>1. /\ UNCHANGED <<cmd_age, estop>> /\ sending = None
        /\ cmd' = IF ~estop /\ cmd_age > CmdTimeout THEN 0 ELSE cmd
        /\ SendJson(v)
    BY <1>4 DEF OnTimer, Idle
  <2>2. cmd_age \in Int /\ CmdTimeout \in Int
    BY BridgeAssumption DEF BridgeInv, TypeOK, CmdAgeCap
  <2>3. v \in Speeds /\ v \in Gate!Admissible /\ cmd' \in {0, cmd}
    BY <2>1, <2>2, ClipTyped DEF BridgeInv, TypeOK, Gate!Admissible
  <2>4. \/ amo_cmd' = v /\ sending' = None
        \/ amo_cmd' = amo_cmd /\ sending' \in {v, None}
    BY <2>1, <2>3, SendForwards DEF BridgeInv
  <2>5. UNCHANGED (cmd_age <= CmdTimeout)
    BY <2>1
  <2> HIDE DEF v
  <2>6. Gate!Forward(v)
    BY <2>1, <2>3, <2>4, <2>5 DEF Gate!Forward
  <2> QED BY <2>3, <2>6 DEF Gate!GateNext
<1>5. CASE ConnectCompletes
  <2>1. Gate!Deliver
    BY <1>5 DEF ConnectCompletes, bridge, Gate!Deliver
  <2> QED BY <2>1 DEF Gate!GateNext
<1>6. CASE BridgeStarts
  <2>1. Gate!Reset
    BY <1>6 DEF BridgeStarts, BridgeInv, wire, Gate!Reset
  <2> QED BY <2>1 DEF Gate!GateNext
<1>7. CASE BridgeEnds
  <2>1. Gate!Reset
    BY <1>7 DEF BridgeEnds, Gate!Reset
  <2> QED BY <2>1 DEF Gate!GateNext
<1>8. CASE Gait
  <2>1. Gate!GaitResets
    BY <1>8 DEF Gait, GaitStarts, GaitEnds, bridge, Gate!GaitResets
  <2> QED BY <2>1 DEF Gate!GateNext
<1>9. CASE Tick
  <2>1. /\ UNCHANGED <<cmd, estop, amo_cmd>>
        /\ sending' \in {sending, None}
    BY <1>9 DEF Tick
  <2>2. cmd_age' <= CmdTimeout => cmd_age <= CmdTimeout
    BY <1>9, BridgeAssumption DEF Tick, BridgeInv, TypeOK, CmdAgeCap
  <2>3. CASE sending' # sending
    <3>1. Gate!GiveUp
      BY <2>1, <2>2, <2>3 DEF Gate!GiveUp
    <3> QED BY <3>1 DEF Gate!GateNext
  <2>4. CASE sending' = sending
    <3>1. Gate!Expire \/ UNCHANGED Gate!gate_vars
      BY <2>1, <2>2, <2>4 DEF Gate!Expire
    <3> QED BY <3>1 DEF Gate!GateNext
  <2> QED BY <2>3, <2>4
<1> QED BY <1>1, <1>2, <1>3, <1>4, <1>5, <1>6, <1>7, <1>8, <1>9 DEF Next

\* The bridge implements the gate: whatever the planner, the operator, the gait
\* and the socket do, nothing else than zero or an admissible request moves the
\* robot.
THEOREM GateRefinement == Spec => ImplementsGate
<1>1. Init => Gate!GateInit
  BY BridgeAssumption DEF Init, Gate!GateInit
<1>2. ASSUME BridgeInv, [Next]_vars
      PROVE  [Gate!GateNext]_(Gate!gate_vars)
  <2>1. CASE Next
    BY <1>2, <2>1, GateStep
  <2>2. CASE UNCHANGED vars
    BY <2>2 DEF vars, bridge, wire, Gate!gate_vars
  <2> QED BY <1>2, <2>1, <2>2
<1> QED BY <1>1, <1>2, BridgeInvariance, PTL DEF Spec, ImplementsGate, Gate!GateSpec
=============================================================================
