# Verification of the navigation stack

TLA+ models of the navigation path of this repository: from a lidar scan and a
goal, over the local and the global map, the A\* node and the MPC node, to the
velocity command in force at either gait of the robot, and of the loop that runs
the AMO gait. TLC checks the models on small instances, TLAPS proves the main
safety properties for every value of the constants.

    tlasany M.tla                                  parse a module
    tlc -workers 2 -config X.cfg M                 check one run
    tlapm M.tla                                    check the proofs of a module

## 1. The system

```
 lidar, IMU --> DLIO --odometry--> everything below
 cloud --> local voxel map --obstacles--> global planner --/global_path--.
      \--------------------------------------------> A* node  <----------'
 goal -----------------------------------> A* node, MPC node, global planner
 A* node --/a_star/path--> MPC node --/mpc/cmd_vel--> bridge --WebSocket--> gait
 keyboard e-stop ---------------/estop (latched)--> bridge
```

Every ROS node is one process with a single-threaded executor: its callbacks do
not interleave with each other, but they interleave arbitrarily with those of
the other nodes, and every message may be late, repeated or missing. No launch
file respawns a process that ends.

| Component | State | Operations | What is hard | What makes it correct |
|---|---|---|---|---|
| **MPC node** (`mpc_node.py`) | pose, goal, path and cloud with their ages; navigation state; security mode and its two debounce counters; last good command and soft-hold count; tracker; setpoint filter; speed ceiling | four subscriptions, one solve timer with six ways out | every early return leaves part of the state as it was; a Twist stays in force until the next one; A\* goes silent on arrival | no moving command outlives its inputs; arrival is noticed and held; SECURITY is reported only while engaged, engaged and released only after enough solves in a row |
| **Trackers** (`mpc_tracker.py`, `mpcc_tracker.py`) | warm start, consecutive failures | `solve` | the two treat a failure differently; warm starts are dropped by their owner, too | no warm start outlives the failure limit |
| **Speed ceiling** (`mpc_node.py` 1315-1335) | deque of outcomes, ceiling | one update per solve | strict comparisons at rates a window can hit exactly | between floor and limit; raised only when clean |
| **A\* planner** (`a_star_planner.py`) | heap, closed costs, path (all local to one call) | local goal, search, shortcut | stale heap entries, consistency of the heuristic, corner cells, a search that gives up | cheapest path, `None` only if there is none, waypoints that cross nothing |
| **A\* node** (`a_star_node.py`) | pose, goal, clouds, cached global route, persistent map | subscriptions, replan timer | route not tied to the goal; other duplicate test than the MPC's; silence on arrival | old goals, old grids and forgotten obstacles have no effect beyond their time |
| **Persistent map** (`persistent_map.py`) | time of the last hit per cell | update, window query, eviction by age and by number | both evictions on one update | never more than the limit, newest kept |
| **Global planner and costmap** (`global_planner_node.py`, `global_costmap.py`) | hit counts with decay, breadcrumbs, last obstacle cloud | subscriptions, replan timer | decay before hit; a kept cloud counted again; an empty one ignored; free overrides occupied | a cell blocks after enough counts, what stands blocks, what is gone fades |
| **Grid maps, SLAM fusion** (`gaussian_grid_map.py`, `external_grid_map.py`, `slam_map_utils.py`) | arrays rebuilt on every update | update, index conversion, parsing | windows that move with the robot; malformed messages | what is in the window and in the cloud blocks; a grid that cannot be read does not count as fresh |
| **Local voxel map** (`g1_local_map`) | voxels with hit times | accumulate, expire, segment ground | rolling window, expiry, tiles without ground | an obstacle with floor beside it is published, nothing old is |
| **Bridge to AMO** (`cmd_vel_to_amo_node.py`) | last command and its age, e-stop flag, socket | command, e-stop, timer; connect on demand | a connect blocks the executor while watchdogs age; writes to a dead peer succeed; restarts | the gait only gets what the gate may let through; stop and silence reach it |
| **E-stop helper** (`estop_keyboard_node.py`) | engaged or not; the latched sample | keys, repetition, quit | the latched sample dies with it | a stop stays in force |
| **Gait** (`amo_inference.py`, `amo_policy.py`, `joint_filters.py`, `activation_utils.py`) | held command, blends, ramps, filters | WebSocket server or pad, 50 Hz loop, signals | no timeout on the held command; phases of start-up that overlap; exceptions | no snap, no step before the robot has settled, damped motors at every end |
| **Bridge to Unitree loco** (`cmd_vel_to_unitree_loco_node.py`, `unitree_loco.py`) | driver, smoother, bring-up thread | command, e-stop, timer, bring-up, shutdown | a second thread on the same driver; calls that block or are lost | no motion on an old command, no jump after a stop, walking only from standing |
| **Teleop, IMU, QoS relay, gait test** | none to speak of | message translation | - | - |
| **DLIO, Livox driver** | vendored estimator and driver | - | - | their output is an input here, and may stop at any time |
| **Launch files, scripts, containers, simulation, robot description** | - | process start-up | nothing is restarted | read for parameter values and life cycles |

`PROJECT.json` lists each component with its status and the hazards of this code,
each at its line and with the properties that guard against it.

## 2. The modules

| Module | Models |
|---|---|
| `AdaptiveLimits` | the speed ceiling as operators on a window of outcomes |
| `MpcTracker` | what one call of `solve` does to warm start and failure count, in both trackers |
| `MpcNode` | the MPC node; EXTENDS the two above |
| `MCMpcNode` | `MpcNode` with history variables, for properties about runs of solves |
| `MpcNodeProofs` | proofs about `MpcNode` and `MCMpcNode` |
| `PathFollower` | abstract specification of the MPC node: what the planners in front of it count on; `MpcNode` implements it |
| `PersistentMap` | the A\* node's memory of obstacles; a specification of its own as well |
| `PersistentMapProofs` | proofs about it |
| `AStarNode` | the A\* node; EXTENDS `PersistentMap` |
| `NavLoop` | `AStarNode` with operator, global planner and `PathFollower` |
| `MCNavLoop` | its symmetries |
| `NavLoopProofs` | proofs about `NavLoop` |
| `MCGoalDrift` | `AStarNode` with the whole `MpcNode`, where nothing fails |
| `PlannerGrid` | cells, costs, moves, heuristic, Bresenham line, local goal |
| `AStarPlanner` | one call of `plan()`: search and shortcut, one action per loop iteration |
| `MCAStarPlanner` | all grids of 3 x 3 cells |
| `AStarPlannerProofs` | proofs about `AStarPlanner` |
| `GroundSegmentation` | ground removal as operators on a set of voxels |
| `LocalVoxelMap` | the local map node; EXTENDS the above |
| `GlobalCostmap`, `GlobalPlannerNode` | the map of the global planner, and its node |
| `GaussianGridMap` | the local grid of the A\* node as operators |
| `Perception` | the four above in a world of floor and obstacles |
| `PerceptionProofs` | proofs about `Perception` |
| `CommandGate` | abstract specification of the last leg: what may be in force at the gait |
| `CmdVelBridge` | e-stop helper, bridge, WebSocket and the gait's command source together; implements `CommandGate` |
| `CmdVelBridgeProofs` | proofs about `CmdVelBridge` |
| `VelocitySmoother` | ramp, low-pass and slew limit of the loco bridge as operators |
| `LocoBridge` | the loco bridge, its bring-up thread and the loco service |
| `LocoBridgeProofs` | proofs about `LocoBridge` |
| `JointSmoother` | pose blend, running filters, clamp and gain ramp as operators |
| `AmoLoop` | the control loop of the AMO gait |
| `AmoLoopProofs` | proofs about `AmoLoop` |

Definitions next to the one they deviate from, marked "A plausible slip", are
wrong on purpose: each shows that some property notices that mistake.

### MpcNode

*Actions.* `GoalCb`, `PoseCb`, `LidarCb`, `PathCb` are the subscriptions; `Solve` is the
timer callback and has one disjunct per way through `_solve_cb`, in the order
of the code: `SolvePoseLost` (1114), `SolveHold` (1142), `SolveAlign` and
`SolveArrive` (1148), `SolvePathLost` (1173), `SolveFull` (the rest: security
check, state, tracker, ceiling, command). `Tick` lets time pass.

*Time.* Each `now - t > limit` becomes an age against a limit, counted in ticks
and saturated one above the largest value that can be told apart. The solve
timer is due every `SolvePeriod` ticks, and time does not pass it: the models
assume that the executor serves the timer within one period. (IPOPT runs inside
the callback; when a solve takes longer, the watchdogs see the ages of what was
processed before it.)

*Data.* The robot stands on the line `0..MaxPos` with a heading from `Headings`.
A command is described by what the properties ask of it: the reference it
tracks (`path`, `escape` or none), how often the soft hold decayed it, and
whether a yaw rate was put on top (`align`, `blend`). A decayed command counts
as moving. The optimiser is a nondeterministic outcome; what outlives it, warm
start and failure count, is `MpcTracker`. Obstacle clustering, prediction, path
resampling, velocity estimation, markers and the numeric setpoint do not decide
any branch and are left out. Two goals are one to the duplicate test when they
are within `GoalTolerance` and have the same heading.

*Refinement.* `ImplementsFollower` maps the command in force to what `PathFollower`
knows of it: a solution along the last path, something of the node's own
(a decayed command, an escape, a yaw correction), or no drive. Turning in place
at the goal is no drive. All of the node's states, counters and watchdogs come
down to one promise: it drives only while the last path is recent.

### AStarNode and NavLoop

*Actions.* `PoseCb`, `GoalCb`, `GlobalPathCb`, `LidarCb`, `SlamMapCb`, `DlioMapCb`,
`ExternalCostmapCb`; `Replan` is the timer callback with its two back-ends,
`ReplanGaussian` and `ReplanExternal`, each with the early returns of `Silent`.
`LidarCb` includes the update of the memory (`Update`), which also runs on an
empty scan and only evicts then.

*Data.* A route is the goal it leads to, a path the goal it leads towards and the
cells it crosses. The search is any path that avoids the obstacles that are sure
to block, or none; what it computes is `AStarPlanner`. A live obstacle is not sure to
block until it is remembered. That remembered and fused cells are sure to block
presupposes `step_over_height: 0.0`, as in `planner_params_default.yaml`: with the node's
own default of 0.08 the search steps over a remembered cell in which the live cloud
shows nothing but low points (`gaussian_grid_map.py` 209-213, `a_star_planner.py`
323-338).

*NavLoop* adds an operator whose goals reach the A\* node and the global planner
at different times, a global planner that may publish a route for the goal it
has, and the MPC node by its promise alone: since `MpcNode` implements
`PathFollower`, what holds here of every follower holds of it. Paths, routes and
grids may be late or lost. `DrivesForCurrentGoal` is the answer to a question the
code leaves open: a cached route is not tied to a goal, so after a new goal the
robot still follows the old one - for `RouteMaxAge + PathTimeout + SolvePeriod`
at most.

*MCGoalDrift* runs the two nodes in full, in a world without faults, since what
it shows depends on what either takes for a duplicate of a goal.

### Perception

*Actions.* `Scan` is the callback of the local map with the delivery of its cloud,
which may be lost; `GoodScan` is the same without loss. `Odometry`, `SendGoal` and
`Replan` are the callbacks of the global planner; `WorldChanges` puts an obstacle
into a column or takes it away. An exception in the local map's callback ends its
process (`up`).

*Data.* The world is a row of columns; an obstacle hides the floor of its column,
which is what makes ground removal hard. `GroundSegmentation` keeps the steps of
`segment_ground`: minima per tile, tiles with too few points, pooling over
neighbours, the foot of the robot where there is no ground, the band. The second
horizontal axis and the direction of "up" are dropped. Counts of the global
costmap are integers in units of `1 / Scale`, with decay `DecayNum / DecayDen`
rounded down; `4 / 5` and a threshold of two hits keep what matters of 0.997 and
2.0: two hits in a row stay just below the threshold, and the third is over it.
`Index` has the truncation towards zero of `global_costmap.py` 114, which makes the
first cell of the grid stand for the one outside it too. The costmap's grid has a
fixed origin, the local grid (`GaussianGridMap`) moves with the robot.

### CmdVelBridge

*Actions.* `PublishTwist`, `PlannerStartsOrDies`; `HelperStarts`, `HelperStops`,
`HelperGoes`, `HelperQuits`, `HelperCrashes`; `OnTwist`, `OnEstop`, `OnTimer` and
the blocking client `SendJson`; `BridgeStarts`, `BridgeEnds`; `GaitStarts`,
`GaitEnds`; `Tick`.

*The executor.* While `sending # None` a connect is under way and no callback
runs: messages queue up (`inbox`, depth `QueueDepth`, oldest dropped; the e-stop
with depth one) and the command ages. A connect to a server that is `refusing`
fails at once, to one that is `silent` after `ConnectTimeout` ticks, unless it
comes up in between. Time passes only when nothing is ready or a connect is
under way.

*The transport.* A write to a connection whose peer is gone succeeds and is
lost; some later write reports the reset. Frames that were accepted by a live
peer arrive in order and at once (the socket is loopback or a wire; a frame that
TCP retransmits late is not modelled). When the gait's process ends, its
connection drops and a new one starts from command zero.

*The e-stop.* The topic is latched: a bridge that starts reads the helper's last
sample, as long as the helper lives. A helper that quits publishes `True` first;
the model delivers that sample if the bridge is up. The three axes are clipped
and forwarded alike, so a velocity is one integer. `_timed_out` and `_connected`
steer log lines only and are left out.

*Refinement.* `ImplementsGate` maps `stopped <- estop`, `wanted <- cmd`,
`live <- cmd_age <= CmdTimeout`, `flight <- sending`, `out <- amo_cmd`: with all
its queues, timers and reconnects the bridge hands over only zero, or the last
request while it is recent and the gate open, and a closed gate forgets the
request. (The gate's `Close` may lose its own zero, as a send can; `Forward(0)`
repeats it.)

### LocoBridge

*Actions.* `OnTwist`, `OnEstop`, `OnTick` are the callbacks; `BringUpProbes`,
`BringUpDamps`, `BringUpStands`, `BringUpStarts` and `BringUpWaits` the steps of the
thread, one RPC each, between any two of which the executor may run;
`BridgeStarts`, `BridgeProbes` and `BridgeReady` (`__init__` up to the connect, up to
the probe, and the rest), `BridgeShutsDown` (`destroy_node`) and `BridgeEnds` the life
of the process; `ServiceChanges` and `OperatorSetsFsm` the world.

*The service.* A call that is not answered has no effect and holds its thread up
for `RpcTimeout`; `calling` is what is left of it for the executor, and no callback
runs until it is zero. A call of `SetFsmId` that is answered was accepted; the firmware
enters the state at once or stays where it is (one that takes longer than the
bring-up's pause counts as one that stays). The bring-up looks at the return code of
Damp and StandUp and reads the state only after it has asked for walking, so
`WalksOnlyFromStanding` has an exception: a StandUp that was accepted and not followed,
which the history variable `ignored` records. The firmware moves only in its walking
state and drops a velocity after `Hold` ticks. The operator brings the robot up in the
proper order and leaves it alone while the bridge does so.

*Time.* `dt` is what `_tick` will compute from `_last_tick_t`. The first stamps are taken
before connect and probe, which may take any time, so the first `_tick` may see a long
`dt` and a ramp that is spent; `since_stop` runs from there, too. `_on_estop` leaves that
stamp alone, so `since_stop`, against which `NoJumpAfterStop` measures, runs from the
last timer callback before an e-stop and not from the e-stop: counted from the
e-stop itself the property does not hold, since the time an unanswered stop call
took is handed to the slew limit.

### AmoLoop

*Actions.* `HandOff` is `run()` up to the loop, `StartFails` an exception in it;
`Drive` one iteration with command, policy, smoothing, gains and motors; `LoopEnds`
the flag and the guards, `LoopRaises` an exception, `ShutsDown` the `finally`;
`Signal` and `Killed` from outside; `WebSocketSets`, `PadMoves`, `RobotTips` and
`LowStateChanges` the world between two iterations.

*Data.* One joint stands for 29; the policy may ask for any pose of `Actions` on
every iteration. Shares are parts of `One`, rounded down. Filter kind, command
source and `observe_only` are chosen once. `low_state` may be `frozen`: the object
stays, nothing new comes. The code does not notice that, and neither does the
model (`Guarded`). What the properties say of the robot being upright is therefore said
of `seen`, the last measurement: with a live LowState it is that of this iteration,
with a frozen one it may be of any age, and the robot may be told to walk while it
lies on the ground. `TroubleEndsDamped` covers a LowState object that is not there, not
one that is no longer refreshed (section 3, where code and text disagree).

### AStarPlanner

*Actions.* `SelectLocalGoal` (124-147), then one pop of the heap per step:
`SkipClosed` (277), `PopTarget` (281) or `Expand` (284-305), or `HeapEmpty` (307);
then `Pull`, one round of `_shortcut_path`, and `Return`.

*Data.* A cell has a kind instead of a probability and a height: `open`, `near`
(passable at a cost), `low` (an obstacle the robot steps over) or `blocked`. Costs
are hundredths of a cell, a diagonal move is 142 long, and the heuristic is the
integer part of the Euclidean distance in hundredths; rounding one up and the
other down keeps the direction of every inequality the code relies on. The
resolution scales costs and heuristic alike and is dropped. The heap is the set
of its entries; where `heapq` would break a tie by its internal order, any choice
is allowed. An entry carries its chain of parents with their costs, as `_Node`
does. A goal is the pair of truncated indices that `world_to_index` computes,
which is also what its range test looks at.

## 3. Runs

| Run | Instance | States | Shows |
|---|---|---|---|
| `mpc_security` | contouring tracker, 2 positions, one heading, engage and clear after 2 solves, 1 soft hold, failure limit 2 | 0.8 M | debounce in both directions over stale scans and early returns; bounded soft hold and warm start; SECURITY reported only while engaged |
| `mpc_navigation` | tracking mode, 2 positions, 2 headings, heading required | 0.8 M | freshness of every moving command, cold arrival, the hold, refinement of `PathFollower`; liveness: a lost pose stops the robot, arrival is noticed |
| `mpc_adaptive` | window 5, 3 samples, speeds 20 to 50 | 3.0 M | ceiling within its limits, raised only over a clean window |
| `bridge` | requests 1 and 3, clip 2, all timeouts and depths 2 | 42 k | guarded command, refinement of the gate; liveness: a dead planner or a held stop brings the gait to rest |
| `planner` | all 19,683 grids of 3 x 3 cells of kinds open, low, blocked; robot in a corner, in the centre, outside; goal in the far corner, a knight's move away, outside | 1.6 M | cheapest path, genuine failure, safe shortcut |
| `nav_loop` | 2 goals, 2 cells, memory of one, each limit one tick, either map fused, both back-ends | 1.9 M (symmetric) | old goals, old grids and forgotten obstacles have no effect beyond their time |
| `perception` | 2 columns a tile apart, robot in either or far away, persistence 0, threshold at the third hit | 83 k | blocks not before the third count; a scan that gets through shows every obstacle with known floor beside it, and nothing that is none; liveness: what stands blocks both grids, what is gone fades |
| `loco` | speeds 2 and 6, limit 5, ramp 3, timeouts 2 and 3, hold 2, three attempts | 1.4 M | recent velocity, no jump after a stop, walking from standing unless an accepted StandUp was not followed; liveness: a lasting stop stops the robot |
| `amo` | joint at 12, poses 0 and 40 against limits 0 to 32, clamp 8, all filters, both sources | 0.9 M | no snap, no step beyond the clamp while it is engaged, no early walk; liveness: trouble ends damped |

*Why the bounds are enough.* Every limit is small but above zero where "not yet",
"just" and "too late" have to be different states: with debounce counters of 2 a
run of sightings can start, be interrupted and complete; with a failure limit of
2 and one soft hold, the hold ends before and after the warm start goes; with a
queue of 2 messages can be dropped, with a connect of 2 ticks the command goes
stale during it (`CmdTimeout` 2). Requests 1 and 3 lie on either side of the clip.
`EngageCycles = ClearCycles = 1` in `mpc_navigation` is not about the debounce; it
keeps the state space for two headings small. In `mpc_adaptive` one failure in a
window of 5 keeps the rate between the two thresholds, and two are above the
upper one; the window of 20 in the code reaches 0.05 exactly, which the strict
comparison of the model treats alike. A grid of 3 x 3 has detours, dead ends,
blocked corners, cells reached twice at different costs, blocked targets and rays
that leave the grid; `near` differs from `low` only in its cost, so one costly kind
is enough there. In `nav_loop` two cells overflow a memory of one, and two goals
are enough for an old and a new one, since a third is another old one; the
proofs cover the rest. In `perception` the two columns are each other's
neighbouring tile, so an obstacle may have floor beside it or none, and the robot
can go out of view of both and of the global grid. In `loco` a call that is not
answered (3 ticks) outlasts watchdog and hold, the limit of 5 is not reached
in one call's time, and a start may outlast the ramp; `DtCap` is beyond any `dt` whose
effect can be told from a longer one. In `amo` the policy asks for poses beyond either limit of the
joint.

`NoHandOffSnaps` is about the shipped shape of the configuration: it needs a release
ramp that is long enough. TLC finds it violated with `ReleaseRamp = 1`, where
the pose still lags its target as the clamp is switched off; it holds with 2 and
more here, and the shipped 1.0 s is 50 iterations. `WalksOnlyWhenSettled` likewise
needs the settling time to outlast release and gain ramp, as it does by far
(`config/amo_g1.yaml`); `SettlingAssumption` says so.

The type invariants of `CmdVelBridge`, `AStarPlanner` and `NavLoop` and
`NeverLeftDriven` of `AmoLoop` are proved for all constants, and no run repeats them;
TLC checked each of them before it was proved.

`planner` and `amo` are checked without deadlock detection: a call of `plan()`
returns, and the process of the gait ends.

*Fairness.* `MpcNode`: weak fairness of the timer callback and of time. Nothing is
assumed of odometry, lidar, A\* or the solver: liveness properties hold however
they behave, or say what they presuppose. `CmdVelBridge`: weak fairness of the
three callbacks (an executor serves what is ready); strong fairness of `Tick`,
since a stream of messages may keep the executor busy again and again but does
not stop the clock; strong fairness of the step on which a write reports a dead
peer, since TCP gives up after finitely many writes. Nothing is assumed of the
helper, the planner or the gait. `LocoBridge`: weak fairness of the timer and of
time; nothing of service, thread or operator. `Perception`: the replan timer and
time; strong fairness of `GoodScan`, that is, of infinitely many clouds of a lidar
that keeps running some get through. `AmoLoop`: the loop goes round and its
`finally` runs; a kill is always possible, and the property says so. `MCGoalDrift`:
everything that can happen is fair, so that its counterexample is no lack of
messages.

### Where code and text disagree

Three runs check what a comment or a document says, and TLC finds it violated:

| Run | Says | Does |
|---|---|---|
| `bridge_crash` | "a crash also stops the robot" (`README.md` 213) | the bridge ends without a zero and the gait holds its last command |
| `goal_drift` | "Any new goal clears a prior arrival and resumes driving" (`mpc_node.py` 504) | the A\* node ignores a goal near its last one whatever the heading, stays silent as arrived, and the MPC node waits outside the new goal's radius for a path |
| `goal_hold` | "a clean, latched stop that holds until a NEW /global_goal is published" (`mpc_node.py` 1140-1141), "latched zero-velocity hold" (`docs/A_STAR_MPC_PLANNER.md` 267-268) | the pose watchdog comes first and leaves STOPPED behind; a robot that is localised again outside the radius drives, with no new goal. `HoldEndsOnlyByGoalOrPoseLoss` is what does hold |

The models have further behaviour of this kind, which no run states. Against a text:

- "abort if no fresh LowState within this window" (`docker/config/amo_g1.yaml` 26): once
  a LowState was received the object refreshes the timer for ever, and the motors stay
  driven on the last measurement (`amo_inference.py` 352-353).
- "publish every scan (even when empty)" (`local_voxel_map_node.py` 248): with nothing
  accumulated the heartbeat reads a key that is not there (244), and the exception ends
  the node.
- "the robot never gets a velocity step change" (`unitree_loco.py` 72-75): it does after
  a start that takes time, after lost calls, and when commands were smoothed for a robot
  that did not walk yet.
- "per-tick (always)", a "hard anti-snap safety rail" (`README.md` 111-113, of the clamp
  of the AMO gait): released after the blend as the configuration ships
  (`release_ramp_s`), so that `EngagedClampHolds` speaks of the time before.
- The loco bridge streams velocity whatever the bring-up came to, although the bring-up
  says it refuses to (`unitree_loco.py` 298).

Without a text of its own:

- A kept cloud never times out while empty scans refresh its stamp (`mpc_node.py`
  582-593); the soft hold replays a command from before a stop (1428-1438); without a
  goal the node drives while it reports STOPPED (1184).
- A bridge started after the helper has quit does not learn of the stop
  (`cmd_vel_to_amo_node.py` 147).
- The bring-up asks for walking from damping when the firmware accepted StandUp and did
  not follow (`unitree_loco.py` 273-282).
- The shortcut takes diagonal steps past blocked corners (`a_star_planner.py` 391).
- One cloud is counted at every replan (`global_planner_node.py` 147), so that
  `BlocksAfterEnoughCounts` bounds counts and not scans.

The hazards in `PROJECT.json` have them at their lines.

## 4. Proofs

All proofs are complete and rest on the named assumptions about the constants
only (`MpcAssumption`, `TrackerAssumption`, `AdaptiveAssumption`,
`BridgeAssumption`, `GridAssumption`, `PlannerAssumption`, `NavLoopAssumption`,
`LocoAssumption`, `PerceptionAssumption`, `AmoAssumption`, and `MapConstants` as a
hypothesis): limits are natural numbers, counters that must be reached are positive,
`None` is no value, the window of outcomes is no longer than the code's 20.

Three assumptions say more, about the configuration: `WorldAssumption` (the obstacles
that are spoken of are taller than what counts as ground, lower than the band's upper
end, and the robot stands on the floor), `DecayAssumption` (counts fade, and the
threshold is two hits or more: 0.997 and 2.0 as shipped) and `SettlingAssumption`
(the smoothing is released, and the gains are full, before the hold is over: 5 + 1 s
and 2 s of 15 s as shipped; `release_s: 0`, which never releases, is excluded).

**MpcNode** (`InductiveInv`). The safety invariants support each other: for
`ArrivalIsCold` one needs that the node only holds where it has a goal, as
`SolvePathLost` and `SolveFull` are excluded by `goal # None`; for the debounce
counters, that an engaged mode has fewer clear solves than it needs; for
`CommandIsFresh`, that a held robot is commanded zero, as holding looks at no
path. One lemma per family of actions, under it one step per way through the
callback. From it: `TypeCorrect`, `Freshness`, `SecurityReporting`, `SoftHold`,
`Arrival`, `WarmStart`, `Ceiling`, and the action property `HoldEnds`.
`FollowerRefinement` maps every way through the callback to a decision of
`PathFollower`, and everything else to a stutter, a path or the passing of time.

`Recovery` is arithmetic on the window: `HealthyIsClean` shows that a failure rate below
5 % of at most 20 outcomes is none at all, which is where the length of the deque
matters, and `OthersKeepCeiling` that no other step raises the ceiling. For the
debounce, `HistoryInv` ties the counters of the code to the history variables of
`MCMpcNode`: each counter is no higher than the run of solves it stands for.
`HistoryStep` shows that the history only watches (`HistoryIsPassive`), so that
`InductiveInv` may be used for the node with its history; `Engagement` and
`Release` follow.

**NavLoop.** The argument is a chain. `GoalInv` bounds, link by link, how long the last
goal can have been known while something of an older one is still there: a route
for another goal is older than that, a message under way was made from such a
route or before the A\* node knew the goal, a path is older by its own age, and the
drive by one period of the timer. At the end of the chain stands the sum of the
three, which is `FollowsCurrentGoal`. `GridInv` is the same chain from the stamp of
an external grid, for `FollowsFreshGrid`. The memory is a component: `MemoryStep`
shows that every step of the loop is a step of `PersistentMap` or none, and its
theorem `MapInvariance` carries over; with it `PathsAvoidMemory` needs only one
look at `Replan`.

**PersistentMap** (`MapInv`). What is kept is newer than what is not, as long as
that is recent, and room is left unused only when nothing recent is missing. Ages
grow alike, so that time preserves the order; the case that needs work is an
update that adds, expires and overflows at once.

**LocoBridge** (`LocoInv`). `HeldIsRecent`: a velocity in force has at most as much
hold left as its command had time to live - the sum of age and hold never exceeds
`CmdTimeout + Hold`, and time moves one from the other. `FilterIsSlow`: up to the
last timer callback the output has moved by the slew limit per tick since the
stop; the time since then (`dt`) is what the next callback may still use. Behind
it is the arithmetic of the smoother (`ShareIsBetween`, `SmoothedFacts`): neither the
ramp nor the low-pass overshoots. `BringUpInOrder`: behind the step that stands
up, the robot stands or walks, or the firmware has ignored that step. This is where it matters that a failed call ends
the thread, and it holds of a running bridge only: the thread of one that is
exiting can follow the damp of `destroy_node` with a start.

**CmdVelBridge** (`BridgeInv`). A live socket means that bridge and gait are up; a
frame under way was admissible when the connect began, and stays so while no
callback runs, except that the command may have aged - then the timer is due.
`Guarded` follows. `GateRefinement` maps every step to a step of `CommandGate` or to
a stutter; the step lemma for `SendJson` carries the argument.

**Perception** (`PerceptionInv`). For `ThreeCounts` the invariant bounds the watched
count by the number of hits it was made of: none, `Scale`, the decayed `Scale` and
another. `DecayFacts` has the arithmetic - rounding down keeps the order and lowers
every positive count - so that two hits stay short of a threshold of two for every
decay below one. `ObstaclesGetThrough` follows an obstacle through the local map:
`ShownIsHeld`, each column a scan shows is in the window afterwards;
`KnownGroundIsPopulated`, the floor beside it makes up a tile that counts, by the
cardinality of an image; `NeighbouringTiles`, that tile is pooled with the one of the
obstacle; `PooledHeights`, the pooled minimum is then the floor.
`NothingElseGetsThrough` is the converse: what the window holds was a floor or an
obstacle, and floor is at most a band above any ground there can be, the foot of the
robot included. The window is read after the scan, so an obstacle that has moved on
is published for as long as it is kept and no longer.

**AmoLoop** (`AmoInv`). `CubicGrows` is the polynomial of the smoothstep: the
difference of two values is the distance times a sum of products that are not
negative. From it, through division, `SmoothstepRises`, `RampRises`, `GainsRise` and
`ReleaseRises`: each ramp stays in its range, never falls, and is whole at its end.
`SmootherStep` has the three layers of one step, for every filter. With
`AxisEases`, the command is zero during the hold and then no more than the ramp makes
of what was asked for, `WalksSettled` only needs the order of the phases. (Of the robot
it says that it was upright when last measured, and no more.)
`ClampHolds` also needs that the motors were last sent what the smoother last gave,
and that a hand-off sends what it was reset to; the limits of the joint bring
nothing further apart (`Limits`). `EndsUndriven` needs that nothing is sent before the
hand-off and that only the `finally` leads out of the loop.

**AStarPlanner** (`PlanInv`). Optimality is stated without quantifying over paths.
`Bound` gives each cell a number: its cost where it was expanded, elsewhere the
cost of the target less the heuristic. `BoundIsFeasible` says that it is zero at
the start and rises along no move by more than the move costs, so that no walk
to a cell can be cheaper than the cell's number; `PathIsTight` says that along
the path it rises by exactly the cost. Together they make the path cheapest - the
bound is a feasible dual solution, the path a primal one of the same value. To
get there, `PlanInv` records that entries of the heap are walks with their true
costs (`IsWalk`), that cells are expanded in the order of their estimates
(`IsMonotone`), and that every move out of an expanded cell was either taken at
no more than its cost or waits in the heap (`Frontier`). `Frontier` with an empty
heap is also why `None` means that there is no way. The arithmetic at the bottom
is `HeuristicIsConsistent`: from the definition of the integer square root,
`StraightBound` and `DiagonalBound` show that a move brings the robot closer by at
most 100, diagonally 142. TLC checked each part of `PlanInv` first.

*Only model-checked.* Liveness (`PoseLossStopsRobot`, `ArrivalIsNoticed`,
`PlannerDeathStopsGait`, `StopReachesGait`, `StopStopsRobot`,
`StandingObstacleBlocks`, `RemovedObstacleFades`, `TroubleEndsDamped`): TLAPS does not
reason about fairness. `NoHandOffSnaps`: it holds of some lengths of blend and release
ramp and not of others, and why it holds of these is the convergence of a filter
over many steps, an induction over data. The safety half of `TroubleEndsDamped` is
`EndsUndriven`, and `ClampHolds` covers the time before the release. The three
disagreements above are counterexamples, and need no proof.

## 5. Not modelled, and the plan

Not modelled: DLIO and the Livox driver (vendored), simulation, containers, launch
files and scripts (no state of their own, or run in place of the robot); the
message translations, though `joy_to_cmdvel_node` repeats its last message for ever
and is listed as a hazard; the numeric optimisation, the network of the gait, soft
costs, per-cell ground segmentation of the local grid (off as shipped), the gravity
frame of the local map and the costmap it can publish. `_solve_cb` computes its
obstacle list, prediction and setpoint without branching on them; they have no
place in a model of this kind.

What would come next:

1. the costmap message of the local map node and `AStarNode`'s external back-end
   as one system, with cells in place of `Readable`;
2. `LocoBridge` as an implementation of a gate like `CommandGate` (it is none of that
   one: a lost call leaves the old velocity in force until the hold ends);
3. the chain from a shown obstacle to the grids: that one which is published blocks the
   local grid at the next plan, as a step property beside the liveness property.
