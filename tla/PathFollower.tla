---------------------------- MODULE PathFollower ----------------------------
(***************************************************************************)
(* What the MPC node promises to the planners in front of it, without its  *)
(* states, solver and watchdogs: it drives along the last path it was      *)
(* given, for as long as that path is recent; or it does something of its  *)
(* own (a held command, an escape, a yaw correction), also only while the  *)
(* path is recent; or it does not drive.                                   *)
(***************************************************************************)
EXTENDS Integers

CONSTANTS
    Paths,    \* what a path can be
    Nothing,  \* no path, or no drive
    Other,    \* a drive that is not a solution along the last path
    Timeout,  \* a path older than this is not driven
    Period    \* ticks between two decisions

VARIABLES
    path,  \* the last path received
    age,   \* ticks since then
    timer, \* ticks since the last decision
    drive  \* what the command in force does: a path, Other or Nothing

follower_vars == <<path, age, timer, drive>>

AgeCap == Timeout + Period + 1
Smaller(a, b) == IF a < b THEN a ELSE b

FollowerTypeOK ==
    /\ path \in Paths \cup {Nothing}
    /\ age \in 0..AgeCap /\ timer \in 0..Period
    /\ drive \in Paths \cup {Nothing, Other}

FollowerInit == path = Nothing /\ age = AgeCap /\ timer = 0 /\ drive = Nothing

\* A path arrives, or an empty one.
Receive(p) == path' = p /\ age' = 0 /\ UNCHANGED <<timer, drive>>

Fresh == path # Nothing /\ age <= Timeout

\* The next command is decided on, once in a period.
Decide ==
    /\ timer = Period /\ timer' = 0
    /\ drive' \in {Nothing} \cup IF Fresh THEN {path, Other} ELSE {}
    /\ UNCHANGED <<path, age>>

\* Time passes, the decision that is due comes first.
Pass ==
    /\ timer < Period /\ timer' = timer + 1
    /\ age' = Smaller(age + 1, AgeCap)
    /\ UNCHANGED <<path, drive>>

FollowerNext ==
    \/ \E p \in Paths \cup {Nothing} : Receive(p)
    \/ Decide
    \/ Pass

FollowerSpec == FollowerInit /\ [][FollowerNext]_follower_vars

\* What follows from the promise: a drive outlives its path by a period at most.
DriveIsRecent == drive # Nothing => age <= Timeout + timer
=============================================================================
