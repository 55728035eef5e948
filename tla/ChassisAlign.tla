---------------------------- MODULE ChassisAlign ----------------------------
(***************************************************************************)
(* The chassis node (aqr_control): BaseNode runs its callbacks one at a    *)
(* time.  A message on align_pose starts an alignment, first sideways      *)
(* (ALIGN_Y) and then forward (ALIGN_X); each stage turns the four servos  *)
(* with the wheels stopped, sleeps for a second, drives, and ends when the *)
(* 20 ms timer finds that the distance it integrated is reached.           *)
(*                                                                         *)
(* One unit of time is one period of the timer; a distance is counted in   *)
(* what Speed travels in it.  Every callback is one action, but for the    *)
(* two that sleep: they are one action up to the sleep and one after it,   *)
(* since the wheels, their readings and the clock go on meanwhile.         *)
(***************************************************************************)
EXTENDS Integers, Sequences

CONSTANTS
  Poses,      \* messages of align_pose, [x |-> , y |-> ]
  Twists,     \* forward speeds that cmd_vel asks for
  Garbage,    \* what the uninitialised doubles of BaseNode may hold
  Speed,      \* 18 rpm, the speed of an alignment
  Settle,     \* the sleep of one second
  MaxGap,     \* d_time > 10: a gap the odometry takes for 0
  Reach,      \* the 0.1 m of the end condition
  Depth,      \* queue depth of the base_states subscription (10)
  MaxTravel   \* bound: the distances the timer integrates to

ASSUME ConstantsAssumption ==
  /\ \A p \in Poses : p.x \in Int /\ p.y \in Int
  /\ Poses # {}
  /\ Twists \subseteq Int
  /\ Garbage \subseteq Int
  /\ Speed \in Nat \ {0}
  /\ Settle \in Nat \ {0}
  /\ MaxGap \in Nat
  /\ Reach \in Nat
  /\ Depth \in Nat \ {0}
  /\ MaxTravel \in Nat

(* What ends a stage soon: the sleep is longer than the queue of readings  *)
(* (50 periods against 10), and within it a wheel at 18 rpm does not get   *)
(* as far as the end condition (0.097 m against 0.1 m).                    *)
ASSUME SleepAssumption ==
  /\ Depth < Settle
  /\ Speed * Settle < Reach

VARIABLES
  currentState,  \* ChassisState; "OTHER": a value that is none of the four
  pose,          \* pose2D_msg
  d_x, d_y,      \* distance integrated in the stage
  average,       \* mean wheel speed of the last reading taken while aligning
  since,         \* c_time - l_time, MaxGap + 1 stands for all that is longer
  pc,            \* "spin", or asleep: "pose" in pose_callback, "timer" in timer_callback
  left,          \* what is left of the sleep
  due,           \* the timer is ready
  command,       \* last message on base_control
  wheel,         \* the wheels' speed
  readings,      \* messages of base_states not taken yet
  announced,     \* last message on aqr_state
  calm           \* history: the uninitialised average was small, no reading
                 \* was lost, every pose came 10 s after an alignment

nodeState == <<currentState, pose, d_x, d_y, average>>
vars == <<currentState, pose, d_x, d_y, average, since, pc, left, due, command,
          wheel, readings, announced, calm>>

ChassisState == {"NORMAL", "ALIGN", "ALIGN_Y", "ALIGN_X"}

Sign(n) == IF n > 0 THEN 1 ELSE IF n < 0 THEN -1 ELSE 0

fabs(n) == IF n < 0 THEN -n ELSE n

Stopped(turned) == [servo |-> turned, speed |-> 0]

(* currentState, average, d_x and d_y have no initialiser.                 *)
Init ==
  /\ currentState \in ChassisState \cup {"OTHER"}
  /\ pose = [x |-> 0, y |-> 0]
  /\ d_x \in Garbage
  /\ d_y \in Garbage
  /\ average \in Garbage
  /\ since = MaxGap + 1
  /\ pc = "spin"
  /\ left = 0
  /\ due = FALSE
  /\ command = Stopped("drive")
  /\ wheel = 0
  /\ readings = <<>>
  /\ announced = "none"
  /\ calm = (fabs(average) <= Speed)

-----------------------------------------------------------------------------
(* Only NORMAL obeys a twist.                                              *)
cmd_vel_callback(v) ==
  /\ pc = "spin"
  /\ command' = IF currentState = "NORMAL" THEN [servo |-> "drive", speed |-> v] ELSE command
  /\ UNCHANGED <<nodeState, since, pc, left, due, wheel, readings, announced, calm>>

(* NORMAL takes the reading for vc, the two stages for average.            *)
base_states_callback ==
  /\ pc = "spin"
  /\ readings # <<>>
  /\ readings' = Tail(readings)
  /\ average' = IF currentState \in {"ALIGN_Y", "ALIGN_X"} THEN Head(readings) ELSE average
  /\ UNCHANGED <<currentState, pose, d_x, d_y, since, pc, left, due, command, wheel, announced, calm>>

(* Seeded fault: the second pose of a pair finds the wheels still driving. *)
pose_callbackKeepsDriving(p) ==
  /\ pc = "spin"
  /\ announced' = "3"
  /\ calm' = (calm /\ announced # "3" /\ since > MaxGap)
  /\ currentState' = "ALIGN"
  /\ pose' = p
  /\ command' = IF currentState = "ALIGN_Y" THEN command ELSE Stopped("y")
  /\ pc' = "pose"
  /\ left' = Settle
  /\ UNCHANGED <<d_x, d_y, average, since, due, wheel, readings>>

(* pose_callback up to its sleep.                                          *)
pose_callback(p) ==
  /\ pc = "spin"
  /\ announced' = "3"
  /\ calm' = (calm /\ announced # "3" /\ since > MaxGap)
  /\ currentState' = "ALIGN"
  /\ pose' = p
  /\ command' = Stopped("y")
  /\ pc' = "pose"
  /\ left' = Settle
  /\ UNCHANGED <<d_x, d_y, average, since, due, wheel, readings>>

(* ... and after it.                                                       *)
StartAlignY ==
  /\ pc = "pose"
  /\ left = 0
  /\ d_y' = 0
  /\ currentState' = "ALIGN_Y"
  /\ command' = [command EXCEPT !.speed = Sign(pose.y) * Speed]
  /\ pc' = "spin"
  /\ UNCHANGED <<pose, d_x, average, since, left, due, wheel, readings, announced, calm>>

-----------------------------------------------------------------------------
(* Seeded fault: a long gap counts in full.                                *)
d_timeUncut == since

(* time_1 and time_2: the time since the last tick of an alignment.        *)
d_time == IF since > MaxGap THEN 0 ELSE since

(* Seeded fault: no stop between the two stages.                           *)
EndAlignYDriving ==
  /\ d_y' = d_y + average * d_time
  /\ fabs(d_y') <= MaxTravel
  /\ IF fabs(d_y') - fabs(pose.y) < Reach
       THEN command' = [command EXCEPT !.servo = "x"] /\ pc' = "timer" /\ left' = Settle
       ELSE UNCHANGED <<command, pc, left>>
  /\ UNCHANGED <<currentState, d_x, announced>>

(* case ALIGN_Y of timer_callback, up to the sleep between the stages.     *)
TickAlignY ==
  /\ d_y' = d_y + average * d_time
  /\ fabs(d_y') <= MaxTravel
  /\ IF fabs(d_y') - fabs(pose.y) < Reach
       THEN command' = Stopped("x") /\ pc' = "timer" /\ left' = Settle
       ELSE UNCHANGED <<command, pc, left>>
  /\ UNCHANGED <<currentState, d_x, announced>>

(* Seeded fault: the end of an alignment leaves the state.                 *)
TickAlignXStays ==
  /\ d_x' = d_x + average * d_time
  /\ fabs(d_x') <= MaxTravel
  /\ IF fabs(d_x') - fabs(pose.x) < Reach
       THEN command' = Stopped("x") /\ announced' = "1"
       ELSE UNCHANGED <<command, announced>>
  /\ UNCHANGED <<currentState, d_y, pc, left>>

(* case ALIGN_X.                                                           *)
TickAlignX ==
  /\ d_x' = d_x + average * d_time
  /\ fabs(d_x') <= MaxTravel
  /\ IF fabs(d_x') - fabs(pose.x) < Reach
       THEN command' = Stopped("x") /\ currentState' = "NORMAL" /\ announced' = "1"
       ELSE UNCHANGED <<command, currentState, announced>>
  /\ UNCHANGED <<d_y, pc, left>>

timer_callback ==
  /\ pc = "spin"
  /\ due
  /\ due' = FALSE
  /\ IF currentState \in {"ALIGN_Y", "ALIGN_X"}
       THEN since' = 0 /\ IF currentState = "ALIGN_Y" THEN TickAlignY ELSE TickAlignX
       ELSE UNCHANGED <<since, currentState, d_x, d_y, command, pc, left, announced>>
  /\ UNCHANGED <<pose, average, wheel, readings, calm>>

(* timer_callback after its sleep.                                         *)
StartAlignX ==
  /\ pc = "timer"
  /\ left = 0
  /\ d_x' = 0
  /\ currentState' = "ALIGN_X"
  /\ command' = [command EXCEPT !.speed = Sign(pose.x) * Speed]
  /\ pc' = "spin"
  /\ UNCHANGED <<pose, d_y, average, since, left, due, wheel, readings, announced, calm>>

-----------------------------------------------------------------------------
(* The newest Depth messages are kept.                                     *)
Queued(q, m) ==
  LET all == Append(q, m) IN IF Len(all) > Depth THEN Tail(all) ELSE all

(* A period of the timer passes: the base reports its wheels and obeys the *)
(* last command.  A ready timer is served before time passes, unless its   *)
(* thread sleeps.                                                          *)
Elapse ==
  /\ IF pc = "spin" THEN ~due /\ left' = left ELSE left > 0 /\ left' = left - 1
  /\ since' = IF since > MaxGap THEN since ELSE since + 1
  /\ due' = TRUE
  /\ wheel' = command.speed
  /\ \/ readings' = Queued(readings, wheel) /\ calm' = calm
     \/ readings' = readings /\ calm' = FALSE     \* the message is lost
  /\ UNCHANGED <<nodeState, pc, command, announced>>

Callback ==
  \/ \E v \in Twists : cmd_vel_callback(v)
  \/ base_states_callback
  \/ \E p \in Poses : pose_callback(p)
  \/ timer_callback

Wake == StartAlignY \/ StartAlignX

Next == Callback \/ Wake \/ Elapse

Spec == Init /\ [][Next]_vars

(* rclcpp::spin serves a ready timer first; a sleep ends; time passes.     *)
Fairness == WF_vars(timer_callback) /\ WF_vars(Wake) /\ WF_vars(Elapse)

FairSpec == Spec /\ Fairness

-----------------------------------------------------------------------------
(* Types; the queue of readings never exceeds its depth.                   *)
TypeOK ==
  /\ currentState \in ChassisState \cup {"OTHER"}
  /\ pose.x \in Int /\ pose.y \in Int
  /\ d_x \in Int
  /\ d_y \in Int
  /\ average \in Int
  /\ since \in 0 .. MaxGap + 1
  /\ pc \in {"spin", "pose", "timer"}
  /\ left \in 0 .. Settle
  /\ due \in BOOLEAN
  /\ command \in [servo : {"drive", "x", "y"}, speed : Int]
  /\ wheel \in Int
  /\ readings \in Seq(Int) /\ Len(readings) <= Depth
  /\ announced \in {"none", "1", "3"}
  /\ calm \in BOOLEAN

(* What the base was last told is what the stage is about, whatever twists *)
(* and poses came in between (aqr_control.cpp:48-143): stopped while the   *)
(* node sleeps, towards the pose in each stage, stopped after an alignment *)
(* until a twist is obeyed.                                                *)
CommandMatchesStage ==
  announced # "none" =>
    /\ pc = "pose" => command = Stopped("y")
    /\ pc = "timer" => command = Stopped("x")
    /\ pc = "spin" /\ currentState = "ALIGN_Y"
         => command = [servo |-> "y", speed |-> Sign(pose.y) * Speed]
    /\ pc = "spin" /\ currentState = "ALIGN_X"
         => command = [servo |-> "x", speed |-> Sign(pose.x) * Speed]
    /\ currentState = "NORMAL" => command.servo = "drive" \/ command = Stopped("x")

(* In an alignment the wheels never start in a direction their servos were *)
(* not sent to beforehand, with the wheels stopped (the 1 s sleeps).       *)
SteerBeforeDrive ==
  [][command' # command /\ command'.servo # "drive" /\ command'.speed # 0
       => command = Stopped(command'.servo)]_vars

(* An alignment that was announced ends: announced 1 follows announced 3   *)
(* (aqr_control.cpp:48-112).  A pose less than 10 s after an alignment, a  *)
(* lost reading or a large uninitialised average may prevent it.           *)
AlignmentEnds == announced = "3" /\ calm ~> announced = "1" \/ ~calm

(* Wheels and listeners see what Alignment says (aqr_control.cpp:3-143).   *)
stage ==
  CASE pc = "pose"  -> "turn y"
    [] pc = "timer" -> "turn x"
    [] pc = "spin"  -> CASE currentState = "NORMAL"  -> "free"
                         [] currentState = "ALIGN_Y" -> "drive y"
                         [] currentState = "ALIGN_X" -> "drive x"
                         [] OTHER                    -> "deaf"

Promise == INSTANCE Alignment
AlignsInStages == Promise!Spec
=============================================================================
