-------------------------- MODULE WheelKinematics ---------------------------
(***************************************************************************)
(* From a twist to the four steered wheels and back: cmd_vel_1 (node) ->   *)
(* setTargetSpeed (firmware) -> getCurrentSpeed (firmware) -> base_states_1 *)
(* (node).                                                                 *)
(*                                                                         *)
(* Speeds are counted in revolutions per minute, the r_x and r_y of the    *)
(* node in the speed a wheel has when the chassis turns by one unit.  A    *)
(* servo's angle, seen from the middle of its travel (2.0/3.0*M_PI),       *)
(* stands as a direction, a vector of any length, and a tilt: how far the  *)
(* servo has turned on from there.  The firmware sends an angle a as       *)
(* 4.2 - a, which mirrors it, and leaves it tilted, for 4.2 is more than   *)
(* 4.0/3.0*M_PI.  The servo's own unit (0.24 degrees) is left out.  The    *)
(* wheel's speed is the int16_t of the message DDSM115: the fraction of a  *)
(* revolution is cut.                                                      *)
(***************************************************************************)
EXTENDS Integers

CONSTANTS
  r_x, r_y,     \* half the wheel base and half the track
  MaxSpeed,     \* the 330 that a twist is compared with
  Excess,       \* 4.2 - 4.0/3.0*M_PI, in any unit
  Inputs        \* the twists that come on cmd_vel

Twist == [x : Int, y : Int, z : Int]   \* linear.x, linear.y, angular.z

ASSUME KinematicsAssumption ==
  /\ r_x \in Nat
  /\ r_y \in Nat
  /\ MaxSpeed \in Nat
  /\ Excess \in Nat
  /\ Inputs \subseteq Twist

Right == {"rear_right", "front_right"}
Front == {"front_left", "front_right"}
Wheels == {"front_left", "rear_left", "rear_right", "front_right"}

Abs(n) == IF n < 0 THEN -n ELSE n
Opposite(v) == [x |-> -v.x, y |-> -v.y, tilt |-> v.tilt]

(* A twist with a part out of range stands for the zero twist.             *)
Limited(t) ==
  IF Abs(t.x) < MaxSpeed /\ Abs(t.y) < MaxSpeed /\ Abs(t.z) < MaxSpeed
    THEN t ELSE [x |-> 0, y |-> 0, z |-> 0]

(* v1 .. v4: the velocity of a wheel's foot under a twist.                 *)
WheelVelocity(w, t) ==
  [x |-> IF w \in Right THEN t.x + t.z * r_y ELSE t.x - t.z * r_y,
   y |-> IF w \in Front THEN t.y + t.z * r_x ELSE t.y - t.z * r_x,
   tilt |-> 0]

(* The int16_t that a speed |v| becomes.                                   *)
Cut(v) ==
  LET square == v.x * v.x + v.y * v.y
  IN CHOOSE n \in 0 .. Abs(v.x) + Abs(v.y) : n * n <= square /\ square < (n + 1) * (n + 1)

(* Seeded fault: only a quarter turn to the left is beyond.                *)
BeyondLeftOnly(v) == v.y > 0 /\ v.x <= 0

(* angleBetweenVectors > PI / 2 or < -PI / 2.  The PI of mybase.h is below *)
(* pi, so that a quarter turn is beyond it.                                *)
Beyond(v) == v.x < 0 \/ (v.x = 0 /\ v.y # 0)

(* Seeded fault: a reversing chassis is not told from an advancing one.    *)
SignedSpeedOneWay(v, t) ==
  LET speed == IF t.x < 0 THEN -Cut(v) ELSE Cut(v)
  IN IF Beyond(v) THEN -speed ELSE speed

SignedSpeed(v, t) ==
  LET speed == IF t.x < 0 THEN -Cut(v) ELSE Cut(v)
  IN IF t.x >= 0
       THEN IF Beyond(v) THEN -speed ELSE speed
       ELSE IF Beyond(v) THEN speed ELSE -speed

adjustAngle(v) == IF Beyond(v) THEN Opposite(v) ELSE v

WheelCommand(w, t) ==
  LET v == WheelVelocity(w, t)
  IN [speed |-> SignedSpeed(v, t), axis |-> adjustAngle(v)]

-----------------------------------------------------------------------------
(* 4.2 - angle.                                                            *)
Mirror(v) == [x |-> v.x, y |-> -v.y, tilt |-> Excess - v.tilt]

(* setTargetSpeed and, reading raw values, base_states_1: the right wheels *)
(* are mounted the other way round, the servos count from the other side.  *)
Mounted(w, m) ==
  [speed |-> IF w \in Right THEN -m.speed ELSE m.speed, axis |-> Mirror(m.axis)]

(* A wheel's speed along its axis, as a vector.  It is one of integers     *)
(* when nothing was cut.                                                   *)
Whole(m) == m.speed * m.speed = m.axis.x * m.axis.x + m.axis.y * m.axis.y
Along(m) == IF m.speed < 0 THEN Opposite(m.axis) ELSE m.axis

(* The sums of base_states_1 over the wheels' velocities: 4 v_cx, 4 v_cy   *)
(* and 4 r r theta_c, all of them wrong by what their axes are tilted.     *)
Odometry(v) ==
  LET a == v["front_left"]
      b == v["rear_left"]
      c == v["rear_right"]
      d == v["front_right"]
  IN [x |-> a.x + b.x + c.x + d.x,
      y |-> a.y + b.y + c.y + d.y,
      z |-> (r_x * a.y - r_y * a.x) + (-r_x * b.y - r_y * b.x)
              + (-r_x * c.y + r_y * c.x) + (r_x * d.y + r_y * d.x),
      skew |-> a.tilt + b.tilt + c.tilt + d.tilt]

-----------------------------------------------------------------------------
VARIABLES
  base_control,   \* the last message of the topic ...
  wheels,         \* what the motors and servos do: raw speed and axis
  base_states,    \* the last message of the topic: what was read from them
  odometry,       \* 4 v_cx, 4 v_cy, 4 r r theta_c and their skew
  asked, obeyed, reported, traced
                  \* history: the twist each of the four comes from

driveVars == <<base_control, wheels, base_states, odometry, asked, obeyed, reported, traced>>

Zero == [x |-> 0, y |-> 0, z |-> 0]
AtRest == [speed |-> 0, axis |-> [x |-> 0, y |-> 0, tilt |-> 0]]

DriveInit ==
  /\ base_control = [w \in Wheels |-> AtRest]
  /\ wheels = [w \in Wheels |-> Mounted(w, AtRest)]
  /\ base_states = wheels
  /\ odometry = [x |-> 0, y |-> 0, z |-> 0, skew |-> 0]
  /\ asked = Zero /\ obeyed = Zero /\ reported = Zero /\ traced = Zero

cmd_vel_1(t) ==
  /\ base_control' = [w \in Wheels |-> WheelCommand(w, Limited(t))]
  /\ asked' = Limited(t)
  /\ UNCHANGED <<wheels, base_states, odometry, obeyed, reported, traced>>

setTargetSpeed ==
  /\ wheels' = [w \in Wheels |-> Mounted(w, base_control[w])]
  /\ obeyed' = asked
  /\ UNCHANGED <<base_control, base_states, odometry, asked, reported, traced>>

getCurrentSpeed ==
  /\ base_states' = wheels
  /\ reported' = obeyed
  /\ UNCHANGED <<base_control, wheels, odometry, asked, obeyed, traced>>

(* Seeded fault: the raw speeds of the right wheels are taken as they are. *)
base_states_1Raw ==
  /\ odometry' = Odometry([w \in Wheels |->
                   Along([speed |-> base_states[w].speed, axis |-> Mirror(base_states[w].axis)])])
  /\ traced' = reported
  /\ UNCHANGED <<base_control, wheels, base_states, asked, obeyed, reported>>

(* Readings that were cut have no sum in integers: they are left out.      *)
base_states_1 ==
  /\ \A w \in Wheels : Whole(base_states[w])
  /\ odometry' = Odometry([w \in Wheels |-> Along(Mounted(w, base_states[w]))])
  /\ traced' = reported
  /\ UNCHANGED <<base_control, wheels, base_states, asked, obeyed, reported>>

DriveNext ==
  \/ \E t \in Inputs : cmd_vel_1(t)
  \/ setTargetSpeed
  \/ getCurrentSpeed
  \/ base_states_1

DriveSpec == DriveInit /\ [][DriveNext]_driveVars

-----------------------------------------------------------------------------
(* Each wheel is driven the way its foot has to move, at a speed less than *)
(* one revolution per minute below, whichever way its servo was turned and *)
(* whether or not the chassis reverses (kinematics.cpp:28-56).             *)
PullsAsAsked ==
  \A w \in Wheels :
    LET v == WheelVelocity(w, asked)
        m == base_control[w]
        square == v.x * v.x + v.y * v.y
    IN /\ m.speed # 0 => Along(m) = v
       /\ m.speed * m.speed <= square
       /\ square < (Abs(m.speed) + 1) * (Abs(m.speed) + 1)

(* The node asks no servo for more than a quarter turn from the middle of  *)
(* its travel, whichever way its foot has to move, and the mirrored angle  *)
(* that the firmware sends is beyond a quarter turn by no more than Excess *)
(* (0.0112 rad: kinematics.cpp:38-56, ddsm115_c_api.cpp:21-24), on one     *)
(* side only, however often commands and readings go round.                *)
WithinTolerance ==
  \A w \in Wheels :
    /\ base_control[w].axis.x >= 0 /\ base_control[w].axis.tilt = 0
    /\ wheels[w].axis.x >= 0 /\ wheels[w].axis.tilt \in 0 .. Excess

(* The odometry gives back the twist that the wheels were obeying when     *)
(* they were read, with no skew: the signs of node and firmware cancel,    *)
(* and so do the two 4.2, though neither of them is 4/3 pi                 *)
(* (kinematics.cpp:183-209, ddsm115_c_api.cpp:15-25).                      *)
OdometryFollowsTwist ==
  odometry = [x |-> 4 * traced.x, y |-> 4 * traced.y,
              z |-> 4 * (r_x * r_x + r_y * r_y) * traced.z, skew |-> 0]
=============================================================================
