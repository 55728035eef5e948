---------------------------- MODULE ChassisProofs ----------------------------
(***************************************************************************)
(* Proofs about the two halves of the chassis node: WheelKinematics, for   *)
(* every chassis and every twist, and ChassisAlign, for all poses, speeds, *)
(* sleeps and depths.                                                      *)
(***************************************************************************)
EXTENDS WheelKinematics, ChassisAlign, SequenceTheorems, NaturalsInduction,
        WellFoundedInduction, TLAPS

-----------------------------------------------------------------------------
(* The wheels.                                                             *)
Vector == [x : Int, y : Int, tilt : Int]
Message == [speed : Int, axis : Vector]

(* A message that drives wheel w as twist t asks.                          *)
Drives(w, m, t) ==
  LET v == WheelVelocity(w, t)
  IN /\ m \in Message
     /\ m.axis.x >= 0 /\ m.axis.tilt = 0
     /\ m.axis \in {v, Opposite(v)}
     /\ m.speed > 0 => m.axis = v
     /\ m.speed < 0 => m.axis = Opposite(v)
     /\ m.speed * m.speed <= v.x * v.x + v.y * v.y
     /\ v.x * v.x + v.y * v.y < (Abs(m.speed) + 1) * (Abs(m.speed) + 1)

(* The inductive invariant: each of the three messages drives the wheels   *)
(* as the twist it comes from asks.                                        *)
KinematicsInv ==
  /\ asked \in Twist /\ obeyed \in Twist /\ reported \in Twist /\ traced \in Twist
  /\ \A w \in Wheels : Drives(w, base_control[w], asked)
  /\ \A w \in Wheels : wheels[w] \in Message /\ Drives(w, Mounted(w, wheels[w]), obeyed)
  /\ \A w \in Wheels : base_states[w] \in Message /\ Drives(w, Mounted(w, base_states[w]), reported)
  /\ OdometryFollowsTwist

-----------------------------------------------------------------------------
(* A set of naturals has a least element.                                  *)
LEMMA LeastNatural ==
  ASSUME NEW S, S \subseteq Nat, S # {}
  PROVE  \E n \in S : \A m \in S : n <= m
<1> DEFINE R == {ss \in Nat \X Nat : ss[1] < ss[2]}
<1>1. IsWellFoundedOn(R, Nat)
  BY NatLessThanWellFounded DEF OpToRel
<1>2. PICK x \in S : \A y \in S : ~(<<y, x>> \in R)
  <2> HIDE DEF R
  <2> QED BY <1>1, WFMin
<1>3. ASSUME NEW y \in S PROVE x <= y
  <2>1. x \in Nat /\ y \in Nat
    OBVIOUS
  <2>2. ~(y < x)
    BY <1>2, <2>1
  <2> QED BY <2>1, <2>2
<1> QED
  BY <1>3

(* Every natural number has a square root, rounded down.                   *)
LEMMA SquareRoot ==
  ASSUME NEW k \in Nat
  PROVE  \E n \in 0 .. k : n * n <= k /\ k < (n + 1) * (n + 1)
<1> DEFINE S == {n \in Nat : k < (n + 1) * (n + 1)}
<1>1. k < (k + 1) * (k + 1)
  BY SMT
<1>2. PICK n \in S : \A m \in S : n <= m
  <2>1. S \subseteq Nat /\ k \in S
    BY <1>1
  <2>2. S # {}
    BY <2>1
  <2> HIDE DEF S
  <2> QED BY <2>1, <2>2, LeastNatural
<1>3. n * n <= k
  <2>1. CASE n = 0
    BY <2>1
  <2>2. CASE n # 0
    <3>1. n - 1 \in Nat /\ n - 1 \notin S
      BY <1>2, <2>2
    <3>2. ~(k < ((n - 1) + 1) * ((n - 1) + 1))
      BY <3>1
    <3>3. n \in Nat /\ (n - 1) + 1 = n
      BY <1>2
    <3>4. ~(k < n * n)
      BY <3>2, <3>3, Zenon
    <3>5. n * n \in Nat
      BY <3>3
    <3> HIDE DEF S
    <3> QED BY <3>4, <3>5
  <2> QED BY <2>1, <2>2
<1>4. n \in Nat /\ n <= k
  <2>1. n \in Nat
    BY <1>2
  <2>2. CASE n = 0
    BY <2>2
  <2>3. CASE n >= 1
    <3>1. n <= n * n
      BY <2>1, <2>3
    <3>2. n * n \in Nat
      BY <2>1
    <3> HIDE DEF S
    <3> QED BY <3>1, <3>2, <1>3, <2>1
  <2> QED BY <2>1, <2>2, <2>3
<1> QED
  BY <1>2, <1>3, <1>4

LEMMA CutType ==
  ASSUME NEW v \in Vector
  PROVE  /\ Cut(v) \in Nat
         /\ Cut(v) * Cut(v) <= v.x * v.x + v.y * v.y
         /\ v.x * v.x + v.y * v.y < (Cut(v) + 1) * (Cut(v) + 1)
<1> DEFINE k == v.x * v.x + v.y * v.y
           a == Abs(v.x)
           b == Abs(v.y)
<1>1. v.x \in Int /\ v.y \in Int
  BY DEF Vector
<1>2. a \in Nat /\ b \in Nat /\ v.x * v.x = a * a /\ v.y * v.y = b * b
  BY <1>1 DEF Abs
<1>3. k \in Nat
  BY <1>1, <1>2
<1>4. PICK n \in 0 .. k : n * n <= k /\ k < (n + 1) * (n + 1)
  <2> HIDE DEF k
  <2> QED BY <1>3, SquareRoot
<1>5. n \in Nat /\ n * n <= k
  BY <1>3, <1>4
<1>6. n <= a + b
  <2>1. k = a * a + b * b
    BY <1>2
  <2>2. k <= (a + b) * (a + b)
    <3> HIDE DEF a, b, k
    <3>1. (a + b) * (a + b) = a * a + b * b + 2 * (a * b)
      BY <1>2
    <3>2. a * b \in Nat /\ a * a \in Nat /\ b * b \in Nat
      BY <1>2
    <3> QED BY <2>1, <3>1, <3>2
  <2>3. ASSUME n > a + b PROVE FALSE
    <3> HIDE DEF a, b, k
    <3>1. n * n > (a + b) * (a + b)
      BY <2>3, <1>2, <1>5
    <3>2. n * n \in Nat /\ (a + b) * (a + b) \in Nat
      BY <1>2, <1>5
    <3> QED BY <3>1, <3>2, <2>2, <1>5, <1>3
  <2> HIDE DEF a, b, k
  <2> QED BY <2>3, <1>2, <1>5
<1>7. n \in 0 .. a + b
  <2> HIDE DEF a, b, k
  <2> QED BY <1>2, <1>5, <1>6
<1>8. Cut(v) = CHOOSE m \in 0 .. a + b : m * m <= k /\ k < (m + 1) * (m + 1)
  BY DEF Cut
<1>9. Cut(v) \in 0 .. a + b /\ Cut(v) * Cut(v) <= k /\ k < (Cut(v) + 1) * (Cut(v) + 1)
  <2> HIDE DEF a, b, k
  <2> QED BY <1>4, <1>7, <1>8
<1> QED
  BY <1>2, <1>9

-----------------------------------------------------------------------------
LEMMA VelocityType ==
  ASSUME NEW t \in Twist, NEW w \in Wheels
  PROVE  WheelVelocity(w, t) \in Vector
<1>1. t.x \in Int /\ t.y \in Int /\ t.z \in Int /\ r_x \in Int /\ r_y \in Int
  BY KinematicsAssumption DEF Twist
<1>2. t.z * r_x \in Int /\ t.z * r_y \in Int
  BY <1>1
<1> QED
  BY <1>1, <1>2 DEF WheelVelocity, Vector

LEMMA OppositeTwice ==
  ASSUME NEW v \in Vector
  PROVE  /\ Opposite(v) \in Vector
         /\ Opposite(Opposite(v)) = v
BY DEF Vector, Opposite

LEMMA MountedTwice ==
  ASSUME NEW m \in Message, NEW w \in Wheels
  PROVE  /\ Mounted(w, m) \in Message
         /\ Mounted(w, Mounted(w, m)) = m
         /\ Mounted(w, m).axis.x = m.axis.x
         /\ Mounted(w, m).axis.tilt = Excess - m.axis.tilt
BY KinematicsAssumption DEF Message, Vector, Mounted, Mirror

(* The node's command drives each wheel as the twist asks, for the two     *)
(* ways a chassis moves and the two ways a servo turns.                    *)
LEMMA CommandDrives ==
  ASSUME NEW t \in Twist, NEW w \in Wheels
  PROVE  Drives(w, WheelCommand(w, t), t)
<1> DEFINE v == WheelVelocity(w, t)
           n == Cut(v)
           m == WheelCommand(w, t)
<1>1. v \in Vector
  BY VelocityType
<1>2. n \in Nat /\ n * n <= v.x * v.x + v.y * v.y /\ v.x * v.x + v.y * v.y < (n + 1) * (n + 1)
  BY <1>1, CutType
<1>3. v.x \in Int /\ v.y \in Int /\ t.x \in Int
  BY <1>1 DEF Vector, Twist
<1>4. m.speed = IF Beyond(v) THEN -n ELSE n
  BY <1>2, <1>3 DEF WheelCommand, SignedSpeed
<1>5. m.axis = IF Beyond(v) THEN Opposite(v) ELSE v
  BY DEF WheelCommand, adjustAngle
<1>6. m = [speed |-> m.speed, axis |-> m.axis]
  BY DEF WheelCommand
<1> HIDE DEF m, n, v
<1>7. m.speed \in Int /\ m.speed * m.speed = n * n /\ Abs(m.speed) = n
  BY <1>2, <1>4 DEF Abs
<1>8. m.axis \in Vector /\ m.axis.x >= 0 /\ m.axis.tilt = 0
  <2>1. v.tilt = 0
    BY DEF WheelVelocity, v
  <2> QED
    BY <1>1, <1>3, <1>5, <2>1 DEF Beyond, Opposite, Vector
<1>9. m \in Message
  BY <1>6, <1>7, <1>8 DEF Message
<1>10. /\ m.axis \in {v, Opposite(v)}
       /\ m.speed > 0 => m.axis = v
       /\ m.speed < 0 => m.axis = Opposite(v)
  BY <1>2, <1>4, <1>5
<1>11. /\ m.speed * m.speed <= v.x * v.x + v.y * v.y
       /\ v.x * v.x + v.y * v.y < (Abs(m.speed) + 1) * (Abs(m.speed) + 1)
  BY <1>2, <1>7
<1> QED
  BY <1>8, <1>9, <1>10, <1>11 DEF Drives, m, v

LEMMA SquareZero ==
  ASSUME NEW n \in Int, n * n = 0
  PROVE  n = 0
<1>1. CASE n > 0
  <2>1. n * n > 0
    BY <1>1
  <2> QED BY <2>1
<1>2. CASE n < 0
  <2>1. n * n > 0
    BY <1>2
  <2> QED BY <2>1
<1> QED
  BY <1>1, <1>2

(* What was not cut is read back as the velocity of the wheel's foot.      *)
LEMMA WholeIsVelocity ==
  ASSUME NEW t \in Twist, NEW w \in Wheels, NEW m, Drives(w, m, t), Whole(m)
  PROVE  Along(m) = WheelVelocity(w, t)
<1> DEFINE v == WheelVelocity(w, t)
<1>1. v \in Vector /\ m \in Message
  BY VelocityType DEF Drives
<1>2. m.speed \in Int /\ m.axis \in Vector /\ m.axis.x \in Int /\ m.axis.y \in Int
  BY <1>1 DEF Message, Vector
<1>3. CASE m.speed > 0
  BY <1>2, <1>3 DEF Drives, Along
<1>4. CASE m.speed < 0
  BY <1>1, <1>2, <1>4, OppositeTwice DEF Drives, Along
<1>5. CASE m.speed = 0
  <2>1. m.axis.x * m.axis.x + m.axis.y * m.axis.y = 0
    BY <1>2, <1>5 DEF Whole
  <2>2. m.axis.x * m.axis.x >= 0 /\ m.axis.y * m.axis.y >= 0
    BY <1>2
  <2>3. m.axis.x * m.axis.x = 0 /\ m.axis.y * m.axis.y = 0
    BY <1>2, <2>1, <2>2
  <2>4. m.axis.x = 0 /\ m.axis.y = 0
    BY <1>2, <2>3, SquareZero
  <2>5. Opposite(m.axis) = m.axis
    BY <1>2, <2>4 DEF Opposite, Vector
  <2>6. m.axis = v \/ m.axis = Opposite(v)
    BY DEF Drives
  <2> QED
    BY <1>1, <1>5, <2>5, <2>6, OppositeTwice DEF Along
<1> QED
  BY <1>2, <1>3, <1>4, <1>5

(* The sums of base_states_1 undo those of cmd_vel_1.                      *)
LEMMA OdometryOfTwist ==
  ASSUME NEW t \in Twist
  PROVE  Odometry([w \in Wheels |-> WheelVelocity(w, t)])
           = [x |-> 4 * t.x, y |-> 4 * t.y, z |-> 4 * (r_x * r_x + r_y * r_y) * t.z,
              skew |-> 0]
<1>1. t.x \in Int /\ t.y \in Int /\ t.z \in Int /\ r_x \in Int /\ r_y \in Int
  BY KinematicsAssumption DEF Twist
<1> QED
  BY <1>1 DEF Odometry, Wheels, WheelVelocity, Right, Front

-----------------------------------------------------------------------------
LEMMA KinematicsInit == DriveInit => KinematicsInv
<1> SUFFICES ASSUME DriveInit PROVE KinematicsInv
  OBVIOUS
<1>1. Zero \in Twist
  BY DEF Zero, Twist
<1> DEFINE m == AtRest
           o == [x |-> 0, y |-> 0, tilt |-> 0]
<1>2. m \in Message
  BY DEF Message, Vector, AtRest
<1>3. ASSUME NEW w \in Wheels
      PROVE  Drives(w, m, Zero) /\ Mounted(w, m) \in Message /\ Mounted(w, Mounted(w, m)) = m
  <2>1. WheelVelocity(w, Zero) = o
    BY KinematicsAssumption DEF WheelVelocity, Zero
  <2>2. Opposite(o) = o
    BY DEF Opposite
  <2>3. m.speed = 0 /\ m.axis = o /\ Abs(0) = 0
    BY DEF Abs, AtRest
  <2>4. Drives(w, m, Zero)
    <3>1. o.x = 0 /\ o.y = 0 /\ o.tilt = 0
      OBVIOUS
    <3> HIDE DEF m, o
    <3> QED BY <1>2, <2>1, <2>2, <2>3, <3>1 DEF Drives
  <2>5. Mounted(w, m) \in Message /\ Mounted(w, Mounted(w, m)) = m
    <3> HIDE DEF m
    <3> QED BY <1>2, MountedTwice
  <2> QED BY <2>4, <2>5
<1> HIDE DEF o
<1>4. \A w \in Wheels : /\ base_control[w] = m
                         /\ wheels[w] = Mounted(w, m) /\ base_states[w] = Mounted(w, m)
  BY DEF DriveInit
<1>5. OdometryFollowsTwist
  BY KinematicsAssumption DEF DriveInit, Zero, OdometryFollowsTwist
<1> HIDE DEF m
<1> QED
  BY <1>1, <1>2, <1>3, <1>4, <1>5 DEF DriveInit, KinematicsInv

LEMMA KinematicsStep == KinematicsInv /\ [DriveNext]_driveVars => KinematicsInv'
<1> SUFFICES ASSUME KinematicsInv, [DriveNext]_driveVars PROVE KinematicsInv'
  OBVIOUS
<1>1. ASSUME NEW t \in Inputs, cmd_vel_1(t) PROVE KinematicsInv'
  <2>1. Limited(t) \in Twist
    BY KinematicsAssumption DEF Limited, Twist
  <2>2. \A w \in Wheels : base_control'[w] = WheelCommand(w, Limited(t))
    BY <1>1 DEF cmd_vel_1
  <2>3. \A w \in Wheels : Drives(w, base_control'[w], asked')
    BY <1>1, <2>1, <2>2, CommandDrives DEF cmd_vel_1
  <2> QED
    BY <1>1, <2>1, <2>3 DEF cmd_vel_1, KinematicsInv, OdometryFollowsTwist
<1>2. CASE setTargetSpeed
  <2>1. ASSUME NEW w \in Wheels
        PROVE  wheels'[w] \in Message /\ Mounted(w, wheels'[w]) = base_control[w]
    <3>1. base_control[w] \in Message
      BY DEF KinematicsInv, Drives
    <3>2. wheels'[w] = Mounted(w, base_control[w])
      BY <1>2 DEF setTargetSpeed
    <3> QED BY <3>1, <3>2, MountedTwice
  <2> QED
    BY <1>2, <2>1 DEF setTargetSpeed, KinematicsInv, OdometryFollowsTwist
<1>3. CASE getCurrentSpeed
  BY <1>3 DEF getCurrentSpeed, KinematicsInv, OdometryFollowsTwist
<1>4. CASE base_states_1
  <2> DEFINE m(w) == Mounted(w, base_states[w])
  <2>1. ASSUME NEW w \in Wheels PROVE Along(m(w)) = WheelVelocity(w, reported)
    <3>1. base_states[w] \in Message /\ Drives(w, m(w), reported) /\ reported \in Twist
      BY DEF KinematicsInv
    <3>2. Whole(base_states[w])
      BY <1>4 DEF base_states_1
    <3>3. Whole(m(w))
      BY <3>1, <3>2 DEF Whole, Mounted, Mirror, Message, Vector
    <3> HIDE DEF m
    <3> QED BY <3>1, <3>3, WholeIsVelocity
  <2>2. [w \in Wheels |-> Along(m(w))] = [w \in Wheels |-> WheelVelocity(w, reported)]
    <3> HIDE DEF m
    <3> QED BY <2>1
  <2>3. odometry' = Odometry([w \in Wheels |-> WheelVelocity(w, reported)])
    BY <1>4, <2>2 DEF base_states_1
  <2>4. OdometryFollowsTwist'
    BY <1>4, <2>3, OdometryOfTwist DEF base_states_1, OdometryFollowsTwist, KinematicsInv
  <2> QED
    BY <1>4, <2>4 DEF base_states_1, KinematicsInv
<1>5. CASE UNCHANGED driveVars
  BY <1>5 DEF driveVars, KinematicsInv, OdometryFollowsTwist
<1> QED
  BY <1>1, <1>2, <1>3, <1>4, <1>5 DEF DriveNext

LEMMA KinematicsInvariant == DriveSpec => []KinematicsInv
BY KinematicsInit, KinematicsStep, PTL DEF DriveSpec

(* For every chassis and every twist, the odometry is the twist that the   *)
(* wheels obeyed, when no speed was cut (kinematics.cpp:183-209).          *)
THEOREM OdometryIsTwist == DriveSpec => []OdometryFollowsTwist
<1>1. KinematicsInv => OdometryFollowsTwist
  BY DEF KinematicsInv
<1> QED
  BY <1>1, KinematicsInvariant, PTL

(* For every chassis and every twist, each wheel pulls the way its foot    *)
(* moves, at the speed asked for less what is cut (kinematics.cpp:28-56).  *)
THEOREM WheelsPullAsAsked == DriveSpec => []PullsAsAsked
<1>1. KinematicsInv => PullsAsAsked
  <2> SUFFICES ASSUME KinematicsInv, NEW w \in Wheels
               PROVE  LET v == WheelVelocity(w, asked)
                          m == base_control[w]
                          square == v.x * v.x + v.y * v.y
                      IN /\ m.speed # 0 => Along(m) = v
                         /\ m.speed * m.speed <= square
                         /\ square < (Abs(m.speed) + 1) * (Abs(m.speed) + 1)
    BY DEF PullsAsAsked
  <2>1. asked \in Twist /\ Drives(w, base_control[w], asked)
    BY DEF KinematicsInv
  <2>2. base_control[w] \in Message /\ WheelVelocity(w, asked) \in Vector
    BY <2>1, VelocityType DEF Drives
  <2>3. base_control[w].speed \in Int
    BY <2>2 DEF Message
  <2>4. base_control[w].speed # 0 => Along(base_control[w]) = WheelVelocity(w, asked)
    BY <2>1, <2>2, <2>3, OppositeTwice DEF Drives, Along
  <2> QED
    BY <2>1, <2>4 DEF Drives
<1> QED
  BY <1>1, KinematicsInvariant, PTL

(* No servo is asked for more than a quarter turn, nor sent further beyond *)
(* one than 4.2 exceeds 4/3 pi, for every chassis, twist and size of that  *)
(* excess (kinematics.cpp:38-56, ddsm115_c_api.cpp:21-24).                 *)
THEOREM ServosWithinTolerance == DriveSpec => []WithinTolerance
<1>1. KinematicsInv => WithinTolerance
  <2> SUFFICES ASSUME KinematicsInv, NEW w \in Wheels
               PROVE  /\ base_control[w].axis.x >= 0 /\ base_control[w].axis.tilt = 0
                      /\ wheels[w].axis.x >= 0 /\ wheels[w].axis.tilt \in 0 .. Excess
    BY DEF WithinTolerance
  <2>1. base_control[w].axis.x >= 0 /\ base_control[w].axis.tilt = 0
    BY DEF KinematicsInv, Drives
  <2>2. /\ wheels[w] \in Message
        /\ Mounted(w, wheels[w]).axis.x >= 0 /\ Mounted(w, wheels[w]).axis.tilt = 0
    BY DEF KinematicsInv, Drives
  <2>3. wheels[w].axis.tilt \in Int /\ Excess - wheels[w].axis.tilt = 0
    BY <2>2, MountedTwice DEF Message, Vector
  <2>4. wheels[w].axis.tilt = Excess
    BY <2>3, KinematicsAssumption
  <2> QED
    BY <2>1, <2>2, <2>4, MountedTwice, KinematicsAssumption
<1> QED
  BY <1>1, KinematicsInvariant, PTL

-----------------------------------------------------------------------------
(* The alignment.                                                          *)

LEMMA SignType == \A n \in Int : Sign(n) * Speed \in Int
BY ConstantsAssumption DEF Sign

(* The queue of readings keeps its newest Depth messages.                  *)
LEMMA QueuedType ==
  ASSUME NEW q \in Seq(Int), Len(q) <= Depth, NEW m \in Int
  PROVE  Queued(q, m) \in Seq(Int) /\ Len(Queued(q, m)) <= Depth
<1> DEFINE all == Append(q, m)
<1>1. all \in Seq(Int) /\ Len(all) = Len(q) + 1 /\ Len(q) \in Nat
  OBVIOUS
<1>2. CASE Len(all) > Depth
  <2>1. all # <<>>
    BY <1>1
  <2>2. Tail(all) \in Seq(Int) /\ Len(Tail(all)) = Len(all) - 1
    BY <1>1, <2>1
  <2>3. Len(Tail(all)) <= Depth
    BY <1>1, <2>2, ConstantsAssumption
  <2> HIDE DEF all
  <2> QED
    BY <1>2, <2>2, <2>3 DEF Queued, all
<1>3. CASE ~(Len(all) > Depth)
  <2>1. Len(all) <= Depth
    BY <1>1, <1>3, ConstantsAssumption
  <2> HIDE DEF all
  <2> QED
    BY <1>1, <1>3, <2>1 DEF Queued, all
<1> QED
  BY <1>2, <1>3

(* The types hold in every reachable state.                                *)
THEOREM TypeCorrect == Spec => []TypeOK
<1>1. Init => TypeOK
  <2>1. <<>> \in Seq(Int) /\ Len(<<>>) = 0
    OBVIOUS
  <2>2. MaxGap + 1 \in 0 .. MaxGap + 1 /\ 0 \in 0 .. Settle
    BY ConstantsAssumption
  <2>3. 0 <= Depth
    BY ConstantsAssumption
  <2>4. Garbage \subseteq Int
    BY ConstantsAssumption
  <2> SUFFICES ASSUME Init PROVE TypeOK
    OBVIOUS
  <2>5. d_x \in Int /\ d_y \in Int /\ average \in Int
    BY <2>4 DEF Init
  <2>6. readings \in Seq(Int) /\ Len(readings) <= Depth
    BY <2>1, <2>3 DEF Init
  <2>7. command \in [servo : {"drive", "x", "y"}, speed : Int]
    BY DEF Init, Stopped
  <2>8. since \in 0 .. MaxGap + 1 /\ left \in 0 .. Settle
    BY <2>2 DEF Init
  <2>9. pose.x \in Int /\ pose.y \in Int
    BY DEF Init
  <2>10. /\ currentState \in ChassisState \cup {"OTHER"}
         /\ pc = "spin" /\ wheel = 0 /\ announced = "none"
    BY DEF Init
  <2>11. due \in BOOLEAN /\ (calm <=> fabs(average) <= Speed)
    BY Zenon DEF Init
  <2>12. calm \in BOOLEAN
    <3>1. calm = (fabs(average) <= Speed)
      BY Zenon DEF Init
    <3> QED
      BY <3>1
  <2> QED
    BY <2>5, <2>6, <2>7, <2>8, <2>9, <2>10, <2>11, <2>12 DEF TypeOK
<1>2. ASSUME TypeOK, [Next]_vars PROVE TypeOK'
  <2> USE DEF TypeOK
  <2>1. ASSUME NEW v \in Twists, cmd_vel_callback(v) PROVE TypeOK'
    <3>1. v \in Int
      BY ConstantsAssumption
    <3> QED BY <1>2, <2>1, <3>1 DEF cmd_vel_callback, nodeState
  <2>2. CASE base_states_callback
    <3>1. Tail(readings) \in Seq(Int) /\ Len(Tail(readings)) = Len(readings) - 1
      BY <1>2, <2>2 DEF base_states_callback
    <3>2. Head(readings) \in Int
      BY <1>2, <2>2 DEF base_states_callback
    <3>3. Len(Tail(readings)) <= Depth
      BY <1>2, <3>1, ConstantsAssumption
    <3> QED BY <1>2, <2>2, <3>1, <3>2, <3>3 DEF base_states_callback
  <2>3. ASSUME NEW p \in Poses, pose_callback(p) PROVE TypeOK'
    BY <1>2, <2>3, ConstantsAssumption DEF pose_callback, Stopped, ChassisState
  <2>4. CASE timer_callback
    <3>1. average * d_time \in Int
      BY <1>2, ConstantsAssumption DEF d_time
    <3>2. 0 \in 0 .. MaxGap + 1 /\ Settle \in 0 .. Settle
      BY ConstantsAssumption
    <3>3. CASE currentState = "ALIGN_Y"
      <4>1. d_y' \in Int
        <5>1. d_y' = d_y + average * d_time
          BY <2>4, <3>3 DEF timer_callback, TickAlignY
        <5> QED BY <1>2, <3>1, <5>1
      <4>2. command' \in [servo : {"drive", "x", "y"}, speed : Int]
        BY <1>2, <2>4, <3>3 DEF timer_callback, TickAlignY, Stopped
      <4>3. since' \in 0 .. MaxGap + 1 /\ left' \in 0 .. Settle
        BY <1>2, <2>4, <3>2, <3>3 DEF timer_callback, TickAlignY
      <4>4. /\ UNCHANGED <<pose, average, wheel, readings, calm>> /\ due' = FALSE
            /\ currentState' \in ChassisState \cup {"OTHER"}
            /\ pc' \in {"spin", "pose", "timer"} /\ announced' \in {"none", "1", "3"}
            /\ d_x' = d_x
        BY <1>2, <2>4, <3>3 DEF timer_callback, TickAlignY, ChassisState
      <4> QED BY <1>2, <4>1, <4>2, <4>3, <4>4
    <3>4. CASE currentState = "ALIGN_X"
      <4>1. d_x' \in Int
        <5>1. d_x' = d_x + average * d_time
          BY <2>4, <3>4 DEF timer_callback, TickAlignX
        <5> QED BY <1>2, <3>1, <5>1
      <4>2. command' \in [servo : {"drive", "x", "y"}, speed : Int]
        BY <1>2, <2>4, <3>4 DEF timer_callback, TickAlignX, Stopped
      <4>3. since' \in 0 .. MaxGap + 1 /\ left' \in 0 .. Settle
        BY <1>2, <2>4, <3>2, <3>4 DEF timer_callback, TickAlignX
      <4>4. /\ UNCHANGED <<pose, average, wheel, readings, calm>> /\ due' = FALSE
            /\ currentState' \in ChassisState \cup {"OTHER"}
            /\ pc' \in {"spin", "pose", "timer"} /\ announced' \in {"none", "1", "3"}
            /\ d_y' = d_y
        BY <1>2, <2>4, <3>4 DEF timer_callback, TickAlignX, ChassisState
      <4> QED BY <1>2, <4>1, <4>2, <4>3, <4>4
    <3>5. CASE currentState \notin {"ALIGN_Y", "ALIGN_X"}
      BY <1>2, <2>4, <3>5 DEF timer_callback
    <3> QED BY <3>3, <3>4, <3>5
  <2>5. CASE StartAlignY
    BY <1>2, <2>5, SignType DEF StartAlignY, ChassisState
  <2>6. CASE StartAlignX
    BY <1>2, <2>6, SignType DEF StartAlignX, ChassisState
  <2>7. CASE Elapse
    <3>1. Queued(readings, wheel) \in Seq(Int) /\ Len(Queued(readings, wheel)) <= Depth
      BY <1>2, QueuedType
    <3>2. since' \in 0 .. MaxGap + 1 /\ left' \in 0 .. Settle
      BY <1>2, <2>7, ConstantsAssumption DEF Elapse
    <3>3. readings' \in Seq(Int) /\ Len(readings') <= Depth
      BY <1>2, <2>7, <3>1 DEF Elapse
    <3> QED BY <1>2, <2>7, <3>2, <3>3 DEF Elapse, nodeState
  <2>8. CASE UNCHANGED vars
    BY <1>2, <2>8 DEF vars
  <2> QED
    BY <1>2, <2>1, <2>2, <2>3, <2>4, <2>5, <2>6, <2>7, <2>8 DEF Next, Callback, Wake
<1> QED
  BY <1>1, <1>2, PTL DEF Spec

(* Listeners of aqr_state know whether the chassis obeys cmd_vel: it does  *)
(* after a 1, and not after a 3.                                           *)
AnnouncedMatchesState ==
  /\ announced = "3" => currentState \in {"ALIGN", "ALIGN_Y", "ALIGN_X"}
  /\ announced = "1" => currentState = "NORMAL"

(* The inductive invariant.  What it adds to the two properties: which     *)
(* stage each sleep belongs to, and that once something was announced the  *)
(* node spins in no other state than the three it serves.                  *)
StageInv ==
  /\ pc \in {"spin", "pose", "timer"}
  /\ announced \in {"none", "1", "3"}
  /\ pc = "pose" => announced = "3" /\ currentState = "ALIGN" /\ command = Stopped("y")
  /\ pc = "timer" => announced # "1" /\ currentState = "ALIGN_Y" /\ command = Stopped("x")
  /\ pc = "spin" /\ announced # "none" => currentState \in {"NORMAL", "ALIGN_Y", "ALIGN_X"}
  /\ CommandMatchesStage
  /\ AnnouncedMatchesState

LEMMA StageInit == Init => StageInv
BY DEF Init, StageInv, CommandMatchesStage, AnnouncedMatchesState

LEMMA StageStep == StageInv /\ [Next]_vars => StageInv'
<1> SUFFICES ASSUME StageInv, [Next]_vars PROVE StageInv'
  OBVIOUS
<1> USE DEF StageInv, CommandMatchesStage, AnnouncedMatchesState
<1>1. ASSUME NEW v \in Twists, cmd_vel_callback(v) PROVE StageInv'
  BY <1>1 DEF cmd_vel_callback, nodeState
<1>2. CASE base_states_callback
  BY <1>2 DEF base_states_callback
<1>3. ASSUME NEW p \in Poses, pose_callback(p) PROVE StageInv'
  BY <1>3 DEF pose_callback
<1>4. CASE timer_callback
  <2>1. CASE currentState = "ALIGN_Y"
    BY <1>4, <2>1 DEF timer_callback, TickAlignY
  <2>2. CASE currentState = "ALIGN_X"
    BY <1>4, <2>2 DEF timer_callback, TickAlignX
  <2>3. CASE currentState \notin {"ALIGN_Y", "ALIGN_X"}
    BY <1>4, <2>3 DEF timer_callback
  <2> QED BY <2>1, <2>2, <2>3
<1>5. CASE StartAlignY
  BY <1>5 DEF StartAlignY, Stopped
<1>6. CASE StartAlignX
  BY <1>6 DEF StartAlignX, Stopped
<1>7. CASE Elapse
  BY <1>7 DEF Elapse, nodeState
<1>8. CASE UNCHANGED vars
  BY <1>8 DEF vars
<1> QED
  BY <1>1, <1>2, <1>3, <1>4, <1>5, <1>6, <1>7, <1>8 DEF Next, Callback, Wake

LEMMA StageInvariant == Spec => []StageInv
BY StageInit, StageStep, PTL DEF Spec

(* Whatever comes in between, the last command is the stage's              *)
(* (aqr_control.cpp:48-143).                                               *)
THEOREM StageCommands == Spec => []CommandMatchesStage
<1>1. StageInv => CommandMatchesStage
  BY DEF StageInv
<1> QED
  BY <1>1, StageInvariant, PTL

(* A 1 on aqr_state means that cmd_vel is obeyed, a 3 that it is not       *)
(* (aqr_control.cpp:97-112).                                               *)
THEOREM AnnouncementsHold == Spec => []AnnouncedMatchesState
<1>1. StageInv => AnnouncedMatchesState
  BY DEF StageInv
<1> QED
  BY <1>1, StageInvariant, PTL

(* No wheel starts before its servo was sent there with the wheels stopped *)
(* (aqr_control.cpp:54-77,115-142).                                        *)
THEOREM ServosTurnFirst == Spec => SteerBeforeDrive
<1> DEFINE Starts == /\ command' # command
                     /\ command'.servo # "drive"
                     /\ command'.speed # 0
           Steered == Starts => command = Stopped(command'.servo)
<1>1. ASSUME StageInv, [Next]_vars PROVE Steered
  <2>1. ASSUME NEW v \in Twists, cmd_vel_callback(v) PROVE Steered
    BY <2>1 DEF cmd_vel_callback
  <2>2. CASE base_states_callback
    BY <2>2 DEF base_states_callback
  <2>3. ASSUME NEW p \in Poses, pose_callback(p) PROVE Steered
    BY <2>3 DEF pose_callback, Stopped
  <2>4. CASE timer_callback
    BY <2>4 DEF timer_callback, TickAlignY, TickAlignX, Stopped
  <2>5. CASE StartAlignY
    BY <1>1, <2>5 DEF StartAlignY, StageInv, Stopped
  <2>6. CASE StartAlignX
    BY <1>1, <2>6 DEF StartAlignX, StageInv, Stopped
  <2>7. CASE Elapse
    BY <2>7 DEF Elapse
  <2>8. CASE UNCHANGED vars
    BY <2>8 DEF vars
  <2> QED
    BY <1>1, <2>1, <2>2, <2>3, <2>4, <2>5, <2>6, <2>7, <2>8 DEF Next, Callback, Wake
<1>2. StageInv /\ [Next]_vars => [Steered]_vars
  BY <1>1
<1> QED
  BY <1>2, StageInvariant, PTL DEF Spec, SteerBeforeDrive

(* The chassis implements Alignment: each callback, each half of one that  *)
(* sleeps, is a step of it or changes nothing that wheels and listeners    *)
(* see (aqr_control.cpp:3-143).                                            *)
THEOREM AlignmentImplemented == Spec => AlignsInStages
<1>1. Init => Promise!Init
  BY DEF Init, Promise!Init, ChassisState, stage, Stopped
<1>2. ASSUME StageInv, [Next]_vars PROVE [Promise!Next]_(Promise!vars)
  <2> USE DEF Promise!Next, Promise!vars
  <2>1. ASSUME NEW v \in Twists, cmd_vel_callback(v) PROVE [Promise!Next]_(Promise!vars)
    <3>1. CASE currentState = "NORMAL"
      BY <2>1, <3>1 DEF cmd_vel_callback, nodeState, Promise!Obey, stage
    <3>2. CASE currentState # "NORMAL"
      BY <2>1, <3>2 DEF cmd_vel_callback, nodeState, stage
    <3> QED
      BY <3>1, <3>2
  <2>2. CASE base_states_callback
    BY <2>2 DEF base_states_callback, stage
  <2>3. ASSUME NEW p \in Poses, pose_callback(p) PROVE [Promise!Next]_(Promise!vars)
    BY <2>3 DEF pose_callback, Promise!Start, Promise!Turn, stage, Stopped
  <2>4. CASE timer_callback
    <3>1. CASE currentState = "ALIGN_Y"
      <4>1. /\ pc = "spin" /\ UNCHANGED <<currentState, announced>>
            /\ \/ pc' = "timer" /\ command' = Stopped("x")
               \/ UNCHANGED <<pc, command>>
        BY <2>4, <3>1 DEF timer_callback, TickAlignY
      <4> QED
        BY <3>1, <4>1 DEF Promise!TurnX, Promise!Turn, stage, Stopped
    <3>2. CASE currentState = "ALIGN_X"
      <4>1. /\ pc = "spin" /\ pc' = pc
            /\ \/ currentState' = "NORMAL" /\ announced' = "1" /\ command' = Stopped("x")
               \/ UNCHANGED <<currentState, announced, command>>
        BY <2>4, <3>2 DEF timer_callback, TickAlignX
      <4> QED
        BY <3>2, <4>1 DEF Promise!End, Promise!Turn, stage, Stopped
    <3>3. CASE currentState \notin {"ALIGN_Y", "ALIGN_X"}
      BY <2>4, <3>3 DEF timer_callback, stage
    <3> QED
      BY <3>1, <3>2, <3>3
  <2>5. CASE StartAlignY
    <3>1. command' = [servo |-> "y", speed |-> Sign(pose.y) * Speed]
      BY <1>2, <2>5 DEF StartAlignY, StageInv, Stopped
    <3>2. Sign(pose.y) * Speed \in {-Speed, 0, Speed}
      BY ConstantsAssumption DEF Sign
    <3>3. [Promise!Next]_(Promise!vars)
      <4>1. Promise!Drive("y")
        BY <3>1, <3>2 DEF Promise!Drive
      <4>2. stage = "turn y" /\ stage' = "drive y" /\ announced' = announced
        BY <2>5 DEF StartAlignY, stage
      <4> QED
        BY <4>1, <4>2 DEF Promise!DriveY
    <3> QED
      BY <3>3
  <2>6. CASE StartAlignX
    <3>1. command' = [servo |-> "x", speed |-> Sign(pose.x) * Speed]
      BY <1>2, <2>6 DEF StartAlignX, StageInv, Stopped
    <3>2. Sign(pose.x) * Speed \in {-Speed, 0, Speed}
      BY ConstantsAssumption DEF Sign
    <3>3. [Promise!Next]_(Promise!vars)
      <4>1. Promise!Drive("x")
        BY <3>1, <3>2 DEF Promise!Drive
      <4>2. stage = "turn x" /\ stage' = "drive x" /\ announced' = announced
        BY <2>6 DEF StartAlignX, stage
      <4> QED
        BY <4>1, <4>2 DEF Promise!DriveX
    <3> QED
      BY <3>3
  <2>7. CASE Elapse
    BY <2>7 DEF Elapse, nodeState, stage
  <2>8. CASE UNCHANGED vars
    BY <2>8 DEF vars, stage
  <2> QED
    BY <1>2, <2>1, <2>2, <2>3, <2>4, <2>5, <2>6, <2>7, <2>8 DEF Next, Callback, Wake
<1>3. StageInv /\ [Next]_vars => [Promise!Next]_(Promise!vars)
  BY <1>2
<1> QED
  BY <1>1, <1>3, StageInvariant, PTL DEF Spec, AlignsInStages, Promise!Spec

-----------------------------------------------------------------------------
(* How an alignment ends, as far as safety goes.                           *)

(* Readings of wheels that drove no faster than an alignment does.         *)
Slow(n) == fabs(n) <= Speed

(* While a stage is under way nothing faster is commanded, driven or still *)
(* to be read; the sleep before the first stage sees to it, since by its   *)
(* end the queue holds nothing older than the stop.                        *)
SlowInv ==
  calm =>
    /\ Slow(average)
    /\ currentState \in {"ALIGN_Y", "ALIGN_X"} =>
         /\ Slow(command.speed) /\ Slow(wheel)
         /\ \A i \in 1 .. Len(readings) : Slow(readings[i])
    /\ pc = "pose" =>
         /\ command.speed = 0
         /\ left < Settle => wheel = 0
         /\ \A i \in 1 .. Len(readings) :
              i > Len(readings) - (Settle - left - 1) => Slow(readings[i])

(* Where an announced alignment is: the timer is due whenever a stage      *)
(* starts, and the time it will find is none, or that of the sleep.        *)
PhaseInv ==
  /\ pc # "spin" /\ left < Settle => due
  /\ calm /\ announced = "3" =>
       \/ pc = "pose" /\ currentState = "ALIGN" /\ since > MaxGap
       \/ pc = "spin" /\ currentState = "ALIGN_Y" /\ due /\ d_y = 0 /\ since > MaxGap
       \/ pc = "timer" /\ currentState = "ALIGN_Y" /\ since <= Settle - left
       \/ pc = "spin" /\ currentState = "ALIGN_X" /\ due /\ d_x = 0 /\ since <= Settle

(* A tick in a stage of an announced alignment ends the stage.             *)
FirstTickEnds ==
  calm /\ announced = "3" /\ timer_callback =>
    /\ currentState = "ALIGN_Y" => pc' = "timer"
    /\ currentState = "ALIGN_X" => announced' = "1" /\ currentState' = "NORMAL"
    /\ currentState \in {"ALIGN_Y", "ALIGN_X"}

LEMMA QueuedElement ==
  ASSUME NEW q \in Seq(Int), NEW m \in Int, NEW i \in 1 .. Len(Queued(q, m))
  PROVE  \/ Queued(q, m)[i] = m
         \/ LET j == i + Len(q) + 1 - Len(Queued(q, m))
            IN j \in 1 .. Len(q) /\ j >= i /\ Queued(q, m)[i] = q[j]
<1> DEFINE all == Append(q, m)
           r == Queued(q, m)
           j == i + Len(q) + 1 - Len(r)
<1>0. all \in Seq(Int) /\ Len(all) = Len(q) + 1 /\ Len(q) \in Nat
  OBVIOUS
<1>1. \A k \in 1 .. Len(all) : all[k] = IF k <= Len(q) THEN q[k] ELSE m
  OBVIOUS
<1>2. CASE Len(all) > Depth
  <2>1. all # <<>>
    BY <1>0
  <2>2. Len(Tail(all)) = Len(all) - 1 /\ \A k \in 1 .. Len(all) - 1 : Tail(all)[k] = all[k + 1]
    BY <1>0, <2>1
  <2>3. r = Tail(all)
    BY <1>2 DEF Queued
  <2>4. i \in 1 .. Len(r)
    OBVIOUS
  <2> HIDE DEF all, r, j
  <2>5. i \in 1 .. Len(all) - 1 /\ Len(r) = Len(q) /\ r[i] = all[i + 1]
    BY <1>0, <2>2, <2>3, <2>4
  <2>6. i + 1 \in 1 .. Len(all) /\ i \in Int
    BY <1>0, <2>5
  <2>7. r[i] = IF i + 1 <= Len(q) THEN q[i + 1] ELSE m
    BY <1>1, <2>5, <2>6
  <2>8. j = i + 1
    BY <1>0, <2>5, <2>6 DEF j
  <2>9. r[i] = m \/ (j \in 1 .. Len(q) /\ j >= i /\ r[i] = q[j])
    BY <1>0, <2>5, <2>6, <2>7, <2>8
  <2> QED
    BY <2>9 DEF r, j
<1>3. CASE ~(Len(all) > Depth)
  <2>1. r = all
    BY <1>3 DEF Queued
  <2>2. i \in 1 .. Len(r)
    OBVIOUS
  <2> HIDE DEF all, r, j
  <2>3. i \in 1 .. Len(all) /\ i \in Int /\ Len(r) = Len(q) + 1
    BY <1>0, <2>1, <2>2
  <2>4. r[i] = IF i <= Len(q) THEN q[i] ELSE m
    BY <1>1, <2>1, <2>3
  <2>5. j = i
    BY <1>0, <2>3 DEF j
  <2>6. r[i] = m \/ (j \in 1 .. Len(q) /\ j >= i /\ r[i] = q[j])
    BY <1>0, <2>3, <2>4, <2>5
  <2> QED
    BY <2>6 DEF r, j
<1> QED
  BY <1>2, <1>3

LEMMA SlowSign == \A n \in Int : Slow(Sign(n) * Speed) /\ Slow(0)
BY ConstantsAssumption DEF Slow, Sign, fabs

LEMMA SlowInit == Init => SlowInv
<1> SUFFICES ASSUME Init PROVE SlowInv
  OBVIOUS
<1>1. calm => Slow(average)
  BY Zenon DEF Init, Slow
<1>2. command.speed = 0 /\ wheel = 0 /\ readings = <<>> /\ pc = "spin"
  BY DEF Init, Stopped
<1>3. Len(readings) = 0
  BY <1>2
<1>4. Slow(command.speed) /\ Slow(wheel) /\ \A i \in 1 .. Len(readings) : Slow(readings[i])
  BY <1>2, <1>3, SlowSign
<1> QED
  BY <1>1, <1>2, <1>4 DEF SlowInv

LEMMA SlowStep == TypeOK /\ StageInv /\ SlowInv /\ [Next]_vars => SlowInv'
<1> SUFFICES ASSUME TypeOK, StageInv, SlowInv, [Next]_vars, calm' PROVE SlowInv'
  BY DEF SlowInv
<1> DEFINE Aligns == currentState \in {"ALIGN_Y", "ALIGN_X"}
<1>1. ASSUME NEW v \in Twists, cmd_vel_callback(v) PROVE SlowInv'
  BY <1>1 DEF cmd_vel_callback, nodeState, SlowInv, Slow
<1>2. CASE base_states_callback
  <2>1. readings \in Seq(Int) /\ readings # <<>>
    BY <1>2 DEF TypeOK, base_states_callback
  <2>2. /\ Len(readings) \in Nat \ {0} /\ Len(Tail(readings)) = Len(readings) - 1
        /\ Head(readings) = readings[1]
        /\ \A i \in 1 .. Len(readings) - 1 : Tail(readings)[i] = readings[i + 1]
    BY <2>1
  <2>3. UNCHANGED <<currentState, command, wheel, pc, calm>> /\ pc = "spin" /\ readings' = Tail(readings)
    BY <1>2 DEF base_states_callback
  <2>4. Slow(average')
    BY <1>2, <2>2 DEF base_states_callback, SlowInv
  <2>5. ASSUME Aligns, NEW i \in 1 .. Len(readings') PROVE Slow(readings'[i])
    <3>1. i + 1 \in 1 .. Len(readings) /\ readings'[i] = readings[i + 1]
      BY <2>2, <2>3
    <3> QED BY <1>2, <2>5, <3>1 DEF base_states_callback, SlowInv
  <2> QED
    BY <2>3, <2>4, <2>5 DEF SlowInv, Slow
<1>3. ASSUME NEW p \in Poses, pose_callback(p) PROVE SlowInv'
  <2>1. /\ calm /\ average' = average /\ currentState' = "ALIGN" /\ command' = Stopped("y")
        /\ left' = Settle /\ readings' = readings
    BY <1>3 DEF pose_callback
  <2>2. Len(readings) \in Nat
    BY DEF TypeOK
  <2>3. \A i \in 1 .. Len(readings') : ~(i > Len(readings') - (Settle - left' - 1))
    BY <2>1, <2>2, ConstantsAssumption
  <2>4. command'.speed = 0 /\ ~(left' < Settle)
    BY <2>1, ConstantsAssumption DEF Stopped
  <2> QED BY <2>1, <2>3, <2>4 DEF SlowInv, Slow
<1>4. CASE timer_callback
  <2>1. UNCHANGED <<average, wheel, readings, calm>> /\ pc = "spin"
    BY <1>4 DEF timer_callback
  <2>2. /\ currentState' \in {"ALIGN_Y", "ALIGN_X"} => Aligns
        /\ command' = command \/ command'.speed = 0
        /\ pc' # "pose"
    BY <1>4 DEF timer_callback, TickAlignX, TickAlignY, Stopped
  <2> QED BY <2>1, <2>2, SlowSign DEF SlowInv, Slow
<1>5. CASE StartAlignY
  <2>1. UNCHANGED <<average, wheel, readings, calm>> /\ pc = "pose" /\ left = 0 /\ pc' = "spin"
    BY <1>5 DEF StartAlignY
  <2>2. command'.speed = Sign(pose.y) * Speed
    BY <1>5 DEF StartAlignY, TypeOK
  <2>3. Slow(command'.speed)
    BY <2>2, SlowSign DEF TypeOK
  <2>4. wheel = 0
    BY <2>1, ConstantsAssumption DEF SlowInv
  <2>5. ASSUME NEW i \in 1 .. Len(readings) PROVE Slow(readings[i])
    <3>1. Len(readings) \in Nat /\ Len(readings) <= Settle - 1
      BY ConstantsAssumption, SleepAssumption DEF TypeOK
    <3>2. i > Len(readings) - (Settle - left - 1)
      BY <2>1, <3>1, ConstantsAssumption
    <3> QED BY <2>1, <3>2 DEF SlowInv
  <2> QED BY <2>1, <2>3, <2>4, <2>5, SlowSign DEF SlowInv, Slow
<1>6. CASE StartAlignX
  <2>1. UNCHANGED <<average, wheel, readings, calm>> /\ currentState = "ALIGN_Y" /\ pc' = "spin"
    BY <1>6 DEF StartAlignX, StageInv
  <2>2. command'.speed = Sign(pose.x) * Speed
    BY <1>6 DEF StartAlignX, TypeOK
  <2>3. Slow(command'.speed)
    BY <2>2, SlowSign DEF TypeOK
  <2> QED BY <2>1, <2>3 DEF SlowInv, Slow
<1>7. CASE Elapse
  <2> DEFINE q == Queued(readings, wheel)
  <2>1. /\ UNCHANGED <<average, currentState, pc, command>> /\ wheel' = command.speed
        /\ readings' = q /\ calm
    BY <1>7 DEF Elapse, nodeState
  <2>2. readings \in Seq(Int) /\ Len(readings) <= Depth /\ wheel \in Int
    BY DEF TypeOK
  <2>3. q \in Seq(Int) /\ Len(q) \in Nat /\ Len(readings) \in Nat
    BY <2>2, QueuedType
  <2>4. ASSUME NEW i \in 1 .. Len(q)
        PROVE  \/ q[i] = wheel
               \/ \E j \in 1 .. Len(readings) :
                    /\ q[i] = readings[j]
                    /\ Len(readings) - j = Len(q) - i - 1
    <3> DEFINE j == i + Len(readings) + 1 - Len(q)
    <3>1. q[i] = wheel \/ (j \in 1 .. Len(readings) /\ q[i] = readings[j])
      BY <2>2, QueuedElement
    <3> HIDE DEF q
    <3>2. Len(readings) - j = Len(q) - i - 1
      BY <2>3
    <3> QED BY <3>1, <3>2
  <2> HIDE DEF q
  <2>5. CASE Aligns
    <3>1. pc # "pose"
      BY <2>5 DEF StageInv
    <3>2. \A i \in 1 .. Len(q) : Slow(q[i])
      BY <2>1, <2>4, <2>5 DEF SlowInv
    <3> QED BY <2>1, <2>5, <3>1, <3>2 DEF SlowInv, Slow
  <2>6. CASE pc = "pose"
    <3>1. command.speed = 0 /\ left' = left - 1 /\ left \in 1 .. Settle
      BY <1>7, <2>1, <2>6 DEF Elapse, SlowInv, TypeOK
    <3>2. ASSUME NEW i \in 1 .. Len(q), i > Len(q) - (Settle - left' - 1) PROVE Slow(q[i])
      <4>1. left < Settle
        BY <2>3, <3>1, <3>2, ConstantsAssumption
      <4>2. CASE q[i] = wheel
        BY <2>1, <2>6, <4>1, <4>2, SlowSign DEF SlowInv
      <4>3. ASSUME NEW j \in 1 .. Len(readings), q[i] = readings[j],
                   Len(readings) - j = Len(q) - i - 1
            PROVE  Slow(q[i])
        <5>1. j > Len(readings) - (Settle - left - 1)
          BY <2>3, <3>1, <3>2, <4>3, ConstantsAssumption
        <5> QED BY <2>1, <2>6, <4>3, <5>1 DEF SlowInv
      <4> QED BY <2>4, <4>2, <4>3
    <3>3. currentState = "ALIGN"
      BY <2>6 DEF StageInv
    <3> QED BY <2>1, <3>1, <3>2, <3>3 DEF SlowInv, Slow
  <2>7. CASE ~Aligns /\ pc # "pose"
    BY <2>1, <2>7 DEF SlowInv, Slow
  <2> QED BY <2>5, <2>6, <2>7
<1>8. CASE UNCHANGED vars
  BY <1>8 DEF vars, SlowInv, Slow
<1> QED
  BY <1>1, <1>2, <1>3, <1>4, <1>5, <1>6, <1>7, <1>8 DEF Next, Callback, Wake

(* A distance driven at no more than speed k for no longer than n.         *)
LEMMA DistanceBound ==
  ASSUME NEW a \in Int, NEW k \in Nat, fabs(a) <= k, NEW n \in Nat, NEW s \in 0 .. n
  PROVE  fabs(a * s) <= k * n
<1>1. s \in Nat /\ s <= n /\ -k <= a /\ a <= k
  BY DEF fabs
<1>2. a * s \in Int /\ k * s \in Nat /\ k * n \in Nat
  BY <1>1
<1>3. k * s <= k * n
  <2>1. k * (n - s) >= 0
    BY <1>1
  <2>2. k * (n - s) = k * n - k * s
    BY <1>1
  <2> QED BY <1>2, <2>1, <2>2
<1>4. a * s <= k * s
  <2>1. (k - a) * s >= 0
    BY <1>1
  <2>2. (k - a) * s = k * s - a * s
    BY <1>1
  <2> QED BY <1>2, <2>1, <2>2
<1>5. -(a * s) <= k * s
  <2>1. (k + a) * s >= 0
    BY <1>1
  <2>2. (k + a) * s = k * s + a * s
    BY <1>1
  <2> QED BY <1>2, <2>1, <2>2
<1> QED
  BY <1>2, <1>3, <1>4, <1>5 DEF fabs

(* The tick of an announced stage finds its distance within reach.         *)
LEMMA TickWithinReach ==
  ASSUME TypeOK, SlowInv, PhaseInv, calm, announced = "3", timer_callback
  PROVE  /\ currentState \in {"ALIGN_Y", "ALIGN_X"}
         /\ currentState = "ALIGN_Y" => fabs(d_y') - fabs(pose.y) < Reach
         /\ currentState = "ALIGN_X" => fabs(d_x') - fabs(pose.x) < Reach
<1>1. currentState \in {"ALIGN_Y", "ALIGN_X"}
  BY DEF PhaseInv, timer_callback
<1>2. Speed * Settle \in Nat /\ Speed * Settle < Reach /\ Reach \in Nat /\ Speed \in Nat /\ Settle \in Nat
  BY ConstantsAssumption, SleepAssumption
<1>3. fabs(pose.x) >= 0 /\ fabs(pose.y) >= 0 /\ fabs(pose.x) \in Int /\ fabs(pose.y) \in Int
  BY DEF TypeOK, fabs
<1>4. average \in Int /\ fabs(average) <= Speed
  BY DEF TypeOK, SlowInv, Slow
<1>5. CASE currentState = "ALIGN_Y"
  <2>1. d_y = 0 /\ d_time = 0
    BY <1>5 DEF PhaseInv, d_time, timer_callback
  <2>2. d_y' = d_y + average * d_time
    BY <1>5 DEF timer_callback, TickAlignY
  <2>3. d_y' = 0
    BY <1>4, <2>1, <2>2
  <2> QED BY <1>2, <1>3, <1>5, <2>3 DEF fabs
<1>6. CASE currentState = "ALIGN_X"
  <2>1. d_x = 0 /\ d_time \in 0 .. Settle
    BY <1>2, <1>6 DEF PhaseInv, d_time, timer_callback, TypeOK
  <2>2. d_x' = d_x + average * d_time
    BY <1>6 DEF timer_callback, TickAlignX
  <2>3. average * d_time \in Int
    BY <1>4, <2>1
  <2>4. d_x' = average * d_time
    BY <2>1, <2>2, <2>3
  <2>5. fabs(d_x') <= Speed * Settle
    BY <1>2, <1>4, <2>1, <2>4, DistanceBound
  <2>6. fabs(d_x') \in Int
    BY <2>3, <2>4 DEF fabs
  <2> QED BY <1>2, <1>3, <1>6, <2>5, <2>6
<1> QED
  BY <1>1, <1>5, <1>6

LEMMA TickEndsStage ==
  TypeOK /\ SlowInv /\ PhaseInv => FirstTickEnds
<1> SUFFICES ASSUME TypeOK, SlowInv, PhaseInv, calm, announced = "3", timer_callback
             PROVE  /\ currentState = "ALIGN_Y" => pc' = "timer"
                    /\ currentState = "ALIGN_X" => announced' = "1" /\ currentState' = "NORMAL"
                    /\ currentState \in {"ALIGN_Y", "ALIGN_X"}
  BY DEF FirstTickEnds
<1>1. CASE currentState = "ALIGN_Y"
  BY <1>1, TickWithinReach DEF timer_callback, TickAlignY
<1>2. CASE currentState = "ALIGN_X"
  BY <1>2, TickWithinReach DEF timer_callback, TickAlignX
<1> QED
  BY <1>1, <1>2, TickWithinReach

LEMMA PhaseStep ==
  TypeOK /\ StageInv /\ SlowInv /\ PhaseInv /\ [Next]_vars => PhaseInv'
<1> SUFFICES ASSUME TypeOK, StageInv, SlowInv, PhaseInv, [Next]_vars PROVE PhaseInv'
  OBVIOUS
<1>1. ASSUME NEW v \in Twists, cmd_vel_callback(v) PROVE PhaseInv'
  BY <1>1 DEF cmd_vel_callback, nodeState, PhaseInv
<1>2. CASE base_states_callback
  BY <1>2 DEF base_states_callback, PhaseInv
<1>3. ASSUME NEW p \in Poses, pose_callback(p) PROVE PhaseInv'
  <2>1. /\ calm' = (calm /\ announced # "3" /\ since > MaxGap)
        /\ currentState' = "ALIGN" /\ pc' = "pose" /\ left' = Settle /\ since' = since
    BY <1>3 DEF pose_callback
  <2>2. calm' => since' > MaxGap
    BY <2>1
  <2>3. ~(left' < Settle)
    BY <2>1, ConstantsAssumption
  <2> QED
    BY <2>1, <2>2, <2>3 DEF PhaseInv
<1>4. CASE timer_callback
  <2>1. calm' = calm
    BY <1>4 DEF timer_callback
  <2>2. pc' # "spin" => left' = Settle
    BY <1>4 DEF timer_callback, TickAlignY, TickAlignX
  <2>3. ASSUME calm, announced' = "3"
        PROVE  pc' = "timer" /\ currentState' = "ALIGN_Y" /\ since' <= Settle - left'
    <3>1. announced = "3"
      BY <1>4, <2>3 DEF timer_callback, TickAlignY, TickAlignX
    <3>2. FirstTickEnds
      BY TickEndsStage
    <3>3. currentState = "ALIGN_Y"
      BY <1>4, <2>3, <3>1, <3>2 DEF FirstTickEnds
    <3>4. pc' = "timer" /\ currentState' = "ALIGN_Y" /\ since' = 0
      BY <1>4, <2>3, <3>1, <3>2, <3>3 DEF FirstTickEnds, timer_callback, TickAlignY
    <3> QED BY <2>2, <3>4, ConstantsAssumption
  <2> QED BY <2>1, <2>2, <2>3, ConstantsAssumption DEF PhaseInv
<1>5. CASE StartAlignY
  BY <1>5, ConstantsAssumption DEF StartAlignY, PhaseInv
<1>6. CASE StartAlignX
  BY <1>6, ConstantsAssumption DEF StartAlignX, PhaseInv
<1>7. CASE Elapse
  <2>1. /\ UNCHANGED <<currentState, d_x, d_y, pc, announced>> /\ due' = TRUE /\ (calm' => calm)
        /\ IF pc = "spin" THEN ~due /\ left' = left ELSE left > 0 /\ left' = left - 1
        /\ since' = IF since > MaxGap THEN since ELSE since + 1
    BY <1>7 DEF Elapse, nodeState
  <2> QED BY <2>1, ConstantsAssumption DEF PhaseInv, TypeOK
<1>8. CASE UNCHANGED vars
  BY <1>8 DEF vars, PhaseInv
<1> QED
  BY <1>1, <1>2, <1>3, <1>4, <1>5, <1>6, <1>7, <1>8 DEF Next, Callback, Wake

(* An announced alignment whose readings all arrive spends one tick in     *)
(* each stage: the first one ends it, so ALIGN_Y gives way to the sleep    *)
(* and ALIGN_X to NORMAL and a 1 on aqr_state (aqr_control.cpp:48-143).    *)
(* What AlignmentEnds adds is that the tick comes, which takes fairness.   *)
THEOREM StagesEndAtOnce == Spec => [][FirstTickEnds]_vars
<1>1. Init => PhaseInv
  BY DEF Init, PhaseInv
<1>2. TypeOK /\ SlowInv /\ PhaseInv /\ [Next]_vars => [FirstTickEnds]_vars
  BY TickEndsStage
<1> QED
  BY <1>1, <1>2, TypeCorrect, StageInvariant, SlowInit, SlowStep, PhaseStep, PTL DEF Spec
=============================================================================
