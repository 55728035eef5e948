------------------------------ MODULE Alignment ------------------------------
(***************************************************************************)
(* What the chassis promises its wheels and the listeners of aqr_state,    *)
(* with no word of timers, sleeps and distances: an alignment goes through *)
(* four stages in order, turning the servos with the wheels stopped before *)
(* each drive, is announced when it starts and when it ends, and twists    *)
(* are obeyed only outside.  A new pose starts over at any stage in which  *)
(* the chassis drives.                                                     *)
(***************************************************************************)
EXTENDS Integers

CONSTANTS Twists, Speed   \* see ChassisAlign

VARIABLES
  stage,      \* "free", "turn y", "drive y", "turn x", "drive x", or "deaf":
              \* no twist is obeyed and no alignment under way
  announced,  \* last message on aqr_state
  command     \* last message on base_control

vars == <<stage, announced, command>>

Turn(axis)  == command' = [servo |-> axis, speed |-> 0]
Drive(axis) == \E s \in {-Speed, 0, Speed} : command' = [servo |-> axis, speed |-> s]

(* The node may find itself in any stage but those it sleeps in.           *)
Init ==
  /\ stage \in {"free", "drive y", "drive x", "deaf"}
  /\ announced = "none"
  /\ command = [servo |-> "drive", speed |-> 0]

Obey ==
  /\ stage = "free"
  /\ \E v \in Twists : command' = [servo |-> "drive", speed |-> v]
  /\ UNCHANGED <<stage, announced>>

Start ==
  /\ stage \in {"free", "drive y", "drive x", "deaf"}
  /\ stage' = "turn y"
  /\ announced' = "3"
  /\ Turn("y")

DriveY == stage = "turn y"  /\ stage' = "drive y" /\ Drive("y") /\ UNCHANGED announced
TurnX  == stage = "drive y" /\ stage' = "turn x"  /\ Turn("x")  /\ UNCHANGED announced
DriveX == stage = "turn x"  /\ stage' = "drive x" /\ Drive("x") /\ UNCHANGED announced

End ==
  /\ stage = "drive x"
  /\ stage' = "free"
  /\ announced' = "1"
  /\ Turn("x")

Next == Obey \/ Start \/ DriveY \/ TurnX \/ DriveX \/ End

Spec == Init /\ [][Next]_vars
=============================================================================
