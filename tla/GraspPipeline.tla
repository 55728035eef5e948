---------------------------- MODULE GraspPipeline ----------------------------
(***************************************************************************)
(* From the camera to the arms: the detector publishes where it sees an    *)
(* object on object_center, depth_image_processing measures it in the      *)
(* latest depth image and publishes a point on depth_coordinates, and      *)
(* all_test moves both arms to the last point it took.  The detector and   *)
(* the motion are slow and the scene changes meanwhile: a picture is the   *)
(* number of the scene it shows, a point that of its two pictures.         *)
(***************************************************************************)
EXTENDS Naturals, Sequences

CONSTANTS
  Depth,      \* history depth of the two topics
  Posture,    \* the joint angles for an arm without a plan, no point
  MaxScene    \* bound: how often the scene changes

ASSUME GraspAssumption ==
  /\ Depth \in Nat \ {0} /\ MaxScene \in Nat \ {0}
  /\ Posture \notin [seen : Nat, measured : Nat]

VARIABLES
  scene,              \* what the camera has before it
  frame,              \* the detector's picture, 0 when it has none
  object_center, depth_coordinates,   \* topics
  depth_image_,       \* the latest depth image, 0 before the first
  object,             \* x, y and Pos_z, as broadcast for the frame "object"
  pose_,              \* the last point taken, None before the first
  first_execution_,
  arms,               \* "idle" or "moving"
  aim,                \* where each moves to: a point, the origin or Posture
  last,               \* history: the last point published
  lost,               \* history: the motion's transform failed
  blind               \* history: motions that were planned for neither arm

camera == <<scene, frame>>
depth  == <<depth_image_, object, last>>
mover  == <<first_execution_, arms, aim, lost, blind>>
vars   == <<camera, depth, mover, object_center, depth_coordinates, pose_>>

Scene == 1 .. MaxScene
Point == [seen : Scene, measured : Scene]
None   == [seen |-> 0, measured |-> 0]
Origin == None   \* the pose of a failed transform, x = y = Pos_z = 0
Arm == {"left", "right"}
NoAim == [a \in Arm |-> Posture]   \* no motion is under way

Init ==
  /\ scene = 1 /\ frame = 0
  /\ object_center = <<>> /\ depth_coordinates = <<>>
  /\ depth_image_ = 0 /\ object = Origin /\ last = None
  /\ pose_ = None /\ first_execution_ = TRUE
  /\ arms = "idle" /\ aim = NoAim
  /\ lost = FALSE /\ blind = 0

(* Seeded fault: a full queue takes no more.                               *)
PushNoMore(q, m) == IF Len(q) < Depth THEN Append(q, m) ELSE q

(* Seeded fault: the newest is taken first.                                *)
PushInFront(q, m) == <<m>> \o IF Len(q) < Depth THEN q ELSE Tail(q)

(* A full queue loses its oldest message.                                  *)
Push(q, m) == IF Len(q) < Depth THEN Append(q, m) ELSE Append(Tail(q), m)

-----------------------------------------------------------------------------
(* The camera and the detector, which says nothing when it sees nothing.   *)
SceneChanges ==
  /\ scene < MaxScene
  /\ scene' = scene + 1
  /\ UNCHANGED <<frame, depth, mover, object_center, depth_coordinates, pose_>>

TakePicture ==
  /\ frame = 0
  /\ frame' = scene
  /\ UNCHANGED <<scene, depth, mover, object_center, depth_coordinates, pose_>>

image_callback ==
  /\ frame # 0
  /\ frame' = 0
  /\ object_center' \in {Push(object_center, frame), object_center}
  /\ UNCHANGED <<scene, depth, mover, depth_coordinates, pose_>>

-----------------------------------------------------------------------------
(* depth_image_processing.                                                 *)
depth_image_callback ==
  /\ depth_image_' = scene
  /\ UNCHANGED <<camera, mover, object, last, object_center, depth_coordinates, pose_>>

(* The object may be outside the image or have no depth there.             *)
center_point_callback ==
  /\ object_center # <<>>
  /\ object_center' = Tail(object_center)
  /\ \/ /\ depth_image_ # 0
        /\ LET point == [seen |-> Head(object_center), measured |-> depth_image_]
           IN /\ object' = point /\ last' = point
              /\ depth_coordinates' = Push(depth_coordinates, point)
     \/ /\ depth_image_ # 0
        /\ object' = Origin
        /\ UNCHANGED <<last, depth_coordinates>>
     \/ UNCHANGED <<object, last, depth_coordinates>>
  /\ UNCHANGED <<camera, mover, depth_image_, pose_>>

-----------------------------------------------------------------------------
(* all_test: one thread, which takes messages only between two motions.    *)

(* Seeded fault: a thread of its own takes the messages.                   *)
depthCoordinatesCallbackOwnThread ==
  /\ depth_coordinates # <<>>
  /\ depth_coordinates' = Tail(depth_coordinates)
  /\ pose_' = Head(depth_coordinates)
  /\ UNCHANGED <<camera, depth, mover, object_center>>

(* Seeded fault: only the first point counts.                              *)
depthCoordinatesCallbackOnce ==
  /\ arms = "idle"
  /\ depth_coordinates # <<>>
  /\ depth_coordinates' = Tail(depth_coordinates)
  /\ pose_' = IF pose_ = None THEN Head(depth_coordinates) ELSE pose_
  /\ UNCHANGED <<camera, depth, mover, object_center>>

depthCoordinatesCallback ==
  /\ arms = "idle"
  /\ depth_coordinates # <<>>
  /\ depth_coordinates' = Tail(depth_coordinates)
  /\ pose_' = Head(depth_coordinates)
  /\ UNCHANGED <<camera, depth, mover, object_center>>

(* moveitCallback up to the motion: the transform and each of the plans    *)
(* may fail; an arm without a plan is sent to Posture, both arms the first *)
(* time only.  A motion that was decided on may still fail to be planned   *)
(* for both arms.  (The count of joints that is asked for, five, is that   *)
(* of either arm.)                                                         *)
moveitCallback ==
  /\ arms = "idle"
  /\ pose_ # None
  /\ first_execution_' = FALSE
  /\ \E transformed, both \in BOOLEAN, planned \in SUBSET Arm :
       LET pose_base_link == IF transformed THEN pose_ ELSE Origin
       IN IF both /\ (planned # {} \/ first_execution_)
          THEN /\ arms' = "moving"
               /\ aim' = [a \in Arm |-> IF a \in planned THEN pose_base_link ELSE Posture]
               /\ lost' = ~transformed
               /\ blind' = IF planned = {} THEN blind + 1 ELSE blind
          ELSE UNCHANGED <<arms, aim, lost, blind>>
  /\ UNCHANGED <<camera, depth, object_center, depth_coordinates, pose_>>

(* Seeded fault: each motion counts as the first again.                    *)
MovedAnew ==
  /\ arms = "moving"
  /\ arms' = "idle" /\ aim' = NoAim /\ lost' = FALSE
  /\ first_execution_' = TRUE
  /\ UNCHANGED <<camera, depth, blind, object_center, depth_coordinates, pose_>>

(* execute returns, its result is ignored, and ten seconds are slept; the  *)
(* callback's variables are gone.                                          *)
Moved ==
  /\ arms = "moving"
  /\ arms' = "idle" /\ aim' = NoAim /\ lost' = FALSE
  /\ UNCHANGED <<camera, depth, first_execution_, blind,
                 object_center, depth_coordinates, pose_>>

Next ==
  \/ SceneChanges \/ TakePicture \/ image_callback
  \/ depth_image_callback \/ center_point_callback
  \/ depthCoordinatesCallback \/ moveitCallback \/ Moved

Spec == Init /\ [][Next]_vars

(* The nodes run, and motions end.  all_test's executor runs the messages  *)
(* that wait before it lets the timer, ready again at once after a long    *)
(* motion, run twice: a message is not passed over for ever.               *)
FairSpec ==
  /\ Spec
  /\ WF_vars(center_point_callback) /\ WF_vars(Moved)
  /\ SF_vars(depthCoordinatesCallback)

-----------------------------------------------------------------------------
TypeOK ==
  /\ scene \in Scene
  /\ frame \in 0 .. MaxScene /\ depth_image_ \in 0 .. MaxScene
  /\ object_center \in Seq(Scene)
  /\ depth_coordinates \in Seq(Point)
  /\ {object, pose_, last} \subseteq Point \cup {None}
  /\ aim \in [Arm -> Point \cup {Origin, Posture}]
  /\ {first_execution_, lost} \subseteq BOOLEAN
  /\ arms \in {"idle", "moving"}
  /\ blind \in Nat

(* The arms' target and the frame that others see come by two ways: when   *)
(* nothing is under way, the target is the last point, and the frame shows *)
(* it, or the origin after a detection without depth (depth_image_         *)
(* processing.cpp:92-96 publishes the one and not the other).              *)
WaysAgree == depth_coordinates = <<>> => pose_ = last /\ object \in {last, Origin}

(* Whatever arrives during a motion, an arm that was planned for is on its *)
(* way to the last point that was taken, or, if the transform failed, to   *)
(* the origin (all_test.cpp:48-63, 75); the others are on their way to the *)
(* posture (115-125, 140-150), both only in the one blind motion (158).    *)
MovesToTarget == arms = "moving" =>
  /\ \A a \in Arm : aim[a] \in {IF lost THEN Origin ELSE pose_, Posture}
  /\ (\A a \in Arm : aim[a] = Posture) => blind = 1

(* The arms go to a fixed posture that has nothing to do with the target   *)
(* at most once, however often planning fails (all_test.cpp:158).          *)
BlindOnce == blind <= 1

(* The target does not go back to an older sighting, nor to an older depth *)
(* image, through two lossy queues and a slow motion.                      *)
NeverBack ==
  [][pose_'.seen >= pose_.seen /\ pose_'.measured >= pose_.measured]_vars

(* The last point becomes the target, however many came before it and      *)
(* however long the motions take (queue depth 10, all_test.cpp:26).        *)
CatchesUp == \A p \in Point : last = p ~> pose_ = p \/ last # p
=============================================================================
