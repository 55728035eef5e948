------------------------- MODULE MCWheelKinematics --------------------------
(* A chassis of half sides 3 and 4, for which many twists turn into whole  *)
(* speeds; one twist that does not, and one out of range.  Tilts count     *)
(* tenths of a milliradian: 4.2 - 4/3 pi is 0.0112.                        *)
EXTENDS WheelKinematics

MCInputs == [x : {-4, 0, 4}, y : {-3, 3}, z : {0, 1}]
              \cup {[x |-> 1, y |-> 2, z |-> 0], [x |-> 0, y |-> 9, z |-> 0]}
=============================================================================
