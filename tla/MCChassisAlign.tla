--------------------------- MODULE MCChassisAlign ---------------------------
(* Poses of both signs and none, on either axis; a second is three periods,  *)
(* so that a second at Speed stays within Reach, as 18 rpm does (0.097 m).   *)
EXTENDS ChassisAlign

MCPoses == {[x |-> 1, y |-> 0], [x |-> -1, y |-> 1], [x |-> 0, y |-> -1]}
MCTwists == {0, 4}
MCGarbage == {0, 1, 5}
=============================================================================
