--------------------------- MODULE MCGraspPipeline ---------------------------
(* Three scenes and queues of two messages: one more than fits is enough   *)
(* for the oldest to be lost while the arms move.                          *)
EXTENDS GraspPipeline
=============================================================================
