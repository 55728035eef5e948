---------------------------- MODULE MCOfflineVoice ----------------------------
(* Two failures put the robot to sleep; queues of two messages.            *)
EXTENDS OfflineVoice
=============================================================================
