----------------------------- MODULE MCBaseNode -----------------------------
(* One wheel, one servo and queues of one place: progress does not depend  *)
(* on how many devices a callback walks.                                   *)
EXTENDS BaseNode
=============================================================================
