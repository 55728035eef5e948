-------------------------------- MODULE Turns --------------------------------
(***************************************************************************)
(* What the voice dialogue promises its user: after the wake word, the     *)
(* robot and the user speak in turn.  The wake word is needed once; every  *)
(* answer opens the next turn of the user.  After a turn that brings no    *)
(* answer the robot is deaf for good.                                      *)
(***************************************************************************)
VARIABLE turn   \* "asleep", "listening", "answering", "deaf"

Init == turn = "asleep"

WakeUp == turn = "asleep"    /\ turn' = "listening"
Hear   == turn = "listening" /\ turn' = "answering"
Answer == turn = "answering" /\ turn' = "listening"
GoDeaf == turn \in {"listening", "answering"} /\ turn' = "deaf"

Next == WakeUp \/ Hear \/ Answer \/ GoDeaf

Safety == Init /\ [][Next]_turn

(* A turn that was begun comes to its end; the wake word need not come.    *)
Spec == Safety /\ WF_turn(Hear \/ Answer \/ GoDeaf)
=============================================================================
