----------------------------- MODULE MCWheelBus -----------------------------
(* Two wheels and one servo, and queues of two places: the smallest        *)
(* instance in which an answer can be taken for another device's and in    *)
(* which a queue fills up, after two requests that were given up early.    *)
EXTENDS WheelBus
=============================================================================
