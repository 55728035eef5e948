------------------------------ MODULE BaseNode ------------------------------
(***************************************************************************)
(* StartDefaultTask (freertos.c): the micro-ROS executor with its three    *)
(* handles, composed with the bus traffic its callbacks generate.          *)
(*                                                                         *)
(* rclc_executor_spin_some waits until a handle has something to serve,    *)
(* then serves every handle found ready in the order in which the handles  *)
(* were added.  Its code is a binary library outside the repository's own  *)
(* sources.                                                                *)
(***************************************************************************)
EXTENDS WheelBus

StepperSub == "stepping_subscription_callback"
Callback   == {PubTimer, BaseSub, StepperSub}

(* The order in which StartDefaultTask adds the handles to the executor.   *)
Handle == [c \in Callback |->
             CASE c = PubTimer -> 1 [] c = BaseSub -> 2 [] OTHER -> 3]

VARIABLES
  pending,   \* handles with a timer expiry or a message nobody served yet
  ready      \* handles the current spin_some found ready and has not served

nodeVars == <<pending, ready, callback, pc, device, elapsed, queue, owed,
              reading, late, dropped>>

NodeInit ==
  /\ Init
  /\ pending = {}
  /\ ready = {}

(* The agent delivers a message, or the 10 ms timer expires.               *)
Trigger(c) ==
  /\ c \notin pending
  /\ pending' = pending \cup {c}
  /\ UNCHANGED <<ready, vars>>

(* Seeded fault: one handle per call, the first ready one.                 *)
SpinFirst ==
  /\ pc = "idle"
  /\ ready = {}
  /\ \E c \in pending :
       /\ \A o \in pending : Handle[c] <= Handle[o]
       /\ ready' = {c}
       /\ pending' = pending \ {c}
  /\ UNCHANGED vars

(* rclc_executor_spin_some: find the ready handles ...                     *)
SpinSome ==
  /\ pc = "idle"
  /\ ready = {}
  /\ pending # {}
  /\ ready' = pending
  /\ pending' = {}
  /\ UNCHANGED vars

(* ... and call back for each.  The stepper callback only transmits on a   *)
(* third UART and waits for nothing.                                       *)
Dispatch(c) ==
  /\ pc = "idle"
  /\ c \in ready
  /\ \A o \in ready : Handle[c] <= Handle[o]
  /\ ready' = ready \ {c}
  /\ IF c = StepperSub THEN UNCHANGED vars ELSE Begin(c)
  /\ UNCHANGED pending

Executor == SpinSome \/ \E c \in Callback : Dispatch(c)

NodeNext ==
  \/ \E c \in Callback : Trigger(c)
  \/ Executor
  \/ (Task \/ Tick \/ Environment) /\ UNCHANGED <<pending, ready>>

(* The task loops over spin_some and osDelay for ever; SysTick runs.  The  *)
(* host, the timer and the devices owe nothing.                            *)
NodeFairness ==
  /\ WF_nodeVars(Executor)
  /\ WF_nodeVars(Task /\ UNCHANGED <<pending, ready>>)
  /\ WF_nodeVars(Tick /\ UNCHANGED <<pending, ready>>)

NodeSpec == NodeInit /\ [][NodeNext]_nodeVars

NodeFairSpec == NodeSpec /\ NodeFairness

-----------------------------------------------------------------------------
(* A base_control message is served even though walking the devices takes  *)
(* longer than the timer's 10 ms period, so that the timer's handle, which *)
(* comes first, is ready in every sweep (freertos.c:347-356).              *)
CommandServed == (BaseSub \in pending) ~> (callback = BaseSub)
=============================================================================
