------------------------------ MODULE WheelBus ------------------------------
(***************************************************************************)
(* The request/answer traffic between the firmware's only FreeRTOS task    *)
(* and the four DDSM115 wheel motors (RS485 on USART1) and the four        *)
(* steering servos (USART3).                                               *)
(*                                                                         *)
(* The task runs the micro-ROS executor (freertos.c).  A callback walks    *)
(* the devices in order; for each it transmits a frame and then polls a    *)
(* FreeRTOS queue until an answer, ANY answer, is in it or its timer has   *)
(* run out (ddsm115.cpp, servo.cpp).  The IDLE interrupt of the UART moves *)
(* an answer of the right length from the DMA buffer into the queue.       *)
(* Neither the interrupt nor the task compares the id in the answer with   *)
(* the id of the request, and the queue is never emptied before a request. *)
(*                                                                         *)
(* A reading is abstracted to the device that measured it, which is what   *)
(* the properties are about.                                               *)
(***************************************************************************)
EXTENDS Integers, Sequences, FiniteSets

CONSTANTS
  NumWheels,    \* wheels on USART1 (4 in the code)
  NumServos,    \* steering servos on USART3 (4 in the code)
  QueueLength,  \* items of R485_DataQueue and DDSM115_Servo_DataQueue (10)
  SetTicks,     \* ticks setTargetSpeed waits for an answer (100)
  GetTicks,     \* ticks getCurrentSpeed and getCurrentAngle wait (10)
  MaxLate       \* bound: the history variable late counts up to MaxLate

ASSUME ConstantsAssumption ==
  /\ NumWheels \in Nat \ {0}
  /\ NumServos \in Nat \ {0}
  /\ QueueLength \in Nat \ {0}
  /\ SetTicks \in Nat
  /\ GetTicks \in Nat
  /\ MaxLate \in Nat
  /\ MaxLate >= QueueLength

LastDevice == NumWheels + NumServos
Wheel      == 1 .. NumWheels
Servo      == NumWheels + 1 .. LastDevice
Device     == 1 .. LastDevice       \* in the order the callbacks visit them

Bus == {"usart1", "usart3"}
BusOf(d)     == IF d \in Wheel THEN "usart1" ELSE "usart3"
DevicesOn(b) == {d \in Device : BusOf(d) = b}

Unset   == 0     \* the value a device object is constructed with
Command == -1    \* the target angle a servo object was last told to reach

(* An answer: the device that sent it, and whether its checksum (and, for a *)
(* servo, its header) is right.                                             *)
Frame == [from : Device, intact : BOOLEAN]

PubTimer == "rs485pub_timer_callback"
BaseSub  == "rs485_subscription_callback"
VARIABLES
  callback,  \* the callback being executed, "none" between callbacks
  pc,        \* "idle", "send", "poll" (xQueueReceive), "check" (the timer)
  device,    \* the device the callback is at
  elapsed,   \* xTaskGetTickCount() - timer
  queue,     \* per bus, the queue the interrupt fills
  owed,      \* devices that heard a request and have not answered it yet
  reading,   \* current_speed / current_angle of each device object
  late,      \* history: per bus, requests given up with an answer still due
  dropped    \* history: buses on which a full queue lost an answer

taskVars == <<callback, pc, device, elapsed>>
busVars  == <<queue, owed, reading, late, dropped>>
vars     == <<callback, pc, device, elapsed, queue, owed, reading, late,
              dropped>>

Init ==
  /\ callback = "none"
  /\ pc = "idle"
  /\ device = 1
  /\ elapsed = 0
  /\ queue = [b \in Bus |-> <<>>]
  /\ owed = {}
  /\ reading = [d \in Device |-> Unset]
  /\ late = [b \in Bus |-> 0]
  /\ dropped = {}

-----------------------------------------------------------------------------
(* The task inside a callback.                                             *)

Waiting     == pc \in {"poll", "check"}
Limit       == IF callback = BaseSub THEN SetTicks ELSE GetTicks
WaitsOn(b)  == Waiting /\ BusOf(device) = b

(* The executor calls rs485pub_timer_callback, which reads all devices, or *)
(* rs485_subscription_callback, which commands them.                       *)
Begin(c) ==
  /\ pc = "idle"
  /\ callback' = c
  /\ pc' = "send"
  /\ device' = 1
  /\ UNCHANGED <<elapsed, busVars>>

(* Seeded fault: the walk over the devices has no end.                     *)
NextDeviceUnbounded ==
  /\ elapsed' = 0
  /\ device' = device + 1
  /\ pc' = "send"
  /\ UNCHANGED callback

(* The call for this device returns; the callback goes on to the next one  *)
(* or, after the last, returns to the executor (the timer callback has     *)
(* then published reading').                                               *)
NextDevice ==
  /\ elapsed' = 0
  /\ IF device < LastDevice
       THEN device' = device + 1 /\ pc' = "send" /\ UNCHANGED callback
       ELSE device' = 1 /\ pc' = "idle" /\ callback' = "none"

(* Seeded fault: the next request is sent without waiting for the answer.  *)
RequestNoWait ==
  /\ pc = "send"
  /\ callback = PubTimer \/ device \in Wheel
  /\ owed' \in {owed, owed \cup {device}}
  /\ NextDevice
  /\ UNCHANGED <<queue, reading, late, dropped>>

(* Transmit a frame that is answered and start the timer.  The device may  *)
(* fail to hear it.                                                        *)
Request ==
  /\ pc = "send"
  /\ callback = PubTimer \/ device \in Wheel
  /\ owed' \in {owed, owed \cup {device}}
  /\ elapsed' = 0
  /\ pc' = "poll"
  /\ UNCHANGED <<callback, device, queue, reading, late, dropped>>

(* servo::setTargetAngle: the object takes the target for its angle, the   *)
(* servo sends no answer.                                                  *)
SetTargetAngle ==
  /\ pc = "send"
  /\ callback = BaseSub
  /\ device \in Servo
  /\ reading' = [reading EXCEPT ![device] = Command]
  /\ NextDevice
  /\ UNCHANGED <<queue, owed, late, dropped>>

(* Seeded fault: xQueuePeek, which leaves the item in the queue.           *)
ReceivePeek ==
  LET f == Head(queue[BusOf(device)])
  IN /\ pc = "poll"
     /\ queue[BusOf(device)] # <<>>
     /\ reading' = IF f.intact THEN [reading EXCEPT ![device] = f.from]
                               ELSE reading
     /\ NextDevice
     /\ UNCHANGED <<queue, owed, late, dropped>>

(* xQueueReceive returned an item: an intact one is the reading, whoever   *)
(* sent it; the call returns in either case.                               *)
Receive ==
  LET b == BusOf(device)
      f == Head(queue[b])
  IN /\ pc = "poll"
     /\ queue[b] # <<>>
     /\ queue' = [queue EXCEPT ![b] = Tail(@)]
     /\ reading' = IF f.intact THEN [reading EXCEPT ![device] = f.from]
                               ELSE reading
     /\ NextDevice
     /\ UNCHANGED <<owed, late, dropped>>

(* xQueueReceive found the queue empty.  An interrupt can come before the  *)
(* timer is looked at.                                                     *)
FoundEmpty ==
  /\ pc = "poll"
  /\ queue[BusOf(device)] = <<>>
  /\ pc' = "check"
  /\ UNCHANGED <<callback, device, elapsed, busVars>>

(* Seeded fault: the timer is restarted inside the loop.                   *)
CheckAgainRestarts ==
  /\ pc = "check"
  /\ elapsed <= Limit
  /\ pc' = "poll"
  /\ elapsed' = 0
  /\ UNCHANGED <<callback, device, busVars>>

CheckAgain ==
  /\ pc = "check"
  /\ elapsed <= Limit
  /\ pc' = "poll"
  /\ UNCHANGED <<callback, device, elapsed, busVars>>

(* The history variable late records a request that is given up although   *)
(* its answer is in the queue or still to come.                            *)
CountLate ==
  LET b == BusOf(device)
  IN IF device \in owed \/ queue[b] # <<>>
       THEN late' = [late EXCEPT ![b] = IF @ < MaxLate THEN @ + 1 ELSE @]
       ELSE UNCHANGED late

GiveUp ==
  /\ pc = "check"
  /\ elapsed > Limit
  /\ CountLate
  /\ NextDevice
  /\ UNCHANGED <<queue, owed, reading, dropped>>

-----------------------------------------------------------------------------
(* The interrupts and the devices.                                         *)

(* SysTick.  Ticks past the limit make no difference.                      *)
Tick ==
  /\ Waiting
  /\ elapsed <= Limit
  /\ elapsed' = elapsed + 1
  /\ UNCHANGED <<callback, pc, device, busVars>>

(* Seeded fault: the queue is one place shorter than it is made for.       *)
UsartCallShortQueue(d, intact) ==
  LET b == BusOf(d)
  IN /\ d \in owed
     /\ owed' = owed \ {d}
     /\ IF Len(queue[b]) < QueueLength - 1
          THEN /\ queue' = [queue EXCEPT ![b] =
                              Append(@, [from |-> d, intact |-> intact])]
               /\ UNCHANGED dropped
          ELSE /\ dropped' = dropped \cup {b}
               /\ UNCHANGED queue
     /\ UNCHANGED <<taskVars, reading, late>>

(* USART1_CALL / USART3_CALL after a frame of the full length:             *)
(* xQueueSendFromISR, whose result is not looked at.                       *)
UsartCall(d, intact) ==
  LET b == BusOf(d)
  IN /\ d \in owed
     /\ owed' = owed \ {d}
     /\ IF Len(queue[b]) < QueueLength
          THEN /\ queue' = [queue EXCEPT ![b] =
                              Append(@, [from |-> d, intact |-> intact])]
               /\ UNCHANGED dropped
          ELSE /\ dropped' = dropped \cup {b}
               /\ UNCHANGED queue
     /\ UNCHANGED <<taskVars, reading, late>>

(* The answer never comes, or its length is wrong and the interrupt        *)
(* restarts the DMA without queueing anything.                             *)
UsartCallShort(d) ==
  /\ d \in owed
  /\ owed' = owed \ {d}
  /\ UNCHANGED <<taskVars, queue, reading, late, dropped>>

Task == Request \/ SetTargetAngle \/ Receive \/ FoundEmpty \/ CheckAgain
          \/ GiveUp

Environment ==
  \E d \in Device : \/ UsartCallShort(d)
                    \/ \E intact \in BOOLEAN : UsartCall(d, intact)

Next ==
  \/ \E c \in {PubTimer, BaseSub} : Begin(c)
  \/ Task
  \/ Tick
  \/ Environment

(* The task is the only one above the idle task and never blocks inside a  *)
(* callback, and SysTick never stops.  Nothing is asked of the devices.    *)
Fairness == WF_vars(Task) /\ WF_vars(Tick)

Spec == Init /\ [][Next]_vars

FairSpec == Spec /\ Fairness

-----------------------------------------------------------------------------
(* Properties.                                                             *)

(* Types of the task's, the interrupt's and the history variables.         *)
TypeOK ==
  /\ callback \in {"none", PubTimer, BaseSub}
  /\ pc \in {"idle", "send", "poll", "check"}
  /\ device \in Device
  /\ elapsed \in Nat
  /\ queue \in [Bus -> Seq(Frame)]
  /\ \A b \in Bus : Len(queue[b]) <= QueueLength
  /\ owed \subseteq Device
  /\ reading \in [Device -> Device \cup {Unset, Command}]
  /\ late \in [Bus -> 0 .. MaxLate]
  /\ dropped \subseteq Bus

(* While no answer on a bus has outlived its request, every wheel speed    *)
(* and servo angle the object holds was measured by that very wheel or     *)
(* servo: answers that are lost, cut short or corrupt cannot shift an      *)
(* answer to another device although its id is never looked at             *)
(* (ddsm115.cpp:25-46, 64-86 and servo.cpp:54-78).                         *)
OwnReading ==
  \A b \in Bus : late[b] = 0 =>
    \A d \in DevicesOn(b) : reading[d] \in {Unset, Command, d}

(* Answers not consumed yet: in the queue or still to come.                *)
Backlog(b) == Len(queue[b]) + Cardinality(owed \cap DevicesOn(b))

(* A bus never carries more unconsumed answers than requests that were     *)
(* given up too early, plus the one being waited for: nothing but a late   *)
(* answer builds up a backlog.                                             *)
BacklogBound ==
  \A b \in Bus : late[b] < MaxLate =>
    Backlog(b) <= late[b] + (IF WaitsOn(b) THEN 1 ELSE 0)

(* The interrupt ignores the result of xQueueSendFromISR; an answer is     *)
(* lost there only after as many requests were given up too early as the   *)
(* queue has places.                                                       *)
DropNeedsLateness ==
  \A b \in dropped : late[b] >= QueueLength

(* Every callback returns to the executor, whatever the devices do.        *)
CallbackReturns == (callback # "none") ~> (callback = "none")
=============================================================================
