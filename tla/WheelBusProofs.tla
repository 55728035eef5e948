--------------------------- MODULE WheelBusProofs ---------------------------
(***************************************************************************)
(* Proofs, for any number of wheels and servos, any queue length and any   *)
(* timeouts, of what MCWheelBus checks on a small instance, that it holds  *)
(* of the bus under the executor too, and of what the liveness checked by  *)
(* MCBaseNode rests on.                                                    *)
(***************************************************************************)
EXTENDS BaseNode, FiniteSetTheorems, TLAPS

(* The position a callback is at stays within the devices, and the control *)
(* variables keep their types, when it moves on.                           *)
LEMMA NextDeviceType ==
  ASSUME TypeOK, NextDevice
  PROVE  /\ callback' \in {"none", PubTimer, BaseSub}
         /\ pc' \in {"send", "idle"}
         /\ device' \in Device
         /\ elapsed' \in Nat
<1>1. LastDevice \in Nat /\ LastDevice >= 1
  BY ConstantsAssumption DEF LastDevice
<1>. QED  BY <1>1 DEF TypeOK, NextDevice, Device, PubTimer, BaseSub

LEMMA BusOfType == \A d : BusOf(d) \in Bus
BY DEF BusOf, Bus

(* Every variable keeps its type: the walk over the devices stays within   *)
(* them and no queue outgrows its length (ddsm115_c_api.cpp:15-38,         *)
(* freertos.c:120-157).                                                    *)
THEOREM TypeCorrect == Spec => []TypeOK
<1>1. Init => TypeOK
  <2>1. LastDevice \in Nat /\ LastDevice >= 1
    BY ConstantsAssumption DEF LastDevice
  <2>. QED  BY <2>1, ConstantsAssumption
            DEF Init, TypeOK, Device, Bus, Frame, PubTimer, BaseSub, Unset,
                Command
<1>2. TypeOK /\ [Next]_vars => TypeOK'
  <2>. SUFFICES ASSUME TypeOK, [Next]_vars  PROVE TypeOK'
    OBVIOUS
  <2>1. ASSUME NEW c \in {PubTimer, BaseSub}, Begin(c)  PROVE TypeOK'
    <3>1. 1 \in Device
      BY ConstantsAssumption DEF Device, LastDevice
    <3>. QED  BY <2>1, <3>1 DEF TypeOK, Begin, busVars
  <2>2. CASE Request
    BY <2>2 DEF TypeOK, Request
  <2>3. CASE SetTargetAngle
    <3>1. reading' \in [Device -> Device \cup {Unset, Command}]
      BY <2>3 DEF TypeOK, SetTargetAngle
    <3>. QED  BY <2>3, <3>1, NextDeviceType DEF TypeOK, SetTargetAngle
  <2>4. CASE Receive
    <3>. DEFINE b == BusOf(device)
    <3>1. b \in Bus /\ queue[b] \in Seq(Frame) /\ queue[b] # <<>>
      BY <2>4, BusOfType DEF TypeOK, Receive
    <3>2. /\ Head(queue[b]) \in Frame
          /\ Tail(queue[b]) \in Seq(Frame)
          /\ Len(Tail(queue[b])) = Len(queue[b]) - 1
      BY <3>1
    <3>3. queue' = [queue EXCEPT ![b] = Tail(@)]
      BY <2>4 DEF Receive
    <3>4. /\ queue' \in [Bus -> Seq(Frame)]
          /\ \A c \in Bus : Len(queue'[c]) <= QueueLength
      BY <3>1, <3>2, <3>3, ConstantsAssumption DEF TypeOK
    <3>5. reading' \in [Device -> Device \cup {Unset, Command}]
      <4>1. Head(queue[b]).from \in Device
        BY <3>2 DEF Frame
      <4>2. reading' = IF Head(queue[b]).intact
                         THEN [reading EXCEPT ![device] = Head(queue[b]).from]
                         ELSE reading
        BY <2>4 DEF Receive
      <4>. QED  BY <4>1, <4>2 DEF TypeOK
    <3>6. NextDevice /\ UNCHANGED <<owed, late, dropped>>
      BY <2>4 DEF Receive
    <3>. QED  BY <3>4, <3>5, <3>6, NextDeviceType DEF TypeOK
  <2>5. CASE FoundEmpty
    BY <2>5 DEF TypeOK, FoundEmpty, busVars
  <2>6. CASE CheckAgain
    BY <2>6 DEF TypeOK, CheckAgain, busVars
  <2>7. CASE GiveUp
    <3>1. late' \in [Bus -> 0 .. MaxLate]
      BY <2>7, BusOfType, ConstantsAssumption DEF TypeOK, GiveUp, CountLate
    <3>. QED  BY <2>7, <3>1, NextDeviceType DEF TypeOK, GiveUp
  <2>8. CASE Tick
    BY <2>8 DEF TypeOK, Tick, busVars
  <2>9. ASSUME NEW d \in Device, UsartCallShort(d)  PROVE TypeOK'
    BY <2>9 DEF TypeOK, UsartCallShort, taskVars
  <2>10. ASSUME NEW d \in Device, NEW intact \in BOOLEAN,
                UsartCall(d, intact)
         PROVE  TypeOK'
    <3>. DEFINE b == BusOf(d)
                f == [from |-> d, intact |-> intact]
    <3>1. b \in Bus /\ queue[b] \in Seq(Frame) /\ f \in Frame
      BY BusOfType DEF TypeOK, Frame
    <3>2. owed' \subseteq Device
      BY <2>10 DEF UsartCall, TypeOK
    <3>3. CASE Len(queue[b]) < QueueLength
      <4>1. /\ Append(queue[b], f) \in Seq(Frame)
            /\ Len(Append(queue[b], f)) = Len(queue[b]) + 1
        BY <3>1
      <4>2. queue' = [queue EXCEPT ![b] = Append(@, f)] /\ UNCHANGED dropped
        BY <2>10, <3>3 DEF UsartCall
      <4>3. /\ queue' \in [Bus -> Seq(Frame)]
            /\ \A c \in Bus : Len(queue'[c]) <= QueueLength
        BY <3>1, <3>3, <4>1, <4>2, ConstantsAssumption DEF TypeOK
      <4>. QED  BY <2>10, <3>2, <4>2, <4>3 DEF TypeOK, UsartCall, taskVars
    <3>4. CASE ~(Len(queue[b]) < QueueLength)
      BY <2>10, <3>1, <3>2, <3>4 DEF TypeOK, UsartCall, taskVars
    <3>. QED  BY <3>3, <3>4
  <2>11. CASE UNCHANGED vars
    BY <2>11 DEF TypeOK, vars
  <2>. QED  BY <2>1, <2>2, <2>3, <2>4, <2>5, <2>6, <2>7, <2>8, <2>9, <2>10,
               <2>11 DEF Next, Task, Environment
<1>. QED  BY <1>1, <1>2, PTL DEF Spec

-----------------------------------------------------------------------------
(***************************************************************************)
(* OwnReading is not inductive: it does not say whose answers are on their *)
(* way.  InSync does: on a bus on which no answer has outlived its request *)
(* there is nothing to come and nothing queued between two requests, and   *)
(* during a request at most the answer of the device being asked.          *)
(***************************************************************************)
InSync(b) ==
  /\ \A d \in DevicesOn(b) : reading[d] \in {Unset, Command, d}
  /\ WaitsOn(b) =>
       /\ owed \cap DevicesOn(b) \subseteq {device}
       /\ \/ queue[b] = <<>>
          \/ /\ Len(queue[b]) = 1
             /\ Head(queue[b]).from = device
             /\ device \notin owed
  /\ ~WaitsOn(b) =>
       /\ owed \cap DevicesOn(b) = {}
       /\ queue[b] = <<>>

SyncInv == \A b \in Bus : late[b] = 0 => InSync(b)

(* The first moment of InSync: between two requests.                       *)
LEMMA IdleBus ==
  ASSUME NEW b \in Bus, InSync(b), pc' \in {"idle", "send"},
         \A d \in DevicesOn(b) : reading'[d] \in {Unset, Command, d},
         owed' \cap DevicesOn(b) = {},
         queue'[b] = <<>>
  PROVE  InSync(b)'
BY DEF InSync, WaitsOn, Waiting, DevicesOn, BusOf, Wheel, Device

(* SyncInv is inductive.                                                   *)
LEMMA SyncStep == TypeOK /\ SyncInv /\ [Next]_vars => SyncInv'
<1>. SUFFICES ASSUME TypeOK, SyncInv, [Next]_vars,
                     NEW b \in Bus, late'[b] = 0
              PROVE  InSync(b)'
  BY DEF SyncInv
<1>0. MaxLate >= 1 /\ MaxLate \in Nat
  BY ConstantsAssumption
<1>1. ASSUME NEW c \in {PubTimer, BaseSub}, Begin(c)  PROVE InSync(b)'
  <2>1. InSync(b)
    BY <1>1 DEF SyncInv, Begin, busVars
  <2>2. ~WaitsOn(b)
    BY <1>1 DEF Begin, WaitsOn, Waiting
  <2>. QED  BY <1>1, <2>1, <2>2, IdleBus DEF Begin, busVars, InSync
<1>2. CASE Request
  <2>1. InSync(b) /\ ~WaitsOn(b)
    BY <1>2 DEF SyncInv, Request, WaitsOn, Waiting
  <2>2. owed \cap DevicesOn(b) = {} /\ queue[b] = <<>>
    BY <2>1 DEF InSync
  <2>3. /\ device' = device /\ pc' = "poll" /\ queue' = queue
        /\ reading' = reading
        /\ owed' \subseteq owed \cup {device}
    BY <1>2 DEF Request
  <2>4. WaitsOn(b)' => owed' \cap DevicesOn(b) \subseteq {device'}
    BY <2>2, <2>3
  <2>5. ~WaitsOn(b)' => owed' \cap DevicesOn(b) = {}
    <3>1. ~WaitsOn(b)' => device \notin DevicesOn(b)
      BY <2>3 DEF WaitsOn, Waiting, DevicesOn, BusOf, Wheel
    <3>. QED  BY <2>2, <2>3, <3>1
  <2>. QED  BY <2>1, <2>2, <2>3, <2>4, <2>5
            DEF InSync, DevicesOn, BusOf, Wheel, Device
<1>3. CASE SetTargetAngle
  <2>1. InSync(b) /\ ~WaitsOn(b)
    BY <1>3 DEF SyncInv, SetTargetAngle, WaitsOn, Waiting
  <2>2. /\ pc' \in {"idle", "send"}
        /\ owed' = owed /\ queue' = queue
        /\ \A d \in Device : reading'[d] \in {reading[d], Command}
    BY <1>3, NextDeviceType DEF SetTargetAngle, TypeOK
  <2>3. \A d \in DevicesOn(b) : reading'[d] \in {Unset, Command, d}
    BY <2>1, <2>2 DEF InSync, DevicesOn
  <2>. QED  BY <2>1, <2>2, <2>3, IdleBus DEF InSync
<1>4. CASE Receive
  <2>. DEFINE c == BusOf(device)
  <2>1. /\ InSync(b)
        /\ pc' \in {"idle", "send"}
        /\ owed' = owed
        /\ queue[c] # <<>>
        /\ queue' = [queue EXCEPT ![c] = Tail(@)]
        /\ c \in Bus
    BY <1>4, NextDeviceType, BusOfType DEF SyncInv, Receive
  <2>2. \A d \in Device : d # device => reading'[d] = reading[d]
    BY <1>4 DEF Receive, TypeOK
  <2>3. reading'[device] \in {reading[device], Head(queue[c]).from}
    BY <1>4 DEF Receive, TypeOK
  <2>4. CASE b = c
    <3>1. WaitsOn(b)
      BY <1>4, <2>4 DEF Receive, WaitsOn, Waiting
    <3>2. /\ Len(queue[b]) = 1
          /\ Head(queue[b]).from = device
          /\ device \notin owed
          /\ owed \cap DevicesOn(b) \subseteq {device}
      BY <2>1, <2>4, <3>1 DEF InSync
    <3>3. queue'[b] = <<>>
      BY <2>1, <2>4, <3>2 DEF TypeOK
    <3>4. \A d \in DevicesOn(b) : reading'[d] \in {Unset, Command, d}
      <4>1. device \in DevicesOn(b)
        BY <2>4 DEF DevicesOn, TypeOK
      <4>. QED  BY <2>1, <2>2, <2>3, <2>4, <3>2, <4>1 DEF InSync, DevicesOn
    <3>. QED  BY <2>1, <3>2, <3>3, <3>4, IdleBus
  <2>5. CASE b # c
    <3>1. ~WaitsOn(b)
      BY <2>5 DEF WaitsOn
    <3>2. queue'[b] = <<>> /\ owed' \cap DevicesOn(b) = {}
      BY <2>1, <2>5, <3>1 DEF InSync, TypeOK
    <3>3. \A d \in DevicesOn(b) : reading'[d] \in {Unset, Command, d}
      BY <2>1, <2>2, <2>5 DEF InSync, DevicesOn
    <3>. QED  BY <2>1, <3>2, <3>3, IdleBus
  <2>. QED  BY <2>4, <2>5
<1>5. CASE FoundEmpty
  <2>1. InSync(b) /\ (WaitsOn(b)' <=> WaitsOn(b))
    BY <1>5 DEF SyncInv, FoundEmpty, busVars, WaitsOn, Waiting, BusOf, Wheel
  <2>. QED  BY <1>5, <2>1 DEF FoundEmpty, busVars, InSync, DevicesOn, BusOf,
                              Wheel, Device
<1>6. CASE CheckAgain
  <2>1. InSync(b) /\ (WaitsOn(b)' <=> WaitsOn(b))
    BY <1>6 DEF SyncInv, CheckAgain, busVars, WaitsOn, Waiting, BusOf, Wheel
  <2>. QED  BY <1>6, <2>1 DEF CheckAgain, busVars, InSync, DevicesOn, BusOf,
                              Wheel, Device
<1>7. CASE GiveUp
  <2>. DEFINE c == BusOf(device)
  <2>1. /\ c \in Bus
        /\ pc' \in {"idle", "send"}
        /\ UNCHANGED <<queue, owed, reading>>
        /\ CountLate
    BY <1>7, NextDeviceType, BusOfType DEF GiveUp
  <2>2. InSync(b) /\ (b = c => device \notin owed /\ queue[b] = <<>>)
    BY <1>0, <2>1 DEF SyncInv, CountLate, TypeOK
  <2>3. owed \cap DevicesOn(b) = {} /\ queue[b] = <<>>
    BY <2>2 DEF InSync, WaitsOn
  <2>. QED  BY <2>1, <2>2, <2>3, IdleBus DEF InSync
<1>8. CASE Tick
  <2>1. InSync(b) /\ (WaitsOn(b)' <=> WaitsOn(b))
    BY <1>8 DEF SyncInv, Tick, busVars, WaitsOn, Waiting, BusOf, Wheel
  <2>. QED  BY <1>8, <2>1 DEF Tick, busVars, InSync, DevicesOn, BusOf,
                              Wheel, Device
<1>9. ASSUME NEW d \in Device, UsartCallShort(d)  PROVE InSync(b)'
  <2>1. InSync(b) /\ (WaitsOn(b)' <=> WaitsOn(b)) /\ owed' \subseteq owed
    BY <1>9 DEF SyncInv, UsartCallShort, taskVars, WaitsOn, Waiting, BusOf,
                Wheel
  <2>. QED  BY <1>9, <2>1 DEF UsartCallShort, taskVars, InSync, DevicesOn,
                              BusOf, Wheel, Device
<1>10. ASSUME NEW d \in Device, NEW intact \in BOOLEAN,
              UsartCall(d, intact)
       PROVE  InSync(b)'
  <2>. DEFINE c == BusOf(d)
              f == [from |-> d, intact |-> intact]
  <2>1. /\ InSync(b)
        /\ WaitsOn(b)' <=> WaitsOn(b)
        /\ d \in owed /\ owed' = owed \ {d}
        /\ UNCHANGED <<device, reading>>
        /\ c \in Bus
    BY <1>10, BusOfType
    DEF SyncInv, UsartCall, taskVars, WaitsOn, Waiting, BusOf, Wheel
  <2>2. CASE b = c
    <3>1. d \in DevicesOn(b)
      BY <2>2 DEF DevicesOn
    <3>2. WaitsOn(b) /\ d = device /\ queue[b] = <<>>
      BY <2>1, <3>1 DEF InSync
    <3>3. queue'[b] = <<f>>
      BY <1>10, <2>1, <2>2, <3>2, ConstantsAssumption DEF UsartCall, TypeOK
    <3>4. Len(queue'[b]) = 1 /\ Head(queue'[b]).from = device'
      BY <2>1, <3>2, <3>3
    <3>. QED  BY <2>1, <3>2, <3>4 DEF InSync, DevicesOn, BusOf, Wheel, Device
  <2>3. CASE b # c
    <3>1. queue'[b] = queue[b]
      BY <1>10, <2>1, <2>3 DEF UsartCall, TypeOK
    <3>2. owed' \cap DevicesOn(b) = owed \cap DevicesOn(b)
      BY <2>1, <2>3 DEF DevicesOn
    <3>3. device \notin owed => device' \notin owed'
      BY <2>1
    <3>. QED  BY <2>1, <3>1, <3>2, <3>3
              DEF InSync, DevicesOn, BusOf, Wheel, Device
  <2>. QED  BY <2>2, <2>3
<1>11. CASE UNCHANGED vars
  BY <1>11 DEF SyncInv, vars, InSync, WaitsOn, Waiting, DevicesOn, BusOf,
               Wheel, Device
<1>. QED  BY <1>1, <1>2, <1>3, <1>4, <1>5, <1>6, <1>7, <1>8, <1>9, <1>10,
             <1>11 DEF Next, Task, Environment

(* For every number of devices, queue length and timeout: lost, short and  *)
(* corrupt answers never make a device object hold another device's        *)
(* reading; only an answer that outlives its request can.                  *)
THEOREM ReadingsAreOwn == Spec => []OwnReading
<1>1. Init => SyncInv
  BY DEF Init, SyncInv, InSync, WaitsOn, Waiting, DevicesOn
<1>2. SyncInv => OwnReading
  BY DEF SyncInv, InSync, OwnReading
<1>. QED  BY <1>1, <1>2, TypeCorrect, SyncStep, PTL DEF Spec

-----------------------------------------------------------------------------
(***************************************************************************)
(* BacklogBound is not inductive either: when a request is given up after  *)
(* its answer was lost, late stays and the bound loses the one answer it   *)
(* allowed for the request.  BacklogInv adds that the answers still due    *)
(* from OTHER devices never outnumber late.                                *)
(***************************************************************************)
Due(b) == owed \cap DevicesOn(b)

BacklogInv ==
  \A b \in Bus : late[b] < MaxLate =>
    /\ ~WaitsOn(b) => Backlog(b) <= late[b]
    /\ WaitsOn(b) => /\ Backlog(b) <= late[b] + 1
                     /\ Cardinality(Due(b) \ {device}) <= late[b]

(* The sets of devices are finite, and their sizes change as expected.     *)
LEMMA DueSize ==
  \A S \in SUBSET Device :
    /\ Cardinality(S) \in Nat
    /\ \A R \in SUBSET S : Cardinality(R) <= Cardinality(S)
    /\ \A d \in S : Cardinality(S \ {d}) = Cardinality(S) - 1
    /\ \A d : Cardinality(S \cup {d}) <= Cardinality(S) + 1
<1>1. IsFiniteSet(Device)
  BY FS_Interval, ConstantsAssumption DEF Device, LastDevice
<1>. SUFFICES ASSUME NEW S \in SUBSET Device
              PROVE  /\ Cardinality(S) \in Nat
                     /\ \A R \in SUBSET S : Cardinality(R) <= Cardinality(S)
                     /\ \A d \in S : Cardinality(S \ {d}) = Cardinality(S) - 1
                     /\ \A d : Cardinality(S \cup {d}) <= Cardinality(S) + 1
  OBVIOUS
<1>2. IsFiniteSet(S)
  BY <1>1, FS_Subset
<1>3. Cardinality(S) \in Nat
  BY <1>2, FS_CardinalityType
<1>4. \A R \in SUBSET S : Cardinality(R) <= Cardinality(S)
  BY <1>2, FS_Subset
<1>5. \A d \in S : Cardinality(S \ {d}) = Cardinality(S) - 1
  BY <1>2, FS_RemoveElement
<1>6. \A d : Cardinality(S \cup {d}) <= Cardinality(S) + 1
  BY <1>2, <1>3, FS_AddElement
<1>. QED  BY <1>3, <1>4, <1>5, <1>6

(* Nothing of a bus changes, except that an answer may be lost.            *)
LEMMA BacklogKept ==
  ASSUME TypeOK, BacklogInv, NEW b \in Bus, late'[b] < MaxLate,
         late'[b] = late[b],
         Len(queue'[b]) = Len(queue[b]),
         Due(b)' \subseteq Due(b),
         WaitsOn(b)' <=> WaitsOn(b),
         device' = device \/ ~WaitsOn(b)
  PROVE  /\ ~WaitsOn(b)' => Backlog(b)' <= late'[b]
         /\ WaitsOn(b)' => /\ Backlog(b)' <= late'[b] + 1
                           /\ Cardinality(Due(b)' \ {device'}) <= late'[b]
<1>1. Due(b) \in SUBSET Device /\ Due(b)' \in SUBSET Device
  BY DEF Due, TypeOK
<1>2. /\ Cardinality(Due(b)') <= Cardinality(Due(b))
      /\ Cardinality(Due(b)') \in Nat /\ Cardinality(Due(b)) \in Nat
  BY <1>1, DueSize
<1>3. Backlog(b)' <= Backlog(b)
  BY <1>2 DEF Backlog, Due, TypeOK
<1>4. /\ Cardinality(Due(b)' \ {device}) <= Cardinality(Due(b) \ {device})
      /\ Cardinality(Due(b)' \ {device}) \in Nat
      /\ Cardinality(Due(b) \ {device}) \in Nat
  <2>1. /\ Due(b) \ {device} \in SUBSET Device
        /\ Due(b)' \ {device} \in SUBSET (Due(b) \ {device})
    BY <1>1
  <2>. QED  BY <2>1, DueSize
<1>5. Backlog(b) \in Nat /\ Backlog(b)' \in Nat /\ late[b] \in Nat
  BY <1>2 DEF Backlog, Due, TypeOK
<1>6. CASE WaitsOn(b)
  <2>1. /\ Backlog(b) <= late[b] + 1
        /\ Cardinality(Due(b) \ {device}) <= late[b]
    BY <1>6 DEF BacklogInv
  <2>2. device' = device
    BY <1>6
  <2>. QED  BY <1>3, <1>4, <1>5, <1>6, <2>1, <2>2
<1>7. CASE ~WaitsOn(b)
  <2>1. Backlog(b) <= late[b]
    BY <1>7 DEF BacklogInv
  <2>. QED  BY <1>3, <1>5, <1>7, <2>1
<1>. QED  BY <1>6, <1>7

(* BacklogInv is inductive.                                                *)
LEMMA BacklogStep == TypeOK /\ BacklogInv /\ [Next]_vars => BacklogInv'
<1>. SUFFICES ASSUME TypeOK, BacklogInv, [Next]_vars,
                     NEW b \in Bus, late'[b] < MaxLate
              PROVE  /\ ~WaitsOn(b)' => Backlog(b)' <= late'[b]
                     /\ WaitsOn(b)' =>
                          /\ Backlog(b)' <= late'[b] + 1
                          /\ Cardinality(Due(b)' \ {device'}) <= late'[b]
  BY DEF BacklogInv
<1>0. /\ Due(b) \in SUBSET Device
      /\ Cardinality(Due(b)) \in Nat
      /\ Len(queue[b]) \in Nat
      /\ late[b] \in Nat
  <2>1. Due(b) \in SUBSET Device
    BY DEF Due, TypeOK
  <2>. QED  BY <2>1, DueSize DEF TypeOK
<1>1. ASSUME NEW c \in {PubTimer, BaseSub}, Begin(c)
      PROVE  /\ ~WaitsOn(b)' => Backlog(b)' <= late'[b]
             /\ ~WaitsOn(b)'
  <2>1. ~WaitsOn(b) /\ ~WaitsOn(b)' /\ UNCHANGED <<queue, owed, late>>
    BY <1>1 DEF Begin, busVars, WaitsOn, Waiting
  <2>. QED  BY <2>1, BacklogKept DEF Due
<1>2. ASSUME Request
      PROVE  /\ ~WaitsOn(b)' => Backlog(b)' <= late'[b]
             /\ WaitsOn(b)' =>
                  /\ Backlog(b)' <= late'[b] + 1
                  /\ Cardinality(Due(b)' \ {device'}) <= late'[b]
  <2>1. /\ ~WaitsOn(b)
        /\ UNCHANGED <<queue, late, device>>
        /\ owed' \in {owed, owed \cup {device}}
        /\ WaitsOn(b)' <=> BusOf(device) = b
    BY <1>2 DEF Request, WaitsOn, Waiting, BusOf, Wheel
  <2>2. Backlog(b) <= late[b]
    BY <2>1 DEF BacklogInv
  <2>3. CASE BusOf(device) = b
    <3>1. Due(b)' \in {Due(b), Due(b) \cup {device}}
      BY <2>1, <2>3 DEF Due, DevicesOn, TypeOK
    <3>2. /\ Cardinality(Due(b)') <= Cardinality(Due(b)) + 1
          /\ Cardinality(Due(b)') \in Nat
      <4>1. Due(b)' \in SUBSET Device
        BY <1>0, <3>1 DEF TypeOK
      <4>. QED  BY <1>0, <3>1, <4>1, DueSize
    <3>3. /\ Cardinality(Due(b)' \ {device}) <= Cardinality(Due(b))
          /\ Cardinality(Due(b)' \ {device}) \in Nat
      <4>1. Due(b)' \ {device} \in SUBSET Due(b)
        BY <3>1
      <4>. QED  BY <1>0, <4>1, DueSize
    <3>. QED  BY <1>0, <2>1, <2>2, <2>3, <3>2, <3>3 DEF Backlog, Due
  <2>4. CASE BusOf(device) # b
    <3>1. Due(b)' = Due(b)
      BY <2>1, <2>4 DEF Due, DevicesOn
    <3>. QED  BY <2>1, <2>4, <3>1, BacklogKept
  <2>. QED  BY <2>3, <2>4
<1>3. ASSUME SetTargetAngle
      PROVE  ~WaitsOn(b)' /\ Backlog(b)' <= late'[b]
  <2>1. ~WaitsOn(b) /\ ~WaitsOn(b)' /\ UNCHANGED <<queue, owed, late>>
    BY <1>3, NextDeviceType DEF SetTargetAngle, WaitsOn, Waiting
  <2>. QED  BY <2>1, BacklogKept DEF Due
<1>4. ASSUME Receive
      PROVE  ~WaitsOn(b)' /\ Backlog(b)' <= late'[b]
  <2>. DEFINE c == BusOf(device)
  <2>1. /\ ~WaitsOn(b)'
        /\ UNCHANGED <<owed, late>>
        /\ queue[c] # <<>>
        /\ queue' = [queue EXCEPT ![c] = Tail(@)]
        /\ c \in Bus
        /\ Waiting
    BY <1>4, NextDeviceType, BusOfType DEF Receive, WaitsOn, Waiting
  <2>2. CASE b = c
    <3>1. Len(queue'[b]) = Len(queue[b]) - 1
      BY <2>1, <2>2 DEF TypeOK
    <3>2. Backlog(b) <= late[b] + 1
      BY <2>1, <2>2 DEF BacklogInv, WaitsOn
    <3>. QED  BY <1>0, <2>1, <3>1, <3>2 DEF Backlog, Due
  <2>3. CASE b # c
    <3>1. ~WaitsOn(b) /\ queue'[b] = queue[b]
      BY <2>1, <2>3 DEF WaitsOn, TypeOK
    <3>. QED  BY <2>1, <3>1, BacklogKept DEF Due
  <2>. QED  BY <2>2, <2>3
<1>5. ASSUME FoundEmpty \/ CheckAgain \/ Tick
      PROVE  /\ UNCHANGED <<queue, owed, late, device>>
             /\ WaitsOn(b)' <=> WaitsOn(b)
  BY <1>5 DEF FoundEmpty, CheckAgain, Tick, busVars, WaitsOn, Waiting, BusOf,
              Wheel
<1>6. ASSUME GiveUp
      PROVE  ~WaitsOn(b)' /\ Backlog(b)' <= late'[b]
  <2>. DEFINE c == BusOf(device)
  <2>1. /\ ~WaitsOn(b)'
        /\ UNCHANGED <<queue, owed>>
        /\ CountLate
        /\ Waiting
        /\ c \in Bus
    BY <1>6, NextDeviceType, BusOfType DEF GiveUp, WaitsOn, Waiting
  <2>2. CASE b = c
    <3>1. WaitsOn(b) /\ late[b] < MaxLate
      BY <1>0, <2>1, <2>2, ConstantsAssumption DEF WaitsOn, CountLate, TypeOK
    <3>2. CASE device \in owed \/ queue[b] # <<>>
      <4>1. late'[b] = late[b] + 1
        BY <2>1, <2>2, <3>1, <3>2 DEF CountLate, TypeOK
      <4>. QED  BY <2>1, <3>1, <4>1 DEF BacklogInv, Backlog
    <3>3. CASE ~(device \in owed \/ queue[b] # <<>>)
      <4>1. late'[b] = late[b]
        BY <2>1, <2>2, <3>3 DEF CountLate
      <4>2. Due(b) \ {device} = Due(b)
        BY <3>3 DEF Due
      <4>3. Cardinality(Due(b)) <= late[b]
        BY <3>1, <4>2 DEF BacklogInv
      <4>4. Len(queue[b]) = 0
        BY <3>3
      <4>. QED  BY <1>0, <2>1, <4>1, <4>3, <4>4 DEF Backlog, Due
    <3>. QED  BY <3>2, <3>3
  <2>3. CASE b # c
    <3>1. ~WaitsOn(b) /\ late'[b] = late[b]
      BY <2>1, <2>3 DEF WaitsOn, CountLate, TypeOK
    <3>. QED  BY <2>1, <3>1, BacklogKept DEF Due
  <2>. QED  BY <2>2, <2>3
<1>7. ASSUME NEW d \in Device, UsartCallShort(d)
      PROVE  /\ UNCHANGED <<queue, late, device>>
             /\ Due(b)' \subseteq Due(b)
             /\ WaitsOn(b)' <=> WaitsOn(b)
  BY <1>7 DEF UsartCallShort, taskVars, Due, DevicesOn, WaitsOn, Waiting,
              BusOf, Wheel, Device
<1>8. ASSUME NEW d \in Device, NEW intact \in BOOLEAN,
             UsartCall(d, intact)
      PROVE  /\ ~WaitsOn(b)' => Backlog(b)' <= late'[b]
             /\ WaitsOn(b)' =>
                  /\ Backlog(b)' <= late'[b] + 1
                  /\ Cardinality(Due(b)' \ {device'}) <= late'[b]
  <2>. DEFINE c == BusOf(d)
              f == [from |-> d, intact |-> intact]
  <2>1. /\ UNCHANGED <<late, device>>
        /\ WaitsOn(b)' <=> WaitsOn(b)
        /\ d \in owed /\ owed' = owed \ {d}
        /\ c \in Bus
        /\ queue' \in {queue, [queue EXCEPT ![c] = Append(@, f)]}
    BY <1>8, BusOfType
    DEF UsartCall, taskVars, WaitsOn, Waiting, BusOf, Wheel
  <2>2. CASE b = c
    <3>1. d \in Due(b) /\ Due(b)' = Due(b) \ {d}
      BY <2>1, <2>2 DEF Due, DevicesOn
    <3>2. /\ Cardinality(Due(b)') = Cardinality(Due(b)) - 1
          /\ Cardinality(Due(b)' \ {device})
                <= Cardinality(Due(b) \ {device})
          /\ Cardinality(Due(b)' \ {device}) \in Nat
          /\ Cardinality(Due(b) \ {device}) \in Nat
      <4>1. Cardinality(Due(b) \ {d}) = Cardinality(Due(b)) - 1
        BY <1>0, <3>1, DueSize
      <4>2. /\ Due(b) \ {device} \in SUBSET Device
            /\ Due(b)' \ {device} \in SUBSET (Due(b) \ {device})
        BY <1>0, <3>1
      <4>. QED  BY <3>1, <4>1, <4>2, DueSize
    <3>3. Len(queue'[b]) <= Len(queue[b]) + 1 /\ Len(queue'[b]) \in Nat
      <4>1. /\ Len(Append(queue[b], f)) = Len(queue[b]) + 1
            /\ queue'[b] \in {queue[b], Append(queue[b], f)}
        BY <2>1, <2>2 DEF TypeOK
      <4>. QED  BY <1>0, <4>1
    <3>4. Backlog(b)' <= Backlog(b)
      BY <1>0, <3>2, <3>3 DEF Backlog, Due
    <3>5. Backlog(b) \in Nat /\ Backlog(b)' \in Nat
      <4>1. Due(b)' \in SUBSET Device
        BY <1>0, <3>1
      <4>2. Cardinality(Due(b)') \in Nat
        BY <4>1, DueSize
      <4>. QED  BY <1>0, <3>3, <4>2 DEF Backlog, Due
    <3>6. CASE WaitsOn(b)
      <4>1. /\ Backlog(b) <= late[b] + 1
            /\ Cardinality(Due(b) \ {device}) <= late[b]
        BY <2>1, <3>6 DEF BacklogInv
      <4>. QED  BY <1>0, <2>1, <3>2, <3>4, <3>5, <3>6, <4>1
    <3>7. CASE ~WaitsOn(b)
      <4>1. Backlog(b) <= late[b]
        BY <2>1, <3>7 DEF BacklogInv
      <4>. QED  BY <1>0, <2>1, <3>4, <3>5, <3>7, <4>1
    <3>. QED  BY <3>6, <3>7
  <2>3. CASE b # c
    <3>1. queue'[b] = queue[b] /\ Due(b)' = Due(b)
      BY <2>1, <2>3 DEF TypeOK, Due, DevicesOn
    <3>. QED  BY <2>1, <3>1, BacklogKept
  <2>. QED  BY <2>2, <2>3
<1>9. CASE UNCHANGED vars
  <2>1. /\ UNCHANGED <<queue, owed, late, device>>
        /\ WaitsOn(b)' <=> WaitsOn(b)
    BY <1>9 DEF vars, WaitsOn, Waiting, BusOf, Wheel
  <2>. QED  BY <2>1, BacklogKept DEF Due
<1>10. CASE FoundEmpty \/ CheckAgain \/ Tick
  BY <1>5, <1>10, BacklogKept DEF Due
<1>11. CASE \E d \in Device : UsartCallShort(d)
  <2>1. /\ UNCHANGED <<queue, late, device>>
        /\ Due(b)' \subseteq Due(b)
        /\ WaitsOn(b)' <=> WaitsOn(b)
    BY <1>7, <1>11
  <2>. QED  BY <2>1, BacklogKept
<1>. QED  BY <1>1, <1>2, <1>3, <1>4, <1>6, <1>8, <1>9, <1>10, <1>11
          DEF Next, Task, Environment

(* A full queue costs an answer only when the backlog exceeds the queue.   *)
LEMMA DropStep ==
  TypeOK /\ BacklogInv /\ DropNeedsLateness /\ [Next]_vars
    => DropNeedsLateness'
<1>. SUFFICES ASSUME TypeOK, BacklogInv, DropNeedsLateness, [Next]_vars,
                     NEW b \in dropped'
              PROVE  late'[b] >= QueueLength
  BY DEF DropNeedsLateness
<1>1. ASSUME NEW d \in Device, NEW intact \in BOOLEAN, UsartCall(d, intact),
             b \notin dropped
      PROVE  late'[b] >= QueueLength
  <2>1. /\ b = BusOf(d) /\ b \in Bus
        /\ ~(Len(queue[b]) < QueueLength)
        /\ d \in owed
        /\ late' = late
    BY <1>1, BusOfType DEF UsartCall
  <2>2. /\ Due(b) \in SUBSET Device
        /\ d \in Due(b)
    BY <2>1 DEF Due, DevicesOn, TypeOK
  <2>3. Cardinality(Due(b)) >= 1 /\ Cardinality(Due(b)) \in Nat
    <3>1. /\ Cardinality(Due(b) \ {d}) = Cardinality(Due(b)) - 1
          /\ Cardinality(Due(b)) \in Nat
      BY <2>2, DueSize
    <3>2. Cardinality(Due(b) \ {d}) \in Nat
      <4>1. Due(b) \ {d} \in SUBSET Device
        BY <2>2
      <4>. QED  BY <4>1, DueSize
    <3>. QED  BY <3>1, <3>2
  <2>4. Backlog(b) >= QueueLength + 1 /\ Backlog(b) \in Nat
    BY <2>1, <2>3, ConstantsAssumption DEF Backlog, Due, TypeOK
  <2>5. late[b] \in 0 .. MaxLate
    BY <2>1 DEF TypeOK
  <2>6. CASE late[b] < MaxLate
    <3>1. Backlog(b) <= late[b] + 1
      <4>1. Backlog(b) <= late[b] \/ Backlog(b) <= late[b] + 1
        BY <2>1, <2>6 DEF BacklogInv
      <4>. QED  BY <2>4, <2>5, <4>1
    <3>. QED  BY <2>1, <2>4, <2>5, <3>1, ConstantsAssumption
  <2>7. CASE ~(late[b] < MaxLate)
    BY <2>1, <2>5, <2>7, ConstantsAssumption
  <2>. QED  BY <2>6, <2>7
<1>2. CASE GiveUp
  <2>1. dropped' = dropped /\ CountLate
    BY <1>2 DEF GiveUp
  <2>2. b \in Bus /\ late[b] >= QueueLength /\ late[b] \in 0 .. MaxLate
    BY <2>1 DEF DropNeedsLateness, TypeOK
  <2>3. late'[b] >= late[b] /\ late'[b] \in Nat
    BY <2>1, <2>2, BusOfType, ConstantsAssumption DEF CountLate, TypeOK
  <2>. QED  BY <2>2, <2>3, ConstantsAssumption
<1>3. CASE UNCHANGED <<late, dropped>>
  BY <1>3 DEF DropNeedsLateness
<1>4. ASSUME NEW d \in Device, NEW intact \in BOOLEAN, UsartCall(d, intact),
             b \in dropped
      PROVE  late'[b] >= QueueLength
  BY <1>4 DEF UsartCall, DropNeedsLateness
<1>. QED
  BY <1>1, <1>2, <1>3, <1>4
  DEF Next, Task, Environment, Begin, Request, SetTargetAngle, Receive,
      FoundEmpty, CheckAgain, Tick, UsartCallShort, busVars, vars

(* Initially nothing is due, late or lost.                                 *)
LEMMA BacklogInit == Init => BacklogInv /\ DropNeedsLateness
<1>1. Cardinality({}) = 0
  BY FS_EmptySet
<1>. QED  BY <1>1, ConstantsAssumption
          DEF Init, BacklogInv, DropNeedsLateness, Backlog, Due, WaitsOn,
              Waiting, Bus

(* However many devices there are and however they behave, a bus never     *)
(* carries more unconsumed answers than requests given up too early plus   *)
(* the one being waited for.                                               *)
THEOREM BacklogBounded == Spec => []BacklogBound
<1>1. TypeOK /\ BacklogInv => BacklogBound
  <2>. SUFFICES ASSUME TypeOK, BacklogInv, NEW b \in Bus, late[b] < MaxLate
                PROVE  Backlog(b) <= late[b] + (IF WaitsOn(b) THEN 1 ELSE 0)
    BY DEF BacklogBound
  <2>1. late[b] \in 0 .. MaxLate
    BY DEF TypeOK
  <2>2. CASE WaitsOn(b)
    BY <2>2 DEF BacklogInv
  <2>3. CASE ~WaitsOn(b)
    <3>1. Backlog(b) <= late[b]
      BY <2>3 DEF BacklogInv
    <3>2. late[b] + 0 = late[b]
      BY <2>1
    <3>. QED  BY <2>3, <3>1, <3>2
  <2>. QED  BY <2>2, <2>3
<1>. QED  BY <1>1, BacklogInit, TypeCorrect, BacklogStep, PTL DEF Spec

(* The interrupt may ignore a full queue until QueueLength requests of     *)
(* that bus have been given up too early.                                  *)
THEOREM DropsNeedLateness == Spec => []DropNeedsLateness
BY BacklogInit, TypeCorrect, BacklogStep, DropStep, PTL DEF Spec


-----------------------------------------------------------------------------
(* Every step of the composition with the executor is a step of the bus,   *)
(* or leaves it alone (freertos.c:340-360).                                *)
THEOREM NodeImplementsBus == NodeSpec => Spec
<1>1. NodeInit => Init
  BY DEF NodeInit
<1>2. [NodeNext]_nodeVars => [Next]_vars
  <2>. SUFFICES ASSUME [NodeNext]_nodeVars  PROVE [Next]_vars
    OBVIOUS
  <2>1. ASSUME NEW c \in Callback, Trigger(c)  PROVE UNCHANGED vars
    BY <2>1 DEF Trigger
  <2>2. CASE SpinSome
    BY <2>2 DEF SpinSome
  <2>3. ASSUME NEW c \in Callback, Dispatch(c)  PROVE [Next]_vars
    <3>1. CASE c = StepperSub
      BY <2>3, <3>1 DEF Dispatch
    <3>2. CASE c # StepperSub
      <4>1. c \in {PubTimer, BaseSub} /\ Begin(c)
        BY <2>3, <3>2 DEF Dispatch, Callback
      <4>. QED  BY <4>1 DEF Next
    <3>. QED  BY <3>1, <3>2
  <2>4. CASE (Task \/ Tick \/ Environment) /\ UNCHANGED <<pending, ready>>
    BY <2>4 DEF Next
  <2>5. CASE UNCHANGED nodeVars
    BY <2>5 DEF nodeVars, vars
  <2>. QED  BY <2>1, <2>2, <2>3, <2>4, <2>5 DEF NodeNext, Executor
<1>. QED  BY <1>1, <1>2, PTL DEF NodeSpec, Spec

(* So the executor's order of callbacks cannot break what holds of the bus.*)
THEOREM NodeReadingsAreOwn == NodeSpec => [](OwnReading /\ BacklogBound /\ DropNeedsLateness)
BY NodeImplementsBus, ReadingsAreOwn, BacklogBounded, DropsNeedLateness, PTL

-----------------------------------------------------------------------------
(* The ticks a callback can still take: the request under way may wait     *)
(* until its timer has passed Limit, each device after it as long.         *)
Wait == Limit + 1

TicksLeft ==
  IF callback = "none" THEN 0
  ELSE (LastDevice - device) * Wait + (IF Waiting THEN Wait - elapsed ELSE Wait)

(* A timer is looked at before it is more than one past the limit, and it  *)
(* is started anew for every device.                                       *)
TimerInv ==
  /\ callback = "none" <=> pc = "idle"
  /\ Waiting => elapsed <= Wait

LEMMA WaitType == Wait \in Nat /\ LastDevice \in Nat /\ LastDevice >= 1
BY ConstantsAssumption DEF Wait, Limit, LastDevice

LEMMA Product ==
  ASSUME NEW a \in Nat, NEW w \in Nat
  PROVE  a * w \in Nat /\ (a + 1) * w = a * w + w
OBVIOUS

LEMMA TimerStep == TypeOK /\ TimerInv /\ [Next]_vars => TimerInv'
<1>. SUFFICES ASSUME TypeOK, TimerInv, [Next]_vars  PROVE TimerInv'
  OBVIOUS
<1>0. Wait \in Nat
  BY WaitType
<1>1. ASSUME NEW c \in {PubTimer, BaseSub}, Begin(c)  PROVE TimerInv'
  BY <1>1 DEF Begin, TimerInv, Waiting, PubTimer, BaseSub
<1>2. ASSUME NextDevice, pc # "idle"  PROVE TimerInv'
  BY <1>2 DEF NextDevice, TimerInv, Waiting
<1>3. CASE Request
  BY <1>0, <1>3 DEF Request, TimerInv, Waiting, Wait, Limit
<1>4. CASE SetTargetAngle
  BY <1>2, <1>4 DEF SetTargetAngle
<1>5. CASE Receive
  BY <1>2, <1>5 DEF Receive
<1>6. CASE FoundEmpty
  BY <1>6 DEF FoundEmpty, TimerInv, Waiting, Wait, Limit
<1>7. CASE CheckAgain
  BY <1>7 DEF CheckAgain, TimerInv, Waiting, Wait, Limit
<1>8. CASE GiveUp
  BY <1>2, <1>8 DEF GiveUp
<1>9. CASE Tick
  <2>1. elapsed \in Nat /\ Limit \in Nat /\ elapsed <= Limit
    BY <1>9, ConstantsAssumption DEF Tick, TypeOK, Limit
  <2>2. elapsed' = elapsed + 1 /\ UNCHANGED <<callback, pc>> /\ Wait' = Limit + 1
    BY <1>9 DEF Tick, Wait, Limit
  <2>3. elapsed' <= Wait'
    BY <2>1, <2>2
  <2>. QED  BY <2>2, <2>3 DEF TimerInv, Waiting
<1>10. CASE Environment \/ UNCHANGED vars
  <2>1. UNCHANGED taskVars
    BY <1>10 DEF Environment, UsartCall, UsartCallShort, vars, taskVars
  <2>. QED  BY <2>1 DEF taskVars, TimerInv, Waiting, Wait, Limit
<1>. QED  BY <1>1, <1>3, <1>4, <1>5, <1>6, <1>7, <1>8, <1>9, <1>10 DEF Next, Task

(* Within a callback the ticks that are left never become more, and each   *)
(* tick takes one of them.                                                 *)
Runs == callback # "none" =>
  /\ TicksLeft' <= TicksLeft
  /\ Tick => TicksLeft' = TicksLeft - 1

LEMMA TicksType ==
  TypeOK /\ TimerInv => TicksLeft \in 0 .. LastDevice * Wait
<1>. SUFFICES ASSUME TypeOK, TimerInv  PROVE TicksLeft \in 0 .. LastDevice * Wait
  OBVIOUS
<1>. DEFINE a == LastDevice - device
<1>1. /\ Wait \in Nat /\ LastDevice \in Nat /\ a \in Nat /\ a + 1 <= LastDevice
  BY WaitType DEF TypeOK, Device
<1>2. a * Wait \in Nat /\ a * Wait + Wait <= LastDevice * Wait /\ LastDevice * Wait \in Nat
  <2>1. (LastDevice - (a + 1)) * Wait \in Nat
    BY <1>1, Product
  <2>2. LastDevice * Wait = (a + 1) * Wait + (LastDevice - (a + 1)) * Wait
    BY <1>1
  <2>. HIDE DEF a
  <2>. QED  BY <1>1, <2>1, <2>2, Product
<1>3. Waiting => elapsed \in 0 .. Wait
  BY DEF TimerInv, TypeOK
<1>. QED  BY <1>1, <1>2, <1>3 DEF TicksLeft

LEMMA TicksStep == TypeOK /\ TypeOK' /\ TimerInv /\ Next => Runs
<1>. SUFFICES ASSUME TypeOK, TypeOK', TimerInv, Next, callback # "none"
              PROVE  /\ TicksLeft' <= TicksLeft
                     /\ Tick => TicksLeft' = TicksLeft - 1
  BY DEF Runs
<1>. DEFINE a == LastDevice - device
<1>0. /\ Wait \in Nat /\ LastDevice \in Nat /\ a \in Nat /\ a * Wait \in Nat
      /\ pc # "idle" /\ elapsed \in Nat /\ device \in Nat
      /\ Waiting => elapsed <= Wait
      /\ TicksLeft \in Nat
  <2>1. Wait \in Nat /\ a \in Nat /\ LastDevice \in Nat /\ device \in Nat
    BY WaitType DEF TypeOK, Device
  <2>2. TicksLeft \in Nat
    BY TicksType
  <2>. QED  BY <2>1, <2>2, Product DEF TimerInv, TypeOK
<1>1. ASSUME NextDevice, pc' # "poll", pc' # "check", ~Tick
      PROVE  TicksLeft' <= TicksLeft
  <2>1. TicksLeft >= a * Wait
    BY <1>0 DEF TicksLeft
  <2>2. CASE device < LastDevice
    <3>1. device' = device + 1 /\ callback' = callback /\ ~Waiting'
      BY <1>1, <2>2 DEF NextDevice, Waiting
    <3>2. TicksLeft' = (LastDevice - (device + 1)) * Wait + Wait
      BY <3>1 DEF TicksLeft, Wait, Limit
    <3>3. a - 1 \in Nat /\ LastDevice - (device + 1) = a - 1 /\ (a - 1) + 1 = a
      BY <1>0, <2>2
    <3>4. ((a - 1) + 1) * Wait = (a - 1) * Wait + Wait
      BY <1>0, <3>3, Product
    <3>. QED  BY <1>0, <2>1, <3>2, <3>3, <3>4
  <2>3. CASE ~(device < LastDevice)
    <3>1. TicksLeft' = 0
      BY <1>1, <2>3 DEF NextDevice, TicksLeft
    <3>. QED  BY <1>0, <3>1
  <2>. QED  BY <2>2, <2>3
<1>2. ASSUME NextDevice  PROVE pc' # "poll" /\ pc' # "check"
  BY <1>2 DEF NextDevice
<1>3. CASE Request
  <2>1. TicksLeft' = TicksLeft /\ ~Tick
    BY <1>0, <1>3 DEF Request, Tick, TicksLeft, Waiting, Wait, Limit
  <2>. QED  BY <1>0, <2>1, TicksType
<1>4. CASE SetTargetAngle
  BY <1>1, <1>2, <1>4 DEF SetTargetAngle, Tick, Waiting
<1>5. CASE Receive
  BY <1>1, <1>2, <1>5, <1>0 DEF Receive, Tick, NextDevice, TypeOK
<1>6. CASE FoundEmpty \/ CheckAgain
  <2>1. TicksLeft' = TicksLeft /\ ~Tick
    BY <1>0, <1>6 DEF FoundEmpty, CheckAgain, Tick, TicksLeft, Waiting, Wait, Limit
  <2>. QED  BY <2>1, TicksType
<1>8. CASE GiveUp
  BY <1>1, <1>2, <1>8, <1>0 DEF GiveUp, Tick, NextDevice
<1>9. CASE Tick
  <2>1. Waiting /\ Waiting' /\ UNCHANGED <<callback, device>> /\ elapsed' = elapsed + 1
    BY <1>9 DEF Tick, Waiting
  <2>2. TicksLeft = a * Wait + (Wait - elapsed)
    BY <2>1 DEF TicksLeft
  <2>3. TicksLeft' = a * Wait + (Wait - (elapsed + 1))
    BY <2>1 DEF TicksLeft, Wait, Limit
  <2>. QED  BY <1>0, <2>2, <2>3
<1>10. CASE Environment
  <2>1. UNCHANGED taskVars /\ ~Tick
    <3>1. UNCHANGED taskVars
      BY <1>10 DEF Environment, UsartCall, UsartCallShort
    <3>. QED  BY <1>0, <3>1 DEF taskVars, Tick
  <2>2. TicksLeft' = TicksLeft
    BY <2>1 DEF taskVars, TicksLeft, Waiting, Wait, Limit
  <2>. QED  BY <2>1, <2>2, TicksType
<1>11. ASSUME NEW c \in {PubTimer, BaseSub}, Begin(c)  PROVE FALSE
  BY <1>0, <1>11 DEF Begin
<1>. QED  BY <1>3, <1>4, <1>5, <1>6, <1>8, <1>9, <1>10, <1>11 DEF Next, Task

(* The safety half of CallbackReturns: for any devices and any answers a   *)
(* callback has at most LastDevice * (Limit + 1) ticks when it begins and  *)
(* uses them up (ddsm115.cpp:64-86, servo.cpp:54-78).                      *)
THEOREM CallbackTicks ==
  Spec => [](TicksLeft \in 0 .. LastDevice * Wait) /\ [][Runs]_vars
<1>1. Init => TimerInv
  BY DEF Init, TimerInv, Waiting
<1>2. Spec => []TimerInv
  BY <1>1, TimerStep, TypeCorrect, PTL DEF Spec
<1>. QED  BY <1>2, TicksType, TicksStep, TypeCorrect, PTL DEF Spec

-----------------------------------------------------------------------------
(* The safety half of CommandServed: a handle with something to serve is   *)
(* taken off only by its own callback, never by a sweep that passes it by, *)
(* and no handle joins a sweep that is under way, to be served before it   *)
(* again.                                                                  *)
Served ==
  /\ \A c \in Callback : c \in pending \cup ready /\ c \notin (pending \cup ready)'
       => c = StepperSub \/ (callback' = c /\ pc' = "send")
  /\ ready # {} => ready' \subseteq ready

THEOREM NothingForgotten == NodeSpec => [][Served]_nodeVars
<1>1. ASSUME NodeNext  PROVE Served
  <2>1. ASSUME NEW c \in Callback, Trigger(c)  PROVE Served
    BY <2>1 DEF Trigger, Served
  <2>2. CASE SpinSome
    BY <2>2 DEF SpinSome, Served
  <2>3. ASSUME NEW c \in Callback, Dispatch(c)  PROVE Served
    BY <2>3 DEF Dispatch, Begin, Served
  <2>4. CASE UNCHANGED <<pending, ready>>
    BY <2>4 DEF Served
  <2>. QED  BY <1>1, <2>1, <2>2, <2>3, <2>4 DEF NodeNext, Executor
<1>. QED  BY <1>1, PTL DEF NodeSpec
=============================================================================
