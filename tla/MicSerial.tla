------------------------------ MODULE MicSerial ------------------------------
(***************************************************************************)
(* The driver of the microphone array (wheeltec_mic): one thread that      *)
(* polls a serial port, cuts the bytes into frames, and between two polls  *)
(* serves one service call, which sends a command and polls the same port  *)
(* for the array's reply.  A poll (Get_Serial_Data) ends when a frame is   *)
(* complete or no byte is left.  A frame says that the wake word was       *)
(* heard, or it is the reply to a command.                                 *)
(*                                                                         *)
(* A byte is the value the driver tests and the place it came from: the    *)
(* checksum is taken to be good for a whole frame of the array and for     *)
(* nothing else.  Header and length are three bytes here (seven there).    *)
(***************************************************************************)
EXTENDS Naturals, Sequences, SequencesExt

CONSTANTS
  Size,      \* bytes of a frame of the array
  Lengths,   \* frame lengths a wrong byte may stand for
  Buffer,    \* bytes in Receive_Data
  MaxCalls, MaxWakes, MaxNoise   \* bounds

ASSUME MicAssumption ==
  /\ {Size, Buffer, MaxCalls, MaxWakes, MaxNoise} \subseteq Nat
  /\ 3 < Size /\ Size <= Buffer
  /\ Lengths \subseteq Nat \ 0 .. 3

VARIABLES
  node,          \* "run", "wait" in a call, "exited" or "crashed"
  reading,       \* in Get_Serial_Data
  late,          \* more than TIMEOUT has passed since the call's command
  Receive_Data,  \* the bytes received of a frame
  frame_len,     \* 0 until it is known
  damaged,       \* device_message, behind Receive_Data, was written over
  process_result, device_message,
  port,          \* bytes on their way
  commands,      \* calls whose command the array has not dealt with
  sent,          \* history: the frames sent, as what they say
  taken,         \* history: the number of the last frame taken
  calls,         \* history: calls made; the last one is this call's name
  given,         \* history: the call that was given the last result, and it
  noise, skipped, timedOut   \* histories

uart  == <<Receive_Data, frame_len>>
reply == <<process_result, device_message>>
array == <<port, commands, sent>>
hist  == <<taken, calls, given, noise, skipped, timedOut>>
vars  == <<node, reading, late, damaged, uart, reply, array, hist>>

Call == 1 .. MaxCalls
Wake == 0   \* what a frame says: wake word heard, or the call it replies to

Byte(v, k, i) == [v |-> v, of |-> k, at |-> i]
Frame(k) == [i \in 1 .. Size |->
  Byte(CASE i = 1 -> "head" [] i = 2 -> "uid" [] i = 3 -> "len" [] OTHER -> "body", k, i)]

Init ==
  /\ node = "run" /\ reading = FALSE /\ late = FALSE
  /\ Receive_Data = <<>> /\ frame_len = 0 /\ damaged = FALSE
  /\ process_result = FALSE /\ device_message = Wake
  /\ port = <<>> /\ commands = <<>> /\ sent = <<>>
  /\ taken = 0 /\ calls = 0
  /\ given = [call |-> 0, result |-> 0]
  /\ noise = 0 /\ skipped = FALSE /\ timedOut = FALSE

-----------------------------------------------------------------------------
(* The driver.                                                             *)

(* process_data and UnPackMsgPacket: a frame with a wrong checksum is      *)
(* dropped; the wake word is published, which has no effect in the driver. *)
process_data(frame) ==
  IF \E k \in 1 .. Len(sent) : frame = Frame(k)
  THEN LET k == frame[1].of
       IN /\ taken' = k
          /\ skipped' = (skipped \/ k # taken + 1)
          /\ IF sent[k] = Wake
             THEN UNCHANGED reply
             ELSE process_result' = TRUE /\ device_message' = sent[k]
  ELSE UNCHANGED <<taken, skipped, reply>>

(* Seeded fault: the checksum is not counted.                              *)
LengthOfShort(b) == IF b.v = "len" THEN {Size - 1} ELSE Lengths

(* Seeded fault: the header is not counted.                                *)
LengthOfBody(b) == IF b.v = "len" THEN {Size - 3} ELSE Lengths

(* The lengths that the third byte may give.                               *)
LengthOf(b) == IF b.v = "len" THEN {Size} ELSE Lengths

Running == node \in {"run", "wait"}

(* A byte that cannot be there resets both counters to 0, which then are   *)
(* equal: process_data is called for a frame of no bytes, and sums up      *)
(* memory from its start to the byte before it, until it faults.           *)
Stray(got) ==
  \/ got[1].v # "head"
  \/ Len(got) = 2 /\ got[2].v # "uid"

(* One byte of a poll.  No length is too long: the bytes of a frame longer *)
(* than Receive_Data are written over what follows it.                     *)
uart_analyse ==
  LET got == Append(Receive_Data, Head(port))
  IN /\ Running /\ reading /\ port # <<>>
     /\ port' = Tail(port)
     /\ damaged' = (damaged \/ Len(got) > Buffer)
     /\ UNCHANGED <<late, commands, sent, calls, given, noise, timedOut>>
     /\ \/ /\ Stray(got)
           /\ node' = "crashed"
           /\ UNCHANGED <<reading, uart, reply, taken, skipped>>
        \/ /\ ~Stray(got)
           /\ UNCHANGED node
           /\ \E n \in IF Len(got) = 3 THEN LengthOf(got[3]) ELSE {frame_len} :
                IF Len(got) = n
                THEN /\ process_data(got)
                     /\ Receive_Data' = <<>> /\ frame_len' = 0
                     /\ reading' = FALSE
                ELSE /\ Receive_Data' = got /\ frame_len' = n
                     /\ UNCHANGED <<reading, reply, taken, skipped>>

(* Seeded fault: the poll waits for the rest of a frame.                   *)
DrainedOfFrame ==
  /\ Running /\ reading /\ port = <<>> /\ Receive_Data = <<>>
  /\ reading' = FALSE
  /\ UNCHANGED <<node, late, damaged, uart, reply, array, hist>>

(* Get_Serial_Data finds no byte available.                                *)
Drained ==
  /\ Running /\ reading /\ port = <<>>
  /\ reading' = FALSE
  /\ UNCHANGED <<node, late, damaged, uart, reply, array, hist>>

(* Get_Serial_Data is called, by run or by the loop of a call.             *)
Poll ==
  /\ ~reading
  /\ node = "run" \/ (node = "wait" /\ ~late /\ ~process_result)
  /\ reading' = TRUE
  /\ UNCHANGED <<node, late, damaged, uart, reply, array, hist>>

(* What lies behind the buffer was overwritten, the string device_message  *)
(* first: any further step may be the last.                                *)
Breaks ==
  /\ damaged /\ Running
  /\ node' = "crashed"
  /\ UNCHANGED <<reading, late, damaged, uart, reply, array, hist>>

(* Seeded fault: an old result is not cleared.                             *)
StartCallStale ==
  /\ node = "run" /\ ~reading
  /\ calls < MaxCalls
  /\ calls' = calls + 1
  /\ \/ node' = "wait" /\ late' = FALSE /\ commands' = Append(commands, calls')
     \/ UNCHANGED <<node, late, commands>>
  /\ UNCHANGED <<reading, damaged, uart, reply, port, sent, taken, given, noise, skipped, timedOut>>

(* getDeviceTypeCallback and switchMicCallback, up to their first poll;    *)
(* sending fails where the port does.                                      *)
StartCall ==
  /\ node = "run" /\ ~reading
  /\ calls < MaxCalls
  /\ calls' = calls + 1
  /\ process_result' = FALSE
  /\ \/ /\ node' = "wait" /\ reading' = TRUE /\ late' = FALSE
        /\ commands' = Append(commands, calls')
     \/ UNCHANGED <<node, reading, late, commands>>
  /\ UNCHANGED <<damaged, uart, device_message, port, sent, taken, given,
                 noise, skipped, timedOut>>

(* A damaged device_message may hold anything.                             *)
EndCall ==
  /\ node = "wait" /\ ~reading
  /\ ~late /\ process_result
  /\ node' = "run"
  /\ \E m \in IF damaged THEN Call \cup {Wake} ELSE {device_message} :
       given' = [call |-> calls, result |-> m]
  /\ UNCHANGED <<reading, late, damaged, uart, reply, array, taken, calls, noise, skipped, timedOut>>

(* The clock is read after a poll, and counts more than a result.          *)
Timeout ==
  /\ node = "wait" /\ ~reading
  /\ late
  /\ node' = "run"
  /\ timedOut' = TRUE
  /\ UNCHANGED <<reading, late, damaged, uart, reply, array, taken, calls, given, noise, skipped>>

(* setAwakeWordCallback: where sending succeeds the process ends.          *)
SetAwakeWord ==
  /\ node = "run" /\ ~reading
  /\ calls < MaxCalls
  /\ calls' = calls + 1
  /\ process_result' = FALSE
  /\ node' \in {"run", "exited"}
  /\ UNCHANGED <<reading, late, damaged, uart, device_message, array, taken, given,
                 noise, skipped, timedOut>>

-----------------------------------------------------------------------------
(* The clock, the array and the line.                                      *)
TimePasses ==
  /\ node = "wait" /\ ~late
  /\ late' = TRUE
  /\ UNCHANGED <<node, reading, damaged, uart, reply, array, hist>>

Says(m) ==
  /\ sent' = Append(sent, m)
  /\ port' = port \o Frame(Len(sent'))

Heard ==
  /\ Cardinality({k \in DOMAIN sent : sent[k] = Wake}) < MaxWakes
  /\ Says(Wake)
  /\ UNCHANGED <<node, reading, late, damaged, uart, reply, commands, taken, calls, given,
                 noise, skipped, timedOut>>

(* The array answers its commands in order, some of them not at all.       *)
Obeys ==
  /\ commands # <<>>
  /\ commands' = Tail(commands)
  /\ Says(Head(commands)) \/ UNCHANGED <<port, sent>>
  /\ UNCHANGED <<node, reading, late, damaged, uart, reply, hist>>

(* A byte is lost, comes twice, or is wrong.                               *)
Noise ==
  /\ noise < MaxNoise
  /\ noise' = noise + 1
  /\ \E i \in DOMAIN port :
       \/ port' = RemoveAt(port, i)
       \/ port' = InsertAt(port, i, port[i])
       \/ \E v \in {"head", "uid", "body"} : port' = [port EXCEPT ![i] = Byte(v, 0, 0)]
  /\ UNCHANGED <<node, reading, late, damaged, uart, reply, commands, sent, taken, calls, given,
                 skipped, timedOut>>

Driver ==
  \/ uart_analyse \/ Drained \/ Poll \/ Breaks
  \/ StartCall \/ EndCall \/ Timeout \/ SetAwakeWord

Next == Driver \/ TimePasses \/ Heard \/ Obeys \/ Noise

Spec == Init /\ [][Next]_vars

(* The driver's thread runs, and time passes; the array need not speak.    *)
FairSpec == Spec /\ WF_vars(Driver) /\ WF_vars(TimePasses)

-----------------------------------------------------------------------------
(* Types; a frame is not read past the length it announced.                *)
TypeOK ==
  /\ node \in {"run", "wait", "exited", "crashed"}
  /\ {reading, late, damaged} \subseteq BOOLEAN
  /\ frame_len \in {0, Size} \cup Lengths
  /\ IF frame_len = 0 THEN Len(Receive_Data) < 3
                      ELSE Len(Receive_Data) \in 3 .. frame_len - 1
  /\ process_result \in BOOLEAN
  /\ device_message \in Call \cup {Wake}
  /\ \A i \in DOMAIN sent : sent[i] \in Call \cup {Wake}
  /\ taken \in 0 .. Len(sent)
  /\ calls \in 0 .. MaxCalls
  /\ given \in [call : 0 .. MaxCalls, result : 0 .. MaxCalls]

(* On a line without faults every frame is taken, once and in its turn,    *)
(* whichever of the two loops polled its bytes, the buffer never holds     *)
(* more than the frame due, and the driver does not die.                   *)
CleanLine == noise = 0 => ~skipped /\ Len(Receive_Data) < Size /\ node # "crashed"

(* A call is given the reply to its own command, unless an earlier call    *)
(* had run out of time (ros2_service.cpp:41-57: nothing in the reply or in *)
(* process_result says to which call it belongs) or the string it is kept  *)
(* in was written over.                                                    *)
OwnReply ==
  given.result # given.call => damaged \/ (timedOut /\ given.result < given.call)

(* A call returns or the driver has died, though the array keeps silent or *)
(* its reply stops in the middle: the clock is read only between two polls *)
(* (ros2_service.cpp:42-51), and each poll ends.                           *)
CallReturns == node = "wait" ~> node # "wait"
=============================================================================
