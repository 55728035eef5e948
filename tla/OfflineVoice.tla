----------------------------- MODULE OfflineVoice -----------------------------
(***************************************************************************)
(* Voice control without a network: three nodes of wheeltec_mic_ros2.      *)
(* call_recognition asks voice_control for one recognition after the other *)
(* while the robot is awake; voice_control records until its engine or its *)
(* timer thread says it is enough, publishes the word and replies;         *)
(* command_recognition obeys the word.  Being awake is a flag sent over    *)
(* the topic awake_flag by the microphone (1) and by command_recognition   *)
(* (0, on the word for sleep), and changed by the replies as well.         *)
(*                                                                         *)
(* A word is "command" or "sleep": what the nodes downstream do with a     *)
(* command is left out, and so are sounds and the counts that only report. *)
(***************************************************************************)
EXTENDS Naturals, Sequences

CONSTANTS
  Threshold,   \* failed recognitions in a row that put the robot to sleep
  Limit,       \* time_per_order
  Depth,       \* history depth of the topics: the oldest message gives way
  MaxCrossed   \* bound: wake words that cross a recognition

ASSUME OfflineAssumption ==
  /\ {Threshold, Depth} \subseteq Nat \ {0}
  /\ {Limit, MaxCrossed} \subseteq Nat

VARIABLES
  caller,      \* call_recognition: awake_flag, call_, recognize_fail_count
  server,      \* voice_control: "idle", "read", "check", "end", "reply", "down"
  result,      \* its next reply
  init_rec,    \* set while it records
  whether_finised,  \* "no", or set by "engine" or "time"
  timer,       \* the thread run(): "look", "time", "set"
  elapsed,     \* time since start_time
  awake, words,         \* the topics awake_flag and voice_words
  requests, responses,  \* the service: how many wait, and the replies sent
  recorded,    \* history: time since this recording began
  late,        \* history: the thread had not come round when it began
  failed,      \* history: an engine failed since the last awake_flag
  crossed      \* history: messages of awake_flag that crossed a recognition

recording == <<server, result, init_rec, recorded, late>>
timing    == <<timer, elapsed>>
topics    == <<awake, words>>
service   == <<requests, responses>>
vars == <<caller, recording, whether_finised, timing, topics, service, failed, crossed>>

Init ==
  /\ caller \in [awake_flag : {0}, call_ : BOOLEAN, fails : {0}]
  /\ server = "idle" /\ result = "" /\ init_rec = FALSE
  /\ whether_finised = "no"
  /\ timer = "look" /\ elapsed = 0
  /\ awake = <<>> /\ words = <<>>
  /\ requests = 0 /\ responses = <<>>
  /\ recorded = 0 /\ late = FALSE /\ failed = FALSE /\ crossed = 0

Push(q, m) == IF Len(q) < Depth THEN Append(q, m) ELSE Append(Tail(q), m)
Rest(q)    == IF q = <<>> THEN q ELSE Tail(q)

(* Recognitions that were asked for and whose words may yet be heard, and  *)
(* those whose reply was not yet taken.                                    *)
Unheard(n)     == n + IF server \in {"read", "check", "end"} THEN 1 ELSE 0
Outstanding(n) == n + (IF server = "idle" THEN 0 ELSE 1) + Len(responses)

-----------------------------------------------------------------------------
(* call_recognition.                                                       *)

(* Seeded fault: going to sleep withdraws the permission to ask.           *)
awake_flag_CallbackKeepsCall(c) ==
  IF awake = <<>> THEN c
  ELSE [c EXCEPT !.awake_flag = Head(awake), !.fails = 0]

awake_flag_Callback(c) ==
  IF awake = <<>> THEN c ELSE [awake_flag |-> Head(awake), call_ |-> TRUE, fails |-> 0]

(* A reply without text, after an engine failure, is only logged.          *)
server_callback_(c) ==
  IF responses = <<>> THEN c
  ELSE CASE Head(responses) = "sleep" -> [c EXCEPT !.awake_flag = 0, !.fails = 0]
         [] Head(responses) = "ok"    -> [c EXCEPT !.call_ = TRUE, !.fails = 0]
         [] Head(responses) = "fail"  ->
              IF c.fails + 1 = Threshold
              THEN [awake_flag |-> 0, call_ |-> TRUE, fails |-> 0]
              ELSE [c EXCEPT !.call_ = TRUE, !.fails = @ + 1]
         [] OTHER -> c

(* Does that reply make it publish the word for sleep itself?              *)
GaveUp(c) ==
  /\ responses # <<>>
  /\ Head(responses) = "fail"
  /\ c.fails + 1 = Threshold

(* Seeded fault: an awake robot asks whenever it comes round.              *)
SendsAgain == caller.awake_flag = 1

Sends == caller.awake_flag = 1 /\ caller.call_

(* One turn of the loop of request_: send, then take at most one message   *)
(* of the topic and at most one reply.                                     *)
CallLoop ==
  LET asked == IF Sends THEN [caller EXCEPT !.call_ = FALSE] ELSE caller
      told  == awake_flag_Callback(asked)
      n     == requests + IF Sends THEN 1 ELSE 0
      cross == /\ awake # <<>>
               /\ IF Head(awake) = 1 THEN Outstanding(n) > 0 ELSE Unheard(n) > 0
      over  == n + (IF server = "idle" THEN 0 ELSE 1) + Len(Rest(responses)) = 0
  IN /\ caller' = server_callback_(told)
     /\ words' = IF GaveUp(told) THEN Push(words, "sleep") ELSE words
     /\ requests' = n
     /\ awake' = Rest(awake)
     /\ responses' = Rest(responses)
     /\ failed' = (failed /\ awake = <<>>)
     /\ crossed' = IF over THEN 0 ELSE crossed + IF cross THEN 1 ELSE 0
     /\ UNCHANGED <<recording, whether_finised, timing>>

-----------------------------------------------------------------------------
(* voice_control: Get_Offline_Recognise_Result.                            *)
Accept ==
  /\ server = "idle"
  /\ requests > 0
  /\ requests' = requests - 1
  /\ whether_finised' = "no"
  /\ UNCHANGED <<caller, result, init_rec, recorded, timing, topics, responses, crossed>>
  /\ \/ /\ server' = "read"
        /\ recorded' = 0
        /\ late' = (timer # "look")
        /\ UNCHANGED <<result, failed>>
     \/ (* no engine *)
        /\ server' = "reply"
        /\ failed' = TRUE
        /\ UNCHANGED late
     \/ (* no sound device: exit(1) *)
        /\ server' = "down"
        /\ UNCHANGED <<late, failed>>

(* get_record_sound: a chunk of sound, which the engine may find enough,   *)
(* or an error of the device.                                              *)
ReadSound ==
  /\ server = "read"
  /\ \/ /\ server' = "check"
        /\ init_rec' = TRUE
        /\ whether_finised' \in {whether_finised, "engine"}
     \/ /\ server' = "end"
        /\ UNCHANGED <<init_rec, whether_finised>>
  /\ UNCHANGED <<caller, result, recorded, late, timing, topics, service, failed, crossed>>

(* Seeded fault: the flag is consumed, and the recording goes on.          *)
business_data_tForgets ==
  /\ server = "check"
  /\ server' = IF whether_finised = "engine" THEN "end" ELSE "read"
  /\ whether_finised' = "no"
  /\ UNCHANGED <<caller, result, init_rec, recorded, late, timing, topics, service, failed, crossed>>

business_data_t ==
  /\ server = "check"
  /\ server' = IF whether_finised = "no" THEN "read" ELSE "end"
  /\ whether_finised' = "no"
  /\ UNCHANGED <<caller, result, init_rec, recorded, late, timing, topics, service, failed, crossed>>

(* The recording is over: a confident word is published, and the reply is  *)
(* sent a second later.                                                    *)
EndRecord ==
  /\ server = "end"
  /\ server' = "reply"
  /\ init_rec' = FALSE
  /\ recorded' = 0 /\ late' = FALSE
  /\ \/ result' = "ok"    /\ words' = Push(words, "command")
     \/ result' = "sleep" /\ words' = Push(words, "sleep")
     \/ result' = "fail"  /\ UNCHANGED words
  /\ UNCHANGED <<caller, whether_finised, timing, awake, service, failed, crossed>>

Reply ==
  /\ server = "reply"
  /\ server' = "idle"
  /\ responses' = Append(responses, result)
  /\ result' = ""
  /\ UNCHANGED <<caller, init_rec, recorded, late, whether_finised, timing,
                 topics, requests, failed, crossed>>

-----------------------------------------------------------------------------
(* voice_control: the thread run().                                        *)

(* Seeded fault: the clock is started once, not for each recording.        *)
LookOnce ==
  /\ timer = "look"
  /\ init_rec
  /\ timer' = "time"
  /\ UNCHANGED <<elapsed, caller, recording, whether_finised, topics, service, failed, crossed>>

Look ==
  /\ timer = "look"
  /\ init_rec
  /\ timer' = "time"
  /\ elapsed' = 0
  /\ UNCHANGED <<caller, recording, whether_finised, topics, service, failed, crossed>>

Time ==
  /\ timer = "time"
  /\ \/ ~init_rec \/ whether_finised # "no"
     \/ elapsed > Limit
  /\ timer' = IF init_rec /\ whether_finised = "no" THEN "set" ELSE "look"
  /\ UNCHANGED <<elapsed, caller, recording, whether_finised, topics, service, failed, crossed>>

SetFinished ==
  /\ timer = "set"
  /\ timer' = "look"
  /\ whether_finised' = "time"
  /\ UNCHANGED <<elapsed, caller, recording, topics, service, failed, crossed>>

-----------------------------------------------------------------------------
(* command_recognition: voice_words_Callback.                              *)
voice_words_Callback ==
  /\ words # <<>>
  /\ words' = Tail(words)
  /\ awake' = IF Head(words) = "sleep" THEN Push(awake, 0) ELSE awake
  /\ UNCHANGED <<caller, recording, whether_finised, timing, service, failed, crossed>>

(* The microphone hears the wake word.                                     *)
Wake ==
  /\ crossed < MaxCrossed
  /\ awake' = Push(awake, 1)
  /\ UNCHANGED <<caller, recording, whether_finised, timing, words, service, failed, crossed>>

(* Time passes; beyond the limit it makes no difference.                   *)
Tick ==
  /\ \/ init_rec /\ recorded <= Limit
     \/ timer = "time" /\ elapsed <= Limit
  /\ recorded' = IF init_rec /\ recorded <= Limit THEN recorded + 1 ELSE recorded
  /\ elapsed' = IF timer = "time" /\ elapsed <= Limit THEN elapsed + 1 ELSE elapsed
  /\ UNCHANGED <<caller, server, result, init_rec, late, whether_finised, timer,
                 topics, service, failed, crossed>>

Control == Accept \/ ReadSound \/ business_data_t \/ EndRecord \/ Reply
Thread  == Look \/ Time \/ SetFinished

Next == CallLoop \/ Control \/ Thread \/ voice_words_Callback \/ Wake \/ Tick

Spec == Init /\ [][Next]_vars

(* Every node and thread runs and time passes; no one need speak.          *)
FairSpec ==
  /\ Spec
  /\ WF_vars(CallLoop) /\ WF_vars(Control) /\ WF_vars(Thread)
  /\ WF_vars(voice_words_Callback) /\ WF_vars(Tick)

-----------------------------------------------------------------------------
TypeOK ==
  /\ caller \in [awake_flag : {0, 1}, call_ : BOOLEAN, fails : 0 .. Threshold - 1]
  /\ server \in {"idle", "read", "check", "end", "reply", "down"}
  /\ result \in {"ok", "sleep", "fail", ""}
  /\ {init_rec, late, failed} \subseteq BOOLEAN
  /\ whether_finised \in {"no", "engine", "time"}
  /\ timer \in {"look", "time", "set"}
  /\ {elapsed, recorded} \subseteq 0 .. Limit + 1
  /\ awake \in Seq({0, 1})
  /\ words \in Seq({"command", "sleep"})
  /\ requests \in Nat
  /\ responses \in Seq({"ok", "sleep", "fail", ""})
  /\ crossed \in Nat

(* Recognitions are asked for one at a time, but for one more with each    *)
(* message of awake_flag that arrives during one (call_recognition.cpp:20  *)
(* grants the permission anew, whatever is under way).                     *)
OneAtATime == Outstanding(requests) <= 1 + crossed

(* While the robot sleeps nobody listens to it: no recognition is asked    *)
(* for or recording, unless a message crossed one (call_recognition.cpp:   *)
(* 40, 59 against voice_control.cpp:396 and command_recognition.cpp:114).  *)
AsleepIsDeaf == caller.awake_flag = 0 /\ Unheard(requests) > 0 => crossed > 0

(* An awake robot has asked or will, but for a failed engine: the empty    *)
(* reply takes the permission with it until the next wake word             *)
(* (call_recognition.cpp:67, voice_control.cpp:372).                       *)
AwakeAsks ==
  caller.awake_flag = 1 => caller.call_ \/ Outstanding(requests) > 0 \/ failed

(* A recording that the timer ends has had its time, however the thread    *)
(* and the service cross on the flags they share, unless the thread had    *)
(* slept through the pause before it (voice_control.cpp:225-233, 466-472). *)
CutShortOnlyIfLate ==
  server \in {"read", "check"} /\ whether_finised = "time" /\ recorded <= Limit => late

(* A recording ends, though the engine may find nothing in it.             *)
RecordingEnds == server \in {"read", "check"} ~> server \notin {"read", "check"}
=============================================================================
