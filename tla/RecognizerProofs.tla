-------------------------- MODULE RecognizerProofs --------------------------
(***************************************************************************)
(* Proofs about the recogniser, for any number of rounds and any set of    *)
(* failures: types, that sessions are used only while open unless a stop   *)
(* met a callback, that nothing outlives a round, that the words published *)
(* are the round's own, that the shared state is consistent while the      *)
(* user's thread sleeps, and that its waits are for steps about to come.   *)
(***************************************************************************)
EXTENDS Recognizer, TLAPS

(* The conjuncts of TypeOK, by what a proof about them needs.              *)
ControlOK ==
  /\ pc \in [Threads -> UserLabels \union RecordLabels \union EndLabels]
  /\ pc["user"] \in UserLabels \union EndLabels
  /\ pc["record"] \in RecordLabels \union EndLabels

DataOK ==
  /\ round \in 0..MaxRounds
  /\ state \in {"init", "started"}
  /\ recState \in {CREATED, CLOSING, READY, STOPPING, RECORDING}
  /\ pcm \in {"none", "prepared", "running", "xrun", "setup"}
  /\ session \in {NoSession, round}
  /\ open \subseteq 1..round
  /\ ep_stat \in EndPoints
  /\ rec_stat \in RecStatuses
  /\ g_result \subseteq 0..MaxRounds

FlagsOK ==
  /\ resultFlag \in BOOLEAN
  /\ overlapped \in BOOLEAN
  /\ early \in BOOLEAN
  /\ dropFailed \in BOOLEAN
  /\ misused \in BOOLEAN

(* Session 0 would be NULL: a session begins in a round of 1 or more.      *)
RoundBegun == pc["user"] \in {"start", "record", "started"} => round # 0

(* Between rounds there is no thread and no stream; before the state is    *)
(* started no callback gets past its checks.                               *)
LifeInv ==
  /\ pc["user"] \in {"idle", "publish"} => pc["record"] = "gone" /\ pcm = "none"
  /\ pc["user"] \in {"start", "record", "started"} =>
       /\ pc["record"] \in {"gone", "top", "read", "cb"}
       /\ state = "init"
  /\ pc["user"] \in {"start", "record"} =>
       /\ pc["record"] # "cb"
       /\ pcm \in {"none", "prepared"}

(* While dropping a stream worked: an open session is the one in struct     *)
(* speech_rec, and none is open where no thread would end it any more.     *)
SessionInv == ~dropFailed =>
  /\ open = {} \/ (open = {round} /\ session = round /\ round # 0)
  /\ pc["user"] \in {"idle", "start", "normal_clear", "end_clear", "end_state", "uninit",
                     "join", "publish"} => open = {}
  /\ pc["record"] \in {"end_clear", "end_state"} => open = {}
  /\ pc["user"] \in {"begin", "stop"} /\ state = "init" => open = {}

(* The user's thread ends a session only after it has reset the state.     *)
StoppedInv ==
  pc["user"] \in {"last", "last_err", "results", "normal_end", "normal_clear", "err_stop",
                 "err_drop", "end_check", "end_call", "end_clear", "end_state"}
    => state = "init"

(* overlapped remembers.                                                   *)
LatchInv == Overlap => overlapped

FlowInv == LifeInv /\ StoppedInv /\ LatchInv

(* Without an overlap, whoever is about to use the session has it open.    *)
UseInv ==
  ~overlapped =>
    /\ ~misused
    /\ pc["record"] \in {"write", "get", "vad_check", "vad_stop", "vad_drop", "vad_results",
                         "err_stop", "err_drop", "end_check", "end_call"} => session \in open
    /\ pc["user"] \in {"record", "started", "stop_stop", "stop_drop", "stop_wait",
                       "stop_state", "last", "last_err", "results", "normal_end",
                       "err_stop", "err_drop", "end_check", "end_call"} => session \in open
    /\ state = "started" /\ pc["record"] \notin {"end_clear", "end_state", "crashed"}
         => session \in open

(* The text is this round's from on_speech_begin on.                       *)
WordsInv ==
  /\ pc["user"] \in {"idle", "start", "record", "started"} => ~resultFlag
  /\ ~early /\ pc["user"] \in {"started", "begin"} =>
       /\ ~resultFlag
       /\ pc["record"] \in {"gone", "top", "read"}
  /\ pc["user"] \notin {"idle", "start", "record", "started", "begin", "crashed"} =>
       /\ \/ resultFlag
          \/ state = "started"
          \/ pc["record"] \notin {"gone", "top", "read", "cb"}
          \/ pc["user"] \notin {"stop", "uninit", "join", "publish"}
          => g_result \subseteq {round}
       /\ ~early /\ resultFlag => round \in g_result

(* Until it is time to stop, what the user's and the recording thread have *)
(* done tells whether the round's session is open and the recorder runs.   *)
HasSession == session = round /\ round \in open
LostSession == session # round /\ round \notin open

BeforeInv ==
  /\ pc["user"] \in {"start", "record"} => recState # RECORDING
  /\ pc["user"] = "start" => LostSession
  /\ pc["user"] = "record" => HasSession
  /\ pc["user"] = "started" => HasSession /\ recState = RECORDING

AfterInv ==
  pc["user"] \in {"begin", "stop"} =>
    /\ round # 0
    /\ pc["record"] \in {"gone", "top", "read", "cb"} =>
         \/ state = "started" /\ recState = RECORDING /\ HasSession
         \/ state = "init" /\ recState # RECORDING /\ LostSession
    /\ pc["record"] \in {"write", "get", "vad_check", "err_stop", "vad_stop"} =>
         state = "started" /\ recState = RECORDING /\ HasSession
    /\ pc["record"] \in {"err_drop", "vad_drop", "vad_results", "end_check", "end_call"} =>
         state = "started" /\ recState # RECORDING /\ HasSession
    /\ pc["record"] = "end_clear" =>
         state = "started" /\ recState # RECORDING /\ round \notin open
    /\ pc["record"] = "end_state" => recState # RECORDING /\ LostSession

ListenInv == BeforeInv /\ AfterInv

TypeInv == ControlOK /\ DataOK /\ FlagsOK /\ RoundBegun

-----------------------------------------------------------------------------
(* The types hold at the start.                                          *)
LEMMA TypeInit == Init => TypeInv
<1>1. Init => ControlOK
  BY DEF Init, ControlOK, Threads, UserLabels, RecordLabels
<1>2. Init => DataOK
  BY RecognizerAssumption DEF Init, DataOK, EndPoints, RecStatuses, NoBuffer
<1>3. Init => FlagsOK
  BY DEF Init, FlagsOK
<1>4. Init => RoundBegun
  BY DEF Init, RoundBegun, Threads
<1> QED
  BY <1>1, <1>2, <1>3, <1>4 DEF TypeInv

(* No step leads a thread to a place it does not have.                   *)
LEMMA ControlStep == ControlOK /\ [Next]_vars => ControlOK'
<1> SUFFICES ASSUME ControlOK, [Next]_vars PROVE ControlOK'
  OBVIOUS
<1> USE DEF ControlOK, Goto, Threads, UserLabels, RecordLabels, EndLabels, flowVars
<1>1. ASSUME NEW t \in Threads, end_sr(t) PROVE ControlOK'
  <2>1. CASE stop_record(t, "err_stop", "err_drop", "end_check")
    BY <1>1, <2>1 DEF stop_record
  <2>2. CASE drop_stream(t, "err_drop", "end_check", "end_check")
    BY <1>1, <2>2 DEF drop_stream
  <2>3. CASE EndCheck(t)
    BY <1>1, <2>3 DEF EndCheck
  <2>4. CASE EndCall(t)
    BY <1>1, <2>4 DEF EndCall, QISRSessionEnd, Uses
  <2>5. CASE EndClear(t)
    BY <1>1, <2>5 DEF EndClear
  <2>6. CASE EndState(t)
    BY <1>1, <2>6 DEF EndState
  <2> QED
    BY <1>1, <2>1, <2>2, <2>3, <2>4, <2>5, <2>6 DEF end_sr
<1>2. CASE sr_init
  BY <1>2 DEF sr_init, sr_cleared
<1>3. CASE SessionBegin
  BY <1>3 DEF SessionBegin
<1>4. CASE start_record
  BY <1>4 DEF start_record, QISRSessionEnd, Uses
<1>5. CASE Started
  BY <1>5 DEF Started
<1>6. CASE SpeechBegin
  BY <1>6 DEF SpeechBegin, on_speech_begin
<1>7. CASE StopBegin
  BY <1>7 DEF StopBegin
<1>8. CASE stop_record("user", "stop_stop", "stop_drop", "stop_wait")
  BY <1>8 DEF stop_record
<1>9. CASE drop_stream("user", "stop_drop", "stop_wait", "uninit")
  BY <1>9 DEF drop_stream
<1>10. CASE wait_for_rec_stop
  BY <1>10 DEF wait_for_rec_stop
<1>11. CASE StopState
  BY <1>11 DEF StopState
<1>12. CASE LastWrite
  BY <1>12 DEF LastWrite, QISRAudioWrite, QISRSessionEnd, Uses
<1>13. CASE StopResult
  BY <1>13 DEF StopResult, QISRGetResult, on_result, Uses, Crash
<1>14. CASE NormalEnd
  BY <1>14 DEF NormalEnd, QISRSessionEnd, Uses
<1>15. CASE sr_uninit
  BY <1>15 DEF sr_uninit, Crash
<1>16. CASE Join
  BY <1>16 DEF Join
<1>17. CASE Publish
  BY <1>17 DEF Publish
<1>18. CASE RecordTop
  BY <1>18 DEF RecordTop
<1>19. CASE pcm_read
  BY <1>19 DEF pcm_read, Stay
<1>20. CASE iat_cb
  BY <1>20 DEF iat_cb
<1>21. CASE sr_write_audio_data
  BY <1>21 DEF sr_write_audio_data, QISRAudioWrite, QISRGetResult, on_result, Uses, Crash
<1>22. CASE stop_record("record", "vad_stop", "vad_drop", "vad_results")
  BY <1>22 DEF stop_record
<1>23. CASE drop_stream("record", "vad_drop", "vad_results", "vad_results")
  BY <1>23 DEF drop_stream
<1>24. CASE VadResult
  BY <1>24 DEF VadResult, QISRGetResult, on_result, Uses, Crash
<1>25. CASE Cancel
  BY <1>25 DEF Cancel
<1>26. CASE Overrun
  BY <1>26 DEF Overrun, Stay
<1>27. CASE UNCHANGED vars
  BY <1>27 DEF vars
<1> QED
  BY <1>1, <1>2, <1>3, <1>4, <1>5, <1>6, <1>7, <1>8, <1>9, <1>10, <1>11, <1>12, <1>13,
    <1>14, <1>15, <1>16, <1>17, <1>18, <1>19, <1>20, <1>21, <1>22, <1>23, <1>24,
    <1>25, <1>26, <1>27
  DEF Next, UserThread, RecordThread, sr_start_listening, sr_stop_listening,
    end_sr_on_vad, Halted, Threads

(* A session begins in a round that has begun.                           *)
LEMMA BegunStep == ControlOK /\ DataOK /\ RoundBegun /\ [Next]_vars => RoundBegun'
<1> SUFFICES ASSUME ControlOK /\ DataOK /\ RoundBegun, [Next]_vars PROVE RoundBegun'
  OBVIOUS
<1> USE RecognizerAssumption DEF ControlOK, RoundBegun, Goto, Stay, Threads, flowVars,
  srVars, recVars, textVars
<1>1. ASSUME NEW t \in Threads, end_sr(t) PROVE RoundBegun'
  <2>1. CASE stop_record(t, "err_stop", "err_drop", "end_check")
    BY <1>1, <2>1 DEF stop_record
  <2>2. CASE drop_stream(t, "err_drop", "end_check", "end_check")
    BY <1>1, <2>2 DEF drop_stream
  <2>3. CASE EndCheck(t)
    BY <1>1, <2>3 DEF EndCheck
  <2>4. CASE EndCall(t)
    BY <1>1, <2>4 DEF EndCall, QISRSessionEnd, Uses
  <2>5. CASE EndClear(t)
    BY <1>1, <2>5 DEF EndClear
  <2>6. CASE EndState(t)
    BY <1>1, <2>6 DEF EndState
  <2> QED
    BY <1>1, <2>1, <2>2, <2>3, <2>4, <2>5, <2>6 DEF end_sr
<1>2. CASE sr_init
  BY <1>2 DEF sr_init, sr_cleared, DataOK
<1>3. CASE SessionBegin
  BY <1>3 DEF SessionBegin
<1>4. CASE start_record
  BY <1>4 DEF start_record, QISRSessionEnd, Uses
<1>5. CASE Started
  BY <1>5 DEF Started
<1>6. CASE SpeechBegin
  BY <1>6 DEF SpeechBegin, on_speech_begin
<1>7. CASE StopBegin
  BY <1>7 DEF StopBegin
<1>8. CASE stop_record("user", "stop_stop", "stop_drop", "stop_wait")
  BY <1>8 DEF stop_record
<1>9. CASE drop_stream("user", "stop_drop", "stop_wait", "uninit")
  BY <1>9 DEF drop_stream
<1>10. CASE wait_for_rec_stop
  BY <1>10 DEF wait_for_rec_stop
<1>11. CASE StopState
  BY <1>11 DEF StopState
<1>12. CASE LastWrite
  BY <1>12 DEF LastWrite, QISRAudioWrite, QISRSessionEnd, Uses
<1>13. CASE StopResult
  BY <1>13 DEF StopResult, QISRGetResult, on_result, Uses, Crash
<1>14. CASE NormalEnd
  BY <1>14 DEF NormalEnd, QISRSessionEnd, Uses
<1>15. CASE sr_uninit
  BY <1>15 DEF sr_uninit, Crash
<1>16. CASE Join
  BY <1>16 DEF Join
<1>17. CASE Publish
  BY <1>17 DEF Publish
<1>18. CASE RecordTop
  BY <1>18 DEF RecordTop
<1>19. CASE pcm_read
  BY <1>19 DEF pcm_read, Stay
<1>20. CASE iat_cb
  BY <1>20 DEF iat_cb
<1>21. CASE sr_write_audio_data
  BY <1>21 DEF sr_write_audio_data, QISRAudioWrite, QISRGetResult, on_result, Uses, Crash
<1>22. CASE stop_record("record", "vad_stop", "vad_drop", "vad_results")
  BY <1>22 DEF stop_record
<1>23. CASE drop_stream("record", "vad_drop", "vad_results", "vad_results")
  BY <1>23 DEF drop_stream
<1>24. CASE VadResult
  BY <1>24 DEF VadResult, QISRGetResult, on_result, Uses, Crash
<1>25. CASE Cancel
  BY <1>25 DEF Cancel
<1>26. CASE Overrun
  BY <1>26 DEF Overrun, Stay
<1>27. CASE UNCHANGED vars
  BY <1>27 DEF vars
<1> QED
  BY <1>1, <1>2, <1>3, <1>4, <1>5, <1>6, <1>7, <1>8, <1>9, <1>10, <1>11, <1>12, <1>13,
    <1>14, <1>15, <1>16, <1>17, <1>18, <1>19, <1>20, <1>21, <1>22, <1>23, <1>24,
    <1>25, <1>26, <1>27
  DEF Next, UserThread, RecordThread, sr_start_listening, sr_stop_listening,
    end_sr_on_vad, Halted, Threads

(* Every step keeps the types of what the threads share.                 *)
LEMMA DataStep == RoundBegun /\ DataOK /\ [Next]_vars => DataOK'
<1> SUFFICES ASSUME RoundBegun /\ DataOK, [Next]_vars PROVE DataOK'
  OBVIOUS
<1> USE RecognizerAssumption DEF DataOK, Goto, Stay, EndPoints, RecStatuses, NoSession,
  NoBuffer, CREATED, CLOSING, READY, STOPPING, RECORDING, flowVars, srVars, recVars, textVars
<1>1. ASSUME NEW t \in Threads, end_sr(t) PROVE DataOK'
  <2>1. CASE stop_record(t, "err_stop", "err_drop", "end_check")
    BY <1>1, <2>1 DEF stop_record
  <2>2. CASE drop_stream(t, "err_drop", "end_check", "end_check")
    BY <1>1, <2>2 DEF drop_stream
  <2>3. CASE EndCheck(t)
    BY <1>1, <2>3 DEF EndCheck
  <2>4. CASE EndCall(t)
    BY <1>1, <2>4 DEF EndCall, QISRSessionEnd, Uses
  <2>5. CASE EndClear(t)
    BY <1>1, <2>5 DEF EndClear
  <2>6. CASE EndState(t)
    BY <1>1, <2>6 DEF EndState
  <2> QED
    BY <1>1, <2>1, <2>2, <2>3, <2>4, <2>5, <2>6 DEF end_sr
<1>2. CASE sr_init
  BY <1>2 DEF sr_init, sr_cleared
<1>3. CASE SessionBegin
  <2>1. round \in 1..round
    BY <1>3 DEF SessionBegin, RoundBegun
  <2>2. open' \subseteq 1..round'
    BY <2>1, <1>3 DEF SessionBegin
  <2> QED
    BY <2>2, <1>3 DEF SessionBegin
<1>4. CASE start_record
  BY <1>4 DEF start_record, QISRSessionEnd, Uses
<1>5. CASE Started
  BY <1>5 DEF Started
<1>6. CASE SpeechBegin
  BY <1>6 DEF SpeechBegin, on_speech_begin
<1>7. CASE StopBegin
  BY <1>7 DEF StopBegin
<1>8. CASE stop_record("user", "stop_stop", "stop_drop", "stop_wait")
  BY <1>8 DEF stop_record
<1>9. CASE drop_stream("user", "stop_drop", "stop_wait", "uninit")
  BY <1>9 DEF drop_stream
<1>10. CASE wait_for_rec_stop
  BY <1>10 DEF wait_for_rec_stop
<1>11. CASE StopState
  BY <1>11 DEF StopState
<1>12. CASE LastWrite
  BY <1>12 DEF LastWrite, QISRAudioWrite, QISRSessionEnd, Uses
<1>13. CASE StopResult
  BY <1>13 DEF StopResult, QISRGetResult, on_result, Uses, Crash
<1>14. CASE NormalEnd
  BY <1>14 DEF NormalEnd, QISRSessionEnd, Uses
<1>15. CASE sr_uninit
  BY <1>15 DEF sr_uninit, Crash
<1>16. CASE Join
  BY <1>16 DEF Join
<1>17. CASE Publish
  BY <1>17 DEF Publish
<1>18. CASE RecordTop
  BY <1>18 DEF RecordTop
<1>19. CASE pcm_read
  BY <1>19 DEF pcm_read, Stay
<1>20. CASE iat_cb
  BY <1>20 DEF iat_cb
<1>21. CASE sr_write_audio_data
  BY <1>21 DEF sr_write_audio_data, QISRAudioWrite, QISRGetResult, on_result, Uses, Crash
<1>22. CASE stop_record("record", "vad_stop", "vad_drop", "vad_results")
  BY <1>22 DEF stop_record
<1>23. CASE drop_stream("record", "vad_drop", "vad_results", "vad_results")
  BY <1>23 DEF drop_stream
<1>24. CASE VadResult
  BY <1>24 DEF VadResult, QISRGetResult, on_result, Uses, Crash
<1>25. CASE Cancel
  BY <1>25 DEF Cancel
<1>26. CASE Overrun
  BY <1>26 DEF Overrun, Stay
<1>27. CASE UNCHANGED vars
  BY <1>27 DEF vars
<1> QED
  BY <1>1, <1>2, <1>3, <1>4, <1>5, <1>6, <1>7, <1>8, <1>9, <1>10, <1>11, <1>12, <1>13,
    <1>14, <1>15, <1>16, <1>17, <1>18, <1>19, <1>20, <1>21, <1>22, <1>23, <1>24,
    <1>25, <1>26, <1>27
  DEF Next, UserThread, RecordThread, sr_start_listening, sr_stop_listening,
    end_sr_on_vad, Halted, Threads

(* Every step keeps the three flags Boolean.                             *)
LEMMA FlagsStep == FlagsOK /\ [Next]_vars => FlagsOK'
<1> SUFFICES ASSUME FlagsOK, [Next]_vars PROVE FlagsOK'
  OBVIOUS
<1> USE DEF FlagsOK, Goto, Stay, flowVars, srVars, recVars, textVars
<1>1. ASSUME NEW t \in Threads, end_sr(t) PROVE FlagsOK'
  <2>1. CASE stop_record(t, "err_stop", "err_drop", "end_check")
    BY Zenon, <1>1, <2>1 DEF stop_record
  <2>2. CASE drop_stream(t, "err_drop", "end_check", "end_check")
    BY Zenon, <1>1, <2>2 DEF drop_stream
  <2>3. CASE EndCheck(t)
    BY Zenon, <1>1, <2>3 DEF EndCheck
  <2>4. CASE EndCall(t)
    BY Zenon, <1>1, <2>4 DEF EndCall, QISRSessionEnd, Uses
  <2>5. CASE EndClear(t)
    BY Zenon, <1>1, <2>5 DEF EndClear
  <2>6. CASE EndState(t)
    BY Zenon, <1>1, <2>6 DEF EndState
  <2> QED
    BY <1>1, <2>1, <2>2, <2>3, <2>4, <2>5, <2>6 DEF end_sr
<1>2. CASE sr_init
  BY Zenon, <1>2 DEF sr_init, sr_cleared
<1>3. CASE SessionBegin
  BY Zenon, <1>3 DEF SessionBegin
<1>4. CASE start_record
  BY Zenon, <1>4 DEF start_record, QISRSessionEnd, Uses
<1>5. CASE Started
  BY Zenon, <1>5 DEF Started
<1>6. CASE SpeechBegin
  BY Zenon, <1>6 DEF SpeechBegin, on_speech_begin
<1>7. CASE StopBegin
  BY Zenon, <1>7 DEF StopBegin
<1>8. CASE stop_record("user", "stop_stop", "stop_drop", "stop_wait")
  BY Zenon, <1>8 DEF stop_record
<1>9. CASE drop_stream("user", "stop_drop", "stop_wait", "uninit")
  BY Zenon, <1>9 DEF drop_stream
<1>10. CASE wait_for_rec_stop
  BY Zenon, <1>10 DEF wait_for_rec_stop
<1>11. CASE StopState
  BY Zenon, <1>11 DEF StopState
<1>12. CASE LastWrite
  BY Zenon, <1>12 DEF LastWrite, QISRAudioWrite, QISRSessionEnd, Uses
<1>13. CASE StopResult
  BY Zenon, <1>13 DEF StopResult, QISRGetResult, on_result, Uses, Crash
<1>14. CASE NormalEnd
  BY Zenon, <1>14 DEF NormalEnd, QISRSessionEnd, Uses
<1>15. CASE sr_uninit
  BY Zenon, <1>15 DEF sr_uninit, Crash
<1>16. CASE Join
  BY Zenon, <1>16 DEF Join
<1>17. CASE Publish
  BY Zenon, <1>17 DEF Publish
<1>18. CASE RecordTop
  BY Zenon, <1>18 DEF RecordTop
<1>19. CASE pcm_read
  BY Zenon, <1>19 DEF pcm_read, Stay
<1>20. CASE iat_cb
  BY Zenon, <1>20 DEF iat_cb
<1>21. CASE sr_write_audio_data
  BY Zenon, <1>21 DEF sr_write_audio_data, QISRAudioWrite, QISRGetResult, on_result,
    Uses, Crash
<1>22. CASE stop_record("record", "vad_stop", "vad_drop", "vad_results")
  BY Zenon, <1>22 DEF stop_record
<1>23. CASE drop_stream("record", "vad_drop", "vad_results", "vad_results")
  BY Zenon, <1>23 DEF drop_stream
<1>24. CASE VadResult
  BY Zenon, <1>24 DEF VadResult, QISRGetResult, on_result, Uses, Crash
<1>25. CASE Cancel
  BY Zenon, <1>25 DEF Cancel
<1>26. CASE Overrun
  BY Zenon, <1>26 DEF Overrun, Stay
<1>27. CASE UNCHANGED vars
  BY Zenon, <1>27 DEF vars
<1> QED
  BY <1>1, <1>2, <1>3, <1>4, <1>5, <1>6, <1>7, <1>8, <1>9, <1>10, <1>11, <1>12, <1>13,
    <1>14, <1>15, <1>16, <1>17, <1>18, <1>19, <1>20, <1>21, <1>22, <1>23, <1>24,
    <1>25, <1>26, <1>27
  DEF Next, UserThread, RecordThread, sr_start_listening, sr_stop_listening,
    end_sr_on_vad, Halted, Threads

(* All of the types together.                                            *)
LEMMA TypeStep == TypeInv /\ [Next]_vars => TypeInv'
BY ControlStep, DataStep, FlagsStep, BegunStep DEF TypeInv

(* Types, for any number of rounds and whatever fails.                     *)
THEOREM TypeCorrect == Spec => []TypeOK
<1>1. TypeInv => TypeOK
  BY DEF TypeInv, ControlOK, DataOK, FlagsOK, TypeOK
<1> QED
  BY <1>1, TypeInit, TypeStep, PTL DEF Spec

(* The types, with the round that has begun, in every state.             *)
LEMMA TypesKept == Spec => []TypeInv
BY TypeInit, TypeStep, PTL DEF Spec

-----------------------------------------------------------------------------
(* Each thread stays where the other one lets it be.                     *)
LEMMA FlowStep == ControlOK /\ FlowInv /\ [Next]_vars => FlowInv'
<1> SUFFICES ASSUME ControlOK /\ FlowInv, [Next]_vars PROVE FlowInv'
  OBVIOUS
<1> USE DEF ControlOK, Goto, Stay, Threads, FlowInv, LifeInv, StoppedInv, LatchInv,
  Overlap, flowVars, srVars, recVars, textVars
<1>1. ASSUME NEW t \in Threads, end_sr(t) PROVE FlowInv'
  <2>1. CASE stop_record(t, "err_stop", "err_drop", "end_check")
    BY <1>1, <2>1 DEF stop_record
  <2>2. CASE drop_stream(t, "err_drop", "end_check", "end_check")
    BY <1>1, <2>2 DEF drop_stream
  <2>3. CASE EndCheck(t)
    BY <1>1, <2>3 DEF EndCheck
  <2>4. CASE EndCall(t)
    BY <1>1, <2>4 DEF EndCall, QISRSessionEnd, Uses
  <2>5. CASE EndClear(t)
    BY <1>1, <2>5 DEF EndClear
  <2>6. CASE EndState(t)
    BY <1>1, <2>6 DEF EndState
  <2> QED
    BY <1>1, <2>1, <2>2, <2>3, <2>4, <2>5, <2>6 DEF end_sr
<1>2. CASE sr_init
  BY <1>2 DEF sr_init, sr_cleared
<1>3. CASE SessionBegin
  BY <1>3 DEF SessionBegin
<1>4. CASE start_record
  BY <1>4 DEF start_record, QISRSessionEnd, Uses
<1>5. CASE Started
  BY <1>5 DEF Started
<1>6. CASE SpeechBegin
  BY <1>6 DEF SpeechBegin, on_speech_begin
<1>7. CASE StopBegin
  BY <1>7 DEF StopBegin
<1>8. CASE stop_record("user", "stop_stop", "stop_drop", "stop_wait")
  BY <1>8 DEF stop_record
<1>9. CASE drop_stream("user", "stop_drop", "stop_wait", "uninit")
  BY <1>9 DEF drop_stream
<1>10. CASE wait_for_rec_stop
  BY <1>10 DEF wait_for_rec_stop
<1>11. CASE StopState
  BY <1>11 DEF StopState
<1>12. CASE LastWrite
  BY <1>12 DEF LastWrite, QISRAudioWrite, QISRSessionEnd, Uses
<1>13. CASE StopResult
  BY <1>13 DEF StopResult, QISRGetResult, on_result, Uses, Crash
<1>14. CASE NormalEnd
  BY <1>14 DEF NormalEnd, QISRSessionEnd, Uses
<1>15. CASE sr_uninit
  BY <1>15 DEF sr_uninit, Crash
<1>16. CASE Join
  BY <1>16 DEF Join
<1>17. CASE Publish
  BY <1>17 DEF Publish
<1>18. CASE RecordTop
  BY <1>18 DEF RecordTop
<1>19. CASE pcm_read
  BY <1>19 DEF pcm_read, Stay
<1>20. CASE iat_cb
  BY <1>20 DEF iat_cb
<1>21. CASE sr_write_audio_data
  BY <1>21 DEF sr_write_audio_data, QISRAudioWrite, QISRGetResult, on_result, Uses, Crash
<1>22. CASE stop_record("record", "vad_stop", "vad_drop", "vad_results")
  BY <1>22 DEF stop_record
<1>23. CASE drop_stream("record", "vad_drop", "vad_results", "vad_results")
  BY <1>23 DEF drop_stream
<1>24. CASE VadResult
  BY <1>24 DEF VadResult, QISRGetResult, on_result, Uses, Crash
<1>25. CASE Cancel
  BY <1>25 DEF Cancel
<1>26. CASE Overrun
  BY <1>26 DEF Overrun, Stay
<1>27. CASE UNCHANGED vars
  BY <1>27 DEF vars
<1> QED
  BY <1>1, <1>2, <1>3, <1>4, <1>5, <1>6, <1>7, <1>8, <1>9, <1>10, <1>11, <1>12, <1>13,
    <1>14, <1>15, <1>16, <1>17, <1>18, <1>19, <1>20, <1>21, <1>22, <1>23, <1>24,
    <1>25, <1>26, <1>27
  DEF Next, UserThread, RecordThread, sr_start_listening, sr_stop_listening,
    end_sr_on_vad, Halted, Threads

(* While dropping works, some thread is still going to end the session.  *)
LEMMA SessionStep == ControlOK /\ DataOK /\ RoundBegun /\ FlowInv /\ SessionInv /\
  [Next]_vars => SessionInv'
<1> SUFFICES ASSUME ControlOK /\ DataOK /\ RoundBegun /\ FlowInv /\ SessionInv,
  [Next]_vars PROVE SessionInv'
  OBVIOUS
<1> USE DEF ControlOK, Goto, Stay, Threads, DataOK, RoundBegun, FlowInv, LifeInv,
  SessionInv, NoSession, flowVars, srVars, recVars, textVars
<1>1. ASSUME NEW t \in Threads, end_sr(t) PROVE SessionInv'
  <2>1. CASE stop_record(t, "err_stop", "err_drop", "end_check")
    BY <1>1, <2>1 DEF stop_record
  <2>2. CASE drop_stream(t, "err_drop", "end_check", "end_check")
    BY <1>1, <2>2 DEF drop_stream
  <2>3. CASE EndCheck(t)
    BY <1>1, <2>3 DEF EndCheck
  <2>4. CASE EndCall(t)
    BY <1>1, <2>4 DEF EndCall, QISRSessionEnd, Uses
  <2>5. CASE EndClear(t)
    BY <1>1, <2>5 DEF EndClear
  <2>6. CASE EndState(t)
    BY <1>1, <2>6 DEF EndState
  <2> QED
    BY <1>1, <2>1, <2>2, <2>3, <2>4, <2>5, <2>6 DEF end_sr
<1>2. CASE sr_init
  BY <1>2 DEF sr_init, sr_cleared
<1>3. CASE SessionBegin
  BY <1>3 DEF SessionBegin
<1>4. CASE start_record
  BY <1>4 DEF start_record, QISRSessionEnd, Uses
<1>5. CASE Started
  BY <1>5 DEF Started
<1>6. CASE SpeechBegin
  BY <1>6 DEF SpeechBegin, on_speech_begin
<1>7. CASE StopBegin
  BY <1>7 DEF StopBegin
<1>8. CASE stop_record("user", "stop_stop", "stop_drop", "stop_wait")
  BY <1>8 DEF stop_record
<1>9. CASE drop_stream("user", "stop_drop", "stop_wait", "uninit")
  BY <1>9 DEF drop_stream
<1>10. CASE wait_for_rec_stop
  BY <1>10 DEF wait_for_rec_stop
<1>11. CASE StopState
  BY <1>11 DEF StopState
<1>12. CASE LastWrite
  BY <1>12 DEF LastWrite, QISRAudioWrite, QISRSessionEnd, Uses
<1>13. CASE StopResult
  BY <1>13 DEF StopResult, QISRGetResult, on_result, Uses, Crash
<1>14. CASE NormalEnd
  BY <1>14 DEF NormalEnd, QISRSessionEnd, Uses
<1>15. CASE sr_uninit
  BY <1>15 DEF sr_uninit, Crash
<1>16. CASE Join
  BY <1>16 DEF Join
<1>17. CASE Publish
  BY <1>17 DEF Publish
<1>18. CASE RecordTop
  BY <1>18 DEF RecordTop
<1>19. CASE pcm_read
  BY <1>19 DEF pcm_read, Stay
<1>20. CASE iat_cb
  BY <1>20 DEF iat_cb
<1>21. CASE sr_write_audio_data
  BY <1>21 DEF sr_write_audio_data, QISRAudioWrite, QISRGetResult, on_result, Uses, Crash
<1>22. CASE stop_record("record", "vad_stop", "vad_drop", "vad_results")
  BY <1>22 DEF stop_record
<1>23. CASE drop_stream("record", "vad_drop", "vad_results", "vad_results")
  BY <1>23 DEF drop_stream
<1>24. CASE VadResult
  BY <1>24 DEF VadResult, QISRGetResult, on_result, Uses, Crash
<1>25. CASE Cancel
  BY <1>25 DEF Cancel
<1>26. CASE Overrun
  BY <1>26 DEF Overrun, Stay
<1>27. CASE UNCHANGED vars
  BY <1>27 DEF vars
<1> QED
  BY <1>1, <1>2, <1>3, <1>4, <1>5, <1>6, <1>7, <1>8, <1>9, <1>10, <1>11, <1>12, <1>13,
    <1>14, <1>15, <1>16, <1>17, <1>18, <1>19, <1>20, <1>21, <1>22, <1>23, <1>24,
    <1>25, <1>26, <1>27
  DEF Next, UserThread, RecordThread, sr_start_listening, sr_stop_listening,
    end_sr_on_vad, Halted, Threads

(* linuxrec.c:469-486 and the ways of speech_recognizer.c to end a         *)
(* session: for any number of rounds and whatever fails.                   *)
THEOREM RoundsEndClean == Spec => []NothingOutlives
<1>1. Init => FlowInv /\ SessionInv
  BY DEF Init, FlowInv, LifeInv, StoppedInv, LatchInv, Overlap, SessionInv, Threads
<1>2. FlowInv /\ SessionInv => NothingOutlives
  BY DEF FlowInv, LifeInv, SessionInv, NothingOutlives
<1>3. TypeInv /\ FlowInv /\ SessionInv /\ [Next]_vars => (FlowInv /\ SessionInv)'
  BY FlowStep, SessionStep DEF TypeInv
<1> QED
  BY <1>1, <1>2, <1>3, TypesKept, PTL DEF Spec

-----------------------------------------------------------------------------
(* Without an overlap, every use of the session finds it open.           *)
LEMMA UseStep == ControlOK /\ DataOK /\ FlowInv /\ UseInv /\ [Next]_vars => UseInv'
<1> SUFFICES ASSUME ControlOK /\ DataOK /\ FlowInv /\ UseInv, [Next]_vars PROVE UseInv'
  OBVIOUS
<1> USE DEF ControlOK, Goto, Stay, Threads, flowVars, srVars, recVars, textVars
<1>0. NoSession \notin open /\ NoSession = 0 /\ state \in {"init", "started"}
  BY DEF DataOK, NoSession
<1> USE DEF FlowInv
<1>1. ASSUME NEW t \in Threads, end_sr(t) PROVE UseInv'
  <2>1. CASE stop_record(t, "err_stop", "err_drop", "end_check")
    <3>1. pc["record"] \in {"gone", "top", "read", "cb"} \/ t = "record" \/ overlapped
      BY <1>1, <2>1 DEF LatchInv, Overlap, stop_record
    <3>2. CASE t = "user"
      BY <1>0, <3>1, <3>2, <2>1 DEF stop_record, UseInv, StoppedInv
    <3>3. CASE t = "record"
      BY <1>0, <3>3, <2>1 DEF stop_record, UseInv, LifeInv, LatchInv, Overlap
    <3> QED
      BY <3>2, <3>3, <1>1
  <2>2. CASE drop_stream(t, "err_drop", "end_check", "end_check")
    <3>1. pc["record"] \in {"gone", "top", "read", "cb"} \/ t = "record" \/ overlapped
      BY <1>1, <2>2 DEF LatchInv, Overlap, drop_stream
    <3>2. CASE t = "user"
      BY <1>0, <3>1, <3>2, <2>2 DEF drop_stream, UseInv, StoppedInv
    <3>3. CASE t = "record"
      BY <1>0, <3>3, <2>2 DEF drop_stream, UseInv, LifeInv, LatchInv, Overlap
    <3> QED
      BY <3>2, <3>3, <1>1
  <2>3. CASE EndCheck(t)
    BY <1>0, <1>1, <2>3 DEF EndCheck, LifeInv, StoppedInv, LatchInv, UseInv, Overlap
  <2>4. CASE EndCall(t)
    <3>1. pc["record"] \in {"gone", "top", "read", "cb"} \/ t = "record" \/ overlapped
      BY <1>1, <2>4 DEF LatchInv, Overlap, EndCall
    <3>2. CASE t = "user"
      BY <1>0, <3>1, <3>2, <2>4 DEF EndCall, QISRSessionEnd, Uses, UseInv, StoppedInv
    <3>3. CASE t = "record"
      BY <1>0, <3>3, <2>4 DEF EndCall, QISRSessionEnd, Uses, UseInv, LifeInv,
        LatchInv, Overlap
    <3> QED
      BY <3>2, <3>3, <1>1
  <2>5. CASE EndClear(t)
    BY <1>0, <1>1, <2>5 DEF EndClear, LifeInv, StoppedInv, LatchInv, UseInv, Overlap
  <2>6. CASE EndState(t)
    BY <1>0, <1>1, <2>6 DEF EndState, LifeInv, StoppedInv, LatchInv, UseInv, Overlap
  <2> QED
    BY <1>1, <2>1, <2>2, <2>3, <2>4, <2>5, <2>6 DEF end_sr
<1>2. CASE sr_init
  <2>1. /\ state' = "init"
        /\ open' = open
        /\ misused' = misused
        /\ overlapped' = overlapped \/ overlapped' = (overlapped \/ Overlap')
    BY <1>2 DEF sr_init, sr_cleared
  <2>2. pc'["user"] \in {"start", "publish"} /\ pc'["record"] \in {"gone", "top"}
    BY <1>2 DEF sr_init, LifeInv
  <2> QED
    BY <2>1, <2>2 DEF UseInv
<1>3. CASE SessionBegin
  BY <1>0, <1>3 DEF SessionBegin, LifeInv, StoppedInv, LatchInv, UseInv, Overlap
<1>4. CASE start_record
  <2>1. session \in open \/ overlapped
    BY <1>4 DEF start_record, UseInv
  <2>2. /\ state' = "init"
        /\ pc'["record"] = pc["record"]
        /\ pc["record"] \in {"gone", "top", "read"}
        /\ \/ /\ pc'["user"] = "started"
              /\ session' = session
              /\ open' = open
              /\ misused' = misused
           \/ pc'["user"] = "stop" /\ misused' = (misused \/ session \notin open)
        /\ overlapped' = (overlapped \/ Overlap')
    BY <1>4 DEF start_record, LifeInv, QISRSessionEnd, Uses
  <2> QED
    BY <2>1, <2>2 DEF UseInv
<1>5. CASE Started
  BY <1>0, <1>5 DEF Started, LifeInv, StoppedInv, LatchInv, UseInv, Overlap
<1>6. CASE SpeechBegin
  BY <1>0, <1>6 DEF SpeechBegin, on_speech_begin, LifeInv, StoppedInv, LatchInv,
    UseInv, Overlap
<1>7. CASE StopBegin
  BY <1>0, <1>7 DEF StopBegin, LifeInv, StoppedInv, LatchInv, UseInv, Overlap
<1>8. CASE stop_record("user", "stop_stop", "stop_drop", "stop_wait")
  BY <1>0, <1>8 DEF stop_record, LifeInv, StoppedInv, LatchInv, UseInv, Overlap
<1>9. CASE drop_stream("user", "stop_drop", "stop_wait", "uninit")
  BY <1>0, <1>9 DEF drop_stream, LifeInv, StoppedInv, LatchInv, UseInv, Overlap
<1>10. CASE wait_for_rec_stop
  BY <1>0, <1>10 DEF wait_for_rec_stop, LifeInv, StoppedInv, LatchInv, UseInv, Overlap
<1>11. CASE StopState
  BY <1>0, <1>11 DEF StopState, LifeInv, StoppedInv, LatchInv, UseInv, Overlap
<1>12. CASE LastWrite
  BY <1>0, <1>12 DEF LastWrite, QISRAudioWrite, QISRSessionEnd, Uses, LifeInv,
    StoppedInv, LatchInv, UseInv, Overlap
<1>13. CASE StopResult
  BY <1>0, <1>13 DEF StopResult, QISRGetResult, on_result, Uses, Crash, LifeInv,
    StoppedInv, LatchInv, UseInv, Overlap
<1>14. CASE NormalEnd
  BY <1>0, <1>14 DEF NormalEnd, QISRSessionEnd, Uses, LifeInv, StoppedInv, LatchInv,
    UseInv, Overlap
<1>15. CASE sr_uninit
  BY <1>0, <1>15 DEF sr_uninit, Crash, LifeInv, StoppedInv, LatchInv, UseInv, Overlap
<1>16. CASE Join
  BY <1>0, <1>16 DEF Join, LifeInv, StoppedInv, LatchInv, UseInv, Overlap
<1>17. CASE Publish
  BY <1>0, <1>17 DEF Publish, LifeInv, StoppedInv, LatchInv, UseInv, Overlap
<1>18. CASE RecordTop
  BY <1>0, <1>18 DEF RecordTop, LifeInv, StoppedInv, LatchInv, UseInv, Overlap
<1>19. CASE pcm_read
  BY <1>0, <1>19 DEF pcm_read, Stay, LifeInv, StoppedInv, LatchInv, UseInv, Overlap
<1>20. CASE iat_cb
  BY <1>0, <1>20 DEF iat_cb, LifeInv, StoppedInv, LatchInv, UseInv, Overlap
<1>21. CASE sr_write_audio_data
  BY <1>0, <1>21 DEF sr_write_audio_data, QISRAudioWrite, QISRGetResult, on_result,
    Uses, Crash, LifeInv, StoppedInv, LatchInv, UseInv, Overlap
<1>22. CASE stop_record("record", "vad_stop", "vad_drop", "vad_results")
  BY <1>0, <1>22 DEF stop_record, LifeInv, StoppedInv, LatchInv, UseInv, Overlap
<1>23. CASE drop_stream("record", "vad_drop", "vad_results", "vad_results")
  BY <1>0, <1>23 DEF drop_stream, LifeInv, StoppedInv, LatchInv, UseInv, Overlap
<1>24. CASE VadResult
  BY <1>0, <1>24 DEF VadResult, QISRGetResult, on_result, Uses, Crash, LifeInv,
    StoppedInv, LatchInv, UseInv, Overlap
<1>25. CASE Cancel
  BY <1>0, <1>25 DEF Cancel, LifeInv, StoppedInv, LatchInv, UseInv, Overlap
<1>26. CASE Overrun
  BY <1>0, <1>26 DEF Overrun, Stay, LifeInv, StoppedInv, LatchInv, UseInv, Overlap
<1>27. CASE UNCHANGED vars
  BY <1>0, <1>27 DEF vars, LifeInv, StoppedInv, LatchInv, UseInv, Overlap
<1> QED
  BY <1>1, <1>2, <1>3, <1>4, <1>5, <1>6, <1>7, <1>8, <1>9, <1>10, <1>11, <1>12, <1>13,
    <1>14, <1>15, <1>16, <1>17, <1>18, <1>19, <1>20, <1>21, <1>22, <1>23, <1>24,
    <1>25, <1>26, <1>27
  DEF Next, UserThread, RecordThread, sr_start_listening, sr_stop_listening,
    end_sr_on_vad, Halted, Threads

(* Errors and endpoints alone never lead to the use of an ended session,   *)
(* for any number of rounds and whatever fails.                            *)
THEOREM MisuseNeedsOverlap == Spec => []SessionsUsedOpen
<1> DEFINE IInv == FlowInv /\ UseInv
<1>1. Init => IInv
  BY DEF Init, FlowInv, LifeInv, StoppedInv, LatchInv, UseInv, Overlap, Threads
<1>2. IInv => SessionsUsedOpen
  BY DEF UseInv, SessionsUsedOpen
<1>3. TypeInv /\ IInv /\ [Next]_vars => IInv'
  BY FlowStep, UseStep DEF TypeInv
<1> QED
  BY <1>1, <1>2, <1>3, TypesKept, PTL DEF Spec

-----------------------------------------------------------------------------
(* Only this round's words join the text.                                *)
LEMMA WordsStep == ControlOK /\ DataOK /\ FlowInv /\ WordsInv /\ [Next]_vars => WordsInv'
<1> SUFFICES ASSUME ControlOK /\ DataOK /\ FlowInv /\ WordsInv, [Next]_vars PROVE WordsInv'
  OBVIOUS
<1> USE DEF ControlOK, Goto, Stay, Threads, FlowInv, LifeInv, EarlyRead, WordsInv,
  flowVars, srVars, recVars, textVars
<1>0. state \in {"init", "started"}
  BY DEF DataOK
<1>1. ASSUME NEW t \in Threads, end_sr(t) PROVE WordsInv'
  <2>1. CASE stop_record(t, "err_stop", "err_drop", "end_check")
    BY <1>0, <1>1, <2>1 DEF stop_record
  <2>2. CASE drop_stream(t, "err_drop", "end_check", "end_check")
    BY <1>0, <1>1, <2>2 DEF drop_stream
  <2>3. CASE EndCheck(t)
    BY <1>0, <1>1, <2>3 DEF EndCheck
  <2>4. CASE EndCall(t)
    BY <1>0, <1>1, <2>4 DEF EndCall, QISRSessionEnd, Uses
  <2>5. CASE EndClear(t)
    BY <1>0, <1>1, <2>5 DEF EndClear
  <2>6. CASE EndState(t)
    BY <1>0, <1>1, <2>6 DEF EndState
  <2> QED
    BY <1>0, <1>1, <2>1, <2>2, <2>3, <2>4, <2>5, <2>6 DEF end_sr
<1>2. CASE sr_init
  BY <1>0, <1>2 DEF sr_init, sr_cleared
<1>3. CASE SessionBegin
  BY <1>0, <1>3 DEF SessionBegin
<1>4. CASE start_record
  BY <1>0, <1>4 DEF start_record, QISRSessionEnd, Uses
<1>5. CASE Started
  BY <1>0, <1>5 DEF Started
<1>6. CASE SpeechBegin
  BY <1>0, <1>6 DEF SpeechBegin, on_speech_begin
<1>7. CASE StopBegin
  BY <1>0, <1>7 DEF StopBegin
<1>8. CASE stop_record("user", "stop_stop", "stop_drop", "stop_wait")
  BY <1>0, <1>8 DEF stop_record
<1>9. CASE drop_stream("user", "stop_drop", "stop_wait", "uninit")
  BY <1>0, <1>9 DEF drop_stream
<1>10. CASE wait_for_rec_stop
  BY <1>0, <1>10 DEF wait_for_rec_stop
<1>11. CASE StopState
  BY <1>0, <1>11 DEF StopState
<1>12. CASE LastWrite
  BY <1>0, <1>12 DEF LastWrite, QISRAudioWrite, QISRSessionEnd, Uses
<1>13. CASE StopResult
  <2>1. pc["user"] = "results" /\ UNCHANGED <<round, state>>
    BY <1>13 DEF StopResult
  <2>2. g_result \subseteq {round} /\ (~early /\ resultFlag => round \in g_result)
    BY <2>1
  <2>3. \/ Crash
        \/ /\ \E l \in {"err_stop", "results", "normal_end"} : Goto("user", l)
           /\ \/ UNCHANGED textVars
              \/ g_result' = g_result \union {round} /\ resultFlag' = TRUE
    BY <1>13 DEF StopResult, QISRGetResult, on_result
  <2>4. CASE Crash
    BY <2>4 DEF Crash
  <2>5. ASSUME NEW l \in {"err_stop", "results", "normal_end"}, Goto("user", l),
               \/ UNCHANGED textVars
               \/ g_result' = g_result \union {round} /\ resultFlag' = TRUE
        PROVE WordsInv'
    <3>1. pc' = [pc EXCEPT !["user"] = l] /\ (~early' => ~early)
      BY <2>5
    <3>2. pc'["user"] = l
      BY <3>1
    <3>3. g_result' \subseteq {round'} /\ (~early' /\ resultFlag' => round' \in g_result')
      BY <2>1, <2>2, <2>5, <3>1
    <3> QED
      BY <3>2, <3>3
  <2> QED
    BY <2>3, <2>4, <2>5
<1>14. CASE NormalEnd
  BY <1>0, <1>14 DEF NormalEnd, QISRSessionEnd, Uses
<1>15. CASE sr_uninit
  BY <1>0, <1>15 DEF sr_uninit, Crash
<1>16. CASE Join
  BY <1>0, <1>16 DEF Join
<1>17. CASE Publish
  BY <1>0, <1>17 DEF Publish
<1>18. CASE RecordTop
  BY <1>0, <1>18 DEF RecordTop
<1>19. CASE pcm_read
  BY <1>0, <1>19 DEF pcm_read, Stay
<1>20. CASE iat_cb
  BY <1>0, <1>20 DEF iat_cb
<1>21. CASE sr_write_audio_data
  BY <1>0, <1>21 DEF sr_write_audio_data, QISRAudioWrite, QISRGetResult, on_result,
    Uses, Crash
<1>22. CASE stop_record("record", "vad_stop", "vad_drop", "vad_results")
  BY <1>0, <1>22 DEF stop_record
<1>23. CASE drop_stream("record", "vad_drop", "vad_results", "vad_results")
  BY <1>0, <1>23 DEF drop_stream
<1>24. CASE VadResult
  BY <1>0, <1>24 DEF VadResult, QISRGetResult, on_result, Uses, Crash
<1>25. CASE Cancel
  BY <1>0, <1>25 DEF Cancel
<1>26. CASE Overrun
  BY <1>0, <1>26 DEF Overrun, Stay
<1>27. CASE UNCHANGED vars
  BY <1>0, <1>27 DEF vars
<1> QED
  BY <1>0, <1>1, <1>2, <1>3, <1>4, <1>5, <1>6, <1>7, <1>8, <1>9, <1>10, <1>11, <1>12,
    <1>13, <1>14, <1>15, <1>16, <1>17, <1>18, <1>19, <1>20, <1>21, <1>22, <1>23,
    <1>24, <1>25, <1>26, <1>27
  DEF Next, UserThread, RecordThread, sr_start_listening, sr_stop_listening,
    end_sr_on_vad, Halted, Threads

(* The words published are those of the round, for any number of rounds    *)
(* and whatever fails (xf_asr.cpp:42-76, 253-258).                         *)
THEOREM WordsAreOwn == Spec => []OwnWords
<1>1. Init => FlowInv /\ WordsInv
  BY DEF Init, FlowInv, LifeInv, StoppedInv, LatchInv, Overlap, WordsInv, Threads
<1>2. WordsInv => OwnWords
  BY DEF WordsInv, OwnWords
<1>3. TypeInv /\ FlowInv /\ WordsInv /\ [Next]_vars => (FlowInv /\ WordsInv)'
  BY FlowStep, WordsStep DEF TypeInv
<1> QED
  BY <1>1, <1>2, <1>3, TypesKept, PTL DEF Spec
-----------------------------------------------------------------------------
(* What a thread does leaves the other's share of the account in force.   *)
LEMMA ListenStep == ControlOK /\ DataOK /\ RoundBegun /\ FlowInv /\ ListenInv /\ [Next]_vars
                      => ListenInv'
<1> SUFFICES ASSUME ControlOK /\ DataOK /\ RoundBegun /\ FlowInv /\ ListenInv, [Next]_vars
             PROVE  ListenInv'
  OBVIOUS
<1>0. /\ round \in Nat /\ open \subseteq 1 .. round /\ session \in {0, round}
      /\ state \in {"init", "started"} /\ recState \in {0, 1, 2, 3, 4}
  BY RecognizerAssumption DEF DataOK, NoSession, CREATED, CLOSING, READY, STOPPING, RECORDING
<1> USE DEF ControlOK, Goto, Stay, Threads, RoundBegun, FlowInv, LifeInv, ListenInv, BeforeInv,
  AfterInv, HasSession, LostSession, NoSession, CREATED, CLOSING, READY, STOPPING, RECORDING,
  flowVars, srVars, recVars, textVars
<1>1. ASSUME NEW t \in Threads, end_sr(t) PROVE ListenInv'
  <2>1. CASE stop_record(t, "err_stop", "err_drop", "end_check")
    BY <1>0, <1>1, <2>1 DEF stop_record
  <2>2. CASE drop_stream(t, "err_drop", "end_check", "end_check")
    BY <1>0, <1>1, <2>2 DEF drop_stream
  <2>3. CASE EndCheck(t)
    BY <1>0, <1>1, <2>3 DEF EndCheck
  <2>4. CASE EndCall(t)
    BY <1>0, <1>1, <2>4 DEF EndCall, QISRSessionEnd, Uses
  <2>5. CASE EndClear(t)
    BY <1>0, <1>1, <2>5 DEF EndClear
  <2>6. CASE EndState(t)
    BY <1>0, <1>1, <2>6 DEF EndState
  <2> QED
    BY <1>1, <2>1, <2>2, <2>3, <2>4, <2>5, <2>6 DEF end_sr
<1>2. CASE sr_init
  BY <1>0, <1>2 DEF sr_init, sr_cleared
<1>3. CASE SessionBegin
  BY <1>0, <1>3 DEF SessionBegin
<1>4. CASE start_record
  BY <1>0, <1>4 DEF start_record, QISRSessionEnd, Uses
<1>5. CASE Started
  BY <1>0, <1>5 DEF Started
<1>6. CASE SpeechBegin
  BY <1>0, <1>6 DEF SpeechBegin, on_speech_begin
<1>7. CASE StopBegin
  BY <1>0, <1>7 DEF StopBegin
<1>8. CASE stop_record("user", "stop_stop", "stop_drop", "stop_wait")
  BY <1>0, <1>8 DEF stop_record
<1>9. CASE drop_stream("user", "stop_drop", "stop_wait", "uninit")
  BY <1>0, <1>9 DEF drop_stream
<1>10. CASE wait_for_rec_stop
  BY <1>0, <1>10 DEF wait_for_rec_stop
<1>11. CASE StopState
  BY <1>0, <1>11 DEF StopState
<1>12. CASE LastWrite
  BY <1>0, <1>12 DEF LastWrite, QISRAudioWrite, QISRSessionEnd, Uses
<1>13. CASE StopResult
  BY <1>0, <1>13 DEF StopResult, QISRGetResult, on_result, Uses, Crash
<1>14. CASE NormalEnd
  BY <1>0, <1>14 DEF NormalEnd, QISRSessionEnd, Uses
<1>15. CASE sr_uninit
  BY <1>0, <1>15 DEF sr_uninit, Crash
<1>16. CASE Join
  BY <1>0, <1>16 DEF Join
<1>17. CASE Publish
  BY <1>0, <1>17 DEF Publish
<1>18. CASE RecordTop
  BY <1>0, <1>18 DEF RecordTop
<1>19. CASE pcm_read
  BY <1>0, <1>19 DEF pcm_read, Stay
<1>20. CASE iat_cb
  BY <1>0, <1>20 DEF iat_cb
<1>21. CASE sr_write_audio_data
  BY <1>0, <1>21 DEF sr_write_audio_data, QISRAudioWrite, QISRGetResult, on_result, Uses, Crash
<1>22. CASE stop_record("record", "vad_stop", "vad_drop", "vad_results")
  BY <1>0, <1>22 DEF stop_record
<1>23. CASE drop_stream("record", "vad_drop", "vad_results", "vad_results")
  BY <1>0, <1>23 DEF drop_stream
<1>24. CASE VadResult
  BY <1>0, <1>24 DEF VadResult, QISRGetResult, on_result, Uses, Crash
<1>25. CASE Cancel
  BY <1>0, <1>25 DEF Cancel
<1>26. CASE Overrun
  BY <1>0, <1>26 DEF Overrun, Stay
<1>27. CASE UNCHANGED vars
  BY <1>0, <1>27 DEF vars
<1> QED
  BY <1>1, <1>2, <1>3, <1>4, <1>5, <1>6, <1>7, <1>8, <1>9, <1>10, <1>11, <1>12, <1>13,
    <1>14, <1>15, <1>16, <1>17, <1>18, <1>19, <1>20, <1>21, <1>22, <1>23, <1>24,
    <1>25, <1>26, <1>27
  DEF Next, UserThread, RecordThread, sr_start_listening, sr_stop_listening,
    end_sr_on_vad, Halted, Threads

(* While the user's thread sleeps and no callback is at work, the state,   *)
(* the recorder and the session agree, for any number of rounds and        *)
(* whatever fails (speech_recognizer.c: sr_start_listening, iat_cb and the *)
(* two ends of a session; there is no lock).                               *)
THEOREM ListeningAgrees == Spec => []ListeningConsistent
<1>1. Init => FlowInv /\ ListenInv
  BY DEF Init, FlowInv, LifeInv, StoppedInv, LatchInv, Overlap, ListenInv, BeforeInv, AfterInv,
    Threads
<1>2. ListenInv => ListeningConsistent
  BY DEF ListenInv, AfterInv, ListeningConsistent, HasSession, LostSession
<1>3. TypeInv /\ FlowInv /\ ListenInv /\ [Next]_vars => (FlowInv /\ ListenInv)'
  BY FlowStep, ListenStep DEF TypeInv
<1> QED
  BY <1>1, <1>2, <1>3, TypesKept, PTL DEF Spec

(* A wait of the user's thread is for a step the other is about to make.   *)
StoppedWaits ==
  /\ pc["user"] = "stop_wait" /\ ~dropFailed =>
       /\ recState # RECORDING
       /\ pcm = "running" => pc["record"] \in {"err_drop", "vad_drop"}
  /\ pc["user"] = "uninit" => recState # RECORDING

(* Whoever takes the recorder out of RECORDING goes on to drop the stream. *)
WaitInv ==
  /\ pc["record"] = "crashed" => pc["user"] = "crashed"
  /\ pc["user"] \notin {"started", "begin", "stop", "stop_stop", "crashed"} => recState # RECORDING
  /\ ~dropFailed /\ pcm = "running" =>
       \/ recState = RECORDING
       \/ pc["record"] \in {"err_drop", "vad_drop"}
       \/ pc["user"] \in {"stop_drop", "err_drop", "crashed"}

LEMMA WaitStep == ControlOK /\ DataOK /\ FlowInv /\ ListenInv /\ WaitInv /\ [Next]_vars
                    => WaitInv'
<1> SUFFICES ASSUME ControlOK /\ DataOK /\ FlowInv /\ ListenInv /\ WaitInv, [Next]_vars
             PROVE  WaitInv'
  OBVIOUS
<1>0. /\ recState \in {0, 1, 2, 3, 4} /\ state \in {"init", "started"}
      /\ pc["user"] \in {"idle", "start", "record"} => recState # RECORDING
      /\ pc["user"] = "stop" /\ state # "started" => recState # RECORDING \/ pc["record"] = "crashed"
      /\ pc["user"] \in {"idle", "publish"} => pcm = "none"
  BY DEF DataOK, ControlOK, CREATED, CLOSING, READY, STOPPING, RECORDING, WaitInv, ListenInv,
    AfterInv, BeforeInv, FlowInv, LifeInv, RecordLabels, EndLabels
<1> USE DEF ControlOK, Goto, Stay, Threads, WaitInv, CREATED, CLOSING, READY, STOPPING, RECORDING,
  flowVars, srVars, recVars, textVars
<1>1. ASSUME NEW t \in Threads, end_sr(t) PROVE WaitInv'
  <2>1. CASE stop_record(t, "err_stop", "err_drop", "end_check")
    BY <1>0, <1>1, <2>1 DEF stop_record
  <2>2. CASE drop_stream(t, "err_drop", "end_check", "end_check")
    BY <1>0, <1>1, <2>2 DEF drop_stream
  <2>3. CASE EndCheck(t)
    BY <1>0, <1>1, <2>3 DEF EndCheck
  <2>4. CASE EndCall(t)
    BY <1>0, <1>1, <2>4 DEF EndCall, QISRSessionEnd, Uses
  <2>5. CASE EndClear(t)
    BY <1>0, <1>1, <2>5 DEF EndClear
  <2>6. CASE EndState(t)
    BY <1>0, <1>1, <2>6 DEF EndState
  <2> QED
    BY <1>1, <2>1, <2>2, <2>3, <2>4, <2>5, <2>6 DEF end_sr
<1>2. CASE sr_init
  BY <1>0, <1>2 DEF sr_init, sr_cleared
<1>3. CASE SessionBegin
  BY <1>0, <1>3 DEF SessionBegin
<1>4. CASE start_record
  BY <1>0, <1>4 DEF start_record, QISRSessionEnd, Uses
<1>5. CASE Started
  BY <1>0, <1>5 DEF Started
<1>6. CASE SpeechBegin
  BY <1>0, <1>6 DEF SpeechBegin, on_speech_begin
<1>7. CASE StopBegin
  BY <1>0, <1>7 DEF StopBegin
<1>8. CASE stop_record("user", "stop_stop", "stop_drop", "stop_wait")
  BY <1>0, <1>8 DEF stop_record
<1>9. CASE drop_stream("user", "stop_drop", "stop_wait", "uninit")
  BY <1>0, <1>9 DEF drop_stream
<1>10. CASE wait_for_rec_stop
  BY <1>0, <1>10 DEF wait_for_rec_stop
<1>11. CASE StopState
  BY <1>0, <1>11 DEF StopState
<1>12. CASE LastWrite
  BY <1>0, <1>12 DEF LastWrite, QISRAudioWrite, QISRSessionEnd, Uses
<1>13. CASE StopResult
  BY <1>0, <1>13 DEF StopResult, QISRGetResult, on_result, Uses, Crash
<1>14. CASE NormalEnd
  BY <1>0, <1>14 DEF NormalEnd, QISRSessionEnd, Uses
<1>15. CASE sr_uninit
  BY <1>0, <1>15 DEF sr_uninit, Crash
<1>16. CASE Join
  BY <1>0, <1>16 DEF Join
<1>17. CASE Publish
  BY <1>0, <1>17 DEF Publish
<1>18. CASE RecordTop
  BY <1>0, <1>18 DEF RecordTop
<1>19. CASE pcm_read
  BY <1>0, <1>19 DEF pcm_read, Stay
<1>20. CASE iat_cb
  BY <1>0, <1>20 DEF iat_cb
<1>21. CASE sr_write_audio_data
  BY <1>0, <1>21 DEF sr_write_audio_data, QISRAudioWrite, QISRGetResult, on_result, Uses, Crash
<1>22. CASE stop_record("record", "vad_stop", "vad_drop", "vad_results")
  BY <1>0, <1>22 DEF stop_record
<1>23. CASE drop_stream("record", "vad_drop", "vad_results", "vad_results")
  BY <1>0, <1>23 DEF drop_stream
<1>24. CASE VadResult
  BY <1>0, <1>24 DEF VadResult, QISRGetResult, on_result, Uses, Crash
<1>25. CASE Cancel
  BY <1>0, <1>25 DEF Cancel
<1>26. CASE Overrun
  BY <1>0, <1>26 DEF Overrun, Stay
<1>27. CASE UNCHANGED vars
  BY <1>0, <1>27 DEF vars
<1> QED
  BY <1>1, <1>2, <1>3, <1>4, <1>5, <1>6, <1>7, <1>8, <1>9, <1>10, <1>11, <1>12, <1>13,
    <1>14, <1>15, <1>16, <1>17, <1>18, <1>19, <1>20, <1>21, <1>22, <1>23, <1>24,
    <1>25, <1>26, <1>27
  DEF Next, UserThread, RecordThread, sr_start_listening, sr_stop_listening,
    end_sr_on_vad, Halted, Threads

(* The recorder is stopped by someone whenever the user's thread waits for *)
(* it, or is about to destroy it: wait_for_rec_stop does not wait for a     *)
(* stream that nobody drops, and sr_uninit need not stop it again           *)
(* (linuxrec.c: stop_record, is_record_stopped; speech_recognizer.c).       *)
THEOREM WaitsAreServed == Spec => []StoppedWaits
<1>1. Init => FlowInv /\ ListenInv /\ WaitInv
  BY DEF Init, FlowInv, LifeInv, StoppedInv, LatchInv, Overlap, ListenInv, BeforeInv, AfterInv,
    WaitInv, Threads, CREATED, RECORDING
<1>2. WaitInv => StoppedWaits
  BY DEF WaitInv, StoppedWaits
<1>3. TypeInv /\ FlowInv /\ ListenInv /\ WaitInv /\ [Next]_vars => (FlowInv /\ ListenInv /\ WaitInv)'
  BY FlowStep, ListenStep, WaitStep DEF TypeInv
<1> QED
  BY <1>1, <1>2, <1>3, TypesKept, PTL DEF Spec
=============================================================================
