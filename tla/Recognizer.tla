----------------------------- MODULE Recognizer -----------------------------
(***************************************************************************)
(* One question heard by xf_asr (demo_mic of xf_asr.cpp): the user's       *)
(* thread opens a recorder, starts a session with the speech service,      *)
(* sleeps 15 s, stops and cleans up.  The recording thread of linuxrec.c   *)
(* hands each buffer to iat_cb of speech_recognizer.c, which writes it to  *)
(* the session, fetches results and may itself end the session.  The two   *)
(* share struct speech_rec and struct recorder without a lock.             *)
(***************************************************************************)
EXTENDS Naturals

CONSTANTS
  MaxRounds,   \* bound: calls of demo_mic
  MayFail      \* what may go wrong

Failures == {"open", "begin", "start", "write", "result", "drop", "overrun", "prepare"}

ASSUME RecognizerAssumption ==
  /\ MaxRounds \in Nat
  /\ MayFail \subseteq Failures

Threads == {"user", "record"}

(* The recorder's states; the code compares them.                          *)
CREATED   == 0
CLOSING   == 1
READY     == 2
STOPPING  == 3
RECORDING == 4

NoSession == 0      \* session_id == NULL; round n's session is n
NoBuffer  == {0}    \* g_result == NULL

EndPoints   == {"looking", "after", "beyond"}      \* ep_stat, AFTER_SPEECH or above
RecStatuses == {"success", "incomplete", "complete"}

VARIABLES
  pc,          \* where each thread is
  round,
  state,       \* sr->state: "init" or "started"
  recState,    \* rec->state
  pcm,         \* the ALSA stream: "none", "prepared", "running", "xrun", "setup"
  session,     \* sr->session_id
  open,        \* the sessions the service holds open
  ep_stat,
  rec_stat,
  g_result,    \* the rounds whose words the text holds
  resultFlag,
  overlapped,  \* history: a stop met a callback that was past its checks
  early,       \* history: a buffer was read before on_speech_begin was through
  dropFailed,  \* history: snd_pcm_drop has failed
  misused      \* history: the service was given a session it had not open

srVars   == <<state, session, ep_stat, rec_stat>>
recVars  == <<recState, pcm, dropFailed>>
textVars == <<g_result, resultFlag>>
flowVars == <<pc, overlapped, early>>
vars == <<flowVars, round, srVars, recVars, open, textVars, misused>>

(* A buffer read within two statements of starting the stream.             *)
EarlyRead == pc["record"] = "cb" /\ pc["user"] \in {"started", "begin"}

(* A stop meets a callback that already passed the checks of iat_cb.       *)
Overlap ==
  /\ pc["user"] \in {"stop_stop", "stop_drop", "stop_wait", "stop_state", "last", "last_err",
                     "results", "normal_end", "normal_clear", "err_stop", "err_drop",
                     "end_check", "end_call", "end_clear", "end_state"}
  /\ pc["record"] \notin {"gone", "top", "read", "cb"}

Goto(t, label) ==
  /\ pc' = [pc EXCEPT ![t] = label]
  /\ overlapped' = (overlapped \/ Overlap')
  /\ early' = (early \/ EarlyRead')

Crash == pc' = [t \in Threads |-> "crashed"] /\ UNCHANGED <<overlapped, early>>
Stay  == UNCHANGED flowVars

Init ==
  /\ pc = [t \in Threads |-> IF t = "user" THEN "idle" ELSE "gone"]
  /\ round = 0
  /\ state = "init"
  /\ recState = CREATED
  /\ pcm = "none"
  /\ session = NoSession
  /\ open = {}
  /\ ep_stat = "looking"
  /\ rec_stat = "success"
  /\ g_result = NoBuffer
  /\ resultFlag = FALSE
  /\ overlapped = FALSE
  /\ early = FALSE
  /\ dropFailed = FALSE
  /\ misused = FALSE

-----------------------------------------------------------------------------
(* The service and the callbacks, as steps of whichever thread calls them. *)

(* Seeded fault: the text of the round before is kept.                     *)
on_speech_begin_keeping == g_result' = IF g_result = NoBuffer THEN {} ELSE g_result

on_speech_begin == g_result' = {}

(* strncat onto a buffer that was never allocated ends the process.        *)
on_result(t, next) ==
  IF g_result = NoBuffer
    THEN Crash /\ UNCHANGED textVars
    ELSE /\ g_result' = g_result \union {round}
         /\ resultFlag' = TRUE
         /\ Goto(t, next)

Uses(s) == misused' = (misused \/ s \notin open)

QISRAudioWrite(t, onError, onSuccess, onReturn) ==
  /\ Uses(session)
  /\ \/ /\ session \notin open \/ "write" \in MayFail
        /\ Goto(t, onError)
        /\ UNCHANGED <<ep_stat, rec_stat>>
     \/ /\ session \in open
        /\ ep_stat' \in EndPoints
        /\ rec_stat' \in RecStatuses
        /\ Goto(t, IF rec_stat' = "success" THEN onSuccess ELSE onReturn)

QISRGetResult(t, onError, onReturn) ==
  /\ Uses(session)
  /\ \/ /\ session \notin open \/ "result" \in MayFail
        /\ Goto(t, onError)
        /\ UNCHANGED <<rec_stat, textVars>>
     \/ /\ session \in open
        /\ rec_stat' \in RecStatuses
        /\ \/ on_result(t, onReturn)
           \/ Goto(t, onReturn) /\ UNCHANGED textVars   \* rslt == NULL

QISRSessionEnd(s) ==
  /\ Uses(s)
  /\ open' = open \ {s}

(* stop_record: enough for either thread that the other has begun it.      *)
stop_record(t, here, drop, stopped) ==
  /\ pc[t] = here
  /\ IF recState < RECORDING
       THEN Goto(t, stopped) /\ UNCHANGED recState
       ELSE recState' = STOPPING /\ Goto(t, drop)
  /\ UNCHANGED <<round, srVars, pcm, dropFailed, open, textVars, misused>>

(* snd_pcm_drop, and the state it leads to.                                *)
drop_stream(t, here, stopped, failed) ==
  /\ pc[t] = here
  /\ \/ /\ pcm' = "setup"
        /\ recState' = READY
        /\ Goto(t, stopped)
        /\ UNCHANGED dropFailed
     \/ /\ "drop" \in MayFail
        /\ dropFailed' = TRUE
        /\ Goto(t, failed)
        /\ UNCHANGED <<recState, pcm>>
  /\ UNCHANGED <<round, srVars, open, textVars, misused>>

-----------------------------------------------------------------------------
(* The last part of end_sr_on_error and end_sr_on_vad.                     *)

EndCheck(t) ==
  /\ pc[t] = "end_check"
  /\ Goto(t, IF session # NoSession THEN "end_call" ELSE "end_state")
  /\ UNCHANGED <<round, srVars, recVars, open, textVars, misused>>

EndCall(t) ==
  /\ pc[t] = "end_call"
  /\ QISRSessionEnd(session)
  /\ Goto(t, "end_clear")
  /\ UNCHANGED <<round, srVars, recVars, textVars>>

EndClear(t) ==
  /\ pc[t] = "end_clear"
  /\ session' = NoSession
  /\ Goto(t, "end_state")
  /\ UNCHANGED <<round, state, ep_stat, rec_stat, recVars, open, textVars, misused>>

(* Seeded fault: the state stays started, and the callbacks go on.         *)
EndStateKept(t) ==
  /\ pc[t] = "end_state"
  /\ Goto(t, IF t = "user" THEN "uninit" ELSE "top")
  /\ UNCHANGED <<round, srVars, recVars, open, textVars, misused>>

(* After an error iat_cb calls end_sr_on_error a second time: there is     *)
(* neither a session nor a running recorder left, the state is set again.  *)
EndState(t) ==
  /\ pc[t] = "end_state"
  /\ state' = "init"
  /\ Goto(t, IF t = "user" THEN "uninit" ELSE "top")
  /\ UNCHANGED <<round, session, ep_stat, rec_stat, recVars, open, textVars, misused>>

end_sr(t) ==
  \/ stop_record(t, "err_stop", "err_drop", "end_check")
  \/ drop_stream(t, "err_drop", "end_check", "end_check")
  \/ EndCheck(t) \/ EndCall(t) \/ EndClear(t) \/ EndState(t)

-----------------------------------------------------------------------------
(* The recording thread.                                                   *)

RecordTop ==
  /\ pc["record"] = "top"
  /\ Goto("record", IF recState = CLOSING THEN "gone" ELSE "read")
  /\ UNCHANGED <<round, srVars, recVars, open, textVars, misused>>

(* A stream that was dropped cannot be read: the thread returns.           *)
pcm_read ==
  /\ pc["record"] = "read"
  /\ \/ /\ pcm = "running"
        /\ Goto("record", "cb")
        /\ UNCHANGED pcm
     \/ pcm = "setup" /\ Goto("record", "gone") /\ UNCHANGED pcm
     \/ pcm = "xrun" /\ pcm' = "prepared" /\ Stay    \* xrun_recovery
     \/ pcm = "xrun" /\ "prepare" \in MayFail /\ Goto("record", "gone") /\ UNCHANGED pcm
  /\ UNCHANGED <<round, srVars, recState, dropFailed, open, textVars, misused>>

iat_cb ==
  /\ pc["record"] = "cb"
  /\ Goto("record", IF ep_stat # "looking" \/ state # "started" THEN "top" ELSE "write")
  /\ UNCHANGED <<round, srVars, recVars, open, textVars, misused>>

sr_write_audio_data ==
  /\ \/ /\ pc["record"] = "write"
        /\ QISRAudioWrite("record", "err_stop", "get", "vad_check")
        /\ UNCHANGED textVars
     \/ /\ pc["record"] = "get"
        /\ QISRGetResult("record", "err_stop", "vad_check")
        /\ UNCHANGED ep_stat
     \/ /\ pc["record"] = "vad_check"
        /\ Goto("record", IF ep_stat = "after" THEN "vad_stop" ELSE "top")
        /\ UNCHANGED <<ep_stat, rec_stat, textVars, misused>>
  /\ UNCHANGED <<round, state, session, recVars, open>>

(* The loop of end_sr_on_vad goes on after an error.                       *)
VadResult ==
  /\ pc["record"] = "vad_results"
  /\ \/ /\ rec_stat # "complete"
        /\ QISRGetResult("record", "vad_results", "vad_results")
     \/ /\ rec_stat = "complete"
        /\ Goto("record", "end_check")
        /\ UNCHANGED <<rec_stat, textVars, misused>>
  /\ UNCHANGED <<round, state, session, ep_stat, recVars, open>>

end_sr_on_vad ==
  \/ stop_record("record", "vad_stop", "vad_drop", "vad_results")
  \/ drop_stream("record", "vad_drop", "vad_results", "vad_results")
  \/ VadResult

RecordThread ==
  \/ RecordTop \/ pcm_read \/ iat_cb \/ sr_write_audio_data \/ end_sr_on_vad
  \/ end_sr("record")

(* The device fills the buffer while the thread is away.                   *)
Overrun ==
  /\ "overrun" \in MayFail
  /\ pcm = "running"
  /\ pcm' = "xrun"
  /\ Stay /\ UNCHANGED <<round, srVars, recState, dropFailed, open, textVars, misused>>

-----------------------------------------------------------------------------
(* The user's thread.                                                      *)

(* The memset and the initial values of sr_init_ex.                        *)
sr_cleared ==
  /\ state' = "init"
  /\ session' = NoSession
  /\ ep_stat' = "looking"
  /\ rec_stat' = "success"

(* sr_init: open_recorder returns 0 also when the device did not open; the *)
(* thread may look at the recorder before it is READY, to the same effect. *)
sr_init ==
  /\ pc["user"] = "idle"
  /\ round < MaxRounds
  /\ round' = round + 1
  /\ sr_cleared
  /\ \/ /\ recState' = READY
        /\ pcm' = "prepared"
        /\ pc' = [pc EXCEPT !["user"] = "start", !["record"] = "top"]
        /\ UNCHANGED <<overlapped, early, dropFailed>>
     \/ /\ "open" \in MayFail
        /\ recState' = CREATED
        /\ Goto("user", "start")
        /\ UNCHANGED <<pcm, dropFailed>>
     \/ /\ "open" \in MayFail        \* no input device, or no memory
        /\ Goto("user", "publish")
        /\ UNCHANGED recVars
  /\ UNCHANGED <<open, textVars, misused>>

SessionBegin ==
  /\ pc["user"] = "start"
  /\ \/ /\ session' = round
        /\ open' = open \union {round}
        /\ ep_stat' = "looking"
        /\ rec_stat' = "success"
        /\ Goto("user", "record")
     \/ /\ "begin" \in MayFail
        /\ Goto("user", "stop")
        /\ UNCHANGED <<session, open, ep_stat, rec_stat>>
  /\ UNCHANGED <<round, state, recVars, textVars, misused>>

(* Seeded fault: the ended session stays in struct speech_rec.             *)
StartKeepsSession ==
  /\ pc["user"] = "record"
  /\ \/ /\ recState >= READY
        /\ pcm' = "running"
        /\ recState' = RECORDING
        /\ Goto("user", "started")
        /\ UNCHANGED <<dropFailed, open, misused>>
     \/ /\ recState < READY \/ "start" \in MayFail
        /\ QISRSessionEnd(session)
        /\ Goto("user", "stop")
        /\ UNCHANGED recVars
  /\ UNCHANGED <<round, srVars, textVars>>

start_record ==
  /\ pc["user"] = "record"
  /\ \/ /\ recState >= READY
        /\ pcm' = "running"
        /\ recState' = RECORDING
        /\ Goto("user", "started")
        /\ UNCHANGED <<session, dropFailed, open, misused>>
     \/ /\ recState < READY \/ "start" \in MayFail
        /\ QISRSessionEnd(session)
        /\ session' = NoSession
        /\ Goto("user", "stop")
        /\ UNCHANGED recVars
  /\ UNCHANGED <<round, state, ep_stat, rec_stat, textVars>>

Started ==
  /\ pc["user"] = "started"
  /\ state' = "started"
  /\ Goto("user", "begin")
  /\ UNCHANGED <<round, session, ep_stat, rec_stat, recVars, open, textVars, misused>>

SpeechBegin ==
  /\ pc["user"] = "begin"
  /\ on_speech_begin
  /\ Goto("user", "stop")
  /\ UNCHANGED <<round, srVars, recVars, open, resultFlag, misused>>

sr_start_listening == SessionBegin \/ start_record \/ Started \/ SpeechBegin

(* After the 15 s; nothing to do when start or the callback ended it.      *)
StopBegin ==
  /\ pc["user"] = "stop"
  /\ Goto("user", IF state = "started" THEN "stop_stop" ELSE "uninit")
  /\ UNCHANGED <<round, srVars, recVars, open, textVars, misused>>

(* wait_for_rec_stop waits for the stream, not for a callback.             *)
wait_for_rec_stop ==
  /\ pc["user"] = "stop_wait"
  /\ recState # RECORDING /\ pcm # "running"
  /\ Goto("user", "stop_state")
  /\ UNCHANGED <<round, srVars, recVars, open, textVars, misused>>

StopState ==
  /\ pc["user"] = "stop_state"
  /\ state' = "init"
  /\ Goto("user", "last")
  /\ UNCHANGED <<round, session, ep_stat, rec_stat, recVars, open, textVars, misused>>

(* Seeded fault: a session whose last write failed is left open.           *)
LastWriteLeaves ==
  /\ \/ /\ pc["user"] = "last"
        /\ QISRAudioWrite("user", "uninit", "results", "results")
        /\ UNCHANGED open
     \/ /\ pc["user"] = "last_err"
        /\ QISRSessionEnd(session)
        /\ Goto("user", "uninit")
        /\ UNCHANGED <<ep_stat, rec_stat>>
  /\ UNCHANGED <<round, state, session, recVars, textVars>>

LastWrite ==
  /\ \/ /\ pc["user"] = "last"
        /\ QISRAudioWrite("user", "last_err", "results", "results")
        /\ UNCHANGED open
     \/ /\ pc["user"] = "last_err"
        /\ QISRSessionEnd(session)
        /\ Goto("user", "uninit")
        /\ UNCHANGED <<ep_stat, rec_stat>>
  /\ UNCHANGED <<round, state, session, recVars, textVars>>

(* Seeded fault: an error is asked again, as end_sr_on_vad does.           *)
StopResultRetries ==
  /\ pc["user"] = "results"
  /\ \/ /\ rec_stat # "complete"
        /\ QISRGetResult("user", "results", "results")
     \/ /\ rec_stat = "complete"
        /\ Goto("user", "normal_end")
        /\ UNCHANGED <<rec_stat, textVars, misused>>
  /\ UNCHANGED <<round, state, session, ep_stat, recVars, open>>

StopResult ==
  /\ pc["user"] = "results"
  /\ \/ /\ rec_stat # "complete"
        /\ QISRGetResult("user", "err_stop", "results")
     \/ /\ rec_stat = "complete"
        /\ Goto("user", "normal_end")
        /\ UNCHANGED <<rec_stat, textVars, misused>>
  /\ UNCHANGED <<round, state, session, ep_stat, recVars, open>>

NormalEnd ==
  /\ \/ /\ pc["user"] = "normal_end"
        /\ QISRSessionEnd(session)
        /\ Goto("user", "normal_clear")
        /\ UNCHANGED session
     \/ /\ pc["user"] = "normal_clear"
        /\ session' = NoSession
        /\ Goto("user", "uninit")
        /\ UNCHANGED <<open, misused>>
  /\ UNCHANGED <<round, state, ep_stat, rec_stat, recVars, textVars>>

sr_stop_listening ==
  \/ StopBegin
  \/ stop_record("user", "stop_stop", "stop_drop", "stop_wait")
  \/ drop_stream("user", "stop_drop", "stop_wait", "uninit")
  \/ wait_for_rec_stop \/ StopState \/ LastWrite \/ StopResult \/ NormalEnd
  \/ end_sr("user")

(* The recorder is no longer recording when sr_uninit is called, so its    *)
(* calls of stop_record do nothing.  is_record_stopped asks ALSA about a   *)
(* stream that does not exist when the device had not opened.              *)
sr_uninit ==
  /\ pc["user"] = "uninit"
  /\ IF pcm = "none"
       THEN Crash /\ UNCHANGED recState
       ELSE /\ recState # RECORDING
            /\ recState' = CLOSING
            /\ Goto("user", "join")
  /\ UNCHANGED <<round, srVars, pcm, dropFailed, open, textVars, misused>>

(* pthread_cancel acts where the thread sleeps, reads or talks to the      *)
(* service.                                                                *)
Cancel ==
  /\ pc["user"] = "join"
  /\ pc["record"] \in {"top", "read", "write", "get", "vad_results", "end_call"}
  /\ Goto("record", "gone")
  /\ UNCHANGED <<round, srVars, recVars, open, textVars, misused>>

(* Seeded fault: the recorder is freed without waiting for its thread.     *)
JoinAtOnce ==
  /\ pc["user"] = "join"
  /\ pcm' = "none"
  /\ recState' = CREATED
  /\ Goto("user", "publish")
  /\ UNCHANGED <<round, srVars, dropFailed, open, textVars, misused>>

Join ==
  /\ pc["user"] = "join"
  /\ pc["record"] = "gone"
  /\ pcm' = "none"
  /\ recState' = CREATED
  /\ Goto("user", "publish")
  /\ UNCHANGED <<round, srVars, dropFailed, open, textVars, misused>>

(* The main loop publishes a text that arrived since it last did.          *)
Publish ==
  /\ pc["user"] = "publish"
  /\ resultFlag' = FALSE
  /\ Goto("user", "idle")
  /\ UNCHANGED <<round, srVars, recVars, open, g_result, misused>>

UserThread ==
  \/ sr_init \/ sr_start_listening \/ sr_stop_listening \/ sr_uninit \/ Join \/ Publish

(* All rounds done, or the process has ended.                              *)
Halted ==
  /\ \/ pc["user"] = "crashed"
     \/ pc["user"] = "idle" /\ round = MaxRounds
  /\ UNCHANGED vars

-----------------------------------------------------------------------------
Next == UserThread \/ RecordThread \/ Cancel \/ Overrun \/ Halted

Spec == Init /\ [][Next]_vars

(* Both threads are scheduled and a cancelled thread is reached; the       *)
(* service, asked again and again for a result, completes or fails.        *)
ServiceAnswers == StopResult /\ (pc'["user"] = "results" => rec_stat' = "complete")

FairSpec ==
  /\ Spec
  /\ WF_vars(UserThread)
  /\ WF_vars(RecordThread)
  /\ WF_vars(Cancel)
  /\ WF_vars(ServiceAnswers)

-----------------------------------------------------------------------------
UserLabels ==
  {"idle", "start", "record", "started", "begin", "stop", "stop_stop", "stop_drop",
   "stop_wait", "stop_state", "last", "last_err", "results", "normal_end",
   "normal_clear", "uninit", "join", "publish"}
RecordLabels ==
  {"gone", "top", "read", "cb", "write", "get", "vad_check", "vad_stop", "vad_drop",
   "vad_results"}
EndLabels ==
  {"err_stop", "err_drop", "end_check", "end_call", "end_clear", "end_state", "crashed"}

(* Types of the two threads' shared state.                                 *)
TypeOK ==
  /\ pc \in [Threads -> UserLabels \union RecordLabels \union EndLabels]
  /\ pc["user"] \in UserLabels \union EndLabels
  /\ pc["record"] \in RecordLabels \union EndLabels
  /\ round \in 0..MaxRounds
  /\ state \in {"init", "started"}
  /\ recState \in {CREATED, CLOSING, READY, STOPPING, RECORDING}
  /\ pcm \in {"none", "prepared", "running", "xrun", "setup"}
  /\ session \in {NoSession, round}
  /\ open \subseteq 1..round
  /\ ep_stat \in EndPoints
  /\ rec_stat \in RecStatuses
  /\ g_result \subseteq 0..MaxRounds
  /\ resultFlag \in BOOLEAN
  /\ overlapped \in BOOLEAN
  /\ early \in BOOLEAN
  /\ dropFailed \in BOOLEAN
  /\ misused \in BOOLEAN

(* When demo_mic returns, its thread and its stream are gone, and as long  *)
(* as snd_pcm_drop has not failed its session too, whichever of the threads *)
(* ended what, in whatever order (speech_recognizer.c, linuxrec.c:469-486).*)
NothingOutlives ==
  pc["user"] \in {"publish", "idle"} =>
    /\ pc["record"] = "gone"
    /\ pcm = "none"
    /\ ~dropFailed => open = {}

(* The service is given a session that is not open (ended before, or NULL) *)
(* only if sr_stop_listening ran while a callback was past the checks of   *)
(* iat_cb: errors and endpoints alone never lead there.                    *)
SessionsUsedOpen == misused => overlapped

(* While the user's thread sleeps and no callback is at work, the state    *)
(* says whether a session is open, and the recorder records exactly then.  *)
ListeningConsistent ==
  pc["user"] = "stop" /\ pc["record"] \in {"gone", "top", "read", "cb"} =>
    /\ state = "started" <=> recState = RECORDING
    /\ state = "started" <=> round \in open
    /\ state = "started" <=> session = round

(* What is published are the words of this round, never those of an        *)
(* earlier one; something of it unless a first buffer was early.           *)
OwnWords ==
  pc["user"] = "publish" /\ resultFlag =>
    /\ g_result \subseteq {round}
    /\ ~early => g_result = {round}

(* demo_mic returns, if it does not end the process and snd_pcm_drop works:*)
(* no wait of sr_stop_listening, no join is for ever.                      *)
RoundReturns ==
  pc["user"] = "start" ~> pc["user"] \in {"publish", "crashed"} \/ dropFailed
=============================================================================
