---------------------------- MODULE VoiceDialogue ----------------------------
(***************************************************************************)
(* The spoken dialogue: three processes over topics.  xf_asr records the   *)
(* user and publishes the text on voice_input, spark asks a language model *)
(* and publishes an answer on llm_output (and a task), toycar_voice speaks *)
(* the answer and publishes voice_stop, which opens the next round of      *)
(* xf_asr.  xf_asr plays as its prompt the very file into which            *)
(* toycar_voice synthesises.  How one recording works is in Recognizer.    *)
(*                                                                         *)
(* An utterance is the set of place slots the model finds in it.           *)
(***************************************************************************)
EXTENDS Naturals, Sequences

CONSTANTS
  Utterance,   \* what may be said in a round
  MaxAwake     \* bound: wake words that wait for xf_asr

ASSUME DialogueAssumption ==
  /\ Utterance \subseteq SUBSET {"Location", "Location1", "Location2"}
  /\ MaxAwake \in Nat

VARIABLES
  asr,           \* xf_asr: "loop", or in a round: "prompt", "listen"
  wakeupFlag, feedbackFlag, resultFlag,
  g_result,      \* the last utterance
  llm,           \* spark: "idle", "run", or "down" after an exception
  oldKeywords,   \* spark: kept for a merge whose result is not used
  tts,           \* toycar_voice: "idle", "write", "play"
  wav,           \* the file: "whole" or "torn"
  awake,         \* online_awake_angle: is the angle other than 0
  voice_input, llm_output, voice_stop    \* topics

asrVars == <<asr, wakeupFlag, feedbackFlag, resultFlag, g_result>>
llmVars == <<llm, oldKeywords>>
ttsVars == <<tts, wav>>
topics  == <<awake, voice_input, llm_output, voice_stop>>
vars    == <<asrVars, llmVars, ttsVars, topics>>

Init ==
  /\ asr = "loop"
  /\ wakeupFlag = FALSE /\ feedbackFlag = TRUE /\ resultFlag = FALSE
  /\ g_result = {}
  /\ llm = "idle" /\ oldKeywords = {}
  /\ tts = "idle" /\ wav = "whole"
  /\ awake = <<>> /\ voice_input = <<>> /\ llm_output = <<>> /\ voice_stop = <<>>

-----------------------------------------------------------------------------
(* xf_asr.                                                                 *)

(* At most one message of each subscription is taken.                      *)
Rest(q) == IF q = <<>> THEN q ELSE Tail(q)

(* Seeded fault: the wake word alone opens a round.                        *)
LoopEager ==
  /\ asr = "loop"
  /\ voice_input' = IF resultFlag THEN Append(voice_input, g_result) ELSE voice_input
  /\ resultFlag' = FALSE
  /\ feedbackFlag' = (feedbackFlag \/ voice_stop # <<>>)
  /\ wakeupFlag' = (wakeupFlag \/ voice_stop # <<>> \/ (awake # <<>> /\ Head(awake)))
  /\ awake' = Rest(awake)
  /\ voice_stop' = Rest(voice_stop)
  /\ asr' = IF wakeupFlag' THEN "prompt" ELSE "loop"
  /\ UNCHANGED <<g_result, llm_output, llmVars, ttsVars>>

(* One turn of the main loop after the inner one: publish a result, take   *)
(* messages, look at the flags.  stopFlag, set by a task, leaves a loop    *)
(* that both flags leave anyway.                                           *)
Loop ==
  /\ asr = "loop"
  /\ voice_input' = IF resultFlag THEN Append(voice_input, g_result) ELSE voice_input
  /\ resultFlag' = FALSE
  /\ feedbackFlag' = (feedbackFlag \/ voice_stop # <<>>)
  /\ wakeupFlag' = (wakeupFlag \/ voice_stop # <<>> \/ (awake # <<>> /\ Head(awake)))
  /\ awake' = Rest(awake)
  /\ voice_stop' = Rest(voice_stop)
  /\ asr' = IF wakeupFlag' /\ feedbackFlag' THEN "prompt" ELSE "loop"
  /\ UNCHANGED <<g_result, llm_output, llmVars, ttsVars>>

(* aplay of the prompt ends.                                               *)
Prompted ==
  /\ asr = "prompt"
  /\ asr' = "listen"
  /\ UNCHANGED <<wakeupFlag, feedbackFlag, resultFlag, g_result, llmVars, ttsVars, topics>>

(* demo_mic returns: with words, or, after silence or a failure, without.  *)
Listened ==
  /\ asr = "listen"
  /\ \/ \E u \in Utterance : g_result' = u /\ resultFlag' = TRUE
     \/ UNCHANGED <<g_result, resultFlag>>
  /\ feedbackFlag' = FALSE
  /\ wakeupFlag' = FALSE
  /\ asr' = "loop"
  /\ UNCHANGED <<llmVars, ttsVars, topics>>

-----------------------------------------------------------------------------
(* spark: one callback around a call that waits for the remote model.      *)
VoiceCallBack ==
  /\ llm = "idle"
  /\ voice_input # <<>>
  /\ llm' = "run"
  /\ UNCHANGED <<asrVars, oldKeywords, ttsVars, topics>>

Ask  == Head(voice_input)
Say(answer) == llm_output' = Append(llm_output, answer)

(* checkKeywordCount and CheckKeywordCount: the places of a complete       *)
(* request are looked up, each of them may be unknown or the database out  *)
(* of reach (id -1).                                                       *)
Complete(u) ==
  \/ "Location" \in u /\ "Location1" \notin u /\ "Location2" \notin u
  \/ {"Location1", "Location2"} \subseteq u

(* A task goes out with the message that announces it.                     *)
Answers ==
  \/ Complete(Ask) /\ Say("task") /\ UNCHANGED oldKeywords
  \/ Complete(Ask) /\ Say("no such place") /\ UNCHANGED oldKeywords
  \/ ~Complete(Ask) /\ Say("missing") /\ oldKeywords' = Ask

(* The model's answer arrives: an error is printed and nothing published,  *)
(* a text that is not the JSON asked for ends the process.                 *)
SyncLLM ==
  /\ llm = "run"
  /\ \/ llm' = "idle" /\ Answers
     \/ llm' = "idle" /\ UNCHANGED <<oldKeywords, llm_output>>
     \/ llm' = "down" /\ UNCHANGED <<oldKeywords, llm_output>>
  /\ voice_input' = Tail(voice_input)
  /\ UNCHANGED <<asrVars, ttsVars, awake, voice_stop>>

-----------------------------------------------------------------------------
(* toycar_voice.  fopen empties the file ("wb").                           *)
TopicCallback ==
  /\ tts = "idle"
  /\ llm_output # <<>>
  /\ tts' = "write"
  /\ wav' = "torn"
  /\ llm_output' = Tail(llm_output)
  /\ UNCHANGED <<asrVars, llmVars, awake, voice_input, voice_stop>>

(* Seeded fault: a failure, too, gives the floor back.                     *)
SynthesiseForgiving ==
  /\ tts = "write"
  /\ \/ tts' = "play" /\ wav' = "whole"
     \/ tts' = "play" /\ wav' = "torn"
  /\ UNCHANGED <<asrVars, llmVars, topics>>

(* text_to_speech: its failures leave the file as it is by then, and only  *)
(* end the callback; the last of them comes after the file was closed.     *)
Synthesise ==
  /\ tts = "write"
  /\ \/ tts' = "play" /\ wav' = "whole"
     \/ tts' = "idle" /\ wav' \in {"torn", "whole"}
  /\ UNCHANGED <<asrVars, llmVars, topics>>

(* aplay returns, with or without success.                                 *)
Played ==
  /\ tts = "play"
  /\ tts' = "idle"
  /\ voice_stop' = Append(voice_stop, 1)
  /\ UNCHANGED <<asrVars, llmVars, wav, awake, voice_input, llm_output>>

-----------------------------------------------------------------------------
(* The microphone array heard the wake word, at some angle.                *)
WakeWord ==
  /\ Len(awake) < MaxAwake
  /\ \E angle \in BOOLEAN : awake' = Append(awake, angle)
  /\ UNCHANGED <<asrVars, llmVars, ttsVars, voice_input, llm_output, voice_stop>>

Asr == Loop \/ Prompted \/ Listened
Llm == VoiceCallBack \/ SyncLLM
Tts == TopicCallback \/ Synthesise \/ Played

Next == Asr \/ Llm \/ Tts \/ WakeWord

Spec == Init /\ [][Next]_vars

(* The three processes run, and the remote services answer or fail; nobody *)
(* need say the wake word.                                                 *)
FairSpec == Spec /\ WF_vars(Asr) /\ WF_vars(Llm) /\ WF_vars(Tts)

-----------------------------------------------------------------------------
InRound == asr \in {"prompt", "listen"}

(* Where the floor is, if xf_asr does not have it.                         *)
Underway ==
  \/ resultFlag
  \/ voice_input # <<>>
  \/ llm_output # <<>>
  \/ tts # "idle"
  \/ voice_stop # <<>>

TypeOK ==
  /\ asr \in {"loop", "prompt", "listen"}
  /\ {wakeupFlag, feedbackFlag, resultFlag} \subseteq BOOLEAN
  /\ g_result \in Utterance \cup {{}}
  /\ oldKeywords \in Utterance \cup {{}}
  /\ llm \in {"idle", "run", "down"}
  /\ tts \in {"idle", "write", "play"}
  /\ wav \in {"whole", "torn"}
  /\ awake \in Seq(BOOLEAN)
  /\ voice_input \in Seq(Utterance \cup {{}})
  /\ llm_output \in Seq({"task", "no such place", "missing"})
  /\ voice_stop \in Seq({1})

(* The floor is in one place only, however wake words and answers cross:   *)
(* while xf_asr may begin a round nothing is being thought about, spoken   *)
(* or announced, and otherwise at most one of these is (xf_asr.cpp:232,    *)
(* toycar_voice:173 "only after the playback").                             *)
OneFloor ==
  /\ feedbackFlag => ~Underway
  /\ resultFlag => voice_input = <<>>
  /\ resultFlag \/ voice_input # <<>> => llm_output = <<>> /\ tts = "idle"
  /\ llm_output # <<>> => tts = "idle"
  /\ resultFlag \/ voice_input # <<>> \/ llm_output # <<>> \/ tts # "idle"
       => voice_stop = <<>>
  /\ Len(voice_input) <= 1 /\ Len(llm_output) <= 1 /\ Len(voice_stop) <= 1

(* xf_asr never plays a file that toycar_voice is writing or has left      *)
(* unfinished (xf_asr.cpp:20,237; subscriber_member_function.cpp:68).      *)
PromptWhole == asr = "prompt" => wav = "whole"

(* What the comments say of two utterances, "merge the two keyword maps"    *)
(* (spark.cpp:241): the robot asks for something only if it is in neither  *)
(* this utterance nor the one it asked about before.                       *)
AsksForTheRest ==
  [][llm_output' = Append(llm_output, "missing") => ~Complete(Ask \cup oldKeywords)]_vars

(* The dialogue takes turns as Turns says.                                 *)
turn ==
  IF InRound THEN "listening"
  ELSE IF feedbackFlag THEN "asleep"
  ELSE IF Underway THEN "answering"
  ELSE "deaf"

T == INSTANCE Turns
TakesTurns == T!Spec
=============================================================================
