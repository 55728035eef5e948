------------------------ MODULE VoiceDialogueProofs -------------------------
(***************************************************************************)
(* Proofs about VoiceDialogue, for every set of utterances and any number  *)
(* of wake words: the floor is in one place, the prompt is whole, and the  *)
(* dialogue takes turns.                                                   *)
(***************************************************************************)
EXTENDS VoiceDialogue, SequenceTheorems, TLAPS

(* A queue of at most one message.                                         *)
Single(q, S) == q = <<>> \/ \E m \in S : q = <<m>>

Answer == {"task", "no such place", "missing"}

(* The inductive invariant: which process may hold the floor, what the     *)
(* message under way says, and when the file is whole.                     *)
FloorInv ==
  /\ asr \in {"loop", "prompt", "listen"}
  /\ {wakeupFlag, feedbackFlag, resultFlag} \subseteq BOOLEAN
  /\ tts \in {"idle", "write", "play"}
  /\ Single(voice_input, {g_result})
  /\ Single(llm_output, Answer)
  /\ Single(voice_stop, {1})
  /\ InRound => feedbackFlag /\ wakeupFlag
  /\ llm = "run" => voice_input # <<>>
  /\ feedbackFlag => ~Underway
  /\ resultFlag => voice_input = <<>>
  /\ resultFlag \/ voice_input # <<>> => llm_output = <<>> /\ tts = "idle"
  /\ llm_output # <<>> => tts = "idle"
  /\ resultFlag \/ voice_input # <<>> \/ llm_output # <<>> \/ tts # "idle"
       => voice_stop = <<>>
  /\ feedbackFlag \/ voice_stop # <<>> \/ tts = "play" => wav = "whole"
  /\ ~feedbackFlag => asr = "loop"

(* The topics as the invariant knows them.                                 *)
LEMMA SingleFacts ==
  ASSUME NEW q, NEW S, Single(q, S)
  PROVE  /\ q # <<>> => Head(q) \in S /\ Tail(q) = <<>> /\ q = <<Head(q)>>
         /\ Len(q) <= 1
         /\ q = <<>> => \A m : Append(q, m) = <<m>>
         /\ Rest(q) = <<>>
<1>1. \A m : Len(<<m>>) = 1 /\ Head(<<m>>) = m /\ Tail(<<m>>) = <<>>
  OBVIOUS
<1>2. Len(<<>>) = 0
  OBVIOUS
<1>3. \A m : Append(<<>>, m) = <<m>>
  OBVIOUS
<1>4. q # <<>> => Head(q) \in S /\ Tail(q) = <<>> /\ q = <<Head(q)>> /\ Len(q) = 1
  BY <1>1, Zenon DEF Single
<1>5. Len(q) <= 1
  BY <1>2, <1>4
<1> QED
  BY <1>3, <1>4, <1>5, Zenon DEF Rest

LEMMA FloorInit == Init => FloorInv
<1> SUFFICES ASSUME Init PROVE FloorInv
  OBVIOUS
<1> QED
  BY Zenon DEF Init, FloorInv, Single, InRound, Underway

LEMMA FloorLoop ==
  ASSUME FloorInv, Loop PROVE FloorInv' /\ [T!Next]_turn
<1>1. Rest(voice_stop) = <<>>
  BY SingleFacts DEF FloorInv
<1>2. voice_stop' = <<>> /\ ~resultFlag' /\ resultFlag' \in BOOLEAN
  BY <1>1, Zenon DEF Loop
<1>3. CASE resultFlag
  <2>1. voice_input' = <<g_result>> /\ voice_stop = <<>> /\ ~feedbackFlag
    BY <1>3, SingleFacts, Zenon DEF FloorInv, Loop, Underway
  <2>2. /\ ~feedbackFlag' /\ asr' = "loop" /\ asr = "loop"
        /\ wakeupFlag' \in BOOLEAN /\ feedbackFlag' \in BOOLEAN
        /\ UNCHANGED <<g_result, llm_output, llmVars, ttsVars>>
    BY <1>3, <2>1, Zenon DEF FloorInv, Loop
  <2>3. /\ llm_output = <<>> /\ tts = "idle" /\ voice_input = <<>>
        /\ voice_input' # <<>>
    BY <1>3, <2>1, SMT DEF FloorInv
  <2>4. turn = "answering" /\ turn' = "answering"
    BY <1>3, <2>1, <2>2, <2>3, Zenon DEF turn, InRound, Underway
  <2> QED
    BY <1>2, <1>3, <2>1, <2>2, <2>3, <2>4, Zenon
    DEF FloorInv, Single, InRound, Underway, llmVars, ttsVars
<1>4. CASE ~resultFlag
  <2>1. voice_input' = voice_input
    BY <1>4, Zenon DEF Loop
  <2> QED
    BY <1>2, <1>4, <2>1, Zenon
    DEF FloorInv, Loop, Single, InRound, Underway, turn, llmVars, ttsVars,
        T!Next, T!WakeUp, T!Answer
<1> QED
  BY <1>3, <1>4

LEMMA FloorStep ==
  ASSUME FloorInv, [Next]_vars PROVE FloorInv' /\ [T!Next]_turn
<1>1. CASE Loop
  BY <1>1, FloorLoop
<1> USE DEF FloorInv, InRound, Underway, turn,
            asrVars, llmVars, ttsVars, topics
<1>2. CASE Prompted
  BY <1>2, Zenon DEF Prompted, Single
<1>3. CASE Listened
  BY <1>3, Zenon DEF Listened, Single, T!Next, T!Hear, T!GoDeaf
<1>4. CASE VoiceCallBack
  BY <1>4, Zenon DEF VoiceCallBack, Single
<1>5. CASE SyncLLM
  <2>1. /\ voice_input # <<>> /\ voice_input' = <<>> /\ llm_output = <<>>
        /\ tts = "idle" /\ voice_stop = <<>> /\ ~resultFlag /\ ~feedbackFlag
    BY <1>5, SingleFacts, Zenon DEF SyncLLM
  <2>2. UNCHANGED <<asrVars, ttsVars, awake, voice_stop>> /\ llm' # "run"
    BY <1>5, Zenon DEF SyncLLM
  <2>3. llm_output' = <<>> \/ \E m \in Answer : llm_output' = <<m>>
    BY <1>5, <2>1, SingleFacts, Zenon DEF SyncLLM, Answers, Say, Answer, Single
  <2>4. turn = "answering" /\ turn' \in {"answering", "deaf"}
    BY <2>1, <2>2, Zenon
  <2> QED
    BY <2>1, <2>2, <2>3, <2>4, Zenon DEF Single, T!Next, T!GoDeaf
<1>6. CASE TopicCallback
  <2>1. llm_output # <<>> /\ llm_output' = <<>> /\ voice_input = <<>>
    BY <1>6, SingleFacts, Zenon DEF TopicCallback
  <2> QED
    BY <1>6, <2>1, Zenon DEF TopicCallback, Single
<1>7. CASE Synthesise
  BY <1>7, Zenon DEF Synthesise, Single, T!Next, T!GoDeaf
<1>8. CASE Played
  <2>1. voice_stop = <<>> /\ voice_stop' = <<1>> /\ voice_stop' # <<>>
    <3>1. voice_stop = <<>>
      BY <1>8, SMT DEF Played
    <3>2. voice_stop' = <<1>>
      BY <1>8, <3>1, SMT DEF Played
    <3> QED
      BY <3>1, <3>2, SMT
  <2> QED
    BY <1>8, <2>1, Zenon DEF Played, Single
<1>9. CASE WakeWord
  BY <1>9, Zenon DEF WakeWord, Single
<1>10. CASE UNCHANGED vars
  BY <1>10, Zenon DEF vars, Single
<1> QED
  BY <1>1, <1>2, <1>3, <1>4, <1>5, <1>6, <1>7, <1>8, <1>9, <1>10
  DEF Next, Asr, Llm, Tts

THEOREM FloorInvariant == Spec => []FloorInv
BY FloorInit, FloorStep, PTL DEF Spec

(* However wake words and answers cross, no two processes hold the floor   *)
(* (xf_asr.cpp:232-258, subscriber_member_function.cpp:193-228).           *)
THEOREM OneHasTheFloor == Spec => []OneFloor
<1>1. FloorInv => OneFloor
  <2> SUFFICES ASSUME FloorInv PROVE OneFloor
    OBVIOUS
  <2>1. Len(voice_input) <= 1 /\ Len(llm_output) <= 1 /\ Len(voice_stop) <= 1
    BY SingleFacts DEF FloorInv
  <2> QED
    BY <2>1, Zenon DEF FloorInv, OneFloor
<1> QED
  BY <1>1, FloorInvariant, PTL

(* The file played as a prompt is complete, although the process that      *)
(* writes it empties it first and may fail at any point (xf_asr.cpp:237).  *)
THEOREM PromptIsWhole == Spec => []PromptWhole
<1>1. FloorInv => PromptWhole
  BY DEF FloorInv, PromptWhole, InRound
<1> QED
  BY <1>1, FloorInvariant, PTL

(* Every behaviour of the three processes is a behaviour of Turns, but for *)
(* its progress, which the run checks.                                     *)
THEOREM TurnsRefined == Spec => T!Safety
<1>1. Init => T!Init
  BY Zenon DEF Init, T!Init, turn, InRound
<1>2. FloorInv /\ [Next]_vars => [T!Next]_turn
  BY FloorStep
<1> QED
  BY <1>1, <1>2, FloorInvariant, PTL DEF Spec, T!Safety
=============================================================================
