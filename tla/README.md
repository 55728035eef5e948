# A verification development of the armquadrover robot

The repository holds the software of a wheeled robot with four steered wheels, two arms,
a microphone array and a phone application. This directory holds TLA+ models of its own
control logic, the TLC runs that check them on small instances and TLAPS proofs of their
main properties. Paths below are relative to the repository.

## 1. Inventory

Libraries (micro-ROS, ST's HAL and USB stack, FreeRTOS, ROS 2, MoveIt, iFlytek's speech
libraries, nlohmann json) are external: a model says how the code uses them.

### Firmware (`microros/`, STM32F407, one FreeRTOS task)

| part | state | operations | made correct by |
|---|---|---|---|
| wheel and servo buses: `Core/User/ddsm115*.cpp`, `servo.cpp`, interrupts in `Core/Src/freertos.c` | two queues of answers, a last reading per device, the timer of the current request | request a speed or an angle and poll the queue until an answer or a timeout; command wheels and servos; the IDLE interrupts enqueue answers | an answer is taken for the device that sent it; calls return |
| executor task: `StartDefaultTask` | pending timer and messages | spin, three callbacks | every handle is served |
| USB transport: `extra_sources/microros_transports` | ring buffer with two indices; completion flag | interrupt copies packets in, read takes bytes; write waits for the completion interrupt | bytes arrive as sent; success means sent; calls return |
| heap: `custom_memory_manager.c` | free list, byte counters | malloc, free, realloc, calloc | blocks tile the heap |
| stepper: `Emm_V5.c`, `stepping_subscription_callback` | none | frames from a target | conversion in range |
| `arm_servo*.cpp`, `fifo.c`, `bf.c` | - | not used by the firmware as built | - |

### Chassis node (`aqr_control/`)

`BaseNode` is a single-threaded ROS 2 node. Its state is `currentState` (NORMAL, ALIGN,
ALIGN_Y, ALIGN_X), the pose asked for, two integrated distances, the last average speed, the
last tick's time and the last velocity. Four callbacks share it: `cmd_vel` (twists become
wheel commands), `base_states` (readings), `align_pose` (starts an alignment and announces
3 on `aqr_state`) and a 20 ms timer (integrates, changes stage, announces 1 at the end).
Two callbacks sleep for a second, during which wheels, readings and clock go on.
It talks to the firmware over `base_control` and `base_states`, to `water` over `align_pose`.

### Speech and microphone

* `xf_asr/`: `linuxrec.c` (ALSA recording thread; the recorder's state, the stream),
  `speech_recognizer.c` (`state`, `session_id`, the service's last statuses, written by the user's
  thread and by the data callback), `xf_asr.cpp` (text of the answer; dialogue loop over topics).
  Hard: two threads without a lock, a session ended from its own callback while it is being stopped,
  every error path. Right when nothing outlives a question, a session is used only while it is open,
  the text is the question's own and the dialogue goes on.
* `toycar_voice/`: synthesises an answer into a file, plays it and announces the end; on failure nothing.
* `wheeltec_mic/wheeltec_mic_ros2/`:
  `wheeltec_mic.cpp` with `ros2_service.cpp` (serial framing, three services that poll the port; state: the
  bytes of the frame, `process_result`, `device_message`; right when every frame is taken and a call gets
  its own reply), `call_recognition.cpp` (asks for one recognition after the other while awake),
  `voice_control.cpp` (records; `init_rec` and `whether_finised` are shared with a timer thread),
  `command_recognition.cpp` (spoken words to motion), `spark.cpp` (a language model's keywords: an answer
  and perhaps a task), `node_feedback.cpp` (sounds), `wheeltec_micf.cpp` (a variant of the driver).
  Hard: late replies, messages that cross a decision, flags shared by callbacks and threads, a conversation
  in which each side waits for the other.

The launch files give two modes of voice. Online: `xf_asr`, `spark`, `toycar_voice` over `voice_input`,
`llm_output`, `voice_stop`. Offline: `call_recognition`, `voice_control`, `command_recognition` over a
service and the topics `awake_flag`, `voice_words`. The microphone's driver belongs to both.

### From the camera to the arms

`yolov8/` publishes where it sees an object, `depth_image_processing/` measures that place in its latest depth
image and publishes a point and a frame, `all_test/` moves both arms to the last point it took, ten seconds
and more at a time. State: the latest depth image, the point, whether the arms were moved once. Hard: three
rates, two queues that lose their oldest, every plan may fail. Right when the target never gets older and
catches up, and a motion goes to it.

### Scripts, application, data

`water/` is a straight script around MoveIt; `demo-app/` is an Android application that publishes `cmd_vel`
and talks to a chat service; `double3config/` and `doublearm6_description/` are data; `armquadrover_gnb/` has
empty sources.

`PROJECT.json` lists every component with its status, and under "hazards" what is hard to test.

## 2. Modules

| module | models | state and its counterpart |
|---|---|---|
| `WheelBus` | `ddsm115.cpp`, `servo.cpp`, `ddsm115_c_api.cpp`, `USART1_CALL`, `USART3_CALL` | `queue`: the two FreeRTOS queues; `reading`: `current_speed`, `current_angle`; `pc`, `device`, `elapsed`: where the callback is; `owed`: requests the devices heard; `late`, `dropped`: history |
| `BaseNode` | `StartDefaultTask`: the executor over the bus | `pending`, `ready`: handles with work, and those the current sweep found |
| `UsbReceiveRing` | `CDC_Receive_FS`, `cubemx_transport_read` | `storage_buffer`, `it_head`, `it_tail`; `sent`, `overrun`, `ended`: history of unread bytes, and of packets that filled the buffer or ended at its end |
| `UsbTransmit` | `cubemx_transport_write`, `CDC_Transmit_FS`, `CDC_TransmitCplt_FS` | `TxState`, `g_write_complete`; `sent`, `late`: history |
| `WheelKinematics` | `cmd_vel_1`, `base_states_1`, `bmath.cpp`, `setTargetSpeed` | the two topics, the motors, the odometry; history: the twist each comes from |
| `ChassisAlign` | `aqr_control.cpp`, the clock of `time_1`/`time_2` | `currentState`, `pose`, `d_x`, `d_y`, `average`, `since` (`c_time - l_time`); `command`, `announced`: last messages; `wheel`, `readings`: the base |
| `Recognizer` | `linuxrec.c`, `speech_recognizer.c`, `demo_mic` and its callbacks in `xf_asr.cpp` | `pc`: where the user's and the recording thread are; `state`, `session`, `ep_stat`, `rec_stat`: `struct speech_rec`; `recState`: the recorder's state; `pcm`: ALSA's; `open`: the service's sessions; `g_result`, `resultFlag`; `overlapped`, `early`, `dropFailed`, `misused`: history |
| `UsbTransport` | the two halves behind the micro-ROS library | the variables of both; at most one half is in a call |
| `Alignment` | no code: what an alignment promises wheels and listeners | `stage`; `announced`, `command`: the topics |
| `Turns` | no code: what the dialogue promises its user | `turn`: asleep, listening, answering, deaf |
| `VoiceDialogue` | main loop and callbacks of `xf_asr.cpp`, `VoiceCallBack` and `syncLLMTest` of `spark.cpp`, `topic_callback` and `text_to_speech` of `toycar_voice` | `wakeupFlag`, `feedbackFlag`, `resultFlag`, `g_result`; `oldKeywords`; `wav`: the file both play; one sequence per topic; `asr`, `llm`, `tts`: where each process is |
| `OfflineVoice` | `call_recognition.cpp`, `voice_control.cpp` with its thread `run()`, `voice_words_Callback` | `caller`: `awake_flag`, `call_`, `recognize_fail_count`; `server`, `timer`: where service and thread are; `init_rec`, `whether_finised`; topics and service; `recorded`, `late`, `failed`, `crossed`: history |
| `MicSerial` | `wheeltec_mic.cpp`, `ros2_service.cpp` | `reading`: inside `Get_Serial_Data`; `Receive_Data`, `frame_len`, `process_result`, `device_message`; `late`: the clock of a call; `damaged`: a frame went past the buffer; `port`, `commands`: the line; `sent`, `taken`, `given`, ...: history |
| `GraspPipeline` | `yolo_cut.py`, `depth_image_processing.cpp`, `all_test.cpp` | `frame`: the detector's picture; `depth_image_`, `object`, `pose_`, `first_execution_`; the topics; `arms`, and for each arm `planned` and `aim`, a point or the fixed posture; `last`, `lost`, `blind`: history |

`BaseNode` extends `WheelBus` and runs its callbacks. `WheelKinematics` and `ChassisAlign`
stand for two aspects of one node: the first what NORMAL does with a message, the second which
of its callbacks does anything; `ChassisProofs` has the theorems of both, since they are one node.
`*Proofs` hold theorems, `MC*` the instances for TLC. Operators
whose comment says "Seeded fault" are not part of the models: they are what a bug in the operator
below them would be, and each makes one property fail.

`UsbTransport` instantiates `UsbReceiveRing` and `UsbTransmit` behind the one task that calls them.
`VoiceDialogue` instantiates `Turns` with a state function, `turn`, and implements it; so does `ChassisAlign`
with `Alignment` and `stage`.

Abstractions, by module:

* `WheelBus`: a reading is the device that measured it; a checksum is right or wrong. An answer
  is owed at most once per device: a second request before the first answer replaces it. Noise
  that forms a frame of the right length, and the echo of a command on the servo line, are left
  out. SysTick may fall anywhere; ticks past a limit are one.
* `BaseNode`: one sweep of the executor serves what it found ready; this is how the code uses a
  library that is present only as a binary.
* `UsbReceiveRing`: an interrupt comes between any two bytes of the reader, never inside one of
  its C statements; the task cannot run inside the interrupt. How much the agent leaves unread is not
  bounded, since the interrupt has no check; `sent` is followed until the buffer is full.
* `WheelKinematics`: speeds are whole revolutions per minute as in the message, an angle is a
  direction and a tilt from it. The tilt is what the firmware's `4.2 - angle` leaves, since 4.2 is
  0.0112 more than 4/3 pi (`Excess`): a servo is sent up to that much beyond a quarter turn, which no
  rounding hides. Not modelled: the servo's unit of 0.24 degrees and the rounded factors 57.3 and
  0.01745 (a reading is up to 0.27 degrees short of the angle sent, so that the real odometry is
  skewed by that much), rounding of floating point at exactly a quarter turn, a speed beyond the 16
  bits of the field.
* `ChassisAlign`: a period of the timer is the unit of time, the distance covered in it at
  alignment speed the unit of length; 18 rpm cover 0.097 m in the second of a sleep, which is
  less than the 0.1 m of the end condition, and the instance keeps that order
  (`Speed * Settle < Reach`). The uninitialised members start with any value of `Garbage`, and
  `currentState` with any state or none; NaN is left out.
* `Recognizer`: a text is the set of questions whose words it holds, a session the number of its
  question, and each access to what the threads share is a step of its own, with these exceptions:
  the store of STOPPING goes with the check before it, `on_result` is one step (when a stop
  overlaps a callback both threads may be in it; what that does to the bytes of the text is not
  modelled), and the second call of `end_sr_on_error` after a failed write, which
  finds nothing left to end, is one with the first. The 15 s of sleep are the absence of a bound: a
  stop may come at once. A call of the service that fails leaves its outputs alone. Leaks of memory,
  and suspend with its resume, are left out. That the first buffer takes 100 ms, longer than the two
  statements from `start_record` to the end of `on_speech_begin`, is not assumed: `early` records that
  a buffer was read in between, and then the process may also end on a text never allocated.

* `VoiceDialogue`: an utterance is the set of place slots the model finds in it; actions and items go along
  without a choice. A recording is one step that yields words or none (`Recognizer` has the rest). `spin_some`
  takes one message of each subscription; the inner loop runs once because it clears the flags it tests.
  Publishing the answer and the task is one step: no one reads both.
* `OfflineVoice`: a word is the word for sleep or another. Being asked, recording and replying are steps, and so
  is each access of the two threads to the flags they share: the look at `whether_finised` and the store that
  follows it are two. Time is counted up to one past the limit. The engine may find an end in any chunk or in none.
* `MicSerial`: a byte is what the driver tests about it and the place it came from, so that a checksum is
  right for a whole frame of the array only. Header and length are three bytes, seven in the code. The clock of a call
  may pass its limit at any time and is read between two polls only. No length is too long: what follows
  `Receive_Data` is written over, and from then on `device_message` may hold anything and any step may be the
  last. The endless sum ends the model.
* `GraspPipeline`: a picture is the number of the scene it shows, a point the pair of its two pictures. Planning
  is a choice for each arm and for the transform; an arm without a plan is sent to a fixed posture (`Posture`),
  and in the one motion with a plan for neither both are. The detector's subscription of
  depth 1 is why a picture is the scene at the moment the last one was done with.

## 3. Runs

| run | asks | instance |
|---|---|---|
| `bus_safety` | can an answer be taken for another device's, can a queue lose one | 2 wheels, 1 servo, queues of 2; waits of 1 and 0 ticks; up to 2 late answers fill a queue |
| `bus_liveness` | do callbacks return, is a command served under an always-ready timer | 1 wheel, 1 servo, queue of 1 |
| `usb_transport` | does every index stay in the buffer, are the bytes read the bytes received, does success mean sent, does a call return | buffer of 3, packets of 1 and 2 bytes of two values, any number unread, ending anywhere; both timeouts 1 |
| `usb_receive_end` | *violated*: "Circular buffer" with a packet that ends at the end | buffer of 5, packets up to 3 |
| `kinematics` | does every wheel pull as asked, how far beyond a quarter turn is a servo sent, is the odometry the twist | sides 3 and 4, 14 twists with positive, negative and zero parts, one out of range; tilts in tenths of a milliradian |
| `align` | do wheels and listeners see the stages in order, with the command that belongs to each; do servos turn first; does an announced alignment end | poses of both signs and none at any time, every uninitialised state, readings lost; it ends unless a pose came within `MaxGap` of the last alignment, a reading was lost or the leftover was beyond the alignment's speed (`calm`) |
| `recognizer` | what outlives a question, when is a session misused, whose are the words, does `demo_mic` return | 2 questions, every failure, buffers at any time |
| `dialogue` | is the floor in one place, is the prompt whole, do the nodes take turns | 4 utterances, 2 wake words waiting, every failure |
| `dialogue_merge` | *violated*: the robot asks for something only if neither this utterance nor the one before has it | the same |
| `offline` | how many recognitions at once, who listens while it sleeps, when does an awake robot go deaf, does a recording have its time and end | 2 failures put it to sleep, time limit 1, topics of 2, one message crossing a recognition |
| `mic` | is every frame of a clean line taken, whose reply does a call get, does it return | frames of 4 bytes, buffer of 8, lengths within and beyond it, 3 calls, 1 wake word, 1 fault on the line |
| `grasp` | do the ways to the target agree, where do motions go, can the target get older, does it catch up | queues of 2, 3 scenes |

The properties of each run, each stated in words above its definition:

* `bus_safety`: `TypeOK`, `OwnReading`, `BacklogBound`, `DropNeedsLateness`
* `bus_liveness`: `CallbackReturns`, `CommandServed`
* `usb_transport`: `TypeOK`, `UnsplicedContent`, `SuccessMeansSent`, `CallReturns`
* `usb_receive_end`: `NothingInvented`
* `kinematics`: `PullsAsAsked`, `WithinTolerance`, `OdometryFollowsTwist`
* `align`: `CommandMatchesStage`, `AlignsInStages`, `SteerBeforeDrive`, `AlignmentEnds`
* `recognizer`: `NothingOutlives`, `SessionsUsedOpen`, `ListeningConsistent`, `OwnWords`, `RoundReturns`
* `dialogue`: `OneFloor`, `PromptWhole`, `TakesTurns`
* `dialogue_merge`: `AsksForTheRest`
* `offline`: `OneAtATime`, `AsleepIsDeaf`, `AwakeAsks`, `CutShortOnlyIfLate`, `RecordingEnds`
* `mic`: `TypeOK`, `CleanLine`, `OwnReply`, `CallReturns`
* `grasp`: `WaysAgree`, `MovesToTarget`, `BlindOnce`, `NeverBack`, `CatchesUp`

The bounds are small because what matters is order, not number: two devices are enough to
confuse, a full queue needs as many late answers as it has places, a packet of three in a buffer of
five starts and ends everywhere; what a question can leave behind shows in the next, so two
questions are enough; one message more than a topic holds is lost; one fault shows what a line's fault
does, and three calls let a late reply meet a later call. Integers that grow are cut by a named constant (`MaxLate`,
`MaxTravel`, `MaxGap`, `MaxRounds`, `MaxAwake`, `MaxCrossed`, `MaxCalls`, `MaxWakes`, `MaxNoise`, `MaxScene`) or where the history they belong to ends (`sent`).

Fairness. `WheelBus`, `BaseNode`: the task and SysTick go on (it is the only task above idle and
does not block inside a callback); nothing is asked of devices, agent or host. `UsbTransport`: the task goes on inside a call; no packet and no completion need come. `ChassisAlign`: a ready
timer is served, a sleep ends, time passes; no message need come.
`Recognizer`: both threads are scheduled, a cancelled thread is reached, and the service, asked for a
result again and again, completes or fails; without the last the loop of `sr_stop_listening` is
endless by its own text.
`VoiceDialogue`: each process goes on, and the remote services answer or fail; the wake word need not come.
`OfflineVoice`: the three nodes and the thread `run()` go on, time passes; the engine need find nothing and
no one need speak. `MicSerial`: the thread goes on (`WF(Driver)`, whatever it does) and time passes (`WF(TimePasses)`); that a call
sees it is not assumed but follows, since each poll ends. The array need not say anything.
`GraspPipeline`: a detection that waits is measured, a motion ends (`execute` returns or fails), and a waiting
point is not passed over for ever: `all_test`'s executor is ready for messages and for its timer alike, and
after a motion serves what waits before the timer runs twice. That is strong fairness, since a motion disables it.

### What the runs show

* The bus code compares no ids, and yet no reading is another device's as long as no answer comes
  after its request was given up; one late answer is enough to shift every later one. The same count
  bounds the queue: it loses nothing before ten answers came late.
* The receive ring is not circular in two cases (`usb_cdc_transport.c:87` and `:93`). Outside them it
  is, with no lock, as long as the agent leaves a place free.
* In the composition a write that waits for its host starves the receive buffer, up to 100 ms: what is lost then is
  not seen by anyone. No order of the interrupts of one half disturbs the other.
* After a write that timed out, later writes may report success before their data went
  (`SuccessMeansSent` excludes them through `late`).
* The four sign conventions between twist, command, motors and odometry cancel, including at a quarter
  turn, where the rounded `PI` of `mybase.h` decides. So do the two `4.2` of firmware and node, though the
  servo itself stands 0.64 degrees off the angle asked for.
* An alignment keeps its promises to the wheels and to its listeners whatever arrives in between. That
  it ends depends on poses being 10 s apart: with a closer one `d_time` and `average` are left over from
  the previous alignment, the distance starts beyond the target, and if the chassis moves away from it the
  stage goes on for ever. A large leftover in `average` does the same. `calm` is false in these cases
  and when a wheel reading is lost, and `AlignmentEnds` excepts exactly those.
* The two threads of the recogniser share everything without a lock, and still, whichever of them ends a
  session after an error or an endpoint, neither the thread nor the stream nor the session outlives the
  question. The one way to use or end a session that is not open is a stop that meets a callback which is
  past its checks: `wait_for_rec_stop` waits for the stream only. `SessionsUsedOpen` states that bound;
  `misused` is reachable.
* A failed `snd_pcm_drop` in the data callback leaves STOPPING over a running stream, and
  `wait_for_rec_stop` then waits for ever, with the session still open: `RoundReturns` and the part of
  `NothingOutlives` about the session hold only while `dropFailed` does not.
* `open_recorder` hides its failure (`linuxrec.c:651`; `linuxrec.h:111` says that it returns an error code): listening "starts" on nothing, and `sr_uninit`
  ends the process 15 s later. After an overrun (`linuxrec.c:259`) nothing more is heard, since
  `xrun_recovery` prepares the stream and only `start_record` starts one (comment at 215).
* The dialogue is safe and fragile. Wake words may come at any time: no round begins over an answer, and one file
  serves as prompt and as answer without being heard half-written, although nothing locks it, because only
  success passes the floor on. For the same reason each failure (silence, an error of the model, of the
  synthesis, an exception in `json::parse`) leaves it deaf until a restart; `Turns` calls that state by its name.
* `spark` asks for what a request lacks and merges the answer with what was said before (comment at
  `spark.cpp:241`), but then judges and publishes the unmerged one (`spark.cpp:135`): it asks again
  although the two together name everything (`dialogue_merge`).
* In the offline mode every message that crosses a recognition adds one that may be under way, and lets the
  robot listen while it sleeps; without one, both are excluded, for any threshold and queues of any depth. A reply
  without result (`voice_control.cpp:372`) leaves an awake robot deaf until the next wake word.
* A recording is cut short only if the timer thread was still at the recording before, although it stores
  its decision without a lock.
* The driver of the microphone is right on a clean line and on no other. One stray byte between two frames ends
  it (`wheeltec_mic.cpp:118`, 124: both counters are 0 and therefore equal, and the sum over no bytes does not end),
  although the comment at 110 speaks of filtering. One wrong length is enough to write past `Receive_Data`:
  nothing compares `count` with its 1024 bytes, and a length is up to 65543 (`wheeltec_mic.cpp:116`, 122;
  `wheeltec_mic.h:71`). The bytes go over `device_message`, and from there on nothing is sure. Both are
  defects of the code. They are reachable in the model (`Stray`, `damaged`), `CleanLine` says what the driver needs not to
  meet them, and `OwnReply` excepts a reply that was written over.
* A call whose predecessor ran out of time may be given the predecessor's reply; no other may, as long as
  nothing was written over the string that holds it. A call outlasts its limit by at most one poll.
* The target of the arms never gets older and becomes the last point in the end; with nothing under way
  it is what the frame `object` shows, unless a detection without depth came in between. A failed transform sends
  the arms towards the origin of the base, plans permitting (`all_test.cpp:50`).

Defects seen while modelling that no property asks about: the word for stop builds a zero twist and does not
publish it (`command_recognition.cpp:102`); `strncpy` of no bytes does not clear a word of low confidence, which
is still published (`voice_control.cpp:342`, 410); a successful change of the wake word ends the process before
the response is sent (`ros2_service.cpp:23`); the result of `execute` is ignored (`all_test.cpp:187`); speeds are
bounded in metres per second where revolutions go into 16 bits (`kinematics.cpp:9`); the odometry's pose moves by
`vc` in ALIGN_X and not in NORMAL (`kinematics.cpp:242`); an alignment's stage ends at its first tick unless it
overshot (`aqr_control.cpp:52`; `StagesEndAtOnce` proves it); a negative target becomes an unsigned pulse count (`freertos.c:380`).

## 4. Proofs

| theorem | by |
|---|---|
| `WheelBusProofs!TypeCorrect` | induction; lemmas on `NextDevice` and `BusOf` |
| `WheelBusProofs!ReadingsAreOwn` | `SyncInv`: while nothing was late on a bus, its queue and its owed answers hold at most one frame, and that of the device being waited for; the property alone does not say where the next answer comes from |
| `WheelBusProofs!BacklogBounded` | `BacklogInv` with the cardinality of the owed answers of a bus |
| `WheelBusProofs!DropsNeedLateness` | from the bound: a full queue means that many late answers |
| `WheelBusProofs!NodeImplementsBus`, `NodeReadingsAreOwn` | step by step: a handler of the executor is a step of the bus with the guard that it was found ready, the sweep's own steps leave the bus alone; so what is proved of the bus holds in the node |
| `UsbTransportProofs!SuccessIsSent` | `SentInv`: with nothing left behind the flag is down between writes |
| `UsbTransportProofs!ContentCorrect`, `TypesCorrect` | `RingInv`: until an overflow or a packet that ends at the end, the bytes from head to tail are `rsent`; lemmas on the copy in two sections and on `Wrap` |
| `UsbTransportProofs!HalvesImplemented` | each step of the composition is a step of one half and leaves the other alone; so what is proved of a half alone holds in the transport |
| `ChassisProofs!OdometryIsTwist`, `WheelsPullAsAsked`, `ServosWithinTolerance` | `KinematicsInv`: each message on its way drives each wheel as the twist it comes from; the integer square root behind the 16-bit speed exists by well-foundedness; the sums of `base_states_1` undo those of `cmd_vel_1` (a polynomial identity) |
| `ChassisProofs!TypeCorrect` | induction |
| `ChassisProofs!StageCommands`, `AnnouncementsHold`, `ServosTurnFirst` | `StageInv`, which adds which state each sleep belongs to and that ALIGN is never left to the other callbacks |
| `ChassisProofs!AlignmentImplemented` | with `StageInv`, callback by callback: a step of `Alignment` or a stutter; the odometry, the sleeps and the readings decide when a stage ends and not what follows it |
| `RecognizerProofs!TypeCorrect` | induction over the steps of both threads |
| `RecognizerProofs!RoundsEndClean` | `FlowInv` (which thread may be where, and that a callback past its checks when the user's thread stops is remembered) and `SessionInv`: an open session is the one in `struct speech_rec`, and some thread is still going to end it |
| `RecognizerProofs!MisuseNeedsOverlap` | `FlowInv` and `UseInv`: without an overlap, wherever a thread is about to use the session it is open |
| `VoiceDialogueProofs!OneHasTheFloor`, `PromptIsWhole` | `FloorInv`: the floor, counted over flags, topics and processes, is in one place; with it the file is whole when the floor is xf_asr's |
| `VoiceDialogueProofs!TurnsRefined` | from `FloorInv`: each action is a step of `Turns` or leaves `turn` alone |
| `OfflineVoiceProofs!AsksOneAtATime`, `SleepIsDeaf` | `Counted` and `NewestLives`: the permission to ask and the recognitions under way add up to one and one per crossing; the newest reply decides whether the robot sleeps |
| `OfflineVoiceProofs!AwakeHasAsked`, `CutsOnlyIfLate` | the first with the types; the second by `InTime`: the thread's clock never runs ahead of the recording's |
| `GraspPipelineProofs!BothWaysAgree`, `MotionsHaveTarget`, `OneBlindMotion`, `TargetNeverBack` | `Chain`: scene, picture, queued detections, last point, queued points and target are in order of age, in both pictures of a point; `Newest`: the newest point that waits, or the target, is the last |
| `RecognizerProofs!WordsAreOwn` | `FlowInv` and `WordsInv`: between the clearing of the text and its publication only this question's words are added |
| `RecognizerProofs!ListeningAgrees` | `FlowInv`, `SessionInv` and `ListenInv`: which steps of the beginning are done when, and which of the end are undone, for the user's thread and the callback's |
| `MicSerialProofs!TypesCorrect`, `CleanLineKept`, `OwnReplies`, `FramesTakenInOrder` | `MicInv`. `StreamInv`: the bytes of buffer and line are in the order of their frames, none older than the last frame taken, so no fault makes a frame count twice; `CleanInv`: without faults buffer and line spell the frames not taken yet, and the two counters of the driver stand at a place in the first of them; `NamesInv`, `OneInv`: commands under way and frames not taken are of different calls in order, so a reply taken in a call is of it or of one that was given up |

`TypeOK` of the other modules is proved as well (`TypeCorrect`, `TypesCorrect`), and not run.

Every invariant and every action property that a passing run checks is thereby a theorem. The liveness properties
are not: fairness and ENABLED are out of the prover's reach, and `CallbackReturns`, `CommandServed`,
`CallReturns` (twice), `AlignmentEnds`, `RoundReturns`, `RecordingEnds`, `CatchesUp` and the fairness of
`Turns` stay with TLC. What can be proved is the argument each rests on: that whatever the others do, the
end is a bounded number of the fair steps away and no step moves it off. These theorems hold for every size, where
TLC sees one:

| liveness | theorem on what it rests on | by |
|---|---|---|
| `CallbackReturns` | `WheelBusProofs!CallbackTicks`: `TicksLeft`, at most `LastDevice * Wait`, falls with each tick of a callback and rises in no step of it | the device a callback is at only moves on |
| `CommandServed` | `WheelBusProofs!NothingForgotten`: a handle that is ready is taken off only by its callback, and no handle joins a sweep under way, so a ready timer cannot keep a command waiting | by cases |
| `CallReturns` of the transport | `UsbTransportProofs!CallsAreBounded`: `StepsLeft`, at most `LongestCall`, falls with each step of the task in a call, and no interrupt changes it, though packets go on arriving | `WithinTimeout` beside the types |
| `AlignmentEnds` | `ChassisProofs!StagesEndAtOnce`: of an announced alignment with `calm` true, the first tick in each stage ends the stage | `SlowInv`: after the sleep nothing faster than an alignment is commanded, driven or waiting to be read; `PhaseInv`: the timer is due when a stage begins, and the time it will find is none, or that of the sleep. Needs `SleepAssumption` |
| `RoundReturns` | `RecognizerProofs!WaitsAreServed`: while the user's thread waits for the stream or frees the recorder, the recorder is stopped and someone is about to stop the stream, unless `snd_pcm_drop` failed | `WaitInv` |
| `RecordingEnds` | `OfflineVoiceProofs!RecordingsRunDown`: in a recording no flag that was set is lost, a set one ends it at its next check, and until then the thread's `TimeLeft` never rises and falls with each of its steps | `Clocked`: the recorder is set up by its first check |
| `CatchesUp` | `GraspPipelineProofs!LastPointNears`: fewer than `Depth` waiting messages are of other points than the last, and each message taken makes them fewer, losses included | `Newest` and `QueueBounded` |
| `TakesTurns` | `VoiceDialogueProofs!TurnsRefined`, above | |

`CallReturns` of `MicSerial` has nothing of the kind: that a poll ends rests on what the array has left to say.

The theorems assume only each module's named assumptions on its constants, which TLC evaluates in the runs. They
say that numbers are naturals and queues have a place, but for one: `SleepAssumption` of `ChassisAlign` says that
the sleep of a second is longer than the queue of readings (50 periods of the timer, 10 readings) and that within
it 18 rpm do not reach the distance of the end condition (0.097 m, 0.1 m). Only `StagesEndAtOnce` uses it. It is why
that theorem holds, and the theorem says what such a stage comes to: its end condition is true from the first
tick, which is due when the sleep is over, so that it drives for one tick and not for the distance asked for.

## 5. Plan

Done: the modules above. What further work could add, in order: the chassis node over the bus (a command is
obeyed by all four wheels); `node_feedback.cpp` and the navigation goals of the spoken commands; the encoding
of tasks in `spark.cpp`.

## 6. Not modelled

Board set-up and generated code, frame encoders, image processing, user interface, motion planning, robot data,
vendored libraries: no state of their own to check, or outside the repository. The heap of micro-ROS is FreeRTOS's
`heap_4` unchanged, third-party code. `water.cpp` is a script without a choice, `wheeltec_micf.cpp` repeats the
framing of `wheeltec_mic.cpp`. `cmd_vel_2`, `arm_servo*.cpp`, `fifo.c` and `bf.c` are not reached by the programs
as built. By far most of the repository's lines are the libraries vendored with the firmware (ST's HAL and CMSIS,
FreeRTOS, micro-ROS headers, nlohmann json), which is why the modelled share of all lines is small.
