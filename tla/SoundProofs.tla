------------------------------ MODULE SoundProofs ------------------------------
(* Theorems about a user's audio and settings.  What a message or a thread   *)
(* does to the recordings, to the playback and to the settings is taken      *)
(* apart first; each part then has an invariant of its own.                  *)
EXTENDS Sound, TLAPS

-----------------------------------------------------------------------------
(* The parts of a step.                                                      *)

RecordingStep ==
    \/ UNCHANGED recordingVars
    \/ \E stops \in BOOLEAN, d \in InputDevices \cup {NoDevice} :
          Record(stops, d) /\ UNCHANGED <<is_input_muted, late>>
    \/ \E muted \in BOOLEAN :
          /\ SetInputMuted(muted)
          /\ UNCHANGED <<audioVars, delivered, microphone, task, in_hand, aborted,
                         voice_input, pipeline, encoderVars>>
    \/ \E r \in Recordings : StreamCallback(r) \/ ReceiverTask(r) \/ PipelineTask(r)

\* Nothing is recorded or played before the configuration is loaded.
Fresh == app = "starting" =>
    in_voice = FALSE /\ input_stream = 0 /\ meter = NoDevice /\ PlaybackInit

PlaybackStep ==
    \/ UNCHANGED playbackVars
    \/ /\ PlaybackInit
       /\ chunk_size' = 0 \/ \E o \in OutputDevices : chunk_size' = ChunkSize[o]
       /\ UNCHANGED <<plays, current, leftover, room, output, stale>>
    \/ \E length \in SoundLengths : PlayNotification(length)
    \/ \E o \in OutputDevices, length \in SoundLengths : NewPlayer(ChunkSize[o], length)
    \/ OutputDevice

LEMMA Openings == \A d : Opening(d) \subseteq {d, NoDevice}
BY DEF Opening

\* What Sound's messages do to the recordings.
LEMMA RecordingPart ==
    ASSUME SoundTypeOK, [SoundNext]_soundVars
    PROVE  RecordingStep
<1> USE DEF RecordingStep
<1>1. ASSUME NEW stops \in BOOLEAN, NEW d \in InputDevices, NEW o \in Opening(d),
             Record(stops, o), UNCHANGED <<is_input_muted, late>>
      PROVE  RecordingStep
  BY <1>1, Openings
<1>2. config.input \in InputDevices
  BY DEF SoundTypeOK, SettingsTypeOK, Configs
<1>3. CASE JoinedVoice
  BY <1>1, <1>2, <1>3 DEF JoinedVoice, StartRecording, NoMuteChange
<1>4. CASE LeftVoice
  BY <1>4 DEF LeftVoice, StopRecording, NoMuteChange
<1>5. CASE MuteInput
  BY <1>5 DEF MuteInput
<1>6. CASE OthersMove
  BY <1>6 DEF OthersMove, NoRecordingChange
<1>7. CASE SelectInputDevice
  <2>1. PICK d \in InputDevices :
          /\ Selected([config EXCEPT !.input = d])
          /\ IF in_voice
             THEN \E o \in Opening(config'.input) : RestartRecording(o)
             ELSE UNCHANGED <<audioVars, delivered, microphone, task, in_hand, aborted,
                              voice_input, pipeline, encoderVars>>
          /\ NoMuteChange
    BY <1>7 DEF SelectInputDevice
  <2>2. config'.input \in InputDevices
    BY <1>2, <2>1 DEF Selected, WriteConfig, SoundTypeOK, SettingsTypeOK, Configs
  <2>3. CASE in_voice
    BY <1>1, <2>1, <2>2, <2>3 DEF RestartRecording, NoMuteChange
  <2>4. CASE ~in_voice
    BY <2>1, <2>4 DEF NoMuteChange, recordingVars, taskVars
  <2> QED BY <2>3, <2>4
<1>8. CASE SelectOutputDevice
  BY <1>8 DEF SelectOutputDevice, NoRecordingChange
<1>9. CASE ChangeSetting
  BY <1>9 DEF ChangeSetting, NoRecordingChange
<1>10. ASSUME NEW view \in Views \ {"Login"}, SwitchTo(view) PROVE RecordingStep
  BY <1>10 DEF SwitchTo, NoRecordingChange
<1>11. CASE Start \/ SaveConfig
  BY <1>11 DEF Start, SaveConfig, NoRecordingChange
<1>12. CASE MicrophoneRuns
  BY <1>12 DEF MicrophoneRuns, Beside
<1>13. CASE LoudspeakerRuns
  BY <1>13 DEF LoudspeakerRuns, NoRecordingChange
<1>14. ASSUME NEW r \in Recordings, TaskRuns(r) \/ PipelineRuns(r) PROVE RecordingStep
  BY <1>14 DEF TaskRuns, PipelineRuns, Beside
<1>15. CASE UNCHANGED soundVars
  BY <1>15 DEF soundVars
<1> QED
  BY <1>3, <1>4, <1>5, <1>6, <1>7, <1>8, <1>9, <1>10, <1>11, <1>12, <1>13, <1>14, <1>15
     DEF SoundNext

\* And to the notifications.
LEMMA PlaybackPart ==
    ASSUME SoundTypeOK, Fresh, [SoundNext]_soundVars
    PROVE  PlaybackStep
<1> USE DEF PlaybackStep
<1>1. CASE JoinedVoice \/ LeftVoice \/ MuteInput \/ OthersMove
  BY <1>1 DEF JoinedVoice, LeftVoice, MuteInput, OthersMove
<1>2. CASE SelectInputDevice \/ ChangeSetting \/ SaveConfig \/ MicrophoneRuns
  BY <1>2 DEF SelectInputDevice, ChangeSetting, SaveConfig, MicrophoneRuns
<1>3. CASE SelectOutputDevice
  <2>1. PICK d \in OutputDevices, length \in SoundLengths, o \in Opening(config'.output) :
          /\ Selected([config EXCEPT !.output = d])
          /\ IF o = NoDevice THEN PlayNotification(length) ELSE NewPlayer(ChunkSize[o], length)
    BY <1>3 DEF SelectOutputDevice
  <2>2. config'.output \in OutputDevices
    BY <2>1 DEF Selected, WriteConfig, SoundTypeOK, SettingsTypeOK, Configs
  <2> QED BY <2>1, <2>2, Openings
<1>4. ASSUME NEW view \in Views \ {"Login"}, SwitchTo(view) PROVE PlaybackStep
  BY <1>4 DEF SwitchTo
<1>5. CASE Start
  <2>1. PICK o \in Opening(config'.output) :
          chunk_size' = IF app' = "panicked" \/ o = NoDevice THEN 0 ELSE ChunkSize[o]
    BY <1>5 DEF Start
  <2>2. config'.output \in OutputDevices
    BY <1>5, SettingsAssumption DEF Start, LoadConfig, SoundTypeOK, SettingsTypeOK, Configs
  <2>3. PlaybackInit /\ UNCHANGED <<plays, current, leftover, room, output, stale>>
    BY <1>5 DEF Start, LoadConfig, Fresh
  <2> QED BY <2>1, <2>2, <2>3, Openings
<1>6. CASE LoudspeakerRuns
  BY <1>6 DEF LoudspeakerRuns, Beside
<1>7. ASSUME NEW r \in Recordings, TaskRuns(r) \/ PipelineRuns(r) PROVE PlaybackStep
  BY <1>7 DEF TaskRuns, PipelineRuns
<1>8. CASE UNCHANGED soundVars
  BY <1>8 DEF soundVars
<1> QED
  BY <1>1, <1>2, <1>3, <1>4, <1>5, <1>6, <1>7, <1>8 DEF SoundNext

-----------------------------------------------------------------------------
(* Arithmetic: numbers that wrap.                                            *)

LEMMA Times == ASSUME NEW n \in Nat, NEW k \in Nat
               PROVE  n * k \in Nat /\ (n + 1) * k = n * k + k
OBVIOUS

LEMMA Distributes == ASSUME NEW w \in Nat, NEW a \in Nat, NEW b \in Nat
                     PROVE  w * a + w * b = w * (a + b)
OBVIOUS

LEMMA Divides ==
    ASSUME NEW x \in Nat, NEW w \in Nat \ {0}
    PROVE  x \div w \in Nat /\ x % w \in 0..w-1 /\ x = w * (x \div w) + (x % w)
OBVIOUS

LEMMA OneRemainder ==
    ASSUME NEW w \in Nat \ {0}, NEW p \in Int, NEW q \in Int,
           NEW r \in 0..w-1, NEW s \in 0..w-1, w * p + r = w * q + s
    PROVE  r = s
<1>1. w * (p - q) = s - r
  OBVIOUS
<1>2. CASE p = q
  BY <1>1, <1>2
<1>3. CASE p > q
  <2>1. w * (p - q) >= w
    BY <1>3
  <2> QED BY <2>1, <1>1
<1>4. CASE p < q
  <2>1. w * (q - p) >= w /\ w * (q - p) = r - s
    BY <1>1, <1>4
  <2> QED BY <2>1
<1> QED BY <1>2, <1>3, <1>4

\* A number that is advanced and wrapped is the wrapped one advanced.
LEMMA WrapAdvanced ==
    ASSUME NEW x \in Nat, NEW k \in Nat, NEW w \in Nat \ {0}
    PROVE  ((x % w) + k) % w = (x + k) % w
<1> DEFINE y == (x % w) + k
<1>1. x = w * (x \div w) + (x % w) /\ x \div w \in Nat /\ x % w \in Nat
  BY Divides
<1>2. y \in Nat
  BY <1>1
<1>3. y = w * (y \div w) + (y % w) /\ y \div w \in Nat /\ y % w \in 0..w-1
  BY <1>2, Divides
<1>4. /\ x + k = w * ((x + k) \div w) + ((x + k) % w)
      /\ (x + k) \div w \in Nat /\ (x + k) % w \in 0..w-1
  <2>1. x + k \in Nat
    OBVIOUS
  <2> QED BY <2>1, Divides
<1> HIDE DEF y
<1>5. x + k = w * (x \div w) + y
  BY <1>1 DEF y
<1>6. w * (x \div w) + w * (y \div w) = w * (x \div w + y \div w)
  BY <1>1, <1>3, Distributes
<1>7. w * (x \div w + y \div w) + (y % w) = w * ((x + k) \div w) + ((x + k) % w)
  BY <1>1, <1>2, <1>3, <1>4, <1>5, <1>6
<1>8. x \div w + y \div w \in Int /\ (x + k) \div w \in Int
  BY <1>1, <1>3, <1>4
<1>9. y % w = (x + k) % w
  BY <1>3, <1>4, <1>7, <1>8, OneRemainder
<1> QED BY <1>9 DEF y

-----------------------------------------------------------------------------
(* Recordings.                                                               *)

LEMMA Dequeued ==
    ASSUME NEW q \in Seq(Nat), q # <<>>
    PROVE  Head(q) \in Nat /\ Tail(q) \in Seq(Nat)
OBVIOUS

LEMMA RecordingTypes ==
    ASSUME RecordingTypeOK, RecordingStep
    PROVE  RecordingTypeOK'
<1> USE DEF audioVars, taskVars, encoderVars, tallyVars
<1> DEFINE Tasks == {"none", "recv", "send", "ended"}
           Pipelines == {"none", "recv", "resample", "encode", "ended"}
<1>q. microphone \in [Recordings -> Seq(Nat)] /\ voice_input \in [Recordings -> Seq(Nat)]
  BY DEF RecordingTypeOK
<1>t. /\ task \in [Recordings -> Tasks] /\ in_hand \in [Recordings -> Nat]
      /\ late \in [Recordings -> Nat]
  BY DEF RecordingTypeOK
<1>p. pipeline \in [Recordings -> Pipelines]
  BY DEF RecordingTypeOK
<1>b. resample_buffer \in [Recordings -> Nat] /\ encode_buffer \in [Recordings -> Nat]
  BY DEF RecordingTypeOK
<1>n. sequence \in [Recordings -> 0..WORD - 1] /\ timestamp \in [Recordings -> 0..WORD - 1]
  BY DEF RecordingTypeOK
<1>y. /\ taken \in [Recordings -> Nat] /\ chunks \in [Recordings -> Nat]
      /\ made \in [Recordings -> Nat] /\ frames \in [Recordings -> Nat]
  BY DEF RecordingTypeOK
<1>1. CASE UNCHANGED recordingVars
  BY <1>1 DEF recordingVars, RecordingTypeOK
<1>2. ASSUME NEW stops \in BOOLEAN, NEW d \in InputDevices \cup {NoDevice},
             Record(stops, d), UNCHANGED <<is_input_muted, late>>
      PROVE  RecordingTypeOK'
  <2>1. aborted' \in [Recordings -> BOOLEAN]
    BY <1>2 DEF Record, RecordingTypeOK
  <2>2. CASE d = NoDevice
    BY <1>2, <2>1, <2>2 DEF Record, RecordingTypeOK
  <2>3. CASE d # NoDevice
    <3>1. started' \in Recordings /\ started' \in 0..MaxRecordings
      BY <1>2, <2>3, RecordingAssumption DEF Record, Recordings
    <3>2. device' \in [Recordings -> InputDevices \cup {NoDevice}]
      <4>1. device' = [device EXCEPT ![started'] = d]
        BY <1>2, <2>3 DEF Record
      <4>2. device \in [Recordings -> InputDevices \cup {NoDevice}]
        BY DEF RecordingTypeOK
      <4> QED BY <3>1, <4>1, <4>2
    <3>3. task' \in [Recordings -> Tasks]
      BY <1>2, <1>t, <2>3, <3>1 DEF Record
    <3>4. pipeline' \in [Recordings -> Pipelines]
      BY <1>2, <1>p, <2>3, <3>1 DEF Record
    <3>5. input_stream' \in 0..started' /\ input_receiver_task' \in 0..started'
      BY <1>2, <2>3, <3>1 DEF Record
    <3> QED BY <1>2, <2>1, <3>1, <3>2, <3>3, <3>4, <3>5 DEF Record, RecordingTypeOK
  <2> QED BY <2>2, <2>3
<1>3. ASSUME NEW muted \in BOOLEAN, SetInputMuted(muted),
             UNCHANGED <<audioVars, delivered, microphone, task, in_hand, aborted,
                         voice_input, pipeline, encoderVars>>
      PROVE  RecordingTypeOK'
  BY <1>3 DEF SetInputMuted, RecordingTypeOK
<1>4. ASSUME NEW r \in Recordings, StreamCallback(r) PROVE RecordingTypeOK'
  <2>1. PICK n \in Nat : microphone' = IF task[r] = "ended" THEN microphone
                                       ELSE [microphone EXCEPT ![r] = Append(@, n)]
    BY <1>4, RecordingAssumption DEF StreamCallback
  <2>2. microphone' \in [Recordings -> Seq(Nat)]
    BY <1>q, <2>1
  <2>3. delivered' \in Nat
    BY <1>4 DEF StreamCallback, RecordingTypeOK
  <2>4. UNCHANGED <<audioVars, is_input_muted, aborted, taskVars, voice_input, pipeline,
                    encoderVars>>
    BY <1>4 DEF StreamCallback
  <2> QED BY <2>2, <2>3, <2>4 DEF RecordingTypeOK
<1>5. ASSUME NEW r \in Recordings, ReceiveBuffer(r) PROVE RecordingTypeOK'
  <2>1. Head(microphone[r]) \in Nat /\ Tail(microphone[r]) \in Seq(Nat)
    BY <1>5, <1>q, Dequeued DEF ReceiveBuffer
  <2>2. microphone' \in [Recordings -> Seq(Nat)]
    BY <1>5, <1>q, <2>1 DEF ReceiveBuffer
  <2>3. task' \in [Recordings -> Tasks] /\ in_hand' \in [Recordings -> Nat]
    BY <1>5, <1>t, <2>1 DEF ReceiveBuffer
  <2> QED BY <1>5, <2>2, <2>3 DEF ReceiveBuffer, RecordingTypeOK
<1>6. ASSUME NEW r \in Recordings, SendFrame(r) PROVE RecordingTypeOK'
  <2>1. task' \in [Recordings -> Tasks]
    BY <1>6, <1>t DEF SendFrame
  <2>2. voice_input' \in [Recordings -> Seq(Nat)]
    <3>1. \/ UNCHANGED voice_input
          \/ voice_input' = [voice_input EXCEPT ![r] = Append(@, in_hand[r])]
      BY <1>6 DEF SendFrame
    <3>2. Append(voice_input[r], in_hand[r]) \in Seq(Nat)
      BY <1>q, <1>t
    <3> QED BY <1>q, <3>1, <3>2
  <2>3. late' \in [Recordings -> Nat]
    <3>1. \/ UNCHANGED late
          \/ late' = [late EXCEPT ![r] = IF is_input_muted THEN @ + 1 ELSE @]
      BY <1>6 DEF SendFrame
    <3> QED BY <1>t, <3>1
  <2> QED BY <1>6, <2>1, <2>2, <2>3 DEF SendFrame, RecordingTypeOK
<1>7. ASSUME NEW r \in Recordings, TaskEnds(r) PROVE RecordingTypeOK'
  <2>1. microphone' \in [Recordings -> Seq(Nat)]
    BY <1>7, <1>q DEF TaskEnds
  <2> QED BY <1>7, <2>1 DEF TaskEnds, RecordingTypeOK
<1>8. ASSUME NEW r \in Recordings, TakeInput(r) PROVE RecordingTypeOK'
  <2>1. Head(voice_input[r]) \in Nat /\ Tail(voice_input[r]) \in Seq(Nat)
    BY <1>8, <1>q, Dequeued DEF TakeInput
  <2>2. voice_input' \in [Recordings -> Seq(Nat)]
    BY <1>8, <1>q, <2>1 DEF TakeInput
  <2>3. pipeline' \in [Recordings -> Pipelines]
    BY <1>8, <1>p DEF TakeInput
  <2> DEFINE n == Head(voice_input[r])
  <2>4. /\ taken' = [taken EXCEPT ![r] = @ + n]
        /\ \/ UNCHANGED resample_buffer
           \/ resample_buffer' = [resample_buffer EXCEPT ![r] = @ + n]
        /\ \/ UNCHANGED <<encode_buffer, made>>
           \/ /\ encode_buffer' = [encode_buffer EXCEPT ![r] = @ + n]
              /\ made' = [made EXCEPT ![r] = @ + n]
    BY <1>8 DEF TakeInput
  <2> HIDE DEF n
  <2>5. n \in Nat
    BY <2>1 DEF n
  <2>6. resample_buffer' \in [Recordings -> Nat] /\ encode_buffer' \in [Recordings -> Nat]
    BY <1>b, <2>4, <2>5
  <2>7. taken' \in [Recordings -> Nat] /\ made' \in [Recordings -> Nat]
    BY <1>y, <2>4, <2>5
  <2> QED BY <1>8, <2>2, <2>3, <2>6, <2>7 DEF TakeInput, UNCHANGEDOutside, RecordingTypeOK
<1>9. ASSUME NEW r \in Recordings, ResampleChunk(r) PROVE RecordingTypeOK'
  <2>1. PICK k \in ResampledSizes \cup {0} :
          /\ resample_buffer' = [resample_buffer EXCEPT ![r] = @ - CHUNK]
          /\ encode_buffer' = [encode_buffer EXCEPT ![r] = @ + k]
          /\ chunks' = [chunks EXCEPT ![r] = @ + 1] /\ made' = [made EXCEPT ![r] = @ + k]
    BY <1>9 DEF ResampleChunk
  <2>2. k \in Nat /\ resample_buffer[r] >= CHUNK /\ CHUNK \in Nat
    BY <1>9, RecordingAssumption DEF ResampleChunk
  <2>3. resample_buffer' \in [Recordings -> Nat] /\ encode_buffer' \in [Recordings -> Nat]
    BY <1>b, <2>1, <2>2
  <2>4. chunks' \in [Recordings -> Nat] /\ made' \in [Recordings -> Nat]
    BY <1>y, <2>1, <2>2
  <2> QED BY <1>9, <2>3, <2>4 DEF ResampleChunk, MoreChunks, UNCHANGEDOutside, RecordingTypeOK
<1>10. ASSUME NEW r \in Recordings, EncodeFrame(r) PROVE RecordingTypeOK'
  <2>1. \A x \in 0..WORD - 1, k \in Nat : Advanced(x, k) \in 0..WORD - 1
    BY Divides, RecordingAssumption DEF Advanced
  <2>2. sequence' \in [Recordings -> 0..WORD - 1] /\ timestamp' \in [Recordings -> 0..WORD - 1]
    BY <1>10, <1>n, <2>1, RecordingAssumption DEF EncodeFrame
  <2>3. encode_buffer' \in [Recordings -> Nat]
    BY <1>10, <1>b, RecordingAssumption DEF EncodeFrame
  <2>4. frames' \in [Recordings -> Nat]
    BY <1>10, <1>y DEF EncodeFrame
  <2> QED BY <1>10, <2>2, <2>3, <2>4 DEF EncodeFrame, UNCHANGEDOutside, RecordingTypeOK
<1>11. ASSUME NEW r \in Recordings, ResamplerDone(r) \/ EncoderDone(r) \/ PipelineEnds(r)
       PROVE  RecordingTypeOK'
  <2>1. pipeline' \in [Recordings -> Pipelines]
    BY <1>11, <1>p DEF ResamplerDone, EncoderDone, PipelineEnds
  <2> QED
    BY <1>11, <2>1 DEF ResamplerDone, EncoderDone, PipelineEnds, UNCHANGEDOutside, RecordingTypeOK
<1> QED
  BY <1>1, <1>2, <1>3, <1>4, <1>5, <1>6, <1>7, <1>8, <1>9, <1>10, <1>11
     DEF RecordingStep, ReceiverTask, PipelineTask

-----------------------------------------------------------------------------
(* A muted user is silent.                                                   *)

\* A task that has passed on a buffer since the mute looks at the flag before
\* it has another in hand.
Silent == \A r \in Recordings :
    is_input_muted => late[r] <= 1 /\ (late[r] = 1 => task[r] # "send")

LEMMA SilentKeeps ==
    ASSUME RecordingTypeOK, Silent, RecordingStep
    PROVE  Silent'
<1> USE DEF Silent, taskVars
<1>t. late \in [Recordings -> Nat] /\ DOMAIN task = Recordings
  BY DEF RecordingTypeOK
<1>1. CASE UNCHANGED recordingVars
  BY <1>1 DEF recordingVars
<1>2. ASSUME NEW stops \in BOOLEAN, NEW d \in InputDevices \cup {NoDevice},
             Record(stops, d), UNCHANGED <<is_input_muted, late>>
      PROVE  Silent'
  BY <1>2, <1>t DEF Record
<1>3. ASSUME NEW muted \in BOOLEAN, SetInputMuted(muted), UNCHANGED task
      PROVE  Silent'
  BY <1>3, <1>t DEF SetInputMuted
<1>4. ASSUME NEW r \in Recordings, StreamCallback(r) \/ TaskEnds(r) PROVE Silent'
  BY <1>4, <1>t DEF StreamCallback, TaskEnds
<1>5. ASSUME NEW r \in Recordings, ReceiveBuffer(r) PROVE Silent'
  BY <1>5, <1>t DEF ReceiveBuffer, Hears
<1>6. ASSUME NEW r \in Recordings, SendFrame(r) PROVE Silent'
  <2>1. \A i \in Recordings : task'[i] = "send" => task[i] = "send" /\ i # r
    BY <1>6, <1>t DEF SendFrame
  <2>2. \A i \in Recordings : late'[i] # late[i] => i = r /\ late'[i] = late[i] + 1
    BY <1>6, <1>t DEF SendFrame
  <2>3. late'[r] <= late[r] + 1 /\ task[r] = "send" /\ UNCHANGED is_input_muted
    BY <1>6, <1>t DEF SendFrame
  <2> QED BY <1>t, <2>1, <2>2, <2>3
<1>7. ASSUME NEW r \in Recordings, PipelineTask(r) PROVE Silent'
  BY <1>7 DEF PipelineTask, TakeInput, ResampleChunk, ResamplerDone, EncodeFrame, EncoderDone,
              PipelineEnds, UNCHANGEDOutside
<1> QED
  BY <1>1, <1>2, <1>3, <1>4, <1>5, <1>6, <1>7 DEF RecordingStep, ReceiverTask

-----------------------------------------------------------------------------
(* A pipeline loses nothing.                                                 *)

\* The books of a pipeline balance at each of its steps.
Balanced(r) ==
    /\ made[r] = frames[r] * FRAME + encode_buffer[r]
    /\ IF device[r] \in Resampled THEN taken[r] = chunks[r] * CHUNK + resample_buffer[r]
       ELSE taken[r] = made[r] /\ resample_buffer[r] = 0
    /\ sequence[r] = frames[r] % WORD /\ timestamp[r] = (frames[r] * FRAME) % WORD

\* And each loop ends only when what is left is too little for it.
Drained(r) ==
    /\ pipeline[r] = "resample" => device[r] \in Resampled
    /\ pipeline[r] \in {"recv", "encode"} => resample_buffer[r] < CHUNK
    /\ pipeline[r] = "recv" => encode_buffer[r] < FRAME

Unused(r) ==
    /\ device[r] = NoDevice /\ pipeline[r] = "none"
    /\ resample_buffer[r] = 0 /\ encode_buffer[r] = 0
    /\ taken[r] = 0 /\ made[r] = 0 /\ chunks[r] = 0 /\ frames[r] = 0

Accounted == \A r \in Recordings :
    Balanced(r) /\ Drained(r) /\ (r > started => Unused(r))

LEMMA AccountedInitially == RecordingInit => Accounted
<1>1. /\ 0 * FRAME = 0 /\ 0 * CHUNK = 0 /\ 0 % WORD = 0 /\ 0 < CHUNK /\ 0 < FRAME
      /\ NoDevice \notin Resampled
  BY RecordingAssumption, DevicesAssumption
<1> QED BY <1>1 DEF RecordingInit, Accounted, Balanced, Drained, Unused, Recordings

\* A step of pipeline r says nothing of another.
LEMMA OnePipeline ==
    ASSUME Accounted, NEW r \in Recordings, pipeline[r] # "none",
           Balanced(r)', Drained(r)', UNCHANGED <<device, started>>,
           \A i \in Recordings \ {r} :
              /\ pipeline'[i] = pipeline[i]
              /\ resample_buffer'[i] = resample_buffer[i] /\ encode_buffer'[i] = encode_buffer[i]
              /\ sequence'[i] = sequence[i] /\ timestamp'[i] = timestamp[i]
              /\ taken'[i] = taken[i] /\ chunks'[i] = chunks[i]
              /\ made'[i] = made[i] /\ frames'[i] = frames[i]
    PROVE  Accounted'
<1>1. ~(r > started)
  BY DEF Accounted, Unused
<1>2. ASSUME NEW i \in Recordings \ {r}
      PROVE  (Balanced(i) /\ Drained(i) /\ (i > started => Unused(i)))'
  BY <1>2 DEF Accounted, Balanced, Drained, Unused
<1> QED BY <1>1, <1>2 DEF Accounted

LEMMA AccountedKeeps ==
    ASSUME RecordingTypeOK, Accounted, RecordingStep
    PROVE  Accounted'
<1> USE DEF Accounted, encoderVars, tallyVars
<1>a. CHUNK \in Nat \ {0} /\ FRAME \in Nat \ {0} /\ WORD \in Nat \ {0}
  BY RecordingAssumption
<1>b. /\ resample_buffer \in [Recordings -> Nat] /\ encode_buffer \in [Recordings -> Nat]
      /\ sequence \in [Recordings -> 0..WORD - 1] /\ timestamp \in [Recordings -> 0..WORD - 1]
  BY DEF RecordingTypeOK
<1>y. /\ taken \in [Recordings -> Nat] /\ chunks \in [Recordings -> Nat]
      /\ made \in [Recordings -> Nat] /\ frames \in [Recordings -> Nat]
  BY DEF RecordingTypeOK
<1>d. DOMAIN device = Recordings /\ DOMAIN pipeline = Recordings /\ started \in Nat
  BY DEF RecordingTypeOK
<1>1. CASE UNCHANGED <<device, pipeline, started, encoderVars>>
  BY <1>1 DEF Balanced, Drained, Unused
<1>2. ASSUME NEW stops \in BOOLEAN, NEW d \in InputDevices, Record(stops, d)
      PROVE  Accounted'
  <2>1. /\ started' \in Recordings /\ started' = started + 1 /\ UNCHANGED encoderVars
        /\ device' = [device EXCEPT ![started'] = d]
        /\ pipeline' = [pipeline EXCEPT ![started'] = "recv"]
    BY <1>2, DevicesAssumption DEF Record
  <2>2. Unused(started')
    BY <1>d, <2>1
  <2>3. ASSUME NEW i \in Recordings, i # started'
        PROVE  (Balanced(i) /\ Drained(i) /\ (i > started => Unused(i)))'
    BY <1>d, <2>1, <2>3 DEF Balanced, Drained, Unused, Recordings
  <2>4. ASSUME NEW i \in Recordings, i = started'
        PROVE  (Balanced(i) /\ Drained(i) /\ (i > started => Unused(i)))'
    <3>1. /\ UNCHANGED <<resample_buffer, encode_buffer, sequence, timestamp, taken, made,
                         chunks, frames>>
          /\ device'[i] = d /\ pipeline'[i] = "recv"
      BY <1>d, <2>1, <2>4
    <3>2. Balanced(i) /\ Unused(i)
      BY <2>2, <2>4
    <3>3. 0 * CHUNK = 0
      BY <1>a
    <3>4. Balanced(i)' /\ Drained(i)'
      BY <1>a, <3>1, <3>2, <3>3 DEF Balanced, Drained, Unused
    <3>5. ~(i > started')
      BY <1>d, <2>1, <2>4
    <3> QED BY <3>4, <3>5
  <2> QED BY <2>3, <2>4
<1>3. ASSUME NEW r \in Recordings, TakeInput(r) PROVE Accounted'
  <2> DEFINE n == Head(voice_input[r])
  <2>1. /\ pipeline[r] = "recv"
        /\ UNCHANGED <<device, started, chunks, frames, sequence, timestamp>>
        /\ taken' = [taken EXCEPT ![r] = @ + n]
        /\ IF device[r] \in Resampled
           THEN /\ pipeline' = [pipeline EXCEPT ![r] = "resample"]
                /\ resample_buffer' = [resample_buffer EXCEPT ![r] = @ + n]
                /\ UNCHANGED <<encode_buffer, made>>
           ELSE /\ pipeline' = [pipeline EXCEPT ![r] = "encode"]
                /\ encode_buffer' = [encode_buffer EXCEPT ![r] = @ + n]
                /\ made' = [made EXCEPT ![r] = @ + n]
                /\ UNCHANGED resample_buffer
    BY <1>3 DEF TakeInput, UNCHANGEDOutside, audioVars
  <2>2. n \in Nat
    <3>1. voice_input[r] \in Seq(Nat) /\ voice_input[r] # <<>>
      BY <1>3 DEF TakeInput, RecordingTypeOK
    <3> QED BY <3>1, Dequeued
  <2> HIDE DEF n
  <2>3. /\ taken[r] \in Nat /\ made[r] \in Nat
        /\ resample_buffer[r] \in Nat /\ encode_buffer[r] \in Nat
        /\ frames[r] * FRAME \in Nat /\ chunks[r] * CHUNK \in Nat
    BY <1>a, <1>b, <1>y, Times
  <2>4. Balanced(r) /\ Drained(r)
    OBVIOUS
  <2>5. Balanced(r)'
    <3>1. CASE device[r] \in Resampled
      BY <1>a, <1>b, <1>y, <2>1, <2>2, <2>3, <2>4, <3>1 DEF Balanced
    <3>2. CASE device[r] \notin Resampled
      BY <1>a, <1>b, <1>y, <2>1, <2>2, <2>3, <2>4, <3>2 DEF Balanced
    <3> QED BY <3>1, <3>2
  <2>6. Drained(r)'
    BY <1>a, <1>b, <1>d, <2>1, <2>2, <2>4 DEF Drained, Balanced
  <2> QED BY <1>b, <1>y, <1>d, <2>1, <2>5, <2>6, OnePipeline
<1>4. ASSUME NEW r \in Recordings, ResampleChunk(r) PROVE Accounted'
  <2>1. PICK k \in ResampledSizes \cup {0} :
          /\ pipeline[r] = "resample" /\ resample_buffer[r] >= CHUNK
          /\ resample_buffer' = [resample_buffer EXCEPT ![r] = @ - CHUNK]
          /\ encode_buffer' = [encode_buffer EXCEPT ![r] = @ + k]
          /\ chunks' = [chunks EXCEPT ![r] = @ + 1] /\ made' = [made EXCEPT ![r] = @ + k]
          /\ UNCHANGED <<device, started, pipeline, sequence, timestamp, taken, frames>>
    BY <1>4 DEF ResampleChunk, MoreChunks, UNCHANGEDOutside, audioVars
  <2>2. k \in Nat
    BY RecordingAssumption
  <2>3. /\ taken[r] \in Nat /\ made[r] \in Nat
        /\ resample_buffer[r] \in Nat /\ encode_buffer[r] \in Nat
        /\ frames[r] * FRAME \in Nat /\ chunks[r] * CHUNK \in Nat
        /\ (chunks[r] + 1) * CHUNK = chunks[r] * CHUNK + CHUNK
    BY <1>a, <1>b, <1>y, Times
  <2>4. Balanced(r) /\ Drained(r)
    OBVIOUS
  <2>5. /\ resample_buffer'[r] = resample_buffer[r] - CHUNK
        /\ encode_buffer'[r] = encode_buffer[r] + k
        /\ chunks'[r] = chunks[r] + 1 /\ made'[r] = made[r] + k
    BY <1>b, <1>y, <2>1
  <2>6. Balanced(r)'
    BY <1>a, <2>1, <2>2, <2>3, <2>4, <2>5 DEF Balanced, Drained
  <2>7. Drained(r)'
    BY <2>1, <2>4 DEF Drained
  <2> QED BY <1>b, <1>y, <2>1, <2>6, <2>7, OnePipeline
<1>5. ASSUME NEW r \in Recordings, EncodeFrame(r) PROVE Accounted'
  <2>1. /\ pipeline[r] = "encode" /\ encode_buffer[r] >= FRAME
        /\ encode_buffer' = [encode_buffer EXCEPT ![r] = @ - FRAME]
        /\ sequence' = [sequence EXCEPT ![r] = Advanced(@, 1)]
        /\ timestamp' = [timestamp EXCEPT ![r] = Advanced(@, FRAME)]
        /\ frames' = [frames EXCEPT ![r] = @ + 1]
        /\ UNCHANGED <<device, started, pipeline, resample_buffer, taken, chunks, made>>
    BY <1>5 DEF EncodeFrame, UNCHANGEDOutside, audioVars
  <2>2. /\ frames[r] \in Nat /\ frames[r] * FRAME \in Nat /\ encode_buffer[r] \in Nat
        /\ (frames[r] + 1) * FRAME = frames[r] * FRAME + FRAME
    BY <1>a, <1>b, <1>y, Times
  <2>3. Balanced(r) /\ Drained(r)
    OBVIOUS
  <2>4. /\ encode_buffer'[r] = encode_buffer[r] - FRAME /\ frames'[r] = frames[r] + 1
        /\ sequence'[r] = Advanced(sequence[r], 1)
        /\ timestamp'[r] = Advanced(timestamp[r], FRAME)
    BY <1>b, <1>y, <2>1
  <2>5. sequence'[r] = frames'[r] % WORD
    BY <1>a, <2>2, <2>3, <2>4, WrapAdvanced DEF Balanced, Advanced
  <2>6. timestamp'[r] = (frames'[r] * FRAME) % WORD
    BY <1>a, <2>2, <2>3, <2>4, WrapAdvanced DEF Balanced, Advanced
  <2>7. made'[r] = frames'[r] * FRAME + encode_buffer'[r]
    BY <1>a, <2>1, <2>2, <2>3, <2>4 DEF Balanced
  <2>8. Balanced(r)' /\ Drained(r)'
    BY <2>1, <2>3, <2>5, <2>6, <2>7 DEF Balanced, Drained
  <2> QED BY <1>b, <1>y, <2>1, <2>8, OnePipeline
<1>6. ASSUME NEW r \in Recordings, ResamplerDone(r) \/ EncoderDone(r) \/ PipelineEnds(r)
      PROVE  Accounted'
  <2>1. UNCHANGED <<device, started, encoderVars>>
    BY <1>6 DEF ResamplerDone, EncoderDone, PipelineEnds, UNCHANGEDOutside, audioVars
  <2>2. Balanced(r)'
    BY <2>1 DEF Balanced
  <2>3. pipeline[r] # "none" /\ Drained(r)'
    BY <1>6, <1>d, <2>1 DEF ResamplerDone, EncoderDone, PipelineEnds, Drained
  <2>4. \A i \in Recordings \ {r} : pipeline'[i] = pipeline[i]
    BY <1>6, <1>d DEF ResamplerDone, EncoderDone, PipelineEnds
  <2> QED BY <2>1, <2>2, <2>3, <2>4, OnePipeline
<1>7. ASSUME NEW stops \in BOOLEAN, Record(stops, NoDevice) PROVE Accounted'
  BY <1>1, <1>7 DEF Record
<1>8. ASSUME NEW r \in Recordings, StreamCallback(r) \/ ReceiverTask(r) PROVE Accounted'
  BY <1>1, <1>8 DEF StreamCallback, ReceiverTask, ReceiveBuffer, SendFrame, TaskEnds, audioVars
<1> QED
  BY <1>1, <1>2, <1>3, <1>4, <1>5, <1>6, <1>7, <1>8
     DEF RecordingStep, PipelineTask, recordingVars, audioVars

-----------------------------------------------------------------------------
(* Playback.                                                                 *)

LEMMA EmptyQueue == ASSUME NEW S, NEW q \in Seq(S) PROVE (q = <<>>) <=> (Len(q) = 0)
OBVIOUS

LEMMA QueueFacts ==
    ASSUME NEW S, NEW q \in Seq(S), q # <<>>
    PROVE  /\ Len(q) \in Nat \ {0} /\ Head(q) = q[1] /\ q[1] \in S
           /\ Tail(q) \in Seq(S) /\ Len(Tail(q)) = Len(q) - 1
           /\ \A i \in 1..Len(Tail(q)) : Tail(q)[i] = q[i + 1]
           /\ (Tail(q) = <<>>) <=> (Len(q) = 1)
<1>1. /\ Len(q) \in Nat \ {0} /\ Head(q) = q[1] /\ q[1] \in S
      /\ Tail(q) \in Seq(S) /\ Len(Tail(q)) = Len(q) - 1
      /\ \A i \in 1..Len(Tail(q)) : Tail(q)[i] = q[i + 1]
  OBVIOUS
<1>2. (Tail(q) = <<>>) <=> (Len(Tail(q)) = 0)
  <2>1. Tail(q) \in Seq(S)
    BY <1>1
  <2> QED BY <2>1, EmptyQueue
<1> QED BY <1>1, <1>2

LEMMA ToCopyFits ==
    ASSUME chunk_size \in Nat \ {0}, current \in Sample,
           current.position \in 1..current.length
    PROVE  /\ ToCopy \in 1..chunk_size
           /\ current.position + ToCopy - 1 <= current.length
           /\ AtEnd(ToCopy) <=> current.position + ToCopy - 1 = current.length
<1>1. current.position \in Nat /\ current.length \in Nat
  BY DEF Sample
<1> QED BY <1>1 DEF ToCopy, AtEnd

LEMMA SampleParts ==
    ASSUME NEW s \in Sample
    PROVE  s = [play |-> s.play, position |-> s.position, length |-> s.length]
BY DEF Sample

\* What GetAudio fetches of a sound.
Fetched(i) == [play |-> current.play, position |-> current.position + i - 1,
               length |-> current.length]

\* What is being played, what is left over and what has been heard are parts of
\* one order, in which only a play() makes a gap.
LastQueued == IF leftover = <<>> THEN output ELSE leftover[Len(leftover)]
Queue ==
    /\ room > 0 => chunk_size > 0
    /\ current # Silence => /\ current.play = plays /\ plays > 0
                            /\ current.position \in 1..current.length
    /\ Len(leftover) <= chunk_size
    /\ output.play <= plays
    /\ \A i \in 1..Len(leftover) :
          leftover[i].play <= plays /\ leftover[i].play = leftover[1].play
Order ==
    /\ leftover # <<>> => Follows(output, leftover[1])
    /\ \A i \in 1..Len(leftover) - 1 : Follows(leftover[i], leftover[i + 1])
    /\ Follows(LastQueued, current)

\* What is stale and what may become so fits a chunk.
StaleFits ==
    /\ stale <= chunk_size
    /\ leftover # <<>> /\ leftover[1].play \notin {0, plays}
          => stale + Len(leftover) <= chunk_size

PlaybackInv == PlaybackTypeOK /\ Queue /\ Order /\ StaleFits

LEMMA SilenceIsSample ==
    /\ Silence \in Sample /\ Silence.play = 0 /\ Silence.position = 0 /\ Silence.length = 0
    /\ Follows(Silence, Silence)
BY DEF Silence, Sample, Follows

LEMMA PlaybackInitially ==
    ASSUME PlaybackInit, chunk_size' \in Nat,
           UNCHANGED <<plays, current, leftover, room, output, stale>>
    PROVE  PlaybackInv /\ PlaybackInv'
<1> USE SilenceIsSample DEF PlaybackInit, PlaybackInv
<1>1. PlaybackTypeOK /\ PlaybackTypeOK'
  BY DEF PlaybackTypeOK
<1>2. Queue /\ Queue' /\ StaleFits /\ StaleFits'
  BY DEF Queue, StaleFits
<1>3. Order /\ Order'
  BY DEF Order, LastQueued
<1> QED BY <1>1, <1>2, <1>3

LEMMA NewPlayerKeeps ==
    ASSUME PlaybackInv, NEW size \in Nat, NEW length \in SoundLengths, NewPlayer(size, length)
    PROVE  PlaybackInv'
<1> USE PlaybackAssumption, SilenceIsSample DEF PlaybackInv, NewPlayer
<1>1. /\ length \in Nat \ {0} /\ plays \in Nat
      /\ current' = [play |-> plays + 1, position |-> 1, length |-> length]
  BY DEF First, PlaybackTypeOK
<1>2. PlaybackTypeOK'
  BY <1>1 DEF PlaybackTypeOK, Sample
<1>3. Queue' /\ StaleFits'
  BY <1>1, <1>2 DEF Queue, StaleFits, PlaybackTypeOK
<1>4. Order'
  BY <1>1 DEF Order, LastQueued, Follows
<1> QED BY <1>2, <1>3, <1>4

LEMMA PlayKeeps ==
    ASSUME PlaybackInv, NEW length \in SoundLengths, PlayNotification(length)
    PROVE  PlaybackInv'
<1> USE PlaybackAssumption DEF PlaybackInv, PlayNotification
<1>1. CASE UNCHANGED playbackVars
  BY <1>1 DEF playbackVars, PlaybackTypeOK, Queue, Order, StaleFits, LastQueued, ToCopy
<1>2. CASE chunk_size # 0
  <2>1. /\ length \in Nat \ {0} /\ plays \in Nat /\ plays' = plays + 1
        /\ current' = [play |-> plays + 1, position |-> 1, length |-> length]
        /\ stale' = 0 /\ UNCHANGED <<chunk_size, leftover, room, output>>
    BY <1>2 DEF Played, First, PlaybackTypeOK
  <2>2. PlaybackTypeOK'
    BY <2>1 DEF PlaybackTypeOK, Sample
  <2>3. LastQueued \in Sample /\ LastQueued.play <= plays
    BY DEF LastQueued, PlaybackTypeOK, Queue
  <2>4. \A i \in 1..Len(leftover) : leftover[i].play \in Nat
    <3>1. \A i \in 1..Len(leftover) : leftover[i] \in Sample
      BY DEF PlaybackTypeOK
    <3> QED BY <3>1 DEF Sample
  <2>5. Queue'
    <3>1. output.play \in Nat
      BY DEF PlaybackTypeOK, Sample
    <3> QED BY <2>1, <2>4, <3>1 DEF Queue
  <2>6. StaleFits'
    BY <2>1 DEF StaleFits, Queue, PlaybackTypeOK
  <2>7. Follows(LastQueued, current')
    <3>1. LastQueued.play \in Nat
      BY <2>3 DEF Sample
    <3> QED BY <2>1, <2>3, <3>1 DEF Follows
  <2>8. Order'
    BY <2>1, <2>7 DEF Order, LastQueued
  <2> QED BY <2>2, <2>5, <2>6, <2>8
<1> QED BY <1>1, <1>2

LEMMA GetAudioKeeps ==
    ASSUME PlaybackInv, GetAudio
    PROVE  PlaybackInv'
<1> USE DEF PlaybackInv, GetAudio
<1>1. chunk_size \in Nat \ {0} /\ plays \in Nat /\ output \in Sample /\ current \in Sample
  BY DEF PlaybackTypeOK, Queue
<1>2. CASE current = Silence
  <2>1. /\ leftover' \in Seq(Sample) /\ Len(leftover') = chunk_size
        /\ \A i \in 1..chunk_size : leftover'[i] = Silence
    BY <1>1, <1>2, SilenceIsSample
  <2>2. PlaybackTypeOK'
    BY <1>1, <1>2, <2>1 DEF PlaybackTypeOK
  <2>3. Queue' /\ StaleFits'
    BY <1>1, <1>2, <2>1, SilenceIsSample DEF Queue, StaleFits, PlaybackTypeOK
  <2>4. Follows(output, Silence)
    BY <1>2 DEF Order, LastQueued
  <2>5. Order'
    BY <1>1, <1>2, <2>1, <2>4, SilenceIsSample DEF Order, LastQueued
  <2> QED BY <2>2, <2>3, <2>5
<1>3. CASE current # Silence
  <2>1. /\ current.position \in 1..current.length /\ current.length \in Nat
        /\ current.play = plays /\ plays > 0
    BY <1>1, <1>3 DEF Queue, Sample
  <2>2. /\ ToCopy \in 1..chunk_size
        /\ current.position + ToCopy - 1 <= current.length
        /\ AtEnd(ToCopy) <=> current.position + ToCopy - 1 = current.length
    BY <1>1, <2>1, ToCopyFits
  <2>3. /\ leftover' = [i \in 1..ToCopy |-> Fetched(i)]
        /\ current' = IF AtEnd(ToCopy) THEN Silence
                      ELSE [play |-> current.play, position |-> current.position + ToCopy,
                            length |-> current.length]
        /\ UNCHANGED <<chunk_size, plays, room, output, stale>>
    <3>1. current = [play |-> current.play, position |-> current.position,
                     length |-> current.length]
      BY <1>1, SampleParts
    <3>2. \A x : [current EXCEPT !.position = x] =
                    [play |-> current.play, position |-> x, length |-> current.length]
      BY <3>1
    <3>3. \A i \in 1..ToCopy : [current EXCEPT !.position = @ + i - 1] = Fetched(i)
      BY <3>2 DEF Fetched
    <3> QED BY <1>3, <3>2, <3>3
  <2> DEFINE n == ToCopy
  <2>4. n \in Nat \ {0} /\ n <= chunk_size
    BY <1>1, <2>2
  <2>5. \A i \in 1..n : /\ Fetched(i) \in Sample /\ Fetched(i).play = plays
                        /\ Fetched(i).position = current.position + i - 1
                        /\ Fetched(i).length = current.length
    BY <1>1, <2>1, <2>4 DEF Fetched, Sample
  <2>6. /\ Fetched(1) = current
        /\ \A i \in 1..n - 1 : Fetched(i + 1) = [Fetched(i) EXCEPT !.position = @ + 1]
    <3>1. current.position + 1 - 1 = current.position
      BY <2>1
    <3>2. Fetched(1) = current
      BY <1>1, <3>1, SampleParts DEF Fetched
    <3>3. \A i \in 1..n - 1 :
             current.position + (i + 1) - 1 = (current.position + i - 1) + 1
      BY <2>1, <2>4
    <3> QED BY <3>2, <3>3 DEF Fetched
  <2> HIDE DEF n
  <2>7. leftover' \in Seq(Sample) /\ Len(leftover') = n /\ \A i \in 1..n : leftover'[i] = Fetched(i)
    BY <2>3, <2>4, <2>5 DEF n
  <2>8. current' \in Sample /\ (current' # Silence =>
           /\ current'.play = plays /\ current'.length = current.length
           /\ current'.position = current.position + n
           /\ current.position + n \in 1..current.length)
    <3>1. CASE AtEnd(n)
      BY <2>3, <3>1, SilenceIsSample DEF n
    <3>2. CASE ~AtEnd(n)
      <4>1. current' = [play |-> current.play, position |-> current.position + n,
                        length |-> current.length]
        BY <2>3, <3>2 DEF n
      <4>2. current.position + n \in 1..current.length
        BY <2>1, <2>2, <2>4, <3>2 DEF n
      <4> QED BY <1>1, <2>1, <4>1, <4>2 DEF Sample
    <3> QED BY <3>1, <3>2
  <2>9. PlaybackTypeOK'
    BY <1>1, <2>3, <2>7, <2>8 DEF PlaybackTypeOK
  <2>10. Queue' /\ StaleFits'
    <3>1. \A i \in 1..Len(leftover') :
             leftover'[i].play = plays' /\ leftover'[i].play = leftover'[1].play
      <4>1. UNCHANGED plays /\ 1 \in 1..n
        BY <2>3, <2>4
      <4>2. \A i \in 1..n : leftover'[i].play = plays
        BY <2>5, <2>7
      <4>3. leftover'[1].play = plays
        BY <4>1, <4>2
      <4> QED BY <2>7, <4>1, <4>2, <4>3
    <3>2. leftover' # <<>> => leftover'[1].play = plays'
      BY <2>3, <2>4, <2>5, <2>7
    <3>3. Len(leftover') <= chunk_size'
      BY <2>3, <2>4, <2>7
    <3>4. Queue'
      <4>1. UNCHANGED <<chunk_size, plays, room, output>>
        BY <2>3
      <4>2. room' > 0 => chunk_size' > 0
        BY <1>1, <4>1
      <4>3. current' # Silence => /\ current'.play = plays' /\ plays' > 0
                                  /\ current'.position \in 1..current'.length
        BY <2>1, <2>8, <4>1
      <4>4. output'.play <= plays'
        BY <4>1 DEF Queue
      <4>5. \A i \in 1..Len(leftover') : leftover'[i].play <= plays'
        BY <1>1, <3>1, <4>1
      <4> QED BY <3>1, <3>3, <4>2, <4>3, <4>4, <4>5 DEF Queue
    <3>5. StaleFits'
      BY <2>3, <3>2 DEF StaleFits
    <3> QED BY <3>4, <3>5
  <2>11. Follows(output', leftover'[1])
    BY <2>3, <2>4, <2>6, <2>7 DEF Order, LastQueued
  <2>12. \A i \in 1..Len(leftover') - 1 : Follows(leftover'[i], leftover'[i + 1])
    BY <2>4, <2>6, <2>7 DEF Follows
  <2>13. Follows(leftover'[n], current')
    <3>1. leftover'[n] = Fetched(n) /\ n \in 1..n
      BY <2>4, <2>7
    <3>2. CASE AtEnd(n)
      BY <2>2, <2>3, <2>5, <3>1, <3>2 DEF n, Follows
    <3>3. CASE ~AtEnd(n)
      <4>1. (current.position + n - 1) + 1 = current.position + n
        BY <2>1, <2>4
      <4>2. current' = [play |-> current.play, position |-> current.position + n,
                        length |-> current.length]
        BY <2>3, <3>3 DEF n
      <4>3. current' = [Fetched(n) EXCEPT !.position = @ + 1]
        BY <4>1, <4>2 DEF Fetched
      <4> QED BY <3>1, <4>3 DEF Follows
    <3> QED BY <3>2, <3>3
  <2>14. leftover' # <<>>
    BY <2>4, <2>7
  <2>15. Order'
    BY <2>7, <2>11, <2>12, <2>13, <2>14 DEF Order, LastQueued
  <2> QED BY <2>9, <2>10, <2>15
<1> QED BY <1>2, <1>3

\* The sample that is copied follows what has been heard.
LEMMA CopySampleKeeps ==
    ASSUME PlaybackInv, CopySample
    PROVE  PlaybackInv' /\ Follows(output, output')
<1> USE DEF PlaybackInv, CopySample
<1>1. /\ leftover \in Seq(Sample) /\ leftover # <<>> /\ plays \in Nat /\ chunk_size \in Nat
      /\ room \in Nat /\ stale \in Nat
  BY DEF PlaybackTypeOK
<1>2. /\ Len(leftover) \in Nat \ {0} /\ Head(leftover) = leftover[1] /\ leftover[1] \in Sample
      /\ Tail(leftover) \in Seq(Sample) /\ Len(Tail(leftover)) = Len(leftover) - 1
      /\ \A i \in 1..Len(Tail(leftover)) : Tail(leftover)[i] = leftover[i + 1]
      /\ Tail(leftover) = <<>> <=> Len(leftover) = 1
  BY <1>1, QueueFacts
<1>3. /\ output' = leftover[1] /\ leftover' = Tail(leftover) /\ room' = room - 1
      /\ UNCHANGED <<chunk_size, plays, current>>
      /\ stale' = IF leftover[1].play \in {0, plays} THEN stale ELSE stale + 1
  BY <1>2
<1>4. PlaybackTypeOK'
  BY <1>1, <1>2, <1>3 DEF PlaybackTypeOK
<1>5. Queue'
  <2>1. \A i \in 1..Len(leftover') :
           leftover'[i].play <= plays' /\ leftover'[i].play = leftover'[1].play
    BY <1>2, <1>3 DEF Queue
  <2>2. output'.play <= plays' /\ Len(leftover') <= chunk_size' /\ (room' > 0 => chunk_size' > 0)
    BY <1>1, <1>2, <1>3 DEF Queue
  <2> QED BY <1>3, <2>1, <2>2 DEF Queue
<1>6. StaleFits'
  <2>1. leftover' # <<>> => leftover'[1].play = leftover[1].play
    BY <1>2, <1>3 DEF Queue
  <2> QED BY <1>1, <1>2, <1>3, <2>1 DEF StaleFits
<1>7. Order'
  <2>1. leftover' # <<>> => leftover'[1] = leftover[2] /\ Follows(leftover[1], leftover[2])
    BY <1>2, <1>3 DEF Order
  <2>2. \A i \in 1..Len(leftover') - 1 : Follows(leftover'[i], leftover'[i + 1])
    <3>1. SUFFICES ASSUME NEW i \in 1..Len(leftover') - 1
                   PROVE  Follows(leftover'[i], leftover'[i + 1])
      OBVIOUS
    <3>2. /\ leftover'[i] = leftover[i + 1] /\ leftover'[i + 1] = leftover[(i + 1) + 1]
          /\ i + 1 \in 1..Len(leftover) - 1
      BY <1>2, <1>3
    <3> QED BY <3>2 DEF Order
  <2>3. LastQueued' = LastQueued
    BY <1>2, <1>3 DEF LastQueued
  <2> QED BY <1>3, <2>1, <2>2, <2>3 DEF Order
<1>8. Follows(output, output')
  BY <1>1, <1>3 DEF Order
<1> QED BY <1>4, <1>5, <1>6, <1>7, <1>8

LEMMA PlaybackKeeps ==
    ASSUME PlaybackInv, PlaybackStep
    PROVE  /\ PlaybackInv'
           /\ room' < room /\ plays' = plays => Follows(output, output')
<1> USE PlaybackAssumption DEF PlaybackInv
<1>t. room \in Nat /\ plays \in Nat
  BY DEF PlaybackTypeOK
<1>1. CASE UNCHANGED playbackVars
  BY <1>1, <1>t DEF playbackVars, PlaybackTypeOK, Queue, Order, StaleFits, LastQueued
<1>2. CASE /\ PlaybackInit
           /\ chunk_size' = 0 \/ \E o \in OutputDevices : chunk_size' = ChunkSize[o]
           /\ UNCHANGED <<plays, current, leftover, room, output, stale>>
  BY <1>2, <1>t, PlaybackInitially
<1>3. ASSUME NEW length \in SoundLengths, PlayNotification(length)
      PROVE  PlaybackInv' /\ ~(room' < room /\ plays' = plays)
  BY <1>3, <1>t, PlayKeeps DEF PlayNotification, playbackVars
<1>4. ASSUME NEW o \in OutputDevices, NEW length \in SoundLengths,
             NewPlayer(ChunkSize[o], length)
      PROVE  PlaybackInv' /\ ~(room' < room /\ plays' = plays)
  BY <1>4, <1>t, NewPlayerKeeps DEF NewPlayer
<1>5. CASE OutputCallback
  <2>1. PICK n \in Nat \ {0} : room' = n
    BY <1>5 DEF OutputCallback
  <2> QED
    BY <1>5, <1>t, <2>1
       DEF OutputCallback, PlaybackTypeOK, Queue, Order, StaleFits, LastQueued
<1>6. CASE GetAudio
  BY <1>6, <1>t, GetAudioKeeps DEF GetAudio
<1>7. CASE CopySample
  BY <1>7, CopySampleKeeps
<1> QED BY <1>1, <1>2, <1>3, <1>4, <1>5, <1>6, <1>7 DEF PlaybackStep, OutputDevice

-----------------------------------------------------------------------------
(* Settings, and the microphones that are open.                              *)

LEMMA SettingsTypes ==
    ASSUME SettingsTypeOK, [SoundNext]_soundVars
    PROVE  SettingsTypeOK'
<1> USE SettingsAssumption DEF SettingsTypeOK, AppStates
<1>1. /\ config.input \in InputDevices /\ config.output \in OutputDevices
      /\ config.other \in Values
      /\ config = [input |-> config.input, output |-> config.output, other |-> config.other]
  BY DEF Configs
<1>2. ASSUME NEW c \in Configs, WriteConfig(c) \/ UNCHANGED <<config, config_dirty>>
      PROVE  config' \in Configs /\ config_dirty' \in BOOLEAN
  BY <1>2 DEF WriteConfig
<1>3. CASE JoinedVoice \/ LeftVoice \/ MuteInput \/ OthersMove
  BY <1>3 DEF JoinedVoice, LeftVoice, MuteInput, OthersMove, Message, NoSettingsChange
<1>4. CASE SelectInputDevice
  <2>1. PICK d \in InputDevices :
          /\ Selected([config EXCEPT !.input = d])
          /\ \E o \in Opening(config'.input) : meter' = o
    BY <1>4 DEF SelectInputDevice, NewInput, MeterRestarts
  <2>2. [config EXCEPT !.input = d] \in Configs
    BY <1>1 DEF Configs
  <2>3. config' \in Configs /\ config_dirty' \in BOOLEAN
    BY <1>2, <2>1, <2>2 DEF Selected
  <2>4. meter' \in InputDevices \cup {NoDevice}
    BY <2>1, <2>3, Openings DEF Configs
  <2> QED BY <1>4, <2>3, <2>4 DEF SelectInputDevice, Message
<1>5. CASE SelectOutputDevice
  <2>1. PICK d \in OutputDevices : Selected([config EXCEPT !.output = d])
    BY <1>5 DEF SelectOutputDevice
  <2>2. [config EXCEPT !.output = d] \in Configs
    BY <1>1 DEF Configs
  <2>3. config' \in Configs /\ config_dirty' \in BOOLEAN
    BY <1>2, <2>1, <2>2 DEF Selected
  <2> QED BY <1>5, <2>3 DEF SelectOutputDevice, Message
<1>6. CASE ChangeSetting
  <2>1. PICK v \in Values : WriteConfig([config EXCEPT !.other = v])
    BY <1>6 DEF ChangeSetting
  <2>2. [config EXCEPT !.other = v] \in Configs
    BY <1>1 DEF Configs
  <2>3. config' \in Configs /\ config_dirty' \in BOOLEAN
    BY <1>2, <2>1, <2>2
  <2> QED BY <1>6, <2>3 DEF ChangeSetting, Message
<1>7. ASSUME NEW view \in Views \ {"Login"}, SwitchTo(view) PROVE SettingsTypeOK'
  <2>1. meter' \in InputDevices \cup {NoDevice} /\ current_view' \in Views
    BY <1>1, <1>7, Openings DEF SwitchTo, SwitchView
  <2> QED BY <1>7, <2>1 DEF SwitchTo, Message
<1>8. CASE Start
  BY <1>8 DEF Start, LoadConfig
<1>9. CASE SaveConfig
  BY <1>9 DEF SaveConfig, PeriodicConfigSave, WindowCloseRequested, SaveIfDirty, MarkBack
<1>10. CASE UNCHANGED settingsVars
  BY <1>10 DEF settingsVars
<1>11. CASE MicrophoneRuns \/ LoudspeakerRuns
            \/ \E r \in Recordings : TaskRuns(r) \/ PipelineRuns(r)
  BY <1>10, <1>11 DEF MicrophoneRuns, LoudspeakerRuns, TaskRuns, PipelineRuns, Beside
<1> QED
  BY <1>3, <1>4, <1>5, <1>6, <1>7, <1>8, <1>9, <1>10, <1>11 DEF SoundNext, soundVars

\* A recording's microphone is open in voice only.
InVoice == input_stream # 0 => in_voice

\* What a start or a stop of a recording leaves open.
LEMMA Recorded ==
    ASSUME RecordingTypeOK, NEW stops \in BOOLEAN, NEW wanted \in InputDevices,
           NEW d \in Opening(wanted), Record(stops, d)
    PROVE  \/ ~stops /\ UNCHANGED <<input_stream, device>>
           \/ input_stream' = 0
           \/ input_stream' # 0 /\ device'[input_stream'] = wanted
<1>1. d = NoDevice \/ (d = wanted /\ d # NoDevice)
  BY DevicesAssumption DEF Opening
<1>2. CASE d = NoDevice
  BY <1>2 DEF Record
<1>3. CASE d = wanted /\ d # NoDevice
  <2>1. /\ input_stream' = started' /\ started' \in Recordings
        /\ device' = [device EXCEPT ![started'] = d]
    BY <1>3 DEF Record
  <2>2. DOMAIN device = Recordings /\ started' # 0
    BY <2>1 DEF RecordingTypeOK, Recordings
  <2> QED BY <1>3, <2>1, <2>2
<1> QED BY <1>1, <1>2, <1>3

LEMMA InputsKeep ==
    ASSUME SoundTypeOK, Fresh, InVoice, InputsCurrent, [SoundNext]_soundVars
    PROVE  InVoice' /\ InputsCurrent'
<1> USE DEF InVoice, InputsCurrent
<1>1. /\ config.input \in InputDevices /\ RecordingTypeOK
      /\ config = [input |-> config.input, output |-> config.output, other |-> config.other]
  BY DEF SoundTypeOK, SettingsTypeOK, Configs
<1>2. CASE UNCHANGED <<in_voice, input_stream, device, config, meter, current_view>>
  BY <1>2
<1>3. CASE JoinedVoice
  <2>1. PICK d \in Opening(config.input) : Record(FALSE, d)
    BY <1>3 DEF JoinedVoice, StartRecording
  <2>2. in_voice' /\ UNCHANGED <<config, meter, current_view>>
    BY <1>3 DEF JoinedVoice, NoSettingsChange
  <2> QED BY <1>1, <2>1, <2>2, Recorded
<1>4. CASE LeftVoice
  BY <1>4 DEF LeftVoice, StopRecording, Record, NoSettingsChange
<1>5. CASE MuteInput \/ OthersMove
  BY <1>2, <1>5 DEF MuteInput, OthersMove, NoRecordingChange, NoSettingsChange, recordingVars,
                    audioVars
<1>6. CASE SelectInputDevice
  <2>1. PICK d \in InputDevices :
          /\ Selected([config EXCEPT !.input = d])
          /\ current_view = "Settings" /\ UNCHANGED <<in_voice, current_view>>
          /\ IF in_voice THEN \E o \in Opening(config'.input) : Record(TRUE, o)
             ELSE UNCHANGED <<input_stream, device>>
          /\ \E o \in Opening(config'.input) : meter' = o
    BY <1>6 DEF SelectInputDevice, RestartRecording, NewInput, MeterRestarts, audioVars
  <2>2. config'.input \in InputDevices
    BY <1>1, <2>1 DEF Selected, WriteConfig
  <2>3. meter' # NoDevice => meter' = config'.input /\ current_view' = "Settings"
    BY <2>1, Openings
  <2>4. CASE in_voice
    <3>1. PICK o \in Opening(config'.input) : Record(TRUE, o)
      BY <2>1, <2>4
    <3>2. input_stream' = 0 \/ device'[input_stream'] = config'.input
      BY <1>1, <2>2, <3>1, Recorded
    <3> QED BY <2>1, <2>3, <2>4, <3>2
  <2>5. CASE ~in_voice
    BY <2>1, <2>3, <2>5
  <2> QED BY <2>4, <2>5
<1>7. CASE SelectOutputDevice
  <2>1. UNCHANGED <<in_voice, input_stream, device, meter, current_view>>
    BY <1>7 DEF SelectOutputDevice, NoRecordingChange, recordingVars, audioVars
  <2>2. config'.input = config.input
    BY <1>1, <1>7 DEF SelectOutputDevice, Selected, WriteConfig
  <2> QED BY <2>1, <2>2
<1>8. CASE ChangeSetting
  <2>1. UNCHANGED <<in_voice, input_stream, device, meter, current_view>>
    BY <1>8 DEF ChangeSetting, NoRecordingChange, recordingVars, audioVars
  <2>2. config'.input = config.input
    BY <1>1, <1>8 DEF ChangeSetting, WriteConfig
  <2> QED BY <2>1, <2>2
<1>9. ASSUME NEW view \in Views \ {"Login"}, SwitchTo(view) PROVE InVoice' /\ InputsCurrent'
  <2>1. UNCHANGED <<in_voice, input_stream, device, config>>
    BY <1>9 DEF SwitchTo, NoRecordingChange, recordingVars, audioVars
  <2>2. meter' # NoDevice => meter' = config.input /\ current_view' = "Settings"
    BY <1>9, Openings DEF SwitchTo, SwitchView
  <2> QED BY <2>1, <2>2
<1>10. CASE Start
  <2>1. UNCHANGED <<in_voice, input_stream, device, meter, current_view>>
    BY <1>10 DEF Start, LoadConfig, NoRecordingChange, recordingVars, audioVars
  <2>2. input_stream = 0 /\ meter = NoDevice
    BY <1>10 DEF Start, LoadConfig, Fresh
  <2> QED BY <2>1, <2>2
<1>11. CASE SaveConfig
  BY <1>2, <1>11 DEF SaveConfig, PeriodicConfigSave, WindowCloseRequested, NoRecordingChange,
                     recordingVars, audioVars
<1>12. CASE LoudspeakerRuns
  BY <1>2, <1>12 DEF LoudspeakerRuns, Beside, NoRecordingChange, recordingVars, audioVars,
                     settingsVars
<1>13. ASSUME NEW r \in Recordings, StreamCallback(r) \/ ReceiverTask(r) \/ PipelineTask(r)
       PROVE  UNCHANGED <<input_stream, device>>
  BY <1>13 DEF StreamCallback, ReceiverTask, ReceiveBuffer, SendFrame, TaskEnds, PipelineTask,
               TakeInput, ResampleChunk, ResamplerDone, EncodeFrame, EncoderDone, PipelineEnds,
               UNCHANGEDOutside, audioVars
<1>14. CASE MicrophoneRuns
  BY <1>2, <1>13, <1>14 DEF MicrophoneRuns, Beside, settingsVars
<1>15. ASSUME NEW r \in Recordings, TaskRuns(r) \/ PipelineRuns(r)
       PROVE  InVoice' /\ InputsCurrent'
  BY <1>2, <1>13, <1>15 DEF TaskRuns, PipelineRuns, Beside, settingsVars
<1>16. CASE UNCHANGED soundVars
  BY <1>2, <1>16 DEF soundVars, settingsVars, recordingVars, audioVars
<1> QED
  BY <1>3, <1>4, <1>5, <1>6, <1>7, <1>8, <1>9, <1>10, <1>11, <1>12, <1>14, <1>15, <1>16
     DEF SoundNext

\* What is not saved is marked.
LEMMA UnsavedKeeps ==
    ASSUME NothingUnsaved, [SoundNext]_soundVars
    PROVE  NothingUnsaved'
<1> USE DEF NothingUnsaved, Alive
<1>1. CASE UNCHANGED settingsVars
  BY <1>1 DEF settingsVars
<1>2. CASE UNCHANGED <<app, config, config_dirty, file>>
  BY <1>2
<1>3. ASSUME NEW c, Alive, UNCHANGED file, WriteConfig(c) PROVE NothingUnsaved'
  BY <1>3 DEF WriteConfig
<1>4. CASE JoinedVoice \/ LeftVoice \/ MuteInput \/ OthersMove
  BY <1>2, <1>4 DEF JoinedVoice, LeftVoice, MuteInput, OthersMove, Message, NoSettingsChange
<1>5. CASE SelectInputDevice \/ SelectOutputDevice \/ ChangeSetting
  BY <1>2, <1>3, <1>5 DEF SelectInputDevice, SelectOutputDevice, ChangeSetting, Selected, Message
<1>6. ASSUME NEW view \in Views \ {"Login"}, SwitchTo(view) PROVE NothingUnsaved'
  BY <1>2, <1>6 DEF SwitchTo, Message
<1>7. CASE Start
  BY <1>7 DEF Start, LoadConfig
<1>8. CASE SaveConfig
  BY <1>8 DEF SaveConfig, PeriodicConfigSave, WindowCloseRequested, SaveIfDirty, MarkBack
<1>9. CASE MicrophoneRuns \/ LoudspeakerRuns
            \/ \E r \in Recordings : TaskRuns(r) \/ PipelineRuns(r)
  BY <1>1, <1>9 DEF MicrophoneRuns, LoudspeakerRuns, TaskRuns, PipelineRuns, Beside
<1> QED
  BY <1>1, <1>4, <1>5, <1>6, <1>7, <1>8, <1>9 DEF SoundNext, soundVars

-----------------------------------------------------------------------------
(* The theorems.                                                             *)

SoundInv ==
    /\ SoundTypeOK /\ Fresh
    /\ Silent /\ Accounted /\ PlaybackInv
    /\ InVoice /\ InputsCurrent /\ NothingUnsaved

LEMMA SoundInitially == SoundInit => SoundInv
<1> SUFFICES ASSUME SoundInit PROVE SoundInv
  OBVIOUS
<1> USE DEF SoundInit
<1>2. RecordingTypeOK
  <2>1. 0 \in 0..MaxRecordings /\ 0 \in 0..WORD - 1 /\ 0 \in 0..0
    BY RecordingAssumption
  <2>2. <<>> \in Seq(Nat)
    OBVIOUS
  <2> QED BY <2>1, <2>2 DEF RecordingInit, RecordingTypeOK
<1>3. PlaybackTypeOK /\ Queue /\ Order /\ StaleFits
  BY SilenceIsSample DEF PlaybackInit, PlaybackTypeOK, Queue, Order, StaleFits, LastQueued
<1>4. SettingsTypeOK
  BY SettingsAssumption, SoundAssumption
     DEF SettingsInit, SettingsTypeOK, AppStates, Views, SetupOK
<1>5. SoundTypeOK
  BY <1>2, <1>3, <1>4 DEF SoundTypeOK
<1>6. Fresh /\ InVoice /\ InputsCurrent /\ NothingUnsaved
  BY DEF Fresh, InVoice, InputsCurrent, NothingUnsaved, RecordingInit, SettingsInit, Alive
<1>7. Silent
  BY DEF Silent, RecordingInit
<1> QED BY <1>3, <1>5, <1>6, <1>7, AccountedInitially DEF SoundInv, PlaybackInv

LEMMA SoundKeeps == SoundInv /\ [SoundNext]_soundVars => SoundInv'
<1> SUFFICES ASSUME SoundInv, [SoundNext]_soundVars PROVE SoundInv'
  OBVIOUS
<1> USE DEF SoundInv
<1>1. RecordingStep /\ PlaybackStep
  BY RecordingPart, PlaybackPart
<1>2. RecordingTypeOK' /\ Silent' /\ Accounted'
  BY <1>1, RecordingTypes, SilentKeeps, AccountedKeeps DEF SoundTypeOK
<1>3. PlaybackInv'
  BY <1>1, PlaybackKeeps
<1>4. setup' \in Setups /\ messages' \in Nat /\ in_voice' \in BOOLEAN
  <2> USE DEF SoundTypeOK
  <2>1. CASE UNCHANGED <<setup, messages, in_voice>>
    BY <2>1
  <2>2. ASSUME NEW m, Message(m)
        PROVE  setup' \in Setups /\ messages' \in Nat
    BY <2>2 DEF Message
  <2>3. CASE \/ JoinedVoice \/ LeftVoice \/ MuteInput \/ OthersMove
             \/ SelectInputDevice \/ SelectOutputDevice \/ ChangeSetting
    <3>1. in_voice' \in BOOLEAN
      BY <2>3 DEF JoinedVoice, LeftVoice, MuteInput, OthersMove, SelectInputDevice,
                  SelectOutputDevice, ChangeSetting
    <3>2. \E m : Message(m)
      BY <2>3 DEF JoinedVoice, LeftVoice, MuteInput, OthersMove, SelectInputDevice,
                  SelectOutputDevice, ChangeSetting
    <3> QED BY <2>2, <3>1, <3>2
  <2>4. ASSUME NEW view \in Views \ {"Login"}, SwitchTo(view)
        PROVE  setup' \in Setups /\ messages' \in Nat /\ in_voice' \in BOOLEAN
    BY <2>4 DEF SwitchTo, Message
  <2>5. CASE Start \/ SaveConfig
    BY <2>1, <2>5 DEF Start, SaveConfig
  <2>6. CASE MicrophoneRuns \/ LoudspeakerRuns
             \/ \E r \in Recordings : TaskRuns(r) \/ PipelineRuns(r)
    BY <2>1, <2>6 DEF MicrophoneRuns, LoudspeakerRuns, TaskRuns, PipelineRuns, Beside
  <2>7. CASE UNCHANGED soundVars
    BY <2>1, <2>7 DEF soundVars
  <2> QED BY <2>3, <2>4, <2>5, <2>6, <2>7 DEF SoundNext
<1>5. SoundTypeOK'
  BY <1>2, <1>3, <1>4, SettingsTypes DEF SoundTypeOK, PlaybackInv
<1>6. Fresh'
  <2>1. app' = "starting" => UNCHANGED soundVars
    BY DEF SoundNext, JoinedVoice, LeftVoice, MuteInput, OthersMove, SelectInputDevice,
           SelectOutputDevice, ChangeSetting, SwitchTo, Message, Start, LoadConfig, SaveConfig,
           PeriodicConfigSave, WindowCloseRequested, MicrophoneRuns, LoudspeakerRuns, TaskRuns,
           PipelineRuns, Beside, Alive, settingsVars, soundVars
  <2> QED BY <2>1 DEF Fresh, soundVars, recordingVars, audioVars, settingsVars, playbackVars,
                      PlaybackInit
<1> QED BY <1>2, <1>3, <1>5, <1>6, InputsKeep, UnsavedKeeps

\* The invariants of the parts hold together: Fresh, those of the recordings,
\* of the playback and of the settings (all handlers).
THEOREM SoundInvariant == SoundSpec => []SoundInv
<1> QED BY SoundInitially, SoundKeeps, PTL DEF SoundSpec

\* Every variable of the audio and the settings keeps its type (all handlers).
THEOREM SoundTypeCorrect == SoundSpec => []SoundTypeOK
<1>1. SoundInv => SoundTypeOK
  BY DEF SoundInv
<1> QED BY <1>1, SoundInvariant, PTL

\* However many samples a microphone delivers at once, and whatever the
\* resampler makes of a chunk: a pipeline that waits has sent every full frame,
\* and its 32-bit numbers are those of the frames it has sent
\* (InputPipeline::pipeline_task, Encoder::encode).
THEOREM EverySampleIsSent == SoundSpec => []EverySampleSent
<1>1. SoundInv => EverySampleSent
  BY DEF SoundInv, Accounted, Balanced, Drained, EverySampleSent
<1> QED BY <1>1, SoundInvariant, PTL

\* After a mute at most the buffer in hand is passed on (the receiver task of
\* start_recording()).
THEOREM MutedStaysSilent == SoundSpec => []MutedIsSilent
<1>1. SoundInv => MutedIsSilent
  BY DEF SoundInv, Silent, MutedIsSilent
<1> QED BY <1>1, SoundInvariant, PTL

\* After a play() no more is heard of an earlier sound than a chunk
\* (NotificationPlayer::play, fill_output).
THEOREM TheLastWins == SoundSpec => []LastWins
<1>1. SoundInv => LastWins
  BY DEF SoundInv, PlaybackInv, StaleFits, LastWins
<1> QED BY <1>1, SoundInvariant, PTL

\* No sample of a sound is skipped or repeated (get_audio, fill_output).
THEOREM SoundsAreGapless == SoundSpec => Gapless
<1>1. SoundInv /\ [SoundNext]_soundVars =>
         [room' < room /\ plays' = plays => Follows(output, output')]_playbackVars
  BY PlaybackPart, PlaybackKeeps DEF SoundInv
<1> QED BY <1>1, SoundInvariant, PTL DEF SoundSpec, Gapless

\* Whatever saves fail, a change that the disk does not have is marked
\* (ConfigState::write_config, save_config_if_dirty).
THEOREM NothingStaysUnsaved == SoundSpec => []NothingUnsaved
<1>1. SoundInv => NothingUnsaved
  BY DEF SoundInv
<1> QED BY <1>1, SoundInvariant, PTL

\* The recording and the level meter use the configured microphone: the
\* handlers of a selection see the new configuration (Application::update).
THEOREM InputsAreCurrent == SoundSpec => []InputsCurrent
<1>1. SoundInv => InputsCurrent
  BY DEF SoundInv
<1> QED BY <1>1, SoundInvariant, PTL
=============================================================================
