------------------------------ MODULE Recording ------------------------------
(***************************************************************************)
(* A user's voice on its way from the microphone to the UDP queue: the     *)
(* desktop's start_recording() and stop_recording(), the task that reads   *)
(* the microphone, and the SDK's input pipeline behind it.                 *)
(*                                                                         *)
(* Each start_recording() that succeeds is a recording r, with a stream, a *)
(* task and a pipeline of its own.  Samples are counted: every buffer is   *)
(* filled at its end and drained from its front.                           *)
(***************************************************************************)
EXTENDS Integers, Sequences, AudioDevices

CONSTANTS
    MaxRecordings,  \* bound: recordings
    MaxBuffers,     \* bound: buffers that the microphones deliver
    Resampled,      \* the devices whose rate is not OPUS_SAMPLE_RATE
    BufferSizes,    \* samples a microphone delivers at once
    CHUNK,          \* RESAMPLER_CHUNK_SIZE, 480
    ResampledSizes, \* samples the resampler makes of a chunk
    FRAME,          \* OPUS_FRAME_SIZE, 960
    WORD            \* 2^32: sequence numbers and timestamps are u32

ASSUME RecordingAssumption ==
    /\ MaxRecordings \in Nat /\ MaxBuffers \in Nat
    /\ Resampled \subseteq InputDevices
    /\ BufferSizes \subseteq Nat /\ ResampledSizes \subseteq Nat
    /\ CHUNK \in Nat \ {0} /\ FRAME \in Nat \ {0} /\ WORD \in Nat \ {0}

Recordings == 1..MaxRecordings

VARIABLES
    started,        \* recordings so far
    input_stream,   \* the recording whose stream is open, 0 for None
    input_receiver_task,    \* the recording whose task can be aborted, 0 for None
    device,         \* device[r]: what recording r records from
    is_input_muted,
    delivered,      \* buffers the microphones have delivered
    microphone,     \* microphone[r]: the unbounded queue its stream fills
    task,           \* task[r]: what its receiver task is doing
    in_hand,        \* in_hand[r]: the frame the task is about to send
    aborted,        \* aborted[r]: stop_recording() has called abort()
    voice_input,    \* voice_input[r]: the unbounded channel into its pipeline
    pipeline,       \* pipeline[r]: what its pipeline_task is doing
    resample_buffer, encode_buffer, sequence, timestamp,
    late,           \* history: buffers a task has passed on since the mute
    taken, made,    \* history: samples a pipeline has taken, and made for the encoder
    chunks, frames  \* history: chunks it has resampled, frames it has sent

audioVars == <<started, input_stream, input_receiver_task, device>>
taskVars == <<task, in_hand, late>>
tallyVars == <<taken, chunks, made, frames>>
encoderVars == <<resample_buffer, encode_buffer, sequence, timestamp, tallyVars>>
recordingVars == <<audioVars, is_input_muted, delivered, microphone, aborted, taskVars,
                   voice_input, pipeline, encoderVars>>

RecordingInit ==
    /\ started = 0 /\ input_stream = 0 /\ input_receiver_task = 0
    /\ device = [r \in Recordings |-> NoDevice]
    /\ is_input_muted = FALSE /\ delivered = 0
    /\ microphone = [r \in Recordings |-> <<>>]
    /\ task = [r \in Recordings |-> "none"] /\ in_hand = [r \in Recordings |-> 0]
    /\ aborted = [r \in Recordings |-> FALSE]
    /\ voice_input = [r \in Recordings |-> <<>>]
    /\ pipeline = [r \in Recordings |-> "none"]
    /\ resample_buffer = [r \in Recordings |-> 0] /\ encode_buffer = [r \in Recordings |-> 0]
    /\ sequence = [r \in Recordings |-> 0] /\ timestamp = [r \in Recordings |-> 0]
    /\ late = [r \in Recordings |-> 0]
    /\ taken = [r \in Recordings |-> 0] /\ chunks = [r \in Recordings |-> 0]
    /\ made = [r \in Recordings |-> 0] /\ frames = [r \in Recordings |-> 0]

-----------------------------------------------------------------------------
(* AudioManager, on the application's thread.                               *)

\* stop_recording() if stops, then start_recording() on device d; NoDevice
\* when it is not called, or gives up because the device does not open or the
\* pipeline cannot be made.  Starting without stopping drops the old stream
\* and forgets the old task, which is not aborted.
Record(stops, d) ==
    /\ aborted' = [r \in Recordings |-> aborted[r] \/ (stops /\ r = input_receiver_task)]
    /\ IF d = NoDevice
       THEN /\ input_stream' = IF stops THEN 0 ELSE input_stream
            /\ input_receiver_task' = IF stops THEN 0 ELSE input_receiver_task
            /\ UNCHANGED <<started, device, task, pipeline>>
       ELSE /\ started' \in Recordings /\ started' = started + 1
            /\ input_stream' = started' /\ input_receiver_task' = started'
            /\ device' = [device EXCEPT ![started'] = d]
            /\ task' = [task EXCEPT ![started'] = "recv"]
            /\ pipeline' = [pipeline EXCEPT ![started'] = "recv"]
    /\ UNCHANGED <<delivered, microphone, in_hand, voice_input, encoderVars>>
StartRecording(d) == Record(FALSE, d)
StopRecording == Record(TRUE, NoDevice)
RestartRecording(d) == Record(TRUE, d)

SetInputMuted(muted) ==
    /\ is_input_muted' = muted
    /\ late' = [r \in Recordings |-> IF is_input_muted THEN late[r] ELSE 0]

-----------------------------------------------------------------------------
(* The callback of the stream, and the receiver task.                       *)

StreamCallback(r) == \E n \in BufferSizes :
    /\ r = input_stream /\ delivered < MaxBuffers
    /\ delivered' = delivered + 1
    /\ microphone' = IF task[r] = "ended" THEN microphone
                     ELSE [microphone EXCEPT ![r] = Append(@, n)]
    /\ UNCHANGED <<audioVars, is_input_muted, aborted, taskVars, voice_input, pipeline,
                   encoderVars>>

\* Receives a buffer and looks at the mute flag, and then at the level: a
\* muted or quiet one is dropped.  Nobody else's view of the flag is waited
\* for: what happens to it before the frame is sent goes unnoticed.
\* Mutant: the flag is looked at once, when the task starts.
HearsOnce(r) == in_hand[r] = 0 => ~is_input_muted
Hears(r) == ~is_input_muted
ReceiveBuffer(r) ==
    /\ task[r] = "recv" /\ microphone[r] # <<>>
    /\ microphone' = [microphone EXCEPT ![r] = Tail(@)]
    /\ \/ /\ Hears(r)
          /\ task' = [task EXCEPT ![r] = "send"]
          /\ in_hand' = [in_hand EXCEPT ![r] = Head(microphone[r])]
       \/ UNCHANGED <<task, in_hand>>
    /\ UNCHANGED <<audioVars, is_input_muted, delivered, aborted, late, voice_input,
                   pipeline, encoderVars>>

SendFrame(r) ==
    /\ task[r] = "send"
    /\ IF pipeline[r] = "ended"
       THEN /\ task' = [task EXCEPT ![r] = "ended"]
            /\ UNCHANGED <<voice_input, late>>
       ELSE /\ task' = [task EXCEPT ![r] = "recv"]
            /\ voice_input' = [voice_input EXCEPT ![r] = Append(@, in_hand[r])]
            /\ late' = [late EXCEPT ![r] = IF is_input_muted THEN @ + 1 ELSE @]
    /\ UNCHANGED <<audioVars, is_input_muted, delivered, microphone, in_hand, aborted,
                   pipeline, encoderVars>>

\* recv() returns None once the stream is dropped and the queue is empty; an
\* abort() takes effect at some recv() after it.
TaskEnds(r) ==
    /\ task[r] = "recv"
    /\ aborted[r] \/ (r # input_stream /\ microphone[r] = <<>>)
    /\ task' = [task EXCEPT ![r] = "ended"]
    /\ microphone' = [microphone EXCEPT ![r] = <<>>]
    /\ UNCHANGED <<audioVars, is_input_muted, delivered, in_hand, aborted, late,
                   voice_input, pipeline, encoderVars>>

ReceiverTask(r) == ReceiveBuffer(r) \/ SendFrame(r) \/ TaskEnds(r)

-----------------------------------------------------------------------------
(* InputPipeline::pipeline_task.                                            *)

UNCHANGEDOutside == UNCHANGED <<audioVars, is_input_muted, delivered, microphone, aborted,
                                taskVars>>

\* A frame for the resampler, if there is one, or straight for the encoder.
TakeInput(r) ==
    /\ pipeline[r] = "recv" /\ voice_input[r] # <<>>
    /\ voice_input' = [voice_input EXCEPT ![r] = Tail(@)]
    /\ LET n == Head(voice_input[r]) IN
       /\ taken' = [taken EXCEPT ![r] = @ + n]
       /\ IF device[r] \in Resampled
          THEN /\ pipeline' = [pipeline EXCEPT ![r] = "resample"]
               /\ resample_buffer' = [resample_buffer EXCEPT ![r] = @ + n]
               /\ UNCHANGED <<encode_buffer, made>>
          ELSE /\ pipeline' = [pipeline EXCEPT ![r] = "encode"]
               /\ encode_buffer' = [encode_buffer EXCEPT ![r] = @ + n]
               /\ made' = [made EXCEPT ![r] = @ + n]
               /\ UNCHANGED resample_buffer
    /\ UNCHANGED <<chunks, frames, sequence, timestamp>> /\ UNCHANGEDOutside

\* One turn of the resampling loop; a chunk that cannot be resampled is dropped.
\* Mutant: one chunk for every frame.
OneChunk(r) == pipeline' = [pipeline EXCEPT ![r] = "encode"]
MoreChunks(r) == UNCHANGED pipeline
ResampleChunk(r) == \E k \in ResampledSizes \cup {0} :
    /\ pipeline[r] = "resample" /\ resample_buffer[r] >= CHUNK
    /\ resample_buffer' = [resample_buffer EXCEPT ![r] = @ - CHUNK]
    /\ encode_buffer' = [encode_buffer EXCEPT ![r] = @ + k]
    /\ chunks' = [chunks EXCEPT ![r] = @ + 1] /\ made' = [made EXCEPT ![r] = @ + k]
    /\ MoreChunks(r)
    /\ UNCHANGED <<voice_input, sequence, timestamp, taken, frames>> /\ UNCHANGEDOutside
ResamplerDone(r) ==
    /\ pipeline[r] = "resample" /\ resample_buffer[r] < CHUNK
    /\ pipeline' = [pipeline EXCEPT ![r] = "encode"]
    /\ UNCHANGED <<voice_input, encoderVars>> /\ UNCHANGEDOutside

\* One turn of the encoding loop: a packet for the UDP queue.
\* Mutant: the numbers do not wrap.
AdvancedForever(number, by) == number + by
Advanced(number, by) == (number + by) % WORD
EncodeFrame(r) ==
    /\ pipeline[r] = "encode" /\ encode_buffer[r] >= FRAME
    /\ encode_buffer' = [encode_buffer EXCEPT ![r] = @ - FRAME]
    /\ sequence' = [sequence EXCEPT ![r] = Advanced(@, 1)]
    /\ timestamp' = [timestamp EXCEPT ![r] = Advanced(@, FRAME)]
    /\ frames' = [frames EXCEPT ![r] = @ + 1]
    /\ UNCHANGED <<voice_input, pipeline, resample_buffer, taken, chunks, made>> /\ UNCHANGEDOutside
EncoderDone(r) ==
    /\ pipeline[r] = "encode" /\ encode_buffer[r] < FRAME
    /\ pipeline' = [pipeline EXCEPT ![r] = "recv"]
    /\ UNCHANGED <<voice_input, encoderVars>> /\ UNCHANGEDOutside

\* The frame that cannot be encoded is the last; or nobody sends any more.
\* Mutant: the manager keeps a sender for the next source.
SenderKept(r) == FALSE
SenderGone(r) == task[r] = "ended"
PipelineEnds(r) ==
    /\ \/ pipeline[r] = "encode" /\ encode_buffer[r] >= FRAME
       \/ pipeline[r] = "recv" /\ voice_input[r] = <<>> /\ SenderGone(r)
    /\ pipeline' = [pipeline EXCEPT ![r] = "ended"]
    /\ UNCHANGED <<voice_input, encoderVars>> /\ UNCHANGEDOutside

PipelineTask(r) ==
    \/ TakeInput(r) \/ ResampleChunk(r) \/ ResamplerDone(r)
    \/ EncodeFrame(r) \/ EncoderDone(r) \/ PipelineEnds(r)

-----------------------------------------------------------------------------
(* Properties.                                                              *)

RecordingTypeOK ==
    /\ started \in 0..MaxRecordings /\ is_input_muted \in BOOLEAN /\ delivered \in Nat
    /\ input_stream \in 0..started /\ input_receiver_task \in 0..started
    /\ device \in [Recordings -> InputDevices \cup {NoDevice}]
    /\ microphone \in [Recordings -> Seq(Nat)] /\ voice_input \in [Recordings -> Seq(Nat)]
    /\ task \in [Recordings -> {"none", "recv", "send", "ended"}]
    /\ pipeline \in [Recordings -> {"none", "recv", "resample", "encode", "ended"}]
    /\ in_hand \in [Recordings -> Nat] /\ late \in [Recordings -> Nat]
    /\ aborted \in [Recordings -> BOOLEAN]
    /\ resample_buffer \in [Recordings -> Nat] /\ encode_buffer \in [Recordings -> Nat]
    /\ sequence \in [Recordings -> 0..WORD - 1] /\ timestamp \in [Recordings -> 0..WORD - 1]
    /\ taken \in [Recordings -> Nat] /\ chunks \in [Recordings -> Nat]
    /\ made \in [Recordings -> Nat] /\ frames \in [Recordings -> Nat]

\* Whenever a pipeline waits for input, what it has been given has become
\* frames, numbered without a gap, but for less than a chunk and a frame.
EverySampleSent == \A r \in Recordings : pipeline[r] = "recv" =>
    /\ made[r] = frames[r] * FRAME + encode_buffer[r] /\ encode_buffer[r] < FRAME
    /\ IF device[r] \in Resampled
       THEN taken[r] = chunks[r] * CHUNK + resample_buffer[r] /\ resample_buffer[r] < CHUNK
       ELSE taken[r] = made[r]
    /\ sequence[r] = frames[r] % WORD /\ timestamp[r] = (frames[r] * FRAME) % WORD

\* When the user mutes, a recording passes on the buffer its task has already
\* looked at, and nothing else.
MutedIsSilent == \A r \in Recordings :
    is_input_muted => late[r] <= 1
=============================================================================
