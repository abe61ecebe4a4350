--------------------------------- MODULE Sound ---------------------------------
(***************************************************************************)
(* The audio of one user's application: AudioManager's recordings and      *)
(* notifications, and the settings they depend on, put together by the     *)
(* messages of the application's thread.  The microphone, the loudspeaker  *)
(* and the tasks run beside it.                                            *)
(*                                                                         *)
(* Each message is one Application::update(): ConfigState handles it       *)
(* before AudioManagerState, and both before the pages.                    *)
(***************************************************************************)
EXTENDS Recording, Playback, Settings

CONSTANTS
    Setups,         \* what may happen in a behaviour: see SetupOK
    MaxMessages     \* bound: messages that the user or the server cause

SetupOK(s) ==
    /\ s.file \in Configs \cup {Torn}
    /\ s.messages \subseteq {"join", "leave", "mute", "others", "input", "output",
                             "other", "view", "close"}
    /\ s.opens \subseteq InputDevices \cup OutputDevices    \* those that may open
    /\ s.buffers \in 0..MaxBuffers                          \* see MaxBuffers
ASSUME SoundAssumption == MaxMessages \in Nat /\ \A s \in Setups : SetupOK(s)

VARIABLES
    setup,          \* what may happen in this behaviour
    messages,       \* messages so far
    in_voice        \* AudioManagerState.users_in_voice has the user itself

soundVars == <<setup, messages, in_voice, recordingVars, playbackVars, settingsVars>>

SoundInit ==
    /\ setup \in Setups /\ messages = 0 /\ in_voice = FALSE
    /\ RecordingInit /\ PlaybackInit /\ SettingsInit(setup.file)

\* What opening a device comes to.
Opening(d) == {NoDevice} \cup (setup.opens \cap {d})

\* A message that may come now.
Message(m) ==
    /\ m \in setup.messages /\ app = "running" /\ messages < MaxMessages
    /\ messages' = messages + 1 /\ UNCHANGED <<setup, app, file>>

NoRecordingChange == UNCHANGED recordingVars
NoMuteChange == UNCHANGED <<is_input_muted, late>>
NoSettingsChange == UNCHANGED <<config, config_dirty, current_view, meter>>

-----------------------------------------------------------------------------
(* Messages.                                                                *)

JoinedVoice ==
    /\ Message("join")
    /\ \E length \in SoundLengths : PlayNotification(length)
    /\ \E d \in Opening(config.input) : StartRecording(d)
    /\ in_voice' = TRUE
    /\ NoMuteChange /\ NoSettingsChange

LeftVoice ==
    /\ Message("leave")
    /\ \E length \in SoundLengths : PlayNotification(length)
    /\ StopRecording
    /\ in_voice' = FALSE
    /\ NoMuteChange /\ NoSettingsChange

MuteInput == \E muted \in BOOLEAN :
    /\ Message("mute")
    /\ SetInputMuted(muted)
    /\ \E length \in SoundLengths : PlayNotification(length)
    /\ UNCHANGED <<audioVars, delivered, microphone, task, in_hand, aborted, voice_input,
                   pipeline, encoderVars, in_voice>>
    /\ NoSettingsChange

\* Somebody else joins or leaves voice.
OthersMove ==
    /\ Message("others") /\ in_voice
    /\ \E length \in SoundLengths : PlayNotification(length)
    /\ NoRecordingChange /\ NoSettingsChange /\ UNCHANGED in_voice

\* ConfigState ignores a device that it cannot find.
Selected(new) == WriteConfig(new) \/ UNCHANGED <<config, config_dirty>>

\* Mutant: the page handles the message before ConfigState.
OldInput == config.input
NewInput == config'.input
SelectInputDevice == \E d \in InputDevices :
    /\ Message("input") /\ current_view = "Settings"
    /\ Selected([config EXCEPT !.input = d])
    /\ IF in_voice THEN \E o \in Opening(config'.input) : RestartRecording(o)
                   ELSE UNCHANGED <<audioVars, delivered, microphone, task, in_hand, aborted,
                                    voice_input, pipeline, encoderVars>>
    /\ \E o \in Opening(NewInput) : MeterRestarts(o)
    /\ NoMuteChange /\ UNCHANGED <<playbackVars, in_voice, current_view>>

SelectOutputDevice == \E d \in OutputDevices, length \in SoundLengths :
    /\ Message("output") /\ current_view = "Settings"
    /\ Selected([config EXCEPT !.output = d])
    /\ \E o \in Opening(config'.output) :
          IF o = NoDevice THEN PlayNotification(length) ELSE NewPlayer(ChunkSize[o], length)
    /\ NoRecordingChange /\ UNCHANGED <<in_voice, current_view, meter>>

ChangeSetting == \E v \in Values :
    /\ Message("other")
    /\ WriteConfig([config EXCEPT !.other = v])
    /\ NoRecordingChange /\ UNCHANGED <<playbackVars, in_voice, current_view, meter>>

SwitchTo(view) ==
    /\ Message("view")
    /\ \E o \in Opening(config.input) : SwitchView(view, o)
    /\ NoRecordingChange /\ UNCHANGED <<playbackVars, in_voice, config, config_dirty>>

-----------------------------------------------------------------------------
(* The application's life.                                                  *)

\* AudioManagerState::init() makes the first notification player.
Start ==
    /\ LoadConfig
    /\ \E o \in Opening(config'.output) :
          chunk_size' = IF app' = "panicked" \/ o = NoDevice THEN 0 ELSE ChunkSize[o]
    /\ UNCHANGED <<plays, current, leftover, room, output, stale>>
    /\ NoRecordingChange /\ UNCHANGED <<setup, messages, in_voice>>

SaveConfig ==
    /\ PeriodicConfigSave \/ ("close" \in setup.messages /\ WindowCloseRequested)
    /\ NoRecordingChange /\ UNCHANGED <<setup, messages, in_voice, playbackVars>>

-----------------------------------------------------------------------------
(* What runs beside the application's thread.                               *)

Beside(A) == Alive /\ A /\ UNCHANGED <<setup, messages, in_voice, settingsVars>>
MicrophoneRuns == \E r \in Recordings :
    delivered < setup.buffers /\ Beside(StreamCallback(r)) /\ UNCHANGED playbackVars
TaskRuns(r) == Beside(ReceiverTask(r)) /\ UNCHANGED playbackVars
PipelineRuns(r) == Beside(PipelineTask(r)) /\ UNCHANGED playbackVars
LoudspeakerRuns == Beside(OutputDevice) /\ NoRecordingChange

SoundNext ==
    \/ JoinedVoice \/ LeftVoice \/ MuteInput \/ OthersMove
    \/ SelectInputDevice \/ SelectOutputDevice \/ ChangeSetting
    \/ \E view \in Views \ {"Login"} : SwitchTo(view)
    \/ Start \/ SaveConfig
    \/ MicrophoneRuns \/ LoudspeakerRuns
    \/ \E r \in Recordings : TaskRuns(r) \/ PipelineRuns(r)
SoundSpec == SoundInit /\ [][SoundNext]_soundVars

\* Tasks that can run are polled.
SoundFairSpec ==
    /\ SoundSpec
    /\ \A r \in Recordings : WF_soundVars(TaskRuns(r)) /\ WF_soundVars(PipelineRuns(r))

-----------------------------------------------------------------------------
(* Properties.                                                              *)

SoundTypeOK ==
    /\ setup \in Setups /\ messages \in Nat /\ in_voice \in BOOLEAN
    /\ RecordingTypeOK /\ PlaybackTypeOK /\ SettingsTypeOK

\* Every open microphone, the recording's and the meter's, is the one that the
\* user has chosen, and the meter's is open on its page only.
InputsCurrent ==
    /\ input_stream # 0 => device[input_stream] = config.input
    /\ meter # NoDevice => meter = config.input /\ current_view = "Settings"

\* A recording that is stopped, or has been replaced by another, comes to an
\* end: its task, and then its pipeline.
RecordingsEnd == \A r \in Recordings :
    (started >= r /\ input_stream # r) ~> (pipeline[r] = "ended" \/ ~Alive)
=============================================================================
