------------------------------- MODULE Desktop -------------------------------
(***************************************************************************)
(* The desktop application of one user, Me: the message bus of             *)
(* application.rs, the room page, the audio manager's state and the voice  *)
(* client's commands, over a management server where others come and go.   *)
(*                                                                         *)
(* Every message goes to every state handler and every view in one update  *)
(* (application.rs:87), so one Deliver action changes audio and room       *)
(* together.  What an update returns are Tasks: each is spawned on the     *)
(* runtime's thread pool and delivers its message when it is done, so the  *)
(* bus is a set and not a queue.  Only the SDK's event stream is ONE task, *)
(* whose messages arrive in order.                                         *)
(*                                                                         *)
(* The connection comes up at the first try and does not close: SdkClient  *)
(* is about the others.  Chat, statistics and the settings page's level    *)
(* meter are not modelled.                                                 *)
(***************************************************************************)
EXTENDS RoomView

CONSTANTS
    Me,             \* the id the server gives the user of this application
    Devices,        \* input and output devices
    Rate,           \* Rate[d]: the sample rate of device d
    NoDevice,       \* None, of a stream or a device
    FirstDevice,    \* the device the configuration starts with
    MaxClicks,      \* bound: clicks on the two buttons of the room, and Escape
    MaxNews,        \* bound: what other users do
    MaxUpsets,      \* bound: devices selected, devices that fail to open, and
                    \* requests that are given up, taken together
    Impatient       \* may Escape be pressed before the login is complete?

ASSUME DesktopAssumption ==
    /\ Me \in UserIds /\ NoDevice \notin Devices /\ FirstDevice \in Devices
    /\ Rate \in [Devices -> Nat \ {0}] /\ NameLengths # {}
    /\ {MaxClicks, MaxNews, MaxUpsets} \subseteq Nat /\ Impatient \in BOOLEAN

VARIABLES
    server,     \* what the management server knows of each user
    channel,    \* its broadcasts that Me's handler has not forwarded yet
    events,     \* the SDK's event stream
    session,    \* how far client.connect() has come
    bus,        \* messages and futures of the runtime that have not run yet
    outbox,     \* packets the SDK has enqueued for the server
    waiting,    \* the commands that wait for a response
    view,       \* current_view, the settings aside
    room,       \* the RoomPage
    audio,      \* the AudioManagerState and its AudioManager
    config,     \* the devices of the AppConfig
    clicks, spent,  \* the bounded counters
    failed,     \* did a device ever fail to open?
    strained    \* has a request timed out, or the user clicked too soon?

desktopVars == <<server, channel, events, session, bus, outbox, waiting, view,
                 room, audio, config, clicks, spent, failed, strained>>

-----------------------------------------------------------------------------
(* The state.                                                               *)

Ids == 0..MaxUsers
Rates == {Rate[d] : d \in Devices}
Maybe(S) == S \cup {NoDevice}
SomeName == CHOOSE n \in NameLengths : TRUE

RoomPage == [user_id : Ids, muted : BOOLEAN, participants : Participants]
Audio == [user_id : Ids, users_in_voice : SUBSET Ids,
          input_stream : Maybe(Devices), is_input_muted : BOOLEAN,
          output_streams : [Ids -> Maybe(Devices)],
          output_decoders : [Ids -> Rates \cup {0}]]

\* Messages on the bus, and futures ("Call", "SendMute") that the runtime has
\* yet to run.  n is the click each one goes back to.
Kinds == {"Join", "Leave"}
Message ==
    [what : {"Connected", "SwitchView"}]
    \cup [what : {"MuteInput", "SendMute"}, n : 1..MaxClicks, muted : BOOLEAN]
    \cup [what : {"Execute", "Call"}, n : 1..MaxClicks, kind : Kinds]
    \cup [what : {"Result"}, n : 1..MaxClicks, kind : Kinds, ok : BOOLEAN]
\* Packets to the server: the requests and the mute event.
Packet == {m \in Message : m.what \in {"Call", "SendMute"}}
ListEvent == {e \in Response : e.type = "LoginResponse" /\ e.id = Me}

Muting(what, n, muted) == [what |-> what, n |-> n, muted |-> muted]
Command(what, n, kind) == [what |-> what, n |-> n, kind |-> kind]
Result(n, kind, ok) == [what |-> "Result", n |-> n, kind |-> kind, ok |-> ok]
Simple(what) == [what |-> what]

NoSession ==
    [user_id |-> 0, users_in_voice |-> {}, input_stream |-> NoDevice,
     is_input_muted |-> FALSE, output_streams |-> [u \in Ids |-> NoDevice],
     output_decoders |-> [u \in Ids |-> 0]]

DesktopInit ==
    /\ server \in [UserIds -> {NoInfo, Info(SomeName, FALSE, FALSE),
                               Info(SomeName, TRUE, FALSE)}]
    /\ server[Me] = NoInfo
    /\ channel = <<>> /\ events = <<>> /\ session = "away"
    /\ bus = {} /\ outbox = <<>> /\ waiting = {} /\ view = "Login"
    /\ room = [user_id |-> 0, muted |-> FALSE, participants |-> Nobody]
    /\ audio = NoSession
    /\ config = [input |-> FirstDevice, output |-> FirstDevice]
    /\ clicks = 0 /\ failed = FALSE /\ strained = FALSE
    /\ spent = [news |-> 0, upsets |-> 0]

-----------------------------------------------------------------------------
(* The AudioManager.  A device that cannot be opened leaves what was there. *)

InVoice(a) == a.user_id \in a.users_in_voice

StartRecording(a, opens) ==
    IF opens THEN [a EXCEPT !.input_stream = config.input] ELSE a
StopRecording(a) == [a EXCEPT !.input_stream = NoDevice]

\* create_output_stream_for_user for each of users: the decoder comes first,
\* the stream only if the device opens (not for those in broken).
CreateOutputs(a, users, device, broken) ==
    [a EXCEPT
        !.output_decoders = [u \in Ids |-> IF u \in users THEN Rate[device]
                                                          ELSE @[u]],
        !.output_streams = [u \in Ids |-> IF u \in users \ broken
                                          THEN device ELSE @[u]]]
RemoveOutput(a, u) ==
    [a EXCEPT !.output_streams[u] = NoDevice, !.output_decoders[u] = 0]
RemoveAllOutputs(a) ==
    [a EXCEPT !.output_streams = [u \in Ids |-> NoDevice],
              !.output_decoders = [u \in Ids |-> 0]]

Upset ==
    /\ spent.upsets < MaxUpsets
    /\ spent' = [spent EXCEPT !.upsets = @ + 1]

\* A voice packet from u is decoded and played.
Plays(u) == audio.output_decoders[u] # 0 /\ audio.output_streams[u] # NoDevice

\* Whether a device fails in this update.
Fails(fails) ==
    /\ failed' = (failed \/ fails)
    /\ IF fails THEN Upset ELSE UNCHANGED spent

-----------------------------------------------------------------------------
(* The management server, as far as this application can tell.              *)

serverIdle == <<events, session, bus, outbox, waiting, view, room, audio,
                config, clicks, failed, strained>>

Broadcasts(news) ==
    channel' = IF session = "away" THEN channel ELSE channel \o news

\* Another user logs in, leaves, or enters or exits voice; what others tell of
\* their microphones is RoomView's matter.
OtherActs(u) ==
    /\ u # Me
    /\ spent.news < MaxNews
    /\ spent' = [spent EXCEPT !.news = @ + 1]
    /\ \/ /\ server[u] = NoInfo
          /\ server' = [server EXCEPT ![u] = Info(SomeName, FALSE, FALSE)]
          /\ Broadcasts(<<UserJoinedServer(u, SomeName)>>)
       \/ /\ server[u] # NoInfo
          /\ server' = [server EXCEPT ![u] = NoInfo]
          /\ Broadcasts(<<PlainNews("UserLeftServer", u)>>
                        \o IF server[u].in_voice
                           THEN <<PlainNews("UserLeftVoice", u)>> ELSE <<>>)
       \/ \E v \in BOOLEAN :
             /\ server[u] # NoInfo
             /\ server' = [server EXCEPT ![u] = Info(@.username, v, FALSE)]
             /\ Broadcasts(<<PlainNews(IF v THEN "UserJoinedVoice"
                                            ELSE "UserLeftVoice", u)>>)
    /\ UNCHANGED serverIdle

\* client.connect(): the connection, the login, the voice authentication.
Connects ==
    /\ session = "away"
    /\ session' = "connected"
    /\ UNCHANGED <<server, channel, events, bus, outbox, waiting, view, room,
                   audio, config, clicks, spent, failed, strained>>
LogsIn ==
    /\ session = "connected"
    /\ session' = "answered"
    /\ server' = [server EXCEPT ![Me].username = SomeName]
    /\ events' = Append(events, LoginResponse(0, Me, Token[Me], server'))
    /\ UNCHANGED <<channel, bus, outbox, waiting, view, room, audio, config,
                   clicks, spent, failed, strained>>
ConnectReturns ==
    /\ session = "answered"
    /\ session' = "returned"
    /\ bus' = bus \cup {Simple("Connected")}
    /\ UNCHANGED <<server, channel, events, outbox, waiting, view, room, audio,
                   config, clicks, spent, failed, strained>>

\* Me's handler forwards a broadcast, which the SDK turns into an event.
ForwardNews ==
    /\ channel # <<>>
    /\ events' = Append(events, Head(channel))
    /\ channel' = Tail(channel)
    /\ UNCHANGED <<server, session, bus, outbox, waiting, view, room, audio,
                   config, clicks, spent, failed, strained>>

\* Me's handler carries out Me's next packet.  The response completes the
\* command unless it was given up.
ServerHandles ==
    /\ session # "away" /\ outbox # <<>>
    /\ outbox' = Tail(outbox)
    /\ LET p == Head(outbox) IN
       \/ /\ p.what = "SendMute"
          /\ server' = [server EXCEPT ![Me].is_muted = p.muted]
          /\ UNCHANGED <<waiting, bus>>
       \/ /\ p.what = "Call"
          /\ server' = [server EXCEPT ![Me] =
                          Info(@.username, p.kind = "Join", FALSE)]
          /\ waiting' = waiting \ {p.n}
          /\ bus' = IF p.n \in waiting
                    THEN bus \cup {Result(p.n, p.kind, TRUE)} ELSE bus
    /\ UNCHANGED <<channel, events, session, view, room, audio, config, clicks,
                   spent, failed, strained>>

-----------------------------------------------------------------------------
(* The user.                                                                *)

Busy == bus # {} \/ waiting # {} \/ outbox # <<>>
InVoiceShown == room.user_id \in UserIds /\ room.participants[room.user_id].in_voice


\* The user clicks a button of the room.  A click is premature while an
\* earlier one still has consequences to come, or before the room shows Me.
Clicks ==
    /\ view = "Room"
    /\ clicks < MaxClicks
    /\ clicks' = clicks + 1
    /\ strained' = (strained \/ Busy \/ room.participants[Me] = NoInfo)
    /\ UNCHANGED <<server, channel, events, session, outbox, waiting, view,
                   audio, config, spent, failed>>

\* The list's entry for Me, if there is one.
Own(r) == r.participants[r.user_id]
WithOwn(r, info) ==
    IF r.user_id \in UserIds /\ Own(r) # NoInfo
    THEN [r EXCEPT !.participants[r.user_id] = info] ELSE r

\* The mute switch is shown only in voice.
MuteToggle ==
    /\ Clicks
    /\ InVoiceShown
    /\ LET muted == ~room.muted IN
       /\ room' = WithOwn([room EXCEPT !.muted = muted],
                          [Own(room) EXCEPT !.is_muted = muted])
       /\ bus' = bus \cup {Muting("MuteInput", clicks', muted)}
JoinLeaveToggle ==
    /\ Clicks
    /\ bus' = bus \cup {Command("Execute", clicks',
                                IF InVoiceShown THEN "Leave" ELSE "Join")}
    /\ UNCHANGED room

\* Every page gets every key, so the settings page answers Escape by opening
\* the room whatever page is shown: the login page, too.
PressEscape ==
    /\ view # "Login" \/ Impatient
    /\ clicks < MaxClicks
    /\ clicks' = clicks + 1
    /\ bus' = bus \cup {Simple("SwitchView")}
    /\ UNCHANGED <<server, channel, events, session, outbox, waiting, view,
                   room, audio, config, spent, failed, strained>>

\* In the settings.  ConfigState goes first: if it does not find the device
\* the configuration stays, and the audio manager reopens the old one.
\* Mutant: the device found nowhere is stored as none.
ChosenOrNone(d, found, old) == IF found THEN d ELSE NoDevice
Chosen(d, found, old) == IF found THEN d ELSE old

Selects(fails) ==
    /\ view = "Room"
    /\ Upset
    /\ failed' = (failed \/ fails)
    /\ UNCHANGED <<server, channel, events, session, bus, outbox, waiting,
                   view, room, clicks, strained>>
SelectInputDevice(d) == \E found, opens \in BOOLEAN :
    /\ Selects(~found \/ ~opens)
    /\ config' = [config EXCEPT !.input = Chosen(d, found, @)]
    /\ audio' = IF ~InVoice(audio) THEN audio
                ELSE [audio EXCEPT !.input_stream =
                        IF opens THEN config'.input ELSE NoDevice]
\* Mutant: the audio manager comes before ConfigState in state_handlers.
SelectOutputDeviceAudioFirst(d) == \E found \in BOOLEAN, broken \in SUBSET Ids :
    /\ Selects(~found \/ broken # {})
    /\ broken \subseteq audio.users_in_voice
    /\ config' = [config EXCEPT !.output = Chosen(d, found, @)]
    /\ audio' = IF ~InVoice(audio) THEN audio
                ELSE CreateOutputs(RemoveAllOutputs(audio),
                                   audio.users_in_voice \ {audio.user_id},
                                   config.output, broken)
SelectOutputDevice(d) == \E found \in BOOLEAN, broken \in SUBSET Ids :
    /\ Selects(~found \/ broken # {})
    /\ broken \subseteq audio.users_in_voice
    /\ config' = [config EXCEPT !.output = Chosen(d, found, @)]
    /\ audio' = IF ~InVoice(audio) THEN audio
                ELSE CreateOutputs(RemoveAllOutputs(audio),
                                   audio.users_in_voice \ {audio.user_id},
                                   config'.output, broken)

-----------------------------------------------------------------------------
(* The message bus: Application::update for each message.                   *)

\* The two futures: the SDK enqueues a packet, and Join and Leave wait for
\* the response.
RunFuture(f) ==
    /\ f.what \in {"Call", "SendMute"}
    /\ bus' = bus \ {f}
    /\ outbox' = Append(outbox, f)
    /\ waiting' = IF f.what = "Call" THEN waiting \cup {f.n} ELSE waiting
    /\ UNCHANGED <<server, channel, events, session, view, room, audio, config,
                   clicks, spent, failed, strained>>

\* wait_for_response gives up.
TimesOut(c) ==
    /\ Upset
    /\ waiting' = waiting \ {c}
    /\ \E kind \in Kinds :
          /\ \E i \in 1..Len(outbox) : outbox[i] = Command("Call", c, kind)
          /\ bus' = bus \cup {Result(c, kind, FALSE)}
    /\ strained' = TRUE
    /\ UNCHANGED <<server, channel, events, session, outbox, view, room, audio,
                   config, clicks, failed>>

delivering == <<server, channel, events, session, outbox, waiting, config,
                clicks, strained>>

DeliverConnected(m) ==
    /\ m.what = "Connected"
    /\ audio' = [audio EXCEPT !.user_id = Me]
    /\ bus' = (bus \ {m}) \cup {Simple("SwitchView")}
    /\ UNCHANGED <<delivering, view, room, spent, failed>>
DeliverSwitchView(m) ==
    /\ m.what = "SwitchView"
    /\ view' = "Room"
    /\ bus' = bus \ {m}
    /\ UNCHANGED <<delivering, room, audio, spent, failed>>
DeliverMuteInput(m) ==
    /\ m.what = "MuteInput"
    /\ audio' = [audio EXCEPT !.is_input_muted = m.muted]
    /\ bus' = (bus \ {m}) \cup {Muting("SendMute", m.n, m.muted)}
    /\ UNCHANGED <<delivering, view, room, spent, failed>>
DeliverExecute(m) ==
    /\ m.what = "Execute"
    /\ bus' = (bus \ {m}) \cup {Command("Call", m.n, m.kind)}
    /\ UNCHANGED <<delivering, view, room, audio, spent, failed>>

\* A result that is an error is only logged.
Joined(a, opens, broken) ==
    LET streams == CreateOutputs(StartRecording(a, opens), a.users_in_voice,
                                 config.output, broken)
    IN [streams EXCEPT !.users_in_voice = @ \cup {a.user_id}]
\* Mutants: the microphone stays on; the user's own entry stays.
LeftRecording(a) ==
    [RemoveAllOutputs(a) EXCEPT !.users_in_voice = @ \ {a.user_id}]
LeftListed(a) == RemoveAllOutputs(StopRecording(a))
Left(a) ==
    [RemoveAllOutputs(StopRecording(a)) EXCEPT !.users_in_voice = @ \ {a.user_id}]
DeliverResult(m) ==
    /\ m.what = "Result"
    /\ bus' = bus \ {m}
    /\ IF ~m.ok THEN UNCHANGED <<room, audio, spent, failed>>
       ELSE /\ room' = WithOwn(room, Info(Own(room).username, m.kind = "Join", FALSE))
            /\ \/ /\ m.kind = "Join"
                  /\ \E opens \in BOOLEAN, broken \in SUBSET audio.users_in_voice :
                        /\ Fails(~opens \/ broken # {})
                        /\ audio' = Joined(audio, opens, broken)
               \/ /\ m.kind = "Leave"
                  /\ audio' = Left(audio)
                  /\ UNCHANGED <<spent, failed>>
    /\ UNCHANGED <<delivering, view>>

\* ServerEventReceived.  The audio manager does not look at the list.
HearJoin(a, u, broken) ==
    LET with == [a EXCEPT !.users_in_voice = @ \cup {u}]
    IN IF InVoice(with) THEN CreateOutputs(with, {u}, config.output, broken) ELSE with
\* Mutant: what happens while Me is not in voice is not followed.
HearLeaveInVoice(a, u) ==
    IF InVoice(a) THEN [RemoveOutput(a, u) EXCEPT !.users_in_voice = @ \ {u}] ELSE a
HearLeave(a, u) ==
    [(IF InVoice(a) THEN RemoveOutput(a, u) ELSE a)
        EXCEPT !.users_in_voice = @ \ {u}]
ReceiveEvent(r, e) ==
    IF e.type = "LoginResponse"
    THEN [r EXCEPT !.user_id = e.id, !.participants = e.participants]
    ELSE [r EXCEPT !.participants = ApplyNews(@, e)]

DeliverEvent ==
    /\ events # <<>>
    /\ events' = Tail(events)
    /\ LET e == Head(events) IN
       /\ room' = ReceiveEvent(room, e)
       /\ \/ /\ e.type = "UserJoinedVoice"
             /\ \E broken \in SUBSET {e.user_id} :
                   /\ Fails(broken # {})
                   /\ audio' = HearJoin(audio, e.user_id, broken)
          \/ /\ e.type = "UserLeftVoice"
             /\ audio' = HearLeave(audio, e.user_id)
             /\ UNCHANGED <<spent, failed>>
          \/ /\ e.type \notin {"UserJoinedVoice", "UserLeftVoice"}
             /\ UNCHANGED <<audio, spent, failed>>
    /\ UNCHANGED <<server, channel, session, bus, outbox, waiting, view, config,
                   clicks, strained>>

-----------------------------------------------------------------------------
Deliver(m) ==
    \/ DeliverConnected(m) \/ DeliverSwitchView(m) \/ DeliverMuteInput(m)
    \/ DeliverExecute(m) \/ DeliverResult(m)
DesktopNext ==
    \/ \E u \in UserIds : OtherActs(u)
    \/ Connects \/ LogsIn \/ ConnectReturns \/ ForwardNews \/ ServerHandles
    \/ MuteToggle \/ JoinLeaveToggle \/ PressEscape
    \/ \E d \in Devices : SelectInputDevice(d) \/ SelectOutputDevice(d)
    \/ \E m \in bus : RunFuture(m) \/ Deliver(m)
    \/ \E c \in waiting : TimesOut(c)
    \/ DeliverEvent
DesktopSpec == DesktopInit /\ [][DesktopNext]_desktopVars

-----------------------------------------------------------------------------
(* Properties.                                                              *)

\* Every variable keeps its type.
DesktopTypeOK ==
    /\ server \in Participants
    /\ channel \in Seq(News) /\ events \in Seq(News \cup ListEvent)
    /\ session \in {"away", "connected", "answered", "returned"}
    /\ bus \subseteq Message /\ outbox \in Seq(Packet)
    /\ waiting \subseteq 1..MaxClicks /\ view \in {"Login", "Room"}
    /\ room \in RoomPage /\ audio \in Audio
    /\ config \in [input : Devices, output : Devices]
    /\ clicks \in 0..MaxClicks
    /\ spent \in [news : 0..MaxNews, upsets : 0..MaxUpsets]
    /\ failed \in BOOLEAN /\ strained \in BOOLEAN

\* Whatever order clicks, results and events come in, the microphone and the
\* loudspeaker are on only in voice; and if no device ever failed they are
\* then on, the loudspeaker for each of the others the manager knows to be in
\* voice and for nobody else.
StreamsFollowVoice ==
    /\ \A u \in Ids : audio.output_streams[u] # NoDevice =>
          InVoice(audio) /\ u \in audio.users_in_voice
    /\ audio.input_stream # NoDevice => InVoice(audio)
    /\ ~failed /\ InVoice(audio) =>
          /\ audio.input_stream # NoDevice
          /\ \A u \in audio.users_in_voice \ {audio.user_id} : Plays(u)

\* What plays or records does so on the selected device, and a decoder
\* resamples to the rate of the device its samples are played on.
StreamsCurrent ==
    /\ audio.input_stream \in {config.input, NoDevice}
    /\ \A u \in Ids : audio.output_streams[u] # NoDevice =>
          /\ audio.output_streams[u] = config.output
          /\ audio.output_decoders[u] = Rate[config.output]

\* For a user who waits for one click to be over before the next, and whose
\* requests are answered in time, room, audio manager and server agree: on who
\* is in voice, and the room's entry of the user is the server's.  The switch
\* shows what the microphone does; and whom the server shows as muted is so
\* (the converse fails: a mute outlives leaving and joining here only).
AtRest == ~Busy /\ view = "Room" /\ room.participants[Me] # NoInfo /\ ~strained
RoomTellsTruth == AtRest =>
    /\ InVoiceShown <=> InVoice(audio)
    /\ room.participants[Me] = server[Me]
    /\ room.muted = audio.is_input_muted
    /\ server[Me].is_muted => audio.is_input_muted

\* Once all news has arrived, nobody is played who is not in voice, however
\* he went: leaving voice, or the server.
NoGhostStreams ==
    (session # "away" /\ channel = <<>> /\ events = <<>>) =>
        \A u \in audio.users_in_voice \ {Me} : server[u].in_voice

\* Me hears everyone in voice: on joining, the manager is to "create output
\* streams for all users currently in voice" (state/audio_manager.rs:44).
EveryoneHeard ==
    (AtRest /\ channel = <<>> /\ events = <<>> /\ ~failed
        /\ InVoice(audio)) =>
        \A u \in UserIds \ {Me} : server[u].in_voice => Plays(u)
=============================================================================
