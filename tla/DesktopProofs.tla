---------------------------- MODULE DesktopProofs ----------------------------
(* Theorems about the desktop application's audio manager.                  *)
EXTENDS Desktop, TLAPS

\* What others do, as Me's handler broadcasts it: never anything about Me.
OthersNews == {e \in News : e.user_id \in UserIds \ {Me}}
OthersOnly == channel \in Seq(OthersNews) /\ events \in Seq(OthersNews \cup ListEvent)

\* Both properties of the streams, of an audio manager a with configuration c,
\* where f says whether a device ever failed.
AudioOK(a, c, f) ==
    /\ a \in Audio /\ a.user_id \in {0, Me} /\ a.users_in_voice \subseteq UserIds
    /\ \A u \in Ids : a.output_streams[u] # NoDevice =>
          /\ InVoice(a) /\ u \in a.users_in_voice
          /\ a.output_streams[u] = c.output
          /\ a.output_decoders[u] = Rate[c.output]
    /\ a.input_stream # NoDevice => InVoice(a) /\ a.input_stream = c.input
    /\ ~f /\ InVoice(a) =>
          /\ a.input_stream # NoDevice
          /\ \A u \in a.users_in_voice \ {a.user_id} : a.output_streams[u] # NoDevice

\* Until connect() has returned the audio manager does not know its user, and
\* the room, with its buttons, is not open.
BeforeRoom ==
    audio.user_id = 0 =>
        /\ view = "Login" /\ bus \subseteq {Simple("Connected")}
        /\ outbox = <<>> /\ waiting = {} /\ Me \notin audio.users_in_voice

DesktopInv == DesktopTypeOK /\ OthersOnly /\ AudioOK(audio, config, failed) /\ BeforeRoom

-----------------------------------------------------------------------------
(* The operators of the audio manager keep AudioOK.                         *)

Configs == [input : Devices, output : Devices]

LEMMA DevicesAreSome ==
    /\ 0 \in Ids /\ Me \in Ids /\ Me # 0 /\ UserIds \subseteq Ids
    /\ \A d \in Devices : d # NoDevice /\ Rate[d] \in Rates /\ Rate[d] # 0
BY DesktopAssumption, ProtocolAssumption DEF Ids, UserIds, Rates

LEMMA InVoiceIsMe ==
    ASSUME NEW a, NEW c, NEW f, AudioOK(a, c, f)
    PROVE  InVoice(a) <=> a.user_id = Me /\ Me \in a.users_in_voice
BY DevicesAreSome DEF AudioOK, InVoice, UserIds

LEMMA JoinedKeeps ==
    ASSUME AudioOK(audio, config, failed), config \in Configs, audio.user_id = Me,
           NEW opens \in BOOLEAN, NEW broken \in SUBSET audio.users_in_voice,
           NEW f \in BOOLEAN, f = (failed \/ ~opens \/ broken # {})
    PROVE  /\ AudioOK(Joined(audio, opens, broken), config, f)
           /\ Joined(audio, opens, broken).user_id = Me
<1> DEFINE b == Joined(audio, opens, broken)
<1>1. audio \in Audio /\ audio.users_in_voice \subseteq UserIds /\ config.input \in Devices
      /\ config.output \in Devices /\ Me \in UserIds
  BY DesktopAssumption DEF AudioOK, Configs
<1>2. /\ b.user_id = Me
      /\ b.users_in_voice = audio.users_in_voice \cup {Me}
      /\ b.input_stream = IF opens THEN config.input ELSE audio.input_stream
      /\ b.is_input_muted = audio.is_input_muted
      /\ b.output_streams = [u \in Ids |-> IF u \in audio.users_in_voice \ broken
                             THEN config.output ELSE audio.output_streams[u]]
      /\ b.output_decoders = [u \in Ids |-> IF u \in audio.users_in_voice
                             THEN Rate[config.output] ELSE audio.output_decoders[u]]
  BY <1>1 DEF Joined, CreateOutputs, StartRecording, Audio
<1>3. b \in Audio
  BY <1>1, <1>2, DevicesAreSome DEF Joined, CreateOutputs, StartRecording, Audio, Maybe
<1>4. InVoice(b)
  BY <1>2 DEF InVoice
<1>5. AudioOK(b, config, f)
  <2> HIDE DEF b
  <2> QED BY <1>1, <1>2, <1>3, <1>4, DevicesAreSome DEF AudioOK
<1> QED BY <1>2, <1>5

LEMMA LeftKeeps ==
    ASSUME NEW f, AudioOK(audio, config, f), audio.user_id = Me
    PROVE  AudioOK(Left(audio), config, f) /\ Left(audio).user_id = Me
<1> DEFINE b == Left(audio)
<1>1. audio \in Audio /\ audio.users_in_voice \subseteq UserIds
  BY DEF AudioOK
<1>2. /\ b.user_id = Me /\ b.users_in_voice = audio.users_in_voice \ {Me}
      /\ b.input_stream = NoDevice /\ b.is_input_muted = audio.is_input_muted
      /\ b.output_streams = [u \in Ids |-> NoDevice]
      /\ b.output_decoders = [u \in Ids |-> 0]
  BY <1>1 DEF Left, RemoveAllOutputs, StopRecording, Audio
<1>3. b \in Audio
  BY <1>1, <1>2, DevicesAreSome DEF Left, RemoveAllOutputs, StopRecording, Audio, Maybe
<1>4. ~InVoice(b)
  BY <1>2 DEF InVoice
<1>5. AudioOK(b, config, f)
  <2> HIDE DEF b
  <2> QED BY <1>1, <1>2, <1>3, <1>4 DEF AudioOK
<1> QED BY <1>2, <1>5

LEMMA HearJoinKeeps ==
    ASSUME AudioOK(audio, config, failed), config \in Configs,
           NEW u \in UserIds \ {Me}, NEW broken \in SUBSET {u},
           NEW f \in BOOLEAN, f = (failed \/ broken # {})
    PROVE  /\ AudioOK(HearJoin(audio, u, broken), config, f)
           /\ HearJoin(audio, u, broken).user_id = audio.user_id
           /\ HearJoin(audio, u, broken).users_in_voice = audio.users_in_voice \cup {u}
<1> DEFINE b == HearJoin(audio, u, broken)
           with == [audio EXCEPT !.users_in_voice = @ \cup {u}]
<1>1. audio \in Audio /\ audio.users_in_voice \subseteq UserIds /\ config.output \in Devices
      /\ u # 0 /\ audio.user_id \in {0, Me}
  BY DEF AudioOK, Configs, UserIds
<1>2. /\ with \in Audio /\ with.user_id = audio.user_id
      /\ with.users_in_voice = audio.users_in_voice \cup {u}
      /\ with.input_stream = audio.input_stream
      /\ with.output_streams = audio.output_streams
      /\ with.output_decoders = audio.output_decoders
  BY <1>1, DevicesAreSome DEF Audio
<1>3. InVoice(with) <=> InVoice(audio)
  BY <1>1, <1>2 DEF InVoice
<1> HIDE DEF with
<1>4. CASE ~InVoice(with)
  <2>1. b = with
    BY <1>4 DEF HearJoin, with
  <2>2. AudioOK(with, config, f)
    BY <1>1, <1>2, <1>3, <1>4 DEF AudioOK
  <2> QED BY <2>1, <2>2, <1>2
<1>5. CASE InVoice(with)
  <2>1. b = CreateOutputs(with, {u}, config.output, broken)
    BY <1>5 DEF HearJoin, with
  <2>2. /\ b.user_id = with.user_id /\ b.users_in_voice = with.users_in_voice
        /\ b.input_stream = with.input_stream
        /\ b.output_streams = [v \in Ids |-> IF v \in {u} \ broken
                               THEN config.output ELSE with.output_streams[v]]
        /\ b.output_decoders = [v \in Ids |-> IF v \in {u}
                               THEN Rate[config.output] ELSE with.output_decoders[v]]
    BY <1>2, <2>1 DEF CreateOutputs, Audio
  <2>3. b \in Audio
    <3>1. /\ [v \in Ids |-> IF v \in {u} \ broken THEN config.output
                          ELSE with.output_streams[v]] \in [Ids -> Maybe(Devices)]
          /\ [v \in Ids |-> IF v \in {u} THEN Rate[config.output]
                          ELSE with.output_decoders[v]] \in [Ids -> Rates \cup {0}]
      BY <1>1, <1>2, DevicesAreSome DEF Audio, Maybe
    <3>2. CreateOutputs(with, {u}, config.output, broken) \in Audio
      BY <1>2, <3>1 DEF CreateOutputs, Audio
    <3> QED BY <2>1, <3>2
  <2>4. InVoice(b)
    BY <1>5, <2>2 DEF InVoice
  <2>5. AudioOK(b, config, f)
    <3> HIDE DEF b
    <3>1. \A v \in Ids : b.output_streams[v] # NoDevice =>
            /\ v \in b.users_in_voice /\ b.output_streams[v] = config.output
            /\ b.output_decoders[v] = Rate[config.output]
      BY <1>1, <1>2, <2>2 DEF AudioOK
    <3>2. ~f => /\ b.input_stream # NoDevice
                /\ \A v \in b.users_in_voice \ {b.user_id} : b.output_streams[v] # NoDevice
      <4> SUFFICES ASSUME ~f PROVE /\ b.input_stream # NoDevice
                                   /\ \A v \in b.users_in_voice \ {b.user_id} :
                                        b.output_streams[v] # NoDevice
        OBVIOUS
      <4>1. ~failed /\ broken = {}
        OBVIOUS
      <4>2. /\ audio.input_stream # NoDevice
            /\ \A v \in audio.users_in_voice \ {audio.user_id} :
                 audio.output_streams[v] # NoDevice
        BY <4>1, <1>3, <1>5 DEF AudioOK
      <4>3. ASSUME NEW v \in b.users_in_voice \ {b.user_id}
            PROVE  b.output_streams[v] # NoDevice
        <5>1. v \in Ids /\ (v = u \/ v \in audio.users_in_voice \ {audio.user_id})
          BY <1>1, <1>2, <2>2, DevicesAreSome
        <5> QED BY <1>1, <1>2, <2>2, <4>1, <4>2, <5>1, DevicesAreSome
      <4> QED BY <1>2, <2>2, <4>2, <4>3
    <3> QED BY <1>1, <1>2, <1>3, <1>5, <2>2, <2>3, <2>4, <3>1, <3>2 DEF AudioOK
  <2> QED BY <1>2, <2>2, <2>5
<1> QED BY <1>4, <1>5

LEMMA HearLeaveKeeps ==
    ASSUME NEW f, AudioOK(audio, config, f), NEW u \in UserIds \ {Me}
    PROVE  /\ AudioOK(HearLeave(audio, u), config, f)
           /\ HearLeave(audio, u).user_id = audio.user_id
           /\ HearLeave(audio, u).users_in_voice = audio.users_in_voice \ {u}
<1> DEFINE b == HearLeave(audio, u)
<1>1. audio \in Audio /\ audio.users_in_voice \subseteq UserIds /\ u # 0 /\ u \in Ids
      /\ audio.user_id \in {0, Me}
  BY DevicesAreSome DEF AudioOK, UserIds
<1>2. /\ b \in Audio /\ b.user_id = audio.user_id
      /\ b.users_in_voice = audio.users_in_voice \ {u}
      /\ b.input_stream = audio.input_stream
  BY <1>1, DevicesAreSome DEF HearLeave, RemoveOutput, Audio, Maybe
<1>3. InVoice(b) <=> InVoice(audio)
  BY <1>1, <1>2 DEF InVoice
<1>4. \A v \in Ids : /\ v # u => /\ b.output_streams[v] = audio.output_streams[v]
                                 /\ b.output_decoders[v] = audio.output_decoders[v]
                     /\ v = u /\ InVoice(audio) => b.output_streams[v] = NoDevice
                     /\ ~InVoice(audio) => b.output_streams[v] = audio.output_streams[v]
  BY <1>1 DEF HearLeave, RemoveOutput, Audio
<1>5. AudioOK(b, config, f)
  <2> HIDE DEF b
  <2> QED BY <1>1, <1>2, <1>3, <1>4, DevicesAreSome DEF AudioOK
<1> QED BY <1>2, <1>5

-----------------------------------------------------------------------------
(* Every step keeps DesktopInv.                                             *)

LEMMA SequenceParts ==
    ASSUME NEW S, NEW s \in Seq(S), s # <<>>
    PROVE  Head(s) \in S /\ Tail(s) \in Seq(S)
OBVIOUS

LEMMA NamesAreNames ==
    /\ SomeName \in Names /\ SomeName \in NameLengths
    /\ \A voice, muted \in BOOLEAN : Info(SomeName, voice, muted) \in ParticipantInfo
    /\ NoInfo \in ParticipantInfo
<1>1. \E n \in NameLengths : TRUE
  BY DesktopAssumption
<1>2. SomeName \in NameLengths
  BY <1>1, Zenon DEF SomeName
<1> QED BY <1>2 DEF Names, Info, NoInfo, ParticipantInfo

LEMMA BoundsAreNaturals == MaxClicks \in Nat /\ MaxNews \in Nat /\ MaxUpsets \in Nat
BY DesktopAssumption

LEMMA StreamsAlone ==
    AudioOK(audio, config, failed) /\ UNCHANGED <<audio, config, failed>>
        => AudioOK(audio, config, failed)'
BY DEF AudioOK, InVoice, Audio, Ids, Rates, Maybe

LEMMA DesktopInitially == DesktopInit => DesktopInv
<1> SUFFICES ASSUME DesktopInit PROVE DesktopInv
  OBVIOUS
<1> USE DEF DesktopInit
<1>1. audio \in Audio /\ room \in RoomPage
  BY DevicesAreSome, NamesAreNames, ProtocolAssumption
  DEF NoSession, Audio, Maybe, RoomPage, Participants, Nobody, Ids
<1>2. AudioOK(audio, config, failed)
  BY <1>1, DevicesAreSome DEF AudioOK, NoSession, InVoice
<1>3. server \in Participants
  BY NamesAreNames DEF Participants
<1>4. DesktopTypeOK
  <2>1. /\ clicks \in 0..MaxClicks
        /\ spent \in [news : 0..MaxNews, upsets : 0..MaxUpsets]
    BY BoundsAreNaturals
  <2>2. config \in [input : Devices, output : Devices]
    BY DesktopAssumption
  <2>3. /\ channel \in Seq(News) /\ events \in Seq(News \cup ListEvent)
        /\ outbox \in Seq(Packet) /\ bus \subseteq Message
        /\ waiting \subseteq 1..MaxClicks
    OBVIOUS
  <2> QED BY <1>1, <1>3, <2>1, <2>2, <2>3 DEF DesktopTypeOK
<1>5. OthersOnly /\ BeforeRoom
  BY DEF OthersOnly, BeforeRoom, NoSession
<1> QED BY <1>2, <1>4, <1>5 DEF DesktopInv

\* What others do and what Me's connection does leave the audio manager alone.
LEMMA ServerKeeps ==
    ASSUME DesktopInv,
           \/ \E u \in UserIds : OtherActs(u)
           \/ Connects \/ LogsIn \/ ConnectReturns \/ ForwardNews \/ ServerHandles
    PROVE  DesktopInv'
<1> USE DEF DesktopInv
<1>0. AudioOK(audio, config, failed)'
  BY StreamsAlone DEF OtherActs, serverIdle, Connects, LogsIn, ConnectReturns,
                      ForwardNews, ServerHandles
<1>1. ASSUME NEW u \in UserIds, OtherActs(u) PROVE DesktopInv'
  <2>1. server' \in Participants
    <3>1. \A v \in BOOLEAN : Info(server[u].username, v, FALSE) \in ParticipantInfo
      BY DEF DesktopTypeOK, Participants, ParticipantInfo, Info
    <3>2. \E x \in ParticipantInfo : server' = [server EXCEPT ![u] = x]
      BY <1>1, <3>1, NamesAreNames DEF OtherActs
    <3> QED BY <3>2 DEF DesktopTypeOK, Participants
  <2>2. spent' \in [news : 0..MaxNews, upsets : 0..MaxUpsets]
    <3>1. spent' = [spent EXCEPT !.news = @ + 1] /\ spent.news < MaxNews
      BY <1>1 DEF OtherActs
    <3> QED BY <3>1, BoundsAreNaturals DEF DesktopTypeOK
  <2>3. channel' \in Seq(OthersNews)
    <3>1. /\ UserJoinedServer(u, SomeName) \in OthersNews
          /\ \A t \in {"UserLeftServer", "UserLeftVoice", "UserJoinedVoice"} :
               PlainNews(t, u) \in OthersNews
      BY <1>1, NamesAreNames, DevicesAreSome
      DEF OtherActs, OthersNews, News, NewsTypes, UserJoinedServer, PlainNews, Names, Ids
    <3> DEFINE left == PlainNews("UserLeftServer", u)
               gone == PlainNews("UserLeftVoice", u)
    <3>2. \/ \E e \in OthersNews : Broadcasts(<<e>>)
          \/ Broadcasts(<<left>> \o (IF server[u].in_voice THEN <<gone>> ELSE <<>>))
      BY <1>1, <3>1 DEF OtherActs
    <3>3. <<left>> \o (IF server[u].in_voice THEN <<gone>> ELSE <<>>) \in Seq(OthersNews)
      BY <3>1
    <3>4. \A e \in OthersNews : <<e>> \in Seq(OthersNews)
      OBVIOUS
    <3>5. \E news \in Seq(OthersNews) : Broadcasts(news)
      <4> HIDE DEF left, gone
      <4> QED BY <3>2, <3>3, <3>4, Zenon
    <3>6. PICK news \in Seq(OthersNews) : Broadcasts(news)
      BY <3>5
    <3>7. channel \in Seq(OthersNews) /\ channel \o news \in Seq(OthersNews)
      BY <3>6 DEF OthersOnly
    <3> QED BY <3>6, <3>7 DEF Broadcasts
  <2>4. channel' \in Seq(News)
    BY <2>3 DEF OthersNews
  <2> QED
    BY <1>0, <1>1, <2>1, <2>2, <2>3, <2>4
    DEF OtherActs, serverIdle, DesktopTypeOK, OthersOnly, BeforeRoom
<1>2. CASE Connects
  BY <1>0, <1>2 DEF Connects, DesktopTypeOK, OthersOnly, BeforeRoom
<1>3. CASE LogsIn
  <2>1. server' \in Participants
    <3>1. [server[Me] EXCEPT !.username = SomeName] \in ParticipantInfo
      BY NamesAreNames, DesktopAssumption DEF DesktopTypeOK, Participants, ParticipantInfo
    <3>2. \E x \in ParticipantInfo : server' = [server EXCEPT ![Me] = x]
      BY <1>3, <3>1 DEF LogsIn
    <3> QED BY <3>2 DEF DesktopTypeOK, Participants
  <2>2. LoginResponse(0, Me, Token[Me], server') \in ListEvent
    BY <2>1, DevicesAreSome, DesktopAssumption, ProtocolAssumption
    DEF LoginResponse, ListEvent, Response, ResponseTypes, Tokens, Ids
  <2>3. /\ events' \in Seq(OthersNews \cup ListEvent)
        /\ events' \in Seq(News \cup ListEvent)
    BY <1>3, <2>2 DEF LogsIn, OthersOnly, DesktopTypeOK
  <2> QED BY <1>0, <1>3, <2>1, <2>3 DEF LogsIn, DesktopTypeOK, OthersOnly, BeforeRoom
<1>4. CASE ConnectReturns
  <2>1. Simple("Connected") \in Message
    BY DEF Simple, Message
  <2> QED BY <1>0, <1>4, <2>1 DEF ConnectReturns, DesktopTypeOK, OthersOnly, BeforeRoom
<1>5. CASE ForwardNews
  <2>1. Head(channel) \in OthersNews /\ channel' \in Seq(OthersNews)
    BY <1>5, SequenceParts DEF ForwardNews, OthersOnly
  <2>2. /\ events' \in Seq(OthersNews \cup ListEvent)
        /\ events' \in Seq(News \cup ListEvent) /\ channel' \in Seq(News)
    BY <1>5, <2>1 DEF ForwardNews, OthersOnly, DesktopTypeOK, OthersNews
  <2> QED BY <1>0, <1>5, <2>1, <2>2 DEF ForwardNews, DesktopTypeOK, OthersOnly, BeforeRoom
<1>6. CASE ServerHandles
  <2> DEFINE p == Head(outbox)
  <2>1. p \in Message /\ p.what \in {"Call", "SendMute"} /\ outbox' \in Seq(Packet)
    BY <1>6, SequenceParts DEF ServerHandles, DesktopTypeOK, Packet
  <2>7. /\ p.what = "SendMute" => p.muted \in BOOLEAN
        /\ p.what = "Call" => p.n \in 1..MaxClicks /\ p.kind \in Kinds
    BY <2>1 DEF Message
  <2>2. server' \in Participants
    <3>1. \A v \in BOOLEAN : /\ Info(server[Me].username, v, FALSE) \in ParticipantInfo
                            /\ [server[Me] EXCEPT !.is_muted = v] \in ParticipantInfo
      BY DesktopAssumption DEF DesktopTypeOK, Participants, ParticipantInfo, Info
    <3>2. \E x \in ParticipantInfo : server' = [server EXCEPT ![Me] = x]
      BY <1>6, <2>1, <2>7, <3>1 DEF ServerHandles
    <3> QED BY <3>2 DEF DesktopTypeOK, Participants
  <2>3. bus' \subseteq Message
    <3>1. p.what = "Call" => Result(p.n, p.kind, TRUE) \in Message
      BY <2>7 DEF Result, Message
    <3> QED BY <1>6, <3>1 DEF ServerHandles, DesktopTypeOK
  <2>4. waiting' \subseteq waiting
    BY <1>6 DEF ServerHandles
  <2>5. BeforeRoom'
    BY <1>6 DEF ServerHandles, BeforeRoom
  <2> QED BY <1>0, <1>6, <2>1, <2>2, <2>3, <2>4, <2>5
          DEF ServerHandles, DesktopTypeOK, OthersOnly
<1> QED BY <1>1, <1>2, <1>3, <1>4, <1>5, <1>6

\* The user's clicks, futures that run, and requests that are given up.
LEMMA UserKeeps ==
    ASSUME DesktopInv, ~Impatient,
           \/ MuteToggle \/ JoinLeaveToggle \/ PressEscape
           \/ \E m \in bus : RunFuture(m)
           \/ \E c \in waiting : TimesOut(c)
    PROVE  DesktopInv'
<1> USE DEF DesktopInv
<1>0. AudioOK(audio, config, failed)'
  BY StreamsAlone DEF MuteToggle, JoinLeaveToggle, PressEscape, Clicks, RunFuture, TimesOut
<1>1. CASE MuteToggle \/ JoinLeaveToggle
  <2>1. clicks' \in 1..MaxClicks /\ view = "Room" /\ Clicks
    BY <1>1, BoundsAreNaturals DEF MuteToggle, JoinLeaveToggle, Clicks, DesktopTypeOK
  <2>2. bus' \subseteq Message
    <3>1. /\ \A b \in BOOLEAN : Muting("MuteInput", clicks', b) \in Message
          /\ \A k \in Kinds : Command("Execute", clicks', k) \in Message
      BY <2>1 DEF Muting, Command, Message
    <3> DEFINE muted == ~room.muted
    <3>2. muted \in BOOLEAN
      BY DEF DesktopTypeOK, RoomPage
    <3> QED BY <1>1, <3>1, <3>2 DEF MuteToggle, JoinLeaveToggle, DesktopTypeOK, Kinds
  <2>3. room' \in RoomPage
    <3>1. CASE JoinLeaveToggle
      BY <3>1 DEF JoinLeaveToggle, DesktopTypeOK
    <3>2. CASE MuteToggle
      <4> DEFINE muted == ~room.muted
                 r == [room EXCEPT !.muted = muted]
                 info == [Own(room) EXCEPT !.is_muted = muted]
      <4>1. r \in RoomPage /\ r.user_id = room.user_id
        BY DEF DesktopTypeOK, RoomPage
      <4>2. room.user_id \in UserIds => info \in ParticipantInfo
        <5>1. room.user_id \in UserIds => Own(room) \in ParticipantInfo
          BY DEF DesktopTypeOK, RoomPage, Own, Participants
        <5>2. muted \in BOOLEAN
          BY DEF DesktopTypeOK, RoomPage
        <5> QED BY <5>1, <5>2 DEF ParticipantInfo
      <4>3. room' = WithOwn(r, info)
        BY <3>2 DEF MuteToggle
      <4> HIDE DEF r, info
      <4> QED BY <4>1, <4>2, <4>3 DEF WithOwn, RoomPage, Participants
    <3> QED BY <1>1, <3>1, <3>2
  <2>4. strained' \in BOOLEAN
    BY <2>1 DEF Clicks
  <2> QED
    BY <1>0, <2>1, <2>2, <2>3, <2>4 DEF Clicks, DesktopTypeOK, OthersOnly, BeforeRoom
<1>4. CASE PressEscape
  <2>1. clicks' \in 0..MaxClicks /\ view # "Login"
    BY <1>4, BoundsAreNaturals DEF PressEscape, DesktopTypeOK
  <2>2. bus' \subseteq Message
    BY <1>4 DEF PressEscape, Simple, Message, DesktopTypeOK
  <2> QED BY <1>0, <1>4, <2>1, <2>2 DEF PressEscape, DesktopTypeOK, OthersOnly, BeforeRoom
<1>2. ASSUME NEW f \in bus, RunFuture(f) PROVE DesktopInv'
  <2>1. f \in Message /\ f.what \in {"Call", "SendMute"} /\ f \in Packet
    BY <1>2 DEF RunFuture, DesktopTypeOK, Packet
  <2>2. f.what = "Call" => f.n \in 1..MaxClicks
    BY <2>1 DEF Message
  <2>3. outbox' \in Seq(Packet) /\ bus' \subseteq Message /\ waiting' \subseteq 1..MaxClicks
    <3>1. outbox' \in Seq(Packet)
      BY <1>2, <2>1 DEF RunFuture, DesktopTypeOK
    <3>2. bus' \subseteq Message /\ waiting' \subseteq 1..MaxClicks
      <4>1. /\ bus' = bus \ {f}
            /\ waiting' = waiting \/ (f.what = "Call" /\ waiting' = waiting \cup {f.n})
        BY <1>2 DEF RunFuture
      <4> QED BY <4>1, <2>2 DEF DesktopTypeOK
    <3> QED BY <3>1, <3>2
  <2>4. audio.user_id # 0
    BY <1>2, <2>1 DEF BeforeRoom, Simple
  <2> QED BY <1>0, <1>2, <2>3, <2>4 DEF RunFuture, DesktopTypeOK, OthersOnly, BeforeRoom
<1>3. ASSUME NEW c \in waiting, TimesOut(c) PROVE DesktopInv'
  <2>1. bus' \subseteq Message
    <3>1. \A k \in Kinds : Result(c, k, FALSE) \in Message
      BY DEF Result, Message, DesktopTypeOK
    <3> QED BY <1>3, <3>1 DEF TimesOut, DesktopTypeOK
  <2>2. spent' \in [news : 0..MaxNews, upsets : 0..MaxUpsets]
    <3>1. spent' = [spent EXCEPT !.upsets = @ + 1] /\ spent.upsets < MaxUpsets
      BY <1>3 DEF TimesOut, Upset
    <3>2. spent \in [news : 0..MaxNews, upsets : 0..MaxUpsets]
      BY DEF DesktopTypeOK
    <3> QED BY <3>1, <3>2, BoundsAreNaturals
  <2>3. audio.user_id # 0
    BY DEF BeforeRoom
  <2> QED BY <1>0, <1>3, <2>1, <2>2, <2>3 DEF TimesOut, DesktopTypeOK, OthersOnly, BeforeRoom
<1> QED BY <1>1, <1>2, <1>3, <1>4

\* Selecting a device, in voice or not.
LEMMA SelectKeeps ==
    ASSUME DesktopInv, NEW d \in Devices, SelectInputDevice(d) \/ SelectOutputDevice(d)
    PROVE  DesktopInv'
<1> USE DEF DesktopInv
<1>0. /\ Selects(failed') \/ Selects(TRUE) \/ Selects(FALSE)
      /\ failed' \in BOOLEAN /\ (failed => failed')
  BY DEF SelectInputDevice, SelectOutputDevice, Selects, DesktopTypeOK
<1>1. spent' \in [news : 0..MaxNews, upsets : 0..MaxUpsets]
  BY <1>0, BoundsAreNaturals DEF Selects, Upset, DesktopTypeOK
<1>2. CASE SelectInputDevice(d)
  <2>1. PICK found \in BOOLEAN, opens \in BOOLEAN :
          /\ Selects(~found \/ ~opens)
          /\ config' = [config EXCEPT !.input = Chosen(d, found, @)]
          /\ audio' = IF ~InVoice(audio) THEN audio
                      ELSE [audio EXCEPT !.input_stream =
                              IF opens THEN config'.input ELSE NoDevice]
    BY <1>2 DEF SelectInputDevice
  <2>2. config' \in Configs /\ config'.output = config.output
    BY <2>1 DEF Chosen, DesktopTypeOK, Configs
  <2>3. failed' = (failed \/ ~found \/ ~opens)
    BY <2>1 DEF Selects
  <2>4. CASE ~InVoice(audio)
    <3>1. audio' = audio
      BY <2>1, <2>4
    <3>2. AudioOK(audio, config', failed')
      BY <2>2, <2>4 DEF AudioOK
    <3> QED BY <1>1, <2>1, <2>2, <3>1, <3>2
            DEF Selects, DesktopTypeOK, OthersOnly, BeforeRoom, Configs
  <2>5. CASE InVoice(audio)
    <3> DEFINE b == [audio EXCEPT !.input_stream =
                        IF opens THEN config'.input ELSE NoDevice]
    <3>1. audio' = b
      BY <2>1, <2>5
    <3>2. /\ b.user_id = audio.user_id /\ b.users_in_voice = audio.users_in_voice
          /\ b.input_stream = IF opens THEN config'.input ELSE NoDevice
          /\ b.output_streams = audio.output_streams
          /\ b.output_decoders = audio.output_decoders
          /\ b \in Audio
      BY <2>2 DEF AudioOK, Audio, Maybe, Configs
    <3>3. InVoice(b)
      BY <2>5, <3>2 DEF InVoice
    <3>4. AudioOK(b, config', failed')
      <4>1. config'.input # NoDevice
        BY <2>2, DevicesAreSome DEF Configs
      <4> HIDE DEF b
      <4>2. ~failed' => ~failed /\ opens
        BY <2>3
      <4> QED BY <2>2, <2>5, <3>2, <3>3, <4>1, <4>2 DEF AudioOK
    <3> QED BY <1>1, <2>1, <2>2, <2>3, <3>1, <3>2, <3>4
            DEF Selects, DesktopTypeOK, OthersOnly, BeforeRoom, Configs
  <2> QED BY <2>4, <2>5
<1>3. CASE SelectOutputDevice(d)
  <2> DEFINE others == audio.users_in_voice \ {audio.user_id}
  <2>1. PICK found \in BOOLEAN, broken \in SUBSET Ids :
          /\ Selects(~found \/ broken # {})
          /\ config' = [config EXCEPT !.output = Chosen(d, found, @)]
          /\ audio' = IF ~InVoice(audio) THEN audio
                      ELSE CreateOutputs(RemoveAllOutputs(audio), others,
                                         config'.output, broken)
    BY <1>3 DEF SelectOutputDevice
  <2>2. config' \in Configs /\ config'.input = config.input
    BY <2>1 DEF Chosen, DesktopTypeOK, Configs
  <2>3. failed' = (failed \/ ~found \/ broken # {})
    BY <2>1 DEF Selects
  <2>4. CASE ~InVoice(audio)
    <3>1. audio' = audio
      BY <2>1, <2>4
    <3>2. AudioOK(audio, config', failed')
      BY <2>2, <2>4 DEF AudioOK
    <3> QED BY <1>1, <2>1, <2>2, <3>1, <3>2
            DEF Selects, DesktopTypeOK, OthersOnly, BeforeRoom, Configs
  <2>5. CASE InVoice(audio)
    <3> DEFINE b == CreateOutputs(RemoveAllOutputs(audio), others, config'.output, broken)
    <3>1. audio' = b
      BY <2>1, <2>5
    <3>0. audio \in Audio /\ audio.users_in_voice \subseteq UserIds
          /\ config'.output \in Devices
      BY <2>2 DEF AudioOK, Configs
    <3>2. /\ b.user_id = audio.user_id /\ b.users_in_voice = audio.users_in_voice
          /\ b.input_stream = audio.input_stream
          /\ b.is_input_muted = audio.is_input_muted
          /\ b.output_streams = [u \in Ids |-> IF u \in others \ broken
                                 THEN config'.output ELSE NoDevice]
          /\ b.output_decoders = [u \in Ids |-> IF u \in others
                                 THEN Rate[config'.output] ELSE 0]
      BY <3>0 DEF CreateOutputs, RemoveAllOutputs, Audio
    <3>3. b \in Audio
      BY <3>0, <3>2, DevicesAreSome DEF CreateOutputs, RemoveAllOutputs, Audio, Maybe
    <3>4. InVoice(b)
      BY <2>5, <3>2 DEF InVoice
    <3>5. AudioOK(b, config', failed')
      <4> HIDE DEF b
      <4>1. ~failed' => ~failed /\ broken = {}
        BY <2>3
      <4> QED BY <2>2, <2>5, <3>0, <3>2, <3>3, <3>4, <4>1, DevicesAreSome DEF AudioOK
    <3> QED BY <1>1, <2>1, <2>2, <2>3, <3>1, <3>2, <3>3, <3>5
            DEF Selects, DesktopTypeOK, OthersOnly, BeforeRoom, Configs
  <2> QED BY <2>4, <2>5
<1> QED BY <1>2, <1>3

\* Messages of the bus, results apart.
LEMMA DeliverKeeps ==
    ASSUME DesktopInv, NEW m \in bus,
           \/ DeliverConnected(m) \/ DeliverSwitchView(m)
           \/ DeliverMuteInput(m) \/ DeliverExecute(m)
    PROVE  DesktopInv'
<1> USE DEF DesktopInv
<1>0. m \in Message
  BY DEF DesktopTypeOK
<1>1. CASE DeliverConnected(m)
  <2> DEFINE b == [audio EXCEPT !.user_id = Me]
  <2>0. Me \in Ids /\ 0 \notin UserIds /\ Me # 0
    BY DevicesAreSome DEF UserIds
  <2>1. /\ b \in Audio /\ b.user_id = Me /\ b.users_in_voice = audio.users_in_voice
        /\ b.input_stream = audio.input_stream
        /\ b.output_streams = audio.output_streams
        /\ b.output_decoders = audio.output_decoders
    BY <2>0 DEF AudioOK, Audio
  <2>2. InVoice(b) <=> InVoice(audio)
    BY <2>0, <2>1 DEF InVoice, AudioOK, BeforeRoom
  <2>3. InVoice(audio) => audio.user_id = Me
    BY <2>0 DEF InVoice, AudioOK
  <2>4. AudioOK(b, config, failed)
    <3> HIDE DEF b
    <3> QED BY <2>1, <2>2, <2>3 DEF AudioOK
  <2>5. audio' = b /\ bus' \subseteq Message
    BY <1>1 DEF DeliverConnected, Simple, Message, DesktopTypeOK
  <2> HIDE DEF b
  <2> QED BY <1>1, <2>0, <2>1, <2>4, <2>5
          DEF DeliverConnected, delivering, DesktopTypeOK, OthersOnly, BeforeRoom
<1>2. CASE DeliverSwitchView(m)
  <2>1. AudioOK(audio, config, failed)'
    BY <1>2, StreamsAlone DEF DeliverSwitchView, delivering
  <2>2. audio.user_id # 0
    BY <1>2 DEF DeliverSwitchView, BeforeRoom, Simple
  <2> QED BY <1>2, <2>1, <2>2
          DEF DeliverSwitchView, delivering, DesktopTypeOK, OthersOnly, BeforeRoom
<1>3. CASE DeliverMuteInput(m)
  <2> DEFINE b == [audio EXCEPT !.is_input_muted = m.muted]
  <2>1. m.muted \in BOOLEAN /\ m.n \in 1..MaxClicks
    BY <1>0, <1>3 DEF DeliverMuteInput, Message
  <2>2. /\ b \in Audio /\ b.user_id = audio.user_id
        /\ b.users_in_voice = audio.users_in_voice
        /\ b.input_stream = audio.input_stream
        /\ b.output_streams = audio.output_streams
        /\ b.output_decoders = audio.output_decoders
    BY <2>1 DEF AudioOK, Audio
  <2>3. AudioOK(b, config, failed)
    <3> HIDE DEF b
    <3> QED BY <2>2 DEF AudioOK, InVoice
  <2>4. audio' = b
    BY <1>3 DEF DeliverMuteInput
  <2>5. bus' \subseteq Message
    <3>1. Muting("SendMute", m.n, m.muted) \in Message
      BY <2>1 DEF Muting, Message
    <3> QED BY <1>3, <3>1 DEF DeliverMuteInput, DesktopTypeOK
  <2>6. audio.user_id # 0
    BY <1>3 DEF DeliverMuteInput, BeforeRoom, Simple
  <2> HIDE DEF b
  <2> QED BY <1>3, <2>2, <2>3, <2>4, <2>5, <2>6
          DEF DeliverMuteInput, delivering, DesktopTypeOK, OthersOnly, BeforeRoom
<1>4. CASE DeliverExecute(m)
  <2>1. AudioOK(audio, config, failed)'
    BY <1>4, StreamsAlone DEF DeliverExecute, delivering
  <2>2. audio.user_id # 0
    BY <1>4 DEF DeliverExecute, BeforeRoom, Simple
  <2>3. bus' \subseteq Message
    <3>1. m.n \in 1..MaxClicks /\ m.kind \in Kinds
      BY <1>0, <1>4 DEF DeliverExecute, Message
    <3>2. Command("Call", m.n, m.kind) \in Message
      BY <3>1 DEF Command, Message
    <3> QED BY <1>4, <3>2 DEF DeliverExecute, DesktopTypeOK
  <2> QED BY <1>4, <2>1, <2>2, <2>3
          DEF DeliverExecute, delivering, DesktopTypeOK, OthersOnly, BeforeRoom
<1> QED BY <1>1, <1>2, <1>3, <1>4

\* What Fails adds to the two history variables.
LEMMA FailsKeeps ==
    ASSUME DesktopTypeOK, NEW fails \in BOOLEAN, Fails(fails)
    PROVE  /\ failed' \in BOOLEAN /\ failed' = (failed \/ fails)
           /\ spent' \in [news : 0..MaxNews, upsets : 0..MaxUpsets]
BY BoundsAreNaturals DEF Fails, Upset, DesktopTypeOK

LEMMA ResultKeeps ==
    ASSUME DesktopInv, NEW m \in bus, DeliverResult(m)
    PROVE  DesktopInv'
<1> USE DEF DesktopInv
<1>0. /\ m \in Message /\ m.what = "Result" /\ audio.user_id = Me /\ Me # 0
      /\ config \in Configs /\ bus' \subseteq Message
  BY DevicesAreSome
  DEF DeliverResult, DesktopTypeOK, BeforeRoom, Simple, AudioOK, Configs
<1>1. m.kind \in Kinds /\ m.ok \in BOOLEAN
  BY <1>0 DEF Message
<1>2. /\ AudioOK(audio', config, failed') /\ audio'.user_id = Me
      /\ failed' \in BOOLEAN
      /\ spent' \in [news : 0..MaxNews, upsets : 0..MaxUpsets]
  <2>1. CASE ~m.ok
    BY <1>0, <2>1 DEF DeliverResult, DesktopTypeOK
  <2>2. CASE m.ok /\ m.kind = "Join"
    <3>1. PICK opens \in BOOLEAN, broken \in SUBSET audio.users_in_voice :
            Fails(~opens \/ broken # {}) /\ audio' = Joined(audio, opens, broken)
      BY <2>2 DEF DeliverResult
    <3>2. /\ failed' \in BOOLEAN /\ failed' = (failed \/ ~opens \/ broken # {})
          /\ spent' \in [news : 0..MaxNews, upsets : 0..MaxUpsets]
      BY <3>1, FailsKeeps
    <3>3. /\ AudioOK(Joined(audio, opens, broken), config, failed')
          /\ Joined(audio, opens, broken).user_id = Me
      BY <1>0, <3>2, JoinedKeeps
    <3> QED BY <3>1, <3>2, <3>3
  <2>3. CASE m.ok /\ m.kind = "Leave"
    <3>1. audio' = Left(audio) /\ UNCHANGED <<spent, failed>>
      BY <2>3 DEF DeliverResult
    <3> QED BY <1>0, <3>1, LeftKeeps DEF DesktopTypeOK
  <2> QED BY <1>1, <2>1, <2>2, <2>3 DEF Kinds
<1>3. room' \in RoomPage
  <2> DEFINE info == Info(Own(room).username, m.kind = "Join", FALSE)
  <2>1. room.user_id \in UserIds => info \in ParticipantInfo
    BY DEF DesktopTypeOK, RoomPage, Own, Participants, ParticipantInfo, Info
  <2>2. room' = room \/ room' = WithOwn(room, info)
    BY DEF DeliverResult
  <2> HIDE DEF info
  <2> QED BY <2>1, <2>2 DEF WithOwn, DesktopTypeOK, RoomPage, Participants
<1>4. UNCHANGED <<delivering, view>>
  BY DEF DeliverResult
<1> QED BY <1>0, <1>2, <1>3, <1>4 DEF delivering, DesktopTypeOK, OthersOnly, BeforeRoom, AudioOK

LEMMA EventKeeps == DesktopInv /\ DeliverEvent => DesktopInv'
<1> SUFFICES ASSUME DesktopInv, DeliverEvent PROVE DesktopInv'
  OBVIOUS
<1> USE DEF DesktopInv
<1> DEFINE e == Head(events)
<1>0. /\ e \in OthersNews \cup ListEvent /\ events' \in Seq(OthersNews \cup ListEvent)
      /\ events' \in Seq(News \cup ListEvent) /\ config \in Configs
  BY SequenceParts DEF DeliverEvent, OthersOnly, DesktopTypeOK, Configs
<1>1. \/ e \in ListEvent /\ e.type = "LoginResponse"
      \/ /\ e \in News /\ e.type # "LoginResponse" /\ e.user_id \in UserIds \ {Me}
  BY <1>0 DEF OthersNews, ListEvent, News, NewsTypes
<1>2. /\ AudioOK(audio', config, failed') /\ audio'.user_id = audio.user_id
      /\ Me \notin audio.users_in_voice => Me \notin audio'.users_in_voice
      /\ failed' \in BOOLEAN
      /\ spent' \in [news : 0..MaxNews, upsets : 0..MaxUpsets]
  <2>1. CASE e.type = "UserJoinedVoice"
    <3>1. PICK broken \in SUBSET {e.user_id} :
            Fails(broken # {}) /\ audio' = HearJoin(audio, e.user_id, broken)
      BY <2>1 DEF DeliverEvent
    <3>2. /\ failed' \in BOOLEAN /\ failed' = (failed \/ broken # {})
          /\ spent' \in [news : 0..MaxNews, upsets : 0..MaxUpsets]
      BY <3>1, FailsKeeps
    <3>3. e.user_id \in UserIds \ {Me}
      BY <1>1, <2>1
    <3>4. /\ AudioOK(HearJoin(audio, e.user_id, broken), config, failed')
          /\ HearJoin(audio, e.user_id, broken).user_id = audio.user_id
          /\ HearJoin(audio, e.user_id, broken).users_in_voice
                = audio.users_in_voice \cup {e.user_id}
      BY <1>0, <3>2, <3>3, HearJoinKeeps
    <3> HIDE DEF e
    <3> QED BY <3>1, <3>2, <3>3, <3>4
  <2>2. CASE e.type = "UserLeftVoice"
    <3>1. audio' = HearLeave(audio, e.user_id) /\ UNCHANGED <<spent, failed>>
      BY <2>2 DEF DeliverEvent
    <3>2. e.user_id \in UserIds \ {Me}
      BY <1>1, <2>2
    <3>3. /\ AudioOK(HearLeave(audio, e.user_id), config, failed)
          /\ HearLeave(audio, e.user_id).user_id = audio.user_id
          /\ HearLeave(audio, e.user_id).users_in_voice = audio.users_in_voice \ {e.user_id}
      BY <3>2, HearLeaveKeeps
    <3> HIDE DEF e
    <3> QED BY <3>1, <3>3 DEF DesktopTypeOK
  <2>3. CASE e.type \notin {"UserJoinedVoice", "UserLeftVoice"}
    BY <2>3 DEF DeliverEvent, DesktopTypeOK
  <2> QED BY <2>1, <2>2, <2>3
<1>3. room' \in RoomPage
  <2>0. room' = ReceiveEvent(room, e)
    BY DEF DeliverEvent
  <2>1. CASE e \in ListEvent /\ e.type = "LoginResponse"
    BY <2>0, <2>1, DevicesAreSome
    DEF ReceiveEvent, DesktopTypeOK, RoomPage, ListEvent, Response
  <2>2. CASE e \in News /\ e.type # "LoginResponse" /\ e.user_id \in UserIds
    <3> HIDE DEF e
    <3>1. e.username \in Names /\ e.is_muted \in BOOLEAN
      BY <2>2 DEF News
    <3> DEFINE list == room.participants
    <3>2. list \in Participants /\ list[e.user_id] \in ParticipantInfo
      BY <2>2 DEF DesktopTypeOK, RoomPage, Participants
    <3>3. Info(e.username, FALSE, FALSE) \in ParticipantInfo
      BY <3>1 DEF Info, ParticipantInfo
    <3>5. ApplyNews(list, e) \in Participants
      <4> HIDE DEF list
      <4>1. CASE e.type = "UserJoinedServer"
        BY <2>2, <3>2, <3>3, <4>1 DEF ApplyNews, Participants
      <4>2. CASE e.type \in {"UserJoinedVoice", "UserLeftVoice"}
        BY <2>2, <3>2, <4>2 DEF ApplyNews, Participants, ParticipantInfo
      <4>3. CASE e.type = "UserLeftServer"
        BY <2>2, <3>2, <4>3, NamesAreNames DEF ApplyNews, Participants
      <4>4. CASE e.type = "UserMuteState"
        BY <2>2, <3>1, <3>2, <4>4 DEF ApplyNews, Participants, ParticipantInfo
      <4>5. CASE e.type = "UserSentMessage"
        BY <2>2, <3>2, <4>5 DEF ApplyNews
      <4> QED BY <2>2, <4>1, <4>2, <4>3, <4>4, <4>5 DEF News, NewsTypes
    <3> QED BY <2>0, <2>2, <3>5 DEF ReceiveEvent, DesktopTypeOK, RoomPage
  <2> QED BY <1>1, <2>1, <2>2
<1> HIDE DEF e
<1> QED BY <1>0, <1>2, <1>3 DEF DeliverEvent, DesktopTypeOK, OthersOnly, BeforeRoom, AudioOK

LEMMA DesktopKeeps ==
    ASSUME DesktopInv, ~Impatient, [DesktopNext]_desktopVars
    PROVE  DesktopInv'
<1>1. CASE UNCHANGED desktopVars
  <2>1. AudioOK(audio, config, failed)'
    BY <1>1, StreamsAlone DEF desktopVars, DesktopInv
  <2> QED BY <1>1, <2>1 DEF desktopVars, DesktopInv, DesktopTypeOK, OthersOnly, BeforeRoom
<1> QED
  BY <1>1, ServerKeeps, UserKeeps, SelectKeeps, DeliverKeeps, ResultKeeps, EventKeeps
  DEF DesktopNext, Deliver

LEMMA DesktopInvariant == ~Impatient => (DesktopSpec => []DesktopInv)
<1> SUFFICES ASSUME ~Impatient PROVE DesktopSpec => []DesktopInv
  OBVIOUS
<1>1. DesktopInv /\ [DesktopNext]_desktopVars => DesktopInv'
  BY DesktopKeeps
<1> QED BY <1>1, DesktopInitially, PTL DEF DesktopSpec

-----------------------------------------------------------------------------
(* Who the audio manager takes to be in voice, once the news on its way has *)
(* arrived.                                                                 *)

\* Whether e says of u that he entered or left voice, and what it makes of what
\* was known before.
Tells(e, u) == e.type \in {"UserJoinedVoice", "UserLeftVoice"} /\ e.user_id = u
After(e, u, before) == IF Tells(e, u) THEN e.type = "UserJoinedVoice" ELSE before

\* The same of all the news in q, of which the last about u counts.
JoinsLast(q, u) ==
    \E i \in 1..Len(q) : /\ Tells(q[i], u) /\ q[i].type = "UserJoinedVoice"
                         /\ \A j \in 1..Len(q) : j > i => ~Tells(q[j], u)
Silent(q, u) == \A i \in 1..Len(q) : ~Tells(q[i], u)
Leaves(q, u, before) == JoinsLast(q, u) \/ (Silent(q, u) /\ before)

LEMMA LeavesEmpty ==
    ASSUME NEW u, NEW before \in BOOLEAN
    PROVE  Leaves(<<>>, u, before) <=> before
BY DEF Leaves, JoinsLast, Silent

LEMMA LeavesAppend ==
    ASSUME NEW S, NEW q \in Seq(S), NEW e \in S, NEW u, NEW before \in BOOLEAN
    PROVE  Leaves(Append(q, e), u, before) <=> After(e, u, Leaves(q, u, before))
<1> DEFINE r == Append(q, e)
<1>1. /\ Len(r) = Len(q) + 1 /\ r[Len(q) + 1] = e /\ Len(q) \in Nat
      /\ \A i \in 1..Len(q) : r[i] = q[i]
  OBVIOUS
<1> HIDE DEF r
<1>2. CASE Tells(e, u)
  <2>1. ~Silent(r, u)
    BY <1>1, <1>2 DEF Silent
  <2>2. JoinsLast(r, u) <=> e.type = "UserJoinedVoice"
    <3>1. e.type = "UserJoinedVoice" => JoinsLast(r, u)
      BY <1>1, <1>2 DEF JoinsLast
    <3>2. ASSUME NEW i \in 1..Len(r), \A j \in 1..Len(r) : j > i => ~Tells(r[j], u)
          PROVE  i = Len(q) + 1
      BY <1>1, <1>2, <3>2
    <3>3. JoinsLast(r, u) => e.type = "UserJoinedVoice"
      BY <1>1, <3>2 DEF JoinsLast
    <3> QED BY <3>1, <3>3
  <2> QED BY <1>2, <2>1, <2>2 DEF Leaves, After, r
<1>3. CASE ~Tells(e, u)
  <2>1. Silent(r, u) <=> Silent(q, u)
    <3>1. \A i \in 1..Len(r) : i \in 1..Len(q) \/ i = Len(q) + 1
      BY <1>1
    <3>2. \A i \in 1..Len(q) : i \in 1..Len(r)
      BY <1>1
    <3> QED BY <1>1, <1>3, <3>1, <3>2 DEF Silent
  <2>2. JoinsLast(r, u) => JoinsLast(q, u)
    <3> SUFFICES ASSUME JoinsLast(r, u) PROVE JoinsLast(q, u)
      OBVIOUS
    <3>1. PICK i \in 1..Len(r) : /\ Tells(r[i], u) /\ r[i].type = "UserJoinedVoice"
                                 /\ \A j \in 1..Len(r) : j > i => ~Tells(r[j], u)
      BY DEF JoinsLast
    <3>2. i \in 1..Len(q)
      BY <1>1, <1>3, <3>1
    <3>3. \A j \in 1..Len(q) : j > i => ~Tells(q[j], u)
      BY <1>1, <3>1
    <3>4. Tells(q[i], u) /\ q[i].type = "UserJoinedVoice"
      BY <1>1, <3>1, <3>2
    <3> QED BY <3>2, <3>3, <3>4 DEF JoinsLast
  <2>3. JoinsLast(q, u) => JoinsLast(r, u)
    <3> SUFFICES ASSUME JoinsLast(q, u) PROVE JoinsLast(r, u)
      OBVIOUS
    <3>1. PICK i \in 1..Len(q) : /\ Tells(q[i], u) /\ q[i].type = "UserJoinedVoice"
                                 /\ \A j \in 1..Len(q) : j > i => ~Tells(q[j], u)
      BY DEF JoinsLast
    <3>2. \A j \in 1..Len(r) : j > i => ~Tells(r[j], u)
      BY <1>1, <1>3, <3>1
    <3>3. i \in 1..Len(r) /\ Tells(r[i], u) /\ r[i].type = "UserJoinedVoice"
      BY <1>1, <3>1
    <3> QED BY <3>2, <3>3 DEF JoinsLast
  <2> QED BY <1>3, <2>1, <2>2, <2>3 DEF Leaves, After, r
<1> QED BY <1>2, <1>3

LEMMA LeavesTail ==
    ASSUME NEW S, NEW q \in Seq(S), q # <<>>, NEW u, NEW before \in BOOLEAN
    PROVE  Leaves(q, u, before) <=> Leaves(Tail(q), u, After(Head(q), u, before))
<1> DEFINE r == Tail(q)
           e == Head(q)
<1>1. /\ Len(q) \in Nat \ {0} /\ Len(r) = Len(q) - 1 /\ q[1] = e
      /\ \A i \in 1..Len(r) : r[i] = q[i + 1]
      /\ \A i \in 2..Len(q) : q[i] = r[i - 1]
  OBVIOUS
<1> HIDE DEF r, e
<1>2. Silent(q, u) <=> ~Tells(e, u) /\ Silent(r, u)
  <2>1. Silent(q, u) => ~Tells(e, u) /\ Silent(r, u)
    <3>1. \A i \in 1..Len(r) : i + 1 \in 1..Len(q)
      BY <1>1
    <3> QED BY <1>1, <3>1 DEF Silent
  <2>2. ~Tells(e, u) /\ Silent(r, u) => Silent(q, u)
    <3>1. \A i \in 1..Len(q) : i = 1 \/ (i \in 2..Len(q) /\ i - 1 \in 1..Len(r))
      BY <1>1
    <3> QED BY <1>1, <3>1 DEF Silent
  <2> QED BY <2>1, <2>2
<1>3. JoinsLast(r, u) => JoinsLast(q, u)
  <2> SUFFICES ASSUME JoinsLast(r, u) PROVE JoinsLast(q, u)
    OBVIOUS
  <2>1. PICK i \in 1..Len(r) : /\ Tells(r[i], u) /\ r[i].type = "UserJoinedVoice"
                               /\ \A j \in 1..Len(r) : j > i => ~Tells(r[j], u)
    BY DEF JoinsLast
  <2>2. i + 1 \in 1..Len(q) /\ Tells(q[i + 1], u) /\ q[i + 1].type = "UserJoinedVoice"
    BY <1>1, <2>1
  <2>3. ASSUME NEW j \in 1..Len(q), j > i + 1 PROVE ~Tells(q[j], u)
    <3>1. j - 1 \in 1..Len(r) /\ j - 1 > i /\ q[j] = r[j - 1]
      BY <1>1, <2>3
    <3> QED BY <2>1, <3>1
  <2> QED BY <2>2, <2>3 DEF JoinsLast
<1>4. Silent(r, u) /\ Tells(e, u) /\ e.type = "UserJoinedVoice" => JoinsLast(q, u)
  <2> SUFFICES ASSUME Silent(r, u), Tells(e, u), e.type = "UserJoinedVoice"
               PROVE  JoinsLast(q, u)
    OBVIOUS
  <2>1. ASSUME NEW j \in 1..Len(q), j > 1 PROVE ~Tells(q[j], u)
    <3>1. j - 1 \in 1..Len(r) /\ q[j] = r[j - 1]
      BY <1>1, <2>1
    <3> QED BY <3>1 DEF Silent
  <2>2. 1 \in 1..Len(q)
    BY <1>1
  <2> QED BY <1>1, <2>1, <2>2 DEF JoinsLast
<1>5. JoinsLast(q, u) => \/ JoinsLast(r, u)
                         \/ Silent(r, u) /\ Tells(e, u) /\ e.type = "UserJoinedVoice"
  <2> SUFFICES ASSUME JoinsLast(q, u)
               PROVE  \/ JoinsLast(r, u)
                      \/ Silent(r, u) /\ Tells(e, u) /\ e.type = "UserJoinedVoice"
    OBVIOUS
  <2>1. PICK i \in 1..Len(q) : /\ Tells(q[i], u) /\ q[i].type = "UserJoinedVoice"
                               /\ \A j \in 1..Len(q) : j > i => ~Tells(q[j], u)
    BY DEF JoinsLast
  <2>2. ASSUME NEW j \in 1..Len(r), j + 1 > i PROVE ~Tells(r[j], u)
    <3>1. j + 1 \in 1..Len(q) /\ r[j] = q[j + 1]
      BY <1>1
    <3> QED BY <2>1, <2>2, <3>1
  <2>3. CASE i = 1
    <3>1. \A j \in 1..Len(r) : j + 1 > i
      BY <2>3
    <3> QED BY <1>1, <2>1, <2>2, <2>3, <3>1 DEF Silent
  <2>4. CASE i # 1
    <3>1. i - 1 \in 1..Len(r) /\ q[i] = r[i - 1]
      BY <1>1, <2>4
    <3>2. \A j \in 1..Len(r) : j > i - 1 => j + 1 > i
      OBVIOUS
    <3> QED BY <2>1, <2>2, <3>1, <3>2 DEF JoinsLast
  <2> QED BY <2>3, <2>4
<1>6. Leaves(q, u, before) <=> Leaves(r, u, After(e, u, before))
  BY <1>2, <1>3, <1>4, <1>5 DEF Leaves, After
<1> QED BY <1>6 DEF r, e

\* Whoever the manager will take to be in voice is in voice.  Nobody has told it
\* anything before the connection is up.
WillHear(u) == Leaves(channel, u, Leaves(events, u, u \in audio.users_in_voice))
Foretold ==
    /\ session = "away" => /\ channel = <<>> /\ events = <<>>
                           /\ audio.users_in_voice \subseteq {Me}
    /\ \A u \in UserIds \ {Me} : WillHear(u) => server[u].in_voice

LEMMA ForetoldInitially == DesktopInit => Foretold
<1> SUFFICES ASSUME DesktopInit PROVE Foretold
  OBVIOUS
<1>1. /\ channel = <<>> /\ events = <<>> /\ audio.users_in_voice = {}
  BY DEF DesktopInit, NoSession
<1>2. \A u \in UserIds \ {Me} : ~WillHear(u)
  BY <1>1 DEF WillHear, Leaves, JoinsLast, Silent
<1> QED BY <1>1, <1>2 DEF Foretold

\* News that is told is heard last.
LEMMA ToldLast ==
    ASSUME OthersOnly, NEW e \in OthersNews, NEW u, channel' = Append(channel, e),
           UNCHANGED <<events, audio>>
    PROVE  WillHear(u)' <=> After(e, u, WillHear(u))
<1> DEFINE before == Leaves(events, u, u \in audio.users_in_voice)
<1>1. before' <=> before
  OBVIOUS
<1>2. before \in BOOLEAN
  BY DEF Leaves
<1> HIDE DEF before
<1>3. Leaves(Append(channel, e), u, before) <=> After(e, u, Leaves(channel, u, before))
  BY <1>2, LeavesAppend DEF OthersOnly
<1> QED BY <1>3 DEF WillHear, before

LEMMA OtherActsForetold ==
    ASSUME DesktopInv, Foretold, NEW w \in UserIds, OtherActs(w)
    PROVE  Foretold'
<1> USE DEF DesktopInv
<1>1. UNCHANGED <<events, session, audio>>
  BY DEF OtherActs, serverIdle
<1>2. /\ UserJoinedServer(w, SomeName) \in OthersNews
      /\ \A t \in {"UserLeftServer", "UserLeftVoice", "UserJoinedVoice"} :
           PlainNews(t, w) \in OthersNews
  BY NamesAreNames, DevicesAreSome
  DEF OtherActs, OthersNews, News, NewsTypes, UserJoinedServer, PlainNews, Names, Ids
<1>3. \A u \in UserIds \ {w} : server'[u] = server[u]
  BY DEF OtherActs, DesktopTypeOK, Participants
<1>4. CASE session = "away"
  <2>1. channel' = channel
    BY <1>4 DEF OtherActs, Broadcasts
  <2>2. /\ channel' = <<>> /\ events' = <<>> /\ audio'.users_in_voice \subseteq {Me}
    BY <1>1, <1>4, <2>1 DEF Foretold
  <2>3. \A u \in UserIds \ {Me} : ~WillHear(u)'
    BY <2>2 DEF WillHear, Leaves, JoinsLast, Silent
  <2> QED BY <1>1, <2>2, <2>3 DEF Foretold
<1>5. CASE session # "away"
  <2> DEFINE logs == UserJoinedServer(w, SomeName)
             left == PlainNews("UserLeftServer", w)
             gone == PlainNews("UserLeftVoice", w)
  <2>1. \A u : ~Tells(logs, u) /\ ~Tells(left, u)
    BY DEF Tells, UserJoinedServer, PlainNews
  <2>2. ASSUME NEW e \in OthersNews, channel' = Append(channel, e),
               \/ \A u : ~Tells(e, u)
               \/ e.user_id = w /\ (e.type = "UserJoinedVoice" => server'[w].in_voice),
               server[w].in_voice => server'[w].in_voice \/ Tells(e, w)
        PROVE  Foretold'
    <3>1. \A u \in UserIds \ {Me} : WillHear(u)' <=> After(e, u, WillHear(u))
      BY <1>1, <2>2, ToldLast
    <3>2. \A u \in UserIds \ {Me} : After(e, u, WillHear(u)) => server'[u].in_voice
      BY <1>3, <2>2 DEF After, Tells, Foretold
    <3> QED BY <1>1, <1>5, <3>1, <3>2 DEF Foretold
  <2>3. CASE server[w] = NoInfo /\ server' = [server EXCEPT ![w] = Info(SomeName, FALSE, FALSE)]
             /\ Broadcasts(<<logs>>)
    <3>1. channel' = Append(channel, logs)
      BY <1>5, <2>3 DEF Broadcasts, DesktopTypeOK
    <3>2. ~server[w].in_voice
      BY <2>3 DEF NoInfo, Info
    <3> QED BY <1>2, <2>1, <2>2, <3>1, <3>2
  <2>4. CASE server' = [server EXCEPT ![w] = NoInfo]
             /\ Broadcasts(<<left>> \o IF server[w].in_voice THEN <<gone>> ELSE <<>>)
    <3>1. CASE ~server[w].in_voice
      <4>1. channel' = Append(channel, left)
        BY <1>5, <2>4, <3>1 DEF Broadcasts, DesktopTypeOK
      <4> QED BY <1>2, <2>1, <2>2, <3>1, <4>1
    <3>2. CASE server[w].in_voice
      <4>1. channel' = Append(Append(channel, left), gone)
        <5>1. channel' = channel \o (<<left>> \o <<gone>>)
          BY <1>5, <2>4, <3>2 DEF Broadcasts
        <5> HIDE DEF left, gone
        <5> QED BY <5>1 DEF DesktopTypeOK
      <4> DEFINE before(u) == Leaves(events, u, u \in audio.users_in_voice)
      <4>2. \A u : before(u) \in BOOLEAN
        BY DEF Leaves
      <4>3. left \in OthersNews /\ gone \in OthersNews
        BY <1>2
      <4>4. \A u : Leaves(Append(channel, left), u, before(u))
                     <=> After(left, u, Leaves(channel, u, before(u)))
        <5> HIDE DEF before, left
        <5> QED BY <4>2, <4>3, LeavesAppend DEF OthersOnly
      <4>5. \A u : Leaves(Append(Append(channel, left), gone), u, before(u))
                     <=> After(gone, u, Leaves(Append(channel, left), u, before(u)))
        <5> HIDE DEF before, left, gone
        <5> DEFINE q == Append(channel, left)
        <5>1. q \in Seq(OthersNews)
          BY <4>3 DEF OthersOnly
        <5> HIDE DEF q
        <5>2. ASSUME NEW u PROVE Leaves(Append(q, gone), u, before(u))
                                   <=> After(gone, u, Leaves(q, u, before(u)))
          <6>1. before(u) \in BOOLEAN
            BY <4>2
          <6> HIDE DEF before
          <6> QED BY <4>3, <5>1, <6>1, LeavesAppend
        <5> QED BY <5>2 DEF q
      <4>6. \A u : WillHear(u)' <=> After(gone, u, WillHear(u))
        BY <1>1, <2>1, <4>1, <4>4, <4>5 DEF WillHear, After
      <4>7. \A u : Tells(gone, u) <=> u = w
        BY DEF Tells, PlainNews
      <4>8. gone.type # "UserJoinedVoice"
        BY DEF PlainNews
      <4> HIDE DEF gone
      <4>9. \A u \in UserIds \ {Me} : WillHear(u)' => u # w /\ WillHear(u)
        BY <4>6, <4>7, <4>8 DEF After
      <4> QED BY <1>1, <1>3, <1>5, <4>9 DEF Foretold
    <3> QED BY <3>1, <3>2 DEF DesktopTypeOK, Participants, ParticipantInfo
  <2>5. ASSUME NEW v \in BOOLEAN,
               server' = [server EXCEPT ![w] = Info(@.username, v, FALSE)],
               Broadcasts(<<PlainNews(IF v THEN "UserJoinedVoice" ELSE "UserLeftVoice", w)>>)
        PROVE  Foretold'
    <3> DEFINE e == PlainNews(IF v THEN "UserJoinedVoice" ELSE "UserLeftVoice", w)
    <3>1. channel' = Append(channel, e)
      BY <1>5, <2>5 DEF Broadcasts, DesktopTypeOK
    <3>2. e \in OthersNews
      BY <1>2
    <3>3. e.user_id = w /\ Tells(e, w) /\ (e.type = "UserJoinedVoice" => v)
      BY DEF PlainNews, Tells
    <3>4. server'[w].in_voice = v
      BY <2>5 DEF DesktopTypeOK, Participants, Info
    <3> HIDE DEF e
    <3> QED BY <2>2, <3>1, <3>2, <3>3, <3>4
  <2> QED BY <2>3, <2>4, <2>5 DEF OtherActs
<1> QED BY <1>4, <1>5

\* News that is forwarded, or received, is heard in the same order as before.
LEMMA ForwardForetold ==
    ASSUME DesktopInv, Foretold, ForwardNews
    PROVE  Foretold'
<1> USE DEF DesktopInv
<1> DEFINE e == Head(channel)
<1>1. /\ channel # <<>> /\ channel' = Tail(channel) /\ events' = Append(events, e)
      /\ UNCHANGED <<server, session, audio>>
  BY DEF ForwardNews
<1>2. e \in OthersNews
  BY <1>1 DEF OthersOnly
<1>3. session # "away"
  BY <1>1 DEF Foretold
<1>4. ASSUME NEW u \in UserIds \ {Me} PROVE WillHear(u)' <=> WillHear(u)
  <2> DEFINE heard == u \in audio.users_in_voice
  <2>1. Leaves(events, u, heard) \in BOOLEAN /\ heard \in BOOLEAN
    BY DEF Leaves
  <2>2. Leaves(channel, u, Leaves(events, u, heard))
          <=> Leaves(Tail(channel), u, After(e, u, Leaves(events, u, heard)))
    <3> HIDE DEF heard
    <3> QED BY <1>1, <2>1, LeavesTail DEF OthersOnly
  <2>3. Leaves(Append(events, e), u, heard) <=> After(e, u, Leaves(events, u, heard))
    <3> HIDE DEF heard, e
    <3> QED BY <1>2, <2>1, LeavesAppend DEF OthersOnly
  <2>4. WillHear(u)' <=> Leaves(Tail(channel), u, Leaves(Append(events, e), u, heard))
    BY <1>1 DEF WillHear
  <2> HIDE DEF e
  <2> QED BY <2>2, <2>3, <2>4 DEF WillHear, Leaves
<1> QED BY <1>1, <1>3, <1>4 DEF Foretold

LEMMA DeliverEventForetold ==
    ASSUME DesktopInv, Foretold, DeliverEvent
    PROVE  Foretold'
<1> USE DEF DesktopInv
<1> DEFINE e == Head(events)
<1>1. /\ events # <<>> /\ events' = Tail(events)
      /\ UNCHANGED <<server, channel, session>>
  BY DEF DeliverEvent
<1>2. e \in OthersNews \/ (e \in ListEvent /\ e.type = "LoginResponse")
  BY <1>1 DEF OthersOnly, ListEvent
<1>3. session # "away"
  BY <1>1 DEF Foretold
<1>4. \A u \in UserIds \ {Me} :
        u \in audio'.users_in_voice <=> After(e, u, u \in audio.users_in_voice)
  <2>0. config \in Configs /\ failed \in BOOLEAN
    BY DEF DesktopTypeOK, Configs
  <2>1. CASE e.type = "UserJoinedVoice"
    <3>1. PICK broken \in SUBSET {e.user_id} : audio' = HearJoin(audio, e.user_id, broken)
      BY <2>1 DEF DeliverEvent
    <3>2. e.user_id \in UserIds \ {Me}
      BY <1>2, <2>1 DEF OthersNews
    <3>3. HearJoin(audio, e.user_id, broken).users_in_voice
            = audio.users_in_voice \cup {e.user_id}
      <4> HIDE DEF e
      <4> QED BY <2>0, <3>2, HearJoinKeeps
    <3> QED BY <2>1, <3>1, <3>3 DEF After, Tells
  <2>2. CASE e.type = "UserLeftVoice"
    <3>1. audio' = HearLeave(audio, e.user_id)
      BY <2>2 DEF DeliverEvent
    <3>2. e.user_id \in UserIds \ {Me}
      BY <1>2, <2>2 DEF OthersNews
    <3>3. HearLeave(audio, e.user_id).users_in_voice = audio.users_in_voice \ {e.user_id}
      <4> HIDE DEF e
      <4> QED BY <3>2, HearLeaveKeeps
    <3> QED BY <2>2, <3>1, <3>3 DEF After, Tells
  <2>3. CASE e.type \notin {"UserJoinedVoice", "UserLeftVoice"}
    BY <2>3 DEF DeliverEvent, After, Tells
  <2> QED BY <2>1, <2>2, <2>3
<1>5. ASSUME NEW u \in UserIds \ {Me} PROVE WillHear(u)' <=> WillHear(u)
  <2> DEFINE heard == u \in audio.users_in_voice
             hears == u \in audio'.users_in_voice
  <2>1. hears <=> After(e, u, heard)
    BY <1>4
  <2>2. Leaves(events, u, heard) <=> Leaves(Tail(events), u, After(e, u, heard))
    <3>1. heard \in BOOLEAN
      OBVIOUS
    <3> HIDE DEF heard
    <3> QED BY <1>1, <3>1, LeavesTail DEF OthersOnly
  <2>3. WillHear(u)' <=> Leaves(channel, u, Leaves(Tail(events), u, hears))
    BY <1>1 DEF WillHear
  <2> HIDE DEF e, hears
  <2> QED BY <2>1, <2>2, <2>3 DEF WillHear, Leaves
<1> QED BY <1>1, <1>3, <1>5 DEF Foretold

\* Nothing else is about others.
LEMMA ForetoldKeeps ==
    ASSUME DesktopInv, Foretold, ~Impatient, [DesktopNext]_desktopVars
    PROVE  Foretold'
<1> USE DEF DesktopInv
<1>1. ASSUME UNCHANGED <<channel, events>>, session' = "away" => session = "away",
             audio'.users_in_voice \ {Me} = audio.users_in_voice \ {Me},
             \A u \in UserIds \ {Me} : server'[u] = server[u]
      PROVE  Foretold'
  <2>1. \A u \in UserIds \ {Me} :
          (u \in audio'.users_in_voice) <=> (u \in audio.users_in_voice)
    BY <1>1
  <2>2. \A u \in UserIds \ {Me} : WillHear(u)' <=> WillHear(u)
    BY <1>1, <2>1 DEF WillHear, Leaves
  <2> QED BY <1>1, <2>2 DEF Foretold
<1>2. CASE \/ Connects \/ ConnectReturns \/ MuteToggle \/ JoinLeaveToggle \/ PressEscape
           \/ UNCHANGED desktopVars
  BY <1>1, <1>2
  DEF Connects, ConnectReturns, MuteToggle, JoinLeaveToggle, Clicks, PressEscape, desktopVars
<1>3. CASE LogsIn
  <2> DEFINE e == LoginResponse(0, Me, Token[Me], server')
  <2>1. e \in OthersNews \cup ListEvent
    <3>1. server' \in Participants
      BY <1>3, ServerKeeps DEF DesktopTypeOK
    <3> QED BY <3>1, DevicesAreSome, DesktopAssumption, ProtocolAssumption
            DEF LoginResponse, ListEvent, Response, ResponseTypes, Tokens, Ids
  <2>2. events' = Append(events, e) /\ UNCHANGED <<channel, audio>> /\ session # "away"
        /\ session' # "away" /\ \A u \in UserIds \ {Me} : server'[u] = server[u]
    BY <1>3 DEF LogsIn, DesktopTypeOK, Participants
  <2>3. \A u : ~Tells(e, u)
    BY DEF Tells, LoginResponse
  <2> HIDE DEF e
  <2>4. ASSUME NEW u \in UserIds \ {Me} PROVE WillHear(u)' <=> WillHear(u)
    <3> DEFINE heard == u \in audio.users_in_voice
    <3>1. heard \in BOOLEAN
      OBVIOUS
    <3> HIDE DEF heard
    <3>2. Leaves(Append(events, e), u, heard) <=> After(e, u, Leaves(events, u, heard))
      BY <2>1, <3>1, LeavesAppend DEF OthersOnly
    <3>3. Leaves(Append(events, e), u, heard) <=> Leaves(events, u, heard)
      BY <2>3, <3>2 DEF After
    <3> QED BY <2>2, <3>3 DEF WillHear, heard, Leaves
  <2> QED BY <2>2, <2>4 DEF Foretold
<1>4. CASE ServerHandles
  BY <1>1, <1>4 DEF ServerHandles, DesktopTypeOK, Participants
<1>5. ASSUME NEW d \in Devices, SelectInputDevice(d) \/ SelectOutputDevice(d) PROVE Foretold'
  <2>1. audio'.users_in_voice = audio.users_in_voice
    <3>1. audio \in Audio
      BY DEF AudioOK
    <3> QED BY <1>5, <3>1
        DEF SelectInputDevice, SelectOutputDevice, CreateOutputs, RemoveAllOutputs, Audio
  <2>2. Selects(TRUE) \/ Selects(FALSE)
    BY <1>5 DEF SelectInputDevice, SelectOutputDevice
  <2> QED BY <1>1, <2>1, <2>2 DEF Selects
<1>6. ASSUME NEW m \in bus,
             \/ RunFuture(m) \/ DeliverConnected(m) \/ DeliverSwitchView(m)
             \/ DeliverMuteInput(m) \/ DeliverExecute(m)
      PROVE  Foretold'
  <2>1. audio \in Audio
    BY DEF AudioOK
  <2>2. audio'.users_in_voice = audio.users_in_voice
    BY <1>6, <2>1 DEF RunFuture, DeliverConnected, DeliverSwitchView, DeliverMuteInput,
                      DeliverExecute, Audio
  <2> QED BY <1>1, <1>6, <2>2
      DEF RunFuture, DeliverConnected, DeliverSwitchView, DeliverMuteInput,
          DeliverExecute, delivering
<1>7. ASSUME NEW m \in bus, DeliverResult(m) PROVE Foretold'
  <2>1. audio \in Audio
    BY DEF AudioOK
  <2>2. audio.user_id = Me
    BY <1>7, DevicesAreSome DEF DeliverResult, BeforeRoom, Simple, AudioOK
  <2>3. audio'.users_in_voice \ {Me} = audio.users_in_voice \ {Me}
    BY <1>7, <2>1, <2>2
    DEF DeliverResult, Joined, Left, CreateOutputs, StartRecording, StopRecording,
        RemoveAllOutputs, Audio
  <2> QED BY <1>1, <1>7, <2>3 DEF DeliverResult, delivering
<1>8. ASSUME NEW c \in waiting, TimesOut(c) PROVE Foretold'
  BY <1>1, <1>8 DEF TimesOut
<1> QED
  BY <1>2, <1>3, <1>4, <1>5, <1>6, <1>7, <1>8, OtherActsForetold, ForwardForetold,
     DeliverEventForetold
  DEF DesktopNext, Deliver

-----------------------------------------------------------------------------
(* The room and the audio manager, while the user clicks one thing at a     *)
(* time.                                                                    *)

\* What a click has put on the bus.
Jobs == {m \in bus : m.what \notin {"Connected", "SwitchView"}}

\* At most one click has consequences to come, and in one place: on the bus, or
\* with the server, when Join and Leave wait for the response, which is no error.
Idle == Jobs = {} /\ outbox = <<>> /\ waiting = {}
OneAtATime ==
    \/ Idle
    \/ /\ \E m \in Message : Jobs = {m} /\ (m.what = "Result" => m.ok)
       /\ outbox = <<>> /\ waiting = {}
    \/ /\ Jobs = {}
       /\ \E p \in Packet : /\ outbox = <<p>>
                            /\ waiting = IF p.what = "Call" THEN {p.n} ELSE {}

\* The room, the audio manager and the server differ by that one job alone.
InStep ==
    /\ InVoiceShown <=> InVoice(audio)
    /\ \A m \in Jobs : m.what = "Result" => (server[Me].in_voice <=> m.kind = "Join")
    /\ (\A m \in Jobs : m.what # "Result") => (server[Me].in_voice <=> InVoice(audio))
    /\ \A m \in Jobs : m.what = "MuteInput" => room.muted = m.muted
    /\ (\A m \in Jobs : m.what # "MuteInput") => room.muted = audio.is_input_muted

\* The list of the login comes once, with Me in it; until the room has it the
\* user has not clicked anything.
IsList(e) == e.type = "LoginResponse"
Fresh == /\ Idle /\ ~server[Me].in_voice /\ Me \notin audio.users_in_voice
         /\ room.participants[Me] = NoInfo
FirstList ==
    /\ room.user_id \in {0, Me}
    /\ room.user_id = 0 => Fresh
    /\ room.user_id = Me => room.participants[Me].username # NoName
    /\ session \in {"away", "connected"} =>
          room.user_id = 0 /\ \A i \in 1..Len(events) : ~IsList(events[i])
    /\ \A i \in 1..Len(events) : IsList(events[i]) =>
          /\ room.user_id = 0 /\ ~events[i].participants[Me].in_voice
          /\ events[i].participants[Me].username # NoName
          /\ \A j \in 1..Len(events) : IsList(events[j]) => j = i

\* The room's entry of Me is the server's, but for the click that is due: a mute
\* that the server has yet to hear of, or a result that the room has.
Due == Jobs \cup {outbox[i] : i \in 1..Len(outbox)}
Mutes(m) == m.what \in {"MuteInput", "SendMute"}
Returns(m) == m.what = "Result"
Untold == /\ ~server[Me].is_muted
          /\ \A i \in 1..Len(events) :
                IsList(events[i]) => events[i].participants[Me] = server[Me]
Told ==
    /\ room.participants[Me].is_muted => room.muted
    /\ \A m \in Due : Mutes(m) =>
          room.participants[Me] = [server[Me] EXCEPT !.is_muted = m.muted]
    /\ \A m \in Due : Returns(m) =>
          server[Me] = Info(room.participants[Me].username, m.kind = "Join", FALSE)
    /\ (\A m \in Due : ~Mutes(m) /\ ~Returns(m)) => room.participants[Me] = server[Me]
SameEntry == (room.user_id = 0 => Untold) /\ (room.user_id = Me => Told)

Patient == ~strained => OneAtATime /\ InStep /\ FirstList /\ SameEntry

LEMMA PatientInitially == DesktopInit => Patient
<1> SUFFICES ASSUME DesktopInit PROVE Patient
  OBVIOUS
<1>1. /\ bus = {} /\ outbox = <<>> /\ waiting = {} /\ events = <<>>
      /\ server[Me] = NoInfo /\ audio = NoSession
      /\ room = [user_id |-> 0, muted |-> FALSE, participants |-> Nobody]
  BY DEF DesktopInit
<1>2. /\ Me \in UserIds /\ 0 \notin UserIds /\ ~server[Me].in_voice
      /\ room.participants[Me] = NoInfo
  BY <1>1, DesktopAssumption DEF Nobody, UserIds, NoInfo, Info
<1>3. Idle /\ Jobs = {}
  BY <1>1 DEF Idle, Jobs
<1>4. ~InVoiceShown /\ ~InVoice(audio)
  BY <1>1, <1>2 DEF InVoiceShown, InVoice, NoSession
<1>5. InStep
  BY <1>1, <1>2, <1>3, <1>4 DEF InStep, NoSession
<1>6. FirstList
  BY <1>1, <1>2, <1>3 DEF FirstList, Fresh, NoSession
<1>7. SameEntry
  BY <1>1, <1>2 DEF SameEntry, Untold, NoInfo, Info
<1> QED BY <1>3, <1>5, <1>6, <1>7 DEF Patient, OneAtATime

\* A job on the bus is the only one.
LEMMA TheJob ==
    ASSUME OneAtATime, NEW m \in Jobs
    PROVE  /\ Jobs = {m} /\ outbox = <<>> /\ waiting = {}
           /\ m.what = "Result" => m.ok
BY DEF OneAtATime, Idle

\* A step that leaves the click and its three witnesses alone.
LEMMA Undisturbed ==
    ASSUME OneAtATime, InStep, UNCHANGED <<outbox, waiting>>, Jobs' = Jobs,
           InVoiceShown' <=> InVoiceShown, InVoice(audio)' <=> InVoice(audio),
           server'[Me].in_voice = server[Me].in_voice, room'.muted = room.muted,
           audio'.is_input_muted = audio.is_input_muted
    PROVE  OneAtATime' /\ InStep'
<1>1. OneAtATime'
  BY DEF OneAtATime, Idle
<1>2. InStep'
  BY DEF InStep
<1> QED BY <1>1, <1>2

\* The same of the list of the login: nothing but the login sends one.
LEMMA ListUndisturbed ==
    ASSUME FirstList, OthersOnly, Me \in UserIds, Me # 0, UNCHANGED <<room, outbox, waiting>>,
           Jobs' = Jobs, server'[Me].in_voice = server[Me].in_voice,
           (Me \in audio.users_in_voice)' <=> Me \in audio.users_in_voice,
           session' \in {"away", "connected"} => session \in {"away", "connected"},
           \/ events' = events
           \/ \E e \in OthersNews : events' = Append(events, e)
    PROVE  FirstList'
<1>1. Fresh' <=> Fresh
  BY DEF Fresh, Idle
<1>2. /\ events \in Seq(OthersNews \cup ListEvent) /\ Len(events) \in Nat
      /\ \A i \in 1..Len(events') :
           \/ i \in 1..Len(events) /\ events'[i] = events[i]
           \/ ~IsList(events'[i])
  <2>1. \A e \in OthersNews : ~IsList(e)
    BY DEF OthersNews, News, NewsTypes, IsList
  <2> QED BY <2>1 DEF OthersOnly
<1> QED BY <1>1, <1>2 DEF FirstList

\* Once the room knows its user, the list is there.
LEMMA ListIsThere ==
    ASSUME FirstList, Me # 0, room.user_id = Me, room'.user_id = Me,
           room'.participants[Me].username = room.participants[Me].username,
           UNCHANGED <<events, session>>
    PROVE  FirstList'
BY DEF FirstList

\* What happens to others, and how the connection comes up, is no job.
LEMMA ServerIsPatient ==
    ASSUME DesktopInv, OneAtATime, InStep, FirstList,
           \/ \E u \in UserIds : OtherActs(u)
           \/ Connects \/ ConnectReturns \/ ForwardNews
    PROVE  OneAtATime' /\ InStep' /\ FirstList'
<1> USE DEF DesktopInv
<1>1. UNCHANGED <<outbox, waiting, room, audio>>
  BY DEF OtherActs, serverIdle, Connects, ConnectReturns, ForwardNews
<1>2. Jobs' = Jobs
  <2>1. bus' = bus \/ bus' = bus \cup {Simple("Connected")}
    BY DEF OtherActs, serverIdle, Connects, ConnectReturns, ForwardNews
  <2> QED BY <2>1 DEF Jobs, Simple
<1>3. server'[Me] = server[Me]
  BY DesktopAssumption
  DEF OtherActs, Connects, ConnectReturns, ForwardNews, DesktopTypeOK, Participants
<1>4. \/ events' = events
      \/ \E e \in OthersNews : events' = Append(events, e)
  BY SequenceParts DEF OtherActs, serverIdle, Connects, ConnectReturns, ForwardNews, OthersOnly
<1>5. session' \in {"away", "connected"} => session \in {"away", "connected"}
  BY DEF OtherActs, serverIdle, Connects, ConnectReturns, ForwardNews
<1>6. (InVoiceShown' <=> InVoiceShown) /\ (InVoice(audio)' <=> InVoice(audio))
  BY <1>1 DEF InVoiceShown, InVoice
<1>7. OneAtATime' /\ InStep'
  BY <1>1, <1>2, <1>3, <1>6, Undisturbed
<1>8. FirstList'
  BY <1>1, <1>2, <1>3, <1>4, <1>5, DevicesAreSome, DesktopAssumption, ListUndisturbed
<1> QED BY <1>7, <1>8

LEMMA LoginIsPatient ==
    ASSUME DesktopInv, OneAtATime, InStep, FirstList, LogsIn
    PROVE  OneAtATime' /\ InStep' /\ FirstList'
<1> USE DEF DesktopInv
<1> DEFINE e == LoginResponse(0, Me, Token[Me], server')
<1>1. /\ UNCHANGED <<outbox, waiting, room, audio, bus>>
      /\ events' = Append(events, e) /\ session = "connected" /\ session' = "answered"
      /\ server' = [server EXCEPT ![Me].username = SomeName]
  BY DEF LogsIn
<1>2. Jobs' = Jobs
  BY <1>1 DEF Jobs
<1>3. /\ Me \in UserIds /\ Me # 0 /\ server[Me] \in ParticipantInfo
      /\ server'[Me].in_voice = server[Me].in_voice
      /\ server'[Me] = [server[Me] EXCEPT !.username = SomeName]
  BY <1>1, DesktopAssumption, DevicesAreSome DEF DesktopTypeOK, Participants, ParticipantInfo
<1>6. (InVoiceShown' <=> InVoiceShown) /\ (InVoice(audio)' <=> InVoice(audio))
  BY <1>1 DEF InVoiceShown, InVoice
<1>7. OneAtATime' /\ InStep'
  BY <1>1, <1>2, <1>3, <1>6, Undisturbed
<1>8. room.user_id = 0 /\ Fresh /\ Fresh' /\ \A i \in 1..Len(events) : ~IsList(events[i])
  BY <1>1, <1>2, <1>3 DEF FirstList, Fresh, Idle
<1>9. ~e.participants[Me].in_voice /\ e.participants[Me].username # NoName
  <2>1. SomeName # NoName
    BY NamesAreNames, ProtocolAssumption DEF NoName
  <2>2. server'[Me].username = SomeName /\ ~server'[Me].in_voice
    BY <1>3, <1>8 DEF Fresh, ParticipantInfo
  <2>3. e.participants = server'
    BY DEF LoginResponse
  <2> QED BY <2>1, <2>2, <2>3
<1>10. FirstList'
  <2> HIDE DEF e
  <2>1. /\ Len(events') = Len(events) + 1 /\ events'[Len(events) + 1] = e
        /\ \A i \in 1..Len(events) : events'[i] = events[i]
        /\ Len(events) \in Nat
    BY <1>1 DEF OthersOnly
  <2>2. \A i \in 1..Len(events') : IsList(events'[i]) => i = Len(events) + 1
    BY <1>8, <2>1
  <2> QED BY <1>1, <1>3, <1>8, <1>9, <2>1, <2>2 DEF FirstList
<1> QED BY <1>7, <1>10

\* The user's other steps: Escape, and devices that are selected.
LEMMA SelectIsPatient ==
    ASSUME DesktopInv, OneAtATime, InStep, FirstList,
           \/ PressEscape
           \/ \E d \in Devices : SelectInputDevice(d) \/ SelectOutputDevice(d)
    PROVE  OneAtATime' /\ InStep' /\ FirstList'
<1> USE DEF DesktopInv
<1>1. UNCHANGED <<outbox, waiting, room, server, events, session>>
  BY DEF PressEscape, SelectInputDevice, SelectOutputDevice, Selects
<1>2. Jobs' = Jobs
  BY DEF PressEscape, SelectInputDevice, SelectOutputDevice, Selects, Jobs, Simple
<1>3. /\ audio'.users_in_voice = audio.users_in_voice /\ audio'.user_id = audio.user_id
      /\ audio'.is_input_muted = audio.is_input_muted
  <2>1. audio \in Audio
    BY DEF AudioOK
  <2> QED BY <2>1 DEF PressEscape, SelectInputDevice, SelectOutputDevice, CreateOutputs,
                      RemoveAllOutputs, Audio
<1>4. (InVoiceShown' <=> InVoiceShown) /\ (InVoice(audio)' <=> InVoice(audio))
  BY <1>1, <1>3 DEF InVoiceShown, InVoice
<1>5. OneAtATime' /\ InStep'
  BY <1>1, <1>2, <1>3, <1>4, Undisturbed
<1>6. FirstList'
  BY <1>1, <1>2, <1>3, DevicesAreSome, DesktopAssumption, ListUndisturbed
<1> QED BY <1>5, <1>6

\* News about others does not change the entry of Me.
LEMMA NewsIsOfOthers ==
    ASSUME NEW e \in OthersNews, NEW list \in Participants
    PROVE  ApplyNews(list, e)[Me] = list[Me]
BY DesktopAssumption DEF ApplyNews, OthersNews, News, Participants

LEMMA EventIsPatient ==
    ASSUME DesktopInv, OneAtATime, InStep, FirstList, DeliverEvent
    PROVE  OneAtATime' /\ InStep' /\ FirstList'
<1> USE DEF DesktopInv
<1> DEFINE e == Head(events)
<1>1. /\ events # <<>> /\ events' = Tail(events) /\ room' = ReceiveEvent(room, e)
      /\ UNCHANGED <<server, session, bus, outbox, waiting>>
  BY DEF DeliverEvent
<1>2. /\ Me \in UserIds /\ Me # 0 /\ 0 \notin UserIds /\ audio \in Audio
      /\ config \in Configs /\ failed \in BOOLEAN /\ room \in RoomPage
  BY DesktopAssumption, DevicesAreSome DEF AudioOK, DesktopTypeOK, Configs, UserIds
<1>3. \/ e \in OthersNews /\ ~IsList(e)
      \/ e \in ListEvent /\ IsList(e) /\ e.id = Me
  BY <1>1 DEF OthersOnly, ListEvent, OthersNews, News, NewsTypes, IsList
<1>4. /\ (Me \in audio'.users_in_voice) <=> (Me \in audio.users_in_voice)
      /\ audio'.user_id = audio.user_id /\ audio'.is_input_muted = audio.is_input_muted
      /\ audio'.users_in_voice \subseteq UserIds
  <2>1. CASE e.type = "UserJoinedVoice"
    <3>1. PICK broken \in SUBSET {e.user_id} : audio' = HearJoin(audio, e.user_id, broken)
      BY <2>1 DEF DeliverEvent
    <3>2. e.user_id \in UserIds \ {Me}
      BY <1>3, <2>1 DEF OthersNews, IsList
    <3> HIDE DEF e
    <3>3. /\ HearJoin(audio, e.user_id, broken).users_in_voice
                = audio.users_in_voice \cup {e.user_id}
          /\ HearJoin(audio, e.user_id, broken).user_id = audio.user_id
      BY <1>2, <3>2, HearJoinKeeps
    <3>4. HearJoin(audio, e.user_id, broken).is_input_muted = audio.is_input_muted
      BY <1>2 DEF HearJoin, CreateOutputs, Audio
    <3> QED BY <3>1, <3>2, <3>3, <3>4 DEF AudioOK
  <2>2. CASE e.type = "UserLeftVoice"
    <3>1. audio' = HearLeave(audio, e.user_id)
      BY <2>2 DEF DeliverEvent
    <3>2. e.user_id \in UserIds \ {Me}
      BY <1>3, <2>2 DEF OthersNews, IsList
    <3> HIDE DEF e
    <3>3. /\ HearLeave(audio, e.user_id).users_in_voice = audio.users_in_voice \ {e.user_id}
          /\ HearLeave(audio, e.user_id).user_id = audio.user_id
      BY <3>2, HearLeaveKeeps
    <3>4. HearLeave(audio, e.user_id).is_input_muted = audio.is_input_muted
      BY <1>2 DEF HearLeave, RemoveOutput, Audio
    <3> QED BY <3>1, <3>2, <3>3, <3>4 DEF AudioOK
  <2>3. CASE e.type \notin {"UserJoinedVoice", "UserLeftVoice"}
    BY <2>3 DEF DeliverEvent, AudioOK
  <2> QED BY <2>1, <2>2, <2>3
<1>5. Jobs' = Jobs
  BY <1>1 DEF Jobs
<1>6. /\ Len(events) \in Nat \ {0} /\ events[1] = e
      /\ Len(events') = Len(events) - 1
      /\ \A i \in 1..Len(events') : events'[i] = events[i + 1]
  BY <1>1 DEF OthersOnly
<1>7. CASE e \in OthersNews /\ ~IsList(e)
  <2> HIDE DEF e
  <2>1. room' = [room EXCEPT !.participants = ApplyNews(@, e)]
    BY <1>1, <1>7 DEF ReceiveEvent, IsList
  <2>2. ApplyNews(room.participants, e)[Me] = room.participants[Me]
    BY <1>2, <1>7, NewsIsOfOthers DEF RoomPage
  <2>3. /\ room'.user_id = room.user_id /\ room'.muted = room.muted
        /\ room'.participants[Me] = room.participants[Me]
    BY <1>2, <2>1, <2>2 DEF RoomPage
  <2>4. (InVoiceShown' <=> InVoiceShown) /\ (InVoice(audio)' <=> InVoice(audio))
    <3>1. InVoice(audio)' <=> InVoice(audio)
      BY <1>2, <1>4 DEF InVoice, AudioOK
    <3>2. room.user_id \in {0, Me}
      BY DEF FirstList
    <3> QED BY <1>2, <2>3, <3>1, <3>2 DEF InVoiceShown
  <2>5. OneAtATime' /\ InStep'
    BY <1>1, <1>4, <1>5, <2>3, <2>4, Undisturbed
  <2>6. Fresh' <=> Fresh
    BY <1>1, <1>4, <1>5, <2>3 DEF Fresh, Idle
  <2>7. FirstList'
    <3>1. ASSUME NEW i \in 1..Len(events') PROVE i + 1 \in 1..Len(events)
      BY <1>6
    <3>2. ASSUME NEW i \in 1..Len(events'), IsList(events'[i])
          PROVE  /\ room'.user_id = 0 /\ ~events'[i].participants[Me].in_voice
                 /\ events'[i].participants[Me].username # NoName
                 /\ \A j \in 1..Len(events') : IsList(events'[j]) => j = i
      <4>1. \A j \in 1..Len(events') : IsList(events'[j]) => j + 1 = i + 1
        BY <1>6, <3>1, <3>2 DEF FirstList
      <4> QED BY <1>6, <2>3, <3>1, <3>2, <4>1 DEF FirstList
    <3>3. session \in {"away", "connected"} =>
            \A i \in 1..Len(events') : ~IsList(events'[i])
      BY <1>6, <3>1 DEF FirstList
    <3> QED BY <1>1, <2>3, <2>6, <3>2, <3>3 DEF FirstList
  <2> QED BY <2>5, <2>7
<1>8. CASE e \in ListEvent /\ IsList(e) /\ e.id = Me
  <2>1. /\ room.user_id = 0 /\ Fresh /\ ~e.participants[Me].in_voice
        /\ e.participants[Me].username # NoName
        /\ \A j \in 1..Len(events) : IsList(events[j]) => j = 1
        /\ session \notin {"away", "connected"}
    <3>1. 1 \in 1..Len(events) /\ IsList(events[1])
      BY <1>6, <1>8
    <3> QED BY <1>6, <3>1 DEF FirstList
  <2> HIDE DEF e
  <2>2. room' = [room EXCEPT !.user_id = e.id, !.participants = e.participants]
    BY <1>1, <1>8 DEF ReceiveEvent, IsList
  <2>3. /\ room'.user_id = Me /\ room'.muted = room.muted
        /\ room'.participants = e.participants
    BY <1>2, <1>8, <2>2 DEF RoomPage
  <2>4. ~InVoiceShown /\ ~InVoiceShown'
    BY <1>2, <2>1, <2>3 DEF InVoiceShown
  <2>5. InVoice(audio)' <=> InVoice(audio)
    BY <1>2, <1>4 DEF InVoice, AudioOK
  <2>6. OneAtATime' /\ InStep'
    BY <1>1, <1>4, <1>5, <2>3, <2>4, <2>5, Undisturbed
  <2>7. \A i \in 1..Len(events') : ~IsList(events'[i])
    <3>1. ASSUME NEW i \in 1..Len(events') PROVE i + 1 \in 1..Len(events) /\ i + 1 # 1
      BY <1>6
    <3> QED BY <1>6, <2>1, <3>1
  <2>8. FirstList'
    BY <1>1, <1>2, <2>1, <2>3, <2>7 DEF FirstList
  <2> QED BY <2>6, <2>8
<1> QED BY <1>3, <1>7, <1>8

\* A click that is not premature finds the application idle.
LEMMA ClickIsPatient ==
    ASSUME DesktopInv, OneAtATime, InStep, FirstList, ~strained',
           MuteToggle \/ JoinLeaveToggle
    PROVE  OneAtATime' /\ InStep' /\ FirstList'
<1> USE DEF DesktopInv
<1>1. /\ UNCHANGED <<server, outbox, waiting, audio, events, session>>
      /\ bus = {} /\ waiting = {} /\ outbox = <<>> /\ room.participants[Me] # NoInfo
      /\ clicks' = clicks + 1 /\ clicks < MaxClicks
  BY DEF MuteToggle, JoinLeaveToggle, Clicks, Busy
<1>2. /\ room.user_id = Me /\ Me \in UserIds /\ Me # 0 /\ room \in RoomPage
      /\ room.participants[Me] \in ParticipantInfo /\ clicks' \in 1..MaxClicks
  BY <1>1, DesktopAssumption, DevicesAreSome, BoundsAreNaturals
  DEF FirstList, Fresh, DesktopTypeOK, RoomPage, Participants
<1>3. /\ InVoiceShown <=> InVoice(audio)
      /\ server[Me].in_voice <=> InVoice(audio)
      /\ room.muted = audio.is_input_muted
  BY <1>1 DEF InStep, Jobs
<1>4. InVoice(audio)' <=> InVoice(audio)
  BY <1>1 DEF InVoice
<1>5. CASE MuteToggle
  <2> DEFINE muted == ~room.muted
             r == [room EXCEPT !.muted = muted]
             own == [Own(room) EXCEPT !.is_muted = muted]
             m == Muting("MuteInput", clicks', muted)
  <2>1. room' = WithOwn(r, own) /\ bus' = {m}
    BY <1>1, <1>5 DEF MuteToggle
  <2>2. /\ r \in RoomPage /\ r.user_id = Me /\ r.muted = muted
        /\ r.participants = room.participants
    BY <1>2 DEF RoomPage
  <2>3. /\ own.in_voice = room.participants[Me].in_voice
        /\ own.username = room.participants[Me].username
    BY <1>2 DEF Own, ParticipantInfo
  <2>4. m \in Message /\ m.what = "MuteInput" /\ m.muted = muted
    BY <1>2 DEF Muting, Message, DesktopTypeOK, RoomPage
  <2> HIDE DEF own, r, m
  <2>5. room' = [r EXCEPT !.participants[r.user_id] = own]
    BY <1>1, <1>2, <2>1, <2>2 DEF WithOwn, Own
  <2>6. room'.user_id = Me /\ room'.muted = muted /\ room'.participants[Me] = own
    BY <1>2, <2>2, <2>5 DEF RoomPage, Participants
  <2>7. InVoiceShown' <=> InVoiceShown
    BY <1>2, <2>3, <2>6 DEF InVoiceShown
  <2>8. Jobs' = {m}
    BY <2>1, <2>4 DEF Jobs
  <2>9. OneAtATime'
    BY <1>1, <2>4, <2>8 DEF OneAtATime
  <2>10. InStep'
    BY <1>1, <1>3, <1>4, <2>4, <2>6, <2>7, <2>8 DEF InStep
  <2>11. FirstList'
    BY <1>1, <1>2, <2>3, <2>6, ListIsThere
  <2> QED BY <2>9, <2>10, <2>11
<1>6. CASE JoinLeaveToggle
  <2> DEFINE m == Command("Execute", clicks', IF InVoiceShown THEN "Leave" ELSE "Join")
  <2>1. bus' = {m} /\ room' = room
    BY <1>1, <1>6 DEF JoinLeaveToggle
  <2>2. m \in Message /\ m.what = "Execute"
    BY <1>2 DEF Command, Message, Kinds
  <2> HIDE DEF m
  <2>3. Jobs' = {m}
    BY <2>1, <2>2 DEF Jobs
  <2>4. InVoiceShown' <=> InVoiceShown
    BY <2>1 DEF InVoiceShown
  <2>5. OneAtATime'
    BY <1>1, <2>2, <2>3 DEF OneAtATime
  <2>6. InStep'
    BY <1>1, <1>3, <1>4, <2>1, <2>2, <2>3, <2>4 DEF InStep
  <2>7. FirstList'
    BY <1>1, <1>2, <2>1, ListIsThere
  <2> QED BY <2>5, <2>6, <2>7
<1> QED BY <1>5, <1>6

\* Messages that are no job: the connection's, and the switch to the room.
LEMMA SwitchIsPatient ==
    ASSUME DesktopInv, OneAtATime, InStep, FirstList, NEW m \in bus,
           DeliverConnected(m) \/ DeliverSwitchView(m)
    PROVE  OneAtATime' /\ InStep' /\ FirstList'
<1> USE DEF DesktopInv
<1>1. UNCHANGED <<outbox, waiting, room, server, events, session>>
  BY DEF DeliverConnected, DeliverSwitchView, delivering
<1>2. Jobs' = Jobs
  BY DEF DeliverConnected, DeliverSwitchView, Jobs, Simple
<1>3. /\ audio'.users_in_voice = audio.users_in_voice
      /\ audio'.is_input_muted = audio.is_input_muted
      /\ InVoice(audio)' <=> InVoice(audio)
  <2>0. audio \in Audio /\ Me # 0 /\ 0 \notin UserIds
    BY DevicesAreSome DEF AudioOK, UserIds
  <2>1. CASE DeliverSwitchView(m)
    BY <2>1 DEF DeliverSwitchView, InVoice
  <2>2. CASE DeliverConnected(m)
    <3>1. /\ audio'.user_id = Me /\ audio'.users_in_voice = audio.users_in_voice
          /\ audio'.is_input_muted = audio.is_input_muted
      BY <2>0, <2>2 DEF DeliverConnected, Audio
    <3> QED BY <2>0, <3>1 DEF InVoice, AudioOK, BeforeRoom
  <2> QED BY <2>1, <2>2
<1>4. InVoiceShown' <=> InVoiceShown
  BY <1>1 DEF InVoiceShown
<1>5. OneAtATime' /\ InStep'
  BY <1>1, <1>2, <1>3, <1>4, Undisturbed
<1>6. FirstList'
  BY <1>1, <1>2, <1>3, DevicesAreSome, DesktopAssumption, ListUndisturbed
<1> QED BY <1>5, <1>6

\* A job, as it goes from the bus to the runtime and from there to the server.
LEMMA JobIsPatient ==
    ASSUME DesktopInv, OneAtATime, InStep, FirstList, NEW m \in bus,
           RunFuture(m) \/ DeliverMuteInput(m) \/ DeliverExecute(m)
    PROVE  OneAtATime' /\ InStep' /\ FirstList'
<1> USE DEF DesktopInv
<1>1. UNCHANGED <<room, server, events, session>>
  BY DEF RunFuture, DeliverMuteInput, DeliverExecute, delivering
<1>2. m \in Message /\ m \in Jobs
  BY DEF RunFuture, DeliverMuteInput, DeliverExecute, Jobs, DesktopTypeOK
<1>3. Jobs = {m} /\ outbox = <<>> /\ waiting = {}
  BY <1>2, TheJob
<1>4. /\ room.user_id = Me /\ Me # 0 /\ audio \in Audio
  BY <1>2, DevicesAreSome DEF FirstList, Fresh, Idle, AudioOK
<1>5. FirstList'
  BY <1>1, <1>4, ListIsThere
<1>6. InVoiceShown' <=> InVoiceShown
  BY <1>1 DEF InVoiceShown
<1>7. CASE RunFuture(m)
  <2>1. /\ bus' = bus \ {m} /\ outbox' = Append(outbox, m) /\ m.what # "Result"
        /\ waiting' = (IF m.what = "Call" THEN waiting \cup {m.n} ELSE waiting)
        /\ m.what \in {"Call", "SendMute"} /\ audio' = audio
    BY <1>7 DEF RunFuture
  <2>2. Jobs' = {}
    BY <1>3, <2>1 DEF Jobs
  <2>3. m \in Packet /\ outbox' = <<m>>
    BY <1>2, <1>3, <2>1 DEF Packet
  <2>4. OneAtATime'
    BY <1>3, <2>1, <2>2, <2>3 DEF OneAtATime
  <2>5. InVoice(audio)' <=> InVoice(audio)
    BY <2>1 DEF InVoice
  <2>6. InStep'
    BY <1>1, <1>3, <1>6, <2>1, <2>2, <2>5 DEF InStep
  <2> QED BY <1>5, <2>4, <2>6
<1>8. CASE DeliverMuteInput(m)
  <2> DEFINE next == Muting("SendMute", m.n, m.muted)
  <2>1. /\ bus' = (bus \ {m}) \cup {next} /\ UNCHANGED <<outbox, waiting>>
        /\ audio' = [audio EXCEPT !.is_input_muted = m.muted] /\ m.what = "MuteInput"
    BY <1>8 DEF DeliverMuteInput, delivering
  <2>2. next \in Message /\ next.what = "SendMute"
    BY <1>2, <2>1 DEF Muting, Message
  <2>3. Jobs' = {next}
    <3> HIDE DEF next
    <3> QED BY <1>3, <2>1, <2>2 DEF Jobs
  <2> HIDE DEF next
  <2>4. OneAtATime'
    BY <1>3, <2>1, <2>2, <2>3 DEF OneAtATime
  <2>5. /\ audio'.user_id = audio.user_id /\ audio'.is_input_muted = m.muted
        /\ audio'.users_in_voice = audio.users_in_voice
    BY <1>4, <2>1 DEF Audio
  <2>6. InVoice(audio)' <=> InVoice(audio)
    BY <2>5 DEF InVoice
  <2>7. InStep'
    BY <1>1, <1>3, <1>6, <2>1, <2>2, <2>3, <2>5, <2>6 DEF InStep
  <2> QED BY <1>5, <2>4, <2>7
<1>9. CASE DeliverExecute(m)
  <2> DEFINE next == Command("Call", m.n, m.kind)
  <2>1. /\ bus' = (bus \ {m}) \cup {next} /\ UNCHANGED <<outbox, waiting, audio>>
        /\ m.what = "Execute"
    BY <1>9 DEF DeliverExecute, delivering
  <2>2. next \in Message /\ next.what = "Call"
    BY <1>2, <2>1 DEF Command, Message
  <2>3. Jobs' = {next}
    <3> HIDE DEF next
    <3> QED BY <1>3, <2>1, <2>2 DEF Jobs
  <2> HIDE DEF next
  <2>4. OneAtATime'
    BY <1>3, <2>1, <2>2, <2>3 DEF OneAtATime
  <2>5. InVoice(audio)' <=> InVoice(audio)
    BY <2>1 DEF InVoice
  <2>6. InStep'
    BY <1>1, <1>3, <1>6, <2>1, <2>2, <2>3, <2>5 DEF InStep
  <2> QED BY <1>5, <2>4, <2>6
<1> QED BY <1>7, <1>8, <1>9

\* The server carries out the packet, and the answer goes to the bus.
LEMMA AnswerIsPatient ==
    ASSUME DesktopInv, OneAtATime, InStep, FirstList, ServerHandles
    PROVE  OneAtATime' /\ InStep' /\ FirstList'
<1> USE DEF DesktopInv
<1>1. /\ UNCHANGED <<room, audio, events, session>>
      /\ outbox # <<>> /\ outbox' = Tail(outbox)
  BY DEF ServerHandles
<1>2. PICK p \in Packet : /\ Jobs = {} /\ outbox = <<p>>
                          /\ waiting = IF p.what = "Call" THEN {p.n} ELSE {}
  BY <1>1 DEF OneAtATime, Idle
<1>3. p = Head(outbox) /\ outbox' = <<>> /\ p \in Message
  BY <1>1, <1>2 DEF Packet
<1>4. room.user_id = Me /\ Me # 0 /\ Me \in UserIds /\ server[Me] \in ParticipantInfo
  BY <1>1, DevicesAreSome, DesktopAssumption
  DEF FirstList, Fresh, Idle, DesktopTypeOK, Participants
<1>5. FirstList'
  BY <1>1, <1>4, ListIsThere
<1>6. (InVoiceShown' <=> InVoiceShown) /\ (InVoice(audio)' <=> InVoice(audio))
  BY <1>1 DEF InVoiceShown, InVoice
<1>7. CASE p.what = "SendMute"
  <2>1. /\ server' = [server EXCEPT ![Me].is_muted = p.muted] /\ UNCHANGED <<waiting, bus>>
    BY <1>3, <1>7 DEF ServerHandles
  <2>2. Jobs' = {} /\ waiting' = {}
    BY <1>2, <1>7, <2>1 DEF Jobs
  <2>3. server'[Me].in_voice = server[Me].in_voice
    BY <1>4, <2>1 DEF DesktopTypeOK, Participants, ParticipantInfo
  <2>4. OneAtATime'
    BY <1>3, <2>2 DEF OneAtATime, Idle
  <2>5. InStep'
    BY <1>1, <1>2, <1>6, <2>2, <2>3 DEF InStep
  <2> QED BY <1>5, <2>4, <2>5
<1>8. CASE p.what = "Call"
  <2> DEFINE next == Result(p.n, p.kind, TRUE)
  <2>1. /\ server' = [server EXCEPT ![Me] = Info(@.username, p.kind = "Join", FALSE)]
        /\ waiting' = {} /\ bus' = bus \cup {next}
    BY <1>2, <1>3, <1>8 DEF ServerHandles
  <2>2. next \in Message /\ next.what = "Result" /\ next.ok /\ next.kind = p.kind
    BY <1>3, <1>8 DEF Result, Message
  <2>3. Jobs' = {next}
    <3> HIDE DEF next
    <3> QED BY <1>2, <2>1, <2>2 DEF Jobs
  <2> HIDE DEF next
  <2>4. server'[Me].in_voice <=> p.kind = "Join"
    BY <1>4, <2>1 DEF DesktopTypeOK, Participants, Info
  <2>5. OneAtATime'
    BY <1>3, <2>1, <2>2, <2>3 DEF OneAtATime
  <2>6. InStep'
    BY <1>1, <1>2, <1>6, <2>2, <2>3, <2>4 DEF InStep
  <2> QED BY <1>5, <2>5, <2>6
<1> QED BY <1>7, <1>8 DEF Packet

\* The result puts the room and the audio manager where the server is.
LEMMA ResultIsPatient ==
    ASSUME DesktopInv, OneAtATime, InStep, FirstList, NEW m \in bus, DeliverResult(m)
    PROVE  OneAtATime' /\ InStep' /\ FirstList'
<1> USE DEF DesktopInv
<1>1. /\ UNCHANGED <<server, events, session, outbox, waiting>>
      /\ bus' = bus \ {m} /\ m.what = "Result"
  BY DEF DeliverResult, delivering
<1>2. m \in Message /\ m \in Jobs /\ m.kind \in Kinds
  BY <1>1 DEF Jobs, DesktopTypeOK, Message
<1>3. Jobs = {m} /\ outbox = <<>> /\ waiting = {} /\ m.ok
  BY <1>1, <1>2, TheJob
<1>4. /\ room.user_id = Me /\ Me # 0 /\ Me \in UserIds /\ audio \in Audio /\ room \in RoomPage
      /\ room.participants[Me] \in ParticipantInfo
      /\ room.participants[Me].username # NoName
  BY <1>2, DevicesAreSome, DesktopAssumption
  DEF FirstList, Fresh, Idle, AudioOK, DesktopTypeOK, RoomPage, Participants
<1>5. audio.user_id = Me
  BY <1>1, <1>4 DEF BeforeRoom, Simple, AudioOK
<1>6. /\ server[Me].in_voice <=> m.kind = "Join"
      /\ room.muted = audio.is_input_muted
  BY <1>1, <1>3 DEF InStep
<1> DEFINE own == Info(Own(room).username, m.kind = "Join", FALSE)
<1>7. room' = WithOwn(room, own)
  BY <1>3 DEF DeliverResult
<1>8. own.in_voice = (m.kind = "Join") /\ own.username = room.participants[Me].username
  BY <1>4 DEF Info, Own
<1> HIDE DEF own
<1>9. room' = [room EXCEPT !.participants[room.user_id] = own]
  BY <1>4, <1>7 DEF WithOwn, Own, NoInfo, Info
<1>10. room'.user_id = Me /\ room'.muted = room.muted /\ room'.participants[Me] = own
  BY <1>4, <1>9 DEF RoomPage, Participants
<1>11. InVoiceShown' <=> m.kind = "Join"
  BY <1>4, <1>8, <1>10 DEF InVoiceShown
<1>12. /\ audio'.user_id = Me /\ audio'.is_input_muted = audio.is_input_muted
       /\ Me \in audio'.users_in_voice <=> m.kind = "Join"
  <2>1. CASE m.kind = "Join"
    <3>1. PICK opens \in BOOLEAN, broken \in SUBSET audio.users_in_voice :
            audio' = Joined(audio, opens, broken)
      BY <1>3, <2>1 DEF DeliverResult
    <3> QED BY <1>4, <1>5, <2>1, <3>1 DEF Joined, CreateOutputs, StartRecording, Audio
  <2>2. CASE m.kind = "Leave"
    <3>1. audio' = Left(audio)
      BY <1>3, <2>2 DEF DeliverResult
    <3> QED BY <1>4, <1>5, <2>2, <3>1 DEF Left, RemoveAllOutputs, StopRecording, Audio
  <2> QED BY <1>2, <2>1, <2>2 DEF Kinds
<1>13. InVoice(audio)' <=> m.kind = "Join"
  BY <1>12 DEF InVoice
<1>14. Jobs' = {}
  BY <1>1, <1>3 DEF Jobs
<1>15. OneAtATime'
  BY <1>1, <1>3, <1>14 DEF OneAtATime, Idle
<1>16. InStep'
  BY <1>1, <1>6, <1>10, <1>11, <1>12, <1>13, <1>14 DEF InStep
<1>17. FirstList'
  BY <1>1, <1>4, <1>8, <1>10, ListIsThere
<1> QED BY <1>15, <1>16, <1>17

\* A step that leaves the entry of Me alone, and what is due about it.
LEMMA EntryUndisturbed ==
    ASSUME SameEntry, OthersOnly, Due' = Due, server'[Me] = server[Me],
           room'.user_id = room.user_id, room'.muted = room.muted,
           room'.participants[Me] = room.participants[Me],
           \/ events' = events
           \/ \E e \in OthersNews : events' = Append(events, e)
    PROVE  SameEntry'
<1>1. /\ events \in Seq(OthersNews \cup ListEvent) /\ Len(events) \in Nat
      /\ \A i \in 1..Len(events') :
           \/ i \in 1..Len(events) /\ events'[i] = events[i]
           \/ ~IsList(events'[i])
  <2>1. \A e \in OthersNews : ~IsList(e)
    BY DEF OthersNews, News, NewsTypes, IsList
  <2> QED BY <2>1 DEF OthersOnly
<1>2. Untold => Untold'
  BY <1>1 DEF Untold
<1>3. Told => Told'
  BY DEF Told, Mutes, Returns
<1> QED BY <1>2, <1>3 DEF SameEntry

\* Everything but the login, the arrival of its list, and the clicks.
LEMMA OthersKeepEntry ==
    ASSUME DesktopInv, SameEntry,
           \/ \E u \in UserIds : OtherActs(u)
           \/ Connects \/ ConnectReturns \/ ForwardNews \/ PressEscape
           \/ \E d \in Devices : SelectInputDevice(d) \/ SelectOutputDevice(d)
           \/ \E m \in bus : DeliverConnected(m) \/ DeliverSwitchView(m)
    PROVE  SameEntry'
<1> USE DEF DesktopInv
<1>1. UNCHANGED <<outbox, room>>
  BY DEF OtherActs, serverIdle, Connects, ConnectReturns, ForwardNews, PressEscape,
         SelectInputDevice, SelectOutputDevice, Selects, DeliverConnected, DeliverSwitchView,
         delivering
<1>2. Jobs' = Jobs
  <2>1. \/ bus' = bus \/ bus' = bus \cup {Simple("Connected")}
        \/ bus' = bus \cup {Simple("SwitchView")}
        \/ \E m \in bus : /\ m.what \in {"Connected", "SwitchView"}
                          /\ \/ bus' = bus \ {m}
                             \/ bus' = (bus \ {m}) \cup {Simple("SwitchView")}
    BY DEF OtherActs, serverIdle, Connects, ConnectReturns, ForwardNews, PressEscape,
           SelectInputDevice, SelectOutputDevice, Selects, DeliverConnected, DeliverSwitchView
  <2> QED BY <2>1 DEF Jobs, Simple
<1>3. server'[Me] = server[Me]
  BY DesktopAssumption
  DEF OtherActs, Connects, ConnectReturns, ForwardNews, PressEscape, SelectInputDevice,
      SelectOutputDevice, Selects, DeliverConnected, DeliverSwitchView, delivering,
      DesktopTypeOK, Participants
<1>4. \/ events' = events
      \/ \E e \in OthersNews : events' = Append(events, e)
  BY SequenceParts
  DEF OtherActs, serverIdle, Connects, ConnectReturns, ForwardNews, OthersOnly, PressEscape,
      SelectInputDevice, SelectOutputDevice, Selects, DeliverConnected, DeliverSwitchView,
      delivering
<1> QED BY <1>1, <1>2, <1>3, <1>4, EntryUndisturbed DEF Due

LEMMA LoginKeepsEntry ==
    ASSUME DesktopInv, FirstList, SameEntry, LogsIn
    PROVE  SameEntry'
<1> USE DEF DesktopInv
<1> DEFINE e == LoginResponse(0, Me, Token[Me], server')
<1>1. /\ UNCHANGED room /\ events' = Append(events, e) /\ session = "connected"
      /\ server' = [server EXCEPT ![Me].username = SomeName]
  BY DEF LogsIn
<1>2. Me \in UserIds /\ Me # 0 /\ server[Me] \in ParticipantInfo
  BY DesktopAssumption, DevicesAreSome DEF DesktopTypeOK, Participants
<1>3. room.user_id = 0 /\ \A i \in 1..Len(events) : ~IsList(events[i])
  BY <1>1 DEF FirstList
<1>4. server'[Me].is_muted = server[Me].is_muted
  BY <1>1, <1>2 DEF DesktopTypeOK, Participants, ParticipantInfo
<1>5. e.participants = server'
  BY DEF LoginResponse
<1> HIDE DEF e
<1>6. \A i \in 1..Len(events') : IsList(events'[i]) => events'[i] = e
  <2>1. /\ Len(events') = Len(events) + 1 /\ events'[Len(events) + 1] = e
        /\ \A i \in 1..Len(events) : events'[i] = events[i]
        /\ Len(events) \in Nat
    BY <1>1 DEF OthersOnly
  <2> QED BY <1>3, <2>1
<1> QED BY <1>1, <1>2, <1>3, <1>4, <1>5, <1>6 DEF SameEntry, Untold

\* The list of the login has the server's entry of Me, which is not muted.
LEMMA EventKeepsEntry ==
    ASSUME DesktopInv, FirstList, SameEntry, DeliverEvent
    PROVE  SameEntry'
<1> USE DEF DesktopInv
<1> DEFINE e == Head(events)
<1>1. /\ events # <<>> /\ events' = Tail(events) /\ room' = ReceiveEvent(room, e)
      /\ UNCHANGED <<server, bus, outbox>>
  BY DEF DeliverEvent
<1>2. Me \in UserIds /\ Me # 0 /\ room \in RoomPage
  BY DesktopAssumption, DevicesAreSome DEF DesktopTypeOK
<1>3. \/ e \in OthersNews /\ ~IsList(e)
      \/ IsList(e) /\ e.id = Me
  BY <1>1 DEF OthersOnly, ListEvent, OthersNews, News, NewsTypes, IsList
<1>4. Due' = Due
  BY <1>1 DEF Due, Jobs
<1>5. /\ Len(events) \in Nat \ {0} /\ events[1] = e
      /\ Len(events') = Len(events) - 1
      /\ \A i \in 1..Len(events') : i + 1 \in 1..Len(events) /\ events'[i] = events[i + 1]
  BY <1>1 DEF OthersOnly
<1>6. CASE e \in OthersNews /\ ~IsList(e)
  <2> HIDE DEF e
  <2>1. room' = [room EXCEPT !.participants = ApplyNews(@, e)]
    BY <1>1, <1>6 DEF ReceiveEvent, IsList
  <2>2. ApplyNews(room.participants, e)[Me] = room.participants[Me]
    BY <1>2, <1>6, NewsIsOfOthers DEF RoomPage
  <2>3. /\ room'.user_id = room.user_id /\ room'.muted = room.muted
        /\ room'.participants[Me] = room.participants[Me]
    BY <1>2, <2>1, <2>2 DEF RoomPage
  <2>4. Untold => Untold'
    BY <1>1, <1>5 DEF Untold
  <2>5. Told => Told'
    BY <1>1, <1>4, <2>3 DEF Told, Mutes, Returns
  <2> QED BY <2>3, <2>4, <2>5 DEF SameEntry
<1>7. CASE IsList(e) /\ e.id = Me
  <2>1. room.user_id = 0 /\ Fresh
    <3>1. 1 \in 1..Len(events) /\ IsList(events[1])
      BY <1>5, <1>7
    <3> QED BY <1>5, <3>1 DEF FirstList
  <2>2. ~server[Me].is_muted /\ e.participants[Me] = server[Me]
    BY <1>5, <1>7, <2>1 DEF SameEntry, Untold
  <2> HIDE DEF e
  <2>3. room' = [room EXCEPT !.user_id = e.id, !.participants = e.participants]
    BY <1>1, <1>7 DEF ReceiveEvent, IsList
  <2>4. room'.user_id = Me /\ room'.participants[Me] = server'[Me]
    BY <1>1, <1>2, <1>7, <2>2, <2>3 DEF RoomPage
  <2>5. Due = {}
    BY <2>1 DEF Fresh, Idle, Due
  <2>6. Told'
    BY <1>1, <1>4, <2>2, <2>4, <2>5 DEF Told
  <2> QED BY <1>2, <2>4, <2>6 DEF SameEntry
<1> QED BY <1>3, <1>6, <1>7

\* A click is due itself, and it is the only one.
LEMMA ClickKeepsEntry ==
    ASSUME DesktopInv, FirstList, SameEntry, ~strained', MuteToggle \/ JoinLeaveToggle
    PROVE  SameEntry'
<1> USE DEF DesktopInv
<1>1. /\ UNCHANGED <<server, outbox, events>>
      /\ bus = {} /\ outbox = <<>> /\ room.participants[Me] # NoInfo
  BY DEF MuteToggle, JoinLeaveToggle, Clicks, Busy
<1>2. /\ room.user_id = Me /\ Me \in UserIds /\ Me # 0 /\ room \in RoomPage
      /\ room.participants[Me] \in ParticipantInfo /\ server[Me] \in ParticipantInfo
  BY <1>1, DesktopAssumption, DevicesAreSome
  DEF FirstList, Fresh, DesktopTypeOK, RoomPage, Participants
<1>3. Due = {}
  BY <1>1 DEF Due, Jobs
<1>4. room.participants[Me] = server[Me] /\ (server[Me].is_muted => room.muted)
  BY <1>2, <1>3 DEF SameEntry, Told
<1>5. CASE MuteToggle
  <2> DEFINE muted == ~room.muted
             r == [room EXCEPT !.muted = muted]
             own == [Own(room) EXCEPT !.is_muted = muted]
             m == Muting("MuteInput", clicks', muted)
  <2>1. room' = WithOwn(r, own) /\ bus' = {m}
    BY <1>1, <1>5 DEF MuteToggle
  <2>2. /\ r \in RoomPage /\ r.user_id = Me /\ r.muted = muted
        /\ r.participants = room.participants
    BY <1>2 DEF RoomPage
  <2>3. own = [server[Me] EXCEPT !.is_muted = muted] /\ own.is_muted = muted
    BY <1>2, <1>4 DEF Own, ParticipantInfo
  <2>4. m.what = "MuteInput" /\ m.muted = muted
    BY DEF Muting
  <2> HIDE DEF own, r, m
  <2>5. room' = [r EXCEPT !.participants[r.user_id] = own]
    BY <1>1, <1>2, <2>1, <2>2 DEF WithOwn, Own
  <2>6. room'.user_id = Me /\ room'.muted = muted /\ room'.participants[Me] = own
    BY <1>2, <2>2, <2>5 DEF RoomPage, Participants
  <2>7. Due' = {m}
    BY <1>1, <2>1, <2>4 DEF Due, Jobs
  <2> HIDE DEF muted
  <2>8. Told'
    BY <1>1, <2>3, <2>4, <2>6, <2>7 DEF Told, Mutes, Returns
  <2> QED BY <1>2, <2>6, <2>8 DEF SameEntry
<1>6. CASE JoinLeaveToggle
  <2> DEFINE m == Command("Execute", clicks', IF InVoiceShown THEN "Leave" ELSE "Join")
  <2>1. bus' = {m} /\ room' = room
    BY <1>1, <1>6 DEF JoinLeaveToggle
  <2>2. m.what = "Execute"
    BY DEF Command
  <2> HIDE DEF m
  <2>3. Due' = {m}
    BY <1>1, <2>1, <2>2 DEF Due, Jobs
  <2>4. Told'
    BY <1>1, <1>4, <2>1, <2>2, <2>3 DEF Told, Mutes, Returns
  <2> QED BY <1>2, <2>1, <2>4 DEF SameEntry
<1> QED BY <1>5, <1>6

\* On its way from the bus to the server, a click stays what it is.
LEMMA JobKeepsEntry ==
    ASSUME DesktopInv, OneAtATime, FirstList, SameEntry, NEW m \in bus,
           RunFuture(m) \/ DeliverMuteInput(m) \/ DeliverExecute(m)
    PROVE  SameEntry'
<1> USE DEF DesktopInv
<1>1. UNCHANGED <<room, server, events>>
  BY DEF RunFuture, DeliverMuteInput, DeliverExecute, delivering
<1>2. m \in Jobs
  BY DEF RunFuture, DeliverMuteInput, DeliverExecute, Jobs
<1>3. Jobs = {m} /\ outbox = <<>>
  BY <1>2, TheJob
<1>4. room.user_id = Me /\ Me # 0 /\ Due = {m} /\ m \in Message
  BY <1>2, <1>3, DevicesAreSome DEF FirstList, Fresh, Idle, Due, DesktopTypeOK
<1>5. Told
  BY <1>4 DEF SameEntry
<1>6. \E n : /\ Due' = {n} /\ ~Returns(n) /\ ~Returns(m) /\ (Mutes(n) <=> Mutes(m))
             /\ Mutes(m) => n.muted = m.muted
  <2>1. CASE RunFuture(m)
    <3>1. m.what # "Result" /\ bus' = bus \ {m} /\ outbox' = Append(outbox, m)
      BY <2>1 DEF RunFuture
    <3>2. outbox' = <<m>> /\ Jobs' = {}
      BY <1>3, <3>1 DEF Jobs
    <3>3. Due' = {m}
      BY <3>2 DEF Due
    <3> QED BY <3>1, <3>3 DEF Returns
  <2>2. CASE DeliverMuteInput(m)
    <3> DEFINE n == Muting("SendMute", m.n, m.muted)
    <3>1. bus' = (bus \ {m}) \cup {n} /\ outbox' = outbox /\ m.what = "MuteInput"
      BY <2>2 DEF DeliverMuteInput, delivering
    <3>2. n.what = "SendMute" /\ n.muted = m.muted
      BY DEF Muting
    <3> HIDE DEF n
    <3>3. Jobs' = {n}
      BY <1>3, <3>1, <3>2 DEF Jobs
    <3>4. Due' = {n}
      BY <1>3, <3>1, <3>3 DEF Due
    <3> QED BY <3>1, <3>2, <3>4 DEF Mutes, Returns
  <2>3. CASE DeliverExecute(m)
    <3> DEFINE n == Command("Call", m.n, m.kind)
    <3>1. bus' = (bus \ {m}) \cup {n} /\ outbox' = outbox /\ m.what = "Execute"
      BY <2>3 DEF DeliverExecute, delivering
    <3>2. n.what = "Call"
      BY DEF Command
    <3> HIDE DEF n
    <3>3. Jobs' = {n}
      BY <1>3, <3>1, <3>2 DEF Jobs
    <3>4. Due' = {n}
      BY <1>3, <3>1, <3>3 DEF Due
    <3> QED BY <3>1, <3>2, <3>4 DEF Mutes, Returns
  <2> QED BY <2>1, <2>2, <2>3
<1>7. Told'
  BY <1>1, <1>4, <1>5, <1>6 DEF Told
<1> QED BY <1>1, <1>4, <1>7 DEF SameEntry

\* The server does what the room has shown, or has the room show what it did.
LEMMA AnswerKeepsEntry ==
    ASSUME DesktopInv, OneAtATime, FirstList, SameEntry, ServerHandles
    PROVE  SameEntry'
<1> USE DEF DesktopInv
<1>1. UNCHANGED <<room, events>> /\ outbox # <<>> /\ outbox' = Tail(outbox)
  BY DEF ServerHandles
<1>2. PICK p \in Packet : /\ Jobs = {} /\ outbox = <<p>>
                          /\ waiting = IF p.what = "Call" THEN {p.n} ELSE {}
  BY <1>1 DEF OneAtATime, Idle
<1>3. p = Head(outbox) /\ outbox' = <<>> /\ p \in Message /\ Due = {p}
  BY <1>1, <1>2 DEF Packet, Due
<1>4. /\ room.user_id = Me /\ Me # 0 /\ Me \in UserIds /\ server \in Participants
      /\ server[Me] \in ParticipantInfo /\ room.participants[Me] \in ParticipantInfo
  BY <1>1, DevicesAreSome, DesktopAssumption
  DEF FirstList, Fresh, Idle, DesktopTypeOK, Participants, RoomPage
<1>5. Told
  BY <1>4 DEF SameEntry
<1>6. CASE p.what = "SendMute"
  <2>1. server' = [server EXCEPT ![Me].is_muted = p.muted] /\ UNCHANGED bus
    BY <1>3, <1>6 DEF ServerHandles
  <2>2. Due' = {}
    BY <1>2, <1>3, <2>1 DEF Due, Jobs
  <2>3. room.participants[Me] = [server[Me] EXCEPT !.is_muted = p.muted]
    BY <1>3, <1>5, <1>6 DEF Told, Mutes
  <2>4. server'[Me] = [server[Me] EXCEPT !.is_muted = p.muted]
    BY <1>4, <2>1 DEF Participants
  <2>5. Told'
    BY <1>1, <1>5, <2>2, <2>3, <2>4 DEF Told
  <2> QED BY <1>1, <1>4, <2>5 DEF SameEntry
<1>7. CASE p.what = "Call"
  <2> DEFINE n == Result(p.n, p.kind, TRUE)
  <2>1. /\ server' = [server EXCEPT ![Me] = Info(@.username, p.kind = "Join", FALSE)]
        /\ bus' = bus \cup {n}
    BY <1>2, <1>3, <1>7 DEF ServerHandles
  <2>2. n.what = "Result" /\ n.kind = p.kind
    BY DEF Result
  <2> HIDE DEF n
  <2>3. Jobs' = {n}
    BY <1>2, <2>1, <2>2 DEF Jobs
  <2>4. Due' = {n}
    BY <1>3, <2>3 DEF Due
  <2>5. room.participants[Me] = server[Me]
    BY <1>3, <1>5, <1>7 DEF Told, Mutes, Returns
  <2>6. server'[Me] = Info(server[Me].username, p.kind = "Join", FALSE)
    BY <1>4, <2>1 DEF Participants
  <2>7. Told'
    BY <1>1, <1>5, <2>2, <2>4, <2>5, <2>6 DEF Told, Mutes, Returns
  <2> QED BY <1>1, <1>4, <2>7 DEF SameEntry
<1> QED BY <1>6, <1>7 DEF Packet

LEMMA ResultKeepsEntry ==
    ASSUME DesktopInv, OneAtATime, FirstList, SameEntry, NEW m \in bus, DeliverResult(m)
    PROVE  SameEntry'
<1> USE DEF DesktopInv
<1>1. UNCHANGED <<server, events, outbox>> /\ bus' = bus \ {m} /\ m.what = "Result"
  BY DEF DeliverResult, delivering
<1>2. m \in Message /\ m \in Jobs
  BY <1>1 DEF Jobs, DesktopTypeOK
<1>3. Jobs = {m} /\ outbox = <<>> /\ m.ok
  BY <1>1, <1>2, TheJob
<1>4. /\ room.user_id = Me /\ Me # 0 /\ Me \in UserIds /\ room \in RoomPage
      /\ room.participants[Me].username # NoName /\ Due = {m}
  BY <1>2, <1>3, DevicesAreSome, DesktopAssumption
  DEF FirstList, Fresh, Idle, DesktopTypeOK, Due
<1> DEFINE own == Info(Own(room).username, m.kind = "Join", FALSE)
<1>5. room' = WithOwn(room, own)
  BY <1>3 DEF DeliverResult
<1>6. own = server[Me] /\ ~own.is_muted
  BY <1>1, <1>4 DEF SameEntry, Told, Returns, Own, Info
<1> HIDE DEF own
<1>7. room' = [room EXCEPT !.participants[room.user_id] = own]
  BY <1>4, <1>5 DEF WithOwn, Own, NoInfo, Info
<1>8. room'.user_id = Me /\ room'.participants[Me] = own
  BY <1>4, <1>7 DEF RoomPage, Participants
<1>9. Due' = {}
  BY <1>1, <1>3 DEF Due, Jobs
<1>10. Told'
  BY <1>1, <1>6, <1>8, <1>9 DEF Told
<1> QED BY <1>4, <1>8, <1>10 DEF SameEntry

LEMMA PatientKeeps ==
    ASSUME DesktopInv, Patient, [DesktopNext]_desktopVars
    PROVE  Patient'
<1>1. CASE UNCHANGED desktopVars
  <2>1. UNCHANGED <<bus, outbox, waiting, server, room, audio, events, session, strained>>
    BY <1>1 DEF desktopVars
  <2>2. (OneAtATime /\ InStep /\ FirstList)' <=> (OneAtATime /\ InStep /\ FirstList)
    BY <2>1 DEF OneAtATime, InStep, FirstList, Fresh, Idle, Jobs, InVoiceShown, InVoice
  <2>3. Untold' <=> Untold
    BY <2>1 DEF Untold
  <2>4. Due' = Due
    BY <2>1 DEF Due, Jobs
  <2>5. Told' <=> Told
    BY <2>1, <2>4 DEF Told, Mutes, Returns
  <2> QED BY <2>1, <2>2, <2>3, <2>5 DEF Patient, SameEntry
<1>2. CASE DesktopNext
  <2> SUFFICES ASSUME ~strained' PROVE OneAtATime' /\ InStep' /\ FirstList' /\ SameEntry'
    BY DEF Patient
  <2>1. ~strained
    BY <1>2
    DEF DesktopNext, OtherActs, serverIdle, Connects, LogsIn, ConnectReturns, ForwardNews,
        ServerHandles, MuteToggle, JoinLeaveToggle, Clicks, PressEscape, SelectInputDevice,
        SelectOutputDevice, Selects, RunFuture, Deliver, DeliverConnected, DeliverSwitchView,
        DeliverMuteInput, DeliverExecute, DeliverResult, TimesOut, DeliverEvent, delivering
  <2>2. OneAtATime /\ InStep /\ FirstList /\ SameEntry
    BY <2>1 DEF Patient
  <2>3. \A c \in waiting : ~TimesOut(c)
    BY DEF TimesOut
  <2>4. OneAtATime' /\ InStep' /\ FirstList'
    BY <1>2, <2>2, <2>3, ServerIsPatient, LoginIsPatient, SelectIsPatient, EventIsPatient,
       ClickIsPatient, SwitchIsPatient, JobIsPatient, AnswerIsPatient, ResultIsPatient
    DEF DesktopNext, Deliver
  <2>5. SameEntry'
    BY <1>2, <2>2, <2>3, OthersKeepEntry, LoginKeepsEntry, EventKeepsEntry, ClickKeepsEntry,
       JobKeepsEntry, AnswerKeepsEntry, ResultKeepsEntry
    DEF DesktopNext, Deliver
  <2> QED BY <2>4, <2>5
<1> QED BY <1>1, <1>2

-----------------------------------------------------------------------------
(* The theorems.                                                            *)

\* The application's state keeps its type, however many devices, users and
\* clicks there are.  Here and below, Escape is not pressed on the login page.
THEOREM DesktopTypeCorrect == ~Impatient => (DesktopSpec => []DesktopTypeOK)
BY DesktopInvariant, PTL DEF DesktopInv

\* Whatever order clicks, results and events come in, microphone and
\* loudspeakers are on only in voice, for those who are in it, and they are on
\* there unless a device failed.
THEOREM StreamsMatchVoice == ~Impatient => (DesktopSpec => []StreamsFollowVoice)
<1>1. DesktopInv => StreamsFollowVoice
  <2> SUFFICES ASSUME DesktopInv PROVE StreamsFollowVoice
    OBVIOUS
  <2>1. \A u \in audio.users_in_voice : u \in Ids
    BY DevicesAreSome DEF DesktopInv, AudioOK
  <2>2. Rate[config.output] # 0
    BY DevicesAreSome DEF DesktopInv, DesktopTypeOK
  <2> QED BY <2>1, <2>2 DEF DesktopInv, AudioOK, StreamsFollowVoice, Plays
<1> QED BY <1>1, DesktopInvariant, PTL

\* Every stream that is open is on the device selected last, and every decoder
\* with a stream has its rate.
THEOREM StreamsAreCurrent == ~Impatient => (DesktopSpec => []StreamsCurrent)
<1>1. DesktopInv => StreamsCurrent
  BY DEF DesktopInv, AudioOK, StreamsCurrent
<1> QED BY <1>1, DesktopInvariant, PTL
\* Once all news has arrived nobody is played who is not in voice, whichever way
\* he went and whatever was clicked meanwhile: the list of who is in voice
\* follows the server through the channel and the event stream.
THEOREM NobodyHaunts == ~Impatient => (DesktopSpec => []NoGhostStreams)
<1> SUFFICES ASSUME ~Impatient PROVE DesktopSpec => []NoGhostStreams
  OBVIOUS
<1>1. DesktopInv /\ Foretold => NoGhostStreams
  <2> SUFFICES ASSUME DesktopInv, Foretold, channel = <<>>, events = <<>>,
                      NEW u \in audio.users_in_voice \ {Me}
               PROVE  server[u].in_voice
    BY DEF NoGhostStreams
  <2>1. u \in UserIds \ {Me}
    BY DEF DesktopInv, AudioOK
  <2>2. WillHear(u)
    BY LeavesEmpty DEF WillHear
  <2> QED BY <2>1, <2>2 DEF Foretold
<1>2. DesktopInv /\ Foretold /\ [DesktopNext]_desktopVars => Foretold'
  BY ForetoldKeeps
<1> QED BY <1>1, <1>2, DesktopInvariant, ForetoldInitially, PTL DEF DesktopSpec
\* For a user who waits for one click to be over before the next, and whose
\* requests are answered in time, the room, the audio manager and the server
\* agree about voice and mute, but for a mute that outlives a leave: whatever the
\* others do, and whenever Escape is pressed or a device fails.
THEOREM RoomShowsTheTruth == ~Impatient => (DesktopSpec => []RoomTellsTruth)
<1> SUFFICES ASSUME ~Impatient PROVE DesktopSpec => []RoomTellsTruth
  OBVIOUS
<1>1. DesktopInv /\ Patient => RoomTellsTruth
  <2> SUFFICES ASSUME Patient, AtRest
               PROVE  /\ InVoiceShown <=> InVoice(audio)
                      /\ room.participants[Me] = server[Me]
                      /\ room.muted = audio.is_input_muted
                      /\ server[Me].is_muted => audio.is_input_muted
    BY DEF RoomTellsTruth
  <2>1. Due = {} /\ InStep /\ FirstList /\ SameEntry
    BY DEF AtRest, Busy, Patient, Jobs, Due
  <2>2. Told
    BY <2>1 DEF AtRest, FirstList, Fresh, SameEntry
  <2> QED BY <2>1, <2>2 DEF InStep, Told, Due
<1>2. DesktopInv /\ Patient /\ [DesktopNext]_desktopVars => Patient'
  BY PatientKeeps
<1> QED BY <1>1, <1>2, DesktopInvariant, PatientInitially, PTL DEF DesktopSpec
=============================================================================
