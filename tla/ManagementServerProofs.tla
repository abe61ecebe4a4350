----------------------- MODULE ManagementServerProofs -----------------------
(* Theorems about ManagementServer, for every value of its constants.       *)
EXTENDS ManagementServer, SequenceTheorems, TLAPS

-----------------------------------------------------------------------------
(* The values that the actions build have their types.                      *)

LEMMA NobodyType == Nobody \in Participants
BY DEF Nobody, Participants, NoInfo, Info, ParticipantInfo, Names

LEMMA ResponseTypesOK ==
    ASSUME NEW r \in 0..MaxRequests
    PROVE  /\ \A type \in ResponseTypes : PlainResponse(type, r) \in Response
           /\ \A id \in 0..MaxUsers, t \in Tokens, list \in Participants :
                LoginResponse(r, id, t, list) \in Response
BY NobodyType, ProtocolAssumption
   DEF PlainResponse, LoginResponse, Response, ResponseTypes, Tokens

LEMMA NewsTypesOK ==
    ASSUME NEW id \in 0..MaxUsers
    PROVE  /\ \A type \in NewsTypes : PlainNews(type, id) \in News
           /\ \A n \in Names : UserJoinedServer(id, n) \in News
           /\ \A m \in BOOLEAN : UserMuteState(id, m) \in News
BY DEF PlainNews, UserJoinedServer, UserMuteState, News, NewsTypes, Names

LEMMA EventTypesOK ==
    ASSUME NEW id \in UserIds
    PROVE  /\ VoiceJoined(id) \in Event /\ VoiceLeft(id) \in Event
           /\ UserDisconnected(id) \in Event
           /\ \A t \in Tokens : UserConnected(id, t) \in Event
BY DEF VoiceJoined, VoiceLeft, UserDisconnected, UserConnected, Event,
       EventTypes, Tokens

LEMMA EffectTypesOK ==
    /\ \A p \in Response : Write(p) \in Effect
    /\ \A e \in Event : Emit(e) \in Effect
    /\ \A p \in News : Cast(for_all(p)) \in Effect
    /\ \A p \in News, a \in Addresses : Cast(excluding(a, p)) \in Effect
BY DEF Write, Emit, Cast, Effect, BroadcastMessage, for_all, excluding

\* Applying a packet to a client gives a client.
LEMMA ReceiveTypesOK ==
    ASSUME NEW c \in Client
    PROVE  /\ \A p \in Response : ReceiveResponse(c, p) \in Client
           /\ \A p \in News : ReceiveNews(c, p) \in Client
<1>1. \A p \in Response : ReceiveResponse(c, p) \in Client
  BY DEF ReceiveResponse, Client, Response
<1>2. ASSUME NEW p \in News
      PROVE  ReceiveNews(c, p) \in Client
  <2>1. c.participants \in Participants
    BY DEF Client
  <2> DEFINE list == c.participants
             u == p.user_id
  <2>2. /\ list \in [UserIds -> ParticipantInfo] /\ u \in 0..MaxUsers
        /\ p.username \in Names /\ p.is_muted \in BOOLEAN
    BY <2>1 DEF News, Participants
  <2>3. \A n \in Names : Info(n, FALSE, FALSE) \in ParticipantInfo
    BY DEF Info, ParticipantInfo
  <2>4. NoInfo \in ParticipantInfo
    BY <2>3 DEF NoInfo, Names
  <2> HIDE DEF list, u
  <2>5. [list EXCEPT ![u] = Info(p.username, FALSE, FALSE)] \in [UserIds -> ParticipantInfo]
    BY <2>2, <2>3
  <2>6. [list EXCEPT ![u] = NoInfo] \in [UserIds -> ParticipantInfo]
    BY <2>2, <2>4
  <2>7. ASSUME u \in UserIds, NEW v \in BOOLEAN, NEW m \in BOOLEAN
        PROVE  [list EXCEPT ![u].in_voice = v, ![u].is_muted = m] \in [UserIds -> ParticipantInfo]
    <3>1. [list[u] EXCEPT !.in_voice = v, !.is_muted = m] \in ParticipantInfo
      BY <2>2, <2>7 DEF ParticipantInfo
    <3> QED BY <2>2, <2>7, <3>1
  <2>8. ASSUME u \in UserIds, NEW m \in BOOLEAN
        PROVE  [list EXCEPT ![u].is_muted = m] \in [UserIds -> ParticipantInfo]
    <3>1. [list[u] EXCEPT !.is_muted = m] \in ParticipantInfo
      BY <2>2, <2>8 DEF ParticipantInfo
    <3> QED BY <2>2, <2>8, <3>1
  <2>9. ApplyNews(list, p) \in Participants
    <3>1. CASE u \notin UserIds \/ list[u] = NoInfo
      BY <3>1, <2>2, <2>5 DEF ApplyNews, Participants, u
    <3>2. CASE u \in UserIds /\ list[u] # NoInfo
      BY <3>2, <2>2, <2>5, <2>6, <2>7, <2>8 DEF ApplyNews, Participants, u
    <3> QED BY <3>1, <3>2
  <2> QED BY <2>9 DEF ReceiveNews, Client, list
<1> QED BY <1>1, <1>2

-----------------------------------------------------------------------------
(* Type correctness.                                                        *)

\* What has to be known besides the types: a task has an address, and while a
\* login is still collecting, the first thing left to do is its response.
Shape ==
    /\ MgmtTypeOK
    /\ \A h \in UserIds :
         /\ pc[h] # "none" => address[h] \in Addresses
         /\ unvisited[h] # {} => effects[h] # <<>> /\ Head(effects[h]).do = "write"

LEMMA ShapeInit == MgmtInit => Shape
BY ProtocolAssumption, ManagementAssumption, NobodyType
   DEF MgmtInit, Shape, MgmtTypeOK, NoUser, User, Names, Tokens, NewClient,
       Client, UserIds

LEMMA UserTypes ==
    /\ NoUser \in User
    /\ \A h \in UserIds : NewUser(h) \in User
<1>1. NoUser \in User
  BY ProtocolAssumption DEF NoUser, User, Names, Tokens
<1>2. ASSUME NEW h \in UserIds PROVE NewUser(h) \in User
  <2>1. h \in 0..MaxUsers /\ Token[h] \in Tokens
    BY ProtocolAssumption DEF UserIds, Tokens
  <2> QED BY <1>1, <2>1 DEF NewUser, User
<1> QED BY <1>1, <1>2

LEMMA HandlesTypes ==
    ASSUME Shape, NEW h \in UserIds, NEW type, Handles(h, type)
    PROVE  /\ Packet(h) \in Request
           /\ Tail(packet_buffer[h]) \in Seq(Request)
           /\ address[h] \in Addresses /\ Self(h) \in User
           /\ effects[h] = <<>> /\ unvisited[h] = {}
BY DEF Shape, MgmtTypeOK, Handles, Packet, Self

\* A packet that is answered without looking at `users`.
LEMMA AnsweringShape ==
    ASSUME Shape, NEW h \in UserIds, NEW type, NEW p \in Response,
           Handles(h, type),
           effects' = [effects EXCEPT ![h] = <<Write(p)>>],
           packet_buffer' = [packet_buffer EXCEPT ![h] = Tail(@)],
           UNCHANGED <<users, next_user_id, events, address, pc, unvisited,
                       channelVars, clientVars>>
    PROVE  Shape'
<1>1. <<Write(p)>> \in Seq(Effect)
  BY EffectTypesOK
<1>2. MgmtTypeOK'
  BY <1>1, HandlesTypes DEF Shape, MgmtTypeOK, channelVars, clientVars
<1> QED
  BY <1>2, HandlesTypes DEF Shape, MgmtTypeOK

\* Collecting an entry changes at most the login response that is under
\* construction.
LEMMA CollectEffect ==
    ASSUME Shape, NEW h \in UserIds, NEW a \in Addresses, Collect(h, a)
    PROVE  \E new \in Effect :
             /\ new.do = "write" /\ effects[h] # <<>>
             /\ effects' = effects \/ effects' = [effects EXCEPT ![h] = [@ EXCEPT ![1] = new]]
<1> DEFINE u == users[a]
           old == effects[h][1]
           new == [old EXCEPT !.packet.participants[u.id] =
                      Info(u.username, u.in_voice, u.is_muted)]
<1>1. /\ effects[h] \in Seq(Effect) /\ effects[h] # <<>>
      /\ old \in Effect /\ old.do = "write" /\ u \in User
  BY DEF Collect, Shape, MgmtTypeOK
<1>2. old \in [do : {"write"}, packet : Response]
  BY <1>1 DEF Effect
<1>3. Info(u.username, u.in_voice, u.is_muted) \in ParticipantInfo
  BY <1>1 DEF User, Info, ParticipantInfo
<1>4. [old.packet.participants EXCEPT ![u.id] =
          Info(u.username, u.in_voice, u.is_muted)] \in Participants
  BY <1>2, <1>3 DEF Response, Participants
<1>5. [old.packet EXCEPT !.participants[u.id] =
          Info(u.username, u.in_voice, u.is_muted)] \in Response
  BY <1>2, <1>4 DEF Response
<1>6. new \in Effect /\ new.do = "write"
  BY <1>2, <1>5 DEF Effect
<1>7. effects' = effects \/ effects' = [effects EXCEPT ![h] = [@ EXCEPT ![1] = new]]
  BY DEF Collect
<1> QED BY <1>1, <1>6, <1>7

LEMMA HandlingShape ==
    ASSUME Shape, NEW h \in UserIds, NEW type, NEW user \in User,
           NEW rest, NEW visits \in SUBSET Addresses,
           Self(h).id # 0 => rest \in Seq(Effect),
           Handling(h, type, user, rest),
           unvisited' = [unvisited EXCEPT ![h] = visits],
           visits # {} => Self(h).id # 0 /\ rest # <<>> /\ Head(rest).do = "write"
    PROVE  Shape'
<1> USE DEF Shape, Handling, Handles, channelVars, clientVars
<1>1. address[h] \in Addresses /\ effects[h] = <<>> /\ unvisited[h] = {}
  BY DEF MgmtTypeOK
<1>2. /\ users' \in [Addresses -> User]
      /\ effects' \in [UserIds -> Seq(Effect)]
      /\ unvisited' \in [UserIds -> SUBSET Addresses]
  BY <1>1 DEF MgmtTypeOK
<1>3. packet_buffer' \in [UserIds -> Seq(Request)]
  <2>1. Tail(packet_buffer[h]) \in Seq(Request)
    BY DEF MgmtTypeOK
  <2> QED BY <2>1 DEF MgmtTypeOK
<1>4. MgmtTypeOK'
  BY <1>2, <1>3 DEF MgmtTypeOK
<1>5. ASSUME NEW k \in UserIds, unvisited'[k] # {}
      PROVE  effects'[k] # <<>> /\ Head(effects'[k]).do = "write"
  BY <1>1, <1>5 DEF MgmtTypeOK
<1> QED BY <1>4, <1>5

\* What a client may send is a packet, of the kind it was asked for.
LEMMA RequestTypesOK ==
    ASSUME MgmtTypeOK, NEW h \in UserIds, NEW kind \in RequestTypes, MayRequest(h, kind)
    PROVE  /\ PacketsOf(h, kind) \subseteq Request
           /\ \A p \in PacketsOf(h, kind) : p.type = kind
<1> DEFINE r == requests[h] + 1
<1>1. r \in 0..MaxRequests /\ clients[h].user_id \in 0..MaxUsers
  BY ProtocolAssumption DEF MayRequest, MgmtTypeOK, Client
<1> HIDE DEF r
<1>2. \A name \in NameLengths : /\ LoginRequest(r, name) \in Request
                                /\ LoginRequest(r, name).type = "Login"
  BY <1>1, ProtocolAssumption DEF LoginRequest, Request, RequestTypes, Names
<1>3. \A m \in BOOLEAN : /\ MuteEvent(clients[h].user_id, m) \in Request
                         /\ MuteEvent(clients[h].user_id, m).type = "Mute"
  BY <1>1, ProtocolAssumption DEF MuteEvent, Request, RequestTypes, Names
<1>4. PlainRequest(kind, r) \in Request /\ PlainRequest(kind, r).type = kind
  BY <1>1, ProtocolAssumption DEF PlainRequest, Request, Names
<1> QED BY <1>2, <1>3, <1>4 DEF PacketsOf, r

LEMMA ShapeStep == Shape /\ [MgmtNext]_mgmtAll => Shape'
<1> SUFFICES ASSUME Shape, [MgmtNext]_mgmtAll PROVE Shape'
  OBVIOUS
<1> USE DEF Shape, handlerVars, channelVars, clientVars
<1>1. ASSUME NEW a \in Addresses, Accept(a) PROVE Shape'
  <2> DEFINE n == next_user_id
  <2>1. n \in UserIds /\ n + 1 \in 1..(MaxUsers + 1)
    BY <1>1, ProtocolAssumption DEF Accept, UserIds
  <2>2. users' \in [Addresses -> User]
    BY <1>1, <2>1, UserTypes DEF Accept, Registered, MgmtTypeOK
  <2>3. MgmtTypeOK'
    BY <1>1, <2>1, <2>2 DEF Accept, MgmtTypeOK
  <2> QED BY <1>1, <2>1, <2>3 DEF Accept, MgmtTypeOK
<1>2. ASSUME NEW h \in UserIds, HandlerStep(h) PROVE Shape'
  <2>1. CASE Start(h)
    <3>1. UserConnected(h, Token[h]) \in Event
      BY EventTypesOK, ProtocolAssumption DEF Tokens
    <3>2. events' \in Seq(Event)
      BY <2>1, <3>1 DEF Start, Sent, MgmtTypeOK
    <3>3. MgmtTypeOK'
      BY <2>1, <3>2 DEF Start, MgmtTypeOK
    <3> QED BY <2>1, <3>3 DEF Start
  <2>2. CASE Exit(h)
    <3>1. UserDisconnected(h) \in Event
      BY EventTypesOK
    <3>2. events' \in Seq(Event)
      BY <2>2, <3>1 DEF Exit, Sent, MgmtTypeOK
    <3>3. MgmtTypeOK'
      BY <2>2, <3>2 DEF Exit, MgmtTypeOK
    <3> QED BY <2>2, <3>3 DEF Exit, MgmtTypeOK
  <2>3. CASE SendEvent(h)
    <3>1. Head(effects[h]) \in Effect /\ Tail(effects[h]) \in Seq(Effect)
      BY <2>3 DEF SendEvent, Due, MgmtTypeOK
    <3>2. Head(effects[h]).event \in Event
      BY <2>3, <3>1 DEF SendEvent, Due, Effect
    <3>3. events' \in Seq(Event)
      BY <2>3, <3>2 DEF SendEvent, Sent, MgmtTypeOK
    <3>4. MgmtTypeOK'
      BY <2>3, <3>1, <3>3 DEF SendEvent, MgmtTypeOK
    <3> QED BY <2>3, <3>4 DEF SendEvent, Due, MgmtTypeOK
  <2>4. CASE SendBroadcast(h)
    <3> DEFINE m == Head(effects[h]).message
    <3>1. Head(effects[h]) \in Effect /\ Tail(effects[h]) \in Seq(Effect)
      BY <2>4 DEF SendBroadcast, Due, MgmtTypeOK
    <3>2. m \in BroadcastMessage
      BY <2>4, <3>1 DEF SendBroadcast, Due, Effect
    <3>3. ASSUME NEW r \in UserIds
          PROVE  /\ Push(broadcast_rx[r], m) \in Seq(BroadcastMessage)
                 /\ Len(Push(broadcast_rx[r], m)) <= Capacity
      <4>1. /\ broadcast_rx[r] \in Seq(BroadcastMessage)
            /\ Len(broadcast_rx[r]) <= Capacity
        BY DEF MgmtTypeOK
      <4> HIDE DEF m
      <4> QED BY <3>2, <4>1, ManagementAssumption DEF Push, Overflow
    <3>4. MgmtTypeOK'
      BY <2>4, <3>1, <3>3 DEF SendBroadcast, MgmtTypeOK
    <3> QED BY <2>4, <3>4 DEF SendBroadcast, Due, MgmtTypeOK
  <2>5. CASE WriteResponse(h)
    <3>1. Head(effects[h]) \in Effect /\ Tail(effects[h]) \in Seq(Effect)
      BY <2>5 DEF WriteResponse, Due, MgmtTypeOK
    <3>2. Head(effects[h]).packet \in Response
      BY <2>5, <3>1 DEF WriteResponse, Due, Effect
    <3>3. clients' \in [UserIds -> Client]
      BY <2>5, <3>2, ReceiveTypesOK DEF WriteResponse, MgmtTypeOK
    <3>4. MgmtTypeOK'
      BY <2>5, <3>1, <3>3 DEF WriteResponse, MgmtTypeOK
    <3> QED BY <2>5, <3>4 DEF WriteResponse, Due, MgmtTypeOK
  <2>6. CASE RejectLogin(h)
    <3>1. Packet(h).request_id \in 0..MaxRequests
      BY <2>6, HandlesTypes DEF RejectLogin, Request
    <3>2. LoginResponse(Packet(h).request_id, 0, 0, Nobody) \in Response
      BY <3>1, ResponseTypesOK, NobodyType, ProtocolAssumption DEF Tokens
    <3> QED BY <2>6, <3>2, AnsweringShape DEF RejectLogin
  <2>7. CASE HandleLogin(h)
    <3> DEFINE p == Packet(h)
               user == [Self(h) EXCEPT !.username = p.username]
               reply == LoginResponse(p.request_id, Self(h).id, Self(h).token, Nobody)
               news == UserJoinedServer(Self(h).id, p.username)
               rest == <<Write(reply), Cast(excluding(address[h], news))>>
               visits == IF Self(h).id = 0 THEN {} ELSE Addresses
    <3>1. /\ p \in Request /\ Self(h) \in User /\ address[h] \in Addresses
          /\ Handling(h, "Login", user, rest)
          /\ unvisited' = [unvisited EXCEPT ![h] = visits]
      BY <2>7, HandlesTypes DEF HandleLogin
    <3>2. user \in User
      BY <3>1 DEF User, Request
    <3>3. reply \in Response /\ news \in News
      BY <3>1, ResponseTypesOK, NewsTypesOK, NobodyType DEF User, Request
    <3>4. rest \in Seq(Effect)
      BY <3>1, <3>3, EffectTypesOK
    <3>5. Head(rest).do = "write" /\ rest # <<>>
      BY DEF Write
    <3> HIDE DEF user, rest, visits
    <3>6. visits \in SUBSET Addresses /\ (visits # {} => Self(h).id # 0)
      BY DEF visits
    <3> QED BY <3>1, <3>2, <3>4, <3>5, <3>6, HandlingShape
  <2>8. CASE \E a \in Addresses : Collect(h, a)
    <3>1. PICK new \in Effect :
            /\ new.do = "write" /\ effects[h] # <<>>
            /\ effects' = effects \/ effects' = [effects EXCEPT ![h] = [@ EXCEPT ![1] = new]]
      BY <2>8, CollectEffect
    <3> DEFINE changed == [effects[h] EXCEPT ![1] = new]
    <3>2. effects[h] \in Seq(Effect) /\ 1 \in 1..Len(effects[h])
      BY <3>1 DEF MgmtTypeOK
    <3>3. changed \in Seq(Effect) /\ Len(changed) = Len(effects[h]) /\ changed[1] = new
      BY <3>1, <3>2, ExceptSeq
    <3>4. effects' = effects \/ effects' = [effects EXCEPT ![h] = changed]
      BY <3>1
    <3> HIDE DEF changed
    <3>5. changed # <<>> /\ Head(changed).do = "write"
      BY <3>1, <3>2, <3>3
    <3>6. effects' \in [UserIds -> Seq(Effect)]
      BY <3>3, <3>4 DEF MgmtTypeOK
    <3>7. /\ unvisited' \in [UserIds -> SUBSET Addresses]
          /\ \A g \in UserIds : unvisited'[g] \subseteq unvisited[g]
          /\ UNCHANGED <<users, next_user_id, events, address, pc, packet_buffer,
                         broadcast_rx, lagged, socket, inbox, requests, clients>>
      BY <2>8 DEF Collect, MgmtTypeOK
    <3>8. MgmtTypeOK'
      BY <3>6, <3>7 DEF MgmtTypeOK
    <3>9. ASSUME NEW g \in UserIds, effects[g] # <<>>, Head(effects[g]).do = "write"
          PROVE  effects'[g] # <<>> /\ Head(effects'[g]).do = "write"
      BY <3>4, <3>5, <3>9 DEF MgmtTypeOK
    <3> QED BY <3>7, <3>8, <3>9
  <2>9. CASE HandleJoinVoiceChannel(h)
    <3> DEFINE p == Packet(h)
               user == [Self(h) EXCEPT !.in_voice = TRUE, !.is_muted = FALSE]
               rest == <<Write(PlainResponse("JoinResponse", p.request_id)),
                          Emit(VoiceJoined(Self(h).id)),
                          Cast(excluding(address[h], PlainNews("UserJoinedVoice", Self(h).id)))>>
    <3>1. /\ p \in Request /\ Self(h) \in User /\ address[h] \in Addresses
          /\ unvisited[h] = {} /\ Handling(h, "Join", user, rest)
      BY <2>9, HandlesTypes DEF HandleJoinVoiceChannel, Handling
    <3>2. user \in User
      BY <3>1 DEF User, Request
    <3>3. /\ PlainResponse("JoinResponse", p.request_id) \in Response
          /\ PlainNews("UserJoinedVoice", Self(h).id) \in News
      BY <3>1, ResponseTypesOK, NewsTypesOK DEF User, Request, ResponseTypes, NewsTypes
    <3>4. ASSUME Self(h).id # 0 PROVE rest \in Seq(Effect)
      <4>1. Self(h).id \in UserIds
        BY <3>1, <3>4, ProtocolAssumption DEF User, UserIds
      <4> QED BY <3>1, <3>3, <4>1, EffectTypesOK, EventTypesOK
    <3>5. unvisited' = [unvisited EXCEPT ![h] = {}]
      BY <2>9, <3>1 DEF HandleJoinVoiceChannel, MgmtTypeOK
    <3> HIDE DEF user, rest
    <3> QED BY <3>1, <3>2, <3>4, <3>5, HandlingShape
  <2>10. CASE HandleLeaveVoiceChannel(h)
    <3> DEFINE p == Packet(h)
               user == [Self(h) EXCEPT !.in_voice = FALSE, !.is_muted = FALSE]
               rest == <<Write(PlainResponse("LeaveResponse", p.request_id)),
                          Emit(VoiceLeft(Self(h).id)),
                          Cast(excluding(address[h], PlainNews("UserLeftVoice", Self(h).id)))>>
    <3>1. /\ p \in Request /\ Self(h) \in User /\ address[h] \in Addresses
          /\ unvisited[h] = {} /\ Handling(h, "Leave", user, rest)
      BY <2>10, HandlesTypes DEF HandleLeaveVoiceChannel, Handling
    <3>2. user \in User
      BY <3>1 DEF User, Request
    <3>3. /\ PlainResponse("LeaveResponse", p.request_id) \in Response
          /\ PlainNews("UserLeftVoice", Self(h).id) \in News
      BY <3>1, ResponseTypesOK, NewsTypesOK DEF User, Request, ResponseTypes, NewsTypes
    <3>4. ASSUME Self(h).id # 0 PROVE rest \in Seq(Effect)
      <4>1. Self(h).id \in UserIds
        BY <3>1, <3>4, ProtocolAssumption DEF User, UserIds
      <4> QED BY <3>1, <3>3, <4>1, EffectTypesOK, EventTypesOK
    <3>5. unvisited' = [unvisited EXCEPT ![h] = {}]
      BY <2>10, <3>1 DEF HandleLeaveVoiceChannel, MgmtTypeOK
    <3> HIDE DEF user, rest
    <3> QED BY <3>1, <3>2, <3>4, <3>5, HandlingShape
  <2>11. CASE HandleChatMessage(h)
    <3> DEFINE p == Packet(h)
               user == Self(h)
               rest == <<Write(PlainResponse("ChatResponse", p.request_id)),
                          Cast(for_all(PlainNews("UserSentMessage", Self(h).id)))>>
    <3>1. /\ p \in Request /\ Self(h) \in User /\ address[h] \in Addresses
          /\ unvisited[h] = {} /\ Handling(h, "Chat", user, rest)
      BY <2>11, HandlesTypes DEF HandleChatMessage, Handling
    <3>2. user \in User
      BY <3>1 DEF User, Request
    <3>3. /\ PlainResponse("ChatResponse", p.request_id) \in Response
          /\ PlainNews("UserSentMessage", Self(h).id) \in News
      BY <3>1, ResponseTypesOK, NewsTypesOK DEF User, Request, ResponseTypes, NewsTypes
    <3>4. rest \in Seq(Effect)
      BY <3>1, <3>3, EffectTypesOK
    <3>5. unvisited' = [unvisited EXCEPT ![h] = {}]
      BY <2>11, <3>1 DEF HandleChatMessage, MgmtTypeOK
    <3> HIDE DEF user, rest
    <3> QED BY <3>1, <3>2, <3>4, <3>5, HandlingShape
  <2>12. CASE HandleUserMuteState(h)
    <3> DEFINE p == Packet(h)
               user == [Self(h) EXCEPT !.is_muted = p.is_muted]
               rest == <<Cast(excluding(address[h], UserMuteState(p.user_id, p.is_muted)))>>
    <3>1. /\ p \in Request /\ Self(h) \in User /\ address[h] \in Addresses
          /\ unvisited[h] = {} /\ Handling(h, "Mute", user, rest)
      BY <2>12, HandlesTypes DEF HandleUserMuteState, Handling
    <3>2. user \in User
      BY <3>1 DEF User, Request
    <3>3. UserMuteState(p.user_id, p.is_muted) \in News
      BY <3>1, NewsTypesOK DEF Request
    <3>4. rest \in Seq(Effect)
      BY <3>1, <3>3, EffectTypesOK
    <3>5. unvisited' = [unvisited EXCEPT ![h] = {}]
      BY <2>12, <3>1 DEF HandleUserMuteState, MgmtTypeOK
    <3> HIDE DEF user, rest
    <3> QED BY <3>1, <3>2, <3>4, <3>5, HandlingShape
  <2>13. CASE HandlePing(h)
    <3>1. Packet(h).request_id \in 0..MaxRequests
      BY <2>13, HandlesTypes DEF HandlePing, Request
    <3>2. PlainResponse("PingResponse", Packet(h).request_id) \in Response
      BY <3>1, ResponseTypesOK DEF ResponseTypes
    <3> QED BY <2>13, <3>2, AnsweringShape DEF HandlePing
  <2>14. CASE Read(h)
    BY <2>14 DEF Read, AtSelect, MgmtTypeOK
  <2>15. CASE Disconnect(h)
    <3>1. /\ address[h] \in Addresses /\ Self(h) \in User
          /\ effects[h] = <<>> /\ unvisited[h] = {}
      BY <2>15 DEF Disconnect, AtSelect, MgmtTypeOK, Self
    <3>2. /\ PlainNews("UserLeftServer", Self(h).id) \in News
          /\ PlainNews("UserLeftVoice", Self(h).id) \in News
      BY <3>1, NewsTypesOK DEF User, NewsTypes
    <3>3. Farewell(Self(h)) \in Seq(Effect)
      BY <3>2, EffectTypesOK DEF Farewell
    <3> DEFINE rest == Farewell(Self(h))
    <3>4. effects' = [effects EXCEPT ![h] = rest] /\ rest \in Seq(Effect)
      BY <2>15, <3>3 DEF Disconnect
    <3> HIDE DEF rest
    <3>5. effects' \in [UserIds -> Seq(Effect)]
      BY <3>4 DEF MgmtTypeOK
    <3>6. users' \in [Addresses -> User]
      <4>1. users' = [users EXCEPT ![address[h]] = NoUser] /\ NoUser \in User
        BY <2>15, UserTypes DEF Disconnect
      <4>2. users \in [Addresses -> User]
        BY DEF MgmtTypeOK
      <4> QED BY <4>1, <4>2
    <3>7. MgmtTypeOK'
      BY <2>15, <3>5, <3>6, ManagementAssumption DEF Disconnect, MgmtTypeOK
    <3> QED BY <2>15, <3>1, <3>7 DEF Disconnect, MgmtTypeOK
  <2>16. CASE DeliverBroadcast(h)
    <3>1. /\ Head(broadcast_rx[h]) \in BroadcastMessage
          /\ Tail(broadcast_rx[h]) \in Seq(BroadcastMessage)
          /\ Len(Tail(broadcast_rx[h])) <= Capacity
      BY <2>16, ManagementAssumption DEF DeliverBroadcast, HasBroadcast, MgmtTypeOK
    <3>2. clients' \in [UserIds -> Client]
      BY <2>16, <3>1, ReceiveTypesOK DEF DeliverBroadcast, MgmtTypeOK, BroadcastMessage
    <3>3. MgmtTypeOK'
      BY <2>16, <3>1, <3>2 DEF DeliverBroadcast, MgmtTypeOK
    <3> QED BY <2>16, <3>3 DEF DeliverBroadcast
  <2>17. CASE BroadcastWriteFails(h)
    <3>1. MgmtTypeOK'
      BY <2>17, ManagementAssumption DEF BroadcastWriteFails, MgmtTypeOK
    <3> QED BY <2>17, <3>1 DEF BroadcastWriteFails, HasBroadcast, AtSelect, MgmtTypeOK
  <2>18. CASE NoticeLag(h)
    BY <2>18 DEF NoticeLag, AtSelect, MgmtTypeOK
  <2> QED
    BY <1>2, <2>1, <2>2, <2>3, <2>4, <2>5, <2>6, <2>7, <2>8, <2>9, <2>10, <2>11,
       <2>12, <2>13, <2>14, <2>15, <2>16, <2>17, <2>18 DEF HandlerStep
<1>3. ASSUME NEW h \in UserIds, NEW kind \in RequestTypes, ClientRequest(h, kind)
      PROVE  Shape'
  <2> DEFINE r == requests[h] + 1
  <2>1. clients[h] \in Client /\ r \in 1..MaxRequests
    BY <1>3, ProtocolAssumption DEF ClientRequest, MayRequest, MgmtTypeOK
  <2>2. PacketsOf(h, kind) \subseteq Request
    BY <1>3, RequestTypesOK DEF ClientRequest
  <2>3. inbox' \in [UserIds -> Seq(Request)]
    BY <1>3, <2>2 DEF ClientRequest, MgmtTypeOK
  <2>4. clients' \in [UserIds -> Client]
    <3> DEFINE c == [clients[h] EXCEPT !.login = IF kind = "Login" THEN "asked" ELSE @,
                      !.pending = IF kind = "Mute" THEN @ ELSE @ \cup {r}]
    <3>1. c \in Client
      <4>1. r \in 0..MaxRequests
        BY <2>1
      <4> HIDE DEF r
      <4> QED BY <2>1, <4>1 DEF Client
    <3>2. clients' = [clients EXCEPT ![h] = c]
      BY <1>3 DEF ClientRequest, MgmtTypeOK
    <3> HIDE DEF c
    <3> QED BY <3>1, <3>2 DEF MgmtTypeOK
  <2>5. MgmtTypeOK'
    BY <1>3, <2>1, <2>3, <2>4 DEF ClientRequest, MgmtTypeOK
  <2> QED BY <1>3, <2>5 DEF ClientRequest
<1>4. ASSUME NEW h \in UserIds, ConnectionEnds(h) PROVE Shape'
  BY <1>4 DEF ConnectionEnds, ClientClose, ConnectionBreaks, MgmtTypeOK
<1>5. CASE UNCHANGED mgmtAll
  BY <1>5 DEF mgmtAll, mgmtVars, MgmtTypeOK
<1> QED BY <1>1, <1>2, <1>3, <1>4, <1>5 DEF MgmtNext

\* Every variable keeps its type, and no receiver ever holds more than
\* Capacity messages: the checked type invariant, for all constants.
THEOREM MgmtTypeCorrect == MgmtSpec => []MgmtTypeOK
<1>1. Shape => MgmtTypeOK
  BY DEF Shape
<1> QED BY <1>1, ShapeInit, ShapeStep, PTL DEF MgmtSpec

-----------------------------------------------------------------------------
(* A handler owns the entry under its address.                              *)

Live(h) == pc[h] \in {"spawned", "running"}

\* Ids are given out once, and no two live handlers share an address.
Exclusive ==
    /\ \A h \in UserIds : pc[h] = "none" <=> h >= next_user_id
    /\ \A h, k \in UserIds : Live(h) /\ Live(k) /\ address[h] = address[k] => h = k

Owned == Shape /\ Exclusive /\ HandlerOwnsEntry

LEMMA OwnedInit == MgmtInit => Owned
<1> SUFFICES ASSUME MgmtInit PROVE Exclusive /\ HandlerOwnsEntry
  BY ShapeInit DEF Owned
<1> QED BY ProtocolAssumption DEF MgmtInit, Exclusive, Live, HandlerOwnsEntry, UserIds

\* A step that starts no handler and revives none keeps addresses exclusive.
LEMMA ExclusiveKept ==
    ASSUME Exclusive, UNCHANGED <<next_user_id, address>>,
           \A h \in UserIds : Live(h)' => Live(h),
           \A h \in UserIds : pc'[h] = "none" <=> pc[h] = "none"
    PROVE  Exclusive'
BY DEF Exclusive

\* So does HandlerOwnsEntry if every live handler's entry keeps its id and token.
LEMMA OwnershipKept ==
    ASSUME Shape, HandlerOwnsEntry, UNCHANGED address,
           \A h \in UserIds : Live(h)' => Live(h),
           \A h \in UserIds : Live(h)' =>
               users'[address[h]].id = Self(h).id /\ users'[address[h]].token = Self(h).token
    PROVE  HandlerOwnsEntry'
BY DEF HandlerOwnsEntry, Live, Self

LEMMA HandlingOwned ==
    ASSUME Owned, NEW h \in UserIds, NEW type, NEW user, NEW rest,
           Handling(h, type, user, rest),
           user.id = Self(h).id, user.token = Self(h).token
    PROVE  Exclusive' /\ HandlerOwnsEntry'
<1>1. address[h] \in Addresses /\ users \in [Addresses -> User]
  BY HandlesTypes DEF Owned, Shape, MgmtTypeOK, Handling
<1>2. UNCHANGED <<next_user_id, address, pc>>
  BY DEF Handling
<1>3. ASSUME NEW k \in UserIds, Live(k)
      PROVE  users'[address[k]].id = Self(k).id /\ users'[address[k]].token = Self(k).token
  <2>1. address[k] \in Addresses
    BY <1>3 DEF Owned, Shape, Live
  <2> QED BY <1>1, <2>1 DEF Handling, Self
<1> QED
  BY <1>2, <1>3, ExclusiveKept, OwnershipKept DEF Owned, Live

LEMMA OwnedStep ==
    ASSUME PortReuse = FALSE
    PROVE  Owned /\ [MgmtNext]_mgmtAll => Owned'
<1> SUFFICES ASSUME Owned, [MgmtNext]_mgmtAll PROVE Exclusive' /\ HandlerOwnsEntry'
  BY ShapeStep DEF Owned
<1> USE DEF handlerVars, channelVars, clientVars
<1>1. ASSUME NEW a \in Addresses, Accept(a) PROVE Exclusive' /\ HandlerOwnsEntry'
  <2> DEFINE n == next_user_id
  <2>1. n \in UserIds /\ n \in Nat /\ ~Live(n)
    BY <1>1, ProtocolAssumption DEF Accept, Owned, Exclusive, Live, UserIds
  <2>2. \A h \in UserIds : Live(h) => address[h] # a
    BY <1>1 DEF Accept, AddressFree, Live
  <2>3. /\ address' = [address EXCEPT ![n] = a] /\ pc' = [pc EXCEPT ![n] = "spawned"]
        /\ next_user_id' = n + 1 /\ users' = [users EXCEPT ![a] = NewUser(n)]
    BY <1>1 DEF Accept, Registered
  <2>4. /\ address \in [UserIds -> Addresses \cup {NoAddress}]
        /\ DOMAIN pc = UserIds /\ users \in [Addresses -> User]
    BY DEF Owned, Shape, MgmtTypeOK
  <2>5. NewUser(n).id = n /\ NewUser(n).token = Token[n]
    BY DEF NewUser, NoUser
  <2> HIDE DEF n
  <2>6. Exclusive'
    <3>1. \A h \in UserIds : pc'[h] = "none" <=> h >= next_user_id'
      BY <2>1, <2>3, <2>4 DEF Owned, Exclusive, UserIds, n
    <3>2. ASSUME NEW h \in UserIds, NEW k \in UserIds, Live(h)', Live(k)', address'[h] = address'[k]
          PROVE  h = k
      BY <2>1, <2>2, <2>3, <2>4, <3>2 DEF Owned, Exclusive, Live
    <3> QED BY <3>1, <3>2 DEF Exclusive
  <2>7. ASSUME NEW h \in UserIds, Live(h)'
        PROVE  users'[address'[h]].id = h /\ users'[address'[h]].token = Token[h]
    <3>1. CASE h = n
      BY <2>1, <2>3, <2>4, <2>5, <3>1
    <3>2. CASE h # n
      <4>1. Live(h) /\ address[h] \in Addresses /\ address[h] # a
        BY <2>2, <2>3, <2>4, <2>7, <3>2 DEF Live, Owned, Shape
      <4> QED BY <2>3, <2>4, <3>2, <4>1 DEF Owned, HandlerOwnsEntry, Live, Self
    <3> QED BY <3>1, <3>2
  <2> QED BY <2>6, <2>7 DEF HandlerOwnsEntry, Live, Self
<1>2. ASSUME NEW h \in UserIds, HandlerStep(h) PROVE Exclusive' /\ HandlerOwnsEntry'
  <2>1. CASE UNCHANGED <<users, next_user_id, address>>
               /\ (\A k \in UserIds : Live(k)' => Live(k))
               /\ (\A k \in UserIds : pc'[k] = "none" <=> pc[k] = "none")
    BY <2>1, ExclusiveKept, OwnershipKept DEF Owned, Self
  <2>2. ASSUME Start(h) \/ Exit(h) \/ BroadcastWriteFails(h)
        PROVE  Exclusive' /\ HandlerOwnsEntry'
    BY <2>1, <2>2 DEF Start, Exit, BroadcastWriteFails, HasBroadcast, AtSelect,
                      Live, Owned, Shape, MgmtTypeOK
  <2>3. ASSUME \/ SendEvent(h) \/ SendBroadcast(h) \/ WriteResponse(h)
               \/ RejectLogin(h) \/ HandlePing(h) \/ (\E a \in Addresses : Collect(h, a))
               \/ Read(h) \/ DeliverBroadcast(h) \/ NoticeLag(h)
        PROVE  Exclusive' /\ HandlerOwnsEntry'
    BY <2>1, <2>3 DEF SendEvent, SendBroadcast, WriteResponse, RejectLogin, HandlePing,
                      Collect, Read, DeliverBroadcast, NoticeLag, Live
  <2>4. ASSUME HandleLogin(h) PROVE Exclusive' /\ HandlerOwnsEntry'
    <3>1. Self(h) \in User
      BY <2>4, HandlesTypes DEF HandleLogin, Owned
    <3> QED BY <2>4, <3>1, HandlingOwned DEF HandleLogin, User
  <2>5. ASSUME HandleJoinVoiceChannel(h) PROVE Exclusive' /\ HandlerOwnsEntry'
    <3> DEFINE user == [Self(h) EXCEPT !.in_voice = TRUE, !.is_muted = FALSE]
    <3>1. Self(h) \in User
      BY <2>5, HandlesTypes DEF HandleJoinVoiceChannel, Handling, Owned
    <3>2. user.id = Self(h).id /\ user.token = Self(h).token
      BY <3>1 DEF User
    <3> HIDE DEF user
    <3> QED BY <2>5, <3>2, HandlingOwned DEF HandleJoinVoiceChannel, user
  <2>6. ASSUME HandleLeaveVoiceChannel(h) PROVE Exclusive' /\ HandlerOwnsEntry'
    <3> DEFINE user == [Self(h) EXCEPT !.in_voice = FALSE, !.is_muted = FALSE]
    <3>1. Self(h) \in User
      BY <2>6, HandlesTypes DEF HandleLeaveVoiceChannel, Handling, Owned
    <3>2. user.id = Self(h).id /\ user.token = Self(h).token
      BY <3>1 DEF User
    <3> HIDE DEF user
    <3> QED BY <2>6, <3>2, HandlingOwned DEF HandleLeaveVoiceChannel, user
  <2>7. ASSUME HandleChatMessage(h) PROVE Exclusive' /\ HandlerOwnsEntry'
    BY <2>7, HandlingOwned DEF HandleChatMessage
  <2>8. ASSUME HandleUserMuteState(h) PROVE Exclusive' /\ HandlerOwnsEntry'
    <3>1. Self(h) \in User
      BY <2>8, HandlesTypes DEF HandleUserMuteState, Handling, Owned
    <3> QED BY <2>8, <3>1, HandlingOwned DEF HandleUserMuteState, User
  <2>9. ASSUME Disconnect(h) PROVE Exclusive' /\ HandlerOwnsEntry'
    <3>1. /\ Live(h) /\ pc' = [pc EXCEPT ![h] = "exiting"]
          /\ users' = [users EXCEPT ![address[h]] = NoUser]
          /\ UNCHANGED <<next_user_id, address>>
      BY <2>9 DEF Disconnect, AtSelect, Live
    <3>2. DOMAIN pc = UserIds /\ users \in [Addresses -> User]
      BY DEF Owned, Shape, MgmtTypeOK
    <3>3. ASSUME NEW k \in UserIds, Live(k)'
          PROVE  Live(k) /\ address[k] \in Addresses /\ address[k] # address[h]
      BY <3>1, <3>2, <3>3 DEF Live, Owned, Shape, Exclusive
    <3>4. \A k \in UserIds : pc'[k] = "none" <=> pc[k] = "none"
      BY <3>1, <3>2 DEF Live
    <3> QED BY <3>1, <3>2, <3>3, <3>4, ExclusiveKept, OwnershipKept DEF Owned, Self
  <2> QED
    BY <1>2, <2>2, <2>3, <2>4, <2>5, <2>6, <2>7, <2>8, <2>9 DEF HandlerStep
<1>3. ASSUME NEW h \in UserIds,
             (\E kind \in RequestTypes : ClientRequest(h, kind)) \/ ConnectionEnds(h)
      PROVE  Exclusive' /\ HandlerOwnsEntry'
  BY <1>3, ExclusiveKept, OwnershipKept
     DEF ClientRequest, ConnectionEnds, ClientClose, ConnectionBreaks, Owned, Self, Live
<1>4. CASE UNCHANGED mgmtAll
  BY <1>4, ExclusiveKept, OwnershipKept DEF mgmtAll, mgmtVars, Owned, Self, Live
<1> QED BY <1>1, <1>2, <1>3, <1>4 DEF MgmtNext

\* If a peer port does not come back before its old handler has ended, every
\* handler only ever reads and changes the entry of its own user.
THEOREM EntryOwnership ==
    ASSUME PortReuse = FALSE
    PROVE  MgmtSpec => []HandlerOwnsEntry
<1>1. Owned => HandlerOwnsEntry
  BY DEF Owned
<1>2. Owned /\ [MgmtNext]_mgmtAll => Owned'
  BY OwnedStep
<1> QED BY <1>1, <1>2, OwnedInit, PTL DEF MgmtSpec

-----------------------------------------------------------------------------
(* The event stream.                                                        *)

VoiceEvents(h) == {VoiceJoined(h), VoiceLeft(h)}
OnlyVoice(h, q) ==
    \A i \in 1..Len(q) : q[i].do = "event" => q[i].event \in VoiceEvents(h)

\* What a handler has left to do concerns its own user, and only a running or
\* an exiting handler has anything left to do.
OwnEffects ==
    \A h \in UserIds :
        /\ OnlyVoice(h, effects[h])
        /\ effects[h] # <<>> => pc[h] \in {"running", "exiting"}

Streaming == Owned /\ OwnEffects

LEMMA OwnEffectsKept ==
    ASSUME OwnEffects, Shape, NEW h \in UserIds, NEW q,
           effects' = [effects EXCEPT ![h] = q], OnlyVoice(h, q),
           q # <<>> => pc'[h] \in {"running", "exiting"},
           \A k \in UserIds : k # h => pc'[k] = pc[k]
    PROVE  OwnEffects'
BY DEF OwnEffects, OnlyVoice, VoiceEvents, Shape, MgmtTypeOK

\* Dropping the first effect leaves the rest as it was.
LEMMA OnlyVoiceTail ==
    ASSUME NEW h, NEW q \in Seq(Effect), q # <<>>, OnlyVoice(h, q)
    PROVE  OnlyVoice(h, Tail(q))
<1>1. /\ Len(Tail(q)) = Len(q) - 1 /\ Len(q) \in Nat
      /\ \A i \in 1..Len(Tail(q)) : Tail(q)[i] = q[i + 1]
  BY HeadTailProperties, LenProperties
<1>2. ASSUME NEW i \in 1..Len(Tail(q)) PROVE i + 1 \in 1..Len(q)
  BY <1>1
<1> QED BY <1>1, <1>2 DEF OnlyVoice

LEMMA OnlyVoiceEmpty == \A h : OnlyVoice(h, <<>>)
BY DEF OnlyVoice

LEMMA HandlingEffects ==
    ASSUME Streaming, NEW h \in UserIds, NEW type, NEW user, NEW rest,
           Handling(h, type, user, rest),
           Self(h).id = h => OnlyVoice(h, rest)
    PROVE  OwnEffects'
<1>1. pc[h] = "running" /\ UNCHANGED pc /\ Self(h).id = h
  BY DEF Handling, Handles, Streaming, Owned, HandlerOwnsEntry
<1>2. CASE UNCHANGED effects
  BY <1>1, <1>2 DEF Streaming, OwnEffects
<1>3. CASE effects' = [effects EXCEPT ![h] = rest]
  BY <1>1, <1>3, OwnEffectsKept DEF Streaming, Owned
<1> QED BY <1>2, <1>3 DEF Handling

LEMMA StreamingInit == MgmtInit => Streaming
BY OwnedInit DEF Streaming, OwnEffects, OnlyVoice, MgmtInit

LEMMA StreamingStep ==
    ASSUME PortReuse = FALSE
    PROVE  Streaming /\ [MgmtNext]_mgmtAll => Streaming'
<1> SUFFICES ASSUME Streaming, [MgmtNext]_mgmtAll PROVE OwnEffects'
  BY OwnedStep DEF Streaming
<1> USE DEF handlerVars, channelVars, clientVars
<1>0. /\ Shape /\ Exclusive /\ OwnEffects
      /\ DOMAIN pc = UserIds /\ effects \in [UserIds -> Seq(Effect)]
  BY DEF Streaming, Owned, Shape, MgmtTypeOK
<1>1. ASSUME NEW a \in Addresses, Accept(a) PROVE OwnEffects'
  <2>1. next_user_id \in UserIds /\ pc[next_user_id] = "none"
    BY <1>0, <1>1, ProtocolAssumption DEF Accept, Exclusive, UserIds
  <2> QED BY <1>0, <1>1, <2>1 DEF Accept, OwnEffects
<1>2. ASSUME NEW h \in UserIds, HandlerStep(h) PROVE OwnEffects'
  <2>1. ASSUME Start(h) \/ Exit(h) PROVE OwnEffects'
    BY <1>0, <2>1 DEF Start, Exit, OwnEffects
  <2>2. ASSUME SendEvent(h) \/ SendBroadcast(h) \/ WriteResponse(h)
        PROVE  OwnEffects'
    <3> DEFINE q == effects'[h]
    <3>1. /\ effects[h] \in Seq(Effect) /\ effects[h] # <<>> /\ UNCHANGED pc
          /\ effects' = [effects EXCEPT ![h] = q]
          /\ q \in {Tail(effects[h]), <<>>}
      BY <1>0, <2>2 DEF SendEvent, SendBroadcast, WriteResponse, Due
    <3>2. OnlyVoice(h, Tail(effects[h]))
      BY <1>0, <3>1, OnlyVoiceTail DEF OwnEffects
    <3>3. OnlyVoice(h, q)
      BY <3>1, <3>2, OnlyVoiceEmpty
    <3>4. pc'[h] \in {"running", "exiting"}
      BY <1>0, <3>1 DEF OwnEffects
    <3> HIDE DEF q
    <3> QED BY <1>0, <3>1, <3>3, <3>4, OwnEffectsKept
  <2>3. ASSUME RejectLogin(h) \/ HandlePing(h) PROVE OwnEffects'
    <3>1. /\ pc[h] = "running" /\ UNCHANGED pc
          /\ \E p : effects' = [effects EXCEPT ![h] = <<Write(p)>>]
      BY <2>3 DEF RejectLogin, HandlePing, Handles
    <3>2. \A p : OnlyVoice(h, <<Write(p)>>)
      BY DEF OnlyVoice, Write
    <3> QED BY <1>0, <3>1, <3>2, OwnEffectsKept
  <2>4. ASSUME HandleLogin(h) PROVE OwnEffects'
    <3>1. \A p, m : OnlyVoice(h, <<Write(p), Cast(m)>>)
      BY DEF OnlyVoice, Write, Cast
    <3> QED BY <2>4, <3>1, HandlingEffects DEF HandleLogin
  <2>5. ASSUME NEW a \in Addresses, Collect(h, a) PROVE OwnEffects'
    <3>1. PICK new \in Effect :
            /\ new.do = "write" /\ effects[h] # <<>>
            /\ effects' = effects \/ effects' = [effects EXCEPT ![h] = [@ EXCEPT ![1] = new]]
      BY <1>0, <2>5, CollectEffect
    <3> DEFINE q == [effects[h] EXCEPT ![1] = new]
    <3>2. effects[h] \in Seq(Effect) /\ 1 \in 1..Len(effects[h])
      BY <1>0, <3>1
    <3>3. /\ Len(q) = Len(effects[h])
          /\ \A i \in 1..Len(q) : q[i] = IF i = 1 THEN new ELSE effects[h][i]
      BY <3>1, <3>2, ExceptSeq
    <3>4. UNCHANGED pc /\ (effects' = effects \/ effects' = [effects EXCEPT ![h] = q])
      BY <2>5, <3>1 DEF Collect
    <3> HIDE DEF q
    <3>5. OnlyVoice(h, q)
      BY <1>0, <3>1, <3>3 DEF OwnEffects, OnlyVoice
    <3> QED BY <1>0, <3>1, <3>4, <3>5, OwnEffectsKept DEF OwnEffects
  <2>6. ASSUME HandleJoinVoiceChannel(h) PROVE OwnEffects'
    <3>1. \A p, m : OnlyVoice(h, <<Write(p), Emit(VoiceJoined(h)), Cast(m)>>)
      BY DEF OnlyVoice, Write, Emit, Cast, VoiceEvents
    <3> QED BY <2>6, <3>1, HandlingEffects DEF HandleJoinVoiceChannel
  <2>7. ASSUME HandleLeaveVoiceChannel(h) PROVE OwnEffects'
    <3>1. \A p, m : OnlyVoice(h, <<Write(p), Emit(VoiceLeft(h)), Cast(m)>>)
      BY DEF OnlyVoice, Write, Emit, Cast, VoiceEvents
    <3> QED BY <2>7, <3>1, HandlingEffects DEF HandleLeaveVoiceChannel
  <2>8. ASSUME HandleChatMessage(h) PROVE OwnEffects'
    <3>1. \A p, m : OnlyVoice(h, <<Write(p), Cast(m)>>)
      BY DEF OnlyVoice, Write, Cast
    <3> QED BY <2>8, <3>1, HandlingEffects DEF HandleChatMessage
  <2>9. ASSUME HandleUserMuteState(h) PROVE OwnEffects'
    <3>1. \A m : OnlyVoice(h, <<Cast(m)>>)
      BY DEF OnlyVoice, Cast
    <3> QED BY <2>9, <3>1, HandlingEffects DEF HandleUserMuteState
  <2>10. ASSUME Read(h) \/ DeliverBroadcast(h) \/ NoticeLag(h) PROVE OwnEffects'
    BY <1>0, <2>10 DEF Read, DeliverBroadcast, NoticeLag, OwnEffects
  <2>11. ASSUME Disconnect(h) PROVE OwnEffects'
    <3>1. OnlyVoice(h, Farewell(Self(h)))
      BY DEF OnlyVoice, Farewell, Cast
    <3>2. pc' = [pc EXCEPT ![h] = "exiting"] /\ effects' = [effects EXCEPT ![h] = Farewell(Self(h))]
      BY <2>11 DEF Disconnect
    <3> QED BY <1>0, <3>1, <3>2, OwnEffectsKept
  <2>12. ASSUME BroadcastWriteFails(h) PROVE OwnEffects'
    BY <1>0, <2>12 DEF BroadcastWriteFails, OwnEffects
  <2> QED
    BY <1>2, <2>1, <2>2, <2>3, <2>4, <2>5, <2>6, <2>7, <2>8, <2>9, <2>10, <2>11, <2>12
       DEF HandlerStep
<1>3. ASSUME NEW h \in UserIds,
             (\E kind \in RequestTypes : ClientRequest(h, kind)) \/ ConnectionEnds(h)
      PROVE  OwnEffects'
  BY <1>0, <1>3 DEF ClientRequest, ConnectionEnds, ClientClose, ConnectionBreaks, OwnEffects
<1>4. CASE UNCHANGED mgmtAll
  BY <1>0, <1>4 DEF mgmtAll, mgmtVars, OwnEffects
<1> QED BY <1>1, <1>2, <1>3, <1>4 DEF MgmtNext

LEMMA StreamStepImplemented ==
    ASSUME RelayListens = TRUE, Streaming, [MgmtNext]_mgmtAll
    PROVE  [Stream!StreamNext]_<<events, StreamPhase>>
<1> USE DEF handlerVars, channelVars, clientVars, UserIds, Stream!UserIds,
            UserConnected, VoiceJoined, VoiceLeft, UserDisconnected,
            Stream!UserConnected, Stream!VoiceJoined, Stream!VoiceLeft,
            Stream!UserDisconnected
<1>0. DOMAIN pc = UserIds /\ effects \in [UserIds -> Seq(Effect)]
  BY DEF Streaming, Owned, Shape, MgmtTypeOK
<1>1. CASE UNCHANGED <<events, pc>>
  BY <1>1 DEF StreamPhase
<1>2. ASSUME NEW a \in Addresses, Accept(a) PROVE UNCHANGED <<events, StreamPhase>>
  <2>1. next_user_id \in UserIds /\ pc[next_user_id] = "none"
    BY <1>2, ProtocolAssumption DEF Accept, Streaming, Owned, Exclusive, UserIds
  <2> QED BY <1>0, <1>2, <2>1 DEF Accept, StreamPhase
<1>3. ASSUME NEW h \in UserIds, Start(h) PROVE Stream!StreamNext
  <2>1. Stream!Connected(h)
    BY <1>0, <1>3, RelayListens = TRUE DEF Start, Sent, Stream!Connected, StreamPhase
  <2> QED BY <2>1 DEF Stream!StreamNext, Stream!StreamStep
<1>4. ASSUME NEW h \in UserIds, Exit(h) PROVE Stream!StreamNext
  <2>1. Stream!Disconnected(h)
    BY <1>0, <1>4, RelayListens = TRUE DEF Exit, Sent, Stream!Disconnected, StreamPhase
  <2> QED BY <2>1 DEF Stream!StreamNext, Stream!StreamStep
<1>5. ASSUME NEW h \in UserIds, SendEvent(h) PROVE Stream!StreamNext
  <2>1. /\ effects[h] \in Seq(Effect) /\ effects[h] # <<>>
        /\ Head(effects[h]).do = "event" /\ OnlyVoice(h, effects[h])
        /\ pc[h] \in {"running", "exiting"}
    BY <1>0, <1>5 DEF SendEvent, Due, Streaming, OwnEffects
  <2>2. Head(effects[h]).event \in {VoiceJoined(h), VoiceLeft(h)}
    BY <2>1 DEF OnlyVoice, VoiceEvents
  <2>3. Stream!VoiceChanged(h)
    BY <1>0, <1>5, <2>1, <2>2, RelayListens = TRUE
       DEF SendEvent, Sent, Stream!VoiceChanged, StreamPhase
  <2> QED BY <2>3 DEF Stream!StreamNext, Stream!StreamStep
<1>6. ASSUME NEW h \in UserIds, Disconnect(h) \/ BroadcastWriteFails(h)
      PROVE  UNCHANGED <<events, StreamPhase>>
  BY <1>0, <1>6 DEF Disconnect, BroadcastWriteFails, HasBroadcast, AtSelect, StreamPhase
<1>7. ASSUME NEW h \in UserIds, HandlerStep(h)
      PROVE  [Stream!StreamNext]_<<events, StreamPhase>>
  BY <1>1, <1>3, <1>4, <1>5, <1>6, <1>7
     DEF HandlerStep, SendBroadcast, WriteResponse, RejectLogin, HandleLogin, Collect,
         HandleJoinVoiceChannel, HandleLeaveVoiceChannel, HandleChatMessage,
         HandleUserMuteState, HandlePing, Handling, Read, DeliverBroadcast, NoticeLag
<1>8. ASSUME NEW h \in UserIds,
             (\E kind \in RequestTypes : ClientRequest(h, kind)) \/ ConnectionEnds(h)
      PROVE  UNCHANGED <<events, pc>>
  BY <1>8 DEF ClientRequest, ConnectionEnds, ClientClose, ConnectionBreaks
<1>9. CASE UNCHANGED mgmtAll
  BY <1>1, <1>9 DEF mgmtAll, mgmtVars
<1> QED BY <1>1, <1>2, <1>7, <1>8, <1>9 DEF MgmtNext

\* The management server implements EventStream: the relay is told of every
\* user in the order connected, joined and left, disconnected, each user's
\* token with its own id, and never of a user twice.
THEOREM StreamImplemented ==
    ASSUME PortReuse = FALSE, RelayListens = TRUE
    PROVE  MgmtSpec => ImplementsStream
<1>1. MgmtInit => Stream!StreamInit
  BY DEF MgmtInit, Stream!StreamInit, StreamPhase, UserIds, Stream!UserIds
<1>2. Streaming /\ [MgmtNext]_mgmtAll => [Stream!StreamNext]_<<events, StreamPhase>>
  BY StreamStepImplemented
<1>3. Streaming /\ [MgmtNext]_mgmtAll => Streaming'
  BY StreamingStep
<1> QED
  BY <1>1, <1>2, <1>3, StreamingInit, PTL
     DEF MgmtSpec, ImplementsStream, Stream!StreamSpec

-----------------------------------------------------------------------------
(* Participant lists converge.  Applying news to an entry of a list is      *)
(* taken apart by what it says about the name, the voice channel and the    *)
(* microphone: of each of them, the last one to say something is right.     *)

Facets == {"name", "voice", "muted"}
\* Do two entries agree on f?
Same(f, x, y) ==
    IF f = "name" THEN x.username = y.username
    ELSE IF f = "voice" THEN x.in_voice = y.in_voice
    ELSE x.is_muted = y.is_muted
\* Does the packet say anything on f, and if so, what?
Sets(f, p) ==
    IF f = "name" THEN p.type \in {"UserJoinedServer", "UserLeftServer"}
    ELSE IF f = "voice"
    THEN p.type \in {"UserJoinedServer", "UserLeftServer", "UserJoinedVoice", "UserLeftVoice"}
    ELSE p.type # "UserSentMessage"
Said(p) == Info(IF p.type = "UserJoinedServer" THEN p.username ELSE NoName,
                p.type = "UserJoinedVoice", p.type = "UserMuteState" /\ p.is_muted)
\* These change, or show something of, only an entry that is there.
NeedsEntry(p) == p.type \in {"UserJoinedVoice", "UserMuteState", "UserSentMessage"}
Joins(p) == p.type = "UserJoinedServer"
Leaves(p) == p.type = "UserLeftServer"

\* The places in a queue of messages where user u is spoken of.
About(u, q) == {i \in DOMAIN q : q[i].packet.user_id = u}
\* The packets that a handler has still to broadcast.
Casts(s) == {s[i].message.packet : i \in {j \in DOMAIN s : s[j].do = "broadcast"}}
Mute(f, ps) == \A p \in ps : ~Sets(f, p)

\* What is said last in q about u's f is what t has.
LastSays(u, f, q, t) ==
    \A i \in About(u, q) : Sets(f, q[i].packet) =>
        Same(f, Said(q[i].packet), t) \/ \E j \in About(u, q) : j > i /\ Sets(f, q[j].packet)
Silent(u, f, q) == \A i \in About(u, q) : ~Sets(f, q[i].packet)

\* With ps still to be broadcast by u, the queue q leads to t, and leads x to t.
Heard(u, ps, q, t) == \A f \in Facets : Mute(f, ps) => LastSays(u, f, q, t)
Seen(u, ps, q, t, x) ==
    \A f \in Facets : Mute(f, ps) /\ Silent(u, f, q) => Same(f, x, t)
\* Whatever in q needs an entry for u finds one, if the list has x for it.
Known(u, q, x) ==
    \A i \in About(u, q) : NeedsEntry(q[i].packet) =>
        x.username # NoName \/ \E j \in About(u, q) : j < i /\ Joins(q[j].packet)
NoFarewell(u, q) == \A i \in About(u, q) : ~Leaves(q[i].packet)
\* Or else u's farewell comes after it.
FarewellFollows(u, ps, q) ==
    \A i \in About(u, q) : NeedsEntry(q[i].packet) =>
        (\E p \in ps : Leaves(p)) \/ \E j \in About(u, q) : j > i /\ Leaves(q[j].packet)

\* What a list ought to say of u.
Named(u) == Live(u) /\ Self(u).username # NoName
Truth(u) ==
    IF Named(u) THEN Info(Self(u).username, Self(u).in_voice, Self(u).is_muted) ELSE NoInfo
Unheard(u) == pc[u] = "none" \/ (Live(u) /\ ~Named(u))

\* The response to a login, and the list under construction in it.
Replying(h) ==
    /\ effects[h] # <<>> /\ Head(effects[h]).do = "write"
    /\ Head(effects[h]).packet.type = "LoginResponse"
Reply(h) == Head(effects[h]).packet
Admitting(h) == Replying(h) /\ Reply(h).id # 0

\* The map holds the entries of live handlers, and of those whose write failed.
Entry(a) ==
    IF users[a].id = 0 THEN users[a].username = NoName
    ELSE /\ users[a].id \in UserIds /\ address[users[a].id] = a
         /\ pc[users[a].id] # "none"
         /\ Live(users[a].id) \/ socket[users[a].id] = "broken"
Entries == \A a \in Addresses : Entry(a)

\* A client's one login packet is in one place, and comes before all others.
NoLogin(q) == \A i \in DOMAIN q : q[i].type # "Login"
LoginOnce(h) ==
    /\ clients[h].login = "none" =>
         inbox[h] = <<>> /\ packet_buffer[h] = <<>> /\ ~Replying(h)
    /\ clients[h].login = "asked" =>
         /\ inbox[h] # <<>> => Len(inbox[h]) = 1 /\ packet_buffer[h] = <<>> /\ ~Replying(h)
         /\ packet_buffer[h] # <<>> =>
              Len(packet_buffer[h]) = 1 /\ inbox[h] = <<>> /\ ~Replying(h)
    /\ clients[h].login = "answered" =>
         NoLogin(inbox[h]) /\ NoLogin(packet_buffer[h]) /\ ~Replying(h)
    /\ Named(h) => clients[h].login # "none" /\ NoLogin(inbox[h]) /\ NoLogin(packet_buffer[h])
    /\ LoggedIn(clients[h]) =>
         clients[h].login = "answered" /\ clients[h].user_id = h /\ (Live(h) => Named(h))
\* The other packets come from the room page.
FromRoom(h, q) ==
    \A i \in DOMAIN q : /\ q[i].type # "Login" => LoggedIn(clients[h])
                        /\ q[i].type = "Mute" => q[i].user_id = h
Asked(h) ==
    /\ LoginOnce(h)
    /\ FromRoom(h, inbox[h]) /\ FromRoom(h, packet_buffer[h])
    /\ Live(h) /\ ~Named(h) => ~Self(h).in_voice /\ ~Self(h).is_muted
    /\ pc[h] \in {"none", "spawned"} =>
         ~Named(h) /\ ~LoggedIn(clients[h]) /\ clients[h].participants = Nobody

\* A message that h has still to broadcast tells the truth; ps are all of them.
Honest(h, m, ps) ==
    /\ m.packet.user_id = h
    /\ m.exclude = NoAddress \/ (Live(h) /\ m.exclude = address[h])
    /\ \A f \in Facets : Sets(f, m.packet) => Same(f, Said(m.packet), Truth(h))
    /\ Live(h) => /\ Named(h) /\ ~Leaves(m.packet)
                  /\ NeedsEntry(m.packet) => Mute("name", ps)
                  /\ m.exclude = NoAddress => m.packet.type = "UserSentMessage"
    /\ ~Live(h) => ~NeedsEntry(m.packet) /\ ~Joins(m.packet)
\* What is left to do writes first, if at all.
Truthful(h) ==
    /\ \A i \in DOMAIN effects[h] : effects[h][i].do = "write" => i = 1
    /\ Replying(h) => Live(h) /\ Reply(h).id \in {0, h}
    /\ Admitting(h) => Named(h)
    /\ unvisited[h] # {} => Admitting(h)
    /\ \A i \in DOMAIN effects[h] : effects[h][i].do = "broadcast" =>
         Honest(h, effects[h][i].message, Casts(effects[h]))

\* What c has been told, is being told and will be told about another user.
Shown(c, u, x) ==
    /\ Seen(u, Casts(effects[u]), broadcast_rx[c], Truth(u), x)
    /\ Live(u) => Known(u, broadcast_rx[c], x)
Hears(c, u) ==
    /\ Heard(u, Casts(effects[u]), broadcast_rx[c], Truth(u))
    /\ \A i \in About(u, broadcast_rx[c]) :
         /\ broadcast_rx[c][i].exclude # address[c]
         /\ Joins(broadcast_rx[c][i].packet) => broadcast_rx[c][i].packet.username # NoName
    /\ IF Live(u) THEN NoFarewell(u, broadcast_rx[c])
       ELSE FarewellFollows(u, Casts(effects[u]), broadcast_rx[c])
Told(c, u) ==
    /\ Hears(c, u)
    /\ Unheard(u) => /\ About(u, broadcast_rx[c]) = {}
                     /\ clients[c].participants[u] = NoInfo
                     /\ Replying(c) => Reply(c).participants[u] = NoInfo
    /\ Admitting(c) /\ (Live(u) => address[u] \notin unvisited[c])
         => Shown(c, u, Reply(c).participants[u])
    /\ LoggedIn(clients[c]) /\ socket[c] = "open" => Shown(c, u, clients[c].participants[u])
ToldAll ==
    \A c, u \in UserIds :
        c # u /\ pc[c] = "running" /\ lagged[c] = "no" /\ socket[u] # "broken" => Told(c, u)

\* And about itself: nothing that changes its own entry gets through to it.
Spared(c, a, q) ==
    \A i \in About(c, q) : q[i].exclude = a \/ q[i].packet.type = "UserSentMessage"
ToldOwn(c) ==
    /\ Spared(c, address[c], broadcast_rx[c])
    /\ Admitting(c) /\ address[c] \notin unvisited[c] =>
         Reply(c).participants[c].username # NoName
    /\ LoggedIn(clients[c]) /\ socket[c] = "open" =>
         clients[c].participants[c].username # NoName

Listed ==
    /\ Streaming /\ Entries
    /\ \A h \in UserIds : /\ Asked(h) /\ Truthful(h)
                          /\ pc[h] = "none" => socket[h] = "none"
                          /\ pc[h] # "running" => broadcast_rx[h] = <<>>
                          /\ pc[h] = "running" => ToldOwn(h)
    /\ ToldAll

-----------------------------------------------------------------------------
(* What is known of a queue is kept as it is sent to and received from.     *)

Messages == Seq(BroadcastMessage)

Extended(u, q, m, r) ==
    /\ Len(q) + 1 \in Nat /\ r[Len(q) + 1] = m
    /\ \A i \in About(u, q) : i \in Nat /\ i < Len(q) + 1 /\ r[i] = q[i]
    /\ m.packet.user_id = u => About(u, r) = About(u, q) \cup {Len(q) + 1}
    /\ m.packet.user_id # u => About(u, r) = About(u, q)

\* A message sent goes to the end of a queue.
LEMMA AboutAppend ==
    ASSUME NEW q \in Messages, NEW m \in BroadcastMessage, NEW u
    PROVE  Extended(u, q, m, Append(q, m))
BY AppendProperties, LenProperties DEF Messages, About, Extended

Shifted(u, q, r) ==
    \A i \in About(u, r) :
        i \in Nat /\ i >= 1 /\ i + 1 \in About(u, q) /\ r[i] = q[i + 1]

\* The rest of a queue, seen from the rest and seen from the queue.
LEMMA TailDown ==
    ASSUME NEW q \in Messages, q # <<>>, NEW u, NEW r, r = Tail(q)
    PROVE  Shifted(u, q, r)
<1>1. /\ Len(q) \in Nat /\ Len(q) >= 1 /\ Len(r) = Len(q) - 1
      /\ DOMAIN q = 1..Len(q) /\ DOMAIN r = 1..Len(r)
      /\ \A i \in 1..Len(r) : r[i] = q[i + 1]
  BY HeadTailProperties, LenProperties, EmptySeq DEF Messages
<1> QED BY <1>1 DEF About, Shifted

LEMMA TailUp ==
    ASSUME NEW q \in Messages, q # <<>>, NEW u, NEW r, r = Tail(q)
    PROVE  /\ \A i \in About(u, q) :
                i \in Nat /\ i >= 1 /\ (i # 1 => i - 1 \in About(u, r))
           /\ 1 \in About(u, q) <=> Head(q).packet.user_id = u
           /\ q[1] = Head(q)
<1>1. /\ Len(q) \in Nat /\ Len(q) >= 1 /\ Len(r) = Len(q) - 1
      /\ DOMAIN q = 1..Len(q) /\ DOMAIN r = 1..Len(r)
      /\ \A i \in 1..Len(r) : r[i] = q[i + 1]
      /\ q[1] = Head(q)
  BY HeadTailProperties, LenProperties, EmptySeq DEF Messages
<1>2. ASSUME NEW i \in About(u, q)
      PROVE  i \in Nat /\ i >= 1 /\ (i # 1 => i - 1 \in About(u, r))
  <2>1. i \in 1..Len(q) /\ q[i].packet.user_id = u
    BY <1>1, <1>2 DEF About
  <2>2. ASSUME i # 1 PROVE i - 1 \in About(u, r)
    <3>1. i - 1 \in 1..Len(r) /\ (i - 1) + 1 = i
      BY <1>1, <2>1, <2>2
    <3>2. r[i - 1] = q[i]
      BY <1>1, <3>1
    <3> QED BY <1>1, <2>1, <3>1, <3>2 DEF About
  <2> QED BY <2>1, <2>2
<1>3. 1 \in About(u, q) <=> Head(q).packet.user_id = u
  BY <1>1 DEF About
<1> QED BY <1>1, <1>2, <1>3

\* Agreement on f is an equivalence.
LEMMA SameFacts ==
    ASSUME NEW f \in Facets, NEW x, NEW y, NEW z, Same(f, x, y)
    PROVE  Same(f, y, x) /\ (Same(f, y, z) => Same(f, x, z))
BY DEF Facets, Same

\* News of somebody else leaves an entry alone, news of its user leaves what it
\* says nothing about; and what it says is taken over unless the entry is missing.
LEMMA ApplyFacts ==
    ASSUME NEW list \in Participants, NEW p \in News, NEW u \in UserIds,
           NEW x, x = list[u], NEW y, y = ApplyNews(list, p)[u]
    PROVE  /\ p.user_id # u => y = x
           /\ \A f \in Facets : ~Sets(f, p) => Same(f, y, x)
           /\ p.user_id = u /\ (NeedsEntry(p) => x.username # NoName) =>
                \A f \in Facets : Sets(f, p) => Same(f, y, Said(p))
<1>0. /\ list \in [UserIds -> ParticipantInfo] /\ x \in ParticipantInfo
      /\ p.user_id \in 0..MaxUsers /\ p.type \in NewsTypes
  BY DEF Participants, News
<1>1. CASE p.type = "UserJoinedServer"
  <2>1. y = IF p.user_id = u THEN Info(p.username, FALSE, FALSE) ELSE x
    BY <1>0, <1>1 DEF ApplyNews
  <2> QED BY <1>1, <2>1 DEF Facets, Same, Sets, Said, NeedsEntry, Info
<1>2. CASE p.type # "UserJoinedServer" /\ (p.user_id \notin UserIds \/ list[p.user_id] = NoInfo)
  <2>1. y = x
    BY <1>2 DEF ApplyNews
  <2>2. p.user_id = u => x = NoInfo
    BY <1>2
  <2>3. ASSUME p.user_id = u, NeedsEntry(p) => x.username # NoName PROVE y = Said(p)
    <3>1. x = NoInfo /\ x.username = NoName
      BY <2>2, <2>3 DEF NoInfo, Info
    <3>2. p.type \in {"UserLeftServer", "UserLeftVoice"}
      BY <1>0, <1>2, <2>3, <3>1 DEF NeedsEntry, NewsTypes
    <3> QED BY <2>1, <3>1, <3>2 DEF Said, NoInfo, Info
  <2> QED BY <2>1, <2>3 DEF Same
<1>3. CASE p.type # "UserJoinedServer" /\ p.user_id \in UserIds /\ list[p.user_id] # NoInfo
  <2>1. p.user_id # u => y = x
    BY <1>0, <1>3 DEF ApplyNews, NewsTypes
  <2>2. ASSUME p.user_id = u, p.type = "UserLeftServer" PROVE y = NoInfo
    BY <1>0, <1>3, <2>2 DEF ApplyNews
  <2>3. ASSUME p.user_id = u, p.type = "UserSentMessage" PROVE y = x
    BY <1>0, <1>3, <2>3 DEF ApplyNews
  <2>4. ASSUME p.user_id = u, p.type = "UserMuteState"
        PROVE  y = [x EXCEPT !.is_muted = p.is_muted]
    BY <1>0, <1>3, <2>4 DEF ApplyNews
  <2>5. ASSUME p.user_id = u, p.type \in {"UserJoinedVoice", "UserLeftVoice"}
        PROVE  /\ y.username = x.username /\ y.is_muted = FALSE
               /\ y.in_voice = (p.type = "UserJoinedVoice")
    <3>1. CASE p.type = "UserJoinedVoice"
      <4>1. ApplyNews(list, p) = [list EXCEPT ![u].in_voice = TRUE, ![u].is_muted = FALSE]
        BY <1>3, <2>5, <3>1 DEF ApplyNews
      <4>2. y = [x EXCEPT !.in_voice = TRUE, !.is_muted = FALSE]
        BY <1>0, <4>1
      <4> QED BY <1>0, <3>1, <4>2 DEF ParticipantInfo
    <3>2. CASE p.type = "UserLeftVoice"
      <4>1. ApplyNews(list, p) = [list EXCEPT ![u].in_voice = FALSE, ![u].is_muted = FALSE]
        BY <1>3, <2>5, <3>2 DEF ApplyNews
      <4>2. y = [x EXCEPT !.in_voice = FALSE, !.is_muted = FALSE]
        BY <1>0, <4>1
      <4> QED BY <1>0, <3>2, <4>2 DEF ParticipantInfo
    <3> QED BY <2>5, <3>1, <3>2
  <2>6. CASE p.user_id # u
    BY <1>0, <1>3, <2>1, <2>6 DEF Facets, Same
  <2>7. CASE p.user_id = u /\ p.type \in {"UserLeftServer", "UserSentMessage"}
    BY <2>2, <2>3, <2>7 DEF Facets, Same, Sets, Said, NeedsEntry, NoInfo, Info
  <2>8. CASE p.user_id = u /\ p.type = "UserMuteState"
    <3>1. /\ y.username = x.username /\ y.in_voice = x.in_voice
          /\ y.is_muted = p.is_muted
      BY <1>0, <2>4, <2>8 DEF ParticipantInfo
    <3>2. p.is_muted \in BOOLEAN /\ Said(p).is_muted = p.is_muted
      BY <2>8 DEF News, Said, Info
    <3> QED BY <2>8, <3>1, <3>2 DEF Facets, Same, Sets
  <2>9. CASE p.user_id = u /\ p.type \in {"UserJoinedVoice", "UserLeftVoice"}
    <3>1. /\ Said(p).in_voice = (p.type = "UserJoinedVoice")
          /\ Said(p).is_muted = FALSE
      BY <2>9 DEF Said, Info
    <3> QED BY <2>5, <2>9, <3>1 DEF Facets, Same, Sets
  <2> QED BY <1>0, <1>3, <2>6, <2>7, <2>8, <2>9 DEF NewsTypes
<1> QED BY <1>1, <1>2, <1>3

\* Receiving the first message.
LEMMA ReceivedKept ==
    ASSUME NEW q \in Messages, q # <<>>, NEW u, NEW ps, NEW t
    PROVE  /\ Heard(u, ps, q, t) => Heard(u, ps, Tail(q), t)
           /\ NoFarewell(u, q) => NoFarewell(u, Tail(q))
           /\ FarewellFollows(u, ps, q) => FarewellFollows(u, ps, Tail(q))
<1> DEFINE r == Tail(q)
<1> HIDE DEF r
<1>r. \A i \in About(u, r) : i \in Nat /\ i >= 1 /\ i + 1 \in About(u, q) /\ r[i] = q[i + 1]
  <2>1. Shifted(u, q, r)
    BY TailDown DEF r
  <2> QED BY <2>1 DEF Shifted
<1>q. \A i \in About(u, q) : i \in Nat /\ i >= 1 /\ (i # 1 => i - 1 \in About(u, r))
  BY TailUp DEF r
<1>n. \A i \in About(u, r) \cup About(u, q) : i \in Nat /\ i >= 1
  <2>1. \A i \in About(u, r) : i \in Nat /\ i >= 1
    BY <1>r
  <2>2. \A i \in About(u, q) : i \in Nat /\ i >= 1
    BY <1>q
  <2> QED BY <2>1, <2>2

\* What follows the message at i + 1 of q follows the one at i of r.
<1>1. ASSUME NEW i \in About(u, r), NEW j \in About(u, q), j > i + 1
      PROVE  j - 1 \in About(u, r) /\ j - 1 > i /\ r[j - 1] = q[j]
  <2>1. i \in Nat /\ i >= 1 /\ j \in Nat
    BY <1>n
  <2>2. j - 1 \in About(u, r)
    BY <1>1, <1>q, <2>1
  <2>3. r[j - 1] = q[(j - 1) + 1] /\ (j - 1) + 1 = j
    BY <1>r, <2>1, <2>2
  <2> QED BY <1>1, <2>1, <2>2, <2>3
<1>2. ASSUME NEW f, LastSays(u, f, q, t) PROVE LastSays(u, f, r, t)
  <2> SUFFICES ASSUME NEW i \in About(u, r), Sets(f, r[i].packet), ~Same(f, Said(r[i].packet), t)
               PROVE  \E j \in About(u, r) : j > i /\ Sets(f, r[j].packet)
    BY DEF LastSays
  <2>1. PICK j \in About(u, q) : j > i + 1 /\ Sets(f, q[j].packet)
    BY <1>r, <1>2 DEF LastSays
  <2> QED BY <1>1, <2>1
<1>3. ASSUME FarewellFollows(u, ps, q) PROVE FarewellFollows(u, ps, r)
  <2> SUFFICES ASSUME NEW i \in About(u, r), NeedsEntry(r[i].packet), \A p \in ps : ~Leaves(p)
               PROVE  \E j \in About(u, r) : j > i /\ Leaves(r[j].packet)
    BY DEF FarewellFollows
  <2>1. PICK j \in About(u, q) : j > i + 1 /\ Leaves(q[j].packet)
    BY <1>r, <1>3 DEF FarewellFollows
  <2> QED BY <1>1, <2>1
<1> QED BY <1>r, <1>2, <1>3 DEF Heard, NoFarewell, r

LEMMA ReceivedShows ==
    ASSUME NEW q \in Messages, q # <<>>, NEW u \in UserIds, NEW ps, NEW t,
           NEW list \in Participants, NEW x, x = list[u],
           NEW y, y = ApplyNews(list, Head(q).packet)[u],
           Heard(u, ps, q, t), Seen(u, ps, q, t, x)
    PROVE  /\ FarewellFollows(u, ps, q) \/ Known(u, q, x) => Seen(u, ps, Tail(q), t, y)
           /\ /\ Known(u, q, x) /\ NoFarewell(u, q)
              /\ \A i \in About(u, q) : Joins(q[i].packet) => q[i].packet.username # NoName
              => Known(u, Tail(q), y)
<1> DEFINE r == Tail(q)
           p == Head(q).packet
<1> HIDE DEF r, p
<1>0. (1 \in About(u, q) <=> p.user_id = u) /\ q[1].packet = p
  BY TailUp DEF p
<1>r. \A i \in About(u, r) : i \in Nat /\ i >= 1 /\ i + 1 \in About(u, q) /\ r[i] = q[i + 1]
  <2>1. Shifted(u, q, r)
    BY TailDown DEF r
  <2> QED BY <2>1 DEF Shifted
<1>q. \A i \in About(u, q) : i \in Nat /\ i >= 1 /\ (i # 1 => i - 1 \in About(u, r))
  BY TailUp DEF r
<1>n. \A i \in About(u, r) \cup About(u, q) : i \in Nat /\ i >= 1
  <2>1. \A i \in About(u, r) : i \in Nat /\ i >= 1
    BY <1>r
  <2>2. \A i \in About(u, q) : i \in Nat /\ i >= 1
    BY <1>q
  <2> QED BY <2>1, <2>2
<1>1. p \in News
  <2>1. Head(q) \in BroadcastMessage
    BY DEF Messages
  <2> QED BY <2>1 DEF BroadcastMessage, p
<1>2. /\ p.user_id # u => y = x
      /\ \A f \in Facets : ~Sets(f, p) => Same(f, y, x)
      /\ p.user_id = u /\ (NeedsEntry(p) => x.username # NoName) =>
           \A f \in Facets : Sets(f, p) => Same(f, y, Said(p))
  BY <1>1, ApplyFacts DEF p
<1>3. ASSUME NEW j \in About(u, q), j # 1
      PROVE  j - 1 \in About(u, r) /\ r[j - 1] = q[j]
  <2>1. j \in Nat /\ j - 1 \in About(u, r)
    BY <1>n, <1>q, <1>3
  <2>2. r[j - 1] = q[(j - 1) + 1] /\ (j - 1) + 1 = j
    BY <1>r, <2>1
  <2> QED BY <2>1, <2>2
<1>4. ASSUME FarewellFollows(u, ps, q) \/ Known(u, q, x) PROVE Seen(u, ps, r, t, y)
  <2> SUFFICES ASSUME NEW f \in Facets, Mute(f, ps), Silent(u, f, r)
               PROVE  Same(f, y, t)
    BY DEF Seen
  <2>0. \A j \in About(u, q) : j # 1 => ~Sets(f, q[j].packet)
    BY <1>3 DEF Silent
  <2>1. CASE p.user_id = u /\ Sets(f, p)
    <3>1. 1 \in About(u, q)
      BY <1>0, <2>1
    <3>2. Same(f, Said(p), t)
      BY <1>0, <2>0, <2>1, <3>1 DEF Heard, LastSays
    <3>3. ASSUME NeedsEntry(p) PROVE x.username # NoName
      <4>1. \A l : Leaves(l) => Sets(f, l)
        BY DEF Leaves, Sets
      <4>2. ~FarewellFollows(u, ps, q)
        BY <1>0, <2>0, <3>1, <3>3, <4>1 DEF FarewellFollows, Mute
      <4>3. ASSUME NEW j \in About(u, q) PROVE ~(j < 1)
        <5>1. j \in Nat /\ j >= 1
          BY <1>n
        <5> QED BY <5>1
      <4> QED BY <1>0, <1>4, <3>1, <3>3, <4>2, <4>3 DEF Known
    <3>4. Same(f, y, Said(p))
      BY <1>2, <2>1, <3>3
    <3> QED BY <3>2, <3>4, SameFacts
  <2>2. CASE p.user_id # u \/ ~Sets(f, p)
    <3>1. Silent(u, f, q)
      BY <1>0, <2>0, <2>2 DEF Silent
    <3>2. Same(f, x, t)
      BY <3>1 DEF Seen
    <3>3. Same(f, y, x)
      BY <1>2, <2>2 DEF Same
    <3> QED BY <3>2, <3>3, SameFacts
  <2> QED BY <2>1, <2>2
<1>5. ASSUME Known(u, q, x), NoFarewell(u, q),
             \A i \in About(u, q) : Joins(q[i].packet) => q[i].packet.username # NoName
      PROVE  Known(u, r, y)
  <2> SUFFICES ASSUME NEW i \in About(u, r), NeedsEntry(r[i].packet), y.username = NoName
               PROVE  \E j \in About(u, r) : j < i /\ Joins(r[j].packet)
    BY DEF Known
  <2>1. i \in Nat /\ i + 1 \in About(u, q) /\ q[i + 1] = r[i]
    BY <1>n, <1>r
  <2>2. ~(p.user_id = u /\ Joins(p))
    <3> SUFFICES ASSUME p.user_id = u, Joins(p) PROVE FALSE
      OBVIOUS
    <3>1. p.username # NoName
      BY <1>0, <1>5
    <3>2. Same("name", y, Said(p))
      BY <1>2 DEF NeedsEntry, Joins, Sets, Facets
    <3> QED BY <3>1, <3>2 DEF Same, Said, Info, Joins
  <2>3. x.username = NoName
    <3>1. p.user_id # u \/ ~Sets("name", p)
      BY <1>0, <1>5, <2>2 DEF NoFarewell, Joins, Leaves, Sets
    <3>2. Same("name", y, x)
      BY <1>2, <3>1 DEF Same, Facets
    <3> QED BY <3>2 DEF Same
  <2>4. PICK j \in About(u, q) : j < i + 1 /\ Joins(q[j].packet)
    BY <1>5, <2>1, <2>3 DEF Known
  <2>5. j # 1
    BY <1>0, <2>2, <2>4
  <2>6. j - 1 \in About(u, r) /\ r[j - 1] = q[j]
    BY <1>3, <2>5
  <2>7. j \in Nat
    BY <1>n
  <2> QED BY <2>1, <2>4, <2>6, <2>7
<1> QED BY <1>4, <1>5 DEF r

\* Messages about others do not matter.
LEMMA OthersKept ==
    ASSUME NEW q \in Messages, NEW m \in BroadcastMessage, NEW u, m.packet.user_id # u,
           NEW ps, NEW t
    PROVE  /\ About(u, Append(q, m)) = About(u, q)
           /\ \A i \in About(u, q) : Append(q, m)[i] = q[i]
           /\ Heard(u, ps, q, t) => Heard(u, ps, Append(q, m), t)
           /\ NoFarewell(u, q) => NoFarewell(u, Append(q, m))
           /\ FarewellFollows(u, ps, q) => FarewellFollows(u, ps, Append(q, m))
           /\ \A x : Seen(u, ps, q, t, x) => Seen(u, ps, Append(q, m), t, x)
           /\ \A x : Known(u, q, x) => Known(u, Append(q, m), x)
<1> DEFINE r == Append(q, m)
<1>0. Extended(u, q, m, r)
  BY AboutAppend
<1> HIDE DEF r
<1>1. About(u, r) = About(u, q) /\ \A i \in About(u, q) : r[i] = q[i]
  BY <1>0 DEF Extended
<1>2. \A f : LastSays(u, f, q, t) => LastSays(u, f, r, t)
  BY <1>1 DEF LastSays
<1>3. \A f : Silent(u, f, r) => Silent(u, f, q)
  BY <1>1 DEF Silent
<1>4. \A x : Known(u, q, x) => Known(u, r, x)
  BY <1>1 DEF Known
<1>5. FarewellFollows(u, ps, q) => FarewellFollows(u, ps, r)
  BY <1>1 DEF FarewellFollows
<1> QED BY <1>1, <1>2, <1>3, <1>4, <1>5 DEF Heard, Seen, NoFarewell, r

\* The user's own handler sends what it had to broadcast: ps becomes qs.
LEMMA OwnSent ==
    ASSUME NEW q \in Messages, NEW m \in BroadcastMessage, NEW u, m.packet.user_id = u,
           NEW ps, NEW qs, qs \subseteq ps, ps \subseteq qs \cup {m.packet}, NEW t,
           \A f \in Facets : Sets(f, m.packet) => Same(f, Said(m.packet), t),
           Heard(u, ps, q, t)
    PROVE  /\ Heard(u, qs, Append(q, m), t)
           /\ NoFarewell(u, q) /\ ~Leaves(m.packet) => NoFarewell(u, Append(q, m))
           /\ FarewellFollows(u, ps, q) /\ ~NeedsEntry(m.packet)
                => FarewellFollows(u, qs, Append(q, m))
           /\ \A x : Seen(u, ps, q, t, x) => Seen(u, qs, Append(q, m), t, x)
           /\ \A x : /\ Seen(u, ps, q, t, x) /\ Known(u, q, x) /\ NoFarewell(u, q)
                     /\ NeedsEntry(m.packet) => Mute("name", ps)
                     /\ t.username # NoName
                     => Known(u, Append(q, m), x)
<1> DEFINE r == Append(q, m)
           n == Len(q) + 1
<1>0. Extended(u, q, m, r)
  BY AboutAppend
<1> HIDE DEF r, n
<1>1. /\ n \in Nat /\ r[n] = m
      /\ \A i \in About(u, q) : i \in Nat /\ i < n /\ r[i] = q[i]
      /\ About(u, r) = About(u, q) \cup {n}
  BY <1>0 DEF Extended, n
<1>2. ASSUME NEW f \in Facets, Mute(f, qs) PROVE LastSays(u, f, r, t)
  <2>1. CASE Sets(f, m.packet)
    BY <1>1, <2>1 DEF LastSays
  <2>2. CASE ~Sets(f, m.packet)
    <3>1. LastSays(u, f, q, t)
      BY <1>2, <2>2 DEF Mute, Heard
    <3> QED BY <1>1, <2>2, <3>1 DEF LastSays
  <2> QED BY <2>1, <2>2
<1>3. ASSUME NEW x, Seen(u, ps, q, t, x) PROVE Seen(u, qs, r, t, x)
  <2> SUFFICES ASSUME NEW f \in Facets, Mute(f, qs), Silent(u, f, r) PROVE Same(f, x, t)
    BY DEF Seen
  <2>1. ~Sets(f, m.packet) /\ Silent(u, f, q)
    BY <1>1 DEF Silent
  <2> QED BY <1>3, <2>1 DEF Seen, Mute
<1>4. ASSUME NoFarewell(u, q), ~Leaves(m.packet) PROVE NoFarewell(u, r)
  BY <1>1, <1>4 DEF NoFarewell
<1>5. ASSUME FarewellFollows(u, ps, q), ~NeedsEntry(m.packet) PROVE FarewellFollows(u, qs, r)
  <2> SUFFICES ASSUME NEW i \in About(u, q), NeedsEntry(q[i].packet)
               PROVE  \/ \E p \in qs : Leaves(p)
                      \/ \E j \in About(u, r) : j > i /\ Leaves(r[j].packet)
    BY <1>1, <1>5 DEF FarewellFollows
  <2>1. CASE Leaves(m.packet)
    <3>1. n \in About(u, r) /\ n > i /\ Leaves(r[n].packet)
      BY <1>1, <2>1
    <3> QED BY <3>1
  <2>2. CASE ~Leaves(m.packet) /\ \E p \in ps : Leaves(p)
    BY <2>2
  <2>3. CASE \E j \in About(u, q) : j > i /\ Leaves(q[j].packet)
    BY <1>1, <2>3
  <2> QED BY <1>5, <2>1, <2>2, <2>3 DEF FarewellFollows
<1>6. ASSUME NEW x, Seen(u, ps, q, t, x), Known(u, q, x), NoFarewell(u, q),
             NeedsEntry(m.packet) => Mute("name", ps), t.username # NoName
      PROVE  Known(u, r, x)
  <2> SUFFICES ASSUME NEW i \in About(u, r), NeedsEntry(r[i].packet), x.username = NoName
               PROVE  \E j \in About(u, r) : j < i /\ Joins(r[j].packet)
    BY DEF Known
  <2>1. CASE i \in About(u, q)
    BY <1>1, <1>6, <2>1 DEF Known
  <2>2. CASE i = n
    <3>1. Mute("name", ps)
      BY <1>1, <1>6, <2>2
    <3>2. ~Silent(u, "name", q)
      BY <1>6, <3>1 DEF Seen, Same, Facets
    <3>3. PICK j \in About(u, q) : Sets("name", q[j].packet)
      BY <3>2 DEF Silent
    <3>4. Joins(q[j].packet)
      BY <1>6, <3>3 DEF NoFarewell, Sets, Leaves, Joins
    <3> QED BY <1>1, <2>2, <3>4
  <2> QED BY <1>1, <2>1, <2>2
<1>7. Heard(u, qs, r, t)
  BY <1>2 DEF Heard
<1> QED BY <1>3, <1>4, <1>5, <1>6, <1>7 DEF r

\* A change that is still to be broadcast is no change to those who listen.
LEMMA ChangeKept ==
    ASSUME NEW q, NEW u, NEW ps, NEW t, NEW s,
           \A f \in Facets : Mute(f, ps) => Same(f, s, t)
    PROVE  /\ Heard(u, {}, q, s) => Heard(u, ps, q, t)
           /\ \A x : Seen(u, {}, q, s, x) => Seen(u, ps, q, t, x)
<1>1. ASSUME NEW f \in Facets, Same(f, s, t), LastSays(u, f, q, s) PROVE LastSays(u, f, q, t)
  BY <1>1, SameFacts DEF LastSays
<1>2. ASSUME NEW f \in Facets, Same(f, s, t), NEW x, Same(f, x, s) PROVE Same(f, x, t)
  BY <1>2, SameFacts
<1> QED BY <1>1, <1>2 DEF Heard, Seen, Mute

\* Where nothing has been said of a user, what is listed has to be right.
LEMMA NothingSaid ==
    ASSUME NEW q, NEW u, About(u, q) = {}, NEW ps, NEW t
    PROVE  /\ Heard(u, ps, q, t) /\ NoFarewell(u, q) /\ FarewellFollows(u, ps, q)
           /\ Seen(u, ps, q, t, t)
           /\ \A x : Known(u, q, x)
BY DEF Heard, NoFarewell, FarewellFollows, LastSays, Seen, Known, Same

\* The truth itself is shown right.
LEMMA TruthShown ==
    ASSUME NEW q, NEW u, NEW ps, NEW t
    PROVE  /\ Seen(u, ps, q, t, t)
           /\ t.username # NoName => Known(u, q, t)
BY DEF Seen, Known, Same

\* The packets left to broadcast.
LEMMA CastsEmpty == Casts(<<>>) = {}
BY DEF Casts

\* Doing the first effect takes away its packet, if it is a broadcast.
LEMMA CastsTail ==
    ASSUME NEW s \in Seq(Effect), s # <<>>
    PROVE  /\ Head(s).do # "broadcast" => Casts(Tail(s)) = Casts(s)
           /\ Head(s).do = "broadcast" =>
                /\ Head(s).message.packet \in Casts(s)
                /\ Casts(Tail(s)) \subseteq Casts(s)
                /\ Casts(s) \subseteq Casts(Tail(s)) \cup {Head(s).message.packet}
<1> DEFINE r == Tail(s)
           bs == {j \in DOMAIN s : s[j].do = "broadcast"}
           br == {j \in DOMAIN r : r[j].do = "broadcast"}
<1>1. /\ Len(s) \in Nat /\ Len(s) >= 1 /\ Len(r) = Len(s) - 1
      /\ DOMAIN s = 1..Len(s) /\ DOMAIN r = 1..Len(r)
      /\ \A i \in 1..Len(r) : r[i] = s[i + 1]
      /\ s[1] = Head(s)
  BY HeadTailProperties, LenProperties, EmptySeq
<1> HIDE DEF r
<1>2. ASSUME NEW i \in br PROVE i + 1 \in bs /\ r[i] = s[i + 1]
  BY <1>1, <1>2
<1>3. ASSUME NEW i \in bs, i # 1 PROVE i - 1 \in br /\ r[i - 1] = s[i]
  <2>1. i \in 1..Len(s)
    BY <1>1, <1>3
  <2>2. i - 1 \in 1..Len(r) /\ (i - 1) + 1 = i
    BY <1>1, <1>3, <2>1
  <2>3. r[i - 1] = s[i]
    BY <1>1, <2>2
  <2> QED BY <1>1, <1>3, <2>2, <2>3
<1>4. 1 \in bs <=> Head(s).do = "broadcast"
  BY <1>1
<1> HIDE DEF bs, br
<1>5. Casts(s) = {s[i].message.packet : i \in bs} /\ Casts(r) = {r[i].message.packet : i \in br}
  BY DEF Casts, bs, br
<1>6. Casts(r) \subseteq Casts(s)
  BY <1>2, <1>5
<1>7. ASSUME NEW p \in Casts(s)
      PROVE  p \in Casts(r) \/ (1 \in bs /\ p = Head(s).message.packet)
  <2>1. PICK i \in bs : p = s[i].message.packet
    BY <1>5
  <2>2. CASE i = 1
    BY <1>1, <2>1, <2>2
  <2>3. CASE i # 1
    BY <1>3, <1>5, <2>1, <2>3
  <2> QED BY <2>2, <2>3
<1>8. 1 \in bs => Head(s).message.packet \in Casts(s)
  BY <1>1, <1>5
<1> QED BY <1>4, <1>6, <1>7, <1>8 DEF r

-----------------------------------------------------------------------------
(* A step of one connection leaves alone what belongs to the others.        *)

Untouched(k) ==
    /\ pc'[k] = pc[k] /\ address'[k] = address[k] /\ socket'[k] = socket[k]
    /\ clients'[k] = clients[k] /\ inbox'[k] = inbox[k]
    /\ packet_buffer'[k] = packet_buffer[k]
    /\ effects'[k] = effects[k] /\ unvisited'[k] = unvisited[k]
    /\ Live(k) => users'[address[k]] = users[address[k]]

\* What the invariants above say, in the form used below.
LEMMA StreamingFacts ==
    ASSUME Streaming
    PROVE  /\ Shape /\ MgmtTypeOK /\ Exclusive /\ HandlerOwnsEntry /\ OwnEffects
           /\ \A h \in UserIds : Live(h) => /\ Self(h).id = h /\ Self(h) \in User
                                            /\ address[h] \in Addresses /\ h # 0
           /\ \A h \in UserIds : effects[h] # <<>> => pc[h] \in {"running", "exiting"}
           /\ \A h, k \in UserIds : Live(h) /\ Live(k) /\ h # k => address[h] # address[k]
<1>1. Shape /\ MgmtTypeOK /\ Exclusive /\ HandlerOwnsEntry /\ OwnEffects
  BY DEF Streaming, Owned, Shape
<1>2. ASSUME NEW h \in UserIds, Live(h)
      PROVE  Self(h).id = h /\ address[h] \in Addresses /\ h # 0
  BY <1>1, <1>2, ProtocolAssumption DEF HandlerOwnsEntry, Live, Shape, UserIds
<1>3. ASSUME NEW h \in UserIds, Live(h) PROVE Self(h) \in User
  BY <1>1, <1>2, <1>3 DEF MgmtTypeOK, Self
<1>4. \A h \in UserIds : effects[h] # <<>> => pc[h] \in {"running", "exiting"}
  BY <1>1 DEF OwnEffects
<1>5. \A h, k \in UserIds : Live(h) /\ Live(k) /\ h # k => address[h] # address[k]
  BY <1>1 DEF Exclusive
<1> QED BY <1>1, <1>2, <1>3, <1>4, <1>5

\* A step of connection h belongs to h alone.
LEMMA OthersUntouched ==
    ASSUME Streaming, NEW h \in UserIds, NEW k \in UserIds, k # h,
           \/ HandlerStep(h) \/ ConnectionEnds(h)
           \/ \E kind \in RequestTypes : ClientRequest(h, kind)
    PROVE  Untouched(k)
<1> USE DEF handlerVars, channelVars, clientVars
<1>1. /\ Shape /\ MgmtTypeOK
      /\ pc[h] = "running" /\ Live(k) => address[h] # address[k]
      /\ Live(k) => address[k] \in Addresses
  BY StreamingFacts DEF Live
<1>2. ASSUME Start(h) \/ Exit(h) \/ SendEvent(h) \/ SendBroadcast(h) PROVE Untouched(k)
  BY <1>1, <1>2 DEF Start, Exit, SendEvent, SendBroadcast, Untouched, MgmtTypeOK
<1>3. ASSUME WriteResponse(h) \/ RejectLogin(h) \/ HandlePing(h) PROVE Untouched(k)
  BY <1>1, <1>3 DEF WriteResponse, RejectLogin, HandlePing, Untouched, MgmtTypeOK
<1>4. ASSUME NEW type, NEW user, NEW rest, Handling(h, type, user, rest),
             unvisited'[k] = unvisited[k]
      PROVE  Untouched(k)
  BY <1>1, <1>4 DEF Handling, Handles, Untouched, MgmtTypeOK
<1>5. ASSUME HandleLogin(h) PROVE Untouched(k)
  <2>1. unvisited'[k] = unvisited[k]
    BY <1>1, <1>5 DEF HandleLogin, MgmtTypeOK
  <2> QED BY <1>4, <1>5, <2>1 DEF HandleLogin
<1>6. ASSUME \/ HandleJoinVoiceChannel(h) \/ HandleLeaveVoiceChannel(h)
             \/ HandleChatMessage(h) \/ HandleUserMuteState(h)
      PROVE  Untouched(k)
  BY <1>4, <1>6 DEF HandleJoinVoiceChannel, HandleLeaveVoiceChannel, HandleChatMessage,
                    HandleUserMuteState
<1>7. ASSUME NEW a \in Addresses, Collect(h, a) PROVE Untouched(k)
  <2>1. effects'[k] = effects[k] /\ unvisited'[k] = unvisited[k]
    BY <1>1, <1>7 DEF Collect, MgmtTypeOK
  <2> QED BY <1>7, <2>1 DEF Collect, Untouched
<1>8. ASSUME Read(h) \/ Disconnect(h) \/ DeliverBroadcast(h) PROVE Untouched(k)
  BY <1>1, <1>8 DEF Read, Disconnect, AtSelect, DeliverBroadcast, Untouched, MgmtTypeOK
<1>9. ASSUME BroadcastWriteFails(h) \/ NoticeLag(h) PROVE Untouched(k)
  BY <1>1, <1>9 DEF BroadcastWriteFails, NoticeLag, Untouched, MgmtTypeOK
<1>10. ASSUME ConnectionEnds(h) PROVE Untouched(k)
  BY <1>1, <1>10 DEF ConnectionEnds, ClientClose, ConnectionBreaks, Untouched, MgmtTypeOK
<1>11. ASSUME NEW kind \in RequestTypes, ClientRequest(h, kind) PROVE Untouched(k)
  BY <1>1, <1>11 DEF ClientRequest, Untouched, MgmtTypeOK
<1> QED
  BY <1>2, <1>3, <1>5, <1>6, <1>7, <1>8, <1>9, <1>10, <1>11 DEF HandlerStep

\* A new connection takes an identifier and an address nobody live has.
LEMMA AcceptUntouches ==
    ASSUME PortReuse = FALSE, Streaming, NEW a \in Addresses, Accept(a)
    PROVE  /\ next_user_id \in UserIds /\ pc[next_user_id] = "none"
           /\ \A k \in UserIds : k # next_user_id => Untouched(k)
           /\ \A k \in UserIds : Live(k) => address[k] # a
<1> DEFINE n == next_user_id
<1>1. /\ Shape /\ MgmtTypeOK /\ Exclusive
      /\ \A k \in UserIds : Live(k) => address[k] \in Addresses
  BY StreamingFacts
<1>2. n \in UserIds /\ pc[n] = "none"
  BY <1>1, ProtocolAssumption DEF Accept, Exclusive, UserIds
<1>3. \A k \in UserIds : Live(k) => address[k] # a
  BY DEF Accept, AddressFree, Live
<1> QED BY <1>1, <1>2, <1>3 DEF Accept, Registered, Untouched, MgmtTypeOK, channelVars

\* The truth about a user is as old as the last change of its entry.
LEMMA TruthKept ==
    ASSUME NEW u, Live(u)' <=> Live(u), Live(u) => Self(u)' = Self(u)
    PROVE  (Named(u)' <=> Named(u)) /\ Truth(u)' = Truth(u)
BY DEF Named, Truth

\* What is stated of k by its own variables survives the steps of others.
LEMMA UntouchedKept ==
    ASSUME NEW k, Untouched(k)
    PROVE  /\ Live(k)' <=> Live(k)
           /\ Live(k) => Self(k)' = Self(k)
           /\ Named(k)' <=> Named(k)
           /\ Truth(k)' = Truth(k)
           /\ Unheard(k)' <=> Unheard(k)
           /\ Replying(k)' <=> Replying(k)
           /\ Admitting(k)' <=> Admitting(k)
           /\ Reply(k)' = Reply(k)
           /\ Casts(effects'[k]) = Casts(effects[k])
           /\ Asked(k) => Asked(k)'
           /\ Truthful(k) => Truthful(k)'
<1>1. (Live(k)' <=> Live(k)) /\ (Live(k) => Self(k)' = Self(k))
  BY DEF Untouched, Live, Self
<1>2. (Named(k)' <=> Named(k)) /\ Truth(k)' = Truth(k)
  BY <1>1, TruthKept
<1>3. /\ Unheard(k)' <=> Unheard(k)
      /\ Replying(k)' <=> Replying(k)
      /\ Reply(k)' = Reply(k)
      /\ Casts(effects'[k]) = Casts(effects[k])
  BY <1>1, <1>2 DEF Unheard, Untouched, Replying, Reply
<1>4. Admitting(k)' <=> Admitting(k)
  BY <1>3 DEF Admitting
<1>5. ASSUME Asked(k) PROVE Asked(k)'
  BY <1>1, <1>2, <1>3, <1>5 DEF Asked, LoginOnce, FromRoom, NoLogin, Untouched
<1>6. ASSUME Truthful(k) PROVE Truthful(k)'
  BY <1>1, <1>2, <1>3, <1>4, <1>6 DEF Truthful, Honest, Untouched
<1> QED BY <1>1, <1>2, <1>3, <1>4, <1>5, <1>6

-----------------------------------------------------------------------------
(* A client's own packets, and what its handler makes of them.              *)

\* A packet is taken from the socket or from the buffer.
LEMMA PacketsTail ==
    ASSUME NEW q \in Seq(Request), q # <<>>, NEW h
    PROVE  /\ NoLogin(q) => NoLogin(Tail(q)) /\ Head(q).type # "Login"
           /\ FromRoom(h, q) => /\ FromRoom(h, Tail(q))
                                /\ Head(q).type # "Login" => LoggedIn(clients[h])
                                /\ Head(q).type = "Mute" => Head(q).user_id = h
           /\ Len(q) = 1 => Tail(q) = <<>>
<1> DEFINE r == Tail(q)
<1>1. /\ Len(q) \in Nat /\ Len(q) >= 1 /\ Len(r) = Len(q) - 1
      /\ DOMAIN q = 1..Len(q) /\ DOMAIN r = 1..Len(r)
      /\ \A i \in 1..Len(r) : r[i] = q[i + 1]
      /\ q[1] = Head(q) /\ r \in Seq(Request)
  BY HeadTailProperties, LenProperties, EmptySeq
<1> HIDE DEF r
<1>2. \A i \in DOMAIN r : i + 1 \in DOMAIN q /\ r[i] = q[i + 1]
  BY <1>1
<1>3. 1 \in DOMAIN q /\ q[1] = Head(q)
  BY <1>1
<1>4. Len(q) = 1 => r = <<>>
  BY <1>1, EmptySeq
<1> QED BY <1>2, <1>3, <1>4 DEF NoLogin, FromRoom, r

\* Once the first effect is gone, no response is left.
LEMMA NoReplyLeft ==
    ASSUME Shape, NEW h \in UserIds, Truthful(h), effects[h] # <<>>,
           effects'[h] \in {Tail(effects[h]), <<>>}
    PROVE  ~Replying(h)'
<1> DEFINE s == effects[h]
           r == Tail(s)
<1>1. s \in Seq(Effect) /\ s # <<>>
  BY DEF Shape, MgmtTypeOK
<1>2. \A i \in DOMAIN s : s[i].do = "write" => i = 1
  BY DEF Truthful
<1> HIDE DEF s
<1>3. ASSUME r # <<>> PROVE Head(r) = s[2] /\ 2 \in DOMAIN s
  <2>1. /\ Len(s) \in Nat /\ Len(s) >= 1 /\ Len(r) = Len(s) - 1
        /\ DOMAIN s = 1..Len(s) /\ r \in Seq(Effect)
        /\ \A i \in 1..Len(r) : r[i] = s[i + 1]
    BY <1>1, HeadTailProperties, LenProperties, EmptySeq
  <2> HIDE DEF r
  <2>2. Len(r) >= 1 /\ Head(r) = r[1] /\ Len(r) \in Nat
    BY <1>3, <2>1, HeadTailProperties, EmptySeq, LenProperties
  <2> QED BY <2>1, <2>2
<1>4. ASSUME effects'[h] # <<>> PROVE Head(effects'[h]).do # "write"
  BY <1>2, <1>3, <1>4 DEF s
<1> QED BY <1>4 DEF Replying

\* A step that leaves the packets and the user where they are.
LEMMA AskedKept ==
    ASSUME NEW h, Asked(h), inbox'[h] = inbox[h], packet_buffer'[h] = packet_buffer[h],
           clients'[h].login = clients[h].login, clients'[h].user_id = clients[h].user_id,
           Replying(h)' => Replying(h), Live(h)' => Live(h),
           Live(h)' => Self(h)' = Self(h),
           pc'[h] \in {"none", "spawned"} =>
               pc[h] \in {"none", "spawned"} /\ clients'[h].participants = clients[h].participants
    PROVE  Asked(h)'
<1>1. (Named(h)' => Named(h)) /\ (Live(h)' /\ Named(h) => Named(h)')
  BY DEF Named
<1> QED BY <1>1 DEF Asked, LoginOnce, FromRoom, NoLogin, LoggedIn

\* What the handling of a packet does to the connection.
LEMMA HandlingMeans ==
    ASSUME Streaming, NEW h \in UserIds, NEW type, NEW user, NEW rest,
           Handling(h, type, user, rest)
    PROVE  /\ pc[h] = "running" /\ Live(h) /\ Live(h)'
           /\ Named(h)' <=> user.username # NoName
           /\ Self(h).id = h /\ Self(h)' = user
           /\ users' = [users EXCEPT ![address[h]] = user]
           /\ effects[h] = <<>> /\ effects'[h] = rest
           /\ effects' = [effects EXCEPT ![h] = rest]
           /\ packet_buffer[h] \in Seq(Request) /\ packet_buffer[h] # <<>>
           /\ packet_buffer'[h] = Tail(packet_buffer[h])
           /\ Packet(h) = Head(packet_buffer[h]) /\ Packet(h).type = type
           /\ Packet(h) \in Request /\ unvisited[h] = {}
           /\ UNCHANGED <<next_user_id, events, address, pc, broadcast_rx, lagged,
                          socket, inbox, requests, clients>>
<1>1. /\ Shape /\ MgmtTypeOK /\ pc[h] = "running" /\ Live(h) /\ h # 0 /\ Self(h).id = h
      /\ address[h] \in Addresses
  BY StreamingFacts DEF Handling, Handles, Live
<1>2. Self(h)' = user
  BY <1>1 DEF Handling, Handles, Self, MgmtTypeOK
<1>3. Live(h)' /\ (Named(h)' <=> user.username # NoName)
  BY <1>1, <1>2 DEF Handling, Live, Named
<1>4. Packet(h) \in Request /\ effects[h] = <<>> /\ unvisited[h] = {}
  BY <1>1, HandlesTypes DEF Handling
<1> QED
  BY <1>1, <1>2, <1>3, <1>4
     DEF Handling, Handles, Packet, MgmtTypeOK, channelVars, clientVars

\* All packets but the login come from a client that is logged in.
LEMMA RoomPacket ==
    ASSUME MgmtTypeOK, NEW h \in UserIds, Asked(h), NEW type, Handles(h, type), type # "Login"
    PROVE  /\ LoggedIn(clients[h]) /\ clients[h].login = "answered"
           /\ Named(h) /\ NoLogin(inbox[h])
           /\ NoLogin(Tail(packet_buffer[h])) /\ FromRoom(h, Tail(packet_buffer[h]))
           /\ type = "Mute" => Packet(h).user_id = h
<1>1. /\ packet_buffer[h] \in Seq(Request) /\ packet_buffer[h] # <<>>
      /\ Head(packet_buffer[h]).type = type /\ Live(h)
  BY DEF Handles, MgmtTypeOK, Live
<1>2. LoggedIn(clients[h]) /\ FromRoom(h, Tail(packet_buffer[h]))
  BY <1>1, PacketsTail DEF Asked
<1>3. /\ clients[h].login = "answered" /\ Named(h) /\ NoLogin(inbox[h])
      /\ NoLogin(packet_buffer[h])
  BY <1>1, <1>2 DEF Asked, LoginOnce
<1>4. NoLogin(Tail(packet_buffer[h])) /\ (type = "Mute" => Packet(h).user_id = h)
  BY <1>1, <1>3, PacketsTail DEF Asked, Packet
<1> QED BY <1>2, <1>3, <1>4

\* After its first packet a connection has only packets of the room page.
LEMMA AskedByRoom ==
    ASSUME MgmtTypeOK, NEW h \in UserIds, Asked(h), NEW type, Handles(h, type), type # "Login",
           packet_buffer'[h] = Tail(packet_buffer[h]), inbox'[h] = inbox[h],
           clients'[h] = clients[h], pc'[h] = pc[h], Named(h)', ~Replying(h)'
    PROVE  Asked(h)'
<1>1. /\ LoggedIn(clients[h]) /\ clients[h].login = "answered" /\ NoLogin(inbox[h])
      /\ NoLogin(Tail(packet_buffer[h])) /\ FromRoom(h, Tail(packet_buffer[h]))
  BY RoomPacket
<1>2. LoginOnce(h)'
  BY <1>1 DEF Asked, LoginOnce, NoLogin
<1>3. FromRoom(h, inbox[h])' /\ FromRoom(h, packet_buffer[h])'
  BY <1>1 DEF Asked, FromRoom
<1> QED BY <1>2, <1>3 DEF Asked, Handles

\* Before its login packet has been handled, a client has sent nothing else.
LEMMA LoginPacket ==
    ASSUME MgmtTypeOK, NEW h \in UserIds, Asked(h), Handles(h, "Login")
    PROVE  /\ clients[h].login = "asked" /\ ~LoggedIn(clients[h])
           /\ inbox[h] = <<>> /\ Tail(packet_buffer[h]) = <<>> /\ ~Named(h)
<1>1. /\ packet_buffer[h] \in Seq(Request) /\ packet_buffer[h] # <<>>
      /\ Head(packet_buffer[h]).type = "Login" /\ Live(h)
  BY DEF Handles, MgmtTypeOK, Live
<1>2. ~NoLogin(packet_buffer[h])
  BY <1>1, PacketsTail
<1>3. clients[h].login \in {"none", "asked", "answered"}
  BY DEF MgmtTypeOK, Client
<1>4. /\ clients[h].login = "asked" /\ ~LoggedIn(clients[h])
      /\ inbox[h] = <<>> /\ Len(packet_buffer[h]) = 1 /\ ~Named(h)
  BY <1>1, <1>2, <1>3 DEF Asked, LoginOnce
<1> QED BY <1>1, <1>4, PacketsTail

\* The first packet is the login, and nothing is behind it.
LEMMA AskedByLogin ==
    ASSUME MgmtTypeOK, NEW h \in UserIds, Asked(h), Handles(h, "Login"),
           packet_buffer'[h] = Tail(packet_buffer[h]), inbox'[h] = inbox[h],
           clients'[h] = clients[h], pc'[h] = pc[h],
           Named(h)' \/ Self(h)' = Self(h)
    PROVE  Asked(h)'
<1>1. /\ clients[h].login = "asked" /\ ~LoggedIn(clients[h])
      /\ inbox[h] = <<>> /\ Tail(packet_buffer[h]) = <<>> /\ ~Named(h)
  BY LoginPacket
<1>2. LoginOnce(h)'
  BY <1>1 DEF LoginOnce, NoLogin, LoggedIn
<1>3. FromRoom(h, inbox[h])' /\ FromRoom(h, packet_buffer[h])'
  BY <1>1 DEF FromRoom
<1>4. pc[h] = "running" /\ Live(h)
  BY DEF Handles, Live
<1> QED BY <1>1, <1>2, <1>3, <1>4 DEF Asked, Live

\* Every step of a connection keeps the order of its packets.
LEMMA AskedStep ==
    ASSUME Streaming, NEW h \in UserIds, Asked(h), Truthful(h),
           \/ HandlerStep(h) \/ ConnectionEnds(h)
           \/ \E kind \in RequestTypes : ClientRequest(h, kind)
    PROVE  Asked(h)'
<1> USE DEF handlerVars, channelVars, clientVars
<1>0. /\ Shape /\ MgmtTypeOK /\ DOMAIN pc = UserIds /\ DOMAIN clients = UserIds
      /\ DOMAIN effects = UserIds /\ DOMAIN packet_buffer = UserIds
      /\ DOMAIN inbox = UserIds
  BY StreamingFacts DEF MgmtTypeOK
<1>1. ASSUME Start(h) \/ Exit(h) \/ BroadcastWriteFails(h) \/ NoticeLag(h) PROVE Asked(h)'
  <2>1. /\ UNCHANGED <<inbox, packet_buffer, clients, effects, users, address>>
        /\ pc'[h] \notin {"none", "spawned"} /\ (Live(h)' => Live(h))
    BY <1>0, <1>1 DEF Start, Exit, BroadcastWriteFails, NoticeLag, HasBroadcast, AtSelect, Live
  <2>2. (Replying(h)' => Replying(h)) /\ Self(h)' = Self(h)
    BY <2>1 DEF Replying, Self
  <2> QED BY <2>1, <2>2, AskedKept
<1>2. ASSUME SendEvent(h) \/ SendBroadcast(h) PROVE Asked(h)'
  <2>1. /\ UNCHANGED <<inbox, packet_buffer, clients, users, address, pc>>
        /\ effects[h] # <<>> /\ effects'[h] = Tail(effects[h])
    BY <1>0, <1>2 DEF SendEvent, SendBroadcast, Due
  <2>2. ~Replying(h)'
    BY <1>0, <2>1, NoReplyLeft
  <2>3. Self(h)' = Self(h) /\ (Live(h)' <=> Live(h))
    BY <2>1 DEF Self, Live
  <2> QED BY <2>1, <2>2, <2>3, AskedKept
<1>3. ASSUME WriteResponse(h) PROVE Asked(h)'
  <2>1. /\ UNCHANGED <<inbox, packet_buffer, users, address, pc>>
        /\ effects[h] # <<>> /\ effects'[h] \in {Tail(effects[h]), <<>>}
        /\ Head(effects[h]).do = "write"
        /\ clients'[h] = IF Reaches(h) THEN ReceiveResponse(clients[h], Reply(h))
                         ELSE clients[h]
    BY <1>0, <1>3 DEF WriteResponse, Due, Reply
  <2>2. ~Replying(h)'
    BY <1>0, <2>1, NoReplyLeft
  <2>3. Self(h)' = Self(h) /\ (Live(h)' <=> Live(h)) /\ (Named(h)' <=> Named(h))
    BY <2>1 DEF Self, Live, Named
  <2>4. clients[h] \in Client /\ Reply(h) \in Response
    <3>1. Head(effects[h]) \in Effect
      BY <1>0, <2>1 DEF MgmtTypeOK
    <3> QED BY <1>0, <2>1, <3>1 DEF MgmtTypeOK, Effect, Reply
  <2>5. CASE Replying(h) /\ Reaches(h)
    <3>1. /\ clients[h].login = "asked" /\ inbox[h] = <<>> /\ packet_buffer[h] = <<>>
          /\ ~LoggedIn(clients[h])
      BY <2>4, <2>5 DEF Asked, LoginOnce, Client
    <3>2. clients'[h].login = "answered" /\ clients'[h].user_id = Reply(h).id
      BY <2>1, <2>4, <2>5 DEF Replying, Reply, ReceiveResponse, Client
    <3>3. Reply(h).id \in {0, h} /\ (Reply(h).id # 0 => Named(h)) /\ Live(h)
      BY <2>5 DEF Truthful, Admitting
    <3>4. LoginOnce(h)'
      BY <2>1, <2>2, <2>3, <3>1, <3>2, <3>3 DEF LoginOnce, NoLogin, LoggedIn
    <3>5. FromRoom(h, inbox[h])' /\ FromRoom(h, packet_buffer[h])'
      BY <2>1, <3>1 DEF FromRoom
    <3>6. pc[h] \notin {"none", "spawned"}
      BY <1>0, <2>1, StreamingFacts
    <3> QED BY <2>1, <2>3, <3>4, <3>5, <3>6 DEF Asked
  <2>6. CASE ~(Replying(h) /\ Reaches(h))
    <3>1. /\ clients'[h].login = clients[h].login /\ clients'[h].user_id = clients[h].user_id
          /\ clients'[h].participants = clients[h].participants
      BY <2>1, <2>4, <2>6 DEF Replying, Reply, ReceiveResponse, Client
    <3> QED BY <2>1, <2>2, <2>3, <3>1, AskedKept
  <2> QED BY <2>5, <2>6
<1>4. ASSUME RejectLogin(h) PROVE Asked(h)'
  <2>1. /\ Handles(h, "Login") /\ packet_buffer'[h] = Tail(packet_buffer[h])
        /\ UNCHANGED <<inbox, clients, pc, users, address>>
    BY <1>0, <1>4 DEF RejectLogin
  <2>2. Self(h)' = Self(h)
    BY <2>1 DEF Self
  <2> QED BY <1>0, <2>1, <2>2, AskedByLogin
<1>5. ASSUME HandleLogin(h) PROVE Asked(h)'
  <2> DEFINE user == [Self(h) EXCEPT !.username = Packet(h).username]
  <2>1. PICK rest : Handling(h, "Login", user, rest)
    BY <1>5 DEF HandleLogin
  <2>2. user.username # NoName
    <3>1. Self(h) \in User
      BY <1>0, <2>1, HandlesTypes DEF Handling
    <3>2. user.username = Packet(h).username
      BY <3>1 DEF User
    <3> QED BY <1>5, <3>2 DEF HandleLogin, ValidName, NoName
  <2> HIDE DEF user
  <2>3. Handles(h, "Login")
    BY <2>1 DEF Handling
  <2>4. Named(h)' /\ UNCHANGED <<inbox, clients, pc>> /\ packet_buffer'[h] = Tail(packet_buffer[h])
    BY <2>1, <2>2, HandlingMeans
  <2> QED BY <1>0, <2>3, <2>4, AskedByLogin
<1>6. ASSUME NEW type, NEW user, NEW rest, Handling(h, type, user, rest), type # "Login",
             user.username = Self(h).username, rest # <<>>,
             Head(rest).do = "write" => Head(rest).packet.type # "LoginResponse"
      PROVE  Asked(h)'
  <2>1. Handles(h, type)
    BY <1>6 DEF Handling
  <2>2. Named(h)
    BY <1>0, <1>6, <2>1, RoomPacket
  <2>3. /\ UNCHANGED <<inbox, clients, pc>> /\ packet_buffer'[h] = Tail(packet_buffer[h])
        /\ effects'[h] = rest /\ Named(h)'
    BY <1>6, <2>2, HandlingMeans DEF Named
  <2>4. ~Replying(h)'
    BY <1>6, <2>3 DEF Replying
  <2> QED BY <1>0, <1>6, <2>1, <2>3, <2>4, AskedByRoom
<1>7. ASSUME HandleJoinVoiceChannel(h) \/ HandleLeaveVoiceChannel(h) PROVE Asked(h)'
  <2>1. \A v \in BOOLEAN :
          [Self(h) EXCEPT !.in_voice = v, !.is_muted = FALSE].username = Self(h).username
    <3>1. Self(h) \in User
      BY <1>0, <1>7, HandlesTypes
         DEF HandleJoinVoiceChannel, HandleLeaveVoiceChannel, Handling
    <3> QED BY <3>1 DEF User
  <2>2. CASE HandleJoinVoiceChannel(h)
    <3> DEFINE user == [Self(h) EXCEPT !.in_voice = TRUE, !.is_muted = FALSE]
               rest == <<Write(PlainResponse("JoinResponse", Packet(h).request_id)),
                         Emit(VoiceJoined(Self(h).id)),
                         Cast(excluding(address[h], PlainNews("UserJoinedVoice", Self(h).id)))>>
    <3>1. user.username = Self(h).username
      BY <2>1
    <3>2. rest # <<>> /\ Head(rest).packet.type # "LoginResponse"
      BY DEF Write, PlainResponse
    <3>3. Handling(h, "Join", user, rest)
      BY <2>2 DEF HandleJoinVoiceChannel
    <3> HIDE DEF user, rest
    <3> QED BY <1>6, <3>1, <3>2, <3>3
  <2>3. CASE HandleLeaveVoiceChannel(h)
    <3> DEFINE user == [Self(h) EXCEPT !.in_voice = FALSE, !.is_muted = FALSE]
               rest == <<Write(PlainResponse("LeaveResponse", Packet(h).request_id)),
                         Emit(VoiceLeft(Self(h).id)),
                         Cast(excluding(address[h], PlainNews("UserLeftVoice", Self(h).id)))>>
    <3>1. user.username = Self(h).username
      BY <2>1
    <3>2. rest # <<>> /\ Head(rest).packet.type # "LoginResponse"
      BY DEF Write, PlainResponse
    <3>3. Handling(h, "Leave", user, rest)
      BY <2>3 DEF HandleLeaveVoiceChannel
    <3> HIDE DEF user, rest
    <3> QED BY <1>6, <3>1, <3>2, <3>3
  <2> QED BY <1>7, <2>2, <2>3
<1>8. ASSUME HandleChatMessage(h) PROVE Asked(h)'
  <2>1. \A p, m :
          LET rest == <<Write(PlainResponse("ChatResponse", p)), Cast(m)>>
          IN rest # <<>> /\ Head(rest).packet.type # "LoginResponse"
    BY DEF Write, PlainResponse
  <2> QED BY <1>6, <1>8, <2>1 DEF HandleChatMessage
<1>9. ASSUME HandleUserMuteState(h) PROVE Asked(h)'
  <2>1. \A m : <<Cast(m)>> # <<>> /\ Head(<<Cast(m)>>).do # "write"
    BY DEF Cast
  <2>2. \A b : [Self(h) EXCEPT !.is_muted = b].username = Self(h).username
    <3>1. Self(h) \in User
      BY <1>0, <1>9, HandlesTypes DEF HandleUserMuteState, Handling
    <3> QED BY <3>1 DEF User
  <2> QED BY <1>6, <1>9, <2>1, <2>2 DEF HandleUserMuteState
<1>10. ASSUME HandlePing(h) PROVE Asked(h)'
  <2>1. /\ Handles(h, "Ping") /\ packet_buffer'[h] = Tail(packet_buffer[h])
        /\ UNCHANGED <<inbox, clients, pc, users, address>>
        /\ effects'[h] = <<Write(PlainResponse("PingResponse", Packet(h).request_id))>>
    BY <1>0, <1>10 DEF HandlePing
  <2>2. ~Replying(h)'
    BY <2>1 DEF Replying, Write, PlainResponse
  <2>3. Named(h)'
    <3>1. Named(h)
      BY <1>0, <2>1, RoomPacket
    <3> QED BY <2>1, <3>1 DEF Named, Live, Self
  <2> QED BY <1>0, <2>1, <2>2, <2>3, AskedByRoom
<1>11. ASSUME NEW a \in Addresses, Collect(h, a) PROVE Asked(h)'
  <2>1. PICK new \in Effect :
          /\ new.do = "write" /\ effects[h] # <<>>
          /\ effects' = effects \/ effects' = [effects EXCEPT ![h] = [@ EXCEPT ![1] = new]]
    BY <1>0, <1>11, CollectEffect
  <2>2. UNCHANGED <<inbox, packet_buffer, clients, users, address, pc>> /\ Admitting(h)
    BY <1>11 DEF Collect, Truthful
  <2>3. Self(h)' = Self(h) /\ (Live(h)' <=> Live(h)) /\ Replying(h)
    BY <2>2 DEF Self, Live, Admitting
  <2> QED BY <2>2, <2>3, AskedKept
<1>12. ASSUME Read(h) PROVE Asked(h)'
  <2>1. /\ UNCHANGED <<clients, users, address, pc, effects>>
        /\ packet_buffer'[h] = inbox[h] /\ inbox'[h] = <<>> /\ packet_buffer[h] = <<>>
        /\ inbox[h] # <<>> /\ effects[h] = <<>>
    BY <1>0, <1>12 DEF Read, AtSelect
  <2>2. /\ Self(h)' = Self(h) /\ (Live(h)' <=> Live(h)) /\ (Named(h)' <=> Named(h))
        /\ ~Replying(h)'
    BY <2>1 DEF Self, Live, Named, Replying
  <2>3. LoginOnce(h)'
    BY <2>1, <2>2 DEF Asked, LoginOnce, NoLogin
  <2>4. FromRoom(h, inbox[h])' /\ FromRoom(h, packet_buffer[h])'
    BY <2>1 DEF Asked, FromRoom
  <2> QED BY <2>1, <2>2, <2>3, <2>4 DEF Asked
<1>13. ASSUME Disconnect(h) PROVE Asked(h)'
  <2>1. /\ UNCHANGED <<inbox, packet_buffer, clients>> /\ pc'[h] = "exiting"
        /\ effects'[h] = Farewell(Self(h))
    BY <1>0, <1>13 DEF Disconnect
  <2>2. ~Replying(h)' /\ ~Live(h)'
    <3>1. Farewell(Self(h)) = <<>> \/ Head(Farewell(Self(h))).do # "write"
      BY DEF Farewell, Cast
    <3> QED BY <2>1, <3>1 DEF Replying, Live
  <2> QED BY <2>1, <2>2, AskedKept
<1>14. ASSUME DeliverBroadcast(h) PROVE Asked(h)'
  <2>1. /\ UNCHANGED <<inbox, packet_buffer, effects, users, address, pc>>
        /\ pc[h] = "running"
        /\ \E p : clients'[h] \in {clients[h], ReceiveNews(clients[h], p)}
    BY <1>0, <1>14 DEF DeliverBroadcast, HasBroadcast, AtSelect
  <2>2. clients'[h].login = clients[h].login /\ clients'[h].user_id = clients[h].user_id
    BY <1>0, <2>1 DEF MgmtTypeOK, ReceiveNews, Client
  <2>3. Self(h)' = Self(h) /\ (Live(h)' <=> Live(h)) /\ (Replying(h)' <=> Replying(h))
    BY <2>1 DEF Self, Live, Replying
  <2> QED BY <2>1, <2>2, <2>3, AskedKept
<1>15. ASSUME ConnectionEnds(h) PROVE Asked(h)'
  <2>1. UNCHANGED <<inbox, packet_buffer, effects, users, address, pc, clients>>
    BY <1>15 DEF ConnectionEnds, ClientClose, ConnectionBreaks
  <2>2. Self(h)' = Self(h) /\ (Live(h)' <=> Live(h)) /\ (Replying(h)' <=> Replying(h))
    BY <2>1 DEF Self, Live, Replying
  <2> QED BY <2>1, <2>2, AskedKept
<1>16. ASSUME NEW kind \in RequestTypes, ClientRequest(h, kind) PROVE Asked(h)'
  <2>1. PICK p \in PacketsOf(h, kind) : inbox' = [inbox EXCEPT ![h] = Append(@, p)]
    BY <1>16 DEF ClientRequest
  <2>2. p \in Request /\ p.type = kind /\ (kind = "Mute" => p.user_id = clients[h].user_id)
    <3>1. kind = "Mute" => p.user_id = clients[h].user_id
      BY <2>1 DEF PacketsOf, MuteEvent
    <3> QED BY <1>0, <1>16, <2>1, <3>1, RequestTypesOK DEF ClientRequest
  <2>3. /\ UNCHANGED <<packet_buffer, effects, users, address, pc>>
        /\ clients'[h].login = IF kind = "Login" THEN "asked" ELSE clients[h].login
        /\ clients'[h].user_id = clients[h].user_id
        /\ clients'[h].participants = clients[h].participants
        /\ inbox'[h] = Append(inbox[h], p) /\ inbox[h] \in Seq(Request)
    <3>1. clients[h] \in Client
      BY <1>0 DEF MgmtTypeOK
    <3>2. clients'[h] = [clients[h] EXCEPT !.login = IF kind = "Login" THEN "asked" ELSE @,
               !.pending = IF kind = "Mute" THEN @ ELSE @ \cup {requests[h] + 1}]
      BY <1>0, <1>16 DEF ClientRequest
    <3>3. /\ clients'[h].login = IF kind = "Login" THEN "asked" ELSE clients[h].login
          /\ clients'[h].user_id = clients[h].user_id
          /\ clients'[h].participants = clients[h].participants
      BY <3>1, <3>2 DEF Client
    <3> QED BY <1>0, <1>16, <2>1, <3>3 DEF ClientRequest, MgmtTypeOK
  <2>4. /\ Self(h)' = Self(h) /\ (Live(h)' <=> Live(h)) /\ (Named(h)' <=> Named(h))
        /\ (Replying(h)' <=> Replying(h)) /\ (LoggedIn(clients[h])' <=> LoggedIn(clients[h]))
    BY <2>3 DEF Self, Live, Named, Replying, LoggedIn
  <2>5. CASE kind = "Login"
    <3>1. /\ clients[h].login = "none" /\ inbox[h] = <<>> /\ packet_buffer[h] = <<>>
          /\ ~Replying(h) /\ ~LoggedIn(clients[h]) /\ ~Named(h)
      BY <1>16, <2>5 DEF ClientRequest, MayRequest, Asked, LoginOnce
    <3>2. inbox'[h] = <<p>>
      BY <2>3, <3>1
    <3>3. Len(inbox'[h]) = 1 /\ packet_buffer'[h] = <<>> /\ clients'[h].login = "asked"
      BY <2>3, <2>5, <3>1, <3>2
    <3>4. LoginOnce(h)'
      BY <2>4, <3>1, <3>3 DEF LoginOnce, LoggedIn
    <3>5. FromRoom(h, inbox[h])' /\ FromRoom(h, packet_buffer[h])'
      BY <2>2, <2>5, <3>2, <3>3 DEF FromRoom
    <3> QED BY <2>3, <2>4, <3>4, <3>5 DEF Asked
  <2>6. CASE kind # "Login"
    <3>1. /\ LoggedIn(clients[h]) /\ clients[h].login = "answered" /\ clients[h].user_id = h
          /\ NoLogin(inbox[h]) /\ NoLogin(packet_buffer[h]) /\ ~Replying(h)
      BY <1>16, <2>6 DEF ClientRequest, MayRequest, Asked, LoginOnce
    <3> DEFINE q == inbox[h]
               r == inbox'[h]
    <3>2. \A i \in DOMAIN r : r[i] = p \/ (i \in DOMAIN q /\ r[i] = q[i])
      BY <2>2, <2>3, AppendProperties, LenProperties
    <3> HIDE DEF q, r
    <3>3. NoLogin(r)
      BY <2>2, <2>6, <3>1, <3>2 DEF NoLogin, q
    <3>4. FromRoom(h, inbox[h])'
      BY <2>2, <2>4, <3>1, <3>2 DEF Asked, FromRoom, q, r
    <3>5. FromRoom(h, packet_buffer[h])'
      BY <2>3, <2>4 DEF Asked, FromRoom
    <3>6. LoginOnce(h)'
      BY <2>3, <2>4, <2>6, <3>1, <3>3 DEF Asked, LoginOnce, r
    <3> QED BY <2>3, <2>4, <3>4, <3>5, <3>6 DEF Asked
  <2> QED BY <2>5, <2>6
<1> QED
  BY <1>1, <1>2, <1>3, <1>4, <1>5, <1>7, <1>8, <1>9, <1>10, <1>11, <1>12, <1>13, <1>14,
     <1>15, <1>16 DEF HandlerStep

-----------------------------------------------------------------------------
(* What a handler is about to broadcast is true.                            *)

\* A step that leaves what is to be sent, and the user, as they are.
LEMMA TruthfulKept ==
    ASSUME NEW h, Truthful(h), effects'[h] = effects[h], unvisited'[h] = unvisited[h],
           address'[h] = address[h], Live(h)' <=> Live(h), Self(h)' = Self(h)
    PROVE  Truthful(h)'
<1>1. (Named(h)' <=> Named(h)) /\ Truth(h)' = Truth(h)
  BY TruthKept
<1> QED BY <1>1 DEF Truthful, Honest, Replying, Admitting, Reply

\* With nothing to send nothing is untrue.
LEMMA TruthfulIdle ==
    ASSUME NEW h, effects'[h] = <<>>, unvisited'[h] = {}
    PROVE  Truthful(h)'
BY DEF Truthful, Replying, Admitting

\* What Tail and [... EXCEPT ![1]] leave of a list of effects.
LEMMA EffectsTail ==
    ASSUME NEW s \in Seq(Effect), s # <<>>
    PROVE  \A i \in DOMAIN Tail(s) : i + 1 \in DOMAIN s /\ Tail(s)[i] = s[i + 1] /\ i + 1 # 1
<1> DEFINE r == Tail(s)
<1>1. /\ Len(s) \in Nat /\ Len(s) >= 1 /\ Len(r) = Len(s) - 1
      /\ DOMAIN s = 1..Len(s) /\ DOMAIN r = 1..Len(r)
      /\ \A i \in 1..Len(r) : r[i] = s[i + 1]
  BY HeadTailProperties, LenProperties, EmptySeq
<1> HIDE DEF r
<1>2. \A i \in DOMAIN r : i + 1 \in DOMAIN s /\ r[i] = s[i + 1] /\ i + 1 # 1
  BY <1>1
<1> QED BY <1>2 DEF r

\* The first effect is done, or all of them are dropped.
LEMMA TruthfulTail ==
    ASSUME Shape, NEW h \in UserIds, Truthful(h), effects[h] # <<>>, unvisited'[h] = {},
           effects'[h] \in {Tail(effects[h]), <<>>},
           address'[h] = address[h], Live(h)' <=> Live(h), Self(h)' = Self(h)
    PROVE  Truthful(h)'
<1> DEFINE s == effects[h]
           r == Tail(s)
<1>1. s \in Seq(Effect) /\ s # <<>>
  BY DEF Shape, MgmtTypeOK
<1>2. (Named(h)' <=> Named(h)) /\ Truth(h)' = Truth(h)
  BY TruthKept
<1>3. ~Replying(h)' /\ ~Admitting(h)'
  BY NoReplyLeft DEF Admitting
<1>4. CASE effects'[h] = <<>>
  BY <1>4, TruthfulIdle
<1>5. CASE effects'[h] = r
  <2>1. \A i \in DOMAIN s : s[i].do = "write" => i = 1
    BY DEF Truthful
  <2>2. \A i \in DOMAIN s : s[i].do = "broadcast" => Honest(h, s[i].message, Casts(s))
    BY DEF Truthful
  <2> HIDE DEF s
  <2>3. \A i \in DOMAIN r : i + 1 \in DOMAIN s /\ r[i] = s[i + 1] /\ i + 1 # 1
    BY <1>1, EffectsTail
  <2>4. Casts(r) \subseteq Casts(s)
    BY <1>1, CastsTail
  <2> HIDE DEF r
  <2>5. \A i \in DOMAIN r : r[i].do # "write"
    BY <2>1, <2>3
  <2>6. ASSUME NEW m, Honest(h, m, Casts(s)) PROVE Honest(h, m, Casts(effects[h]))'
    <3>1. Mute("name", Casts(s)) => Mute("name", Casts(effects'[h]))
      BY <1>5, <2>4 DEF Mute
    <3> QED BY <1>2, <2>6, <3>1 DEF Honest
  <2>7. \A i \in DOMAIN effects'[h] : effects'[h][i].do = "broadcast" =>
           Honest(h, effects[h][i].message, Casts(effects[h]))'
    BY <1>5, <2>2, <2>3, <2>6
  <2> QED BY <1>3, <1>5, <2>5, <2>7 DEF Truthful
<1> QED BY <1>4, <1>5

\* A handler function that ends with a broadcast, or without one.
LEMMA TruthfulAnswer ==
    ASSUME NEW h, NEW rest, effects'[h] = rest, NEW m,
           \A i \in DOMAIN rest : /\ rest[i].do = "write" => i = 1
                                  /\ rest[i].do = "broadcast" => rest[i].message = m,
           (\E i \in DOMAIN rest : rest[i].do = "broadcast") => Honest(h, m, {})',
           Replying(h)' => Live(h)' /\ Reply(h)'.id \in {0, h},
           Admitting(h)' => Named(h)', unvisited'[h] # {} => Admitting(h)'
    PROVE  Truthful(h)'
<1>1. Casts(rest) \subseteq {m.packet}
  BY DEF Casts
<1>2. NeedsEntry(m.packet) => Mute("name", Casts(rest))
  BY <1>1 DEF NeedsEntry, Mute, Sets
<1>3. Honest(h, m, {})' => Honest(h, m, Casts(effects[h]))'
  BY <1>2 DEF Honest
<1> QED BY <1>3 DEF Truthful

\* Visiting an entry of the map changes the list in the response, only.
LEMMA CollectMeans ==
    ASSUME Shape, NEW h \in UserIds, Truthful(h), NEW a \in Addresses, Collect(h, a)
    PROVE  LET v == users[a] IN
           /\ Admitting(h) /\ Admitting(h)' /\ Reply(h) \in Response /\ v \in User
           /\ Reply(h)'.id = Reply(h).id
           /\ Reply(h)'.participants =
                IF v.username = NoName THEN Reply(h).participants
                ELSE [Reply(h).participants EXCEPT ![v.id] =
                         Info(v.username, v.in_voice, v.is_muted)]
           /\ Casts(effects'[h]) = Casts(effects[h])
           /\ DOMAIN effects'[h] = DOMAIN effects[h]
           /\ \A i \in DOMAIN effects[h] : /\ effects'[h][i].do = effects[h][i].do
                                           /\ i # 1 => effects'[h][i] = effects[h][i]
<1> DEFINE v == users[a]
           s == effects[h]
           old == s[1]
           info == Info(v.username, v.in_voice, v.is_muted)
           new == [old EXCEPT !.packet.participants[v.id] = info]
           r == IF v.username = NoName THEN s ELSE [s EXCEPT ![1] = new]
<1>1. Admitting(h) /\ v \in User /\ s \in Seq(Effect) /\ s # <<>>
  BY DEF Collect, Truthful, Admitting, Replying, Shape, MgmtTypeOK
<1>2. old = Head(s) /\ old \in Effect /\ old.do = "write" /\ 1 \in DOMAIN s
      /\ Reply(h) = old.packet /\ old.packet.type = "LoginResponse" /\ old.packet.id # 0
  BY <1>1, HeadTailProperties, LenProperties, EmptySeq DEF Admitting, Replying, Reply
<1>3. old \in [do : {"write"}, packet : Response]
  BY <1>2 DEF Effect
<1>4. effects'[h] = r
  BY DEF Collect, Shape, MgmtTypeOK
<1>0. info \in ParticipantInfo
  BY <1>1 DEF User, Info, ParticipantInfo
<1> HIDE DEF old, info, v
<1>5. /\ new \in Effect /\ new.do = "write" /\ new.packet.type = "LoginResponse"
      /\ new.packet.id = old.packet.id
      /\ new.packet.participants = [old.packet.participants EXCEPT ![v.id] = info]
  <2> DEFINE list == [old.packet.participants EXCEPT ![v.id] = info]
             packet == [old.packet EXCEPT !.participants = list]
  <2>1. old.packet \in Response
    BY <1>3
  <2>5. packet \in Response
    <3>1. list \in Participants
      BY <1>0, <2>1 DEF Response, Participants
    <3> HIDE DEF list
    <3> QED BY <2>1, <3>1 DEF Response
  <2>2. packet.type = old.packet.type /\ packet.id = old.packet.id /\ packet.participants = list
    BY <2>1 DEF Response
  <2>3. new = [old EXCEPT !.packet = packet]
    OBVIOUS
  <2> HIDE DEF packet, list
  <2>4. new.do = "write" /\ new.packet = packet /\ new \in Effect
    BY <1>3, <2>3, <2>5 DEF Effect
  <2> QED BY <1>2, <2>2, <2>4 DEF list
<1> HIDE DEF new
<1>6. /\ DOMAIN r = DOMAIN s /\ r # <<>> /\ Head(r) = r[1]
      /\ r[1] = IF v.username = NoName THEN old ELSE new
      /\ \A i \in DOMAIN s : i # 1 => r[i] = s[i]
  <2>1. CASE v.username = NoName
    BY <1>1, <1>2, <2>1, HeadTailProperties DEF old
  <2>2. CASE v.username # NoName
    <3>1. r = [s EXCEPT ![1] = new]
      BY <2>2
    <3>2. DOMAIN r = DOMAIN s /\ r[1] = new /\ (\A i \in DOMAIN s : i # 1 => r[i] = s[i])
      BY <1>2, <3>1
    <3>3. r \in Seq(Effect)
      <4>1. 1 \in 1..Len(s)
        BY <1>1, <1>2, LenProperties
      <4> HIDE DEF s
      <4> QED BY <1>1, <1>5, <3>1, <4>1, ExceptSeq
    <3>4. r # <<>>
      BY <1>2, <3>2
    <3>5. Head(r) = r[1]
      BY <3>3, <3>4, HeadTailProperties
    <3> QED BY <2>2, <3>2, <3>4, <3>5
  <2> QED BY <2>1, <2>2
<1> HIDE DEF r, s
<1>7. Reply(h)' = r[1].packet /\ Admitting(h)'
  BY <1>2, <1>4, <1>5, <1>6 DEF Reply, Admitting, Replying
<1>8. \A i \in DOMAIN s : r[i].do = s[i].do
  BY <1>2, <1>5, <1>6 DEF old
<1>9. Casts(r) = Casts(s)
  <2>1. \A i \in DOMAIN s : s[i].do = "broadcast" => r[i] = s[i]
    BY <1>2, <1>6 DEF old
  <2> QED BY <1>6, <1>8, <2>1 DEF Casts
<1>10. /\ Reply(h) \in Response /\ Reply(h)'.id = Reply(h).id
       /\ Reply(h)'.participants =
            IF v.username = NoName THEN Reply(h).participants
            ELSE [Reply(h).participants EXCEPT ![v.id] = info]
  BY <1>2, <1>3, <1>5, <1>6, <1>7
<1> QED BY <1>1, <1>4, <1>6, <1>7, <1>8, <1>9, <1>10 DEF v, s, info

\* Handling a packet leaves one response and one true message to send.
LEMMA TruthfulHandling ==
    ASSUME Streaming, NEW h \in UserIds, NEW type, NEW user, NEW rest, NEW m,
           Handling(h, type, user, rest),
           \A i \in DOMAIN rest : /\ rest[i].do = "write" => i = 1
                                  /\ rest[i].do = "broadcast" => rest[i].message = m,
           user.username # NoName, m.packet.user_id = h, ~Leaves(m.packet),
           m.exclude = address[h] \/ (m.exclude = NoAddress /\ m.packet.type = "UserSentMessage"),
           \A f \in Facets : Sets(f, m.packet) =>
               Same(f, Said(m.packet), Info(user.username, user.in_voice, user.is_muted)),
           Replying(h)' => Reply(h)'.id = h, unvisited'[h] # {} => Replying(h)'
    PROVE  Truthful(h)'
<1>1. /\ Live(h)' /\ Named(h)' /\ Self(h)' = user /\ effects'[h] = rest
      /\ address'[h] = address[h]
  BY HandlingMeans
<1>2. Truth(h)' = Info(user.username, user.in_voice, user.is_muted)
  BY <1>1 DEF Truth
<1>3. address[h] # NoAddress
  BY HandlesTypes, StreamingFacts, ManagementAssumption DEF Handling
<1>4. Honest(h, m, {})'
  BY <1>1, <1>2, <1>3 DEF Honest, Mute
<1>5. (Admitting(h)' => Named(h)') /\ (unvisited'[h] # {} => Admitting(h)')
  <2>1. h # 0
    BY StreamingFacts, HandlingMeans
  <2> QED BY <1>1, <2>1 DEF Admitting
<1> QED BY <1>1, <1>4, <1>5, TruthfulAnswer

\* As much of it as most proofs need.
LEMMA HandlingDone ==
    ASSUME Streaming, NEW h \in UserIds, NEW type, NEW user, NEW rest,
           Handling(h, type, user, rest)
    PROVE  Self(h).id = h /\ effects'[h] = rest /\ Live(h)
BY HandlingMeans

\* Every step of a handler keeps what it is about to send true.
LEMMA TruthfulStep ==
    ASSUME PortReuse = FALSE, Streaming, NEW h \in UserIds, Asked(h), Truthful(h),
           \/ HandlerStep(h) \/ ConnectionEnds(h)
           \/ \E kind \in RequestTypes : ClientRequest(h, kind)
    PROVE  Truthful(h)'
<1> USE DEF handlerVars, channelVars, clientVars
<1>0. /\ Shape /\ MgmtTypeOK /\ DOMAIN pc = UserIds
      /\ DOMAIN effects = UserIds /\ DOMAIN unvisited = UserIds
  BY StreamingFacts DEF MgmtTypeOK
<1>1. ASSUME UNCHANGED <<effects, unvisited, address, users>>, Live(h)' <=> Live(h)
      PROVE  Truthful(h)'
  BY <1>1, TruthfulKept DEF Self
<1>2. ASSUME Start(h) \/ Read(h) \/ DeliverBroadcast(h) \/ NoticeLag(h) PROVE Truthful(h)'
  BY <1>0, <1>1, <1>2 DEF Start, Read, DeliverBroadcast, NoticeLag, Live
<1>3. ASSUME \/ ConnectionEnds(h) \/ \E kind \in RequestTypes : ClientRequest(h, kind)
      PROVE  Truthful(h)'
  BY <1>1, <1>3 DEF ConnectionEnds, ClientClose, ConnectionBreaks, ClientRequest, Live
<1>4. ASSUME Exit(h) \/ BroadcastWriteFails(h) PROVE Truthful(h)'
  <2>1. effects[h] = <<>> /\ UNCHANGED <<effects, unvisited>>
    BY <1>4 DEF Exit, BroadcastWriteFails, HasBroadcast, AtSelect
  <2>2. unvisited[h] = {}
    BY <2>1 DEF Truthful, Admitting, Replying
  <2> QED BY <2>1, <2>2, TruthfulIdle
<1>5. ASSUME SendEvent(h) \/ SendBroadcast(h) \/ WriteResponse(h) PROVE Truthful(h)'
  <2>1. /\ UNCHANGED <<users, address, pc, unvisited>> /\ unvisited[h] = {}
        /\ effects[h] # <<>> /\ effects'[h] \in {Tail(effects[h]), <<>>}
    BY <1>0, <1>5 DEF SendEvent, SendBroadcast, WriteResponse, Due
  <2>2. (Live(h)' <=> Live(h)) /\ Self(h)' = Self(h)
    BY <2>1 DEF Live, Self
  <2> QED BY <1>0, <2>1, <2>2, TruthfulTail
<1>6. ASSUME RejectLogin(h) \/ HandlePing(h) PROVE Truthful(h)'
  <2>1. PICK p : effects'[h] = <<Write(p)>> /\ (p.type = "LoginResponse" => p.id = 0)
    BY <1>0, <1>6 DEF RejectLogin, HandlePing, LoginResponse, PlainResponse
  <2>2. Live(h)' /\ unvisited'[h] = {}
    BY <1>0, <1>6, HandlesTypes DEF RejectLogin, HandlePing, Handles, Live
  <2>3. (Replying(h)' => Reply(h)'.id = 0) /\ ~Admitting(h)'
    BY <2>1 DEF Replying, Admitting, Reply, Write
  <2> DEFINE rest == <<Write(p)>>
  <2>4. \A i \in DOMAIN rest : rest[i].do # "broadcast" /\ i = 1
    BY DEF Write
  <2>5. effects'[h] = rest
    BY <2>1
  <2> HIDE DEF rest
  <2> QED BY <2>2, <2>3, <2>4, <2>5, TruthfulAnswer
<1>7. ASSUME HandleLogin(h) PROVE Truthful(h)'
  <2> DEFINE p == Packet(h)
             user == [Self(h) EXCEPT !.username = p.username]
             m == excluding(address[h], UserJoinedServer(Self(h).id, p.username))
             reply == LoginResponse(p.request_id, Self(h).id, Self(h).token, Nobody)
             rest == <<Write(reply), Cast(m)>>
  <2>1. Handling(h, "Login", user, rest) /\ ValidName(p.username)
    BY <1>7 DEF HandleLogin
  <2>0. Handles(h, "Login")
    BY <2>1 DEF Handling
  <2> HIDE DEF user, rest
  <2>2. /\ Self(h).id = h /\ Self(h) \in User /\ effects'[h] = rest
        /\ Handles(h, "Login") /\ Live(h)
    <3>1. Self(h).id = h /\ effects'[h] = rest /\ Live(h)
      BY <2>1, HandlingDone
    <3> QED BY <1>0, <2>0, <3>1, HandlesTypes
  <2> USE DEF user, rest
  <2>3. ~Self(h).in_voice /\ ~Self(h).is_muted
    BY <1>0, <2>2, LoginPacket DEF Asked
  <2>4. /\ user.username = p.username /\ user.in_voice = Self(h).in_voice
        /\ user.is_muted = Self(h).is_muted
    BY <2>2 DEF User
  <2>5. p.username # NoName
    BY <2>1 DEF ValidName, NoName
  <2>6. \A i \in DOMAIN rest : /\ rest[i].do = "write" => i = 1
                               /\ rest[i].do = "broadcast" => rest[i].message = m
    BY DEF Write, Cast
  <2>7. rest # <<>> /\ Head(rest) = Write(reply)
    OBVIOUS
  <2>8. Replying(h)' /\ Reply(h)'.id = h
    BY <2>2, <2>7 DEF Replying, Reply, Write, LoginResponse
  <2>9. /\ m.packet.user_id = h /\ m.packet.type = "UserJoinedServer" /\ m.exclude = address[h]
        /\ m.packet.username = p.username
    BY <2>2 DEF excluding, UserJoinedServer
  <2> HIDE DEF user, m, reply, rest, p
  <2>10. Same("voice", Said(m.packet), Info(user.username, user.in_voice, user.is_muted))
    BY <2>2, <2>3, <2>4, <2>9 DEF Same, Said, Info, User
  <2>11. Same("muted", Said(m.packet), Info(user.username, user.in_voice, user.is_muted))
    BY <2>2, <2>3, <2>4, <2>9 DEF Same, Said, Info, User
  <2>12. Same("name", Said(m.packet), Info(user.username, user.in_voice, user.is_muted))
    BY <2>4, <2>9 DEF Same, Said, Info
  <2>13. ~Leaves(m.packet)
    BY <2>9 DEF Leaves
  <2> QED
    BY <2>1, <2>4, <2>5, <2>6, <2>8, <2>9, <2>10, <2>11, <2>12, <2>13, TruthfulHandling DEF Facets
<1>8. ASSUME NEW v \in BOOLEAN, NEW type, NEW reply, NEW e, NEW news,
             v = (news = "UserJoinedVoice"), news \in {"UserJoinedVoice", "UserLeftVoice"},
             reply # "LoginResponse", type # "Login", UNCHANGED unvisited,
             Handling(h, type, [Self(h) EXCEPT !.in_voice = v, !.is_muted = FALSE],
                 <<Write(PlainResponse(reply, Packet(h).request_id)), Emit(e),
                   Cast(excluding(address[h], PlainNews(news, Self(h).id)))>>)
      PROVE  Truthful(h)'
  <2> DEFINE user == [Self(h) EXCEPT !.in_voice = v, !.is_muted = FALSE]
             m == excluding(address[h], PlainNews(news, Self(h).id))
             answer == PlainResponse(reply, Packet(h).request_id)
             rest == <<Write(answer), Emit(e), Cast(m)>>
  <2>1. Handling(h, type, user, rest)
    BY <1>8
  <2>0. Handles(h, type)
    BY <2>1 DEF Handling
  <2> HIDE DEF user, rest
  <2>2. /\ Self(h).id = h /\ Self(h) \in User /\ effects'[h] = rest
        /\ Handles(h, type) /\ Live(h) /\ unvisited'[h] = {}
    <3>1. Self(h).id = h /\ effects'[h] = rest /\ Live(h)
      BY <2>1, HandlingDone
    <3> QED BY <1>0, <1>8, <2>0, <3>1, HandlesTypes
  <2> USE DEF user, rest
  <2>3. Self(h).username # NoName
    BY <1>0, <1>8, <2>2, RoomPacket DEF Named
  <2>4. user.username = Self(h).username /\ user.in_voice = v /\ user.is_muted = FALSE
    BY <2>2 DEF User
  <2>6. \A i \in DOMAIN rest : /\ rest[i].do = "write" => i = 1
                               /\ rest[i].do = "broadcast" => rest[i].message = m
    BY DEF Write, Cast, Emit
  <2>7. rest # <<>> /\ Head(rest) = Write(answer) /\ answer.type = reply
    BY DEF PlainResponse
  <2> HIDE DEF answer, rest
  <2>8. ~Replying(h)'
    BY <1>8, <2>2, <2>7 DEF Replying, Write
  <2>9. m.packet.user_id = h /\ m.packet.type = news /\ m.exclude = address[h]
    BY <2>2 DEF excluding, PlainNews
  <2> HIDE DEF user, m
  <2>10. Same("voice", Said(m.packet), Info(user.username, user.in_voice, user.is_muted))
    BY <1>8, <2>4, <2>9 DEF Same, Said, Info
  <2>11. Same("muted", Said(m.packet), Info(user.username, user.in_voice, user.is_muted))
    BY <1>8, <2>4, <2>9 DEF Same, Said, Info
  <2>12. ~Sets("name", m.packet) /\ ~Leaves(m.packet)
    BY <1>8, <2>9 DEF Sets, Leaves
  <2> QED
    BY <2>1, <2>2, <2>3, <2>4, <2>6, <2>8, <2>9, <2>10, <2>11, <2>12, TruthfulHandling DEF Facets
<1>9. ASSUME HandleJoinVoiceChannel(h) \/ HandleLeaveVoiceChannel(h) PROVE Truthful(h)'
  <2>1. CASE HandleJoinVoiceChannel(h)
    BY <1>8, <2>1 DEF HandleJoinVoiceChannel
  <2>2. CASE HandleLeaveVoiceChannel(h)
    <3> DEFINE v == FALSE
               news == "UserLeftVoice"
    <3>1. /\ v = (news = "UserJoinedVoice") /\ v \in BOOLEAN
          /\ news \in {"UserJoinedVoice", "UserLeftVoice"}
      OBVIOUS
    <3>2. Handling(h, "Leave", [Self(h) EXCEPT !.in_voice = v, !.is_muted = FALSE],
              <<Write(PlainResponse("LeaveResponse", Packet(h).request_id)),
                Emit(VoiceLeft(Self(h).id)),
                Cast(excluding(address[h], PlainNews(news, Self(h).id)))>>)
      BY <2>2 DEF HandleLeaveVoiceChannel
    <3>3. UNCHANGED unvisited
      BY <2>2 DEF HandleLeaveVoiceChannel
    <3> HIDE DEF v, news
    <3> QED BY <1>8, <3>1, <3>2, <3>3
  <2> QED BY <1>9, <2>1, <2>2
<1>10. ASSUME HandleChatMessage(h) PROVE Truthful(h)'
  <2> DEFINE m == for_all(PlainNews("UserSentMessage", Self(h).id))
             answer == PlainResponse("ChatResponse", Packet(h).request_id)
             rest == <<Write(answer), Cast(m)>>
  <2>1. Handling(h, "Chat", Self(h), rest) /\ UNCHANGED unvisited
    BY <1>10 DEF HandleChatMessage
  <2>0. Handles(h, "Chat")
    BY <2>1 DEF Handling
  <2> HIDE DEF rest
  <2>2. /\ Self(h).id = h /\ effects'[h] = rest
        /\ Handles(h, "Chat") /\ Live(h) /\ unvisited'[h] = {}
    <3>1. Self(h).id = h /\ effects'[h] = rest /\ Live(h)
      BY <2>1, HandlingDone
    <3> QED BY <1>0, <2>0, <2>1, <3>1, HandlesTypes
  <2> USE DEF rest
  <2>3. Self(h).username # NoName
    BY <1>0, <2>2, RoomPacket DEF Named
  <2>6. \A i \in DOMAIN rest : /\ rest[i].do = "write" => i = 1
                               /\ rest[i].do = "broadcast" => rest[i].message = m
    BY DEF Write, Cast
  <2>7. rest # <<>> /\ Head(rest) = Write(answer) /\ answer.type = "ChatResponse"
    BY DEF PlainResponse
  <2> HIDE DEF answer, rest
  <2>8. ~Replying(h)'
    BY <2>2, <2>7 DEF Replying, Write
  <2>9. m.packet.user_id = h /\ m.packet.type = "UserSentMessage" /\ m.exclude = NoAddress
    BY <2>2 DEF for_all, PlainNews
  <2> HIDE DEF m
  <2>10. (\A f \in Facets : ~Sets(f, m.packet)) /\ ~Leaves(m.packet)
    BY <2>9 DEF Facets, Sets, Leaves
  <2> QED BY <2>1, <2>2, <2>3, <2>6, <2>8, <2>9, <2>10, TruthfulHandling
<1>11. ASSUME HandleUserMuteState(h) PROVE Truthful(h)'
  <2> DEFINE p == Packet(h)
             user == [Self(h) EXCEPT !.is_muted = p.is_muted]
             m == excluding(address[h], UserMuteState(p.user_id, p.is_muted))
             rest == <<Cast(m)>>
  <2>1. Handling(h, "Mute", user, rest) /\ UNCHANGED unvisited
    BY <1>11 DEF HandleUserMuteState
  <2>0. Handles(h, "Mute")
    BY <2>1 DEF Handling
  <2> HIDE DEF user, rest
  <2>2. /\ Self(h) \in User /\ effects'[h] = rest /\ p \in Request
        /\ Handles(h, "Mute") /\ Live(h) /\ unvisited'[h] = {}
    <3>1. effects'[h] = rest /\ Live(h)
      BY <2>1, HandlingDone
    <3> QED BY <1>0, <2>0, <2>1, <3>1, HandlesTypes
  <2> USE DEF user, rest
  <2>3. Self(h).username # NoName /\ p.user_id = h
    BY <1>0, <2>2, RoomPacket DEF Named
  <2>4. user.username = Self(h).username /\ user.is_muted = p.is_muted
    BY <2>2 DEF User
  <2>6. \A i \in DOMAIN rest : rest[i].do = "broadcast" /\ rest[i].message = m
    BY DEF Cast
  <2>7. Head(rest).do = "broadcast"
    BY DEF Cast
  <2> HIDE DEF rest
  <2>8. ~Replying(h)'
    BY <2>2, <2>7 DEF Replying
  <2>9. /\ m.packet.user_id = h /\ m.packet.type = "UserMuteState" /\ m.exclude = address[h]
        /\ m.packet.is_muted = p.is_muted
    BY <2>3 DEF excluding, UserMuteState
  <2>10. p.is_muted \in BOOLEAN
    BY <2>2 DEF Request
  <2> HIDE DEF user, m, p
  <2>11. Same("muted", Said(m.packet), Info(user.username, user.in_voice, user.is_muted))
    BY <2>4, <2>9, <2>10 DEF Same, Said, Info
  <2>12. ~Sets("name", m.packet) /\ ~Sets("voice", m.packet) /\ ~Leaves(m.packet)
    BY <2>9 DEF Sets, Leaves
  <2>13. \A i \in DOMAIN rest : /\ rest[i].do = "write" => i = 1
                                /\ rest[i].do = "broadcast" => rest[i].message = m
    BY <2>6
  <2> QED
    BY <2>1, <2>2, <2>3, <2>4, <2>8, <2>9, <2>11, <2>12, <2>13, TruthfulHandling DEF Facets
<1>12. ASSUME NEW a \in Addresses, Collect(h, a) PROVE Truthful(h)'
  <2>1. /\ Admitting(h) /\ Admitting(h)' /\ Reply(h)'.id = Reply(h).id
        /\ Casts(effects'[h]) = Casts(effects[h])
        /\ DOMAIN effects'[h] = DOMAIN effects[h]
        /\ \A i \in DOMAIN effects[h] : /\ effects'[h][i].do = effects[h][i].do
                                        /\ i # 1 => effects'[h][i] = effects[h][i]
    BY <1>0, <1>12, CollectMeans
  <2>2. /\ UNCHANGED <<users, address, pc>> /\ effects[h] # <<>> /\ Head(effects[h]).do = "write"
    BY <1>12, <2>1 DEF Collect, Admitting, Replying
  <2>3. (Live(h)' <=> Live(h)) /\ Self(h)' = Self(h) /\ Live(h) /\ Named(h)
    BY <2>1, <2>2 DEF Live, Self, Truthful, Admitting
  <2>4. (Named(h)' <=> Named(h)) /\ Truth(h)' = Truth(h)
    BY <2>3, TruthKept
  <2>5. \A i \in DOMAIN effects[h] : effects[h][i].do = "broadcast" => i # 1
    <3>1. effects[h] \in Seq(Effect)
      BY <1>0 DEF MgmtTypeOK
    <3> QED BY <2>2, <3>1, HeadTailProperties
  <2>6. \A m : Honest(h, m, Casts(effects[h])) => Honest(h, m, Casts(effects[h]))'
    BY <2>1, <2>2, <2>3, <2>4 DEF Honest
  <2>7. \A i \in DOMAIN effects'[h] : effects'[h][i].do = "broadcast" =>
           Honest(h, effects[h][i].message, Casts(effects[h]))'
    <3>1. \A i \in DOMAIN effects[h] : effects[h][i].do = "broadcast" =>
             Honest(h, effects[h][i].message, Casts(effects[h]))
      BY DEF Truthful
    <3>2. ASSUME NEW i \in DOMAIN effects'[h], effects'[h][i].do = "broadcast"
          PROVE  Honest(h, effects[h][i].message, Casts(effects[h]))'
      <4>1. i \in DOMAIN effects[h] /\ effects[h][i].do = "broadcast"
        BY <2>1, <3>2
      <4>2. i # 1 /\ Honest(h, effects[h][i].message, Casts(effects[h]))
        BY <2>5, <3>1, <4>1
      <4>3. effects'[h][i].message = effects[h][i].message
        BY <2>1, <4>1, <4>2
      <4>4. Honest(h, effects[h][i].message, Casts(effects[h]))'
        <5> DEFINE m == effects[h][i].message
        <5>1. Honest(h, m, Casts(effects[h])) /\ m' = m
          BY <4>2, <4>3
        <5> QED BY <2>6, <5>1
      <4> QED BY <4>4
    <3> QED BY <3>2
  <2>8. Reply(h)'.id \in {0, h}
    BY <2>1 DEF Truthful, Admitting
  <2>9. \A i \in DOMAIN effects'[h] : effects'[h][i].do = "write" => i = 1
    <3>1. \A i \in DOMAIN effects[h] : effects[h][i].do = "write" => i = 1
      BY DEF Truthful
    <3>2. ASSUME NEW i \in DOMAIN effects'[h], effects'[h][i].do = "write" PROVE i = 1
      <4>1. i \in DOMAIN effects[h] /\ effects[h][i].do = "write"
        BY <2>1, <3>2
      <4> QED BY <3>1, <4>1
    <3> QED BY <3>2
  <2> QED BY <2>1, <2>3, <2>4, <2>7, <2>8, <2>9 DEF Truthful
<1>13. ASSUME Disconnect(h) PROVE Truthful(h)'
  <2> DEFINE rest == Farewell(Self(h))
  <2>1. /\ effects'[h] = rest /\ pc'[h] = "exiting" /\ Live(h) /\ UNCHANGED unvisited
        /\ effects[h] = <<>>
    BY <1>0, <1>13 DEF Disconnect, AtSelect, Live
  <2>2. Self(h).id = h /\ ~Live(h)' /\ unvisited'[h] = {} /\ Truth(h)' = NoInfo
    BY <2>1, StreamingFacts DEF Live, Truth, Named, Truthful, Admitting, Replying
  <2>3. \A i \in DOMAIN rest : \E type \in {"UserLeftServer", "UserLeftVoice"} :
           rest[i] = Cast(for_all(PlainNews(type, h)))
    BY <2>2 DEF Farewell
  <2>4. rest = <<>> \/ Head(rest).do = "broadcast"
    BY DEF Farewell, Cast
  <2> HIDE DEF rest
  <2>5. ~Replying(h)' /\ ~Admitting(h)'
    BY <2>1, <2>4 DEF Replying, Admitting
  <2>6. ASSUME NEW type \in {"UserLeftServer", "UserLeftVoice"}
        PROVE  Honest(h, for_all(PlainNews(type, h)), Casts(effects[h]))'
    <3> DEFINE m == for_all(PlainNews(type, h))
    <3>1. m.packet.user_id = h /\ m.packet.type = type /\ m.exclude = NoAddress
      BY DEF for_all, PlainNews
    <3> HIDE DEF m
    <3>2. Said(m.packet) = NoInfo
      BY <3>1 DEF Said, NoInfo, Info
    <3>3. ~NeedsEntry(m.packet) /\ ~Joins(m.packet)
      BY <3>1 DEF NeedsEntry, Joins
    <3>4. Honest(h, m, Casts(effects[h]))'
      BY <2>2, <3>1, <3>2, <3>3 DEF Honest, Same
    <3> QED BY <3>4 DEF m
  <2>7. ASSUME NEW i \in DOMAIN rest
        PROVE  /\ rest[i].do # "write"
               /\ Honest(h, effects[h][i].message, Casts(effects[h]))'
    <3>1. PICK type \in {"UserLeftServer", "UserLeftVoice"} :
            rest[i] = Cast(for_all(PlainNews(type, h)))
      BY <2>3
    <3>2. rest[i].do = "broadcast" /\ rest[i].message = for_all(PlainNews(type, h))
      BY <3>1 DEF Cast
    <3> QED BY <2>1, <2>6, <3>2
  <2> QED BY <2>1, <2>2, <2>5, <2>7 DEF Truthful
<1> QED
  BY <1>2, <1>3, <1>4, <1>5, <1>6, <1>7, <1>9, <1>10, <1>11, <1>12, <1>13 DEF HandlerStep

-----------------------------------------------------------------------------
(* A handler that changes its entry has the change to broadcast.            *)

Change(h) ==
    /\ pc[h] = "running" /\ effects[h] = <<>>
    /\ Self(h)'.id = h /\ Named(h)'
    /\ users' = [users EXCEPT ![address[h]] = Self(h)']
    /\ UNCHANGED <<address, pc, broadcast_rx, lagged, socket, clients>>
    /\ \A f \in Facets : Mute(f, Casts(effects'[h])) => Same(f, Truth(h), Truth(h)')
    /\ Replying(h)' => unvisited'[h] = Addresses /\ Reply(h)'.participants = Nobody

\* A handler changes its entry only with the news of it left to broadcast.
LEMMA ChangeByHandling ==
    ASSUME Streaming, NEW h \in UserIds, NEW type, NEW user, NEW rest, NEW m,
           Handling(h, type, user, rest), user.id = h, user.username # NoName,
           \E i \in DOMAIN rest : rest[i] = Cast(m),
           \A f \in Facets : Sets(f, m.packet) \/ (Named(h) /\ Same(f, Self(h), user)),
           Replying(h)' => unvisited'[h] = Addresses /\ Reply(h)'.participants = Nobody
    PROVE  Change(h)
<1>1. /\ pc[h] = "running" /\ Live(h)' /\ Self(h)' = user /\ Live(h)
      /\ users' = [users EXCEPT ![address[h]] = user]
      /\ effects[h] = <<>> /\ effects'[h] = rest
      /\ UNCHANGED <<address, pc, broadcast_rx, lagged, socket, clients>>
  BY HandlingMeans
<1>2. Named(h)' /\ Truth(h)' = Info(user.username, user.in_voice, user.is_muted)
  BY <1>1 DEF Truth, Named
<1>3. m.packet \in Casts(rest)
  <2>1. PICK i \in DOMAIN rest : rest[i] = Cast(m)
    OBVIOUS
  <2>2. rest[i].do = "broadcast" /\ rest[i].message = m
    BY <2>1 DEF Cast
  <2> QED BY <2>2 DEF Casts
<1>4. ASSUME NEW f \in Facets, Mute(f, Casts(rest)) PROVE Same(f, Truth(h), Truth(h)')
  <2>1. ~Sets(f, m.packet)
    BY <1>3, <1>4 DEF Mute
  <2>2. Named(h) /\ Same(f, Self(h), user)
    BY <2>1
  <2>3. Truth(h) = Info(Self(h).username, Self(h).in_voice, Self(h).is_muted)
    BY <2>2 DEF Truth
  <2> QED BY <1>2, <2>2, <2>3 DEF Same, Info
<1> QED BY <1>1, <1>2, <1>4 DEF Change

Changes(h) ==
    \/ HandleLogin(h) \/ HandleJoinVoiceChannel(h) \/ HandleLeaveVoiceChannel(h)
    \/ HandleChatMessage(h) \/ HandleUserMuteState(h)

\* Every handler that changes the entry is such a change.
LEMMA ChangesMean ==
    ASSUME Streaming, NEW h \in UserIds, Asked(h), Changes(h)
    PROVE  Change(h)
<1>0. MgmtTypeOK /\ DOMAIN unvisited = UserIds
  BY StreamingFacts DEF MgmtTypeOK
<1>1. CASE HandleLogin(h)
  <2> DEFINE p == Packet(h)
             user == [Self(h) EXCEPT !.username = p.username]
             m == excluding(address[h], UserJoinedServer(Self(h).id, p.username))
             reply == LoginResponse(p.request_id, Self(h).id, Self(h).token, Nobody)
             rest == <<Write(reply), Cast(m)>>
  <2>1. Handling(h, "Login", user, rest) /\ ValidName(p.username)
    BY <1>1 DEF HandleLogin
  <2>2. Handles(h, "Login")
    BY <2>1 DEF Handling
  <2>3. rest[2] = Cast(m) /\ 2 \in DOMAIN rest /\ Head(rest) = Write(reply)
    OBVIOUS
  <2>4. \A f \in Facets : Sets(f, m.packet)
    BY DEF Facets, Sets, excluding, UserJoinedServer
  <2>5. reply.participants = Nobody
    BY DEF LoginResponse
  <2> HIDE DEF user, rest, m, reply, p
  <2>6. Self(h).id = h /\ effects'[h] = rest /\ h # 0
    BY <2>1, HandlingDone, StreamingFacts
  <2>7. Self(h) \in User
    BY <1>0, <2>2, StreamingFacts, HandlesTypes
  <2>8. user.id = h /\ user.username # NoName
    <3>1. user.id = Self(h).id /\ user.username = p.username
      BY <2>7 DEF user, User
    <3> QED BY <2>1, <2>6, <3>1 DEF ValidName, NoName
  <2>9. unvisited'[h] = Addresses
    BY <1>0, <1>1, <2>6 DEF HandleLogin
  <2>10. Reply(h)'.participants = Nobody
    BY <2>3, <2>5, <2>6 DEF Reply, Write
  <2> QED BY <2>1, <2>3, <2>4, <2>8, <2>9, <2>10, ChangeByHandling
<1>2. ASSUME NEW type, NEW user, NEW rest, NEW m, type # "Login",
             Handling(h, type, user, rest), user.id = Self(h).id,
             user.username = Self(h).username,
             \E i \in DOMAIN rest : rest[i] = Cast(m),
             rest # <<>>, Head(rest).do = "write" => Head(rest).packet.type # "LoginResponse",
             \A f \in Facets : Sets(f, m.packet) \/ Same(f, Self(h), user)
      PROVE  Change(h)
  <2>1. Handles(h, type)
    BY <1>2 DEF Handling
  <2>2. Named(h)
    BY <1>0, <1>2, <2>1, RoomPacket
  <2>3. Self(h).id = h /\ effects'[h] = rest /\ Self(h).username # NoName
    BY <1>2, <2>2, HandlingDone DEF Named
  <2>4. ~Replying(h)'
    BY <1>2, <2>3 DEF Replying
  <2> QED BY <1>2, <2>2, <2>3, <2>4, ChangeByHandling
<1>3. ASSUME HandleJoinVoiceChannel(h) \/ HandleLeaveVoiceChannel(h) \/ HandleUserMuteState(h)
      PROVE  Self(h) \in User
  BY <1>3, StreamingFacts, HandlesTypes
     DEF HandleJoinVoiceChannel, HandleLeaveVoiceChannel, HandleUserMuteState, Handling
<1>4. CASE HandleJoinVoiceChannel(h)
  <2> DEFINE user == [Self(h) EXCEPT !.in_voice = TRUE, !.is_muted = FALSE]
             m == excluding(address[h], PlainNews("UserJoinedVoice", Self(h).id))
             rest == <<Write(PlainResponse("JoinResponse", Packet(h).request_id)),
                       Emit(VoiceJoined(Self(h).id)), Cast(m)>>
  <2>1. user.id = Self(h).id /\ user.username = Self(h).username
    BY <1>3, <1>4 DEF User
  <2>2. rest # <<>> /\ Head(rest).packet.type # "LoginResponse" /\ rest[3] = Cast(m)
        /\ 3 \in DOMAIN rest
    BY DEF Write, PlainResponse
  <2>3. Handling(h, "Join", user, rest)
    BY <1>4 DEF HandleJoinVoiceChannel
  <2>4. Sets("voice", m.packet) /\ Sets("muted", m.packet)
    BY DEF Sets, excluding, PlainNews
  <2> HIDE DEF user, rest, m
  <2>5. \A f \in Facets : Sets(f, m.packet) \/ Same(f, Self(h), user)
    BY <2>1, <2>4 DEF Facets, Same
  <2> QED BY <1>2, <2>1, <2>2, <2>3, <2>5
<1>5. CASE HandleLeaveVoiceChannel(h)
  <2> DEFINE user == [Self(h) EXCEPT !.in_voice = FALSE, !.is_muted = FALSE]
             m == excluding(address[h], PlainNews("UserLeftVoice", Self(h).id))
             rest == <<Write(PlainResponse("LeaveResponse", Packet(h).request_id)),
                       Emit(VoiceLeft(Self(h).id)), Cast(m)>>
  <2>1. user.id = Self(h).id /\ user.username = Self(h).username
    BY <1>3, <1>5 DEF User
  <2>2. rest # <<>> /\ Head(rest).packet.type # "LoginResponse" /\ rest[3] = Cast(m)
        /\ 3 \in DOMAIN rest
    BY DEF Write, PlainResponse
  <2>3. Handling(h, "Leave", user, rest)
    BY <1>5 DEF HandleLeaveVoiceChannel
  <2>4. Sets("voice", m.packet) /\ Sets("muted", m.packet)
    BY DEF Sets, excluding, PlainNews
  <2> HIDE DEF user, rest, m
  <2>5. \A f \in Facets : Sets(f, m.packet) \/ Same(f, Self(h), user)
    BY <2>1, <2>4 DEF Facets, Same
  <2> QED BY <1>2, <2>1, <2>2, <2>3, <2>5
<1>6. CASE HandleChatMessage(h)
  <2> DEFINE user == Self(h)
             m == for_all(PlainNews("UserSentMessage", Self(h).id))
             rest == <<Write(PlainResponse("ChatResponse", Packet(h).request_id)), Cast(m)>>
  <2>2. rest # <<>> /\ Head(rest).packet.type # "LoginResponse" /\ rest[2] = Cast(m)
        /\ 2 \in DOMAIN rest
    BY DEF Write, PlainResponse
  <2>3. Handling(h, "Chat", user, rest)
    BY <1>6 DEF HandleChatMessage
  <2>5. \A f \in Facets : Same(f, Self(h), user)
    BY DEF Same
  <2> HIDE DEF rest, m
  <2> QED BY <1>2, <2>2, <2>3, <2>5
<1>7. CASE HandleUserMuteState(h)
  <2> DEFINE user == [Self(h) EXCEPT !.is_muted = Packet(h).is_muted]
             m == excluding(address[h], UserMuteState(Packet(h).user_id, Packet(h).is_muted))
             rest == <<Cast(m)>>
  <2>1. user.id = Self(h).id /\ user.username = Self(h).username
        /\ user.in_voice = Self(h).in_voice
    BY <1>3, <1>7 DEF User
  <2>2. rest # <<>> /\ Head(rest).do # "write" /\ rest[1] = Cast(m) /\ 1 \in DOMAIN rest
    BY DEF Cast
  <2>3. Handling(h, "Mute", user, rest)
    BY <1>7 DEF HandleUserMuteState
  <2>4. Sets("muted", m.packet)
    BY DEF Sets, excluding, UserMuteState
  <2> HIDE DEF user, rest, m
  <2>5. \A f \in Facets : Sets(f, m.packet) \/ Same(f, Self(h), user)
    BY <2>1, <2>4 DEF Facets, Same
  <2> QED BY <1>2, <2>1, <2>2, <2>3, <2>5
<1> QED BY <1>1, <1>4, <1>5, <1>6, <1>7 DEF Changes

\* No step of h makes an entry of the map say of another connection what is wrong.
LEMMA EntryKept ==
    ASSUME NEW a, Entry(a), users'[a] = users[a], UNCHANGED address,
           pc[users[a].id] # "none" => pc'[users[a].id] # "none",
           Live(users[a].id) => Live(users[a].id)' \/ socket'[users[a].id] = "broken",
           socket[users[a].id] = "broken" => socket'[users[a].id] = "broken"
    PROVE  Entry(a)'
BY DEF Entry, Live

\* Every step keeps the entries those of their handlers.
LEMMA EntriesStep ==
    ASSUME PortReuse = FALSE, Streaming, Entries, \A h \in UserIds : Asked(h),
           [MgmtNext]_mgmtAll
    PROVE  Entries'
<1> USE DEF handlerVars, channelVars, clientVars
<1>0. /\ MgmtTypeOK /\ DOMAIN users = Addresses /\ DOMAIN pc = UserIds /\ DOMAIN socket = UserIds
      /\ DOMAIN address = UserIds
      /\ \A h \in UserIds : Live(h) => Self(h).id = h /\ address[h] \in Addresses /\ h # 0
  BY StreamingFacts DEF MgmtTypeOK
<1>1. ASSUME NEW a \in Addresses, Accept(a) PROVE Entries'
  <2> DEFINE n == next_user_id
  <2>1. n \in UserIds /\ pc[n] = "none" /\ (\A k \in UserIds : k # n => Untouched(k))
    BY <1>1, AcceptUntouches
  <2>2. /\ users' = [users EXCEPT ![a] = NewUser(n)] /\ pc' = [pc EXCEPT ![n] = "spawned"]
        /\ address' = [address EXCEPT ![n] = a]
    BY <1>1 DEF Accept, Registered
  <2> HIDE DEF n
  <2>3. NewUser(n).id = n /\ NewUser(n).username = NoName
    BY DEF NewUser, NoUser
  <2>4. Entry(a)'
    BY <1>0, <2>1, <2>2, <2>3 DEF Entry, Live
  <2>5. ASSUME NEW b \in Addresses, b # a PROVE Entry(b)'
    <3> DEFINE k == users[b].id
    <3>1. users'[b] = users[b] /\ Entry(b)
      BY <1>0, <2>2, <2>5 DEF Entries
    <3>2. CASE k = 0
      BY <3>1, <3>2 DEF Entry
    <3>3. CASE k # 0
      <4>1. k \in UserIds /\ k # n
        BY <2>1, <3>1, <3>3 DEF Entry
      <4>2. /\ address'[k] = address[k] /\ pc'[k] = pc[k] /\ socket'[k] = socket[k]
        BY <2>1, <4>1 DEF Untouched
      <4> QED BY <3>1, <3>3, <4>2 DEF Entry, Live
    <3> QED BY <3>2, <3>3
  <2> QED BY <2>4, <2>5 DEF Entries
<1>2. ASSUME NEW h \in UserIds, UNCHANGED <<users, address, socket>>,
             \/ pc' = pc
             \/ \E x \in {"running", "exiting", "done"} : pc' = [pc EXCEPT ![h] = x],
             Live(h) => Live(h)' \/ socket[h] = "broken"
      PROVE  Entries'
  <2>1. \A k \in UserIds : /\ pc[k] # "none" => pc'[k] # "none"
                           /\ Live(k) => Live(k)' \/ socket[k] = "broken"
    BY <1>0, <1>2 DEF Live
  <2>2. ASSUME NEW a \in Addresses, users[a].id \in UserIds PROVE Entry(a)'
    BY <1>2, <2>1, <2>2, EntryKept DEF Entries
  <2>3. ASSUME NEW a \in Addresses, users[a].id \notin UserIds PROVE Entry(a)'
    BY <1>2, <2>3 DEF Entries, Entry
  <2> QED BY <2>2, <2>3 DEF Entries
<1>3. ASSUME NEW h \in UserIds, Start(h) \/ Exit(h) \/ BroadcastWriteFails(h) PROVE Entries'
  BY <1>0, <1>2, <1>3 DEF Start, Exit, BroadcastWriteFails, Live, CanWrite
<1>4. ASSUME NEW h \in UserIds,
             \/ SendEvent(h) \/ SendBroadcast(h) \/ WriteResponse(h)
             \/ RejectLogin(h) \/ HandlePing(h) \/ (\E a \in Addresses : Collect(h, a))
             \/ Read(h) \/ DeliverBroadcast(h) \/ NoticeLag(h)
             \/ \E kind \in RequestTypes : ClientRequest(h, kind)
      PROVE  Entries'
  <2>1. UNCHANGED <<users, address, socket, pc>>
    BY <1>4 DEF SendEvent, SendBroadcast, WriteResponse, RejectLogin, HandlePing,
                Collect, Read, DeliverBroadcast, NoticeLag, ClientRequest
  <2> QED BY <1>0, <1>2, <2>1 DEF Live
<1>5. ASSUME NEW h \in UserIds, Changes(h) PROVE Entries'
  <2>1. Change(h)
    BY <1>5, ChangesMean
  <2>2. /\ users' = [users EXCEPT ![address[h]] = Self(h)'] /\ Self(h)'.id = h
        /\ UNCHANGED <<address, pc, socket>> /\ pc[h] = "running" /\ h # 0 /\ address[h] \in Addresses
    BY <1>0, <2>1 DEF Change, Live
  <2>3. Entry(address[h])'
    <3>1. users'[address[h]] = Self(h)'
      BY <1>0, <2>2
    <3> QED BY <2>2, <3>1 DEF Entry, Live
  <2>4. ASSUME NEW a \in Addresses, a # address[h] PROVE Entry(a)'
    BY <1>0, <2>2, <2>4, EntryKept DEF Entries, Live
  <2> QED BY <2>2, <2>3, <2>4 DEF Entries
<1>6. ASSUME NEW h \in UserIds, Disconnect(h) PROVE Entries'
  <2>1. /\ users' = [users EXCEPT ![address[h]] = NoUser] /\ pc' = [pc EXCEPT ![h] = "exiting"]
        /\ UNCHANGED <<address, socket>>
    BY <1>6 DEF Disconnect
  <2>2. ASSUME NEW a \in Addresses, a # address[h] PROVE Entry(a)'
    <3>1. Entry(a) /\ users'[a] = users[a]
      BY <1>0, <2>1, <2>2 DEF Entries, Entry
    <3>2. CASE users[a].id = 0
      BY <1>0, <2>1, <2>2, <3>1, <3>2 DEF Entries, Entry
    <3>3. CASE users[a].id # 0
      BY <1>0, <2>1, <2>2, <3>3 DEF Entries, Entry, Live
    <3> QED BY <3>2, <3>3
  <2>3. ASSUME NEW a \in Addresses, a = address[h] PROVE Entry(a)'
    BY <1>0, <2>1, <2>3 DEF Entry, NoUser
  <2> QED BY <2>2, <2>3 DEF Entries
<1>7. ASSUME NEW h \in UserIds, ConnectionEnds(h) PROVE Entries'
  <2>1. /\ UNCHANGED <<users, address, pc>>
        /\ \A k \in UserIds : socket[k] = "broken" => socket'[k] = "broken"
    BY <1>0, <1>7 DEF ConnectionEnds, ClientClose, ConnectionBreaks
  <2>2. ASSUME NEW a \in Addresses PROVE Entry(a)'
    BY <2>1 DEF Entries, Entry, Live
  <2> QED BY <2>2 DEF Entries
<1>8. CASE UNCHANGED mgmtAll
  BY <1>8 DEF mgmtAll, mgmtVars, Entries, Entry, Live
<1> QED
  BY <1>1, <1>3, <1>4, <1>5, <1>6, <1>7, <1>8 DEF MgmtNext, HandlerStep, Changes

-----------------------------------------------------------------------------
(* What a client is told of another user.                                   *)

\* A step that keeps what c hears of u, and leaves c's lists alone.
LEMMA ToldKept ==
    ASSUME NEW c, NEW u, Told(c, u), Hears(c, u)',
           \/ \A x : Shown(c, u, x)'
           \/ (Live(u) => Live(u)') /\ \A x : Shown(c, u, x) => Shown(c, u, x)',
           Live(u)' => address'[u] = address[u],
           Unheard(u)' => Unheard(u) /\ About(u, broadcast_rx'[c]) = About(u, broadcast_rx[c]),
           clients'[c].participants = clients[c].participants,
           LoggedIn(clients[c])' => LoggedIn(clients[c]),
           socket'[c] = "open" => socket[c] = "open",
           Replying(c)' => Replying(c) /\ Reply(c)' = Reply(c) /\ unvisited'[c] = unvisited[c]
    PROVE  Told(c, u)'
<1> DEFINE x == clients[c].participants[u]
           y == Reply(c).participants[u]
<1>1. ASSUME Unheard(u)'
      PROVE  /\ About(u, broadcast_rx'[c]) = {}
             /\ clients'[c].participants[u] = NoInfo
             /\ Replying(c)' => Reply(c)'.participants[u] = NoInfo
  BY <1>1 DEF Told
<1>2. ASSUME LoggedIn(clients[c])', socket'[c] = "open" PROVE Shown(c, u, clients[c].participants[u])'
  <2>1. Shown(c, u, x) /\ x' = x
    BY <1>2 DEF Told
  <2> HIDE DEF x
  <2>2. Shown(c, u, x)'
    BY <2>1 DEF Shown
  <2> QED BY <2>2 DEF x
<1>3. ASSUME Admitting(c)', Live(u)' => address'[u] \notin unvisited'[c]
      PROVE  Shown(c, u, Reply(c).participants[u])'
  <2>1. Reply(c)' = Reply(c) /\ unvisited'[c] = unvisited[c] /\ Admitting(c)
    BY <1>3 DEF Admitting
  <2>2. y' = y
    BY <2>1
  <2>3. CASE \A z : Shown(c, u, z)'
    <3> HIDE DEF y
    <3>1. Shown(c, u, y)'
      BY <2>2, <2>3 DEF Shown
    <3> QED BY <3>1 DEF y
  <2>4. CASE (Live(u) => Live(u)') /\ \A z : Shown(c, u, z) => Shown(c, u, z)'
    <3>1. Shown(c, u, y)
      BY <1>3, <2>1, <2>4 DEF Told
    <3> HIDE DEF y
    <3>2. Shown(c, u, y)'
      BY <2>2, <2>4, <3>1 DEF Shown
    <3> QED BY <3>2 DEF y
  <2> QED BY <2>3, <2>4
<1> QED BY <1>1, <1>2, <1>3 DEF Told

\* The queue does not change, nor what is heard of u; or it is not about u.
LEMMA HearsKept ==
    ASSUME NEW c, NEW u, Hears(c, u), broadcast_rx[c] \in Messages,
           \/ broadcast_rx'[c] = broadcast_rx[c]
           \/ \E m \in BroadcastMessage :
                m.packet.user_id # u /\ broadcast_rx'[c] = Append(broadcast_rx[c], m),
           address'[c] = address[c], Live(u)' <=> Live(u), Truth(u)' = Truth(u),
           Casts(effects'[u]) = Casts(effects[u])
    PROVE  /\ Hears(c, u)'
           /\ \A x : Shown(c, u, x) => Shown(c, u, x)'
           /\ About(u, broadcast_rx'[c]) = About(u, broadcast_rx[c])
<1> DEFINE q == broadcast_rx[c]
           r == broadcast_rx'[c]
           ps == Casts(effects[u])
           t == Truth(u)
<1>1. /\ About(u, r) = About(u, q) /\ \A i \in About(u, q) : r[i] = q[i]
      /\ Heard(u, ps, q, t) => Heard(u, ps, r, t)
      /\ NoFarewell(u, q) => NoFarewell(u, r)
      /\ FarewellFollows(u, ps, q) => FarewellFollows(u, ps, r)
      /\ \A x : Seen(u, ps, q, t, x) => Seen(u, ps, r, t, x)
      /\ \A x : Known(u, q, x) => Known(u, r, x)
  <2> HIDE DEF q, r, ps, t
  <2>1. CASE r = q
    BY <2>1
  <2>2. CASE \E m \in BroadcastMessage : m.packet.user_id # u /\ r = Append(q, m)
    <3>1. PICK m \in BroadcastMessage : m.packet.user_id # u /\ r = Append(q, m)
      BY <2>2
    <3>2. q \in Messages
      BY DEF q
    <3> QED BY <3>1, <3>2, OthersKept
  <2> QED BY <2>1, <2>2 DEF q, r
<1> QED BY <1>1 DEF Hears, Shown

\* u's own handler sends what it had to broadcast.
LEMMA HearsOwn ==
    ASSUME Streaming, NEW c \in UserIds, NEW u \in UserIds, Truthful(u), Hears(c, u), c # u,
           pc[c] = "running", SendBroadcast(u), lagged'[c] = "no"
    PROVE  /\ Hears(c, u)' /\ ~Unheard(u)' /\ (Live(u)' <=> Live(u))
           /\ \A x : Shown(c, u, x) => Shown(c, u, x)'
<1> DEFINE q == broadcast_rx[c]
           m == Head(effects[u]).message
           r == broadcast_rx'[c]
           ps == Casts(effects[u])
           qs == Casts(effects'[u])
           t == Truth(u)
<1>1. /\ MgmtTypeOK /\ address[c] \in Addresses /\ address[c] # NoAddress
      /\ Live(u) => address[u] # address[c]
      /\ pc[u] \in {"running", "exiting"} /\ effects[u] # <<>>
  BY StreamingFacts, ManagementAssumption DEF Live, SendBroadcast, Due
<1>2. effects[u] \in Seq(Effect) /\ q \in Messages
  BY <1>1 DEF MgmtTypeOK, Messages
<1>3. Head(effects[u]) \in Effect /\ Head(effects[u]).do = "broadcast" /\ m \in BroadcastMessage
  BY <1>1, <1>2, HeadTailProperties DEF SendBroadcast, Due, Effect
<1>4. r = Append(q, m)
  <2>1. ~Overflow(q)
    BY <1>1 DEF SendBroadcast, Subscribed, MgmtTypeOK
  <2> QED BY <2>1 DEF SendBroadcast, Subscribed, Push
<1>5. /\ UNCHANGED <<users, address, pc>> /\ effects'[u] = Tail(effects[u])
  BY <1>1 DEF SendBroadcast, MgmtTypeOK
<1>6. /\ m.packet \in ps /\ qs \subseteq ps /\ ps \subseteq qs \cup {m.packet}
  BY <1>1, <1>2, <1>3, <1>5, CastsTail
<1>7. Honest(u, m, ps)
  <2>1. 1 \in DOMAIN effects[u] /\ effects[u][1] = Head(effects[u])
    BY <1>1, <1>2, HeadTailProperties, LenProperties, EmptySeq
  <2> QED BY <1>3, <2>1 DEF Truthful
<1>8. (Live(u)' <=> Live(u)) /\ Truth(u)' = t /\ (Named(u)' <=> Named(u))
  <2>1. Self(u)' = Self(u) /\ (Live(u)' <=> Live(u))
    BY <1>5 DEF Self, Live
  <2> QED BY <2>1, TruthKept
<1>9. ~Unheard(u)'
  BY <1>1, <1>5, <1>7, <1>8 DEF Unheard, Honest
<1> HIDE DEF m, q, r, ps, qs, t
<1>10. /\ m.packet.user_id = u /\ m.exclude # address[c]
       /\ \A f \in Facets : Sets(f, m.packet) => Same(f, Said(m.packet), t)
  BY <1>1, <1>7 DEF Honest, t
<1>11. Joins(m.packet) => m.packet.username # NoName
  <2> SUFFICES ASSUME Joins(m.packet) PROVE m.packet.username # NoName
    OBVIOUS
  <2>1. Live(u) /\ Named(u) /\ Same("name", Said(m.packet), t)
    BY <1>7, <1>10 DEF Honest, Joins, Sets, Facets
  <2>2. t.username # NoName
    BY <2>1 DEF t, Truth, Named, Info
  <2> QED BY <2>1, <2>2 DEF Same, Said, Joins, Info
<1>12. Heard(u, ps, q, t) /\ Hears(c, u)
  BY DEF Hears, q, ps, t
<1>13. /\ Heard(u, qs, r, t)
       /\ NoFarewell(u, q) /\ ~Leaves(m.packet) => NoFarewell(u, r)
       /\ FarewellFollows(u, ps, q) /\ ~NeedsEntry(m.packet) => FarewellFollows(u, qs, r)
       /\ \A x : Seen(u, ps, q, t, x) => Seen(u, qs, r, t, x)
       /\ \A x : /\ Seen(u, ps, q, t, x) /\ Known(u, q, x) /\ NoFarewell(u, q)
                 /\ NeedsEntry(m.packet) => Mute("name", ps)
                 /\ t.username # NoName
                 => Known(u, r, x)
  BY <1>2, <1>3, <1>4, <1>6, <1>10, <1>12, OwnSent
<1>14. IF Live(u)' THEN NoFarewell(u, r) ELSE FarewellFollows(u, qs, r)
  <2>1. CASE Live(u)
    BY <1>7, <1>8, <1>12, <1>13, <2>1 DEF Hears, Honest, q
  <2>2. CASE ~Live(u)
    BY <1>7, <1>8, <1>12, <1>13, <2>2 DEF Hears, Honest, q, ps
  <2> QED BY <2>1, <2>2
<1>15. ASSUME NEW i \in About(u, r)
       PROVE  r[i].exclude # address[c] /\ (Joins(r[i].packet) => r[i].packet.username # NoName)
  <2>1. Extended(u, q, m, r)
    BY <1>2, <1>3, <1>4, AboutAppend
  <2>2. CASE i \in About(u, q)
    <3>1. r[i] = q[i]
      BY <2>1, <2>2 DEF Extended
    <3> QED BY <1>12, <2>2, <3>1 DEF Hears, q
  <2>3. CASE i \notin About(u, q)
    <3>1. r[i] = m
      BY <1>10, <1>15, <2>1, <2>3 DEF Extended
    <3> QED BY <1>10, <1>11, <3>1
  <2> QED BY <2>2, <2>3
<1>16. Hears(c, u)'
  BY <1>5, <1>8, <1>13, <1>14, <1>15 DEF Hears, r, qs, t
<1>17. ASSUME NEW x, Shown(c, u, x) PROVE Shown(c, u, x)'
  <2>1. Seen(u, ps, q, t, x) /\ (Live(u) => Known(u, q, x))
    BY <1>17 DEF Shown, ps, q, t
  <2>2. Live(u) => Known(u, r, x)
    <3> SUFFICES ASSUME Live(u) PROVE Known(u, r, x)
      OBVIOUS
    <3>1. NoFarewell(u, q)
      BY <1>12 DEF Hears, q
    <3>2. Named(u) /\ (NeedsEntry(m.packet) => Mute("name", ps))
      BY <1>7 DEF Honest
    <3>3. t.username # NoName
      BY <3>2 DEF t, Truth, Named, Info
    <3> QED BY <1>13, <2>1, <3>1, <3>2, <3>3
  <2>3. Seen(u, qs, r, t, x)
    BY <1>13, <2>1
  <2> QED BY <1>8, <2>2, <2>3 DEF Shown, r, qs, t
<1> QED BY <1>8, <1>9, <1>16, <1>17

\* u's entry changes, and the change is still to be broadcast.
LEMMA HearsChange ==
    ASSUME NEW c, NEW u, Hears(c, u), Change(u)
    PROVE  /\ Hears(c, u)' /\ ~Unheard(u)' /\ (Live(u)' <=> Live(u))
           /\ \A x : Shown(c, u, x) => Shown(c, u, x)'
<1> DEFINE q == broadcast_rx[c]
           ps == Casts(effects'[u])
           s == Truth(u)
           t == Truth(u)'
<1>1. /\ Live(u) /\ Live(u)' /\ Named(u)' /\ Casts(effects[u]) = {} /\ pc'[u] # "none"
      /\ UNCHANGED <<address, broadcast_rx>>
  BY CastsEmpty DEF Change, Live
<1>2. ~Unheard(u)'
  BY <1>1 DEF Unheard
<1>3. \A f \in Facets : Mute(f, ps) => Same(f, s, t)
  BY DEF Change
<1> HIDE DEF q, ps, s, t
<1>4. /\ Heard(u, {}, q, s) => Heard(u, ps, q, t)
      /\ \A x : Seen(u, {}, q, s, x) => Seen(u, ps, q, t, x)
  BY <1>3, ChangeKept
<1> QED BY <1>1, <1>2, <1>4 DEF Hears, Shown, q, ps, s, t

\* u leaves: its farewell overrules all that is known of it.
LEMMA HearsFarewell ==
    ASSUME Streaming, NEW c, NEW u \in UserIds, Hears(c, u), Disconnect(u), c # u, c \in UserIds
    PROVE  /\ Hears(c, u)' /\ ~Unheard(u)' /\ ~Live(u)'
           /\ \A x : Shown(c, u, x)'
<1> DEFINE q == broadcast_rx[c]
           ps == Casts(effects'[u])
<1>1. /\ MgmtTypeOK /\ Self(u).id = u /\ u # 0 /\ pc'[u] = "exiting"
      /\ effects'[u] = Farewell(Self(u)) /\ broadcast_rx'[c] = q /\ address' = address
  <2>1. MgmtTypeOK /\ Self(u).id = u /\ u # 0
    BY StreamingFacts DEF Disconnect, AtSelect, Live
  <2> QED BY <2>1 DEF Disconnect, MgmtTypeOK
<1>2. \E p \in ps : Leaves(p)
  <2> DEFINE s == Farewell(Self(u))
             p == PlainNews("UserLeftServer", u)
  <2>1. 1 \in DOMAIN s /\ s[1] = Cast(for_all(p))
    BY <1>1 DEF Farewell
  <2>2. s[1].do = "broadcast" /\ s[1].message.packet = p
    BY <2>1 DEF Cast, for_all
  <2> HIDE DEF s
  <2>3. p \in Casts(s)
    BY <2>1, <2>2 DEF Casts
  <2>4. Leaves(p)
    BY DEF Leaves, PlainNews
  <2> QED BY <1>1, <2>3, <2>4 DEF s
<1>3. \A f \in Facets : ~Mute(f, ps)
  BY <1>2 DEF Facets, Mute, Sets, Leaves
<1>4. ~Live(u)' /\ ~Unheard(u)'
  BY <1>1 DEF Live, Unheard
<1> HIDE DEF ps, q
<1>5. /\ \A t : Heard(u, ps, q, t)
      /\ \A t, x : Seen(u, ps, q, t, x)
      /\ FarewellFollows(u, ps, q)
  BY <1>2, <1>3 DEF Heard, Seen, FarewellFollows
<1> QED BY <1>1, <1>4, <1>5 DEF Hears, Shown, ps, q

\* A step of u, the user c is told of.
LEMMA ToldByUser ==
    ASSUME Streaming, NEW c \in UserIds, NEW u \in UserIds, c # u, Told(c, u),
           Asked(u), Truthful(u), pc[c] = "running", lagged'[c] = "no", socket'[u] # "broken",
           \/ HandlerStep(u) \/ ConnectionEnds(u)
           \/ \E kind \in RequestTypes : ClientRequest(u, kind)
    PROVE  Told(c, u)'
<1> USE DEF handlerVars, channelVars, clientVars
<1>0. /\ Shape /\ MgmtTypeOK /\ DOMAIN pc = UserIds /\ DOMAIN effects = UserIds
      /\ DOMAIN broadcast_rx = UserIds
  BY StreamingFacts DEF MgmtTypeOK
<1>1. /\ address'[c] = address[c] /\ socket'[c] = socket[c] /\ clients'[c] = clients[c]
      /\ unvisited'[c] = unvisited[c] /\ (Replying(c)' <=> Replying(c))
      /\ Reply(c)' = Reply(c)
  <2>1. Untouched(c)
    BY OthersUntouched
  <2> QED BY <2>1, UntouchedKept DEF Untouched
<1>2. Hears(c, u) /\ broadcast_rx[c] \in Messages
  BY <1>0 DEF Told, Messages, MgmtTypeOK
<1>3. ASSUME Hears(c, u)', address' = address,
             \/ \A x : Shown(c, u, x)'
             \/ (Live(u) => Live(u)') /\ \A x : Shown(c, u, x) => Shown(c, u, x)',
             Unheard(u)' => Unheard(u) /\ About(u, broadcast_rx'[c]) = About(u, broadcast_rx[c])
      PROVE  Told(c, u)'
  <2>1. /\ clients'[c].participants = clients[c].participants
        /\ LoggedIn(clients[c])' => LoggedIn(clients[c])
    BY <1>1 DEF LoggedIn
  <2> QED BY <1>1, <1>3, <2>1, ToldKept
<1>4. ASSUME broadcast_rx'[c] = broadcast_rx[c], address' = address, Live(u)' <=> Live(u),
             Live(u) => Self(u)' = Self(u), Casts(effects'[u]) = Casts(effects[u]),
             pc'[u] = "none" => pc[u] = "none"
      PROVE  Told(c, u)'
  <2>1. (Named(u)' <=> Named(u)) /\ Truth(u)' = Truth(u)
    BY <1>4, TruthKept
  <2>2. Unheard(u)' => Unheard(u)
    BY <1>4, <2>1 DEF Unheard
  <2>3. /\ Hears(c, u)' /\ About(u, broadcast_rx'[c]) = About(u, broadcast_rx[c])
        /\ \A x : Shown(c, u, x) => Shown(c, u, x)'
    BY <1>1, <1>2, <1>4, <2>1, HearsKept
  <2> QED BY <1>3, <1>4, <2>2, <2>3
<1>5. ASSUME UNCHANGED <<users, address>>, broadcast_rx'[c] = broadcast_rx[c],
             Live(u)' <=> Live(u), Casts(effects'[u]) = Casts(effects[u]),
             pc'[u] = "none" => pc[u] = "none"
      PROVE  Told(c, u)'
  BY <1>4, <1>5 DEF Self
<1>6. ASSUME Start(u) \/ Exit(u) PROVE Told(c, u)'
  BY <1>0, <1>5, <1>6 DEF Start, Exit, Live
<1>7. ASSUME Read(u) \/ DeliverBroadcast(u) \/ NoticeLag(u) PROVE Told(c, u)'
  BY <1>0, <1>5, <1>7 DEF Read, DeliverBroadcast, NoticeLag, Live
<1>8. ASSUME \/ ConnectionEnds(u) \/ \E kind \in RequestTypes : ClientRequest(u, kind)
      PROVE  Told(c, u)'
  BY <1>0, <1>5, <1>8 DEF ConnectionEnds, ClientClose, ConnectionBreaks, ClientRequest, Live
<1>9. ASSUME BroadcastWriteFails(u) PROVE Told(c, u)'
  BY <1>9 DEF BroadcastWriteFails, CanWrite
<1>10. ASSUME SendEvent(u) \/ WriteResponse(u) PROVE Told(c, u)'
  <2>1. /\ UNCHANGED <<users, address, pc, broadcast_rx>> /\ effects[u] # <<>>
        /\ effects'[u] = Tail(effects[u]) /\ Head(effects[u]).do # "broadcast"
    BY <1>0, <1>10 DEF SendEvent, WriteResponse, Due, CanWrite
  <2>2. Casts(effects'[u]) = Casts(effects[u])
    BY <1>0, <2>1, CastsTail DEF MgmtTypeOK
  <2> QED BY <1>5, <2>1, <2>2 DEF Live
<1>11. ASSUME RejectLogin(u) \/ HandlePing(u) PROVE Told(c, u)'
  <2>1. PICK p : effects'[u] = <<Write(p)>>
    BY <1>0, <1>11 DEF RejectLogin, HandlePing
  <2>2. effects[u] = <<>> /\ UNCHANGED <<users, address, pc, broadcast_rx>>
    BY <1>11 DEF RejectLogin, HandlePing, Handles
  <2>3. Casts(effects[u]) = {}
    BY <2>2, CastsEmpty
  <2> DEFINE rest == <<Write(p)>>
  <2>4. \A i \in DOMAIN rest : rest[i].do # "broadcast"
    BY DEF Write
  <2>5. effects'[u] = rest
    BY <2>1
  <2> HIDE DEF rest
  <2>6. Casts(effects'[u]) = {}
    BY <2>4, <2>5 DEF Casts
  <2> QED BY <1>5, <2>2, <2>3, <2>6 DEF Live
<1>12. ASSUME NEW a \in Addresses, Collect(u, a) PROVE Told(c, u)'
  <2>1. Casts(effects'[u]) = Casts(effects[u])
    BY <1>0, <1>12, CollectMeans
  <2>2. UNCHANGED <<users, address, pc, broadcast_rx>>
    BY <1>12 DEF Collect
  <2> QED BY <1>5, <2>1, <2>2 DEF Live
<1>13. ASSUME SendBroadcast(u) PROVE Told(c, u)'
  <2>1. /\ Hears(c, u)' /\ ~Unheard(u)' /\ (Live(u)' <=> Live(u))
        /\ \A x : Shown(c, u, x) => Shown(c, u, x)'
    BY <1>2, <1>13, HearsOwn
  <2>2. address' = address
    BY <1>13 DEF SendBroadcast
  <2> QED BY <1>3, <2>1, <2>2
<1>14. ASSUME Changes(u) PROVE Told(c, u)'
  <2>1. Change(u)
    BY <1>14, ChangesMean
  <2>2. /\ Hears(c, u)' /\ ~Unheard(u)' /\ (Live(u)' <=> Live(u))
        /\ \A x : Shown(c, u, x) => Shown(c, u, x)'
    BY <1>2, <2>1, HearsChange
  <2>3. address' = address
    BY <2>1 DEF Change
  <2> QED BY <1>3, <2>2, <2>3
<1>15. ASSUME Disconnect(u) PROVE Told(c, u)'
  <2>1. /\ Hears(c, u)' /\ ~Unheard(u)' /\ (\A x : Shown(c, u, x)')
    BY <1>2, <1>15, HearsFarewell
  <2>2. address' = address
    BY <1>15 DEF Disconnect
  <2> QED BY <1>3, <2>1, <2>2
<1> QED
  BY <1>6, <1>7, <1>8, <1>9, <1>10, <1>11, <1>12, <1>13, <1>14, <1>15
     DEF HandlerStep, Changes

\* Only a broadcast puts something into the queue of another client.
LEMMA QueueUnsent ==
    ASSUME Streaming, NEW h \in UserIds, NEW c \in UserIds, c # h, ~SendBroadcast(h),
           \/ HandlerStep(h) \/ ConnectionEnds(h)
           \/ \E kind \in RequestTypes : ClientRequest(h, kind)
    PROVE  broadcast_rx'[c] = broadcast_rx[c]
<1> USE DEF handlerVars, channelVars, clientVars
<1>0. MgmtTypeOK /\ DOMAIN broadcast_rx = UserIds
  BY StreamingFacts DEF MgmtTypeOK
<1>1. CASE HandlerStep(h)
  <2>1. CASE \/ Start(h) \/ Exit(h) \/ SendEvent(h) \/ WriteResponse(h) \/ RejectLogin(h)
             \/ (\E a \in Addresses : Collect(h, a)) \/ HandlePing(h) \/ Read(h) \/ NoticeLag(h)
    BY <2>1 DEF Start, Exit, SendEvent, WriteResponse, RejectLogin, Collect, HandlePing, Read,
                NoticeLag
  <2>2. CASE Changes(h)
    BY <2>2 DEF Changes, HandleLogin, HandleJoinVoiceChannel, HandleLeaveVoiceChannel,
                HandleChatMessage, HandleUserMuteState, Handling
  <2>3. CASE Disconnect(h) \/ DeliverBroadcast(h) \/ BroadcastWriteFails(h)
    BY <1>0, <2>3 DEF Disconnect, DeliverBroadcast, BroadcastWriteFails
  <2> QED BY <1>1, <2>1, <2>2, <2>3 DEF HandlerStep, Changes
<1>2. CASE \/ ConnectionEnds(h) \/ \E kind \in RequestTypes : ClientRequest(h, kind)
  BY <1>2 DEF ConnectionEnds, ClientClose, ConnectionBreaks, ClientRequest
<1> QED BY <1>1, <1>2

\* What becomes of a client's queue in another connection's step.
LEMMA QueueKept ==
    ASSUME Streaming, NEW h \in UserIds, Truthful(h), NEW c \in UserIds, c # h,
           pc[c] = "running", lagged'[c] = "no",
           \/ HandlerStep(h) \/ ConnectionEnds(h)
           \/ \E kind \in RequestTypes : ClientRequest(h, kind)
    PROVE  \/ broadcast_rx'[c] = broadcast_rx[c]
           \/ \E m \in BroadcastMessage :
                m.packet.user_id = h /\ broadcast_rx'[c] = Append(broadcast_rx[c], m)
<1>0. MgmtTypeOK
  BY StreamingFacts
<1>1. ASSUME SendBroadcast(h)
      PROVE  \E m \in BroadcastMessage :
                m.packet.user_id = h /\ broadcast_rx'[c] = Append(broadcast_rx[c], m)
  <2> DEFINE m == Head(effects[h]).message
  <2>1. effects[h] \in Seq(Effect) /\ effects[h] # <<>> /\ Head(effects[h]).do = "broadcast"
    BY <1>0, <1>1 DEF SendBroadcast, Due, MgmtTypeOK
  <2>2. m \in BroadcastMessage /\ 1 \in DOMAIN effects[h] /\ effects[h][1] = Head(effects[h])
    BY <2>1, HeadTailProperties, LenProperties, EmptySeq DEF Effect
  <2>3. Honest(h, m, Casts(effects[h]))
    BY <2>1, <2>2 DEF Truthful
  <2>4. ~Overflow(broadcast_rx[c])
    BY <1>0, <1>1 DEF SendBroadcast, Subscribed, MgmtTypeOK
  <2>5. broadcast_rx'[c] = Append(broadcast_rx[c], m)
    BY <1>1, <2>4 DEF SendBroadcast, Subscribed, Push
  <2> QED BY <2>2, <2>3, <2>5 DEF Honest
<1> QED BY <1>1, QueueUnsent

\* A step of a third connection.
LEMMA ToldByOther ==
    ASSUME Streaming, NEW c, NEW u, Told(c, u), broadcast_rx[c] \in Messages,
           Untouched(c), Untouched(u),
           \/ broadcast_rx'[c] = broadcast_rx[c]
           \/ \E m \in BroadcastMessage :
                m.packet.user_id # u /\ broadcast_rx'[c] = Append(broadcast_rx[c], m)
    PROVE  Told(c, u)'
<1>1. /\ address'[c] = address[c] /\ socket'[c] = socket[c] /\ clients'[c] = clients[c]
      /\ unvisited'[c] = unvisited[c] /\ (Replying(c)' <=> Replying(c))
      /\ Reply(c)' = Reply(c)
  BY UntouchedKept DEF Untouched
<1>2. /\ (Live(u)' <=> Live(u)) /\ Truth(u)' = Truth(u)
      /\ Casts(effects'[u]) = Casts(effects[u]) /\ (Unheard(u)' <=> Unheard(u))
  BY UntouchedKept
<1>3. address'[u] = address[u]
  BY DEF Untouched
<1>4. /\ Hears(c, u)' /\ About(u, broadcast_rx'[c]) = About(u, broadcast_rx[c])
      /\ \A x : Shown(c, u, x) => Shown(c, u, x)'
  <2>1. Hears(c, u)
    BY DEF Told
  <2> QED BY <1>1, <1>2, <2>1, HearsKept
<1>5. /\ clients'[c].participants = clients[c].participants
      /\ LoggedIn(clients[c])' => LoggedIn(clients[c])
  BY <1>1 DEF LoggedIn
<1> QED BY <1>1, <1>2, <1>3, <1>4, <1>5, ToldKept

\* A new connection: nobody has heard of its user.
LEMMA ToldByAccept ==
    ASSUME PortReuse = FALSE, Streaming, NEW a \in Addresses, Accept(a),
           NEW c \in UserIds, NEW u \in UserIds, c # u, Told(c, u), pc'[c] = "running"
    PROVE  Told(c, u)'
<1> DEFINE n == next_user_id
<1>0. MgmtTypeOK /\ DOMAIN pc = UserIds
  BY StreamingFacts DEF MgmtTypeOK
<1>1. n \in UserIds /\ pc[n] = "none" /\ (\A k \in UserIds : k # n => Untouched(k))
  BY AcceptUntouches
<1>2. /\ users' = [users EXCEPT ![a] = NewUser(n)] /\ pc' = [pc EXCEPT ![n] = "spawned"]
      /\ address' = [address EXCEPT ![n] = a] /\ broadcast_rx' = broadcast_rx
      /\ effects' = effects /\ clients' = clients
  BY DEF Accept, Registered, channelVars
<1> HIDE DEF n
<1>3. c # n /\ Untouched(c) /\ broadcast_rx[c] \in Messages
  <2>1. c # n
    BY <1>0, <1>1, <1>2
  <2> QED BY <1>0, <1>1, <2>1 DEF Messages, MgmtTypeOK
<1>4. CASE u # n
  <2>1. Untouched(u)
    BY <1>1, <1>4
  <2> QED BY <1>2, <1>3, <2>1, ToldByOther
<1>5. CASE u = n
  <2>1. /\ address'[c] = address[c] /\ (Replying(c)' <=> Replying(c)) /\ Reply(c)' = Reply(c)
    BY <1>3, UntouchedKept DEF Untouched
  <2>2. /\ About(u, broadcast_rx[c]) = {} /\ clients[c].participants[u] = NoInfo
        /\ Replying(c) => Reply(c).participants[u] = NoInfo
    BY <1>1, <1>5 DEF Told, Unheard
  <2>3. Live(u)' /\ ~Named(u)' /\ Truth(u)' = NoInfo
    <3>1. Self(u)' = NewUser(u) /\ Live(u)'
      BY <1>0, <1>1, <1>2, <1>5 DEF Self, Live, MgmtTypeOK
    <3>2. NewUser(u).username = NoName
      BY DEF NewUser, NoUser
    <3> QED BY <3>1, <3>2 DEF Named, Truth
  <2> DEFINE q == broadcast_rx[c]
             ps == Casts(effects[u])
  <2>4. About(u, q) = {}
    BY <2>2
  <2> HIDE DEF q, ps
  <2>5. Heard(u, ps, q, NoInfo) /\ NoFarewell(u, q) /\ Seen(u, ps, q, NoInfo, NoInfo)
        /\ Known(u, q, NoInfo)
    BY <2>4, NothingSaid
  <2> USE DEF q, ps
  <2>6. Hears(c, u)'
    BY <1>2, <2>2, <2>3, <2>5 DEF Hears
  <2>7. broadcast_rx'[c] = q /\ effects'[u] = effects[u]
    BY <1>2
  <2>8. ASSUME NEW x, x = NoInfo PROVE Shown(c, u, x)'
    BY <2>3, <2>5, <2>7, <2>8 DEF Shown
  <2>9. clients'[c].participants[u] = NoInfo
    BY <1>2, <2>2
  <2>10. Replying(c)' => Reply(c)'.participants[u] = NoInfo
    BY <2>1, <2>2
  <2>11. Admitting(c)' => Shown(c, u, Reply(c).participants[u])'
    BY <2>3, <2>5, <2>7, <2>10 DEF Shown, Admitting
  <2>12. Shown(c, u, clients[c].participants[u])'
    BY <2>3, <2>5, <2>7, <2>9 DEF Shown
  <2> QED BY <1>2, <2>2, <2>6, <2>9, <2>10, <2>11, <2>12 DEF Told
<1> QED BY <1>4, <1>5

\* c's handler takes a message from its receiver.
LEMMA ToldDelivered ==
    ASSUME Streaming, NEW c \in UserIds, NEW u \in UserIds, c # u, Told(c, u), Untouched(u),
           DeliverBroadcast(c)
    PROVE  Told(c, u)'
<1> USE DEF handlerVars
<1> DEFINE q == broadcast_rx[c]
           r == Tail(q)
           p == Head(q).packet
           ps == Casts(effects[u])
           t == Truth(u)
           list == clients[c].participants
<1>1. /\ MgmtTypeOK /\ q \in Messages /\ q # <<>> /\ effects[c] = <<>> /\ list \in Participants
      /\ p \in News /\ clients[c] \in Client
  <2>1. MgmtTypeOK /\ q \in Messages /\ q # <<>> /\ effects[c] = <<>> /\ clients[c] \in Client
    BY StreamingFacts DEF DeliverBroadcast, HasBroadcast, AtSelect, MgmtTypeOK, Messages
  <2>2. Head(q) \in BroadcastMessage
    BY <2>1, HeadTailProperties DEF Messages
  <2> QED BY <2>1, <2>2 DEF BroadcastMessage, Client
<1>2. /\ broadcast_rx'[c] = r /\ effects' = effects /\ UNCHANGED <<address, socket, pc, users>>
      /\ clients'[c] = IF should_send_to(Head(q), address[c]) /\ Reaches(c)
                       THEN ReceiveNews(clients[c], p) ELSE clients[c]
  BY <1>1 DEF DeliverBroadcast, MgmtTypeOK
<1>3. /\ (Live(u)' <=> Live(u)) /\ Truth(u)' = t /\ Casts(effects'[u]) = ps
      /\ (Unheard(u)' <=> Unheard(u))
  BY UntouchedKept
<1>4. ~Replying(c) /\ ~Replying(c)' /\ ~Admitting(c)'
  BY <1>1, <1>2 DEF Replying, Admitting
<1>5. Hears(c, u)
  BY DEF Told
<1> HIDE DEF q, p, ps, t, list, r
<1>6. /\ Heard(u, ps, q, t)
      /\ \A i \in About(u, q) : /\ q[i].exclude # address[c]
                                /\ Joins(q[i].packet) => q[i].packet.username # NoName
      /\ IF Live(u) THEN NoFarewell(u, q) ELSE FarewellFollows(u, ps, q)
  BY <1>5 DEF Hears, q, ps, t
<1>7. /\ Heard(u, ps, r, t)
      /\ NoFarewell(u, q) => NoFarewell(u, r)
      /\ FarewellFollows(u, ps, q) => FarewellFollows(u, ps, r)
  BY <1>1, <1>6, ReceivedKept DEF r
<1>8. \A i \in About(u, r) : i + 1 \in About(u, q) /\ r[i] = q[i + 1]
  <2>1. Shifted(u, q, r)
    BY <1>1, TailDown DEF r
  <2> QED BY <2>1 DEF Shifted
<1>9. \A i \in About(u, r) : /\ r[i].exclude # address[c]
                             /\ Joins(r[i].packet) => r[i].packet.username # NoName
  BY <1>6, <1>8
<1>10. Hears(c, u)'
  BY <1>2, <1>3, <1>6, <1>7, <1>9 DEF Hears

\* What becomes of the entry: the packet is applied to it, or is not about u.
<1>11. /\ p.user_id = u => 1 \in About(u, q) /\ q[1] = Head(q)
       /\ p.user_id # u => ApplyNews(list, p)[u] = list[u]
  <2>1. p.user_id = u => 1 \in About(u, q) /\ q[1] = Head(q)
    BY <1>1, TailUp DEF p
  <2>2. p.user_id # u => ApplyNews(list, p)[u] = list[u]
    BY <1>1, ApplyFacts
  <2> QED BY <2>1, <2>2
<1>12. /\ clients'[c].user_id = clients[c].user_id
       /\ clients'[c].participants \in {list, ApplyNews(list, p)}
       /\ should_send_to(Head(q), address[c]) /\ Reaches(c)
            => clients'[c].participants = ApplyNews(list, p)
  BY <1>1, <1>2 DEF ReceiveNews, Client, list
<1>13. socket[c] = "open" => clients'[c].participants[u] = ApplyNews(list, p)[u]
  <2>1. CASE p.user_id # u
    BY <1>11, <1>12, <2>1
  <2>2. CASE p.user_id = u
    <3>1. should_send_to(Head(q), address[c])
      BY <1>6, <1>11, <2>2 DEF should_send_to
    <3> QED BY <1>12, <3>1 DEF Reaches
  <2> QED BY <2>1, <2>2
<1>14. ASSUME Unheard(u)'
       PROVE  About(u, r) = {} /\ clients'[c].participants[u] = NoInfo
  <2>1. About(u, q) = {} /\ list[u] = NoInfo
    BY <1>3, <1>14 DEF Told, q, list
  <2>2. About(u, r) = {}
    BY <1>8, <2>1
  <2>3. ApplyNews(list, p)[u] = NoInfo
    BY <1>11, <2>1
  <2> QED BY <1>12, <2>1, <2>2, <2>3
<1>15. ASSUME LoggedIn(clients[c])', socket'[c] = "open"
       PROVE  Shown(c, u, clients[c].participants[u])'
  <2> DEFINE x == list[u]
             y == ApplyNews(list, p)[u]
  <2>1. Shown(c, u, x)
    BY <1>2, <1>12, <1>15 DEF Told, LoggedIn, list
  <2>2. Seen(u, ps, q, t, x) /\ (Live(u) => Known(u, q, x))
    BY <2>1 DEF Shown, q, ps, t
  <2>3. /\ FarewellFollows(u, ps, q) \/ Known(u, q, x) => Seen(u, ps, r, t, y)
        /\ Known(u, q, x) /\ NoFarewell(u, q) => Known(u, r, y)
    <3>1. y = ApplyNews(list, Head(q).packet)[u]
      BY DEF p
    <3> HIDE DEF x, y
    <3>2. /\ FarewellFollows(u, ps, q) \/ Known(u, q, x) => Seen(u, ps, Tail(q), t, y)
          /\ /\ Known(u, q, x) /\ NoFarewell(u, q)
             /\ \A i \in About(u, q) : Joins(q[i].packet) => q[i].packet.username # NoName
             => Known(u, Tail(q), y)
      BY <1>1, <1>6, <2>2, <3>1, ReceivedShows DEF x
    <3>3. \A i \in About(u, q) : Joins(q[i].packet) => q[i].packet.username # NoName
      BY <1>6
    <3> QED BY <3>2, <3>3 DEF r
  <2>4. clients'[c].participants[u] = y
    BY <1>2, <1>13, <1>15
  <2> HIDE DEF x, y
  <2>5. Seen(u, ps, r, t, y) /\ (Live(u) => Known(u, r, y))
    BY <1>6, <2>2, <2>3
  <2> QED BY <1>2, <1>3, <2>4, <2>5 DEF Shown
<1> QED BY <1>2, <1>4, <1>10, <1>14, <1>15 DEF Told

\* c's handler visits an entry of the map.
LEMMA ToldCollected ==
    ASSUME Streaming, Entries, NEW c \in UserIds, NEW u \in UserIds, c # u, Told(c, u),
           Truthful(c), socket[u] # "broken", NEW a \in Addresses, Collect(c, a), Untouched(u)
    PROVE  Told(c, u)'
<1> USE DEF handlerVars, channelVars, clientVars
<1> DEFINE v == users[a]
           x == Reply(c).participants[u]
           y == Reply(c)'.participants[u]
<1>0. /\ Shape /\ MgmtTypeOK /\ DOMAIN unvisited = UserIds
      /\ Live(u) => Self(u).id = u /\ address[u] \in Addresses
  BY StreamingFacts DEF MgmtTypeOK
<1>1. /\ Admitting(c) /\ Admitting(c)' /\ Reply(c) \in Response /\ v \in User
      /\ Reply(c)'.participants =
           IF v.username = NoName THEN Reply(c).participants
           ELSE [Reply(c).participants EXCEPT ![v.id] = Info(v.username, v.in_voice, v.is_muted)]
  BY <1>0, CollectMeans
<1>2. /\ UNCHANGED <<users, address, pc, broadcast_rx, socket, clients>>
      /\ unvisited'[c] = unvisited[c] \ {a}
  BY <1>0 DEF Collect
<1>3. /\ (Live(u)' <=> Live(u)) /\ Truth(u)' = Truth(u) /\ (Unheard(u)' <=> Unheard(u))
      /\ Casts(effects'[u]) = Casts(effects[u])
  BY UntouchedKept
<1>4. /\ Hears(c, u)' /\ \A z : Shown(c, u, z) => Shown(c, u, z)'
  <2>1. Hears(c, u) /\ broadcast_rx[c] \in Messages
    BY <1>0 DEF Told, Messages, MgmtTypeOK
  <2> QED BY <1>2, <1>3, <2>1, HearsKept

\* Only its own entry says something of u.
<1>5. \/ y = x /\ (Live(u) /\ address[u] = a => Unheard(u))
      \/ Live(u) /\ address[u] = a /\ Named(u) /\ y = Truth(u)
  <2>1. CASE v.username = NoName
    <3>1. Live(u) /\ address[u] = a => Unheard(u)
      BY <2>1 DEF Unheard, Named, Self
    <3> QED BY <1>1, <2>1, <3>1
  <2>2. CASE v.username # NoName
    <3>1. /\ v.id \in UserIds /\ address[v.id] = a
          /\ Live(v.id) \/ socket[v.id] = "broken"
      BY <2>2 DEF Entries, Entry
    <3>2. CASE v.id = u
      <4>1. Live(u) /\ Self(u) = v
        BY <3>1, <3>2 DEF Self
      <4>2. Truth(u) = Info(v.username, v.in_voice, v.is_muted) /\ Named(u)
        BY <2>2, <4>1 DEF Truth, Named
      <4>3. Reply(c).participants \in Participants
        BY <1>1 DEF Response
      <4>4. y = Info(v.username, v.in_voice, v.is_muted)
        BY <1>1, <2>2, <3>2, <4>3 DEF Participants
      <4> QED BY <3>1, <3>2, <4>1, <4>2, <4>4
    <3>3. CASE v.id # u
      <4>1. ~(Live(u) /\ address[u] = a)
        BY <1>0, <3>3 DEF Self
      <4>2. y = x
        <5>1. Reply(c).participants \in Participants
          BY <1>1 DEF Response
        <5> QED BY <1>1, <2>2, <3>3, <5>1 DEF Participants
      <4> QED BY <4>1, <4>2
    <3> QED BY <3>2, <3>3
  <2> QED BY <2>1, <2>2
<1>6. ASSUME Live(u) => address[u] \notin unvisited[c] \ {a}
      PROVE  Shown(c, u, y)
  <2>1. CASE Live(u) /\ address[u] = a /\ Named(u) /\ y = Truth(u)
    <3>1. Truth(u).username # NoName
      BY <2>1 DEF Truth, Named, Info
    <3> QED BY <2>1, <3>1, TruthShown DEF Shown
  <2>2. CASE Unheard(u) /\ y = x
    <3>1. y = NoInfo /\ About(u, broadcast_rx[c]) = {} /\ Truth(u) = NoInfo
      BY <1>1, <2>2 DEF Told, Admitting, Unheard, Truth, Named, Live
    <3> QED BY <3>1, NothingSaid DEF Shown
  <2>3. CASE y = x /\ ~(Live(u) /\ address[u] = a)
    <3>1. Live(u) => address[u] \notin unvisited[c]
      BY <1>6, <2>3
    <3> QED BY <1>1, <2>3, <3>1 DEF Told
  <2> QED BY <1>5, <2>1, <2>2, <2>3
<1>7. ASSUME Live(u)' => address'[u] \notin unvisited'[c]
      PROVE  Shown(c, u, Reply(c).participants[u])'
  <2>1. Shown(c, u, y)
    BY <1>2, <1>3, <1>6, <1>7
  <2>2. y = Reply(c)'.participants[u]
    OBVIOUS
  <2> HIDE DEF y
  <2>3. /\ Seen(u, Casts(effects'[u]), broadcast_rx'[c], Truth(u)', y)
        /\ Live(u)' => Known(u, broadcast_rx'[c], y)
    BY <1>2, <1>3, <2>1 DEF Shown
  <2> QED BY <2>2, <2>3 DEF Shown
<1>8. ASSUME Unheard(u)'
      PROVE  /\ About(u, broadcast_rx'[c]) = {} /\ clients'[c].participants[u] = NoInfo
             /\ Reply(c)'.participants[u] = NoInfo
  <2>1. /\ Unheard(u) /\ About(u, broadcast_rx[c]) = {} /\ clients[c].participants[u] = NoInfo
        /\ Reply(c).participants[u] = NoInfo
    BY <1>1, <1>3, <1>8 DEF Told, Admitting
  <2>2. ~Named(u)
    BY <2>1 DEF Unheard, Named, Live
  <2> QED BY <1>2, <1>5, <2>1, <2>2
<1>9. ASSUME LoggedIn(clients[c])', socket'[c] = "open"
      PROVE  Shown(c, u, clients[c].participants[u])'
  <2> DEFINE z == clients[c].participants[u]
  <2>1. Shown(c, u, z) /\ z' = z
    BY <1>2, <1>9 DEF Told
  <2> HIDE DEF z
  <2>2. Shown(c, u, z)'
    BY <1>4, <2>1 DEF Shown
  <2> QED BY <2>2 DEF z
<1> QED BY <1>4, <1>7, <1>8, <1>9 DEF Told

\* A step of c, the client that is told.
LEMMA ToldByClient ==
    ASSUME Streaming, Entries, NEW c \in UserIds, NEW u \in UserIds, c # u,
           Asked(c), Truthful(c), pc[c] # "running" => broadcast_rx[c] = <<>>,
           pc[c] = "running" /\ lagged[c] = "no" => Told(c, u),
           pc'[c] = "running", lagged'[c] = "no", socket[u] # "broken",
           \/ HandlerStep(c) \/ ConnectionEnds(c)
           \/ \E kind \in RequestTypes : ClientRequest(c, kind)
    PROVE  Told(c, u)'
<1> USE DEF handlerVars, channelVars, clientVars
<1>0. /\ Shape /\ MgmtTypeOK /\ Untouched(u) /\ broadcast_rx[c] \in Messages
      /\ DOMAIN pc = UserIds /\ DOMAIN clients = UserIds /\ DOMAIN effects = UserIds
      /\ DOMAIN unvisited = UserIds /\ DOMAIN lagged = UserIds /\ DOMAIN socket = UserIds
      /\ clients[c] \in Client
  BY StreamingFacts, OthersUntouched DEF MgmtTypeOK, Messages
<1>1. /\ (Live(u)' <=> Live(u)) /\ Truth(u)' = Truth(u) /\ (Unheard(u)' <=> Unheard(u))
      /\ Casts(effects'[u]) = Casts(effects[u]) /\ address'[u] = address[u]
  BY <1>0, UntouchedKept DEF Untouched
<1>n. \A k \in UserIds : Nobody[k] = NoInfo
  BY DEF Nobody

\* As long as the queue gets nothing about u ...
<1>2. ASSUME Told(c, u), address' = address,
             \/ broadcast_rx'[c] = broadcast_rx[c]
             \/ \E m \in BroadcastMessage :
                  m.packet.user_id # u /\ broadcast_rx'[c] = Append(broadcast_rx[c], m)
      PROVE  /\ Hears(c, u)' /\ About(u, broadcast_rx'[c]) = About(u, broadcast_rx[c])
             /\ \A x : Shown(c, u, x) => Shown(c, u, x)'
  <2>1. Hears(c, u)
    BY <1>2 DEF Told
  <2> QED BY <1>0, <1>1, <1>2, <2>1, HearsKept

\* ... and c's lists stay as they are.
<1>3. ASSUME Told(c, u), address' = address,
             \/ broadcast_rx'[c] = broadcast_rx[c]
             \/ \E m \in BroadcastMessage :
                  m.packet.user_id # u /\ broadcast_rx'[c] = Append(broadcast_rx[c], m),
             clients'[c].participants = clients[c].participants,
             clients'[c].user_id = clients[c].user_id,
             socket'[c] = "open" => socket[c] = "open",
             Replying(c)' => effects' = effects /\ unvisited' = unvisited
      PROVE  Told(c, u)'
  <2>1. /\ Hears(c, u)' /\ About(u, broadcast_rx'[c]) = About(u, broadcast_rx[c])
        /\ \A x : Shown(c, u, x) => Shown(c, u, x)'
    BY <1>2, <1>3
  <2>2. Replying(c)' => Replying(c) /\ Reply(c)' = Reply(c) /\ unvisited'[c] = unvisited[c]
    BY <1>3 DEF Replying, Reply
  <2>3. LoggedIn(clients[c])' => LoggedIn(clients[c])
    BY <1>3 DEF LoggedIn
  <2> QED BY <1>1, <1>3, <2>1, <2>2, <2>3, ToldKept
<1>4. ASSUME Start(c) PROVE Told(c, u)'
  <2>1. /\ pc[c] = "spawned" /\ broadcast_rx' = broadcast_rx /\ clients' = clients
        /\ effects' = effects /\ address' = address
    BY <1>4 DEF Start
  <2>2. effects[c] = <<>>
    BY <2>1, StreamingFacts
  <2>3. broadcast_rx'[c] = <<>> /\ ~Replying(c)' /\ ~Admitting(c)'
    BY <2>1, <2>2 DEF Replying, Admitting
  <2>4. clients'[c].participants[u] = NoInfo /\ ~LoggedIn(clients[c])'
    BY <1>n, <2>1 DEF Asked, LoggedIn
  <2>5. About(u, broadcast_rx'[c]) = {}
    BY <2>3 DEF About
  <2>6. Hears(c, u)'
    BY <2>5, NothingSaid DEF Hears
  <2> QED BY <2>3, <2>4, <2>5, <2>6 DEF Told
<1>5. ASSUME Exit(c) \/ Disconnect(c) \/ BroadcastWriteFails(c) PROVE FALSE
  BY <1>0, <1>5 DEF Exit, Disconnect, BroadcastWriteFails
<1>6. ASSUME NoticeLag(c) PROVE FALSE
  BY <1>0, <1>6 DEF NoticeLag
<1>7. ASSUME SendEvent(c) PROVE Told(c, u)'
  <2>1. /\ pc'[c] = pc[c] /\ lagged' = lagged /\ broadcast_rx' = broadcast_rx
        /\ UNCHANGED <<address, clients, socket>>
        /\ effects[c] # <<>> /\ effects'[c] = Tail(effects[c])
    BY <1>0, <1>7 DEF SendEvent, Due
  <2>2. ~Replying(c)'
    BY <1>0, <2>1, NoReplyLeft
  <2> QED BY <1>3, <2>1, <2>2
<1>8. ASSUME SendBroadcast(c) PROVE Told(c, u)'
  <2> DEFINE m == Head(effects[c]).message
  <2>1. /\ pc' = pc /\ UNCHANGED <<address, clients, socket>>
        /\ effects[c] # <<>> /\ effects'[c] = Tail(effects[c])
        /\ Head(effects[c]).do = "broadcast"
    BY <1>0, <1>8 DEF SendBroadcast, Due
  <2>2. ~Replying(c)'
    BY <1>0, <2>1, NoReplyLeft
  <2>3. effects[c] \in Seq(Effect) /\ DOMAIN broadcast_rx = UserIds
    BY <1>0 DEF MgmtTypeOK
  <2>4. m \in BroadcastMessage /\ 1 \in DOMAIN effects[c] /\ effects[c][1] = Head(effects[c])
    BY <2>1, <2>3, HeadTailProperties, LenProperties, EmptySeq DEF Effect
  <2>5. m.packet.user_id # u
    BY <2>1, <2>4 DEF Truthful, Honest
  <2>6. ~Overflow(broadcast_rx[c]) /\ lagged[c] = "no"
    BY <1>8, <2>1 DEF SendBroadcast, Subscribed
  <2>7. broadcast_rx'[c] = Append(broadcast_rx[c], m)
    BY <1>8, <2>1, <2>6 DEF SendBroadcast, Subscribed, Push
  <2> HIDE DEF m
  <2>8. Told(c, u)
    BY <2>1, <2>6
  <2> QED BY <1>3, <2>1, <2>2, <2>4, <2>5, <2>7, <2>8
<1>9. ASSUME WriteResponse(c) PROVE Told(c, u)'
  <2>1. /\ pc' = pc /\ lagged' = lagged /\ broadcast_rx' = broadcast_rx
        /\ UNCHANGED <<address, socket>>
        /\ effects[c] # <<>> /\ effects'[c] \in {Tail(effects[c]), <<>>}
        /\ Head(effects[c]).do = "write" /\ unvisited[c] = {}
        /\ clients'[c] = IF Reaches(c) THEN ReceiveResponse(clients[c], Reply(c))
                         ELSE clients[c]
    BY <1>0, <1>9 DEF WriteResponse, Due, Reply
  <2>2. ~Replying(c)' /\ Told(c, u)
    BY <1>0, <2>1, NoReplyLeft
  <2>3. Reply(c) \in Response
    <3>1. Head(effects[c]) \in Effect
      BY <1>0, <2>1 DEF MgmtTypeOK
    <3> QED BY <2>1, <3>1 DEF Effect, Reply
  <2>4. CASE ~(Replying(c) /\ Reaches(c))
    <3>1. /\ clients'[c].user_id = clients[c].user_id
          /\ clients'[c].participants = clients[c].participants
      BY <1>0, <2>1, <2>3, <2>4 DEF Replying, Reply, ReceiveResponse, Client
    <3> QED BY <1>3, <2>1, <2>2, <3>1
  <2>5. CASE Replying(c) /\ Reaches(c)
    <3>1. /\ clients'[c].user_id = Reply(c).id
          /\ clients'[c].participants = Reply(c).participants
      BY <1>0, <2>1, <2>3, <2>5 DEF Replying, Reply, ReceiveResponse, Client
    <3>2. /\ Hears(c, u)' /\ About(u, broadcast_rx'[c]) = About(u, broadcast_rx[c])
          /\ \A x : Shown(c, u, x) => Shown(c, u, x)'
      BY <1>2, <2>1, <2>2
    <3>3. ASSUME LoggedIn(clients[c])' PROVE Shown(c, u, clients[c].participants[u])'
      <4> DEFINE x == Reply(c).participants[u]
      <4>1. Admitting(c)
        BY <2>5, <3>1, <3>3 DEF Admitting, LoggedIn
      <4>2. Shown(c, u, x) /\ clients'[c].participants[u] = x
        BY <2>1, <2>2, <3>1, <4>1 DEF Told
      <4> HIDE DEF x
      <4>3. Shown(c, u, x)
        BY <4>2
      <4>4. /\ Seen(u, Casts(effects'[u]), broadcast_rx'[c], Truth(u)', x)
            /\ Live(u)' => Known(u, broadcast_rx'[c], x)
        BY <1>1, <2>1, <4>3 DEF Shown
      <4> QED BY <4>2, <4>4 DEF Shown
    <3>4. ASSUME Unheard(u)'
          PROVE  About(u, broadcast_rx'[c]) = {} /\ clients'[c].participants[u] = NoInfo
      BY <1>1, <2>2, <2>5, <3>1, <3>2, <3>4 DEF Told
    <3>5. ~Admitting(c)'
      BY <2>2 DEF Admitting
    <3> QED BY <2>2, <3>2, <3>3, <3>4, <3>5 DEF Told
  <2> QED BY <2>4, <2>5
<1>10. ASSUME Told(c, u), UNCHANGED <<address, clients, socket, broadcast_rx>>,
              Replying(c)' => /\ Reply(c)'.participants = Nobody
                              /\ Admitting(c)' /\ Live(u)' => address'[u] \in unvisited'[c]
       PROVE  Told(c, u)'
  <2>1. /\ Hears(c, u)' /\ About(u, broadcast_rx'[c]) = About(u, broadcast_rx[c])
        /\ \A x : Shown(c, u, x) => Shown(c, u, x)'
    BY <1>2, <1>10
  <2>2. ASSUME Unheard(u)'
        PROVE  /\ About(u, broadcast_rx'[c]) = {} /\ clients'[c].participants[u] = NoInfo
               /\ Replying(c)' => Reply(c)'.participants[u] = NoInfo
    BY <1>n, <1>1, <1>10, <2>1, <2>2 DEF Told
  <2>3. ASSUME LoggedIn(clients[c])', socket'[c] = "open"
        PROVE  Shown(c, u, clients[c].participants[u])'
    <3> DEFINE z == clients[c].participants[u]
    <3>1. Shown(c, u, z) /\ z' = z
      BY <1>10, <2>3 DEF Told
    <3> HIDE DEF z
    <3>2. Shown(c, u, z)'
      BY <2>1, <3>1 DEF Shown
    <3> QED BY <3>2 DEF z
  <2>4. ASSUME Admitting(c)', Live(u)' => address'[u] \notin unvisited'[c]
        PROVE  Shown(c, u, Reply(c).participants[u])'
    <3>1. ~Live(u)' /\ Reply(c)'.participants[u] = NoInfo
      BY <1>n, <1>10, <2>4 DEF Admitting
    <3>2. Truth(u)' = NoInfo
      BY <3>1 DEF Truth, Named
    <3>3. \A ps, q : Seen(u, ps, q, NoInfo, NoInfo)
      BY TruthShown
    <3> QED BY <3>1, <3>2, <3>3 DEF Shown
  <2> QED BY <2>1, <2>2, <2>3, <2>4 DEF Told
<1>11. ASSUME Changes(c) PROVE Told(c, u)'
  <2>1. Change(c)
    BY <1>11, ChangesMean
  <2>2. /\ UNCHANGED <<address, clients, socket, broadcast_rx, lagged>> /\ pc[c] = "running"
        /\ Replying(c)' => unvisited'[c] = Addresses /\ Reply(c)'.participants = Nobody
    BY <2>1 DEF Change
  <2>3. Live(u) => address[u] \in Addresses
    BY StreamingFacts
  <2> QED BY <1>1, <1>10, <2>2, <2>3
<1>12. ASSUME RejectLogin(c) \/ HandlePing(c) PROVE Told(c, u)'
  <2>1. PICK p : /\ effects'[c] = <<Write(p)>>
                 /\ p.type = "LoginResponse" => p.id = 0 /\ p.participants = Nobody
    BY <1>0, <1>12 DEF RejectLogin, HandlePing, LoginResponse, PlainResponse
  <2>2. UNCHANGED <<address, clients, socket, broadcast_rx, lagged>> /\ pc[c] = "running"
    BY <1>12 DEF RejectLogin, HandlePing, Handles
  <2>3. Reply(c)' = p /\ (Replying(c)' => p.type = "LoginResponse")
    BY <2>1 DEF Replying, Reply, Write
  <2>4. Replying(c)' => Reply(c)'.participants = Nobody /\ ~Admitting(c)'
    BY <2>1, <2>3 DEF Admitting
  <2> QED BY <1>10, <2>2, <2>4
<1>13. ASSUME NEW a \in Addresses, Collect(c, a) PROVE Told(c, u)'
  <2>1. pc' = pc /\ lagged' = lagged
    BY <1>13 DEF Collect
  <2> QED BY <1>0, <1>13, <2>1, ToldCollected
<1>14. ASSUME DeliverBroadcast(c) PROVE Told(c, u)'
  <2>1. pc' = pc /\ lagged' = lagged
    BY <1>14 DEF DeliverBroadcast
  <2> QED BY <1>0, <1>14, <2>1, ToldDelivered
<1>15. ASSUME Read(c) \/ ConnectionEnds(c) PROVE Told(c, u)'
  <2>1. /\ UNCHANGED <<pc, lagged, effects, unvisited, broadcast_rx, address, clients>>
        /\ socket'[c] = "open" => socket[c] = "open"
    BY <1>0, <1>15 DEF Read, ConnectionEnds, ClientClose, ConnectionBreaks
  <2> QED BY <1>3, <2>1
<1>16. ASSUME NEW kind \in RequestTypes, ClientRequest(c, kind) PROVE Told(c, u)'
  <2>1. /\ UNCHANGED <<pc, lagged, effects, unvisited, broadcast_rx, address, socket>>
        /\ clients'[c] = [clients[c] EXCEPT !.login = IF kind = "Login" THEN "asked" ELSE @,
               !.pending = IF kind = "Mute" THEN @ ELSE @ \cup {requests[c] + 1}]
    BY <1>0, <1>16 DEF ClientRequest
  <2>2. /\ clients'[c].participants = clients[c].participants
        /\ clients'[c].user_id = clients[c].user_id
    BY <1>0, <2>1 DEF Client
  <2> QED BY <1>3, <2>1, <2>2
<1> QED
  BY <1>4, <1>5, <1>6, <1>7, <1>8, <1>9, <1>11, <1>12, <1>13, <1>14, <1>15, <1>16
     DEF HandlerStep, Changes

-----------------------------------------------------------------------------
(* What a client is told of its own user.                                   *)

\* Nothing about c reaches c in a step that does not send it anything.
LEMMA SparedKept ==
    ASSUME NEW q \in Messages, NEW c, NEW a, Spared(c, a, q)
    PROVE  /\ q # <<>> => Spared(c, a, Tail(q))
           /\ \A m \in BroadcastMessage :
                \/ m.packet.user_id # c \/ m.exclude = a \/ m.packet.type = "UserSentMessage"
                => Spared(c, a, Append(q, m)) /\ Spared(c, a, Push(q, m))
<1>1. ASSUME NEW r \in Messages, Spared(c, a, r), NEW m \in BroadcastMessage,
             \/ m.packet.user_id # c \/ m.exclude = a \/ m.packet.type = "UserSentMessage"
      PROVE  Spared(c, a, Append(r, m))
  <2> DEFINE s == Append(r, m)
  <2>1. Extended(c, r, m, s)
    BY <1>1, AboutAppend
  <2> HIDE DEF s
  <2>2. ASSUME NEW i \in About(c, s)
        PROVE  s[i].exclude = a \/ s[i].packet.type = "UserSentMessage"
    <3>1. CASE i \in About(c, r)
      <4>1. s[i] = r[i]
        BY <2>1, <3>1 DEF Extended
      <4> QED BY <1>1, <3>1, <4>1 DEF Spared
    <3>2. CASE i \notin About(c, r)
      <4>1. m.packet.user_id = c /\ i = Len(r) + 1 /\ s[i] = m
        BY <2>1, <2>2, <3>2 DEF Extended
      <4> QED BY <1>1, <4>1
    <3> QED BY <3>1, <3>2
  <2> QED BY <2>2 DEF Spared, s
<1>2. ASSUME q # <<>> PROVE Spared(c, a, Tail(q)) /\ Tail(q) \in Messages
  <2> DEFINE r == Tail(q)
  <2>1. Shifted(c, q, r) /\ r \in Messages
    BY <1>2, TailDown, HeadTailProperties DEF Messages
  <2> HIDE DEF r
  <2>2. \A i \in About(c, r) : i + 1 \in About(c, q) /\ r[i] = q[i + 1]
    BY <2>1 DEF Shifted
  <2>3. Spared(c, a, r)
    BY <2>2 DEF Spared
  <2> QED BY <2>1, <2>3 DEF r
<1>3. Overflow(q) => q # <<>>
  BY ManagementAssumption, EmptySeq DEF Overflow, Messages
<1> QED BY <1>1, <1>2, <1>3 DEF Push

\* A step that leaves c its own entry.
LEMMA OwnKept ==
    ASSUME NEW c, ToldOwn(c), Spared(c, address'[c], broadcast_rx'[c]), address'[c] = address[c],
           clients'[c].participants = clients[c].participants,
           LoggedIn(clients[c])' => LoggedIn(clients[c]),
           socket'[c] = "open" => socket[c] = "open",
           Admitting(c)' => \/ address'[c] \in unvisited'[c]
                            \/ Admitting(c) /\ Reply(c)' = Reply(c) /\ unvisited'[c] = unvisited[c]
    PROVE  ToldOwn(c)'
<1>1. Admitting(c)' /\ address'[c] \notin unvisited'[c] =>
         Reply(c)'.participants[c].username # NoName
  BY DEF ToldOwn
<1>2. LoggedIn(clients[c])' /\ socket'[c] = "open" =>
         clients'[c].participants[c].username # NoName
  BY DEF ToldOwn
<1> QED BY <1>1, <1>2 DEF ToldOwn

\* A step of another connection.
LEMMA OwnByOther ==
    ASSUME Streaming, NEW h \in UserIds, NEW c \in UserIds, c # h, Truthful(h), ToldOwn(c),
           pc[c] = "running",
           \/ HandlerStep(h) \/ ConnectionEnds(h)
           \/ \E kind \in RequestTypes : ClientRequest(h, kind)
    PROVE  ToldOwn(c)'
<1>1. /\ MgmtTypeOK /\ Untouched(c) /\ broadcast_rx[c] \in Messages
  BY StreamingFacts, OthersUntouched DEF MgmtTypeOK, Messages
<1>2. Spared(c, address[c], broadcast_rx'[c])
  <2>1. Spared(c, address[c], broadcast_rx[c])
    BY DEF ToldOwn
  <2>2. CASE broadcast_rx'[c] = broadcast_rx[c]
    BY <2>1, <2>2
  <2>3. CASE SendBroadcast(h)
    <3> DEFINE m == Head(effects[h]).message
    <3>1. effects[h] \in Seq(Effect) /\ effects[h] # <<>> /\ Head(effects[h]).do = "broadcast"
      BY <1>1, <2>3 DEF SendBroadcast, Due, MgmtTypeOK
    <3>2. m \in BroadcastMessage /\ 1 \in DOMAIN effects[h] /\ effects[h][1] = Head(effects[h])
      BY <3>1, HeadTailProperties, LenProperties, EmptySeq DEF Effect
    <3>3. m.packet.user_id # c
      BY <3>1, <3>2 DEF Truthful, Honest
    <3>4. broadcast_rx'[c] = Push(broadcast_rx[c], m)
      BY <2>3 DEF SendBroadcast, Subscribed
    <3> HIDE DEF m
    <3> QED BY <1>1, <2>1, <3>2, <3>3, <3>4, SparedKept
  <2> QED BY <2>2, <2>3, QueueUnsent
<1>3. /\ Admitting(c)' <=> Admitting(c)
      /\ Reply(c)' = Reply(c)
  BY <1>1, UntouchedKept
<1> QED BY <1>1, <1>2, <1>3, OwnKept DEF Untouched, LoggedIn

\* Every step leaves c its own entry, once it has it.
LEMMA OwnStep ==
    ASSUME Streaming, Entries, NEW c \in UserIds, Asked(c), Truthful(c),
           pc[c] # "running" => broadcast_rx[c] = <<>>,
           pc[c] = "running" => ToldOwn(c), pc'[c] = "running",
           \/ HandlerStep(c) \/ ConnectionEnds(c)
           \/ \E kind \in RequestTypes : ClientRequest(c, kind)
    PROVE  ToldOwn(c)'
<1> USE DEF handlerVars, channelVars, clientVars
<1>0. /\ Shape /\ MgmtTypeOK /\ broadcast_rx[c] \in Messages
      /\ DOMAIN pc = UserIds /\ DOMAIN clients = UserIds /\ DOMAIN effects = UserIds
      /\ DOMAIN unvisited = UserIds /\ DOMAIN socket = UserIds /\ DOMAIN broadcast_rx = UserIds
      /\ clients[c] \in Client
      /\ Live(c) => address[c] \in Addresses /\ Self(c).id = c
  BY StreamingFacts DEF MgmtTypeOK, Messages
<1>1. ASSUME UNCHANGED <<pc, address>>, Spared(c, address[c], broadcast_rx'[c]),
             ~Replying(c)' \/ UNCHANGED <<effects, unvisited>>,
             clients'[c].participants = clients[c].participants,
             clients'[c].user_id = clients[c].user_id,
             socket'[c] = "open" => socket[c] = "open"
      PROVE  ToldOwn(c)'
  <2>1. /\ Admitting(c)' => Admitting(c) /\ Reply(c)' = Reply(c) /\ unvisited'[c] = unvisited[c]
        /\ LoggedIn(clients[c])' => LoggedIn(clients[c])
    BY <1>1 DEF Admitting, Replying, Reply, LoggedIn
  <2> QED BY <1>1, <2>1, OwnKept
<1>2. pc[c] = "running" => Spared(c, address[c], broadcast_rx[c])
  BY DEF ToldOwn
<1>3. ASSUME Start(c) PROVE ToldOwn(c)'
  <2>1. /\ pc[c] = "spawned" /\ broadcast_rx' = broadcast_rx /\ clients' = clients
        /\ effects' = effects
    BY <1>3 DEF Start
  <2>2. effects[c] = <<>>
    BY <2>1, StreamingFacts
  <2>3. broadcast_rx'[c] = <<>> /\ ~Admitting(c)' /\ ~LoggedIn(clients[c])'
    BY <2>1, <2>2 DEF Replying, Admitting, Asked, LoggedIn
  <2> QED BY <2>3 DEF ToldOwn, About, Spared
<1>4. ASSUME Exit(c) \/ Disconnect(c) \/ BroadcastWriteFails(c) PROVE FALSE
  BY <1>0, <1>4 DEF Exit, Disconnect, BroadcastWriteFails
<1>5. ASSUME SendEvent(c) PROVE ToldOwn(c)'
  <2>1. /\ UNCHANGED <<pc, address, broadcast_rx, clients, socket>>
        /\ effects[c] # <<>> /\ effects'[c] = Tail(effects[c])
    BY <1>0, <1>5 DEF SendEvent, Due
  <2>2. ~Replying(c)'
    BY <1>0, <2>1, NoReplyLeft
  <2> QED BY <1>1, <1>2, <2>1, <2>2
<1>6. ASSUME SendBroadcast(c) PROVE ToldOwn(c)'
  <2> DEFINE m == Head(effects[c]).message
  <2>1. /\ UNCHANGED <<pc, address, clients, socket>>
        /\ effects[c] # <<>> /\ effects'[c] = Tail(effects[c])
        /\ Head(effects[c]).do = "broadcast"
    BY <1>0, <1>6 DEF SendBroadcast, Due
  <2>2. ~Replying(c)'
    BY <1>0, <2>1, NoReplyLeft
  <2>3. effects[c] \in Seq(Effect)
    BY <1>0 DEF MgmtTypeOK
  <2>4. m \in BroadcastMessage /\ 1 \in DOMAIN effects[c] /\ effects[c][1] = Head(effects[c])
    BY <2>1, <2>3, HeadTailProperties, LenProperties, EmptySeq DEF Effect
  <2>5. m.exclude = address[c] \/ m.packet.type = "UserSentMessage"
    <3>1. Honest(c, m, Casts(effects[c])) /\ Live(c)
      BY <2>1, <2>4 DEF Truthful, Live
    <3> QED BY <3>1 DEF Honest
  <2>6. broadcast_rx'[c] = Push(broadcast_rx[c], m)
    BY <1>6, <2>1 DEF SendBroadcast, Subscribed
  <2> HIDE DEF m
  <2>7. Spared(c, address[c], broadcast_rx'[c])
    BY <1>0, <1>2, <2>1, <2>4, <2>5, <2>6, SparedKept
  <2> QED BY <1>1, <2>1, <2>2, <2>7
<1>7. ASSUME WriteResponse(c) PROVE ToldOwn(c)'
  <2>1. /\ UNCHANGED <<pc, broadcast_rx, address, socket>>
        /\ effects[c] # <<>> /\ effects'[c] \in {Tail(effects[c]), <<>>}
        /\ Head(effects[c]).do = "write" /\ unvisited[c] = {}
        /\ clients'[c] = IF Reaches(c) THEN ReceiveResponse(clients[c], Reply(c))
                         ELSE clients[c]
    BY <1>0, <1>7 DEF WriteResponse, Due, Reply
  <2>2. ~Replying(c)' /\ ToldOwn(c)
    BY <1>0, <2>1, NoReplyLeft
  <2>3. Reply(c) \in Response
    <3>1. Head(effects[c]) \in Effect
      BY <1>0, <2>1 DEF MgmtTypeOK
    <3> QED BY <2>1, <3>1 DEF Effect, Reply
  <2>4. CASE ~(Replying(c) /\ Reaches(c))
    <3>1. /\ clients'[c].user_id = clients[c].user_id
          /\ clients'[c].participants = clients[c].participants
      BY <1>0, <2>1, <2>3, <2>4 DEF Replying, Reply, ReceiveResponse, Client
    <3> QED BY <1>1, <1>2, <2>1, <2>2, <3>1
  <2>5. CASE Replying(c) /\ Reaches(c)
    <3>1. /\ clients'[c].user_id = Reply(c).id
          /\ clients'[c].participants = Reply(c).participants
      BY <1>0, <2>1, <2>3, <2>5 DEF Replying, Reply, ReceiveResponse, Client
    <3>2. LoggedIn(clients[c])' => clients'[c].participants[c].username # NoName
      BY <2>1, <2>2, <2>5, <3>1 DEF Admitting, LoggedIn, ToldOwn
    <3>3. ~Admitting(c)'
      BY <2>2 DEF Admitting
    <3> QED BY <1>2, <2>1, <3>2, <3>3 DEF ToldOwn
  <2> QED BY <2>4, <2>5
<1>8. ASSUME UNCHANGED <<pc, address, clients, socket, broadcast_rx>>, pc[c] = "running",
             Admitting(c)' => address'[c] \in unvisited'[c]
      PROVE  ToldOwn(c)'
  BY <1>2, <1>8, OwnKept DEF LoggedIn
<1>9. ASSUME Changes(c) PROVE ToldOwn(c)'
  <2>1. Change(c)
    BY <1>9, ChangesMean
  <2>2. /\ UNCHANGED <<address, clients, socket, broadcast_rx, pc>> /\ pc[c] = "running"
        /\ Replying(c)' => unvisited'[c] = Addresses
    BY <2>1 DEF Change
  <2>3. Admitting(c)' => address'[c] \in unvisited'[c]
    BY <1>0, <2>2 DEF Admitting, Live
  <2> QED BY <1>8, <2>2, <2>3
<1>10. ASSUME RejectLogin(c) \/ HandlePing(c) PROVE ToldOwn(c)'
  <2>1. PICK p : effects'[c] = <<Write(p)>> /\ (p.type = "LoginResponse" => p.id = 0)
    BY <1>0, <1>10 DEF RejectLogin, HandlePing, LoginResponse, PlainResponse
  <2>2. UNCHANGED <<address, clients, socket, broadcast_rx, pc>> /\ pc[c] = "running"
    BY <1>10 DEF RejectLogin, HandlePing, Handles
  <2>3. ~Admitting(c)'
    BY <2>1 DEF Replying, Admitting, Reply, Write
  <2> QED BY <1>8, <2>2, <2>3
<1>11. ASSUME NEW a \in Addresses, Collect(c, a) PROVE ToldOwn(c)'
  <2> DEFINE v == users[a]
             y == Reply(c)'.participants[c]
  <2>1. /\ Admitting(c) /\ Reply(c) \in Response /\ v \in User
        /\ Reply(c)'.participants =
             IF v.username = NoName THEN Reply(c).participants
             ELSE [Reply(c).participants EXCEPT ![v.id] = Info(v.username, v.in_voice, v.is_muted)]
    BY <1>0, <1>11, CollectMeans
  <2>2. /\ UNCHANGED <<users, address, pc, broadcast_rx, socket, clients>>
        /\ unvisited'[c] = unvisited[c] \ {a} /\ ToldOwn(c)
    BY <1>0, <1>11 DEF Collect
  <2>3. Named(c) /\ Self(c).id = c
    BY <1>0, <2>1 DEF Truthful, Named
  <2>4. Reply(c).participants \in Participants
    BY <2>1 DEF Response
  <2>5. ASSUME address[c] \notin unvisited[c] \ {a} PROVE y.username # NoName
    <3>1. CASE address[c] = a
      <4>1. v.username # NoName /\ v.id = c
        BY <2>3, <3>1 DEF Named, Self
      <4> QED BY <2>1, <2>4, <4>1 DEF Participants, Info
    <3>2. CASE address[c] # a
      <4>1. Reply(c).participants[c].username # NoName
        BY <2>1, <2>2, <2>5, <3>2 DEF ToldOwn
      <4>2. v.username # NoName => v.id # c
        BY <3>2 DEF Entries, Entry
      <4> QED BY <2>1, <2>4, <4>1, <4>2 DEF Participants
    <3> QED BY <3>1, <3>2
  <2>6. Spared(c, address'[c], broadcast_rx'[c])
    BY <1>2, <2>2
  <2> QED BY <2>2, <2>5, <2>6 DEF ToldOwn, LoggedIn
<1>12. ASSUME DeliverBroadcast(c) PROVE ToldOwn(c)'
  <2> DEFINE q == broadcast_rx[c]
             p == Head(q).packet
             list == clients[c].participants
  <2>1. /\ q # <<>> /\ effects[c] = <<>> /\ list \in Participants /\ p \in News /\ pc[c] = "running"
    <3>1. q # <<>> /\ effects[c] = <<>> /\ pc[c] = "running"
      BY <1>12 DEF DeliverBroadcast, HasBroadcast, AtSelect
    <3>2. Head(q) \in BroadcastMessage
      BY <1>0, <3>1, HeadTailProperties DEF Messages
    <3> QED BY <1>0, <3>1, <3>2 DEF BroadcastMessage, Client
  <2>2. /\ broadcast_rx'[c] = Tail(q) /\ UNCHANGED <<address, socket, pc, users, effects>>
        /\ clients'[c] = IF should_send_to(Head(q), address[c]) /\ Reaches(c)
                         THEN ReceiveNews(clients[c], p) ELSE clients[c]
    BY <1>0, <1>12 DEF DeliverBroadcast
  <2>3. ~Admitting(c)' /\ ToldOwn(c)
    BY <2>1, <2>2 DEF Replying, Admitting
  <2>4. Spared(c, address'[c], broadcast_rx'[c])
    BY <1>0, <1>2, <2>1, <2>2, SparedKept
  <2>5. p.user_id = c => Head(q).exclude = address[c] \/ p.type = "UserSentMessage"
    <3>1. p.user_id = c => 1 \in About(c, q) /\ q[1] = Head(q)
      BY <1>0, <2>1, TailUp
    <3> QED BY <1>2, <2>1, <3>1 DEF Spared
  <2> HIDE DEF p, q
  <2>6. p.user_id # c \/ p.type = "UserSentMessage" => ApplyNews(list, p)[c] = list[c]
    <3>1. p.user_id # c => ApplyNews(list, p)[c] = list[c]
      BY <2>1, ApplyFacts
    <3>2. p.type = "UserSentMessage" => ApplyNews(list, p) = list
      BY DEF ApplyNews
    <3> QED BY <3>1, <3>2
  <2>7. /\ clients'[c].user_id = clients[c].user_id
        /\ clients'[c].participants[c] = list[c]
    BY <1>0, <2>2, <2>5, <2>6 DEF ReceiveNews, Client, should_send_to
  <2> QED BY <2>2, <2>3, <2>4, <2>7 DEF ToldOwn, LoggedIn
<1>13. ASSUME Read(c) \/ ConnectionEnds(c) \/ NoticeLag(c) PROVE ToldOwn(c)'
  <2>1. /\ UNCHANGED <<pc, effects, unvisited, broadcast_rx, address, clients>>
        /\ socket'[c] = "open" => socket[c] = "open"
    BY <1>0, <1>13 DEF Read, ConnectionEnds, ClientClose, ConnectionBreaks, NoticeLag
  <2> QED BY <1>1, <1>2, <2>1
<1>14. ASSUME NEW kind \in RequestTypes, ClientRequest(c, kind) PROVE ToldOwn(c)'
  <2>1. /\ UNCHANGED <<pc, effects, unvisited, broadcast_rx, address, socket>>
        /\ clients'[c] = [clients[c] EXCEPT !.login = IF kind = "Login" THEN "asked" ELSE @,
               !.pending = IF kind = "Mute" THEN @ ELSE @ \cup {requests[c] + 1}]
    BY <1>0, <1>14 DEF ClientRequest
  <2>2. /\ clients'[c].participants = clients[c].participants
        /\ clients'[c].user_id = clients[c].user_id
    BY <1>0, <2>1 DEF Client
  <2> QED BY <1>1, <1>2, <2>1, <2>2
<1> QED
  BY <1>3, <1>4, <1>5, <1>6, <1>7, <1>9, <1>10, <1>11, <1>12, <1>13, <1>14
     DEF HandlerStep, Changes

-----------------------------------------------------------------------------
(* The invariant, and what follows from it.                                 *)

\* It holds at first ...
LEMMA ListedInit == MgmtInit => Listed
<1> SUFFICES ASSUME MgmtInit PROVE Listed
  OBVIOUS
<1>1. Streaming
  BY StreamingInit
<1>2. Entries
  BY DEF MgmtInit, Entries, Entry, NoUser
<1>3. ASSUME NEW h \in UserIds
      PROVE  /\ pc[h] = "none" /\ effects[h] = <<>> /\ unvisited[h] = {} /\ inbox[h] = <<>>
             /\ packet_buffer[h] = <<>> /\ clients[h] = NewClient /\ socket[h] = "none"
             /\ broadcast_rx[h] = <<>>
  BY <1>3 DEF MgmtInit
<1>4. ASSUME NEW h \in UserIds PROVE Asked(h)
  <2>1. ~Live(h) /\ ~Named(h) /\ ~Replying(h)
    BY <1>3 DEF Live, Named, Replying
  <2>2. /\ clients[h].login = "none" /\ clients[h].user_id = 0
        /\ clients[h].participants = Nobody
    BY <1>3 DEF NewClient
  <2>3. LoginOnce(h)
    BY <1>3, <2>1, <2>2 DEF LoginOnce, LoggedIn
  <2>4. FromRoom(h, inbox[h]) /\ FromRoom(h, packet_buffer[h])
    BY <1>3 DEF FromRoom
  <2> QED BY <2>1, <2>2, <2>3, <2>4 DEF Asked, LoggedIn
<1>5. ASSUME NEW h \in UserIds PROVE Truthful(h)
  BY <1>3 DEF Truthful, Replying, Admitting
<1>6. ToldAll
  BY <1>3 DEF ToldAll
<1> QED BY <1>1, <1>2, <1>3, <1>4, <1>5, <1>6 DEF Listed

\* What holds of each connection by itself.
Settled(h) ==
    /\ Asked(h) /\ Truthful(h)
    /\ pc[h] = "none" => socket[h] = "none"
    /\ pc[h] # "running" => broadcast_rx[h] = <<>>
    /\ pc[h] = "running" => ToldOwn(h)

\* A step of h is a step of nobody else.
LEMMA SettledStep ==
    ASSUME PortReuse = FALSE, Streaming, Entries, NEW h \in UserIds, Settled(h),
           NEW k \in UserIds, Settled(k),
           \/ HandlerStep(h) \/ ConnectionEnds(h)
           \/ \E kind \in RequestTypes : ClientRequest(h, kind)
    PROVE  Settled(k)'
<1> USE DEF handlerVars, channelVars, clientVars
<1>0. /\ Shape /\ MgmtTypeOK /\ DOMAIN pc = UserIds /\ DOMAIN broadcast_rx = UserIds
      /\ DOMAIN socket = UserIds
      /\ k # h => Untouched(k)
  BY StreamingFacts, OthersUntouched DEF MgmtTypeOK
<1>1. Asked(k)' /\ Truthful(k)'
  <2>1. CASE k = h
    BY <2>1, AskedStep, TruthfulStep DEF Settled
  <2>2. CASE k # h
    BY <1>0, <2>2, UntouchedKept DEF Settled
  <2> QED BY <2>1, <2>2
<1>2. pc'[k] = "none" => socket'[k] = "none"
  <2>1. CASE k # h
    BY <1>0, <2>1 DEF Untouched, Settled
  <2>2. CASE k = h /\ HandlerStep(h)
    <3>1. pc[h] # "none"
      <4>1. CASE SendEvent(h) \/ SendBroadcast(h) \/ WriteResponse(h)
        BY <4>1, StreamingFacts DEF SendEvent, SendBroadcast, WriteResponse, Due
      <4>2. CASE \E a \in Addresses : Collect(h, a)
        BY <1>0, <4>2, StreamingFacts DEF Collect, Shape
      <4>3. CASE Start(h) \/ Exit(h) \/ Read(h) \/ Disconnect(h)
        BY <4>3 DEF Start, Exit, Read, Disconnect, AtSelect
      <4>4. CASE DeliverBroadcast(h) \/ BroadcastWriteFails(h) \/ NoticeLag(h)
        BY <4>4 DEF DeliverBroadcast, BroadcastWriteFails, NoticeLag, HasBroadcast, AtSelect
      <4>5. CASE RejectLogin(h) \/ HandlePing(h)
        BY <4>5 DEF RejectLogin, HandlePing, Handles
      <4>6. CASE Changes(h)
        BY <4>6, ChangesMean DEF Change, Settled
      <4> QED BY <2>2, <4>1, <4>2, <4>3, <4>4, <4>5, <4>6 DEF HandlerStep, Changes
    <3>2. pc'[h] # "none"
      <4>1. CASE Start(h) \/ Exit(h) \/ Disconnect(h) \/ BroadcastWriteFails(h)
        BY <1>0, <4>1 DEF Start, Exit, Disconnect, BroadcastWriteFails
      <4>2. CASE pc' = pc
        BY <3>1, <4>2
      <4>3. CASE Changes(h)
        BY <3>1, <4>3, ChangesMean DEF Change, Settled
      <4> QED
        BY <2>2, <4>1, <4>2, <4>3
           DEF HandlerStep, Changes, SendEvent, SendBroadcast, WriteResponse, RejectLogin, Collect,
               HandlePing, Read, DeliverBroadcast, NoticeLag
    <3> QED BY <2>2, <3>2
  <2>3. CASE ConnectionEnds(h) \/ \E kind \in RequestTypes : ClientRequest(h, kind)
    BY <1>0, <2>3 DEF ConnectionEnds, ClientClose, ConnectionBreaks, ClientRequest, MayRequest, Settled
  <2> QED BY <2>1, <2>2, <2>3
<1>3. ASSUME pc'[k] # "running" PROVE broadcast_rx'[k] = <<>>
  <2>1. CASE SendBroadcast(h)
    BY <1>0, <1>3, <2>1 DEF SendBroadcast, Subscribed, Settled
  <2>2. CASE ~SendBroadcast(h) /\ k # h
    BY <1>0, <1>3, <2>2, QueueUnsent DEF Untouched, Settled
  <2>3. CASE Start(h) \/ Exit(h) \/ Disconnect(h) \/ BroadcastWriteFails(h)
    BY <1>0, <1>3, <2>3 DEF Start, Exit, Disconnect, BroadcastWriteFails, Settled
  <2>4. CASE k = h /\ UNCHANGED <<pc, broadcast_rx>>
    BY <1>3, <2>4 DEF Settled
  <2>5. CASE k = h /\ DeliverBroadcast(h)
    BY <1>3, <2>5 DEF DeliverBroadcast, HasBroadcast, AtSelect
  <2>6. CASE Changes(h)
    BY <1>3, <2>4, <2>6, <2>2, ChangesMean DEF Change, Settled, Changes
  <2>7. CASE \/ ConnectionEnds(h) \/ \E kind \in RequestTypes : ClientRequest(h, kind)
    <3>1. UNCHANGED <<pc, broadcast_rx>>
      BY <2>7 DEF ConnectionEnds, ClientClose, ConnectionBreaks, ClientRequest
    <3> QED BY <1>3, <3>1 DEF Settled
  <2> QED
    BY <2>1, <2>2, <2>3, <2>4, <2>5, <2>6, <2>7
       DEF HandlerStep, Changes, SendEvent, WriteResponse, RejectLogin, Collect,
           HandlePing, Read, NoticeLag
<1>4. ASSUME pc'[k] = "running" PROVE ToldOwn(k)'
  <2>1. CASE k = h
    BY <1>4, <2>1, OwnStep DEF Settled
  <2>2. CASE k # h
    BY <1>0, <1>4, <2>2, OwnByOther DEF Settled, Untouched
  <2> QED BY <2>1, <2>2
<1> QED BY <1>1, <1>2, <1>3, <1>4 DEF Settled

\* What holds of each connection still holds after one is accepted.
LEMMA SettledAccept ==
    ASSUME PortReuse = FALSE, Streaming, NEW a \in Addresses, Accept(a),
           NEW k \in UserIds, Settled(k)
    PROVE  Settled(k)'
<1> DEFINE n == next_user_id
<1>0. MgmtTypeOK /\ Shape /\ DOMAIN pc = UserIds /\ DOMAIN address = UserIds
  BY StreamingFacts DEF MgmtTypeOK
<1>1. n \in UserIds /\ pc[n] = "none" /\ (k # n => Untouched(k))
  BY AcceptUntouches
<1>2. /\ users' = [users EXCEPT ![a] = NewUser(n)] /\ pc' = [pc EXCEPT ![n] = "spawned"]
      /\ address' = [address EXCEPT ![n] = a]
      /\ UNCHANGED <<broadcast_rx, effects, clients, unvisited, inbox, packet_buffer>>
  BY DEF Accept, Registered, channelVars
<1> HIDE DEF n
<1>3. CASE k # n
  <2>1. Untouched(k)
    BY <1>1, <1>3
  <2>2. /\ Asked(k)' /\ Truthful(k)' /\ Reply(k)' = Reply(k) /\ (Admitting(k)' <=> Admitting(k))
    BY <2>1, UntouchedKept DEF Settled
  <2>3. ToldOwn(k) => ToldOwn(k)'
    BY <1>2, <2>1, <2>2 DEF ToldOwn, Untouched, LoggedIn
  <2> QED BY <1>2, <2>1, <2>2, <2>3 DEF Settled, Untouched
<1>4. CASE k = n
  <2>1. effects[k] = <<>> /\ unvisited[k] = {} /\ broadcast_rx[k] = <<>> /\ pc'[k] = "spawned"
    BY <1>0, <1>1, <1>2, <1>4, StreamingFacts DEF Settled, Shape
  <2>2. Truthful(k)'
    BY <1>2, <2>1, TruthfulIdle
  <2>3. Self(k)' = NewUser(k) /\ Live(k)'
    BY <1>0, <1>1, <1>2, <1>4 DEF Self, Live, MgmtTypeOK
  <2>4. /\ NewUser(k).username = NoName /\ ~NewUser(k).in_voice /\ ~NewUser(k).is_muted
    BY DEF NewUser, NoUser
  <2>5. ~Named(k)' /\ ~Self(k)'.in_voice /\ ~Self(k)'.is_muted
    BY <2>3, <2>4 DEF Named
  <2>6. ~LoggedIn(clients[k]) /\ clients[k].participants = Nobody /\ Asked(k)
    BY <1>1, <1>4 DEF Settled, Asked
  <2>7. ~Replying(k) /\ ~Replying(k)'
    BY <1>2, <2>1 DEF Replying
  <2>8. LoginOnce(k)'
    BY <1>2, <2>5, <2>6, <2>7 DEF Asked, LoginOnce, NoLogin, LoggedIn
  <2>9. FromRoom(k, inbox[k])' /\ FromRoom(k, packet_buffer[k])'
    BY <1>2, <2>6 DEF Asked, FromRoom
  <2>10. Asked(k)'
    BY <1>2, <2>5, <2>6, <2>8, <2>9 DEF Asked, LoggedIn
  <2> QED BY <1>2, <2>1, <2>2, <2>10 DEF Settled
<1> QED BY <1>3, <1>4

\* A connection that is broken, and a receiver that has missed something, stay so.
LEMMA BreaksForGood ==
    ASSUME MgmtTypeOK, NEW h \in UserIds, NEW u \in UserIds, socket[u] = "broken",
           \/ HandlerStep(h) \/ ConnectionEnds(h)
           \/ \E kind \in RequestTypes : ClientRequest(h, kind)
    PROVE  socket'[u] = "broken"
<1> USE DEF handlerVars, channelVars, clientVars
<1>1. CASE HandlerStep(h)
  BY <1>1 DEF HandlerStep, Start, Exit, SendEvent, SendBroadcast, WriteResponse, RejectLogin,
              HandleLogin, Collect, HandleJoinVoiceChannel, HandleLeaveVoiceChannel,
              HandleChatMessage, HandleUserMuteState, Handling, HandlePing, Read, Disconnect,
              DeliverBroadcast, BroadcastWriteFails, NoticeLag
<1>2. CASE ConnectionEnds(h)
  BY <1>2 DEF ConnectionEnds, ClientClose, ConnectionBreaks, MgmtTypeOK
<1>3. CASE \E kind \in RequestTypes : ClientRequest(h, kind)
  BY <1>3 DEF ClientRequest
<1> QED BY <1>1, <1>2, <1>3

\* A receiver that has lagged, or a socket that broke, stays so.
LEMMA LagsForGood ==
    ASSUME MgmtTypeOK, NEW h \in UserIds, NEW c \in UserIds, lagged[c] # "no",
           \/ HandlerStep(h) \/ ConnectionEnds(h)
           \/ \E kind \in RequestTypes : ClientRequest(h, kind)
    PROVE  lagged'[c] # "no"
<1> USE DEF handlerVars, channelVars, clientVars
<1>1. CASE HandlerStep(h)
  <2>1. CASE SendBroadcast(h)
    BY <2>1 DEF SendBroadcast, MgmtTypeOK
  <2>2. CASE NoticeLag(h)
    BY <2>2 DEF NoticeLag, MgmtTypeOK
  <2>3. CASE lagged' = lagged
    BY <2>3
  <2> QED
    BY <1>1, <2>1, <2>2, <2>3
       DEF HandlerStep, Start, Exit, SendEvent, WriteResponse, RejectLogin,
           HandleLogin, Collect, HandleJoinVoiceChannel, HandleLeaveVoiceChannel,
           HandleChatMessage, HandleUserMuteState, Handling, HandlePing, Read, Disconnect,
           DeliverBroadcast, BroadcastWriteFails
<1>2. CASE ConnectionEnds(h) \/ \E kind \in RequestTypes : ClientRequest(h, kind)
  BY <1>2 DEF ConnectionEnds, ClientClose, ConnectionBreaks, ClientRequest
<1> QED BY <1>1, <1>2

\* ... every step keeps it ...
LEMMA ListedStep ==
    ASSUME PortReuse = FALSE
    PROVE  Listed /\ [MgmtNext]_mgmtAll => Listed'
<1> SUFFICES ASSUME Listed, [MgmtNext]_mgmtAll PROVE Listed'
  OBVIOUS
<1>1. /\ Streaming /\ Entries /\ ToldAll /\ MgmtTypeOK
      /\ \A k \in UserIds : Settled(k)
      /\ \A k \in UserIds : broadcast_rx[k] \in Messages
  <2>1. Streaming /\ Entries /\ ToldAll /\ \A k \in UserIds : Settled(k)
    BY DEF Listed, Settled
  <2>2. MgmtTypeOK
    BY <2>1, StreamingFacts
  <2> QED BY <2>1, <2>2 DEF MgmtTypeOK, Messages
<1>2. Streaming' /\ Entries'
  BY <1>1, StreamingStep, EntriesStep DEF Settled
<1>3. SUFFICES /\ \A k \in UserIds : Settled(k)'
               /\ \A c, u \in UserIds :
                    c # u /\ pc'[c] = "running" /\ lagged'[c] = "no" /\ socket'[u] # "broken"
                    => Told(c, u)'
  BY <1>2 DEF Listed, Settled, ToldAll
<1>4. ASSUME NEW a \in Addresses, Accept(a)
      PROVE  /\ \A k \in UserIds : Settled(k)'
             /\ \A c, u \in UserIds :
                  c # u /\ pc'[c] = "running" /\ lagged'[c] = "no" /\ socket'[u] # "broken"
                  => Told(c, u)'
  <2>1. \A k \in UserIds : Settled(k)'
    BY <1>1, <1>4, SettledAccept
  <2>2. ASSUME NEW c \in UserIds, NEW u \in UserIds, c # u, pc'[c] = "running",
               lagged'[c] = "no", socket'[u] # "broken"
        PROVE  Told(c, u)'
    <3> DEFINE n == next_user_id
    <3>1. /\ n \in UserIds /\ pc[n] = "none" /\ pc' = [pc EXCEPT ![n] = "spawned"]
          /\ socket' = [socket EXCEPT ![n] = "open"] /\ lagged' = lagged
      BY <1>1, <1>4, AcceptUntouches DEF Accept, channelVars
    <3>2. pc[c] = "running" /\ lagged[c] = "no" /\ socket[u] # "broken"
      <4>1. socket[n] = "none"
        BY <1>1, <3>1 DEF Settled
      <4> HIDE DEF n
      <4> QED BY <1>1, <2>2, <3>1, <4>1 DEF MgmtTypeOK
    <3>3. Told(c, u)
      BY <1>1, <2>2, <3>2 DEF ToldAll
    <3> QED BY <1>1, <1>4, <2>2, <3>3, ToldByAccept
  <2> QED BY <2>1, <2>2
<1>5. ASSUME NEW h \in UserIds,
             \/ HandlerStep(h) \/ ConnectionEnds(h)
             \/ \E kind \in RequestTypes : ClientRequest(h, kind)
      PROVE  /\ \A k \in UserIds : Settled(k)'
             /\ \A c, u \in UserIds :
                  c # u /\ pc'[c] = "running" /\ lagged'[c] = "no" /\ socket'[u] # "broken"
                  => Told(c, u)'
  <2>1. \A k \in UserIds : Settled(k)'
    BY <1>1, <1>5, SettledStep
  <2>2. ASSUME NEW c \in UserIds, NEW u \in UserIds, c # u, pc'[c] = "running",
               lagged'[c] = "no", socket'[u] # "broken"
        PROVE  Told(c, u)'
    <3>1. \A k \in UserIds : k # h => Untouched(k)
      BY <1>1, <1>5, OthersUntouched
    <3>2. socket[u] # "broken"
      BY <1>1, <1>5, <2>2, BreaksForGood
    <3>3. c # h => pc[c] = "running"
      BY <2>2, <3>1 DEF Untouched
    <3>4. pc[c] = "running" => lagged[c] = "no"
      BY <1>1, <1>5, <2>2, LagsForGood
    <3>5. CASE c = h
      BY <1>1, <1>5, <2>2, <3>2, <3>5, ToldByClient DEF ToldAll, Settled
    <3>6. CASE u = h
      BY <1>1, <1>5, <2>2, <3>2, <3>3, <3>4, <3>6, ToldByUser DEF ToldAll, Settled
    <3>7. CASE c # h /\ u # h
      <4>1. Told(c, u) /\ Untouched(c) /\ Untouched(u)
        BY <1>1, <2>2, <3>1, <3>2, <3>3, <3>4, <3>7 DEF ToldAll
      <4>2. \/ broadcast_rx'[c] = broadcast_rx[c]
            \/ \E m \in BroadcastMessage :
                 m.packet.user_id # u /\ broadcast_rx'[c] = Append(broadcast_rx[c], m)
        BY <1>1, <1>5, <2>2, <3>3, <3>7, QueueKept DEF Settled
      <4> QED BY <1>1, <4>1, <4>2, ToldByOther
    <3> QED BY <3>5, <3>6, <3>7
  <2> QED BY <2>1, <2>2
<1>6. CASE UNCHANGED mgmtAll
  <2> USE DEF mgmtAll, mgmtVars, handlerVars, channelVars, clientVars
  <2>1. \A k \in UserIds : Untouched(k)
    BY <1>6 DEF Untouched
  <2>2. ASSUME NEW k \in UserIds PROVE Settled(k)'
    <3>1. /\ Asked(k)' /\ Truthful(k)' /\ Reply(k)' = Reply(k) /\ (Admitting(k)' <=> Admitting(k))
      BY <1>1, <2>1, UntouchedKept DEF Settled
    <3>2. ToldOwn(k) => ToldOwn(k)'
      BY <1>6, <3>1 DEF ToldOwn, LoggedIn
    <3> QED BY <1>1, <1>6, <3>1, <3>2 DEF Settled
  <2>3. ASSUME NEW c \in UserIds, NEW u \in UserIds, c # u, pc'[c] = "running",
               lagged'[c] = "no", socket'[u] # "broken"
        PROVE  Told(c, u)'
    <3>1. Told(c, u)
      BY <1>1, <1>6, <2>3 DEF ToldAll
    <3> QED BY <1>1, <1>6, <2>1, <3>1, ToldByOther
  <2> QED BY <2>2, <2>3
<1> QED BY <1>4, <1>5, <1>6 DEF MgmtNext

\* The map and the truth agree about everybody whose connection is not broken.
LEMMA RosterIsTruth ==
    ASSUME Streaming, Entries, NEW u \in UserIds, socket[u] # "broken"
    PROVE  Roster(u) = Truth(u)
<1>1. u # 0 /\ (Live(u) => Self(u).id = u /\ address[u] \in Addresses)
  BY StreamingFacts, ProtocolAssumption DEF UserIds
<1>2. \A a \in Addresses : users[a].id = u => Live(u) /\ address[u] = a
  BY <1>1 DEF Entries, Entry
<1>3. CASE Named(u)
  <2>1. Live(u) /\ users[address[u]].id = u /\ users[address[u]].username # NoName
    BY <1>1, <1>3 DEF Named, Self
  <2>2. (CHOOSE a \in Addresses : users[a].id = u) = address[u]
    BY <1>1, <1>2, <2>1
  <2> QED BY <1>1, <1>3, <2>1, <2>2 DEF Roster, Truth, Self
<1>4. CASE ~Named(u)
  <2>1. ~\E a \in Addresses : users[a].id = u /\ users[a].username # NoName
    BY <1>2, <1>4 DEF Named, Self
  <2> QED BY <1>4, <2>1 DEF Roster, Truth
<1> QED BY <1>3, <1>4

\* With nothing left to say, what is listed is what was said last: the truth.
LEMMA ListedConverges == Listed => ViewsConverge
<1> SUFFICES ASSUME Listed, Quiet, NEW c \in UserIds, NEW u \in UserIds, c # u, Current(c),
                    socket[u] # "broken"
             PROVE  clients[c].participants[u] = Roster(u)
  BY DEF ViewsConverge
<1> DEFINE x == clients[c].participants[u]
           t == Truth(u)
<1>1. Streaming /\ Entries /\ MgmtTypeOK
  BY StreamingFacts DEF Listed
<1>2. Shown(c, u, x)
  BY DEF Listed, ToldAll, Told, Current
<1>3. broadcast_rx[c] = <<>> /\ effects[u] = <<>>
  <2>1. broadcast_rx[c] = <<>>
    BY DEF Quiet, Current
  <2>2. effects[u] = <<>>
    BY <1>1, StreamingFacts DEF Quiet, AtSelect
  <2> QED BY <2>1, <2>2
<1>4. x \in ParticipantInfo /\ t \in ParticipantInfo
  <2>1. x \in ParticipantInfo
    BY <1>1 DEF MgmtTypeOK, Client, Participants
  <2>2. Live(u) => Self(u) \in User
    BY <1>1, StreamingFacts
  <2>3. t \in ParticipantInfo
    BY <2>2, ProtocolAssumption DEF Truth, Named, User, Info, NoInfo, ParticipantInfo, Names
  <2> QED BY <2>1, <2>3
<1> HIDE DEF x, t
<1>5. \A f \in Facets : Same(f, x, t)
  <2>1. \A f \in Facets : Mute(f, Casts(effects[u])) /\ Silent(u, f, broadcast_rx[c])
    BY <1>3, CastsEmpty DEF Mute, Silent, About
  <2> QED BY <1>2, <2>1 DEF Shown, Seen, t
<1>6. x.username = t.username /\ x.in_voice = t.in_voice /\ x.is_muted = t.is_muted
  BY <1>5 DEF Facets, Same
<1>7. x = t
  BY <1>4, <1>6 DEF ParticipantInfo
<1> QED BY <1>1, <1>7, RosterIsTruth DEF x, t

\* A chat message needs its entry, and what needs an entry finds one.
LEMMA ListedAttributes == Listed => ChatAttributable
<1> SUFFICES ASSUME Listed, NEW c \in UserIds, NEW u \in UserIds, Current(c), HasBroadcast(c),
                    Head(broadcast_rx[c]).packet = PlainNews("UserSentMessage", u),
                    pc[u] = "running", socket[u] # "broken"
             PROVE  clients[c].participants[u] # NoInfo
  BY DEF ChatAttributable
<1> DEFINE q == broadcast_rx[c]
           x == clients[c].participants[u]
<1>1. /\ q \in Messages /\ q # <<>> /\ pc[c] = "running" /\ lagged[c] = "no"
      /\ LoggedIn(clients[c]) /\ socket[c] = "open"
  BY StreamingFacts DEF Listed, MgmtTypeOK, Messages, HasBroadcast, Current
<1>2. NoInfo.username = NoName
  BY DEF NoInfo, Info
<1>3. CASE c = u
  <2>1. x.username # NoName
    BY <1>1, <1>3 DEF Listed, ToldOwn
  <2> QED BY <1>2, <2>1
<1>4. CASE c # u
  <2>1. Known(u, q, x)
    BY <1>1, <1>4 DEF Listed, ToldAll, Told, Shown, Live
  <2> HIDE DEF q, x
  <2>2. Head(q).packet.user_id = u /\ NeedsEntry(Head(q).packet)
    BY DEF q, PlainNews, NeedsEntry
  <2>3. /\ 1 \in About(u, q) /\ q[1] = Head(q)
        /\ \A j \in About(u, q) : j \in Nat /\ j >= 1
    BY <1>1, <2>2, TailUp
  <2>4. ~\E j \in About(u, q) : j < 1
    BY <2>3
  <2>5. x.username # NoName
    BY <2>1, <2>2, <2>3, <2>4 DEF Known
  <2> QED BY <1>2, <2>5 DEF x
<1> QED BY <1>3, <1>4

\* When nothing is under way any more, the list of every client that is logged
\* in, connected and not lagging agrees with the server's map about every other
\* user whose connection did not break: the snapshot a login reads entry by entry
\* and the broadcasts that overtake it add up, whatever was interleaved with it.
THEOREM ListsConverge ==
    ASSUME PortReuse = FALSE
    PROVE  MgmtSpec => []ViewsConverge
<1>1. Listed /\ [MgmtNext]_mgmtAll => Listed'
  BY ListedStep
<1> QED BY <1>1, ListedInit, ListedConverges, PTL DEF MgmtSpec

\* A chat message about to be shown is from somebody on the client's list: a
\* user's name is broadcast before its first message and is in every snapshot
\* taken after that, so that no message comes without its name.
THEOREM ChatIsAttributable ==
    ASSUME PortReuse = FALSE
    PROVE  MgmtSpec => []ChatAttributable
<1>1. Listed /\ [MgmtNext]_mgmtAll => Listed'
  BY ListedStep
<1> QED BY <1>1, ListedInit, ListedAttributes, PTL DEF MgmtSpec
=============================================================================
