-------------------------- MODULE VoiceServerProofs -------------------------
(***************************************************************************)
(* Theorems about the whole server, for every value of the constants with  *)
(* a relay that listens, ports that are not reused under a handler that    *)
(* still runs, and connections over each of which requests come only once  *)
(* its own user's voice authentication has succeeded (Eager = {}).         *)
(*                                                                         *)
(* The argument.  Every step of the whole server is a step of the relay    *)
(* over an event stream (RelayOf), so what RelayProofs shows of the relay  *)
(* carries over.  Three things have to be known of the management half for *)
(* that: a join is on its way from the client to the relay only if the     *)
(* client is authenticated (Granted); a client is given no token but its   *)
(* own (Proper); and the events waiting are never more than the requests,  *)
(* arrivals and departures they report (Counted, by counting tickets).     *)
(* That the two halves agree who is in voice is Synced: the event that is  *)
(* still among the effects of a handler, or else the last one about it in  *)
(* the queue, or else its session, says what its entry in `users` says.    *)
(***************************************************************************)
EXTENDS VoiceServer, ManagementServerProofs, FiniteSetTheorems

RP == INSTANCE RelayProofs WITH
          phase <- StreamPhase,
          Backlog <- MaxUsers * (MaxRequests + 2) + 1

-----------------------------------------------------------------------------
(* The parts of the invariant.                                              *)

IsEvent(q, i) == q[i].do = "event"
HasEvent(q) == \E i \in 1..Len(q) : IsEvent(q, i)
OneEvent(q) == \A i, j \in 1..Len(q) : IsEvent(q, i) /\ IsEvent(q, j) => i = j
OwnToken(h, q) ==
    \A i \in 1..Len(q) : q[i].do = "write" => q[i].packet.voice_token \in {0, Token[h]}

\* A handler has at most one event to send and no token to write but that of
\* its user; a client is answered by a handler that has started, and a handler
\* stops because the connection has ended.
Proper(h) ==
    /\ OneEvent(effects[h]) /\ OwnToken(h, effects[h])
    /\ clients[h].voice_token \in {0, Token[h]}
    /\ clients[h].login = "answered" => pc[h] \notin {"none", "spawned"}
    /\ pc[h] \in {"exiting", "done"} => socket[h] \in {"closed", "broken"}

Asks(q) == \E i \in 1..Len(q) : q[i].type = "Join"
WillJoin(h, q) == \E i \in 1..Len(q) : IsEvent(q, i) /\ q[i].event = VoiceJoined(h)

\* Only the handler of an authenticated client is asked to join, or has that
\* to report.
Granted(h) ==
    Asks(inbox[h]) \/ Asks(packet_buffer[h]) \/ WillJoin(h, effects[h]) => authed[h]

\* The requests of h that no event has been sent for, and may be.
Owed(h) ==
    (Len(inbox[h]) + Len(packet_buffer[h])) + (IF HasEvent(effects[h]) THEN 1 ELSE 0)

\* The events sent about h are at most Reported(h): its arrival, its departure
\* and one for each request that is no longer owed.
Begun(h) == IF pc[h] \in {"none", "spawned"} THEN 0 ELSE IF pc[h] = "done" THEN 2 ELSE 1
Reported(h) == Begun(h) + (requests[h] - Owed(h))

Tickets == {t \in UserIds \X (1..(MaxRequests + 2)) : t[2] <= Reported(t[1])}

Counted ==
    /\ \A h \in UserIds : Owed(h) <= requests[h]
    /\ Len(events) <= Cardinality(Tickets)

\* What the relay is told, or will be, about h being in voice.
Tells(h, voice) ==
    IF HasEvent(effects[h]) THEN WillJoin(h, effects[h]) <=> voice
    ELSE RP!WillHave(h, voice)
Synced(h) ==
    /\ pc[h] = "spawned" => Self(h).in_voice = FALSE
    /\ pc[h] = "running" /\ socket[h] # "broken" =>
         \A voice \in BOOLEAN : Self(h).in_voice = voice => Tells(h, voice)

-----------------------------------------------------------------------------
(* What a step of a handler does to its own queues, by kind.                *)

\* The first thing left to do is done.
Finishes(h) ==
    /\ effects[h] # <<>> /\ effects' = [effects EXCEPT ![h] = Tail(@)]
    /\ events' = IF Head(effects[h]).do = "event"
                 THEN Append(events, Head(effects[h]).event) ELSE events
    /\ UNCHANGED <<users, pc, inbox, packet_buffer>>

\* A write fails, and what is left is dropped.
Abandons(h) ==
    /\ socket[h] = "broken" /\ effects' = [effects EXCEPT ![h] = <<>>]
    /\ UNCHANGED <<users, pc, events, inbox, packet_buffer>>

\* A login collects: at most the response under construction changes.
Fills(h) ==
    /\ UNCHANGED <<users, pc, events, inbox, packet_buffer>>
    /\ \E new : /\ new.do = "write" /\ effects[h] # <<>> /\ effects[h][1].do = "write"
                /\ new.packet.voice_token = effects[h][1].packet.voice_token
                /\ \/ UNCHANGED effects
                   \/ effects' = [effects EXCEPT ![h] = [@ EXCEPT ![1] = new]]

\* A packet is handled.
Takes(h) ==
    /\ pc[h] = "running" /\ effects[h] = <<>> /\ packet_buffer[h] # <<>>
    /\ packet_buffer' = [packet_buffer EXCEPT ![h] = Tail(@)]
    /\ UNCHANGED <<pc, events, inbox>>
    /\ \E q, user :
         /\ effects' = [effects EXCEPT ![h] = q]
         /\ users' = [users EXCEPT ![address[h]] = user]
         /\ OneEvent(q) /\ OwnToken(h, q)
         /\ CASE Head(packet_buffer[h]).type = "Join" ->
                   /\ HasEvent(q) /\ WillJoin(h, q) /\ user.in_voice
              [] Head(packet_buffer[h]).type = "Leave" ->
                   /\ HasEvent(q) /\ ~WillJoin(h, q) /\ ~user.in_voice
              [] OTHER -> /\ ~HasEvent(q) /\ user.in_voice = Self(h).in_voice

Reads(h) ==
    /\ pc[h] = "running" /\ packet_buffer[h] = <<>>
    /\ packet_buffer' = [packet_buffer EXCEPT ![h] = inbox[h]]
    /\ inbox' = [inbox EXCEPT ![h] = <<>>]
    /\ UNCHANGED <<users, pc, events, effects>>

\* The task is over but for its farewell.
Quits(h) ==
    /\ pc[h] = "running" /\ pc' = [pc EXCEPT ![h] = "exiting"] /\ effects[h] = <<>>
    /\ socket[h] \in {"closed", "broken"}
    /\ \E q : /\ effects' = [effects EXCEPT ![h] = q]
              /\ \A i \in 1..Len(q) : q[i].do = "broadcast"
    /\ users' = users \/ users' = [users EXCEPT ![address[h]] = NoUser]
    /\ UNCHANGED <<events, inbox, packet_buffer>>

Rests(h) == UNCHANGED <<users, pc, events, effects, inbox, packet_buffer>>

\* Those are all the kinds there are.
LEMMA OutcomeOf ==
    ASSUME RelayListens = TRUE, Streaming, NEW h \in UserIds, HandlerStep(h)
    PROVE  /\ UNCHANGED <<address, requests, socket>>
           /\ \/ Start(h) \/ Exit(h) \/ Finishes(h) \/ Abandons(h) \/ Fills(h)
              \/ Takes(h) \/ Reads(h) \/ Quits(h) \/ Rests(h)
<1> USE DEF handlerVars, channelVars, clientVars
<1>0. /\ Shape /\ OnlyVoice(h, effects[h]) /\ effects \in [UserIds -> Seq(Effect)]
      /\ users \in [Addresses -> User]
      /\ pc[h] = "running" =>
           /\ address[h] \in Addresses /\ Self(h) \in User /\ Self(h).id = h
           /\ Self(h).token = Token[h]
  BY DEF Streaming, Owned, Shape, MgmtTypeOK, OwnEffects, HandlerOwnsEntry, Self
<1>1. UNCHANGED <<address, requests, socket>>
  BY DEF HandlerStep, Start, Exit, SendEvent, SendBroadcast, WriteResponse, RejectLogin,
         HandleLogin, Collect, HandleJoinVoiceChannel, HandleLeaveVoiceChannel,
         HandleChatMessage, HandleUserMuteState, HandlePing, Handling, Read, Disconnect,
         DeliverBroadcast, BroadcastWriteFails, NoticeLag
<1>2. ASSUME SendEvent(h) PROVE Finishes(h)
  BY <1>2, RelayListens = TRUE DEF SendEvent, Due, Sent, Finishes
<1>3. ASSUME SendBroadcast(h) PROVE Finishes(h)
  BY <1>3 DEF SendBroadcast, Due, Finishes
<1>4. ASSUME WriteResponse(h) PROVE Finishes(h) \/ Abandons(h)
  BY <1>4 DEF WriteResponse, Due, Finishes, Abandons, CanWrite
<1>5. ASSUME NEW a \in Addresses, Collect(h, a) PROVE Fills(h)
  <2> DEFINE u == users[a]
             old == effects[h][1]
             new == [old EXCEPT !.packet.participants[u.id] =
                        Info(u.username, u.in_voice, u.is_muted)]
  <2>1. /\ effects[h] \in Seq(Effect) /\ effects[h] # <<>>
        /\ old \in Effect /\ old.do = "write"
    BY <1>0, <1>5 DEF Collect, Shape, MgmtTypeOK
  <2>2. old \in [do : {"write"}, packet : Response]
    BY <2>1 DEF Effect
  <2>3. new.do = "write" /\ new.packet.voice_token = old.packet.voice_token
    BY <2>2 DEF Response
  <2>4. effects' = effects \/ effects' = [effects EXCEPT ![h] = [@ EXCEPT ![1] = new]]
    BY <1>5 DEF Collect
  <2> HIDE DEF new
  <2> QED BY <1>5, <2>1, <2>3, <2>4 DEF Collect, Fills
<1>6. ASSUME NEW type, type \notin {"Join", "Leave"}, Handles(h, type),
             NEW q, effects' = [effects EXCEPT ![h] = q],
             NEW user, users' = [users EXCEPT ![address[h]] = user],
             user.in_voice = Self(h).in_voice,
             packet_buffer' = [packet_buffer EXCEPT ![h] = Tail(@)],
             UNCHANGED <<pc, events, inbox>>,
             OwnToken(h, q), ~HasEvent(q)
      PROVE  Takes(h)
  <2>1. OneEvent(q)
    BY <1>6 DEF OneEvent, HasEvent
  <2> QED BY <1>6, <2>1 DEF Handles, Takes
<1>7. ASSUME NEW p, p.voice_token \in {0, Token[h]}
      PROVE  OwnToken(h, <<Write(p)>>) /\ ~HasEvent(<<Write(p)>>)
  BY <1>7 DEF OwnToken, HasEvent, IsEvent, Write, Cast
<1>24. ASSUME NEW p, p.voice_token \in {0, Token[h]}, NEW m
       PROVE  /\ OwnToken(h, <<Write(p), Cast(m)>>)
              /\ ~HasEvent(<<Write(p), Cast(m)>>)
  BY <1>24 DEF OwnToken, HasEvent, IsEvent, Write, Cast
<1>8. \A m : OwnToken(h, <<Cast(m)>>) /\ ~HasEvent(<<Cast(m)>>)
  BY DEF OwnToken, HasEvent, IsEvent, Cast
<1>9. /\ \A type, r : PlainResponse(type, r).voice_token = 0
      /\ \A r, i, t, l : LoginResponse(r, i, t, l).voice_token = t
  BY DEF PlainResponse, LoginResponse
<1>10. users' = users /\ pc[h] = "running" =>
          users' = [users EXCEPT ![address[h]] = Self(h)]
  BY <1>0 DEF Self
<1>11. ASSUME RejectLogin(h) PROVE Takes(h)
  <2> DEFINE p == LoginResponse(Packet(h).request_id, 0, 0, Nobody)
  <2>1. p.voice_token = 0 /\ effects' = [effects EXCEPT ![h] = <<Write(p)>>]
    BY <1>9, <1>11 DEF RejectLogin
  <2> HIDE DEF p
  <2>2. OwnToken(h, <<Write(p)>>) /\ ~HasEvent(<<Write(p)>>)
    BY <1>7, <2>1
  <2>3. /\ Handles(h, "Login") /\ UNCHANGED <<pc, events, inbox>>
        /\ users' = [users EXCEPT ![address[h]] = Self(h)]
        /\ packet_buffer' = [packet_buffer EXCEPT ![h] = Tail(@)]
    BY <1>10, <1>11 DEF RejectLogin, Handles
  <2> QED BY <1>6, <2>1, <2>2, <2>3
<1>12. ASSUME HandlePing(h) PROVE Takes(h)
  <2>1. PICK p : p.voice_token = 0 /\ effects' = [effects EXCEPT ![h] = <<Write(p)>>]
    BY <1>9, <1>12 DEF HandlePing
  <2>2. OwnToken(h, <<Write(p)>>) /\ ~HasEvent(<<Write(p)>>)
    BY <1>7, <2>1
  <2>3. /\ Handles(h, "Ping") /\ UNCHANGED <<pc, events, inbox>>
        /\ users' = [users EXCEPT ![address[h]] = Self(h)]
        /\ packet_buffer' = [packet_buffer EXCEPT ![h] = Tail(@)]
    BY <1>10, <1>12 DEF HandlePing, Handles
  <2> QED BY <1>6, <2>1, <2>2, <2>3
<1>13. ASSUME NEW type, NEW user, NEW rest, Handling(h, type, user, rest)
       PROVE  /\ Handles(h, type) /\ UNCHANGED <<pc, events, inbox>>
              /\ users' = [users EXCEPT ![address[h]] = user]
              /\ effects' = [effects EXCEPT ![h] = rest]
              /\ packet_buffer' = [packet_buffer EXCEPT ![h] = Tail(@)]
              /\ Self(h) \in User /\ Self(h).id = h /\ Self(h).token = Token[h]
  <2>1. Self(h).id # 0
    <3>1. Live(h)
      BY <1>13 DEF Handling, Handles, Live
    <3> QED BY <3>1, StreamingFacts
  <2> QED BY <1>0, <1>13, <2>1 DEF Handling, Handles
<1>14. ASSUME HandleLogin(h) PROVE Takes(h)
  <2> DEFINE user == [Self(h) EXCEPT !.username = Packet(h).username]
  <2>1. \E r, l, m : Handling(h, "Login", user,
                   <<Write(LoginResponse(r, Self(h).id, Self(h).token, l)), Cast(m)>>)
    BY <1>14 DEF HandleLogin
  <2>2. PICK r, l, m : Handling(h, "Login", user,
                   <<Write(LoginResponse(r, Self(h).id, Self(h).token, l)), Cast(m)>>)
    BY <2>1
  <2> DEFINE q == <<Write(LoginResponse(r, Self(h).id, Self(h).token, l)), Cast(m)>>
  <2> HIDE DEF user, q
  <2>3. /\ Handles(h, "Login") /\ UNCHANGED <<pc, events, inbox>>
        /\ users' = [users EXCEPT ![address[h]] = user]
        /\ effects' = [effects EXCEPT ![h] = q]
        /\ packet_buffer' = [packet_buffer EXCEPT ![h] = Tail(@)]
        /\ Self(h) \in User /\ Self(h).token = Token[h]
    BY <1>13, <2>2 DEF q
  <2>4. user.in_voice = Self(h).in_voice
    BY <2>3 DEF user, User
  <2> DEFINE p == LoginResponse(r, Self(h).id, Self(h).token, l)
  <2>5. p.voice_token \in {0, Token[h]} /\ q = <<Write(p), Cast(m)>>
    BY <1>9, <2>3 DEF q
  <2> HIDE DEF p
  <2>6. OwnToken(h, q) /\ ~HasEvent(q)
    BY <1>24, <2>5
  <2> QED BY <1>6, <2>3, <2>4, <2>6
<1>15. ASSUME HandleChatMessage(h) PROVE Takes(h)
  <2>1. PICK p, m : p.voice_token = 0 /\ Handling(h, "Chat", Self(h), <<Write(p), Cast(m)>>)
    BY <1>9, <1>15 DEF HandleChatMessage
  <2>2. OwnToken(h, <<Write(p), Cast(m)>>) /\ ~HasEvent(<<Write(p), Cast(m)>>)
    BY <1>24, <2>1
  <2>3. /\ Handles(h, "Chat") /\ UNCHANGED <<pc, events, inbox>>
        /\ users' = [users EXCEPT ![address[h]] = Self(h)]
        /\ effects' = [effects EXCEPT ![h] = <<Write(p), Cast(m)>>]
        /\ packet_buffer' = [packet_buffer EXCEPT ![h] = Tail(@)]
    BY <1>13, <2>1
  <2> QED BY <1>6, <2>2, <2>3
<1>16. ASSUME HandleUserMuteState(h) PROVE Takes(h)
  <2> DEFINE user == [Self(h) EXCEPT !.is_muted = Packet(h).is_muted]
  <2>1. PICK m : Handling(h, "Mute", user, <<Cast(m)>>)
    BY <1>16 DEF HandleUserMuteState
  <2> HIDE DEF user
  <2>2. /\ Handles(h, "Mute") /\ UNCHANGED <<pc, events, inbox>>
        /\ users' = [users EXCEPT ![address[h]] = user]
        /\ effects' = [effects EXCEPT ![h] = <<Cast(m)>>]
        /\ packet_buffer' = [packet_buffer EXCEPT ![h] = Tail(@)]
        /\ Self(h) \in User
    BY <1>13, <2>1
  <2>3. user.in_voice = Self(h).in_voice
    BY <2>2 DEF user, User
  <2> QED BY <1>6, <1>8, <2>2, <2>3
<1>17. ASSUME NEW p, NEW e, NEW m, p.voice_token = 0
       PROVE  LET q == <<Write(p), Emit(e), Cast(m)>> IN
              /\ OneEvent(q) /\ HasEvent(q) /\ OwnToken(h, q)
              /\ WillJoin(h, q) <=> e = VoiceJoined(h)
  BY <1>17 DEF OneEvent, HasEvent, OwnToken, IsEvent, WillJoin, Write, Emit, Cast
<1>18. ASSUME HandleJoinVoiceChannel(h) PROVE Takes(h)
  <2> DEFINE user == [Self(h) EXCEPT !.in_voice = TRUE, !.is_muted = FALSE]
  <2>1. PICK r, m : Handling(h, "Join", user,
              <<Write(PlainResponse("JoinResponse", r)), Emit(VoiceJoined(Self(h).id)), Cast(m)>>)
    BY <1>18 DEF HandleJoinVoiceChannel
  <2> DEFINE q == <<Write(PlainResponse("JoinResponse", r)), Emit(VoiceJoined(h)), Cast(m)>>
  <2> HIDE DEF user, q
  <2>2. /\ Handles(h, "Join") /\ UNCHANGED <<pc, events, inbox>>
        /\ users' = [users EXCEPT ![address[h]] = user]
        /\ effects' = [effects EXCEPT ![h] = q]
        /\ packet_buffer' = [packet_buffer EXCEPT ![h] = Tail(@)]
        /\ Self(h) \in User
    BY <1>13, <2>1 DEF q
  <2>3. user.in_voice
    BY <2>2 DEF user, User
  <2>4. OneEvent(q) /\ HasEvent(q) /\ OwnToken(h, q) /\ WillJoin(h, q)
    BY <1>9, <1>17 DEF q
  <2> QED BY <2>2, <2>3, <2>4 DEF Takes, Handles
<1>19. ASSUME HandleLeaveVoiceChannel(h) PROVE Takes(h)
  <2> DEFINE user == [Self(h) EXCEPT !.in_voice = FALSE, !.is_muted = FALSE]
  <2>1. PICK r, m : Handling(h, "Leave", user,
              <<Write(PlainResponse("LeaveResponse", r)), Emit(VoiceLeft(Self(h).id)), Cast(m)>>)
    BY <1>19 DEF HandleLeaveVoiceChannel
  <2> DEFINE q == <<Write(PlainResponse("LeaveResponse", r)), Emit(VoiceLeft(h)), Cast(m)>>
  <2> HIDE DEF user, q
  <2>2. /\ Handles(h, "Leave") /\ UNCHANGED <<pc, events, inbox>>
        /\ users' = [users EXCEPT ![address[h]] = user]
        /\ effects' = [effects EXCEPT ![h] = q]
        /\ packet_buffer' = [packet_buffer EXCEPT ![h] = Tail(@)]
        /\ Self(h) \in User
    BY <1>13, <2>1 DEF q
  <2>3. ~user.in_voice
    BY <2>2 DEF user, User
  <2>4. VoiceLeft(h) # VoiceJoined(h)
    BY DEF VoiceLeft, VoiceJoined
  <2>5. OneEvent(q) /\ HasEvent(q) /\ OwnToken(h, q) /\ ~WillJoin(h, q)
    BY <1>9, <1>17, <2>4 DEF q
  <2> QED BY <2>2, <2>3, <2>5 DEF Takes, Handles
<1>20. ASSUME Read(h) PROVE Reads(h)
  BY <1>20 DEF Read, AtSelect, Reads
<1>21. ASSUME Disconnect(h) PROVE Quits(h)
  <2>1. \A i \in 1..Len(Farewell(Self(h))) : Farewell(Self(h))[i].do = "broadcast"
    BY DEF Farewell, Cast
  <2> QED BY <1>21, <2>1 DEF Disconnect, AtSelect, Quits
<1>22. ASSUME BroadcastWriteFails(h) PROVE Quits(h)
  <2>1. /\ effects' = [effects EXCEPT ![h] = <<>>] /\ effects[h] = <<>>
        /\ pc[h] = "running" /\ pc' = [pc EXCEPT ![h] = "exiting"]
        /\ socket[h] = "broken" /\ UNCHANGED <<users, events, inbox, packet_buffer>>
    BY <1>0, <1>22 DEF BroadcastWriteFails, HasBroadcast, AtSelect, CanWrite
  <2>2. \A i \in 1..Len(<<>>) : <<>>[i].do = "broadcast"
    OBVIOUS
  <2> QED BY <2>1, <2>2 DEF Quits
<1>23. ASSUME DeliverBroadcast(h) \/ NoticeLag(h) PROVE Rests(h)
  BY <1>23 DEF DeliverBroadcast, NoticeLag, Rests
<1> QED
  BY <1>1, <1>2, <1>3, <1>4, <1>5, <1>11, <1>12, <1>14, <1>15, <1>16, <1>18, <1>19,
     <1>20, <1>21, <1>22, <1>23 DEF HandlerStep


-----------------------------------------------------------------------------
(* What is left to do, after its head is done or the login's list has grown.*)

LEMMA TailFacts ==
    ASSUME NEW h, NEW q \in Seq(Effect), q # <<>>, OneEvent(q)
    PROVE  /\ OneEvent(Tail(q))
           /\ OwnToken(h, q) => OwnToken(h, Tail(q))
           /\ Head(q).do = "event" =>
                /\ HasEvent(q) /\ ~HasEvent(Tail(q))
                /\ WillJoin(h, q) <=> Head(q).event = VoiceJoined(h)
           /\ Head(q).do # "event" =>
                /\ HasEvent(Tail(q)) <=> HasEvent(q)
                /\ WillJoin(h, Tail(q)) <=> WillJoin(h, q)
<1> DEFINE t == Tail(q)
<1>1. /\ Len(q) \in Nat /\ Len(t) = Len(q) - 1 /\ 1 \in 1..Len(q) /\ Head(q) = q[1]
      /\ \A i \in 1..Len(t) : t[i] = q[i + 1]
  BY HeadTailProperties, LenProperties, EmptySeq
<1> HIDE DEF t
<1>2. \A i \in 1..Len(t) : i + 1 \in 1..Len(q) /\ i + 1 # 1
  BY <1>1
<1>3. \A i \in 1..Len(q) : i # 1 => i - 1 \in 1..Len(t) /\ t[i - 1] = q[i]
  <2> SUFFICES ASSUME NEW i \in 1..Len(q), i # 1
               PROVE  i - 1 \in 1..Len(t) /\ t[i - 1] = q[i]
    OBVIOUS
  <2>1. i - 1 \in 1..Len(t) /\ (i - 1) + 1 = i
    BY <1>1
  <2> QED BY <1>1, <2>1
<1>4. OneEvent(t)
  <2> SUFFICES ASSUME NEW i \in 1..Len(t), NEW j \in 1..Len(t), IsEvent(t, i), IsEvent(t, j)
               PROVE  i = j
    BY DEF OneEvent
  <2>1. i + 1 = j + 1
    BY <1>1, <1>2 DEF OneEvent, IsEvent
  <2> QED BY <1>1, <2>1
<1>5. OwnToken(h, q) => OwnToken(h, t)
  BY <1>1, <1>2 DEF OwnToken
<1>6. ASSUME Head(q).do = "event"
      PROVE  /\ HasEvent(q) /\ ~HasEvent(t)
             /\ WillJoin(h, q) <=> Head(q).event = VoiceJoined(h)
  <2>1. IsEvent(q, 1)
    BY <1>1, <1>6 DEF IsEvent
  <2>2. \A i \in 1..Len(q) : IsEvent(q, i) => i = 1
    BY <1>1, <2>1 DEF OneEvent
  <2>3. ~HasEvent(t)
    BY <1>1, <1>2, <2>2 DEF HasEvent, IsEvent
  <2> QED BY <1>1, <2>1, <2>2, <2>3 DEF HasEvent, WillJoin
<1>7. ASSUME Head(q).do # "event"
      PROVE  /\ HasEvent(t) <=> HasEvent(q)
             /\ WillJoin(h, t) <=> WillJoin(h, q)
  <2>1. ~IsEvent(q, 1)
    BY <1>1, <1>7 DEF IsEvent
  <2>2. \A i \in 1..Len(t) : IsEvent(t, i) <=> IsEvent(q, i + 1)
    BY <1>1 DEF IsEvent
  <2>3. \A i \in 1..Len(q) : i # 1 => (IsEvent(q, i) <=> IsEvent(t, i - 1))
    BY <1>3 DEF IsEvent
  <2>4. HasEvent(t) <=> HasEvent(q)
    BY <1>2, <1>3, <2>1, <2>2, <2>3 DEF HasEvent
  <2>5. WillJoin(h, t) => WillJoin(h, q)
    BY <1>1, <1>2, <2>2 DEF WillJoin
  <2>6. WillJoin(h, q) => WillJoin(h, t)
    BY <1>3, <2>1, <2>3 DEF WillJoin
  <2> QED BY <2>4, <2>5, <2>6
<1> QED BY <1>4, <1>5, <1>6, <1>7 DEF t

LEMMA FilledFacts ==
    ASSUME NEW h, NEW q \in Seq(Effect), q # <<>>, q[1].do = "write", NEW new,
           new.do = "write", new.packet.voice_token = q[1].packet.voice_token,
           NEW t, t = [q EXCEPT ![1] = new]
    PROVE  /\ OneEvent(q) => OneEvent(t)
           /\ OwnToken(h, q) => OwnToken(h, t)
           /\ HasEvent(t) <=> HasEvent(q)
           /\ WillJoin(h, t) <=> WillJoin(h, q)
<1>1. /\ Len(t) = Len(q) /\ Len(q) \in Nat /\ 1 \in 1..Len(q)
      /\ \A i \in 1..Len(q) : t[i] = IF i = 1 THEN new ELSE q[i]
  BY LenProperties, EmptySeq
<1>2. \A i \in 1..Len(q) : IsEvent(t, i) <=> IsEvent(q, i)
  BY <1>1 DEF IsEvent
<1>3. \A i \in 1..Len(q) : IsEvent(q, i) => t[i] = q[i]
  BY <1>1 DEF IsEvent
<1>4. OwnToken(h, q) => OwnToken(h, t)
  BY <1>1 DEF OwnToken
<1> QED BY <1>1, <1>2, <1>3, <1>4 DEF OneEvent, HasEvent, WillJoin

LEMMA NoEffects ==
    \A h : /\ OneEvent(<<>>) /\ OwnToken(h, <<>>) /\ ~HasEvent(<<>>) /\ ~WillJoin(h, <<>>)
BY DEF OneEvent, OwnToken, HasEvent, WillJoin

LEMMA OnlyBroadcasts ==
    ASSUME NEW q, \A i \in 1..Len(q) : q[i].do = "broadcast"
    PROVE  /\ OneEvent(q) /\ ~HasEvent(q)
           /\ \A h : OwnToken(h, q) /\ ~WillJoin(h, q)
BY DEF OneEvent, OwnToken, HasEvent, WillJoin, IsEvent

\* What a step of handler h makes of its own effects.
LEMMA EffectsOf ==
    ASSUME RelayListens = TRUE, Streaming, NEW h \in UserIds, HandlerStep(h),
           OneEvent(effects[h]), OwnToken(h, effects[h])
    PROVE  /\ OneEvent(effects'[h]) /\ OwnToken(h, effects'[h])
           /\ \A k \in UserIds : k # h => effects'[k] = effects[k] /\ pc'[k] = pc[k]
<1>1. effects \in [UserIds -> Seq(Effect)] /\ DOMAIN pc = UserIds
  BY DEF Streaming, Owned, Shape, MgmtTypeOK
<1>2. CASE Start(h) \/ Exit(h)
  BY <1>1, <1>2 DEF Start, Exit
<1>3. CASE Finishes(h)
  BY <1>1, <1>3, TailFacts DEF Finishes
<1>4. CASE Abandons(h)
  BY <1>1, <1>4, NoEffects DEF Abandons
<1>5. CASE Fills(h)
  <2>1. PICK new : /\ new.do = "write" /\ effects[h] # <<>> /\ effects[h][1].do = "write"
                   /\ new.packet.voice_token = effects[h][1].packet.voice_token
                   /\ \/ UNCHANGED effects
                      \/ effects' = [effects EXCEPT ![h] = [@ EXCEPT ![1] = new]]
    BY <1>5 DEF Fills
  <2> DEFINE t == [effects[h] EXCEPT ![1] = new]
  <2>2. OneEvent(t) /\ OwnToken(h, t)
    BY <1>1, <2>1, FilledFacts
  <2>3. UNCHANGED effects \/ effects' = [effects EXCEPT ![h] = t]
    BY <2>1
  <2> HIDE DEF t
  <2> QED BY <1>1, <1>5, <2>2, <2>3 DEF Fills
<1>6. CASE Takes(h)
  <2>1. PICK q : effects' = [effects EXCEPT ![h] = q] /\ OneEvent(q) /\ OwnToken(h, q)
    BY <1>6 DEF Takes
  <2> QED BY <1>1, <1>6, <2>1 DEF Takes
<1>7. CASE Quits(h)
  BY <1>1, <1>7, OnlyBroadcasts DEF Quits
<1>8. CASE Reads(h) \/ Rests(h)
  BY <1>8 DEF Reads, Rests
<1> QED BY <1>2, <1>3, <1>4, <1>5, <1>6, <1>7, <1>8, OutcomeOf

-----------------------------------------------------------------------------
(* A client is given its own token, and only while its handler runs.        *)

\* What a step of handler h makes of the clients.
LEMMA ClientsOf ==
    ASSUME Streaming, NEW h \in UserIds, HandlerStep(h), OwnToken(h, effects[h]),
           NEW k \in UserIds
    PROVE  \/ /\ clients'[k].login = clients[k].login
              /\ clients'[k].voice_token = clients[k].voice_token
           \/ /\ k = h /\ clients'[h].voice_token \in {0, Token[h]}
              /\ pc[h] \in {"running", "exiting"} /\ UNCHANGED pc
<1> USE DEF handlerVars, channelVars, clientVars
<1>1. effects \in [UserIds -> Seq(Effect)] /\ clients \in [UserIds -> Client]
  BY DEF Streaming, Owned, Shape, MgmtTypeOK
<1>2. CASE WriteResponse(h)
  <2> DEFINE p == Head(effects[h]).packet
  <2>1. /\ effects[h] \in Seq(Effect) /\ effects[h] # <<>> /\ Head(effects[h]).do = "write"
        /\ UNCHANGED pc
        /\ clients' = [clients EXCEPT ![h] =
               IF Reaches(h) THEN ReceiveResponse(clients[h], p) ELSE clients[h]]
    BY <1>1, <1>2 DEF WriteResponse, Due
  <2>2. Head(effects[h]) = effects[h][1] /\ 1 \in 1..Len(effects[h])
    BY <2>1, LenProperties, EmptySeq
  <2>3. p.voice_token \in {0, Token[h]}
    BY <2>1, <2>2 DEF OwnToken
  <2>4. pc[h] \in {"running", "exiting"}
    BY <2>1 DEF Streaming, OwnEffects
  <2> HIDE DEF p
  <2>5. ASSUME p.type = "LoginResponse"
        PROVE  ReceiveResponse(clients[h], p).voice_token = p.voice_token
    BY <1>1, <2>5 DEF ReceiveResponse, Client
  <2>6. ASSUME p.type # "LoginResponse"
        PROVE  /\ ReceiveResponse(clients[h], p).voice_token = clients[h].voice_token
               /\ ReceiveResponse(clients[h], p).login = clients[h].login
    BY <1>1, <2>6 DEF ReceiveResponse, Client
  <2>7. CASE k = h
    BY <1>1, <2>1, <2>3, <2>4, <2>5, <2>6, <2>7
  <2>8. CASE k # h
    BY <1>1, <2>1, <2>8
  <2> QED BY <2>7, <2>8
<1>3. CASE DeliverBroadcast(h)
  <2>1. PICK p : clients' = [clients EXCEPT ![h] = ReceiveNews(@, p)] \/ clients' = clients
    BY <1>1, <1>3 DEF DeliverBroadcast
  <2>2. /\ ReceiveNews(clients[h], p).login = clients[h].login
        /\ ReceiveNews(clients[h], p).voice_token = clients[h].voice_token
    BY <1>1 DEF ReceiveNews, Client
  <2> QED BY <1>1, <2>1, <2>2
<1>4. CASE UNCHANGED clients
  BY <1>4
<1> QED
  BY <1>2, <1>3, <1>4
     DEF HandlerStep, Start, Exit, SendEvent, SendBroadcast, RejectLogin, HandleLogin, Collect,
         HandleJoinVoiceChannel, HandleLeaveVoiceChannel, HandleChatMessage,
         HandleUserMuteState, HandlePing, Handling, Read, Disconnect, BroadcastWriteFails,
         NoticeLag

LEMMA ProperInit == MgmtInit => \A h \in UserIds : Proper(h)
BY NoEffects, ProtocolAssumption DEF MgmtInit, Proper, NewClient

LEMMA ProperStep ==
    ASSUME RelayListens = TRUE, Streaming, \A h \in UserIds : Proper(h), [MgmtNext]_mgmtAll
    PROVE  \A h \in UserIds : Proper(h)'
<1> USE DEF handlerVars, channelVars, clientVars
<1>1. /\ effects \in [UserIds -> Seq(Effect)] /\ clients \in [UserIds -> Client]
      /\ DOMAIN pc = UserIds /\ DOMAIN socket = UserIds
      /\ pc \in [UserIds -> {"none", "spawned", "running", "exiting", "done"}]
      /\ socket \in [UserIds -> {"none", "open", "closed", "broken"}]
  BY DEF Streaming, Owned, Shape, MgmtTypeOK
<1>2. ASSUME NEW a \in Addresses, Accept(a) PROVE \A h \in UserIds : Proper(h)'
  <2>1. next_user_id \in UserIds /\ pc[next_user_id] = "none"
    BY <1>2, ProtocolAssumption DEF Accept, Streaming, Owned, Exclusive, UserIds
  <2> QED BY <1>1, <1>2, <2>1 DEF Accept, Proper
<1>3. ASSUME NEW h \in UserIds, HandlerStep(h) PROVE \A k \in UserIds : Proper(k)'
  <2> TAKE k \in UserIds
  <2>1. /\ OneEvent(effects[h]) /\ OwnToken(h, effects[h]) /\ Proper(k) /\ Proper(h)
    BY DEF Proper
  <2>2. OneEvent(effects'[k]) /\ OwnToken(k, effects'[k])
    BY <1>3, <2>1, EffectsOf DEF Proper
  <2>3. /\ UNCHANGED socket
        /\ pc'[k] \in {"none", "spawned"} => pc[k] \in {"none", "spawned"}
        /\ pc'[k] \in {"exiting", "done"} =>
             pc[k] \in {"exiting", "done"} \/ socket[k] \in {"closed", "broken"}
    <3>1. CASE Start(h) \/ Exit(h)
      BY <1>1, <1>3, <3>1 DEF Start, Exit
    <3>2. CASE Quits(h)
      BY <1>1, <1>3, <3>2, OutcomeOf DEF Quits
    <3>3. CASE UNCHANGED pc
      BY <1>3, <3>3, OutcomeOf
    <3> QED BY <1>3, <3>1, <3>2, <3>3, OutcomeOf
            DEF Finishes, Abandons, Fills, Takes, Reads, Rests
  <2>4. /\ clients'[k].voice_token \in {0, Token[k]}
        /\ clients'[k].login = "answered" => pc'[k] \notin {"none", "spawned"}
    BY <1>1, <1>3, <2>1, <2>3, ClientsOf DEF Proper
  <2> QED BY <2>1, <2>2, <2>3, <2>4 DEF Proper
<1>4. ASSUME NEW h \in UserIds, NEW kind \in RequestTypes, ClientRequest(h, kind)
      PROVE  \A k \in UserIds : Proper(k)'
  <2>1. \A k \in UserIds : /\ clients'[k].voice_token = clients[k].voice_token
                           /\ clients'[k].login = "answered" => clients[k].login = "answered"
    BY <1>1, <1>4 DEF ClientRequest, Client
  <2> QED BY <1>4, <2>1 DEF ClientRequest, Proper
<1>5. ASSUME NEW h \in UserIds, ConnectionEnds(h) PROVE \A k \in UserIds : Proper(k)'
  BY <1>1, <1>5 DEF ConnectionEnds, ClientClose, ConnectionBreaks, Proper
<1>6. CASE UNCHANGED mgmtAll
  BY <1>6 DEF mgmtAll, mgmtVars, Proper
<1> QED BY <1>2, <1>3, <1>4, <1>5, <1>6 DEF MgmtNext

-----------------------------------------------------------------------------
(* Who asks to join is authenticated, and a request is one event at most.   *)

LEMMA AsksTail ==
    ASSUME NEW q \in Seq(Request), q # <<>>
    PROVE  /\ Asks(Tail(q)) => Asks(q)
           /\ Head(q).type = "Join" => Asks(q)
<1>1. /\ Len(q) \in Nat /\ Len(Tail(q)) = Len(q) - 1 /\ 1 \in 1..Len(q) /\ Head(q) = q[1]
      /\ \A i \in 1..Len(Tail(q)) : Tail(q)[i] = q[i + 1]
  BY HeadTailProperties, LenProperties, EmptySeq
<1>2. \A i \in 1..Len(Tail(q)) : i + 1 \in 1..Len(q)
  BY <1>1
<1> QED BY <1>1, <1>2 DEF Asks

LEMMA AsksAppend ==
    ASSUME NEW q \in Seq(Request), NEW p \in Request
    PROVE  Asks(Append(q, p)) => Asks(q) \/ p.type = "Join"
<1>1. /\ Len(q) \in Nat /\ Len(Append(q, p)) = Len(q) + 1
      /\ \A i \in 1..Len(q) : Append(q, p)[i] = q[i]
      /\ Append(q, p)[Len(q) + 1] = p
  BY AppendProperties
<1>2. \A i \in 1..Len(Append(q, p)) : i \in 1..Len(q) \/ i = Len(q) + 1
  BY <1>1
<1> HIDE DEF Asks
<1> QED BY <1>1, <1>2 DEF Asks

LEMMA AsksEmpty == ~Asks(<<>>)
BY DEF Asks

LEMMA WillJoinHasEvent == \A h, q : WillJoin(h, q) => HasEvent(q)
BY DEF WillJoin, HasEvent

LEMMA QueueTypes ==
    ASSUME Streaming, NEW h \in UserIds
    PROVE  /\ inbox[h] \in Seq(Request) /\ packet_buffer[h] \in Seq(Request)
           /\ effects[h] \in Seq(Effect) /\ requests[h] \in 0..MaxRequests
           /\ DOMAIN inbox = UserIds /\ DOMAIN packet_buffer = UserIds
           /\ DOMAIN effects = UserIds /\ DOMAIN pc = UserIds /\ DOMAIN requests = UserIds
           /\ Len(inbox[h]) \in Nat /\ Len(packet_buffer[h]) \in Nat
           /\ requests[h] \in Nat /\ Owed(h) \in Nat
<1>1. /\ inbox[h] \in Seq(Request) /\ packet_buffer[h] \in Seq(Request)
      /\ effects[h] \in Seq(Effect) /\ requests[h] \in 0..MaxRequests
      /\ DOMAIN inbox = UserIds /\ DOMAIN packet_buffer = UserIds
      /\ DOMAIN effects = UserIds /\ DOMAIN pc = UserIds /\ DOMAIN requests = UserIds
  BY DEF Streaming, Owned, Shape, MgmtTypeOK
<1>2. /\ Len(inbox[h]) \in Nat /\ Len(packet_buffer[h]) \in Nat
  BY <1>1, LenProperties
<1> QED BY <1>1, <1>2, ProtocolAssumption DEF Owed

\* A handler's step makes no request and no event out of nothing.
LEMMA QueuesOf ==
    ASSUME RelayListens = TRUE, Streaming, NEW h \in UserIds, HandlerStep(h),
           OneEvent(effects[h])
    PROVE  /\ \A k \in UserIds : k # h =>
                /\ inbox'[k] = inbox[k] /\ packet_buffer'[k] = packet_buffer[k]
                /\ effects'[k] = effects[k] /\ pc'[k] = pc[k]
           /\ Asks(inbox'[h]) => Asks(inbox[h])
           /\ Asks(packet_buffer'[h]) => Asks(inbox[h]) \/ Asks(packet_buffer[h])
           /\ WillJoin(h, effects'[h]) => WillJoin(h, effects[h]) \/ Asks(packet_buffer[h])
           /\ Owed(h)' \in Nat /\ Owed(h)' <= Owed(h)
           /\ \/ events' = events
              \/ Start(h) \/ Exit(h)
              \/ /\ events' = Append(events, Head(effects[h]).event)
                 /\ effects[h] # <<>> /\ Head(effects[h]).do = "event"
                 /\ Owed(h)' <= Owed(h) - 1
<1>1. /\ inbox[h] \in Seq(Request) /\ packet_buffer[h] \in Seq(Request)
      /\ effects[h] \in Seq(Effect)
      /\ DOMAIN inbox = UserIds /\ DOMAIN packet_buffer = UserIds
      /\ DOMAIN effects = UserIds /\ DOMAIN pc = UserIds
      /\ Len(inbox[h]) \in Nat /\ Len(packet_buffer[h]) \in Nat
      /\ Owed(h) \in Nat /\ Owed(h) <= Owed(h)
  BY QueueTypes
<1>2. CASE Start(h) \/ Exit(h)
  <2>1. /\ UNCHANGED <<inbox, packet_buffer, effects>>
        /\ \A k \in UserIds : k # h => pc'[k] = pc[k]
    BY <1>1, <1>2 DEF Start, Exit, clientVars, channelVars
  <2>2. Owed(h)' = Owed(h)
    BY <2>1 DEF Owed
  <2> QED BY <1>1, <1>2, <2>1, <2>2
<1>3. CASE Finishes(h)
  <2> DEFINE t == Tail(effects[h])
  <2>1. effects' = [effects EXCEPT ![h] = t] /\ UNCHANGED <<pc, inbox, packet_buffer>>
    BY <1>3 DEF Finishes
  <2>2. /\ Head(effects[h]).do = "event" => HasEvent(effects[h]) /\ ~HasEvent(t)
        /\ Head(effects[h]).do # "event" => (HasEvent(t) <=> HasEvent(effects[h]))
        /\ WillJoin(h, t) => WillJoin(h, effects[h])
    BY <1>1, <1>3, TailFacts, WillJoinHasEvent DEF Finishes
  <2> HIDE DEF t
  <2>3. Owed(h)' = (Len(inbox[h]) + Len(packet_buffer[h])) + (IF HasEvent(t) THEN 1 ELSE 0)
    BY <1>1, <2>1 DEF Owed
  <2> DEFINE n == Len(inbox[h]) + Len(packet_buffer[h])
  <2>4. n \in Nat /\ Owed(h) = n + (IF HasEvent(effects[h]) THEN 1 ELSE 0)
    BY <1>1 DEF Owed
  <2>5. Owed(h)' = n + (IF HasEvent(t) THEN 1 ELSE 0)
    BY <2>3
  <2> HIDE DEF n
  <2>6. /\ Owed(h)' \in Nat /\ Owed(h)' <= Owed(h)
        /\ Head(effects[h]).do = "event" => Owed(h)' <= Owed(h) - 1
    <3>1. CASE Head(effects[h]).do = "event"
      BY <2>2, <2>4, <2>5, <3>1
    <3>2. CASE Head(effects[h]).do # "event"
      BY <2>2, <2>4, <2>5, <3>2
    <3> QED BY <3>1, <3>2
  <2> QED BY <1>1, <1>3, <2>1, <2>2, <2>6 DEF Finishes
<1>4. CASE Abandons(h)
  BY <1>1, <1>4, NoEffects DEF Abandons, Owed
<1>5. CASE Fills(h)
  <2>1. PICK new : /\ new.do = "write" /\ effects[h] # <<>> /\ effects[h][1].do = "write"
                   /\ new.packet.voice_token = effects[h][1].packet.voice_token
                   /\ \/ UNCHANGED effects
                      \/ effects' = [effects EXCEPT ![h] = [@ EXCEPT ![1] = new]]
    BY <1>5 DEF Fills
  <2> DEFINE t == [effects[h] EXCEPT ![1] = new]
  <2>2. /\ HasEvent(t) <=> HasEvent(effects[h])
        /\ WillJoin(h, t) <=> WillJoin(h, effects[h])
    BY <1>1, <2>1, FilledFacts
  <2>3. UNCHANGED effects \/ effects' = [effects EXCEPT ![h] = t]
    BY <2>1
  <2> HIDE DEF t
  <2> QED BY <1>1, <1>5, <2>2, <2>3 DEF Fills, Owed
<1>6. CASE Takes(h)
  <2>1. PICK q : /\ effects' = [effects EXCEPT ![h] = q]
                 /\ Head(packet_buffer[h]).type # "Join" => ~WillJoin(h, q)
    BY <1>6, WillJoinHasEvent DEF Takes
  <2>2. /\ effects[h] = <<>> /\ packet_buffer[h] # <<>>
        /\ packet_buffer' = [packet_buffer EXCEPT ![h] = Tail(packet_buffer[h])]
        /\ UNCHANGED <<pc, events, inbox>>
    BY <1>6 DEF Takes
  <2>3. /\ Asks(Tail(packet_buffer[h])) => Asks(packet_buffer[h])
        /\ Head(packet_buffer[h]).type = "Join" => Asks(packet_buffer[h])
    BY <1>1, <2>2, AsksTail
  <2>4. Len(Tail(packet_buffer[h])) = Len(packet_buffer[h]) - 1 /\ Len(packet_buffer[h]) > 0
    BY <1>1, <2>2, HeadTailProperties, EmptySeq
  <2> QED BY <1>1, <2>1, <2>2, <2>3, <2>4, NoEffects DEF Owed
<1>7. CASE Reads(h)
  BY <1>1, <1>7, AsksEmpty DEF Reads, Owed
<1>8. CASE Quits(h)
  <2>1. PICK q : /\ effects' = [effects EXCEPT ![h] = q]
                 /\ \A i \in 1..Len(q) : q[i].do = "broadcast"
    BY <1>8 DEF Quits
  <2>2. ~HasEvent(q) /\ ~WillJoin(h, q)
    BY <2>1, OnlyBroadcasts
  <2> QED BY <1>1, <1>8, <2>1, <2>2, NoEffects DEF Quits, Owed
<1>9. CASE Rests(h)
  BY <1>1, <1>9 DEF Rests, Owed
<1> QED BY <1>2, <1>3, <1>4, <1>5, <1>6, <1>7, <1>8, <1>9, OutcomeOf

-----------------------------------------------------------------------------
(* How many events can be waiting: no more than are reported, and no user   *)
(* makes a handler report more than its requests, its coming and its going. *)

LEMMA ReportedTypes ==
    ASSUME Streaming, NEW h \in UserIds, Owed(h) <= requests[h]
    PROVE  /\ Begun(h) \in 0..2 /\ Reported(h) = Begun(h) + (requests[h] - Owed(h))
           /\ Reported(h) \in 0..(MaxRequests + 2)
<1>1. /\ requests[h] \in 0..MaxRequests /\ Owed(h) \in Nat /\ requests[h] \in Nat
      /\ requests[h] <= MaxRequests
  BY QueueTypes, ProtocolAssumption
<1>2. Begun(h) \in 0..2 /\ Reported(h) = Begun(h) + (requests[h] - Owed(h))
  BY DEF Begun, Reported
<1>3. requests[h] - Owed(h) \in 0..MaxRequests
  BY <1>1, ProtocolAssumption
<1> QED BY <1>2, <1>3, ProtocolAssumption

\* The same as a state formula, to be used of the next state too.
LEMMA ReportedRange ==
    Streaming /\ (\A h \in UserIds : Owed(h) <= requests[h])
        => \A h \in UserIds : Reported(h) \in 0..(MaxRequests + 2)
BY ReportedTypes

\* One ticket for each event that can have been sent.
LEMMA TicketsBound ==
    /\ IsFiniteSet(Tickets)
    /\ Cardinality(Tickets) \in Nat
    /\ MaxUsers * (MaxRequests + 2) \in Nat
    /\ Cardinality(Tickets) <= MaxUsers * (MaxRequests + 2)
<1> DEFINE S == 1..(MaxRequests + 2)
<1>1. MaxUsers \in Nat /\ MaxRequests \in Nat
  BY ProtocolAssumption
<1>2. IsFiniteSet(UserIds) /\ Cardinality(UserIds) = MaxUsers
  <2>1. MaxUsers \in Int /\ 1 \in Int
    BY <1>1
  <2>2. /\ IsFiniteSet(1..MaxUsers)
        /\ Cardinality(1..MaxUsers) = IF 1 > MaxUsers THEN 0 ELSE MaxUsers - 1 + 1
    BY <2>1, FS_Interval
  <2> QED BY <1>1, <2>2 DEF UserIds
<1>3. IsFiniteSet(S) /\ Cardinality(S) = MaxRequests + 2
  <2>1. MaxRequests + 2 \in Int /\ 1 \in Int
    BY <1>1
  <2>2. /\ IsFiniteSet(S)
        /\ Cardinality(S) =
             IF 1 > MaxRequests + 2 THEN 0 ELSE (MaxRequests + 2) - 1 + 1
    BY <2>1, FS_Interval
  <2> QED BY <1>1, <2>2
<1> HIDE DEF S
<1>4. IsFiniteSet(UserIds \X S) /\ Cardinality(UserIds \X S) = MaxUsers * (MaxRequests + 2)
  BY <1>2, <1>3, FS_Product
<1>5. Tickets \in SUBSET (UserIds \X S)
  BY DEF Tickets, S
<1>6. IsFiniteSet(Tickets) /\ Cardinality(Tickets) <= Cardinality(UserIds \X S)
  BY <1>4, <1>5, FS_Subset
<1>7. Cardinality(Tickets) \in Nat /\ Cardinality(UserIds \X S) \in Nat
  BY <1>4, <1>6, FS_CardinalityType
<1> QED BY <1>4, <1>6, <1>7

\* What has been reported about a user only grows, and by one with each event.
LEMMA ReportedOf ==
    ASSUME RelayListens = TRUE, Streaming, \A h \in UserIds : Proper(h),
           \A h \in UserIds : Owed(h) <= requests[h], [MgmtNext]_mgmtAll
    PROVE  /\ \A h \in UserIds : Owed(h)' <= requests'[h] /\ Reported(h)' >= Reported(h)
           /\ \/ events' = events
              \/ \E h \in UserIds, e \in Event :
                   events' = Append(events, e) /\ Reported(h)' >= Reported(h) + 1
<1> USE DEF handlerVars, channelVars, clientVars
<1> DEFINE Kept(k) == Owed(k)' <= requests'[k] /\ Reported(k)' >= Reported(k)
<1>1. ASSUME NEW k \in UserIds
      PROVE  /\ Owed(k) \in Nat /\ requests[k] \in Nat /\ Begun(k) \in 0..2
             /\ Reported(k) = Begun(k) + (requests[k] - Owed(k))
             /\ Owed(k) <= requests[k] /\ DOMAIN pc = UserIds
  BY QueueTypes, ReportedTypes
<1>2. ASSUME NEW k \in UserIds,
             UNCHANGED <<inbox[k], packet_buffer[k], effects[k], requests[k]>>,
             Begun(k)' \in 0..2, Begun(k)' >= Begun(k)
      PROVE  Kept(k)
  <2>1. Owed(k)' = Owed(k) /\ requests'[k] = requests[k]
    BY <1>2 DEF Owed
  <2>2. Reported(k)' = Begun(k)' + (requests[k] - Owed(k))
    BY <2>1 DEF Reported
  <2> QED BY <1>1, <1>2, <2>1, <2>2
<1>3. ASSUME UNCHANGED <<inbox, packet_buffer, effects, requests>>,
             \A k \in UserIds : pc'[k] = pc[k] \/ (pc[k] = "none" /\ pc'[k] = "spawned")
      PROVE  \A k \in UserIds : Kept(k)
  <2> SUFFICES ASSUME NEW k \in UserIds PROVE Kept(k)
    OBVIOUS
  <2>1. Begun(k)' = Begun(k)
    BY <1>3 DEF Begun
  <2> QED BY <1>1, <1>2, <1>3, <2>1
<1>4. ASSUME NEW a \in Addresses, Accept(a)
      PROVE  events' = events /\ \A k \in UserIds : Kept(k)
  <2>1. next_user_id \in UserIds /\ pc[next_user_id] = "none"
    BY <1>4, ProtocolAssumption DEF Accept, Streaming, Owned, Exclusive, UserIds
  <2>2. \A k \in UserIds : pc'[k] = pc[k] \/ (pc[k] = "none" /\ pc'[k] = "spawned")
    BY <1>1, <1>4, <2>1 DEF Accept
  <2> QED BY <1>3, <1>4, <2>2 DEF Accept
<1>5. ASSUME NEW h \in UserIds, NEW kind \in RequestTypes, ClientRequest(h, kind)
      PROVE  events' = events /\ \A k \in UserIds : Kept(k)
  <2>1. PICK p : inbox' = [inbox EXCEPT ![h] = Append(inbox[h], p)]
    BY <1>5 DEF ClientRequest
  <2>2. /\ UNCHANGED <<events, packet_buffer, effects, pc>>
        /\ requests' = [requests EXCEPT ![h] = requests[h] + 1]
    BY <1>5 DEF ClientRequest
  <2>3. /\ inbox[h] \in Seq(Request) /\ Len(inbox[h]) \in Nat /\ Len(packet_buffer[h]) \in Nat
        /\ DOMAIN inbox = UserIds /\ DOMAIN requests = UserIds
    BY QueueTypes
  <2>4. Len(Append(inbox[h], p)) = Len(inbox[h]) + 1
    BY <2>3
  <2>5. Owed(h)' = Owed(h) + 1 /\ requests'[h] = requests[h] + 1
    <3> DEFINE n == IF HasEvent(effects[h]) THEN 1 ELSE 0
               m == Len(packet_buffer[h])
    <3>1. n \in Nat /\ m \in Nat
      BY <2>3
    <3>2. Owed(h) = (Len(inbox[h]) + m) + n
      BY DEF Owed
    <3>3. inbox'[h] = Append(inbox[h], p)
      BY <2>1, <2>3
    <3>4. Owed(h)' = (Len(Append(inbox[h], p)) + m) + n
      BY <2>2, <3>3 DEF Owed
    <3> HIDE DEF n, m
    <3>5. Owed(h)' = Owed(h) + 1
      BY <2>3, <2>4, <3>1, <3>2, <3>4
    <3>6. requests'[h] = requests[h] + 1
      BY <2>2, <2>3
    <3> QED BY <3>5, <3>6
  <2>6. Begun(h)' = Begun(h)
    BY <2>2 DEF Begun
  <2>7. Kept(h)
    <3>1. Reported(h)' = Begun(h) + ((requests[h] + 1) - (Owed(h) + 1))
      BY <2>5, <2>6 DEF Reported
    <3> QED BY <1>1, <2>5, <3>1
  <2>8. ASSUME NEW k \in UserIds, k # h PROVE Kept(k)
    <3>1. UNCHANGED <<inbox[k], packet_buffer[k], effects[k], requests[k]>>
      BY <2>1, <2>2, <2>3, <2>8
    <3>2. Begun(k)' = Begun(k)
      BY <2>2 DEF Begun
    <3> QED BY <1>1, <1>2, <3>1, <3>2
  <2> QED BY <2>2, <2>7, <2>8
<1>6. ASSUME NEW h \in UserIds, ConnectionEnds(h)
      PROVE  events' = events /\ \A k \in UserIds : Kept(k)
  BY <1>3, <1>6 DEF ConnectionEnds, ClientClose, ConnectionBreaks
<1>7. CASE UNCHANGED mgmtAll
  BY <1>3, <1>7 DEF mgmtAll, mgmtVars
<1>8. ASSUME NEW h \in UserIds, HandlerStep(h)
      PROVE  /\ \A k \in UserIds : Kept(k)
             /\ \/ events' = events
                \/ \E e \in Event : events' = Append(events, e) /\ Reported(h)' >= Reported(h) + 1
  <2>1. OneEvent(effects[h])
    BY DEF Proper
  <2>2. /\ UNCHANGED requests
        /\ \A k \in UserIds : k # h =>
             UNCHANGED <<inbox[k], packet_buffer[k], effects[k], pc[k]>>
        /\ Owed(h)' \in Nat /\ Owed(h)' <= Owed(h)
    BY <1>8, <2>1, OutcomeOf, QueuesOf
  <2>3. ASSUME NEW k \in UserIds, k # h PROVE Kept(k)
    <3>1. Begun(k)' = Begun(k)
      BY <2>2, <2>3 DEF Begun
    <3> QED BY <1>1, <1>2, <2>2, <2>3, <3>1
  <2>4. ASSUME NEW n \in 0..1, Begun(h)' \in 0..2, Begun(h)' >= Begun(h),
               Begun(h)' >= Begun(h) + n \/ Owed(h)' <= Owed(h) - n
        PROVE  Kept(h) /\ Reported(h)' >= Reported(h) + n
    <3>1. Reported(h)' = Begun(h)' + (requests[h] - Owed(h)')
      BY <2>2 DEF Reported
    <3> QED BY <1>1, <2>2, <2>4, <3>1
  <2>5. CASE Start(h)
    <3>1. /\ pc[h] = "spawned" /\ pc' = [pc EXCEPT ![h] = "running"]
          /\ events' = Append(events, UserConnected(h, Token[h]))
      BY <2>5, RelayListens = TRUE DEF Start, Sent
    <3>2. Begun(h) = 0 /\ Begun(h)' = 1
      BY <1>1, <3>1 DEF Begun
    <3>3. UserConnected(h, Token[h]) \in Event
      BY EventTypesOK, ProtocolAssumption DEF Tokens
    <3> QED BY <2>3, <2>4, <3>1, <3>2, <3>3
  <2>6. CASE Exit(h)
    <3>1. /\ pc[h] = "exiting" /\ pc' = [pc EXCEPT ![h] = "done"]
          /\ events' = Append(events, UserDisconnected(h))
      BY <2>6, RelayListens = TRUE DEF Exit, Sent
    <3>2. Begun(h) = 1 /\ Begun(h)' = 2
      BY <1>1, <3>1 DEF Begun
    <3>3. UserDisconnected(h) \in Event
      BY EventTypesOK
    <3> QED BY <2>3, <2>4, <3>1, <3>2, <3>3
  <2>7. CASE ~Start(h) /\ ~Exit(h)
    <3>1. Begun(h)' = Begun(h)
      <4>1. pc'[h] = pc[h] \/ (pc[h] = "running" /\ pc'[h] = "exiting")
        BY <1>1, <1>8, <2>7, OutcomeOf
           DEF Finishes, Abandons, Fills, Takes, Reads, Quits, Rests
      <4> QED BY <4>1 DEF Begun
    <3>2. CASE events' = events
      BY <1>1, <2>2, <2>3, <2>4, <3>1, <3>2
    <3>3. CASE /\ events' = Append(events, Head(effects[h]).event)
               /\ effects[h] # <<>> /\ Head(effects[h]).do = "event"
               /\ Owed(h)' <= Owed(h) - 1
      <4>1. Head(effects[h]).event \in Event
        BY <3>3, QueueTypes DEF Effect
      <4> QED BY <1>1, <2>2, <2>3, <2>4, <3>1, <3>3, <4>1
    <3> QED BY <1>8, <2>1, <2>7, <3>2, <3>3, QueuesOf
  <2> QED BY <2>5, <2>6, <2>7
<1>9. CASE UNCHANGED mgmtAll
  BY <1>7, <1>9 DEF mgmtAll
<1>10. CASE \E h \in UserIds : HandlerStep(h)
  BY <1>8, <1>10
<1> HIDE DEF Kept
<1>11. CASE MgmtNext /\ ~(\E h \in UserIds : HandlerStep(h))
  <2>1. events' = events /\ \A k \in UserIds : Kept(k)
    BY <1>4, <1>5, <1>6, <1>11 DEF MgmtNext
  <2> QED BY <2>1 DEF Kept
<1> QED BY <1>9, <1>10, <1>11

LEMMA CountedInit == MgmtInit => Counted
<1> SUFFICES ASSUME MgmtInit PROVE Counted
  OBVIOUS
<1>1. \A h \in UserIds : Owed(h) = 0 /\ requests[h] = 0
  <2> TAKE h \in UserIds
  <2>1. /\ inbox[h] = <<>> /\ packet_buffer[h] = <<>> /\ effects[h] = <<>>
        /\ requests[h] = 0
    BY DEF MgmtInit
  <2> QED BY <2>1, NoEffects, EmptySeq DEF Owed
<1>2. Len(events) = 0
  BY EmptySeq DEF MgmtInit
<1> QED BY <1>1, <1>2, TicketsBound DEF Counted

\* A queue that holds no more events than are reported still does after a
\* step of the management server,
LEMMA CountedStep ==
    ASSUME RelayListens = TRUE, PortReuse = FALSE, Streaming,
           \A h \in UserIds : Proper(h), Counted, [MgmtNext]_mgmtAll
    PROVE  Counted'
<1>1. /\ \A h \in UserIds : Owed(h)' <= requests'[h] /\ Reported(h)' >= Reported(h)
      /\ \/ events' = events
         \/ \E h \in UserIds, e \in Event :
              events' = Append(events, e) /\ Reported(h)' >= Reported(h) + 1
  BY ReportedOf DEF Counted
<1>2. /\ events \in Seq(Event) /\ Streaming'
      /\ Len(events) <= Cardinality(Tickets)
  <2>1. Streaming'
    BY StreamingStep, PortReuse = FALSE
  <2>2. events \in Seq(Event)
    BY DEF Streaming, Owned, Shape, MgmtTypeOK
  <2> QED BY <2>1, <2>2 DEF Counted
<1>3. \A h \in UserIds : Reported(h) \in Int /\ Reported(h)' \in 0..(MaxRequests + 2)
  <2>1. \A h \in UserIds : Reported(h) \in 0..(MaxRequests + 2)
    BY ReportedRange DEF Counted
  <2>2. (\A h \in UserIds : Owed(h) <= requests[h])'
    BY <1>1
  <2>3. (\A h \in UserIds : Reported(h) \in 0..(MaxRequests + 2))'
    BY <1>2, <2>2, ReportedRange, PTL
  <2> QED BY <2>1, <2>3, ProtocolAssumption
<1>4. Tickets \subseteq Tickets'
  <2> SUFFICES ASSUME NEW h \in UserIds, NEW n \in 1..(MaxRequests + 2), n <= Reported(h)
               PROVE  n <= Reported(h)'
    BY DEF Tickets
  <2>1. Reported(h)' >= Reported(h) /\ Reported(h) \in Int /\ Reported(h)' \in Int
    BY <1>1, <1>3, ProtocolAssumption
  <2> QED BY <2>1, ProtocolAssumption
<1>5. /\ IsFiniteSet(Tickets) /\ IsFiniteSet(Tickets')
      /\ Cardinality(Tickets) \in Nat /\ Cardinality(Tickets') \in Nat
  <2>1. IsFiniteSet(Tickets) /\ Cardinality(Tickets) \in Nat
    BY TicketsBound
  <2>2. (IsFiniteSet(Tickets) /\ Cardinality(Tickets) \in Nat)'
    BY <2>1, TicketsBound, PTL
  <2> QED BY <2>1, <2>2
<1>6. CASE events' = events
  BY <1>1, <1>2, <1>4, <1>5, <1>6, FS_Subset DEF Counted
<1>7. ASSUME NEW h \in UserIds, NEW e \in Event, events' = Append(events, e),
             Reported(h)' >= Reported(h) + 1
      PROVE  Counted'
  <2> DEFINE t == <<h, Reported(h)'>>
  <2>1. Reported(h)' \in 1..(MaxRequests + 2)
    BY <1>3, <1>7, ReportedRange, ProtocolAssumption DEF Counted
  <2>2. t \in Tickets' /\ t \notin Tickets
    BY <1>3, <1>7, <2>1, ProtocolAssumption DEF Tickets
  <2> HIDE DEF t
  <2>3. /\ IsFiniteSet(Tickets \cup {t})
        /\ Cardinality(Tickets \cup {t}) = Cardinality(Tickets) + 1
    BY <1>5, <2>2, FS_AddElement
  <2>4. Tickets \cup {t} \in SUBSET Tickets'
    BY <1>4, <2>2
  <2>5. Cardinality(Tickets) + 1 <= Cardinality(Tickets')
    BY <1>5, <2>3, <2>4, FS_Subset
  <2>6. Len(events') = Len(events) + 1 /\ Len(events) \in Nat
    BY <1>2, <1>7, AppendProperties
  <2> QED BY <1>1, <1>2, <1>5, <2>5, <2>6 DEF Counted
<1> QED BY <1>1, <1>6, <1>7

\* and after the relay has taken one.
LEMMA CountedTaken ==
    ASSUME Streaming, Counted, RelayStep, UNCHANGED mgmtVars
    PROVE  Counted'
<1>1. \A h \in UserIds : Owed(h)' = Owed(h) /\ requests'[h] = requests[h]
  BY DEF Owed, mgmtVars, handlerVars, clientVars
<1>2. Tickets' = Tickets
  BY DEF Tickets, Reported, Begun, Owed, mgmtVars, handlerVars, clientVars
<1>3. Len(events) \in Nat /\ events \in Seq(Event) /\ Cardinality(Tickets) \in Nat
  BY TicketsBound DEF Streaming, Owned, Shape, MgmtTypeOK
<1>4. events' = events \/ (events # <<>> /\ events' = Tail(events))
  BY DEF RelayStep, HandleEvent, HandleUserConnected, HandleVoiceJoined, HandleVoiceLeft,
         HandleUserDisconnected, Receives, HandleVoiceData, HandleVoiceAuthRequest
<1>5. Len(events') <= Len(events)  /\ Len(events') \in Nat
  BY <1>3, <1>4
<1> QED BY <1>1, <1>2, <1>3, <1>5 DEF Counted

-----------------------------------------------------------------------------
(* Only an authenticated client asks to join, or makes its handler report    *)
(* that it has.                                                              *)

LEMMA GrantedInit == MgmtInit => \A h \in UserIds : Granted(h)
BY AsksEmpty, NoEffects DEF MgmtInit, Granted

LEMMA GrantedStep ==
    ASSUME RelayListens = TRUE, Eager = {}, Streaming, RelayTypeOK,
           \A h \in UserIds : Proper(h) /\ Granted(h), [Next]_vars
    PROVE  \A h \in UserIds : Granted(h)'
<1> USE DEF mgmtVars, handlerVars, channelVars, clientVars
<1>1. ASSUME UNCHANGED <<inbox, packet_buffer, effects>>,
             \A k \in UserIds : authed[k] => authed'[k]
      PROVE  \A k \in UserIds : Granted(k)'
  BY <1>1 DEF Granted
<1>2. CASE Accepts
  BY <1>1, <1>2 DEF Accepts, Accept, relayVars, udpVars
<1>3. ASSUME NEW h \in UserIds, HandlerActs(h) PROVE \A k \in UserIds : Granted(k)'
  <2>1. OneEvent(effects[h]) /\ HandlerStep(h) /\ authed' = authed /\ Granted(h)
    BY <1>3 DEF Proper, HandlerActs, relayVars, udpVars
  <2>2. /\ \A k \in UserIds : k # h =>
             /\ inbox'[k] = inbox[k] /\ packet_buffer'[k] = packet_buffer[k]
             /\ effects'[k] = effects[k]
        /\ Asks(inbox'[h]) => Asks(inbox[h])
        /\ Asks(packet_buffer'[h]) => Asks(inbox[h]) \/ Asks(packet_buffer[h])
        /\ WillJoin(h, effects'[h]) => WillJoin(h, effects[h]) \/ Asks(packet_buffer[h])
    BY <2>1, QueuesOf
  <2>3. Granted(h)'
    BY <2>1, <2>2 DEF Granted
  <2>4. ASSUME NEW k \in UserIds, k # h PROVE Granted(k)'
    BY <2>1, <2>2, <2>4 DEF Granted
  <2> QED BY <2>3, <2>4
<1>4. ASSUME NEW h \in UserIds, NEW kind \in RequestTypes, MakeRequest(h, kind)
      PROVE  \A k \in UserIds : Granted(k)'
  <2>1. /\ ClientRequest(h, kind) /\ authed' = authed
        /\ kind = "Join" => authed[h]
        /\ MayRequest(h, kind) /\ UNCHANGED <<packet_buffer, effects>>
    BY <1>4 DEF MakeRequest, MayAct, ClientRequest, relayVars, udpVars
  <2>2. MgmtTypeOK /\ DOMAIN inbox = UserIds /\ inbox[h] \in Seq(Request)
    BY DEF Streaming, Owned, Shape, MgmtTypeOK
  <2>3. PICK p \in PacketsOf(h, kind) : inbox' = [inbox EXCEPT ![h] = Append(inbox[h], p)]
    BY <2>1 DEF ClientRequest
  <2>4. p \in Request /\ p.type = kind
    BY <2>1, <2>2, <2>3, RequestTypesOK
  <2>5. Asks(inbox'[h]) => Asks(inbox[h]) \/ authed[h]
    BY <2>1, <2>2, <2>3, <2>4, AsksAppend
  <2>6. Granted(h)'
    BY <2>1, <2>5 DEF Granted
  <2>7. ASSUME NEW k \in UserIds, k # h PROVE Granted(k)'
    BY <2>1, <2>2, <2>3, <2>7 DEF Granted
  <2> QED BY <2>6, <2>7
<1>5. ASSUME NEW h \in UserIds, ConnectionEnds(h), UNCHANGED relayVars
      PROVE  \A k \in UserIds : Granted(k)'
  BY <1>1, <1>5 DEF ConnectionEnds, ClientClose, ConnectionBreaks, relayVars, udpVars
<1>6. ASSUME NEW h \in UserIds, AuthenticateVoice(h) \/ VoiceAuthenticated(h) \/ Speak(h)
      PROVE  \A k \in UserIds : Granted(k)'
  <2>1. UNCHANGED <<inbox, packet_buffer, effects>>
    BY <1>6 DEF AuthenticateVoice, VoiceAuthenticated, Speak
  <2>2. authed' = authed \/ authed' = [authed EXCEPT ![h] = TRUE]
    BY <1>6 DEF AuthenticateVoice, VoiceAuthenticated, Speak, SendVoiceAuth,
                ReceiveVoiceAuthResponse, SendVoiceData
  <2> QED BY <1>1, <2>1, <2>2 DEF RelayTypeOK
<1>7. CASE RelayActs
  <2>1. UNCHANGED <<inbox, packet_buffer, effects>> /\ authed' = authed
    BY <1>7 DEF RelayActs, RelayStep, HandleEvent, HandleUserConnected, HandleVoiceJoined,
                HandleVoiceLeft, HandleUserDisconnected, Receives, HandleVoiceData,
                HandleVoiceAuthRequest, udpVars
  <2> QED BY <1>1, <2>1
<1>8. CASE UNCHANGED vars
  BY <1>1, <1>8 DEF vars, relayVars, udpVars
<1> QED BY <1>2, <1>3, <1>4, <1>5, <1>6, <1>7, <1>8 DEF Next, ClientActs

-----------------------------------------------------------------------------
(* The relay of the whole server is the one that RelayProofs is about.      *)

LEMMA RelayConstants ==
    RP!ProtocolAssumption /\ RP!RelayAssumption /\ RP!ChannelAssumption
BY ProtocolAssumption, RelayAssumption, ChannelAssumption
   DEF RP!ProtocolAssumption, RP!RelayAssumption, RP!ChannelAssumption, RP!UserIds, UserIds

LEMMA SameIds == RP!UserIds = UserIds
BY DEF RP!UserIds, UserIds

LEMMA SameEvents ==
    /\ \A h : /\ RP!UserConnected(h, Token[h]) = UserConnected(h, Token[h])
              /\ RP!VoiceJoined(h) = VoiceJoined(h) /\ RP!VoiceLeft(h) = VoiceLeft(h)
              /\ RP!UserDisconnected(h) = UserDisconnected(h)
    /\ RP!Event = Event
BY DEF RP!UserConnected, UserConnected, RP!VoiceJoined, VoiceJoined, RP!VoiceLeft, VoiceLeft,
       RP!UserDisconnected, UserDisconnected, RP!Event, Event, RP!EventTypes, EventTypes,
       RP!Tokens, Tokens, RP!UserIds, UserIds

LEMMA SameRelay == RP!RelayStep <=> RelayStep
BY DEF RP!RelayStep, RelayStep, RP!HandleEvent, HandleEvent,
       RP!HandleUserConnected, HandleUserConnected, RP!HandleVoiceJoined, HandleVoiceJoined,
       RP!HandleVoiceLeft, HandleVoiceLeft,
       RP!HandleUserDisconnected, HandleUserDisconnected, RP!Receives, Receives,
       RP!HandleVoiceData, HandleVoiceData, RP!HandleVoiceAuthRequest, HandleVoiceAuthRequest,
       RP!UserIds, UserIds, RP!SetInVoice, SetInVoice, RP!NoSession, NoSession,
       RP!NewSession, NewSession, RP!AddressesOf, AddressesOf, RP!Recipients, Recipients,
       RP!Reachable, Reachable, RP!udpVars, udpVars, RP!VoiceDataTo, VoiceDataTo,
       RP!VoiceAuthResponse, VoiceAuthResponse

LEMMA SameClients ==
    \A h \in UserIds :
        /\ RP!ReceiveVoiceAuthResponse(h) <=> ReceiveVoiceAuthResponse(h)
        /\ RP!SendVoiceData(h) <=> SendVoiceData(h)
        /\ \A t : RP!SendVoiceAuth(h, t) <=> SendVoiceAuth(h, t)
BY DEF RP!ReceiveVoiceAuthResponse, ReceiveVoiceAuthResponse, RP!SendVoiceData, SendVoiceData,
       RP!SendVoiceAuth, SendVoiceAuth, RP!serverVars, serverVars,
       RP!VoiceAuthRequest, VoiceAuthRequest, RP!VoiceDataFrom, VoiceDataFrom,
       RP!VoiceAuthResponse, VoiceAuthResponse

LEMMA SameVars ==
    /\ UNCHANGED RP!relayVars <=> UNCHANGED relayVars
    /\ UNCHANGED RP!streamVars <=> UNCHANGED <<events, StreamPhase, relayVars>>
BY DEF RP!relayVars, relayVars, RP!serverVars, serverVars, RP!udpVars, udpVars, RP!streamVars

LEMMA SameStream ==
    \A h \in UserIds :
        /\ RP!StreamStep(h) <=> Stream!StreamStep(h)
        /\ RP!Joins(h) <=> events' = Append(events, VoiceJoined(h))
BY SameEvents
   DEF RP!StreamStep, Stream!StreamStep, RP!Connected, Stream!Connected, RP!VoiceChanged,
       Stream!VoiceChanged, RP!Disconnected, Stream!Disconnected, RP!Joins,
       Stream!UserConnected, Stream!VoiceJoined, Stream!VoiceLeft, Stream!UserDisconnected,
       UserConnected, VoiceJoined, VoiceLeft, UserDisconnected

\* What the management server does is a step of the stream that the relay
\* relies on: nobody is reported to join that has not authenticated, and the
\* events waiting stay within the bound.
LEMMA StreamOf ==
    ASSUME RelayListens = TRUE, Streaming, \A h \in UserIds : Proper(h) /\ Granted(h),
           Counted, [MgmtNext]_mgmtAll, UNCHANGED relayVars
    PROVE  [RP!RoSNext]_RP!streamVars
<1>1. /\ events \in Seq(Event) /\ Len(events) \in Nat /\ effects \in [UserIds -> Seq(Effect)]
      /\ \A h \in UserIds : OnlyVoice(h, effects[h])
  BY LenProperties DEF Streaming, Owned, Shape, MgmtTypeOK, OwnEffects
<1>2. Len(events) < MaxUsers * (MaxRequests + 2) + 1
  BY <1>1, TicketsBound DEF Counted
<1>3. [Stream!StreamNext]_<<events, StreamPhase>>
  BY StreamStepImplemented
<1>4. \/ events' = events
      \/ \E e \in Event : events' = Append(events, e)
  BY ReportedOf DEF Counted
<1>5. ~Stream!Taken
  <2> SUFFICES ASSUME events # <<>>, events' = Tail(events) PROVE FALSE
    BY DEF Stream!Taken
  <2>1. Len(events') = Len(events) - 1
    BY <1>1, HeadTailProperties
  <2>3. \A e \in Event : Len(Append(events, e)) = Len(events) + 1
    BY <1>1, AppendProperties
  <2>2. Len(events') = Len(events) \/ Len(events') = Len(events) + 1
    BY <1>4, <2>3
  <2> DEFINE n == Len(events)
             m == Len(events')
  <2>4. m = n - 1 /\ (m = n \/ m = n + 1) /\ n \in Nat
    BY <1>1, <2>1, <2>2
  <2> HIDE DEF n, m
  <2> QED BY <2>4
<1>6. ASSUME NEW h \in UserIds, events' = Append(events, VoiceJoined(h))
      PROVE  authed[h]
  <2>1. /\ VoiceJoined(h) \in Event /\ Len(events') # Len(events)
        /\ \A e \in Event : events' = Append(events, e) => e = VoiceJoined(h)
    <3>1. VoiceJoined(h) \in Event
      BY EventTypesOK
    <3>2. \A e \in Event : /\ Append(events, e)[Len(events) + 1] = e
                           /\ Len(Append(events, e)) = Len(events) + 1
      BY <1>1, AppendProperties
    <3> QED BY <1>1, <1>6, <3>1, <3>2
  <2>2. events' # events
    BY <2>1
  <2>3. PICK k \in UserIds : HandlerStep(k)
    BY <2>2 DEF MgmtNext, mgmtAll, Accept, ClientRequest, ConnectionEnds, ClientClose,
                ConnectionBreaks
  <2>4. ~Start(k) /\ ~Exit(k)
    <3>1. /\ UserConnected(k, Token[k]) \in Event /\ UserDisconnected(k) \in Event
      BY EventTypesOK DEF Tokens
    <3>2. /\ UserConnected(k, Token[k]) # VoiceJoined(h)
          /\ UserDisconnected(k) # VoiceJoined(h)
      BY DEF UserConnected, UserDisconnected, VoiceJoined
    <3> QED BY <2>1, <3>1, <3>2, RelayListens = TRUE DEF Start, Exit, Sent
  <2>5. /\ events' = Append(events, Head(effects[k]).event)
        /\ effects[k] # <<>> /\ Head(effects[k]).do = "event"
    BY <2>2, <2>3, <2>4, QueuesOf DEF Proper
  <2>6. /\ effects[k] \in Seq(Effect) /\ Head(effects[k]) = effects[k][1]
        /\ 1 \in 1..Len(effects[k]) /\ Head(effects[k]) \in Effect
    BY <1>1, <2>5, LenProperties, EmptySeq
  <2>7. Head(effects[k]).event = VoiceJoined(h)
    BY <2>1, <2>5, <2>6 DEF Effect
  <2>8. h = k
    BY <1>1, <2>5, <2>6, <2>7 DEF OnlyVoice, VoiceEvents, VoiceJoined, VoiceLeft
  <2>9. WillJoin(h, effects[h])
    BY <2>5, <2>6, <2>7, <2>8 DEF WillJoin, IsEvent
  <2> QED BY <2>9 DEF Granted
<1>7. CASE UNCHANGED <<events, StreamPhase>>
  BY <1>7, SameVars
<1>8. ASSUME NEW h \in UserIds, Stream!StreamStep(h) PROVE RP!RoSNext
  BY <1>2, <1>6, <1>8, SameStream, SameVars, SameIds DEF RP!RoSNext
<1>9. Stream!UserIds = UserIds
  BY DEF Stream!UserIds, UserIds
<1> QED BY <1>3, <1>5, <1>7, <1>8, <1>9 DEF Stream!StreamNext

\* Every step of the server is one of its management half, one of a client on
\* UDP, or one of its relay,
LEMMA WholeStep ==
    ASSUME [Next]_vars
    PROVE  \/ [MgmtNext]_mgmtAll /\ UNCHANGED relayVars
           \/ /\ \E h \in UserIds : AuthenticateVoice(h) \/ VoiceAuthenticated(h) \/ Speak(h)
              /\ UNCHANGED <<events, mgmtVars>> /\ UNCHANGED serverVars
           \/ RelayStep /\ UNCHANGED mgmtVars
<1>1. CASE UNCHANGED vars
  BY <1>1 DEF vars, mgmtAll
<1>2. CASE Accepts \/ \E h \in UserIds : HandlerActs(h)
  BY <1>2 DEF Accepts, HandlerActs, MgmtNext
<1>3. ASSUME NEW h \in UserIds, NEW kind \in RequestTypes, MakeRequest(h, kind)
      PROVE  [MgmtNext]_mgmtAll /\ UNCHANGED relayVars
  BY <1>3 DEF MakeRequest, MgmtNext
<1>4. ASSUME NEW h \in UserIds, ConnectionEnds(h) /\ UNCHANGED relayVars
      PROVE  [MgmtNext]_mgmtAll /\ UNCHANGED relayVars
  BY <1>4 DEF MgmtNext
<1>5. ASSUME NEW h \in UserIds, AuthenticateVoice(h) \/ VoiceAuthenticated(h) \/ Speak(h)
      PROVE  UNCHANGED <<events, mgmtVars>> /\ UNCHANGED serverVars
  BY <1>5 DEF AuthenticateVoice, VoiceAuthenticated, Speak, SendVoiceAuth,
              ReceiveVoiceAuthResponse, SendVoiceData
<1>6. CASE RelayActs
  BY <1>6 DEF RelayActs
<1> QED BY <1>1, <1>2, <1>3, <1>4, <1>5, <1>6 DEF Next, ClientActs

\* and always a step of the relay over such a stream.
LEMMA RelayOf ==
    ASSUME RelayListens = TRUE, Eager = {}, Streaming, Counted,
           \A h \in UserIds : Proper(h) /\ Granted(h), [Next]_vars
    PROVE  [RP!RoSNext]_RP!streamVars
<1>1. CASE [MgmtNext]_mgmtAll /\ UNCHANGED relayVars
  BY <1>1, StreamOf
<1>2. pc \in [UserIds -> {"none", "spawned", "running", "exiting", "done"}]
  BY DEF Streaming, Owned, Shape, MgmtTypeOK
<1>3. UNCHANGED mgmtVars => UNCHANGED StreamPhase
  BY DEF mgmtVars, handlerVars, StreamPhase
<1>4. CASE RelayStep /\ UNCHANGED mgmtVars
  BY <1>3, <1>4, SameRelay DEF RP!RoSNext
<1>5. ASSUME NEW h \in UserIds, UNCHANGED <<events, mgmtVars>>, AuthenticateVoice(h)
      PROVE  RP!RoSNext
  <2>1. /\ clients[h].voice_token \in {0, Token[h]} /\ ~authed[h]
        /\ pc[h] \notin {"none", "spawned", "exiting", "done"}
        /\ SendVoiceAuth(h, clients[h].voice_token)
    BY <1>5 DEF AuthenticateVoice, Proper
  <2>2. StreamPhase[h] = "connected"
    BY <1>2, <2>1 DEF StreamPhase
  <2> QED BY <1>3, <1>5, <2>1, <2>2, SameIds, SameClients DEF RP!RoSNext
<1>6. ASSUME NEW h \in UserIds, UNCHANGED <<events, mgmtVars>>, VoiceAuthenticated(h)
      PROVE  RP!RoSNext
  BY <1>3, <1>6, SameIds, SameClients DEF RP!RoSNext, VoiceAuthenticated
<1>7. ASSUME NEW h \in UserIds, UNCHANGED <<events, mgmtVars>>, Speak(h)
      PROVE  RP!RoSNext
  BY <1>3, <1>7, SameIds, SameClients DEF RP!RoSNext, Speak, MayAct
<1> QED BY <1>1, <1>4, <1>5, <1>6, <1>7, WholeStep

LEMMA SameRelaySpec ==
    /\ RP!RoSInit <=> Relay!RoSInit
    /\ [RP!RoSNext]_RP!streamVars <=> [Relay!RoSNext]_Relay!streamVars
<1>1. RP!RoSInit <=> Relay!RoSInit
  BY DEF RP!RoSInit, RP!StreamInit, RP!RelayInit, RP!UserIds, RP!NoSession, RP!NewSession,
         Relay!RoSInit, Relay!StreamInit, Relay!RelayInit, Relay!UserIds,
         Relay!NoSession, Relay!NewSession
<1>2. UNCHANGED RP!streamVars <=> UNCHANGED Relay!streamVars
  BY DEF RP!streamVars, RP!relayVars, RP!serverVars, RP!udpVars,
         Relay!streamVars, Relay!relayVars, Relay!serverVars, Relay!udpVars
<1>3. RP!RelayStep <=> Relay!RelayStep
  BY DEF RP!RelayStep, Relay!RelayStep, RP!HandleEvent, Relay!HandleEvent,
         RP!HandleUserConnected, Relay!HandleUserConnected,
         RP!HandleVoiceJoined, Relay!HandleVoiceJoined,
         RP!HandleVoiceLeft, Relay!HandleVoiceLeft,
         RP!HandleUserDisconnected, Relay!HandleUserDisconnected, RP!Receives, Relay!Receives,
         RP!HandleVoiceData, Relay!HandleVoiceData,
         RP!HandleVoiceAuthRequest, Relay!HandleVoiceAuthRequest,
         RP!UserIds, Relay!UserIds, RP!SetInVoice, Relay!SetInVoice,
         RP!NoSession, Relay!NoSession, RP!NewSession, Relay!NewSession,
         RP!AddressesOf, Relay!AddressesOf, RP!Recipients, Relay!Recipients,
         RP!Reachable, Relay!Reachable, RP!udpVars, Relay!udpVars,
         RP!VoiceDataTo, Relay!VoiceDataTo, RP!VoiceAuthResponse, Relay!VoiceAuthResponse
<1>4. \A h : /\ RP!ReceiveVoiceAuthResponse(h) <=> Relay!ReceiveVoiceAuthResponse(h)
             /\ RP!SendVoiceData(h) <=> Relay!SendVoiceData(h)
             /\ \A t : RP!SendVoiceAuth(h, t) <=> Relay!SendVoiceAuth(h, t)
  BY DEF RP!ReceiveVoiceAuthResponse, Relay!ReceiveVoiceAuthResponse,
         RP!SendVoiceData, Relay!SendVoiceData, RP!SendVoiceAuth, Relay!SendVoiceAuth,
         RP!serverVars, Relay!serverVars, RP!VoiceAuthRequest, Relay!VoiceAuthRequest,
         RP!VoiceDataFrom, Relay!VoiceDataFrom, RP!VoiceAuthResponse, Relay!VoiceAuthResponse
<1>5. \A h : /\ RP!StreamStep(h) <=> Relay!StreamStep(h)
             /\ RP!Joins(h) <=> Relay!Joins(h)
  BY DEF RP!StreamStep, Relay!StreamStep, RP!Connected, Relay!Connected,
         RP!VoiceChanged, Relay!VoiceChanged, RP!Disconnected, Relay!Disconnected,
         RP!Joins, Relay!Joins, RP!UserConnected, Relay!UserConnected,
         RP!VoiceJoined, Relay!VoiceJoined, RP!VoiceLeft, Relay!VoiceLeft,
         RP!UserDisconnected, Relay!UserDisconnected
<1>6. RP!RoSNext <=> Relay!RoSNext
  BY <1>3, <1>4, <1>5
     DEF RP!RoSNext, Relay!RoSNext, RP!relayVars, Relay!relayVars, RP!serverVars,
         Relay!serverVars, RP!udpVars, Relay!udpVars, RP!UserIds, Relay!UserIds
<1> QED BY <1>1, <1>2, <1>6

-----------------------------------------------------------------------------
(* The two halves of the server come to agree who is in voice.              *)

\* No step of a handler changes the entry of another that is live.
LEMMA SelfOf ==
    ASSUME RelayListens = TRUE, Streaming, NEW h \in UserIds, HandlerStep(h),
           NEW k \in UserIds, k # h, Live(k)
    PROVE  Self(k)' = Self(k)
<1>1. /\ address[k] \in Addresses /\ users \in [Addresses -> User] /\ UNCHANGED address
  BY OutcomeOf DEF Streaming, Owned, Shape, MgmtTypeOK, Live
<1>2. CASE users' = users
  BY <1>1, <1>2 DEF Self
<1>3. ASSUME pc[h] = "running", NEW user, users' = [users EXCEPT ![address[h]] = user]
      PROVE  Self(k)' = Self(k)
  <2>1. address[k] # address[h]
    BY <1>3 DEF Streaming, Owned, Exclusive, Live
  <2> QED BY <1>1, <1>3, <2>1 DEF Self
<1> USE DEF handlerVars, clientVars, channelVars
<1> QED
  BY <1>2, <1>3, OutcomeOf DEF Start, Exit, Finishes, Abandons, Fills, Takes, Reads, Quits, Rests

\* While neither the queue nor the sessions change, nor does what the relay
\* will have; an event about k decides it, one about another leaves it.
LEMMA WillHaveSame ==
    ASSUME UNCHANGED <<events, sessions>>, NEW h, NEW voice, RP!WillHave(h, voice)
    PROVE  RP!WillHave(h, voice)'
BY DEF RP!WillHave, RP!LastOf, RP!Pending

\* The entry of a user whose stream goes on is the one it was.
LEMMA SyncedKept ==
    ASSUME NEW k \in UserIds, Synced(k), UNCHANGED <<events, sessions, effects[k], pc[k]>>,
           Live(k) => Self(k)' = Self(k), socket'[k] # "broken" => socket[k] # "broken"
    PROVE  Synced(k)'
<1>1. ASSUME NEW voice \in BOOLEAN, Tells(k, voice) PROVE Tells(k, voice)'
  BY <1>1, WillHaveSame DEF Tells, HasEvent, WillJoin, IsEvent
<1>2. pc'[k] = pc[k] /\ (Live(k) => Self(k)' = Self(k))
  OBVIOUS
<1> QED BY <1>1, <1>2 DEF Synced, Live

LEMMA WillHaveSent ==
    ASSUME RP!RelayInv, NEW e \in Event, events' = Append(events, e), UNCHANGED sessions,
           NEW k \in UserIds, NEW voice \in BOOLEAN
    PROVE  /\ e.id = k /\ (e.type = "VoiceJoined" <=> voice) => RP!WillHave(k, voice)'
           /\ e.id # k /\ RP!WillHave(k, voice) => RP!WillHave(k, voice)'
<1> DEFINE joined == e.type = "VoiceJoined"
<1>1. joined \in BOOLEAN
  OBVIOUS
<1> HIDE DEF joined
<1>2. /\ e.id = k => RP!WillHave(k, e.type = "VoiceJoined")'
      /\ e.id # k /\ RP!WillHave(k, voice) => RP!WillHave(k, voice)'
  BY RelayConstants, SameIds, SameEvents, RP!WillHaveAppended
<1>3. e.id = k => RP!WillHave(k, joined)'
  BY <1>2 DEF joined
<1>4. (joined <=> voice) => joined = voice
  BY <1>1
<1> QED BY <1>2, <1>3, <1>4 DEF joined

\* A handler tells the relay what it makes of its own entry.
LEMMA SyncedHandler ==
    ASSUME RelayListens = TRUE, Streaming, RP!RelayInv, NEW h \in UserIds, HandlerStep(h),
           UNCHANGED relayVars, \A k \in UserIds : Proper(k) /\ Synced(k)
    PROVE  \A k \in UserIds : Synced(k)'
<1> USE DEF relayVars, serverVars
<1>1. /\ OneEvent(effects[h]) /\ OnlyVoice(h, effects[h]) /\ effects[h] \in Seq(Effect)
      /\ effects \in [UserIds -> Seq(Effect)] /\ DOMAIN pc = UserIds
      /\ users \in [Addresses -> User] /\ UNCHANGED <<address, socket, sessions>>
      /\ Live(h) => address[h] \in Addresses /\ Self(h).in_voice \in BOOLEAN
      /\ effects[h] # <<>> => pc[h] \in {"running", "exiting"}
  BY OutcomeOf DEF Streaming, Owned, Shape, MgmtTypeOK, OwnEffects, Proper, Live, Self, User
<1>2. ASSUME NEW e \in Event, events' = Append(events, e), e.id = h,
             NEW k \in UserIds, k # h
      PROVE  Synced(k)'
  <2>1. effects'[k] = effects[k] /\ pc'[k] = pc[k]
    BY <1>1, <1>2, QueuesOf
  <2>2. Live(k) => Self(k)' = Self(k)
    BY <1>2, SelfOf
  <2>3. ASSUME NEW voice \in BOOLEAN, Tells(k, voice) PROVE Tells(k, voice)'
    <3>1. RP!WillHave(k, voice) => RP!WillHave(k, voice)'
      BY <1>1, <1>2, WillHaveSent
    <3> QED BY <2>1, <2>3, <3>1 DEF Tells, HasEvent, WillJoin, IsEvent
  <2> QED BY <1>1, <2>1, <2>2, <2>3 DEF Synced, Live
<1>3. ASSUME events' = events, NEW k \in UserIds, k # h PROVE Synced(k)'
  <2>1. effects'[k] = effects[k] /\ pc'[k] = pc[k]
    BY <1>1, <1>3, QueuesOf
  <2>2. Live(k) => Self(k)' = Self(k)
    BY <1>3, SelfOf
  <2> QED BY <1>1, <1>3, <2>1, <2>2, SyncedKept
<1>4. CASE Start(h)
  <2>1. /\ events' = Append(events, UserConnected(h, Token[h])) /\ pc[h] = "spawned"
        /\ UNCHANGED <<users, effects, address>>
    BY <1>4, RelayListens = TRUE DEF Start, Sent
  <2>2. /\ UserConnected(h, Token[h]) \in Event /\ UserConnected(h, Token[h]).id = h
        /\ UserConnected(h, Token[h]).type # "VoiceJoined"
    BY EventTypesOK DEF Tokens, UserConnected
  <2>3. Self(h)' = Self(h) /\ Self(h).in_voice = FALSE
    BY <2>1 DEF Self, Synced
  <2>4. ~HasEvent(effects[h])'
    BY <1>1, <2>1, NoEffects DEF HasEvent, IsEvent
  <2>5. RP!WillHave(h, FALSE)'
    BY <1>1, <2>1, <2>2, WillHaveSent
  <2>6. pc'[h] = "running"
    BY <1>1, <1>4 DEF Start
  <2>7. Synced(h)'
    BY <2>3, <2>4, <2>5, <2>6 DEF Synced, Tells
  <2> QED BY <1>2, <2>1, <2>2, <2>7
<1>5. CASE Exit(h)
  <2>1. /\ events' = Append(events, UserDisconnected(h)) /\ pc'[h] = "done"
    BY <1>1, <1>5, RelayListens = TRUE DEF Exit, Sent
  <2>2. UserDisconnected(h) \in Event /\ UserDisconnected(h).id = h
    BY EventTypesOK DEF UserDisconnected
  <2>3. Synced(h)'
    BY <2>1 DEF Synced
  <2> QED BY <1>2, <2>1, <2>2, <2>3
<1>6. ASSUME UNCHANGED <<pc, users>>, events' = events,
             \A voice \in BOOLEAN : Tells(h, voice) => Tells(h, voice)'
      PROVE  \A k \in UserIds : Synced(k)'
  <2>1. Self(h)' = Self(h)
    BY <1>1, <1>6 DEF Self
  <2>2. Synced(h)'
    BY <1>1, <1>6, <2>1 DEF Synced
  <2> QED BY <1>3, <1>6, <2>2
<1>7. CASE Finishes(h)
  <2>1. /\ effects[h] # <<>> /\ effects'[h] = Tail(effects[h]) /\ UNCHANGED <<pc, users>>
    BY <1>1, <1>7 DEF Finishes
  <2>2. /\ Head(effects[h]) = effects[h][1] /\ 1 \in 1..Len(effects[h])
        /\ Head(effects[h]) \in Effect
    BY <1>1, <2>1, LenProperties, EmptySeq
  <2>3. CASE Head(effects[h]).do = "event"
    <3> DEFINE e == Head(effects[h]).event
    <3>1. events' = Append(events, e) /\ e \in VoiceEvents(h)
      BY <1>1, <1>7, <2>2, <2>3 DEF Finishes, OnlyVoice
    <3>2. /\ e \in Event /\ e.id = h
          /\ e.type = "VoiceJoined" <=> e = VoiceJoined(h)
      <4>1. e = VoiceJoined(h) \/ e = VoiceLeft(h)
        BY <3>1 DEF VoiceEvents
      <4>2. e \in Event
        BY <4>1, EventTypesOK
      <4>3. /\ VoiceJoined(h).type = "VoiceJoined" /\ VoiceLeft(h).type # "VoiceJoined"
            /\ VoiceJoined(h).id = h /\ VoiceLeft(h).id = h
        BY DEF VoiceJoined, VoiceLeft
      <4> HIDE DEF e
      <4> QED BY <4>1, <4>2, <4>3
    <3>3. /\ HasEvent(effects[h]) /\ ~HasEvent(effects'[h])
          /\ WillJoin(h, effects[h]) <=> e = VoiceJoined(h)
      BY <1>1, <2>1, <2>3, TailFacts
    <3> HIDE DEF e
    <3>4. ASSUME NEW voice \in BOOLEAN, Tells(h, voice) PROVE Tells(h, voice)'
      <4>1. e.type = "VoiceJoined" <=> voice
        BY <3>2, <3>3, <3>4 DEF Tells
      <4>2. RP!WillHave(h, voice)'
        BY <1>1, <3>1, <3>2, <4>1, WillHaveSent
      <4>3. ~HasEvent(effects[h])'
        BY <3>3 DEF HasEvent, IsEvent
      <4> QED BY <4>2, <4>3 DEF Tells
    <3>5. Self(h)' = Self(h)
      BY <1>1, <2>1 DEF Self
    <3>6. Synced(h)'
      BY <1>1, <2>1, <3>4, <3>5 DEF Synced
    <3> QED BY <1>2, <3>1, <3>2, <3>6
  <2>4. CASE Head(effects[h]).do # "event"
    <3>1. events' = events
      BY <1>7, <2>4 DEF Finishes
    <3>2. /\ HasEvent(effects'[h]) <=> HasEvent(effects[h])
          /\ WillJoin(h, effects'[h]) <=> WillJoin(h, effects[h])
      BY <1>1, <2>1, <2>4, TailFacts
    <3>3. ASSUME NEW voice \in BOOLEAN, Tells(h, voice) PROVE Tells(h, voice)'
      BY <1>1, <3>1, <3>2, <3>3, WillHaveSame DEF Tells, HasEvent, WillJoin, IsEvent
    <3> QED BY <1>6, <2>1, <3>1, <3>3
  <2> QED BY <2>3, <2>4
<1>8. CASE Abandons(h)
  <2>1. Synced(h)'
    BY <1>1, <1>8, NoEffects DEF Abandons, Synced, Self
  <2> QED BY <1>3, <1>8, <2>1 DEF Abandons
<1>9. CASE Fills(h)
  <2>1. PICK new : /\ new.do = "write" /\ effects[h] # <<>> /\ effects[h][1].do = "write"
                   /\ new.packet.voice_token = effects[h][1].packet.voice_token
                   /\ \/ UNCHANGED effects
                      \/ effects' = [effects EXCEPT ![h] = [@ EXCEPT ![1] = new]]
    BY <1>9 DEF Fills
  <2> DEFINE t == [effects[h] EXCEPT ![1] = new]
  <2>2. /\ HasEvent(t) <=> HasEvent(effects[h])
        /\ WillJoin(h, t) <=> WillJoin(h, effects[h])
    BY <1>1, <2>1, FilledFacts
  <2>3. effects'[h] = effects[h] \/ effects'[h] = t
    BY <1>1, <2>1
  <2> HIDE DEF t
  <2>4. ASSUME NEW voice \in BOOLEAN, Tells(h, voice) PROVE Tells(h, voice)'
    <3>1. /\ HasEvent(effects'[h]) <=> HasEvent(effects[h])
          /\ WillJoin(h, effects'[h]) <=> WillJoin(h, effects[h])
      BY <2>2, <2>3
    <3> QED BY <1>1, <1>9, <2>4, <3>1, WillHaveSame
            DEF Fills, Tells, HasEvent, WillJoin, IsEvent
  <2> QED BY <1>6, <1>9, <2>4 DEF Fills
<1>10. CASE Takes(h)
  <2>1. PICK q, user :
         /\ effects' = [effects EXCEPT ![h] = q]
         /\ users' = [users EXCEPT ![address[h]] = user]
         /\ CASE Head(packet_buffer[h]).type = "Join" ->
                   /\ HasEvent(q) /\ WillJoin(h, q) /\ user.in_voice
              [] Head(packet_buffer[h]).type = "Leave" ->
                   /\ HasEvent(q) /\ ~WillJoin(h, q) /\ ~user.in_voice
              [] OTHER -> /\ ~HasEvent(q) /\ user.in_voice = Self(h).in_voice
    BY <1>10 DEF Takes
  <2>2. /\ effects'[h] = q /\ effects[h] = <<>> /\ pc[h] = "running" /\ UNCHANGED <<pc, events>>
    BY <1>1, <1>10, <2>1 DEF Takes
  <2>3. Self(h)' = user
    BY <1>1, <2>1, <2>2 DEF Self, Live
  <2>4. \/ HasEvent(q) /\ (WillJoin(h, q) <=> user.in_voice)
        \/ ~HasEvent(q) /\ user.in_voice = Self(h).in_voice
    BY <2>1
  <2>5. ASSUME NEW voice \in BOOLEAN, user.in_voice = voice, socket[h] # "broken"
        PROVE  Tells(h, voice)'
    <3>1. CASE HasEvent(q) /\ (WillJoin(h, q) <=> user.in_voice)
      <4>1. HasEvent(effects[h])' /\ (WillJoin(h, effects[h])' <=> voice)
        BY <2>2, <2>5, <3>1 DEF HasEvent, WillJoin, IsEvent
      <4> QED BY <4>1 DEF Tells
    <3>2. CASE ~HasEvent(q) /\ user.in_voice = Self(h).in_voice
      <4>1. ~HasEvent(effects[h])'
        BY <2>2, <3>2 DEF HasEvent, IsEvent
      <4>2. RP!WillHave(h, voice)
        BY <2>2, <2>5, <3>2, NoEffects DEF Synced, Tells
      <4> QED BY <1>1, <2>2, <4>1, <4>2, WillHaveSame DEF Tells
    <3> QED BY <2>4, <3>1, <3>2
  <2>6. Synced(h)'
    BY <1>1, <2>2, <2>3, <2>5 DEF Synced
  <2> QED BY <1>3, <2>2, <2>6
<1>11. CASE Quits(h)
  <2>1. pc'[h] = "exiting" /\ events' = events
    BY <1>1, <1>11 DEF Quits
  <2> QED BY <1>3, <2>1 DEF Synced
<1>12. CASE Reads(h) \/ Rests(h)
  <2>1. UNCHANGED <<pc, users, events, effects>>
    BY <1>12 DEF Reads, Rests
  <2>2. ASSUME NEW voice \in BOOLEAN, Tells(h, voice) PROVE Tells(h, voice)'
    BY <1>1, <2>1, <2>2, WillHaveSame DEF Tells, HasEvent, WillJoin, IsEvent
  <2> QED BY <1>6, <2>1, <2>2
<1> QED
  BY <1>4, <1>5, <1>7, <1>8, <1>9, <1>10, <1>11, <1>12, OutcomeOf

\* Nor does anything else that happens make the two halves differ for good.
LEMMA SyncedStep ==
    ASSUME RelayListens = TRUE, PortReuse = FALSE, Streaming, RP!RelayInv, RP!Told,
           \A h \in UserIds : Proper(h) /\ Synced(h), [Next]_vars
    PROVE  \A h \in UserIds : Synced(h)'
<1> USE DEF mgmtVars, handlerVars, channelVars, clientVars
<1>0. /\ DOMAIN pc = UserIds /\ DOMAIN socket = UserIds
      /\ users \in [Addresses -> User] /\ address \in [UserIds -> Addresses \cup {NoAddress}]
      /\ \A k \in UserIds : Live(k) => address[k] \in Addresses
      /\ \A k \in UserIds : Live(k) => Self(k).in_voice \in BOOLEAN
  BY DEF Streaming, Owned, Shape, MgmtTypeOK, Live, Self, User
<1>1. ASSUME NEW a \in Addresses, Accept(a), UNCHANGED relayVars
      PROVE  \A k \in UserIds : Synced(k)'
  <2>6. next_user_id \in UserIds /\ pc[next_user_id] = "none"
    BY <1>1, ProtocolAssumption DEF Accept, Streaming, Owned, Exclusive, UserIds
  <2>1. PICK n \in UserIds :
        /\ pc[n] = "none" /\ address' = [address EXCEPT ![n] = a]
        /\ pc' = [pc EXCEPT ![n] = "spawned"] /\ users' = [users EXCEPT ![a] = NewUser(n)]
        /\ socket' = [socket EXCEPT ![n] = "open"] /\ UNCHANGED <<events, effects, sessions>>
    BY <1>1, <2>6 DEF Accept, Registered, relayVars, serverVars
  <2>2. NewUser(n).in_voice = FALSE
    BY DEF NewUser, NoUser
  <2>3. Self(n)' = NewUser(n) /\ pc'[n] = "spawned"
    BY <1>0, <2>1 DEF Self
  <2>4. Synced(n)'
    BY <2>2, <2>3 DEF Synced
  <2>5. ASSUME NEW k \in UserIds, k # n PROVE Synced(k)'
    <3>1. pc'[k] = pc[k] /\ socket'[k] = socket[k]
      BY <1>0, <2>1, <2>5
    <3>2. Live(k) => address[k] # a
      BY <1>1, PortReuse = FALSE DEF Accept, AddressFree, Live
    <3>3. Live(k) => Self(k)' = Self(k)
      BY <1>0, <2>1, <2>5, <3>2 DEF Self
    <3> QED BY <2>1, <3>1, <3>3, SyncedKept
  <2> QED BY <2>4, <2>5
<1>2. ASSUME UNCHANGED <<events, sessions, effects, pc, users, address>>, NEW k \in UserIds,
             socket'[k] # "broken" => socket[k] # "broken"
      PROVE  Synced(k)'
  <2>1. Self(k)' = Self(k)
    BY <1>2 DEF Self
  <2> QED BY <1>2, <2>1, SyncedKept
<1>3. ASSUME NEW h \in UserIds, HandlerActs(h) PROVE \A k \in UserIds : Synced(k)'
  BY <1>3, SyncedHandler DEF HandlerActs
<1>4. ASSUME NEW h \in UserIds, NEW kind \in RequestTypes, MakeRequest(h, kind)
      PROVE  \A k \in UserIds : Synced(k)'
  BY <1>2, <1>4 DEF MakeRequest, ClientRequest, relayVars, serverVars
<1>5. ASSUME NEW h \in UserIds, ConnectionEnds(h), UNCHANGED relayVars
      PROVE  \A k \in UserIds : Synced(k)'
  <2>1. \A k \in UserIds : socket'[k] # "broken" => socket[k] # "broken"
    BY <1>0, <1>5 DEF ConnectionEnds, ClientClose, ConnectionBreaks
  <2> QED
    BY <1>2, <1>5, <2>1
       DEF ConnectionEnds, ClientClose, ConnectionBreaks, relayVars, serverVars
<1>6. CASE UNCHANGED <<events, mgmtVars>> /\ UNCHANGED serverVars
  BY <1>2, <1>6 DEF serverVars
<1>7. CASE RelayStep /\ UNCHANGED mgmtVars
  <2> TAKE k \in UserIds
  <2>1. UNCHANGED <<StreamPhase, users, address, pc, effects, socket>> /\ RP!RelayStep
    BY <1>7, SameRelay DEF StreamPhase
  <2>2. Self(k)' = Self(k)
    BY <2>1 DEF Self
  <2>3. ASSUME pc[k] = "running", NEW voice \in BOOLEAN, Tells(k, voice)
        PROVE  Tells(k, voice)'
    <3>1. StreamPhase[k] = "connected"
      BY <2>3 DEF StreamPhase
    <3>2. RP!WillHave(k, voice) => RP!WillHave(k, voice)'
      BY <2>1, <3>1, RelayConstants, SameIds, RP!WillHaveKept
    <3> QED BY <2>1, <2>3, <3>2 DEF Tells, HasEvent, WillJoin, IsEvent
  <2> QED BY <2>1, <2>2, <2>3 DEF Synced
<1>8. CASE UNCHANGED vars
  BY <1>2, <1>8 DEF vars, relayVars, serverVars
<1>9. CASE Accepts
  BY <1>1, <1>9 DEF Accepts
<1>10. ASSUME NEW h \in UserIds, ClientActs(h) PROVE \A k \in UserIds : Synced(k)'
  <2>1. CASE AuthenticateVoice(h) \/ VoiceAuthenticated(h) \/ Speak(h)
    <3>1. UNCHANGED <<events, mgmtVars>> /\ UNCHANGED serverVars
      BY <2>1 DEF AuthenticateVoice, VoiceAuthenticated, Speak, SendVoiceAuth,
                  ReceiveVoiceAuthResponse, SendVoiceData
    <3> QED BY <1>6, <3>1
  <2> QED BY <1>4, <1>5, <1>10, <2>1 DEF ClientActs
<1>11. CASE RelayActs
  BY <1>7, <1>11 DEF RelayActs
<1> QED BY <1>3, <1>8, <1>9, <1>10, <1>11 DEF Next

-----------------------------------------------------------------------------
(* The invariant of the whole server, and what it gives.                    *)

WholeInv ==
    /\ Streaming /\ Counted
    /\ RP!RelayInv /\ RP!Told
    /\ \A h \in UserIds : Proper(h) /\ Granted(h) /\ Synced(h)

LEMMA WholeInit == Init => WholeInv /\ RP!RoSInit
<1> SUFFICES ASSUME Init PROVE WholeInv /\ RP!RoSInit
  OBVIOUS
<1>1. RP!RoSInit
  BY DEF Init, MgmtInit, RelayInit, RP!RoSInit, RP!StreamInit, RP!RelayInit, RP!UserIds, UserIds,
         StreamPhase, RP!NoSession, NoSession, RP!NewSession, NewSession
<1>2. RP!RelayInv /\ RP!Told
  BY <1>1, RelayConstants, RP!RelayInvInit, RP!ToldInit
<1>3. \A h \in UserIds : Synced(h)
  BY DEF Init, MgmtInit, Synced
<1> QED
  BY <1>1, <1>2, <1>3, StreamingInit, CountedInit, ProperInit, GrantedInit DEF Init, WholeInv

LEMMA WholeInvStep ==
    ASSUME RelayListens = TRUE, PortReuse = FALSE, Eager = {}, WholeInv, [Next]_vars
    PROVE  WholeInv' /\ [RP!RoSNext]_RP!streamVars
<1>1. /\ Streaming /\ Counted /\ RP!RelayInv /\ RP!Told
      /\ \A h \in UserIds : Proper(h) /\ Granted(h) /\ Synced(h)
  BY DEF WholeInv
<1>2. [RP!RoSNext]_RP!streamVars
  BY <1>1, RelayOf
<1>3. RP!RelayInv' /\ RP!Told'
  BY <1>1, <1>2, RelayConstants, RP!RelayInvStep, RP!ToldStep
<1>4. RelayTypeOK
  BY <1>1
     DEF RP!RelayInv, RP!RelayTypeOK, RelayTypeOK, RP!VoiceSession, VoiceSession, RP!Tokens,
         Tokens, RP!DatagramIn, DatagramIn, RP!DatagramOut, DatagramOut, RP!UserIds, UserIds
<1>5. \A h \in UserIds : Granted(h)' /\ Synced(h)'
  BY <1>1, <1>4, GrantedStep, SyncedStep
<1>9. ASSUME Streaming', Counted', \A h \in UserIds : Proper(h)' PROVE WholeInv'
  BY <1>3, <1>5, <1>9 DEF WholeInv
<1>6. CASE [MgmtNext]_mgmtAll
  <2>1. Streaming'
    BY <1>1, <1>6, StreamingStep, PortReuse = FALSE
  <2>2. Counted'
    BY <1>1, <1>6, CountedStep
  <2>3. \A h \in UserIds : Proper(h)'
    BY <1>1, <1>6, ProperStep
  <2> QED BY <1>2, <1>9, <2>1, <2>2, <2>3
<1>7. CASE UNCHANGED <<events, mgmtVars>>
  <2>1. [MgmtNext]_mgmtAll
    BY <1>7 DEF mgmtAll
  <2> QED BY <1>6, <2>1
<1>8. CASE RelayStep /\ UNCHANGED mgmtVars
  <2> USE DEF mgmtVars, handlerVars, channelVars, clientVars
  <2>1. Counted'
    BY <1>1, <1>8, CountedTaken
  <2>2. events' \in Seq(Event)
    BY <1>3, SameEvents DEF RP!RelayInv, RP!StreamTypeOK
  <2>3. Streaming'
    BY <1>1, <1>8, <2>2
       DEF Streaming, Owned, Shape, MgmtTypeOK, Exclusive, Live, HandlerOwnsEntry, Self,
           OwnEffects, OnlyVoice
  <2>4. \A h \in UserIds : Proper(h)'
    BY <1>1, <1>8 DEF Proper
  <2> QED BY <1>2, <1>9, <2>1, <2>3, <2>4
<1> QED BY <1>2, <1>6, <1>7, <1>8, WholeStep

LEMMA WholeInvariant ==
    ASSUME RelayListens = TRUE, PortReuse = FALSE, Eager = {}
    PROVE  Spec => []WholeInv
<1>1. WholeInv /\ [Next]_vars => WholeInv'
  BY WholeInvStep
<1> QED BY <1>1, WholeInit, PTL DEF Spec

\* The relay inside the whole server behaves as RelayOverStream says: the
\* handlers and the clients together keep the promise that it relies on, an
\* event about a join is of a client that has authenticated, and no more than
\* Backlog events are ever waiting.
THEOREM WholeImplementsRelay ==
    ASSUME RelayListens = TRUE, PortReuse = FALSE, Eager = {}
    PROVE  Spec => ImplementsRelay
<1>1. WholeInv /\ [Next]_vars => [Relay!RoSNext]_Relay!streamVars
  BY WholeInvStep, SameRelaySpec
<1>2. Init => Relay!RoSInit
  BY WholeInit, SameRelaySpec
<1> QED
  BY <1>1, <1>2, WholeInvariant, PTL DEF Spec, ImplementsRelay, Relay!RoSSpec

\* However clients and handlers interleave, no datagram makes the relay panic,
\* if the joins that come over a connection come after the voice authentication
\* of that connection's user (Eager = {}); voice_two_connections shows it otherwise.
THEOREM WholeRelayNeverPanics ==
    ASSUME RelayListens = TRUE, PortReuse = FALSE, Eager = {}
    PROVE  Spec => []RelayAlive
<1>1. WholeInv => RelayAlive
  BY DEF WholeInv, RP!RelayInv, RP!RelayAlive, RelayAlive
<1> QED BY <1>1, WholeInvariant, PTL

\* What it relays is attributed to the user whose voice it is.
THEOREM WholeVoiceIsAttributed ==
    ASSUME RelayListens = TRUE, PortReuse = FALSE, Eager = {}
    PROVE  Spec => []RelayedIdentity
<1>1. WholeInv => RelayedIdentity
  BY DEF WholeInv, RP!RelayInv, RP!RelayedIdentity, RelayedIdentity
<1> QED BY <1>1, WholeInvariant, PTL

\* Once the relay has received what a handler has sent, the two halves of the
\* server agree about its user.
THEOREM HalvesAgree ==
    ASSUME RelayListens = TRUE, PortReuse = FALSE, Eager = {}
    PROVE  Spec => []RelayInSync
<1>1. ASSUME WholeInv, NEW h \in UserIds, pc[h] = "running", effects[h] = <<>>,
             socket[h] # "broken", ~Pending(h)
      PROVE  sessions[h] # NoSession /\ sessions[h].in_voice = Self(h).in_voice
  <2>1. /\ events \in Seq(Event) /\ RP!Remembered(h) /\ Self(h).in_voice \in BOOLEAN
        /\ sessions[h].in_voice \in BOOLEAN /\ Synced(h)
    <3>1. Streaming /\ RP!RelayTypeOK /\ RP!Told /\ Synced(h)
      BY <1>1 DEF WholeInv, RP!RelayInv
    <3>2. sessions[h].in_voice \in BOOLEAN
      BY <3>1, SameIds DEF RP!RelayTypeOK, RP!VoiceSession
    <3>3. events \in Seq(Event) /\ Self(h).in_voice \in BOOLEAN
      BY <1>1, <3>1 DEF Streaming, Owned, Shape, MgmtTypeOK, Self, User
    <3> QED BY <3>1, <3>2, <3>3, SameIds DEF RP!Told
  <2>2. \A i \in 1..Len(events) : events[i].id # h
    BY <1>1, <2>1 DEF Pending
  <2>3. sessions[h] # NoSession
    <3>1. StreamPhase[h] = "connected"
      BY <1>1 DEF StreamPhase
    <3> QED
      BY <2>1, <2>2, <3>1
         DEF RP!Remembered, RP!FirstOf, RP!NoSession, NoSession, RP!NewSession, NewSession
  <2>4. RP!WillHave(h, Self(h).in_voice)
    BY <1>1, <2>1, NoEffects DEF Synced, Tells
  <2>5. sessions[h].in_voice <=> Self(h).in_voice
    BY <2>2, <2>4 DEF RP!WillHave, RP!LastOf
  <2> QED BY <2>1, <2>3, <2>5
<1>2. WholeInv => RelayInSync
  BY <1>1 DEF RelayInSync
<1> QED BY <1>2, WholeInvariant, PTL

\* Once the relay has received a user's last event nothing is left of the user
\* there, if every client has one UDP address: of several cached addresses the
\* relay removes only the first that it finds.
THEOREM NothingIsLeft ==
    ASSUME RelayListens = TRUE, PortReuse = FALSE, Eager = {},
           \A h \in UserIds : \A a, b \in UdpAddrOf[h] : a = b
    PROVE  Spec => []NothingLeft
<1>1. RP!OneAddressEach
  BY SameIds DEF RP!OneAddressEach
<1>2. Init => RP!Paired
  BY RelayAssumption, ProtocolAssumption
     DEF Init, RelayInit, RP!Paired, RP!UserIds, UserIds, NoSession, NewSession
<1>3. WholeInv /\ RP!Paired /\ [Next]_vars => RP!Paired'
  <2> SUFFICES ASSUME WholeInv, RP!Paired, [Next]_vars PROVE RP!Paired'
    OBVIOUS
  <2>1. RP!RelayInv /\ [RP!RoSNext]_RP!streamVars
    BY WholeInvStep DEF WholeInv
  <2> QED BY <1>1, <2>1, RelayConstants, RP!PairedStep
<1>4. ASSUME WholeInv, RP!Paired, NEW h \in UserIds, pc[h] = "done", ~Pending(h)
      PROVE  sessions[h] = NoSession /\ \A a \in UdpAddresses : ids_by_addresses[a] # h
  <2>1. events \in Seq(Event) /\ RP!Forgotten(h)
    BY <1>4, SameIds DEF WholeInv, RP!Told, Streaming, Owned, Shape, MgmtTypeOK
  <2>2. \A i \in 1..Len(events) : events[i].id # h
    BY <1>4, <2>1 DEF Pending
  <2>3. StreamPhase[h] = "gone"
    BY <1>4 DEF StreamPhase
  <2>4. sessions[h] = RP!NoSession
    BY <2>1, <2>2, <2>3 DEF RP!Forgotten, RP!LastOf
  <2>5. sessions[h] = NoSession /\ sessions[h].udp_address = NoAddress
    BY <2>4 DEF RP!NoSession, RP!NewSession, NoSession, NewSession
  <2> QED BY <1>4, <2>5, SameIds, RelayAssumption DEF RP!Paired
<1>5. WholeInv /\ RP!Paired => NothingLeft
  BY <1>4 DEF NothingLeft
<1> QED BY <1>2, <1>3, <1>5, WholeInvariant, PTL DEF Spec
=============================================================================
