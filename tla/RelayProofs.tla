----------------------------- MODULE RelayProofs ----------------------------
(***************************************************************************)
(* Theorems about RelayOverStream, for any number of users, source         *)
(* addresses and waiting events, and for any network.                      *)
(*                                                                         *)
(* The argument.  The relay panics only over a user who is in voice and    *)
(* has no address.  A user is put in voice by VoiceJoined, sent only by a  *)
(* client that was answered, so by one whose session had an address; and   *)
(* the one event that makes a session without an address, UserConnected,   *)
(* comes once and before that answer.  Settled(h) is what holds of a user  *)
(* from the answer on.                                                     *)
(***************************************************************************)
EXTENDS RelayOverStream, SequenceTheorems, TLAPS

StreamTypeOK ==
    /\ events \in Seq(Event)
    /\ phase \in [UserIds -> {"none", "connected", "gone"}]

\* Events about a user come after its phase has left "none", and the user's
\* connection is announced once, while it has no session.
Announced ==
    /\ \A h \in UserIds : phase[h] = "none" =>
         /\ sessions[h] = NoSession
         /\ \A i \in 1..Len(events) : events[i].id # h
    /\ \A i \in 1..Len(events) : events[i].type = "UserConnected" =>
         /\ events[i].token = Token[events[i].id]
         /\ sessions[events[i].id] = NoSession
         /\ \A j \in 1..Len(events) :
              events[j].type = "UserConnected" /\ events[j].id = events[i].id => j = i

\* Every session has its user's token, and every datagram comes from the
\* client it says it comes from.
Genuine ==
    /\ \A h \in UserIds :
         /\ sessions[h] # NoSession => sessions[h].token = Token[h]
         /\ sessions[h].udp_address # NoAddress => sessions[h].udp_address \in UdpAddrOf[h]
    /\ \A a \in UdpAddresses :
         ids_by_addresses[a] # 0 => a \in UdpAddrOf[ids_by_addresses[a]]
    /\ \A d \in datagrams_in :
         IF d.type = "VoiceAuthRequest"
         THEN \E h \in UserIds : d.from \in UdpAddrOf[h] /\ d.token \in {0, Token[h]}
         ELSE d.speaker \in UserIds /\ d.from \in UdpAddrOf[d.speaker]

\* The connection of h has been announced, and if its session is still there
\* it has an address.
Settled(h) ==
    /\ phase[h] # "none"
    /\ \A i \in 1..Len(events) : ~(events[i].type = "UserConnected" /\ events[i].id = h)
    /\ sessions[h] # NoSession => sessions[h].udp_address # NoAddress

Answered ==
    \A h \in UserIds :
        \/ Settled(h)
        \/ /\ ~authed[h] /\ ~sessions[h].in_voice
           /\ \A a \in UdpAddrOf[h] : VoiceAuthResponse(a) \notin datagrams_out
           /\ \A i \in 1..Len(events) : ~(events[i].type = "VoiceJoined" /\ events[i].id = h)

RelayInv ==
    /\ StreamTypeOK /\ RelayTypeOK
    /\ Announced /\ Genuine /\ Answered
    /\ RelayAlive /\ RelayedIdentity

-----------------------------------------------------------------------------
(* Types of what the actions put in the state.                             *)

LEMMA EventTypesOK ==
    ASSUME NEW h \in UserIds
    PROVE  /\ UserConnected(h, Token[h]) \in Event
           /\ VoiceJoined(h) \in Event /\ VoiceLeft(h) \in Event
           /\ UserDisconnected(h) \in Event
BY DEF UserConnected, VoiceJoined, VoiceLeft, UserDisconnected, Event, EventTypes, Tokens

LEMMA SessionTypesOK ==
    /\ NoSession \in VoiceSession
    /\ \A t \in Tokens : NewSession(t) \in VoiceSession
    /\ NoSession.udp_address = NoAddress /\ ~NoSession.in_voice
BY DEF NoSession, NewSession, VoiceSession, Tokens

\* No user's token is the one of NoSession.
LEMMA TokensDiffer ==
    \A h, k \in UserIds : /\ Token[h] # 0 /\ Token[h] \in Tokens
                          /\ Token[h] = Token[k] => h = k
                          /\ h # 0 /\ h \in 0..MaxUsers
BY ProtocolAssumption DEF UserIds, Tokens

\* What a queue holds once an event has been appended, or the first taken.
LEMMA AppendedEvents ==
    ASSUME StreamTypeOK, NEW e \in Event, events' = Append(events, e)
    PROVE  /\ events' \in Seq(Event) /\ Len(events') = Len(events) + 1
           /\ \A i \in 1..Len(events) : events'[i] = events[i]
           /\ events'[Len(events) + 1] = e
           /\ Len(events) \in Nat
BY AppendProperties DEF StreamTypeOK

LEMMA TakenEvents ==
    ASSUME StreamTypeOK, events # <<>>, events' = Tail(events)
    PROVE  /\ events' \in Seq(Event) /\ Len(events') = Len(events) - 1
           /\ \A i \in 1..Len(events') : i + 1 \in 1..Len(events) /\ events'[i] = events[i + 1]
           /\ Head(events) = events[1] /\ Head(events) \in Event
           /\ 1 \in 1..Len(events) /\ Len(events) \in Nat
<1>1. events \in Seq(Event) BY DEF StreamTypeOK
<1>2. Len(events) \in Nat /\ Len(events) > 0
  BY <1>1, EmptySeq
<1>3. /\ Head(events) \in Event /\ Tail(events) \in Seq(Event)
      /\ Len(Tail(events)) = Len(events) - 1
      /\ \A i \in 1..Len(Tail(events)) : Tail(events)[i] = events[i + 1]
  BY <1>1, HeadTailProperties
<1>4. Head(events) = events[1] BY <1>1
<1> QED BY <1>2, <1>3, <1>4

-----------------------------------------------------------------------------
LEMMA RelayInvInit == RoSInit => RelayInv
<1> SUFFICES ASSUME RoSInit PROVE RelayInv
  OBVIOUS
<1> USE DEF RoSInit, StreamInit, RelayInit
<1>1. StreamTypeOK BY DEF StreamTypeOK
<1>2. RelayTypeOK BY SessionTypesOK, ProtocolAssumption DEF RelayTypeOK
<1>3. Len(events) = 0 BY EmptySeq
<1>4. Announced BY <1>3 DEF Announced
<1>5. Genuine BY SessionTypesOK DEF Genuine
<1>6. Answered BY <1>3, SessionTypesOK DEF Answered
<1> QED BY <1>1, <1>2, <1>4, <1>5, <1>6 DEF RelayInv, RelayAlive, RelayedIdentity

\* The management server sends an event.
LEMMA StreamStepInv ==
    ASSUME RelayInv, NEW h \in UserIds, StreamStep(h), Joins(h) => authed[h],
           UNCHANGED relayVars
    PROVE  RelayInv'
<1> USE DEF relayVars, serverVars, udpVars
<1>1. /\ StreamTypeOK /\ RelayTypeOK /\ Announced /\ Genuine /\ Answered
      /\ RelayAlive /\ RelayedIdentity
  BY DEF RelayInv
<1>2. RelayTypeOK' /\ Genuine' /\ RelayAlive' /\ RelayedIdentity'
  BY <1>1 DEF RelayTypeOK, Genuine, RelayAlive, RelayedIdentity
<1>3. CASE Connected(h)
  <2> DEFINE e == UserConnected(h, Token[h])
  <2>1. e \in Event /\ e.type = "UserConnected" /\ e.id = h /\ e.token = Token[h]
    BY EventTypesOK DEF UserConnected
  <2>2. phase[h] = "none" /\ phase' = [phase EXCEPT ![h] = "connected"]
        /\ events' = Append(events, e)
    BY <1>3 DEF Connected
  <2> HIDE DEF e
  <2>3. /\ events' \in Seq(Event) /\ Len(events') = Len(events) + 1
        /\ \A i \in 1..Len(events) : events'[i] = events[i]
        /\ events'[Len(events) + 1] = e /\ Len(events) \in Nat
    BY <1>1, <2>1, <2>2, AppendedEvents
  <2>4. StreamTypeOK' BY <1>1, <2>2, <2>3 DEF StreamTypeOK
  <2>5. sessions[h] = NoSession /\ \A i \in 1..Len(events) : events[i].id # h
    BY <1>1, <2>2 DEF Announced
  <2>6. Announced'
    BY <1>1, <2>1, <2>2, <2>3, <2>5 DEF Announced, StreamTypeOK
  <2>7. \A k \in UserIds : k # h /\ Settled(k) => Settled(k)'
    BY <1>1, <2>1, <2>2, <2>3 DEF Settled, StreamTypeOK
  <2>8. ~Settled(h) BY <2>2 DEF Settled
  <2>9. Answered'
    BY <1>1, <2>1, <2>2, <2>3, <2>7, <2>8 DEF Answered
  <2> QED BY <1>2, <2>4, <2>6, <2>9 DEF RelayInv
<1>4. ASSUME NEW e \in Event, events' = Append(events, e),
             e.id = h, e.type # "UserConnected",
             e.type = "VoiceJoined" => authed[h],
             phase[h] = "connected",
             phase' = phase \/ phase' = [phase EXCEPT ![h] = "gone"]
      PROVE  RelayInv'
  <2>1. /\ events' \in Seq(Event) /\ Len(events') = Len(events) + 1
        /\ \A i \in 1..Len(events) : events'[i] = events[i]
        /\ events'[Len(events) + 1] = e /\ Len(events) \in Nat
    BY <1>1, <1>4, AppendedEvents
  <2>2. StreamTypeOK' BY <1>1, <1>4, <2>1 DEF StreamTypeOK
  <2>3. \A k \in UserIds : phase'[k] = "none" <=> phase[k] = "none"
    BY <1>1, <1>4 DEF StreamTypeOK
  <2>4. Announced'
    BY <1>1, <1>4, <2>1, <2>3 DEF Announced
  <2>5. \A k \in UserIds : Settled(k) => Settled(k)'
    BY <1>4, <2>1, <2>3 DEF Settled
  <2>6. Answered'
    BY <1>1, <1>4, <2>1, <2>5 DEF Answered
  <2> QED BY <1>2, <2>2, <2>4, <2>6 DEF RelayInv
<1>5. CASE VoiceChanged(h)
  <2>1. PICK e \in {VoiceJoined(h), VoiceLeft(h)} : events' = Append(events, e)
    BY <1>5 DEF VoiceChanged
  <2>2. e \in Event
    BY <2>1, EventTypesOK
  <2>3. /\ e.id = h /\ e.type # "UserConnected"
        /\ e.type = "VoiceJoined" => authed[h]
    BY <2>1 DEF Joins, VoiceJoined, VoiceLeft
  <2>4. phase[h] = "connected" /\ phase' = phase
    BY <1>5 DEF VoiceChanged
  <2> QED BY <1>4, <2>1, <2>2, <2>3, <2>4
<1>6. CASE Disconnected(h)
  BY <1>4, <1>6, EventTypesOK DEF Disconnected, UserDisconnected
<1> QED BY <1>3, <1>5, <1>6 DEF StreamStep

-----------------------------------------------------------------------------
(* The client's steps.                                                     *)

LEMMA SendVoiceAuthInv ==
    ASSUME RelayInv, NEW h \in UserIds, NEW t \in {0, Token[h]}, SendVoiceAuth(h, t),
           UNCHANGED <<events, phase>>
    PROVE  RelayInv'
<1> USE DEF serverVars
<1>1. /\ StreamTypeOK /\ RelayTypeOK /\ Announced /\ Genuine /\ Answered
      /\ RelayAlive /\ RelayedIdentity
  BY DEF RelayInv
<1>2. PICK a \in UdpAddrOf[h] :
         datagrams_in' = datagrams_in \cup {VoiceAuthRequest(a, t)}
  BY DEF SendVoiceAuth
<1>3. UNCHANGED <<sessions, ids_by_addresses, relay, datagrams_out, authed>>
  BY DEF SendVoiceAuth
<1>4. a \in UdpAddresses /\ t \in Tokens
  BY RelayAssumption, TokensDiffer DEF Tokens
<1>5. VoiceAuthRequest(a, t) \in DatagramIn
  BY <1>4, ProtocolAssumption DEF VoiceAuthRequest, DatagramIn
<1>6. StreamTypeOK' /\ RelayTypeOK'
  BY <1>1, <1>2, <1>3, <1>5 DEF StreamTypeOK, RelayTypeOK
<1>7. Announced' /\ Answered' /\ RelayAlive' /\ RelayedIdentity'
  BY <1>1, <1>3 DEF Announced, Answered, Settled, RelayAlive, RelayedIdentity
<1>8. Genuine'
  BY <1>1, <1>2, <1>3 DEF Genuine, VoiceAuthRequest
<1> QED BY <1>6, <1>7, <1>8 DEF RelayInv

LEMMA SendVoiceDataInv ==
    ASSUME RelayInv, NEW h \in UserIds, SendVoiceData(h), UNCHANGED <<events, phase>>
    PROVE  RelayInv'
<1> USE DEF serverVars
<1>1. /\ StreamTypeOK /\ RelayTypeOK /\ Announced /\ Genuine /\ Answered
      /\ RelayAlive /\ RelayedIdentity
  BY DEF RelayInv
<1>2. PICK a \in UdpAddrOf[h] :
         datagrams_in' = datagrams_in \cup {VoiceDataFrom(a, h)}
  BY DEF SendVoiceData
<1>3. UNCHANGED <<sessions, ids_by_addresses, relay, datagrams_out, authed>>
  BY DEF SendVoiceData
<1>4. a \in UdpAddresses /\ h \in 0..MaxUsers /\ 0 \in Tokens
  BY RelayAssumption, TokensDiffer DEF Tokens
<1>5. VoiceDataFrom(a, h) \in DatagramIn
  BY <1>4 DEF VoiceDataFrom, DatagramIn
<1>6. StreamTypeOK' /\ RelayTypeOK'
  BY <1>1, <1>2, <1>3, <1>5 DEF StreamTypeOK, RelayTypeOK
<1>7. Announced' /\ Answered' /\ RelayAlive' /\ RelayedIdentity'
  BY <1>1, <1>3 DEF Announced, Answered, Settled, RelayAlive, RelayedIdentity
<1>8. Genuine'
  BY <1>1, <1>2, <1>3 DEF Genuine, VoiceDataFrom
<1> QED BY <1>6, <1>7, <1>8 DEF RelayInv

LEMMA ReceiveVoiceAuthResponseInv ==
    ASSUME RelayInv, NEW h \in UserIds, ReceiveVoiceAuthResponse(h),
           UNCHANGED <<events, phase>>
    PROVE  RelayInv'
<1> USE DEF serverVars
<1>1. /\ StreamTypeOK /\ RelayTypeOK /\ Announced /\ Genuine /\ Answered
      /\ RelayAlive /\ RelayedIdentity
  BY DEF RelayInv
<1>2. /\ UNCHANGED <<sessions, ids_by_addresses, relay, datagrams_in, datagrams_out>>
      /\ authed' = [authed EXCEPT ![h] = TRUE]
      /\ \E a \in UdpAddrOf[h] : VoiceAuthResponse(a) \in datagrams_out
  BY DEF ReceiveVoiceAuthResponse
<1>3. Settled(h)
  BY <1>1, <1>2 DEF Answered
<1>4. Answered'
  BY <1>1, <1>2, <1>3 DEF Answered, Settled, RelayTypeOK
<1>5. /\ StreamTypeOK' /\ RelayTypeOK' /\ Announced' /\ Genuine'
      /\ RelayAlive' /\ RelayedIdentity'
  BY <1>1, <1>2 DEF StreamTypeOK, RelayTypeOK, Announced, Genuine, RelayAlive, RelayedIdentity
<1> QED BY <1>4, <1>5 DEF RelayInv

-----------------------------------------------------------------------------
(* The relay's steps.                                                      *)

\* What handling an event leaves alone, and what it makes of the queue.
LEMMA EventTaken ==
    ASSUME RelayInv, NEW type, Receives(type), UNCHANGED phase
    PROVE  /\ Head(events).type = type /\ Head(events).id \in UserIds
           /\ UNCHANGED <<relay, datagrams_in, datagrams_out, authed>>
           /\ StreamTypeOK' /\ RelayAlive' /\ RelayedIdentity'
           /\ Len(events) \in Nat /\ Head(events) = events[1] /\ 1 \in 1..Len(events)
           /\ \A i \in 1..Len(events') :
                i + 1 \in 1..Len(events) /\ events'[i] = events[i + 1]
<1> USE DEF udpVars
<1>1. /\ StreamTypeOK /\ RelayAlive /\ RelayedIdentity /\ events # <<>>
      /\ events' = Tail(events) /\ Head(events).type = type
      /\ UNCHANGED <<relay, datagrams_in, datagrams_out, authed>>
  BY DEF RelayInv, Receives
<1>2. /\ events' \in Seq(Event)
      /\ \A i \in 1..Len(events') : i + 1 \in 1..Len(events) /\ events'[i] = events[i + 1]
      /\ Head(events) = events[1] /\ Head(events) \in Event
      /\ 1 \in 1..Len(events) /\ Len(events) \in Nat
  BY <1>1, TakenEvents
<1>3. StreamTypeOK'
  BY <1>1, <1>2 DEF StreamTypeOK
<1>4. RelayAlive' /\ RelayedIdentity'
  BY <1>1 DEF RelayAlive, RelayedIdentity
<1> QED BY <1>1, <1>2, <1>3, <1>4 DEF Event

\* A change of the sessions that a settled user stays settled under.
LEMMA SessionsChanged ==
    ASSUME RelayInv, NEW type, Receives(type), UNCHANGED phase,
           NEW s \in VoiceSession,
           sessions' = [sessions EXCEPT ![Head(events).id] = s],
           s = NoSession \/ (/\ sessions[Head(events).id] # NoSession
                             /\ s.udp_address = sessions[Head(events).id].udp_address
                             /\ s.token = sessions[Head(events).id].token),
           s.in_voice => sessions[Head(events).id].in_voice \/ type = "VoiceJoined",
           ids_by_addresses' \in [UdpAddresses -> 0..MaxUsers],
           \A a \in UdpAddresses : ids_by_addresses'[a] \in {0, ids_by_addresses[a]}
    PROVE  RelayInv'
<1> DEFINE h == Head(events).id
<1>1. /\ StreamTypeOK /\ RelayTypeOK /\ Announced /\ Genuine /\ Answered
  BY DEF RelayInv
<1>2. /\ h \in UserIds /\ h = events[1].id /\ events[1].type = type
      /\ UNCHANGED <<relay, datagrams_in, datagrams_out, authed>>
      /\ StreamTypeOK' /\ RelayAlive' /\ RelayedIdentity'
      /\ Len(events) \in Nat /\ 1 \in 1..Len(events)
      /\ \A i \in 1..Len(events') : i + 1 \in 1..Len(events) /\ events'[i] = events[i + 1]
  BY EventTaken
<1>3. \A k \in UserIds : sessions'[k] = IF k = h THEN s ELSE sessions[k]
  BY <1>1 DEF RelayTypeOK
<1>4. Len(events') \in Nat
  BY <1>2 DEF StreamTypeOK
<1> HIDE DEF h
<1>5. phase[h] # "none"
  BY <1>1, <1>2 DEF Announced
<1>6. RelayTypeOK'
  BY <1>1, <1>2 DEF RelayTypeOK, h
<1>7. Announced'
  <2>1. \A k \in UserIds : phase'[k] = "none" =>
          sessions'[k] = NoSession /\ \A i \in 1..Len(events') : events'[i].id # k
    BY <1>1, <1>2, <1>3, <1>5 DEF Announced
  <2>2. ASSUME NEW i \in 1..Len(events'), events'[i].type = "UserConnected"
        PROVE  /\ events'[i].token = Token[events'[i].id]
               /\ sessions'[events'[i].id] = NoSession
               /\ \A j \in 1..Len(events') :
                    events'[j].type = "UserConnected" /\ events'[j].id = events'[i].id => j = i
    <3>1. i + 1 \in 1..Len(events) /\ events'[i] = events[i + 1]
      BY <1>2
    <3>2. events[i + 1].id \in UserIds
      <4>1. events[i + 1] \in Event
        BY <1>1, <3>1, ElementOfSeq DEF StreamTypeOK
      <4> QED BY <4>1 DEF Event
    <3>3. sessions'[events'[i].id] = NoSession
      BY <1>1, <1>3, <2>2, <3>1, <3>2 DEF Announced, h
    <3>4. events'[i].token = Token[events'[i].id]
      BY <1>1, <2>2, <3>1 DEF Announced
    <3>5. ASSUME NEW j \in 1..Len(events'), events'[j].type = "UserConnected",
                 events'[j].id = events'[i].id
          PROVE  j = i
      <4>1. j + 1 \in 1..Len(events) /\ events'[j] = events[j + 1]
        BY <1>2
      <4>2. j + 1 = i + 1
        BY <1>1, <2>2, <3>1, <3>5, <4>1 DEF Announced
      <4> QED BY <1>4, <4>2
    <3> QED BY <3>3, <3>4, <3>5
  <2> QED BY <2>1, <2>2 DEF Announced
<1>8. Genuine'
  BY <1>1, <1>2, <1>3, SessionTypesOK DEF Genuine, RelayTypeOK, h
<1>9. \A k \in UserIds : Settled(k) => Settled(k)'
  BY <1>2, <1>3, SessionTypesOK DEF Settled, h
<1>10. Answered'
  <2> SUFFICES ASSUME NEW k \in UserIds, ~Settled(k)'
               PROVE  /\ ~authed'[k] /\ ~sessions'[k].in_voice
                      /\ \A a \in UdpAddrOf[k] : VoiceAuthResponse(a) \notin datagrams_out'
                      /\ \A i \in 1..Len(events') :
                           ~(events'[i].type = "VoiceJoined" /\ events'[i].id = k)
    BY DEF Answered
  <2>1. /\ ~authed[k] /\ ~sessions[k].in_voice
        /\ \A a \in UdpAddrOf[k] : VoiceAuthResponse(a) \notin datagrams_out
        /\ \A i \in 1..Len(events) : ~(events[i].type = "VoiceJoined" /\ events[i].id = k)
    BY <1>1, <1>9 DEF Answered
  <2>2. ~sessions'[k].in_voice
    BY <1>2, <1>3, <2>1 DEF h
  <2> QED BY <1>2, <2>1, <2>2
<1> QED BY <1>2, <1>6, <1>7, <1>8, <1>10 DEF RelayInv

\* Handling an event, by the kind of the event.
LEMMA HandleEventInv ==
    ASSUME RelayInv, HandleEvent, UNCHANGED phase
    PROVE  RelayInv'
<1> DEFINE e == Head(events)
<1>1. /\ StreamTypeOK /\ RelayTypeOK /\ Announced /\ Genuine /\ Answered
  BY DEF RelayInv
<1>2. CASE HandleUserConnected
  <2>1. Receives("UserConnected")
    BY <1>2 DEF HandleUserConnected
  <2>2. /\ e.type = "UserConnected" /\ e.id \in UserIds
        /\ UNCHANGED <<relay, datagrams_in, datagrams_out, authed>>
        /\ StreamTypeOK' /\ RelayAlive' /\ RelayedIdentity'
        /\ Len(events) \in Nat /\ e = events[1] /\ 1 \in 1..Len(events)
        /\ \A i \in 1..Len(events') :
             i + 1 \in 1..Len(events) /\ events'[i] = events[i + 1]
    BY <2>1, EventTaken
  <2> HIDE DEF e
  <2>3. Len(events') \in Nat
    BY <2>2 DEF StreamTypeOK
  <2>4. /\ e.token = Token[e.id] /\ sessions[e.id] = NoSession
        /\ \A j \in 2..Len(events) : ~(events[j].type = "UserConnected" /\ events[j].id = e.id)
        /\ phase[e.id] # "none"
    BY <1>1, <2>2 DEF Announced
  <2>5. /\ sessions' = [sessions EXCEPT ![e.id] = NewSession(e.token)]
        /\ UNCHANGED ids_by_addresses
    BY <1>2 DEF HandleUserConnected, e
  <2>6. /\ NewSession(e.token) \in VoiceSession /\ NewSession(e.token).token = Token[e.id]
        /\ NewSession(e.token).udp_address = NoAddress /\ ~NewSession(e.token).in_voice
    BY <2>2, <2>4, TokensDiffer, SessionTypesOK DEF NewSession
  <2>7. \A k \in UserIds :
          sessions'[k] = IF k = e.id THEN NewSession(e.token) ELSE sessions[k]
    BY <1>1, <2>5 DEF RelayTypeOK
  <2>8. RelayTypeOK'
    BY <1>1, <2>2, <2>5, <2>6 DEF RelayTypeOK
  <2>9. Announced'
    <3>1. ASSUME NEW i \in 1..Len(events')
          PROVE  /\ i + 1 \in 1..Len(events) /\ i + 1 \in 2..Len(events)
                 /\ events'[i] = events[i + 1] /\ events[i + 1].id \in UserIds
      <4>1. i + 1 \in 1..Len(events) /\ events'[i] = events[i + 1]
        BY <2>2
      <4>2. events[i + 1] \in Event
        BY <1>1, <4>1, ElementOfSeq DEF StreamTypeOK
      <4> QED BY <2>2, <2>3, <4>1, <4>2 DEF Event
    <3>2. \A k \in UserIds : phase'[k] = "none" =>
            sessions'[k] = NoSession /\ \A i \in 1..Len(events') : events'[i].id # k
      BY <1>1, <2>4, <2>7, <3>1 DEF Announced
    <3>3. ASSUME NEW i \in 1..Len(events'), events'[i].type = "UserConnected"
          PROVE  /\ events'[i].token = Token[events'[i].id]
                 /\ sessions'[events'[i].id] = NoSession
      BY <1>1, <2>4, <2>7, <3>1, <3>3 DEF Announced
    <3>4. ASSUME NEW i \in 1..Len(events'), NEW j \in 1..Len(events'),
                 events'[i].type = "UserConnected", events'[j].type = "UserConnected",
                 events'[j].id = events'[i].id
          PROVE  j = i
      <4>1. j + 1 = i + 1
        BY <1>1, <3>1, <3>4 DEF Announced
      <4> QED BY <2>3, <4>1
    <3> QED BY <3>2, <3>3, <3>4 DEF Announced
  <2>10. Genuine'
    BY <1>1, <2>2, <2>5, <2>6, <2>7 DEF Genuine
  <2>11. ~Settled(e.id)
    BY <2>2 DEF Settled
  <2>12. \A k \in UserIds : k # e.id /\ Settled(k) => Settled(k)'
    BY <2>2, <2>7 DEF Settled
  <2>13. Answered'
    BY <1>1, <2>2, <2>6, <2>7, <2>11, <2>12 DEF Answered
  <2> QED BY <2>2, <2>8, <2>9, <2>10, <2>13 DEF RelayInv
<1>3. ASSUME NEW type, NEW value \in BOOLEAN, Receives(type), value => type = "VoiceJoined",
             SetInVoice(e.id, value), UNCHANGED ids_by_addresses
      PROVE  RelayInv'
  <2> DEFINE s == IF sessions[e.id] = NoSession THEN NoSession
                  ELSE [sessions[e.id] EXCEPT !.in_voice = value]
  <2>1. e.id \in UserIds /\ sessions[e.id] \in VoiceSession
    BY <1>1, <1>3, EventTaken DEF RelayTypeOK
  <2>2. sessions' = [sessions EXCEPT ![e.id] = s]
    BY <1>1, <1>3, <2>1 DEF SetInVoice, RelayTypeOK
  <2>3. /\ s \in VoiceSession
        /\ s = NoSession \/ (/\ sessions[e.id] # NoSession
                             /\ s.udp_address = sessions[e.id].udp_address
                             /\ s.token = sessions[e.id].token)
        /\ s.in_voice => value
    BY <2>1, SessionTypesOK DEF VoiceSession
  <2>4. /\ ids_by_addresses' \in [UdpAddresses -> 0..MaxUsers]
        /\ \A a \in UdpAddresses : ids_by_addresses'[a] \in {0, ids_by_addresses[a]}
    BY <1>1, <1>3 DEF RelayTypeOK
  <2> HIDE DEF s
  <2> QED BY <1>3, <2>2, <2>3, <2>4, SessionsChanged
<1>4. CASE HandleVoiceJoined
  BY <1>3, <1>4 DEF HandleVoiceJoined
<1>5. CASE HandleVoiceLeft
  BY <1>3, <1>5 DEF HandleVoiceLeft
<1>6. CASE HandleUserDisconnected
  <2>1. /\ Receives("UserDisconnected")
        /\ sessions' = [sessions EXCEPT ![e.id] = NoSession]
    BY <1>6 DEF HandleUserDisconnected
  <2>2. /\ ids_by_addresses' \in [UdpAddresses -> 0..MaxUsers]
        /\ \A a \in UdpAddresses : ids_by_addresses'[a] \in {0, ids_by_addresses[a]}
    BY <1>1, <1>6, ProtocolAssumption DEF HandleUserDisconnected, AddressesOf, RelayTypeOK
  <2> QED BY <2>1, <2>2, SessionTypesOK, SessionsChanged
<1> QED BY <1>2, <1>4, <1>5, <1>6 DEF HandleEvent

\* A client that is answered is settled: its session was there and has an
\* address now.
LEMMA HandleVoiceAuthRequestInv ==
    ASSUME RelayInv, NEW d \in datagrams_in, NEW h \in UserIds,
           HandleVoiceAuthRequest(d, h), UNCHANGED phase
    PROVE  RelayInv'
<1>1. /\ StreamTypeOK /\ RelayTypeOK /\ Announced /\ Genuine /\ Answered
      /\ RelayAlive /\ RelayedIdentity
  BY DEF RelayInv
<1>2. /\ d \in DatagramIn /\ d.type = "VoiceAuthRequest" /\ d.from \in UdpAddresses
      /\ sessions[h] # NoSession /\ sessions[h].token = d.token
      /\ UNCHANGED <<events, relay, datagrams_in, authed>>
  BY <1>1 DEF HandleVoiceAuthRequest, RelayTypeOK, DatagramIn
<1>3. /\ sessions' = [sessions EXCEPT ![h].udp_address = d.from]
      /\ ids_by_addresses' = [ids_by_addresses EXCEPT ![d.from] = h]
      /\ datagrams_out' = datagrams_out \cup {VoiceAuthResponse(d.from)}
  BY DEF HandleVoiceAuthRequest
<1> DEFINE s == [sessions[h] EXCEPT !.udp_address = d.from]
<1>4. /\ s \in VoiceSession /\ s.token = sessions[h].token /\ s.udp_address = d.from
      /\ s.in_voice = sessions[h].in_voice
      /\ sessions' = [sessions EXCEPT ![h] = s]
  BY <1>1, <1>2, <1>3 DEF RelayTypeOK, VoiceSession
<1>5. d.from # NoAddress
  BY <1>2, RelayAssumption
<1> HIDE DEF s
<1>6. \A k \in UserIds : sessions'[k] = IF k = h THEN s ELSE sessions[k]
  BY <1>1, <1>4 DEF RelayTypeOK
<1>7. d.from \in UdpAddrOf[h] /\ \A g \in UserIds : d.from \in UdpAddrOf[g] => g = h
  <2>1. PICK g \in UserIds : d.from \in UdpAddrOf[g] /\ d.token \in {0, Token[g]}
    BY <1>1, <1>2 DEF Genuine
  <2>2. d.token = Token[h]
    BY <1>1, <1>2 DEF Genuine
  <2>3. g = h
    BY <2>1, <2>2, TokensDiffer
  <2> QED BY <2>1, <2>3, RelayAssumption
<1>8. Settled(h)'
  <2>1. phase[h] # "none"
    BY <1>1, <1>2 DEF Announced
  <2>2. \A i \in 1..Len(events) : ~(events[i].type = "UserConnected" /\ events[i].id = h)
    BY <1>1, <1>2 DEF Announced
  <2> QED BY <1>2, <1>4, <1>5, <1>6, <2>1, <2>2 DEF Settled
<1>9. StreamTypeOK' /\ RelayAlive'
  BY <1>1, <1>2 DEF StreamTypeOK, RelayAlive
<1>10. RelayTypeOK'
  <2>1. VoiceAuthResponse(d.from) \in DatagramOut
    BY <1>2, ProtocolAssumption DEF VoiceAuthResponse, DatagramOut
  <2> QED BY <1>1, <1>2, <1>3, <1>4, <2>1, TokensDiffer DEF RelayTypeOK
<1>11. Announced'
  <2>1. \A i \in 1..Len(events) : events[i].id \in UserIds
    <3>1. \A i \in 1..Len(events) : events[i] \in Event
      BY <1>1, ElementOfSeq DEF StreamTypeOK
    <3> QED BY <3>1 DEF Event
  <2> QED BY <1>1, <1>2, <1>6, <2>1 DEF Announced
<1>12. Genuine'
  BY <1>1, <1>2, <1>3, <1>4, <1>6, <1>7 DEF Genuine, RelayTypeOK
<1>13. Answered'
  <2>1. ASSUME NEW k \in UserIds, k # h, Settled(k) PROVE Settled(k)'
    BY <1>2, <1>6, <2>1 DEF Settled
  <2>2. \A k \in UserIds : \A a \in UdpAddrOf[k] : k # h =>
          (VoiceAuthResponse(a) \in datagrams_out' => VoiceAuthResponse(a) \in datagrams_out)
    BY <1>3, <1>7 DEF VoiceAuthResponse
  <2> QED BY <1>1, <1>2, <1>6, <1>8, <2>1, <2>2 DEF Answered
<1>14. RelayedIdentity'
  BY <1>1, <1>3 DEF RelayedIdentity, VoiceAuthResponse
<1> QED BY <1>9, <1>10, <1>11, <1>12, <1>13, <1>14 DEF RelayInv

\* Everybody in voice is settled, so unwrap() never fails, and the sender's
\* address tells who is speaking.
LEMMA HandleVoiceDataInv ==
    ASSUME RelayInv, NEW d \in datagrams_in, HandleVoiceData(d), UNCHANGED phase
    PROVE  RelayInv'
<1> DEFINE id == ids_by_addresses[d.from]
           voice == {VoiceDataTo(sessions[h].udp_address, id, d.speaker) : h \in Recipients(id)}
<1>1. /\ StreamTypeOK /\ RelayTypeOK /\ Announced /\ Genuine /\ Answered
      /\ RelayAlive /\ RelayedIdentity
  BY DEF RelayInv
<1>2. /\ d \in DatagramIn /\ d.type = "VoiceData" /\ d.from \in UdpAddresses /\ id # 0
      /\ UNCHANGED <<events, sessions, ids_by_addresses, datagrams_in, authed>>
  BY <1>1 DEF HandleVoiceData, RelayTypeOK, DatagramIn
<1>3. \A h \in Recipients(id) : Reachable(h) /\ h \in UserIds /\ h # id
  <2> TAKE h \in Recipients(id)
  <2>1. h \in UserIds /\ sessions[h].in_voice /\ h # id
    BY DEF Recipients
  <2>2. Settled(h) BY <1>1, <2>1 DEF Answered
  <2>3. sessions[h] # NoSession BY <2>1, SessionTypesOK
  <2> QED BY <2>1, <2>2, <2>3 DEF Settled, Reachable
<1>4. datagrams_out' = datagrams_out \cup voice /\ UNCHANGED relay
  BY <1>3 DEF HandleVoiceData
<1>5. id = d.speaker /\ id \in UserIds /\ id \in 0..MaxUsers
  <2>1. id \in UserIds
    BY <1>1, <1>2, ProtocolAssumption DEF RelayTypeOK, UserIds
  <2>2. d.from \in UdpAddrOf[id] /\ d.speaker \in UserIds /\ d.from \in UdpAddrOf[d.speaker]
    BY <1>1, <1>2 DEF Genuine
  <2> QED BY <2>1, <2>2, RelayAssumption, TokensDiffer
<1> HIDE DEF id
<1>6. \A m \in voice : /\ m \in DatagramOut /\ m.type = "VoiceData"
                       /\ m.user_id = id /\ m.speaker = id /\ m.to \notin UdpAddrOf[id]
  <2> TAKE m \in voice
  <2>1. PICK h \in Recipients(id) : m = VoiceDataTo(sessions[h].udp_address, id, d.speaker)
    OBVIOUS
  <2>2. sessions[h].udp_address \in UdpAddresses /\ sessions[h].udp_address \in UdpAddrOf[h]
    BY <1>1, <1>3, RelayAssumption DEF Reachable, Genuine
  <2>3. sessions[h].udp_address \notin UdpAddrOf[id]
    BY <1>3, <1>5, <2>2, RelayAssumption
  <2> QED BY <1>5, <2>1, <2>2, <2>3 DEF VoiceDataTo, DatagramOut
<1>7. \A m \in voice : \A a : m # VoiceAuthResponse(a)
  BY <1>6 DEF VoiceAuthResponse
<1> HIDE DEF voice
<1>8. StreamTypeOK' /\ RelayTypeOK' /\ Announced' /\ Genuine' /\ RelayAlive'
  BY <1>1, <1>2, <1>4, <1>6
     DEF StreamTypeOK, RelayTypeOK, Announced, Genuine, RelayAlive
<1>9. RelayedIdentity'
  BY <1>1, <1>4, <1>5, <1>6 DEF RelayedIdentity
<1>10. Answered'
  BY <1>1, <1>2, <1>4, <1>7 DEF Answered, Settled
<1> QED BY <1>8, <1>9, <1>10 DEF RelayInv

LEMMA RelayInvStep == RelayInv /\ [RoSNext]_streamVars => RelayInv'
<1> SUFFICES ASSUME RelayInv, [RoSNext]_streamVars PROVE RelayInv'
  OBVIOUS
<1>1. CASE UNCHANGED streamVars
  BY <1>1 DEF streamVars, relayVars, serverVars, udpVars, RelayInv, StreamTypeOK, RelayTypeOK,
              Announced, Genuine, Answered, Settled, RelayAlive, RelayedIdentity
<1>2. ASSUME NEW h \in UserIds, StreamStep(h), Joins(h) => authed[h], UNCHANGED relayVars
      PROVE  RelayInv'
  BY <1>2, StreamStepInv
<1>3. ASSUME NEW h \in UserIds, \E t \in {0, Token[h]} : SendVoiceAuth(h, t),
             UNCHANGED <<events, phase>>
      PROVE  RelayInv'
  BY <1>3, SendVoiceAuthInv
<1>4. ASSUME NEW h \in UserIds, ReceiveVoiceAuthResponse(h) \/ SendVoiceData(h),
             UNCHANGED <<events, phase>>
      PROVE  RelayInv'
  BY <1>4, ReceiveVoiceAuthResponseInv, SendVoiceDataInv
<1>5. ASSUME RelayStep, UNCHANGED phase PROVE RelayInv'
  BY <1>5, HandleEventInv, HandleVoiceAuthRequestInv, HandleVoiceDataInv DEF RelayStep
<1> QED BY <1>1, <1>2, <1>3, <1>4, <1>5 DEF RoSNext

-----------------------------------------------------------------------------
\* The maps and datagrams of the relay keep their types: no answer and no
\* voice is ever sent to a user without an address.
THEOREM RelayTypeCorrect == RoSSpec => []RelayTypeOK
<1>1. RelayInv => RelayTypeOK BY DEF RelayInv
<1> QED BY <1>1, RelayInvInit, RelayInvStep, PTL DEF RoSSpec

\* The relay task never panics (forward_voice_packet's unwrap), whatever the
\* network does, with clients that join voice once they are authenticated.
THEOREM RelayNeverPanics == RoSSpec => []RelayAlive
<1>1. RelayInv => RelayAlive BY DEF RelayInv
<1> QED BY <1>1, RelayInvInit, RelayInvStep, PTL DEF RoSSpec

\* Voice is always relayed under the id of the user who spoke, and never back
\* to that user, even if clients use several source addresses.
THEOREM VoiceIsAttributed == RoSSpec => []RelayedIdentity
<1>1. RelayInv => RelayedIdentity BY DEF RelayInv
<1> QED BY <1>1, RelayInvInit, RelayInvStep, PTL DEF RoSSpec

-----------------------------------------------------------------------------
(* The two maps, when every client keeps one source address.               *)

OneAddressEach ==
    \A h \in UserIds : \A a, b \in UdpAddrOf[h] : a = b

Paired ==
    \A a \in UdpAddresses : \A h \in UserIds :
        ids_by_addresses[a] = h <=> sessions[h].udp_address = a

LEMMA PairedStep ==
    ASSUME OneAddressEach, RelayInv, Paired, [RoSNext]_streamVars
    PROVE  Paired'
<1> USE DEF streamVars, relayVars, serverVars, udpVars
<1>1. /\ StreamTypeOK /\ RelayTypeOK /\ Announced /\ Genuine
      /\ \A h \in UserIds : h # 0 /\ h \in 0..MaxUsers
  BY TokensDiffer DEF RelayInv
<1>2. CASE UNCHANGED <<sessions, ids_by_addresses>>
  BY <1>2 DEF Paired
<1>3. ASSUME NEW h \in UserIds,
             (StreamStep(h) /\ UNCHANGED relayVars) \/ ReceiveVoiceAuthResponse(h)
             \/ SendVoiceData(h) \/ \E t \in {0, Token[h]} : SendVoiceAuth(h, t)
      PROVE  Paired'
  BY <1>2, <1>3 DEF ReceiveVoiceAuthResponse, SendVoiceData, SendVoiceAuth
<1>4. ASSUME NEW d \in datagrams_in, HandleVoiceData(d) PROVE Paired'
  BY <1>2, <1>4 DEF HandleVoiceData
<1>5. ASSUME NEW type, Receives(type), UNCHANGED phase PROVE Head(events).id \in UserIds
  BY <1>5, EventTaken
<1>6. ASSUME HandleUserConnected, UNCHANGED phase PROVE Paired'
  <2> DEFINE h == Head(events).id
  <2>1. Receives("UserConnected")
    BY <1>6 DEF HandleUserConnected
  <2>2. /\ h \in UserIds /\ Head(events).type = "UserConnected"
        /\ Head(events) = events[1] /\ 1 \in 1..Len(events)
    BY <1>6, <2>1, EventTaken
  <2>3. sessions[h] = NoSession
    BY <1>1, <2>2 DEF Announced
  <2>4. \A t : NewSession(t).udp_address = NoAddress
    BY DEF NewSession
  <2> QED BY <1>1, <1>6, <2>2, <2>3, <2>4, SessionTypesOK
          DEF HandleUserConnected, Paired, RelayTypeOK
<1>7. ASSUME NEW type, NEW value, Receives(type), UNCHANGED phase,
             SetInVoice(Head(events).id, value), UNCHANGED ids_by_addresses
      PROVE  Paired'
  <2>1. \A h \in UserIds : sessions'[h].udp_address = sessions[h].udp_address
    BY <1>1, <1>5, <1>7 DEF SetInVoice, RelayTypeOK, VoiceSession
  <2> QED BY <1>7, <2>1 DEF Paired
<1>8. ASSUME HandleUserDisconnected, UNCHANGED phase PROVE Paired'
  <2> DEFINE h == Head(events).id
  <2>1. h \in UserIds /\ sessions' = [sessions EXCEPT ![h] = NoSession]
    BY <1>5, <1>8 DEF HandleUserDisconnected
  <2>2. \A a, b \in AddressesOf(h) : a = b
    BY <2>1 DEF AddressesOf, Paired
  <2>3. \A a \in UdpAddresses :
          ids_by_addresses'[a] = IF ids_by_addresses[a] = h THEN 0 ELSE ids_by_addresses[a]
    <3>1. CASE AddressesOf(h) = {}
      BY <1>8, <3>1 DEF HandleUserDisconnected, AddressesOf
    <3>2. CASE AddressesOf(h) # {}
      <4>1. PICK b \in AddressesOf(h) :
              ids_by_addresses' = [ids_by_addresses EXCEPT ![b] = 0]
        BY <1>8, <3>2 DEF HandleUserDisconnected
      <4>2. \A a \in UdpAddresses : ids_by_addresses[a] = h <=> a = b
        BY <2>2, <4>1 DEF AddressesOf
      <4> QED BY <1>1, <4>1, <4>2 DEF RelayTypeOK
    <3> QED BY <3>1, <3>2
  <2> HIDE DEF h
  <2> QED BY <1>1, <2>1, <2>3, SessionTypesOK, RelayAssumption DEF Paired, RelayTypeOK
<1>9. ASSUME NEW d \in datagrams_in, NEW h \in UserIds, HandleVoiceAuthRequest(d, h)
      PROVE  Paired'
  <2>1. /\ d.from \in UdpAddresses /\ sessions[h] # NoSession /\ sessions[h].token = d.token
        /\ d.type = "VoiceAuthRequest"
        /\ sessions' = [sessions EXCEPT ![h].udp_address = d.from]
        /\ ids_by_addresses' = [ids_by_addresses EXCEPT ![d.from] = h]
    BY <1>1, <1>9 DEF HandleVoiceAuthRequest, RelayTypeOK, DatagramIn
  <2>2. d.from \in UdpAddrOf[h]
    <3>1. PICK g \in UserIds : d.from \in UdpAddrOf[g] /\ d.token \in {0, Token[g]}
      BY <1>1, <2>1 DEF Genuine
    <3> QED BY <1>1, <2>1, <3>1, TokensDiffer DEF Genuine
  <2>3. \A k \in UserIds : sessions[k].udp_address = d.from => k = h
    BY <1>1, <2>1, <2>2, RelayAssumption DEF Genuine
  <2>4. sessions[h].udp_address \in {d.from, NoAddress}
    BY <1>1, <2>2, OneAddressEach DEF Genuine, OneAddressEach
  <2>5. \A k \in UserIds : sessions'[k].udp_address =
          IF k = h THEN d.from ELSE sessions[k].udp_address
    BY <1>1, <2>1 DEF RelayTypeOK, VoiceSession
  <2> QED BY <1>1, <2>1, <2>3, <2>4, <2>5, RelayAssumption DEF Paired, RelayTypeOK
<1>10. ASSUME RelayStep, UNCHANGED phase PROVE Paired'
  BY <1>4, <1>6, <1>7, <1>8, <1>9, <1>10
     DEF RelayStep, HandleEvent, HandleVoiceJoined, HandleVoiceLeft
<1> QED BY <1>2, <1>3, <1>10 DEF RoSNext

\* The address cache and the sessions never disagree, for clients whose source
\* address does not change.
THEOREM MapsAlwaysAgree ==
    ASSUME OneAddressEach PROVE RoSSpec => []MapsAgree
<1>1. RoSInit => Paired
  BY SessionTypesOK, RelayAssumption, TokensDiffer DEF RoSInit, RelayInit, Paired
<1>2. RelayInv /\ Paired /\ [RoSNext]_streamVars => RelayInv' /\ Paired'
  BY RelayInvStep, PairedStep
<1>3. RelayInv /\ Paired => MapsAgree
  <2> SUFFICES ASSUME RelayInv, Paired PROVE MapsAgree
    OBVIOUS
  <2>1. RelayTypeOK BY DEF RelayInv
  <2>2. \A a \in UdpAddresses : ids_by_addresses[a] # 0 => ids_by_addresses[a] \in UserIds
    BY <2>1, ProtocolAssumption DEF RelayTypeOK, UserIds
  <2>3. \A h \in UserIds : sessions[h].udp_address # NoAddress =>
          sessions[h].udp_address \in UdpAddresses
    BY <2>1 DEF RelayTypeOK, VoiceSession
  <2> QED BY <2>2, <2>3 DEF MapsAgree, Paired
<1> QED BY <1>1, <1>2, <1>3, RelayInvInit, PTL DEF RoSSpec
-----------------------------------------------------------------------------
(* What becomes of a user whose stream goes on, or has ended.              *)

LastOf(h, i) ==
    /\ i \in 1..Len(events) /\ events[i].id = h
    /\ \A j \in 1..Len(events) : events[j].id = h => j <= i
FirstOf(h, i) ==
    /\ i \in 1..Len(events) /\ events[i].id = h
    /\ \A j \in 1..Len(events) : events[j].id = h => i <= j

\* A user that is connected has a session, or the first that the relay will
\* hear about it is its connection.
Remembered(h) ==
    phase[h] = "connected" =>
        /\ \A i \in 1..Len(events) : events[i].id = h => events[i].type # "UserDisconnected"
        /\ \/ sessions[h] # NoSession
           \/ \E i \in 1..Len(events) : FirstOf(h, i) /\ events[i].type = "UserConnected"

\* A user that is gone has no session, or the last that the relay will hear
\* about it is its disconnection.
Forgotten(h) ==
    phase[h] = "gone" =>
        \/ sessions[h] = NoSession /\ ~Pending(h)
        \/ \E i \in 1..Len(events) : LastOf(h, i) /\ events[i].type = "UserDisconnected"

\* Once it has received what is waiting, the relay will have h in voice, or not.
WillHave(h, voice) ==
    \/ ~Pending(h) /\ (sessions[h].in_voice <=> voice)
    \/ \E i \in 1..Len(events) :
         LastOf(h, i) /\ (events[i].type = "VoiceJoined" <=> voice)

Told == \A h \in UserIds : Remembered(h) /\ Forgotten(h)

\* What the sessions become when the relay takes an event, or a datagram.
LEMMA SessionsOfStep ==
    ASSUME RelayInv, RelayStep, UNCHANGED phase
    PROVE  \/ /\ UNCHANGED events
              /\ \A k \in UserIds : /\ sessions'[k] = NoSession <=> sessions[k] = NoSession
                                    /\ sessions'[k].in_voice = sessions[k].in_voice
           \/ /\ events # <<>> /\ events' = Tail(events) /\ events[1].id \in UserIds
              /\ events[1].type \in EventTypes
              /\ \A k \in UserIds : k # events[1].id => sessions'[k] = sessions[k]
              /\ LET k == events[1].id IN
                 /\ events[1].type = "UserConnected" =>
                      sessions'[k] # NoSession /\ ~sessions'[k].in_voice
                 /\ events[1].type = "UserDisconnected" => sessions'[k] = NoSession
                 /\ events[1].type \in {"VoiceJoined", "VoiceLeft"} =>
                      IF sessions[k] = NoSession THEN sessions'[k] = NoSession
                      ELSE /\ sessions'[k] # NoSession
                           /\ sessions'[k].in_voice <=> events[1].type = "VoiceJoined"
<1>1. /\ StreamTypeOK /\ RelayTypeOK /\ Announced /\ Genuine
      /\ sessions \in [UserIds -> VoiceSession]
  BY DEF RelayInv, RelayTypeOK
<1>2. ASSUME NEW d \in datagrams_in, HandleVoiceData(d) PROVE UNCHANGED <<events, sessions>>
  BY <1>2 DEF HandleVoiceData
<1>3. ASSUME NEW k \in UserIds, sessions[k] # NoSession
      PROVE  /\ \A a : /\ [sessions[k] EXCEPT !.udp_address = a] # NoSession
                       /\ [sessions[k] EXCEPT !.udp_address = a].in_voice = sessions[k].in_voice
             /\ \A v : /\ [sessions[k] EXCEPT !.in_voice = v] # NoSession
                       /\ [sessions[k] EXCEPT !.in_voice = v].in_voice = v
  <2> DEFINE s == sessions[k]
  <2>1. s.token # 0 /\ NoSession.token = 0 /\ s \in VoiceSession
    BY <1>1, <1>3, TokensDiffer DEF Genuine, NoSession, NewSession
  <2> HIDE DEF s
  <2>2. \A a : /\ [s EXCEPT !.udp_address = a].token = s.token
              /\ [s EXCEPT !.udp_address = a].in_voice = s.in_voice
    BY <2>1 DEF VoiceSession
  <2>3. \A v : /\ [s EXCEPT !.in_voice = v].token = s.token
              /\ [s EXCEPT !.in_voice = v].in_voice = v
    BY <2>1 DEF VoiceSession
  <2> QED BY <2>1, <2>2, <2>3 DEF s
<1>4. ASSUME NEW d \in datagrams_in, NEW h \in UserIds, HandleVoiceAuthRequest(d, h)
      PROVE  /\ UNCHANGED events
             /\ \A k \in UserIds : /\ sessions'[k] = NoSession <=> sessions[k] = NoSession
                                   /\ sessions'[k].in_voice = sessions[k].in_voice
  <2>1. /\ sessions[h] # NoSession /\ UNCHANGED events
        /\ sessions' = [sessions EXCEPT ![h] = [sessions[h] EXCEPT !.udp_address = d.from]]
    BY <1>4 DEF HandleVoiceAuthRequest
  <2>2. /\ [sessions[h] EXCEPT !.udp_address = d.from] # NoSession
        /\ [sessions[h] EXCEPT !.udp_address = d.from].in_voice = sessions[h].in_voice
    BY <1>3, <2>1
  <2> QED BY <1>1, <2>1, <2>2
<1>5. ASSUME NEW type, Receives(type)
      PROVE  /\ events # <<>> /\ events' = Tail(events) /\ Head(events) = events[1]
             /\ events[1].id \in UserIds /\ events[1].type \in EventTypes
             /\ events[1].type = type /\ 1 \in 1..Len(events)
  <2>1. Head(events) \in Event /\ Head(events) = events[1]
    BY <1>1, <1>5, TakenEvents DEF Receives
  <2> QED BY <1>5, <2>1, EventTaken DEF Receives, Event
<1>6. CASE HandleUserConnected
  <2>1. Receives("UserConnected")
    BY <1>6 DEF HandleUserConnected
  <2>2. events[1].token = Token[events[1].id]
    BY <1>1, <1>5, <2>1 DEF Announced
  <2>3. /\ NewSession(events[1].token) # NoSession /\ ~NewSession(events[1].token).in_voice
    BY <1>5, <2>1, <2>2, TokensDiffer DEF NoSession, NewSession
  <2> QED BY <1>1, <1>5, <1>6, <2>1, <2>3 DEF HandleUserConnected
<1>7. ASSUME NEW type \in {"VoiceJoined", "VoiceLeft"}, Receives(type),
             NEW v \in BOOLEAN, v <=> type = "VoiceJoined", SetInVoice(Head(events).id, v)
      PROVE  /\ events # <<>> /\ events' = Tail(events) /\ events[1].id \in UserIds
             /\ events[1].type = type
             /\ \A k \in UserIds : k # events[1].id => sessions'[k] = sessions[k]
             /\ IF sessions[events[1].id] = NoSession THEN sessions'[events[1].id] = NoSession
                ELSE /\ sessions'[events[1].id] # NoSession
                     /\ sessions'[events[1].id].in_voice <=> v
  <2> DEFINE k == events[1].id
  <2>1. Head(events) = events[1] /\ k \in UserIds
    BY <1>5, <1>7
  <2> HIDE DEF k
  <2>2. CASE sessions[k] = NoSession
    BY <1>5, <1>7, <2>1, <2>2 DEF SetInVoice, k
  <2>3. CASE sessions[k] # NoSession
    <3>1. sessions' = [sessions EXCEPT ![k] = [sessions[k] EXCEPT !.in_voice = v]]
      BY <1>7, <2>1, <2>3 DEF SetInVoice, k
    <3>2. /\ [sessions[k] EXCEPT !.in_voice = v] # NoSession
          /\ [sessions[k] EXCEPT !.in_voice = v].in_voice = v
      BY <1>3, <2>1, <2>3
    <3> QED BY <1>1, <1>5, <1>7, <2>1, <2>3, <3>1, <3>2 DEF k
  <2> QED BY <2>2, <2>3
<1>8. CASE HandleVoiceJoined
  BY <1>5, <1>7, <1>8 DEF HandleVoiceJoined
<1>9. CASE HandleVoiceLeft
  BY <1>5, <1>7, <1>9 DEF HandleVoiceLeft
<1>10. CASE HandleUserDisconnected
  <2>1. Receives("UserDisconnected")
    BY <1>10 DEF HandleUserDisconnected
  <2> QED BY <1>1, <1>5, <1>10, <2>1 DEF HandleUserDisconnected
<1> QED BY <1>2, <1>4, <1>6, <1>8, <1>9, <1>10 DEF RelayStep, HandleEvent

\* How the first and the last event about a user move as the queue does.
LEMMA QueueAppended ==
    ASSUME StreamTypeOK, NEW e \in Event, events' = Append(events, e), NEW h
    PROVE  /\ e.id = h => Pending(h)' /\ LastOf(h, Len(events))'
           /\ e.id # h => /\ Pending(h)' <=> Pending(h)
                          /\ \A i \in 1..Len(events) :
                               LastOf(h, i) => LastOf(h, i)' /\ events'[i] = events[i]
           /\ \A i \in 1..Len(events) : FirstOf(h, i) => FirstOf(h, i)' /\ events'[i] = events[i]
           /\ e.id = h /\ ~Pending(h) => FirstOf(h, Len(events))'
           /\ events'[Len(events) + 1] = e /\ Len(events') = Len(events) + 1
           /\ Len(events) \in Nat
<1>1. /\ Len(events') = Len(events) + 1 /\ Len(events) \in Nat
      /\ \A i \in 1..Len(events) : events'[i] = events[i]
      /\ events'[Len(events) + 1] = e /\ events' \in Seq(Event)
  BY AppendedEvents
<1>2. DOMAIN events = 1..Len(events) /\ DOMAIN events' = 1..Len(events')
  BY <1>1 DEF StreamTypeOK
<1>3. \A i \in 1..Len(events') : i \in 1..Len(events) \/ i = Len(events) + 1
  BY <1>1
<1>4. /\ e.id = h => Pending(h)'
      /\ e.id # h => (Pending(h)' <=> Pending(h))
  BY <1>1, <1>2, <1>3 DEF Pending
<1>5. e.id = h => LastOf(h, Len(events))'
  BY <1>1, <1>3 DEF LastOf
<1>6. e.id # h => \A i \in 1..Len(events) : LastOf(h, i) => LastOf(h, i)'
  BY <1>1, <1>3 DEF LastOf
<1>7. \A i \in 1..Len(events) : FirstOf(h, i) => FirstOf(h, i)'
  BY <1>1, <1>3 DEF FirstOf
<1>8. e.id = h /\ ~Pending(h) => FirstOf(h, Len(events))'
  BY <1>1, <1>2, <1>3 DEF FirstOf, Pending
<1> QED BY <1>1, <1>4, <1>5, <1>6, <1>7, <1>8

LEMMA QueueTaken ==
    ASSUME StreamTypeOK, events # <<>>, events' = Tail(events), NEW h
    PROVE  /\ events[1].id # h => (Pending(h)' <=> Pending(h))
           /\ Pending(h)' => Pending(h)
           /\ events[1].id = h => FirstOf(h, 1)
           /\ \A i \in 1..Len(events) :
                /\ i # 1 => i - 1 \in 1..Len(events') /\ events'[i - 1] = events[i]
                /\ LastOf(h, i) /\ i # 1 => LastOf(h, i - 1)'
                /\ LastOf(h, 1) => ~Pending(h)'
                /\ FirstOf(h, i) /\ i # 1 => FirstOf(h, i - 1)' /\ events[1].id # h
           /\ \A i \in 1..Len(events') : i + 1 \in 1..Len(events) /\ events'[i] = events[i + 1]
           /\ 1 \in 1..Len(events)
<1>1. /\ events' \in Seq(Event) /\ Len(events') = Len(events) - 1
      /\ \A i \in 1..Len(events') : i + 1 \in 1..Len(events) /\ events'[i] = events[i + 1]
      /\ 1 \in 1..Len(events) /\ Len(events) \in Nat
  BY TakenEvents
<1>2. DOMAIN events = 1..Len(events) /\ DOMAIN events' = 1..Len(events')
  BY <1>1 DEF StreamTypeOK
<1>3. \A i \in 1..Len(events) : i # 1 =>
         i - 1 \in 1..Len(events') /\ events'[i - 1] = events[i]
  <2> SUFFICES ASSUME NEW i \in 1..Len(events), i # 1
               PROVE  i - 1 \in 1..Len(events') /\ events'[i - 1] = events[i]
    OBVIOUS
  <2>1. i - 1 \in 1..Len(events') /\ (i - 1) + 1 = i
    BY <1>1
  <2> QED BY <1>1, <2>1
<1>5. Pending(h)' => Pending(h)
  BY <1>1, <1>2 DEF Pending
<1>4. events[1].id # h => (Pending(h)' <=> Pending(h))
  <2>1. ASSUME events[1].id # h, NEW i \in 1..Len(events), events[i].id = h
        PROVE  \E j \in 1..Len(events') : events'[j].id = h
    BY <1>3, <2>1
  <2> QED BY <1>2, <1>5, <2>1 DEF Pending
<1>6. events[1].id = h => FirstOf(h, 1)
  BY <1>1 DEF FirstOf
<1>7. LastOf(h, 1) => ~Pending(h)'
  <2> SUFFICES ASSUME LastOf(h, 1), NEW i \in 1..Len(events'), events'[i].id = h
               PROVE  FALSE
    BY <1>2 DEF Pending
  <2>1. i + 1 <= 1
    BY <1>1 DEF LastOf
  <2> QED BY <2>1
<1>8. ASSUME NEW i \in 1..Len(events), i # 1
      PROVE  /\ LastOf(h, i) => LastOf(h, i - 1)'
             /\ FirstOf(h, i) => FirstOf(h, i - 1)' /\ events[1].id # h
  <2>1. i - 1 \in 1..Len(events') /\ events'[i - 1] = events[i]
    BY <1>3, <1>8
  <2>2. ASSUME LastOf(h, i), NEW j \in 1..Len(events'), events'[j].id = h PROVE j <= i - 1
    <3>1. j + 1 <= i
      BY <1>1, <2>2 DEF LastOf
    <3> QED BY <3>1
  <2>3. ASSUME FirstOf(h, i), NEW j \in 1..Len(events'), events'[j].id = h PROVE i - 1 <= j
    <3>1. i <= j + 1
      BY <1>1, <2>3 DEF FirstOf
    <3> QED BY <3>1
  <2>4. FirstOf(h, i) => events[1].id # h
    BY <1>1, <1>8 DEF FirstOf
  <2> QED BY <2>1, <2>2, <2>3, <2>4 DEF LastOf, FirstOf
<1> QED BY <1>1, <1>3, <1>4, <1>5, <1>6, <1>7, <1>8

-----------------------------------------------------------------------------
LEMMA RememberedStep ==
    ASSUME RelayInv, Told, NEW h \in UserIds, [RoSNext]_streamVars
    PROVE  Remembered(h)'
<1> USE DEF streamVars, relayVars, serverVars, udpVars
<1>1. StreamTypeOK /\ RelayTypeOK /\ Announced /\ Remembered(h)
  BY DEF RelayInv, Told
<1>2. CASE UNCHANGED <<events, phase, sessions>>
  BY <1>1, <1>2 DEF Remembered, FirstOf
<1>3. ASSUME NEW e \in Event, events' = Append(events, e), UNCHANGED <<sessions>>,
             phase'[h] = "connected" => phase[h] = "connected",
             e.id = h /\ phase'[h] = "connected" => e.type # "UserDisconnected"
      PROVE  Remembered(h)'
  <2>1. /\ Len(events') = Len(events) + 1 /\ Len(events) \in Nat
        /\ \A i \in 1..Len(events) : events'[i] = events[i]
        /\ \A i \in 1..Len(events) : FirstOf(h, i) => FirstOf(h, i)'
        /\ events'[Len(events) + 1] = e
    BY <1>1, <1>3, AppendedEvents, QueueAppended
  <2> QED BY <1>1, <1>3, <2>1 DEF Remembered
<1>4. ASSUME Connected(h), UNCHANGED sessions PROVE Remembered(h)'
  <2> DEFINE e == UserConnected(h, Token[h])
  <2>1. e \in Event /\ e.type = "UserConnected" /\ e.id = h
    BY EventTypesOK DEF UserConnected
  <2>2. events' = Append(events, e) /\ phase[h] = "none"
    BY <1>4 DEF Connected
  <2> HIDE DEF e
  <2>3. \A i \in 1..Len(events) : events[i].id # h
    BY <1>1, <2>2 DEF Announced
  <2>4. ~Pending(h)
    BY <1>1, <2>3 DEF Pending, StreamTypeOK
  <2>5. /\ Len(events') = Len(events) + 1 /\ Len(events) \in Nat
        /\ \A i \in 1..Len(events) : events'[i] = events[i]
        /\ FirstOf(h, Len(events))' /\ events'[Len(events) + 1] = e
    BY <1>1, <2>1, <2>2, <2>4, AppendedEvents, QueueAppended
  <2> QED BY <2>1, <2>3, <2>5 DEF Remembered
<1>5. ASSUME NEW k \in UserIds, StreamStep(k), UNCHANGED relayVars PROVE Remembered(h)'
  <2>1. CASE Connected(k)
    <3>1. CASE k = h
      BY <1>4, <1>5, <2>1, <3>1
    <3>2. CASE k # h
      <4>1. UserConnected(k, Token[k]) \in Event /\ UserConnected(k, Token[k]).id = k
        BY EventTypesOK DEF UserConnected
      <4> QED BY <1>1, <1>3, <1>5, <2>1, <3>2, <4>1 DEF Connected, StreamTypeOK
    <3> QED BY <3>1, <3>2
  <2>2. CASE VoiceChanged(k)
    <3>1. PICK e \in {VoiceJoined(k), VoiceLeft(k)} : events' = Append(events, e)
      BY <2>2 DEF VoiceChanged
    <3>2. e \in Event
      BY <3>1, EventTypesOK
    <3>3. e.type # "UserDisconnected"
      BY <3>1 DEF VoiceJoined, VoiceLeft
    <3> QED BY <1>3, <1>5, <2>2, <3>1, <3>2, <3>3 DEF VoiceChanged
  <2>3. CASE Disconnected(k)
    <3>1. UserDisconnected(k) \in Event /\ UserDisconnected(k).id = k
      BY EventTypesOK DEF UserDisconnected
    <3> QED BY <1>1, <1>3, <1>5, <2>3, <3>1 DEF Disconnected, StreamTypeOK
  <2> QED BY <1>5, <2>1, <2>2, <2>3 DEF StreamStep
<1>6. ASSUME RelayStep, UNCHANGED phase, phase[h] = "connected" PROVE Remembered(h)'
  <2>1. CASE /\ UNCHANGED events
             /\ sessions'[h] = NoSession <=> sessions[h] = NoSession
    BY <1>1, <1>6, <2>1 DEF Remembered, FirstOf
  <2>2. ASSUME events # <<>>, events' = Tail(events)
        PROVE  \A i \in 1..Len(events') : events'[i].id = h => events'[i].type # "UserDisconnected"
    BY <1>1, <1>6, <2>2, QueueTaken DEF Remembered
  <2>3. ASSUME events # <<>>, events' = Tail(events), events[1].id # h,
               sessions'[h] = sessions[h]
        PROVE  Remembered(h)'
    <3>1. CASE sessions[h] # NoSession
      BY <2>2, <2>3, <3>1 DEF Remembered
    <3>2. CASE sessions[h] = NoSession
      <4>1. PICK i \in 1..Len(events) : FirstOf(h, i) /\ events[i].type = "UserConnected"
        BY <1>1, <1>6, <3>2 DEF Remembered
      <4>2. i # 1
        BY <2>3, <4>1 DEF FirstOf
      <4>3. i - 1 \in 1..Len(events') /\ FirstOf(h, i - 1)' /\ events'[i - 1] = events[i]
        BY <1>1, <2>3, <4>1, <4>2, QueueTaken
      <4> QED BY <2>2, <2>3, <4>1, <4>3 DEF Remembered
    <3> QED BY <3>1, <3>2
  <2>4. ASSUME events # <<>>, events' = Tail(events), events[1].id = h,
               events[1].type \in EventTypes,
               events[1].type = "UserConnected" => sessions'[h] # NoSession,
               events[1].type \in {"VoiceJoined", "VoiceLeft"} =>
                  (sessions[h] # NoSession => sessions'[h] # NoSession)
        PROVE  Remembered(h)'
    <3>1. 1 \in 1..Len(events) /\ FirstOf(h, 1)
      BY <1>1, <2>4, QueueTaken
    <3>2. events[1].type # "UserDisconnected"
      BY <1>1, <1>6, <2>4, <3>1 DEF Remembered
    <3>3. events[1].type # "UserConnected" => sessions[h] # NoSession
      <4>1. ASSUME NEW i \in 1..Len(events), FirstOf(h, i) PROVE i = 1
        BY <3>1, <4>1 DEF FirstOf
      <4> QED BY <1>1, <1>6, <4>1 DEF Remembered
    <3>4. sessions'[h] # NoSession
      BY <2>4, <3>2, <3>3 DEF EventTypes
    <3> QED BY <2>2, <2>4, <3>4 DEF Remembered
  <2> QED BY <1>6, <2>1, <2>3, <2>4, SessionsOfStep
<1>7. ASSUME RelayStep, UNCHANGED phase, phase[h] # "connected" PROVE Remembered(h)'
  BY <1>7 DEF Remembered
<1>8. ASSUME NEW k \in UserIds,
             ReceiveVoiceAuthResponse(k) \/ SendVoiceData(k)
             \/ \E t \in {0, Token[k]} : SendVoiceAuth(k, t)
      PROVE  UNCHANGED sessions
  BY <1>8 DEF ReceiveVoiceAuthResponse, SendVoiceData, SendVoiceAuth
<1> QED BY <1>2, <1>5, <1>6, <1>7, <1>8 DEF RoSNext

LEMMA ForgottenStep ==
    ASSUME RelayInv, Told, NEW h \in UserIds, [RoSNext]_streamVars
    PROVE  Forgotten(h)'
<1> USE DEF streamVars, relayVars, serverVars, udpVars
<1>1. StreamTypeOK /\ RelayTypeOK /\ Forgotten(h)
  BY DEF RelayInv, Told
<1>2. CASE UNCHANGED <<events, phase, sessions>>
  BY <1>1, <1>2 DEF Forgotten, LastOf, Pending
<1>3. ASSUME NEW k \in UserIds, StreamStep(k), UNCHANGED relayVars PROVE Forgotten(h)'
  <2> SUFFICES ASSUME phase'[h] = "gone" PROVE Forgotten(h)'
    BY DEF Forgotten
  <2>1. PICK e \in Event : /\ events' = Append(events, e) /\ e.id = k
                           /\ phase'[k] = "gone" => e.type = "UserDisconnected"
                           /\ k # h => phase'[h] = phase[h]
    <3>1. /\ UserConnected(k, Token[k]) \in Event /\ UserConnected(k, Token[k]).id = k
          /\ VoiceJoined(k) \in Event /\ VoiceJoined(k).id = k
          /\ VoiceLeft(k) \in Event /\ VoiceLeft(k).id = k
          /\ UserDisconnected(k) \in Event /\ UserDisconnected(k).id = k
          /\ UserDisconnected(k).type = "UserDisconnected"
      BY EventTypesOK DEF UserConnected, VoiceJoined, VoiceLeft, UserDisconnected
    <3> QED
      BY <1>1, <1>3, <3>1
         DEF StreamStep, Connected, VoiceChanged, Disconnected, StreamTypeOK
  <2>2. /\ Len(events') = Len(events) + 1 /\ Len(events) \in Nat
        /\ events'[Len(events) + 1] = e
        /\ k = h => LastOf(h, Len(events))'
        /\ k # h => /\ Pending(h)' <=> Pending(h)
                    /\ \A i \in 1..Len(events) :
                         LastOf(h, i) => LastOf(h, i)' /\ events'[i] = events[i]
    BY <1>1, <2>1, QueueAppended
  <2>3. CASE k = h
    BY <2>1, <2>2, <2>3 DEF Forgotten
  <2>4. CASE k # h
    BY <1>1, <1>3, <2>1, <2>2, <2>4 DEF Forgotten
  <2> QED BY <2>3, <2>4
<1>4. ASSUME RelayStep, UNCHANGED phase, phase[h] = "gone" PROVE Forgotten(h)'
  <2>1. CASE /\ UNCHANGED events
             /\ sessions'[h] = NoSession <=> sessions[h] = NoSession
    BY <1>1, <1>4, <2>1 DEF Forgotten, LastOf, Pending
  <2>2. ASSUME NEW i \in 1..Len(events), events # <<>>, events' = Tail(events),
               LastOf(h, i), events[i].type = "UserDisconnected", i # 1
        PROVE  Forgotten(h)'
    <3>1. i - 1 \in 1..Len(events') /\ LastOf(h, i - 1)' /\ events'[i - 1] = events[i]
      BY <1>1, <2>2, QueueTaken
    <3> QED BY <2>2, <3>1 DEF Forgotten
  <2>3. ASSUME events # <<>>, events' = Tail(events), LastOf(h, 1),
               events[1].type = "UserDisconnected", sessions'[h] = NoSession
        PROVE  Forgotten(h)'
    <3>1. ~Pending(h)'
      BY <1>1, <2>3, QueueTaken
    <3> QED BY <2>3, <3>1 DEF Forgotten
  <2>4. ASSUME events # <<>>, events' = Tail(events), ~Pending(h),
               sessions[h] = NoSession,
               events[1].id # h => sessions'[h] = sessions[h]
        PROVE  Forgotten(h)'
    <3>1. 1 \in DOMAIN events
      BY <1>1, <2>4, QueueTaken DEF StreamTypeOK
    <3>2. events[1].id # h
      BY <2>4, <3>1 DEF Pending
    <3>3. ~Pending(h)'
      BY <1>1, <2>4, <3>2, QueueTaken
    <3> QED BY <2>4, <3>2, <3>3 DEF Forgotten
  <2>5. ASSUME NEW i \in 1..Len(events), LastOf(h, i), events[i].type = "UserDisconnected",
               events # <<>>, events' = Tail(events),
               events[1].id # h => sessions'[h] = sessions[h],
               events[1].id = h => 
                 (events[1].type = "UserDisconnected" => sessions'[h] = NoSession)
        PROVE  Forgotten(h)'
    <3>1. i = 1 => events[1].id = h
      BY <2>5 DEF LastOf
    <3> QED BY <2>2, <2>3, <2>5, <3>1
  <2>6. \/ sessions[h] = NoSession /\ ~Pending(h)
        \/ \E i \in 1..Len(events) : LastOf(h, i) /\ events[i].type = "UserDisconnected"
    BY <1>1, <1>4 DEF Forgotten
  <2>7. CASE /\ events # <<>> /\ events' = Tail(events)
             /\ events[1].id # h => sessions'[h] = sessions[h]
             /\ events[1].id = h =>
                  (events[1].type = "UserDisconnected" => sessions'[h] = NoSession)
    BY <2>4, <2>5, <2>6, <2>7
  <2> QED BY <1>4, <2>1, <2>7, SessionsOfStep
<1>5. ASSUME RelayStep, UNCHANGED phase, phase[h] # "gone" PROVE Forgotten(h)'
  BY <1>5 DEF Forgotten
<1>6. ASSUME NEW k \in UserIds,
             ReceiveVoiceAuthResponse(k) \/ SendVoiceData(k)
             \/ \E t \in {0, Token[k]} : SendVoiceAuth(k, t)
      PROVE  UNCHANGED sessions
  BY <1>6 DEF ReceiveVoiceAuthResponse, SendVoiceData, SendVoiceAuth
<1> QED BY <1>2, <1>3, <1>4, <1>5, <1>6 DEF RoSNext

\* An event about h decides what the relay will have of it; nothing else
\* that happens while h is connected changes that.
LEMMA WillHaveAppended ==
    ASSUME RelayInv, NEW h \in UserIds, NEW e \in Event, events' = Append(events, e),
           UNCHANGED sessions, NEW voice
    PROVE  /\ e.id = h => WillHave(h, e.type = "VoiceJoined")'
           /\ e.id # h /\ WillHave(h, voice) => WillHave(h, voice)'
<1>1. StreamTypeOK
  BY DEF RelayInv
<1>2. /\ Len(events') = Len(events) + 1 /\ Len(events) \in Nat
      /\ events'[Len(events) + 1] = e
      /\ e.id = h => LastOf(h, Len(events))'
      /\ e.id # h => /\ Pending(h)' <=> Pending(h)
                     /\ \A i \in 1..Len(events) :
                          LastOf(h, i) => LastOf(h, i)' /\ events'[i] = events[i]
  BY <1>1, QueueAppended
<1> QED BY <1>2 DEF WillHave

LEMMA WillHaveKept ==
    ASSUME RelayInv, Told, NEW h \in UserIds, phase[h] = "connected",
           RelayStep, UNCHANGED phase, NEW voice \in BOOLEAN, WillHave(h, voice)
    PROVE  WillHave(h, voice)'
<1>1. StreamTypeOK /\ RelayTypeOK /\ Remembered(h)
  BY DEF RelayInv, Told
<1>2. CASE UNCHANGED events /\ sessions'[h].in_voice = sessions[h].in_voice
  BY <1>1, <1>2 DEF WillHave, LastOf, Pending
<1>3. ASSUME events # <<>>, events' = Tail(events), ~Pending(h),
             sessions[h].in_voice <=> voice, events[1].id # h => sessions'[h] = sessions[h]
      PROVE  WillHave(h, voice)'
  <2>1. 1 \in DOMAIN events
    BY <1>1, <1>3, QueueTaken DEF StreamTypeOK
  <2>2. events[1].id # h
    BY <1>3, <2>1 DEF Pending
  <2>3. ~Pending(h)'
    BY <1>1, <1>3, <2>2, QueueTaken
  <2> QED BY <1>3, <2>2, <2>3 DEF WillHave
<1>4. ASSUME NEW i \in 1..Len(events), events # <<>>, events' = Tail(events),
             LastOf(h, i), events[i].type = "VoiceJoined" <=> voice, i # 1
      PROVE  WillHave(h, voice)'
  <2>1. i - 1 \in 1..Len(events') /\ LastOf(h, i - 1)' /\ events'[i - 1] = events[i]
    BY <1>1, <1>4, QueueTaken
  <2> QED BY <1>4, <2>1 DEF WillHave
<1>5. ASSUME events # <<>>, events' = Tail(events), LastOf(h, 1),
             events[1].type = "VoiceJoined" <=> voice, events[1].type \in EventTypes,
             events[1].type = "UserConnected" => ~sessions'[h].in_voice,
             events[1].type \in {"VoiceJoined", "VoiceLeft"} =>
               (sessions[h] # NoSession =>
                    (sessions'[h].in_voice <=> events[1].type = "VoiceJoined"))
      PROVE  WillHave(h, voice)'
  <2>1. 1 \in 1..Len(events) /\ FirstOf(h, 1) /\ ~Pending(h)' /\ events[1].id = h
    BY <1>1, <1>5, QueueTaken DEF LastOf
  <2>2. events[1].type # "UserDisconnected"
    BY <1>1, <2>1 DEF Remembered
  <2>3. events[1].type # "UserConnected" => sessions[h] # NoSession
    <3>1. ASSUME NEW i \in 1..Len(events), FirstOf(h, i) PROVE i = 1
      BY <2>1, <3>1 DEF FirstOf
    <3> QED BY <1>1, <3>1 DEF Remembered
  <2>4. sessions'[h].in_voice <=> voice
    BY <1>5, <2>2, <2>3 DEF EventTypes
  <2> QED BY <2>1, <2>4 DEF WillHave
<1>6. CASE /\ events # <<>> /\ events' = Tail(events) /\ events[1].type \in EventTypes
           /\ events[1].id # h => sessions'[h] = sessions[h]
           /\ events[1].id = h =>
                /\ events[1].type = "UserConnected" => ~sessions'[h].in_voice
                /\ events[1].type \in {"VoiceJoined", "VoiceLeft"} =>
                     (sessions[h] # NoSession =>
                        (sessions'[h].in_voice <=> events[1].type = "VoiceJoined"))
  <2>1. LastOf(h, 1) => events[1].id = h
    BY DEF LastOf
  <2> QED BY <1>3, <1>4, <1>5, <1>6, <2>1 DEF WillHave
<1> QED BY <1>2, <1>6, SessionsOfStep

LEMMA ToldInit == RoSInit => Told
BY EmptySeq DEF RoSInit, StreamInit, RelayInit, Told, Remembered, Forgotten

LEMMA ToldStep == RelayInv /\ Told /\ [RoSNext]_streamVars => Told'
BY RememberedStep, ForgottenStep DEF Told

=============================================================================
