------------------------------ MODULE SdkProofs ------------------------------
(* Theorems about the SDK's TCP client, under Client::connect.              *)
EXTENDS SdkClient, FiniteSetTheorems, FunctionTheorems, SequenceTheorems, TLAPS

(***************************************************************************)
(* Where a request can be: how often it waits in the send queue, how often *)
(* it, and its answer, is under way on a connection.                       *)
(***************************************************************************)
Queued(r) == Occurrences(send_queue, r)
Sent(k, r) == Occurrences(to_server[k], r)
Back(k, r) == Occurrences(to_client[k], Answer(r))

NothingOn(k, r) ==
    r \notin pending_responses[k] /\ Sent(k, r) = 0 /\ Back(k, r) = 0

OnTheWay(k, r) ==
    /\ \A j \in Connections \ {k} : NothingOn(j, r)
    /\ Sent(k, r) + executed[r] <= 1
    /\ Back(k, r) <= executed[r]
    /\ outcome[r] = "waiting" =>
         /\ r \in pending_responses[k]
         /\ links[k] = "closed" \/ Sent(k, r) + Back(k, r) = 1
    /\ outcome[r] = "ok" => executed[r] = 1

\* A request is nowhere before it is made, then once in the send queue, then
\* on one connection at most.
NotMade(r) ==
    /\ outcome[r] = "idle" /\ Queued(r) = 0 /\ executed[r] = 0
    /\ \A k \in Connections : NothingOn(k, r)
InQueue(r) ==
    /\ outcome[r] \notin {"idle", "ok"} /\ Queued(r) = 1 /\ executed[r] = 0
    /\ \A k \in Connections : NothingOn(k, r)
Taken(r) ==
    /\ outcome[r] # "idle" /\ Queued(r) = 0
    /\ \E k \in Connections : OnTheWay(k, r)

HandlersHold ==
    \A k \in Connections :
        /\ pending_responses[k] # {} => handlers[k] = "running"
        /\ handlers[k] = "running" => links[k] # "none"

Placed == \A r \in Requests : NotMade(r) \/ InQueue(r) \/ Taken(r)
SdkInv == SdkTypeOK /\ HandlersHold /\ Placed

-----------------------------------------------------------------------------
(* Counting.                                                               *)

LEMMA OccurrencesNat ==
    ASSUME NEW S, NEW s \in Seq(S), NEW x
    PROVE  /\ IsFiniteSet({i \in 1..Len(s) : s[i] = x})
           /\ Occurrences(s, x) = Cardinality({i \in 1..Len(s) : s[i] = x})
           /\ Occurrences(s, x) \in Nat
<1> DEFINE A == {i \in 1..Len(s) : s[i] = x}
<1>1. Len(s) \in Nat /\ DOMAIN s = 1..Len(s)
  BY LenProperties
<1>2. IsFiniteSet(1..Len(s))
  BY <1>1, FS_Interval
<1>3. IsFiniteSet(A)
  BY <1>2, FS_Subset, A \in SUBSET (1..Len(s))
<1>4. Cardinality(A) \in Nat
  BY <1>3, FS_CardinalityType
<1> QED BY <1>1, <1>3, <1>4 DEF Occurrences

LEMMA OccurrencesNone ==
    ASSUME NEW x PROVE Occurrences(<<>>, x) = 0
<1>1. {i \in DOMAIN <<>> : <<>>[i] = x} = {}
  OBVIOUS
<1> QED BY <1>1, FS_EmptySet DEF Occurrences

LEMMA OccurrencesAppend ==
    ASSUME NEW S, NEW s \in Seq(S), NEW e \in S, NEW x
    PROVE  Occurrences(Append(s, e), x) = Occurrences(s, x) + (IF e = x THEN 1 ELSE 0)
<1> DEFINE t == Append(s, e)
           n == Len(s)
           A == {i \in 1..n : s[i] = x}
           B == {i \in 1..Len(t) : t[i] = x}
<1>1. n \in Nat
  BY LenProperties
<1>2. /\ t \in Seq(S) /\ Len(t) = n + 1 /\ t[n + 1] = e
      /\ \A i \in 1..n : t[i] = s[i]
  BY AppendProperties
<1>3. IsFiniteSet(A) /\ Occurrences(s, x) = Cardinality(A) /\ Cardinality(A) \in Nat
  BY OccurrencesNat
<1>4. Occurrences(t, x) = Cardinality(B)
  BY <1>2, OccurrencesNat
<1>5. CASE e = x
  <2>1. B = A \cup {n + 1}
    BY <1>1, <1>2, <1>5
  <2>2. n + 1 \notin A
    BY <1>1
  <2>3. Cardinality(B) = Cardinality(A) + 1
    BY <1>3, <2>1, <2>2, FS_AddElement
  <2> HIDE DEF t, A, B
  <2> QED BY <1>3, <1>4, <1>5, <2>3 DEF t
<1>6. CASE e # x
  <2>1. B = A
    BY <1>1, <1>2, <1>6
  <2> HIDE DEF A, B
  <2> QED BY <1>3, <1>4, <1>6, <2>1
<1> QED BY <1>5, <1>6

LEMMA OccurrencesTail ==
    ASSUME NEW S, NEW s \in Seq(S), s # <<>>, NEW x
    PROVE  /\ Head(s) \in S /\ Tail(s) \in Seq(S)
           /\ Occurrences(s, x)
                = Occurrences(Tail(s), x) + (IF Head(s) = x THEN 1 ELSE 0)
<1> DEFINE t == Tail(s)
           n == Len(t)
           A == {i \in 1..Len(s) : s[i] = x}
           B == {i \in 1..n : t[i] = x}
           f == [i \in B |-> i + 1]
<1>1. /\ Head(s) \in S /\ t \in Seq(S) /\ Len(s) = n + 1 /\ n \in Nat
      /\ \A i \in 1..n : t[i] = s[i + 1]
      /\ Head(s) = s[1]
  BY HeadTailProperties, LenProperties, EmptySeq
<1>2. IsFiniteSet(A) /\ Occurrences(s, x) = Cardinality(A) /\ Cardinality(A) \in Nat
  BY OccurrencesNat
<1>3. IsFiniteSet(B) /\ Occurrences(t, x) = Cardinality(B) /\ Cardinality(B) \in Nat
  <2>1. \A u \in Seq(S) : LET C == {i \in 1..Len(u) : u[i] = x} IN
            IsFiniteSet(C) /\ Occurrences(u, x) = Cardinality(C) /\ Cardinality(C) \in Nat
    <3>1. ASSUME NEW u \in Seq(S)
          PROVE  LET C == {i \in 1..Len(u) : u[i] = x} IN
            IsFiniteSet(C) /\ Occurrences(u, x) = Cardinality(C) /\ Cardinality(C) \in Nat
      BY OccurrencesNat
    <3> QED BY <3>1
  <2>2. t \in Seq(S)
    BY <1>1
  <2> HIDE DEF t
  <2> QED BY <2>1, <2>2, Zenon
<1>4. f \in Bijection(B, A \ {1})
  <2>1. f \in [B -> A \ {1}]
    BY <1>1
  <2>2. \A i, j \in B : f[i] = f[j] => i = j
    BY <1>1
  <2>3. \A i \in A \ {1} : \E j \in B : f[j] = i
    <3> SUFFICES ASSUME NEW i \in A \ {1} PROVE \E j \in B : f[j] = i
      OBVIOUS
    <3>1. i - 1 \in 1..n /\ (i - 1) + 1 = i
      BY <1>1
    <3>2. i - 1 \in B
      BY <1>1, <3>1
    <3> QED BY <3>1, <3>2
  <2> HIDE DEF f
  <2> QED BY <2>1, <2>2, <2>3, Fun_IsBij
<1>5. Cardinality(A \ {1}) = Cardinality(B)
  <2> HIDE DEF A, B, f
  <2>1. ExistsBijection(B, A \ {1})
    BY <1>4 DEF ExistsBijection
  <2> QED BY <1>3, <2>1, FS_Bijection
<1>6. Cardinality(A) = Cardinality(A \ {1}) + (IF 1 \in A THEN 1 ELSE 0)
  <2> HIDE DEF A
  <2>1. Cardinality(A \ {1}) = IF 1 \in A THEN Cardinality(A) - 1 ELSE Cardinality(A)
    BY <1>2, FS_RemoveElement
  <2> QED BY <1>2, <2>1
<1>7. 1 \in A <=> Head(s) = x
  BY <1>1
<1>8. Occurrences(s, x) = Occurrences(t, x) + (IF Head(s) = x THEN 1 ELSE 0)
  <2> HIDE DEF A, B
  <2> QED BY <1>2, <1>3, <1>5, <1>6, <1>7
<1> QED BY <1>1, <1>8

LEMMA Counts ==
    ASSUME SdkTypeOK, NEW r \in Requests
    PROVE  /\ Queued(r) \in Nat /\ executed[r] \in Nat
           /\ \A k \in Connections : Sent(k, r) \in Nat /\ Back(k, r) \in Nat
<1>1. send_queue \in Seq(Requests \cup Notices) /\ executed[r] \in Nat
  BY DEF SdkTypeOK, TcpTypeOK
<1>2. Queued(r) \in Nat
  BY <1>1, OccurrencesNat DEF Queued
<1>3. ASSUME NEW k \in Connections PROVE Sent(k, r) \in Nat /\ Back(k, r) \in Nat
  <2>1. to_server[k] \in Seq(Requests \cup Notices) /\ to_client[k] \in Seq(Packets)
    BY DEF SdkTypeOK, TcpTypeOK
  <2> QED BY <2>1, OccurrencesNat DEF Sent, Back
<1> QED BY <1>1, <1>2, <1>3

-----------------------------------------------------------------------------
(* Types.                                                                  *)

LEMMA SdkTypeInitially == SdkInit => SdkTypeOK
BY TcpAssumption DEF SdkInit, TcpInit, Udp!RpcInit, SdkTypeOK, TcpTypeOK

LEMMA PacketsAre ==
    /\ \A r \in Requests : Answer(r) \in Packets
    /\ \A n \in 1..MaxNews : News(n) \in Packets
    /\ NoPacket \notin Packets /\ NotStarted \notin Packets
BY DEF Packets, Answer, News, NoPacket, NotStarted

LEMMA SdkTypeKeeps == SdkTypeOK /\ [SdkNext]_sdkVars => SdkTypeOK'
<1> SUFFICES ASSUME SdkTypeOK, [SdkNext]_sdkVars PROVE SdkTypeOK'
  OBVIOUS
<1> DEFINE Ids == Requests \cup Notices
<1>0. /\ send_queue \in Seq(Ids)
      /\ packet_queue \in Seq(Packets)
      /\ handlers \in [Connections -> {"none", "running", "stopped"}]
      /\ pending_responses \in [Connections -> SUBSET Requests]
      /\ outcome \in [Requests -> {"idle", "waiting", "ok", "timeout", "disconnected"}]
      /\ links \in [Connections -> {"none", "open", "closed"}]
      /\ to_server \in [Connections -> Seq(Ids)]
      /\ to_client \in [Connections -> Seq(Packets)]
      /\ executed \in [Requests -> Nat]
      /\ pushed \in 0..MaxNews
      /\ auth \in [Connections -> {"idle", "waiting", "ok", "timeout"}]
      /\ connecting \in [Connections -> {"none", "login", "auth", "ok", "failed"}]
      /\ listening \in [Connections -> Packets \cup {NoPacket, NotStarted}]
      /\ events \in Seq(Packets)
  BY DEF SdkTypeOK, TcpTypeOK
<1>1. SUFFICES ASSUME SdkNext PROVE SdkTypeOK'
  BY <1>0 DEF sdkVars, tcpVars, udpVars, SdkTypeOK, TcpTypeOK
<1>2. ASSUME NEW k \in Connections, Connect(k) PROVE SdkTypeOK'
  <2>1. k \in Requests /\ Append(send_queue, k) \in Seq(Ids)
    BY <1>0, SdkAssumption, AppendProperties
  <2> QED BY <1>0, <1>2, <2>1
        DEF Connect, TcpConnect, SendRequest, udpVars, SdkTypeOK, TcpTypeOK
<1>3. ASSUME NEW k \in Connections, ConnectFails(k) \/ ConnectHalfFails(k)
      PROVE  SdkTypeOK'
  BY <1>0, <1>3 DEF ConnectFails, ConnectHalfFails, TcpConnect, tcpVars, udpVars,
                    SdkTypeOK, TcpTypeOK
<1>4. ASSUME NEW k \in Connections, ConnectStep(k) PROVE SdkTypeOK'
  BY <1>0, <1>4 DEF ConnectStep, LoginReturns, AuthReturns, Udp!Ask, tcpVars,
                    udpVars, SdkTypeOK, TcpTypeOK
<1>5. ASSUME NEW k \in Connections, TakePacket(k) PROVE SdkTypeOK'
  <2>1. Head(packet_queue) \in Packets /\ Tail(packet_queue) \in Seq(Packets)
    BY <1>0, <1>5, HeadTailProperties DEF TakePacket, PacketsLeft
  <2> QED BY <1>0, <1>5, <2>1 DEF TakePacket, PacketsLeft, udpVars, SdkTypeOK, TcpTypeOK
<1>6. ASSUME NEW k \in Connections, HandlePacket(k) PROVE SdkTypeOK'
  <2>1. listening[k] \in Packets
    BY <1>0, <1>6 DEF HandlePacket
  <2>2. Append(events, listening[k]) \in Seq(Packets)
    BY <1>0, <2>1, AppendProperties
  <2> QED BY <1>0, <1>6, <2>2 DEF HandlePacket, tcpVars, udpVars, SdkTypeOK, TcpTypeOK
<1>7. ASSUME NEW k \in Connections, TcpTask(k) PROVE SdkTypeOK'
  <2>0. CASE ReadEnds(k)
    BY <1>0, <1>7, <2>0 DEF TcpTask, ReadEnds, HandlerEnds, Abandoned, udpVars,
                            SdkTypeOK, TcpTypeOK
  <2>2. CASE HandleIncoming(k)
    <3>1. Head(to_client[k]) \in Packets /\ Tail(to_client[k]) \in Seq(Packets)
      BY <1>0, <2>2, HeadTailProperties DEF HandleIncoming
    <3>2. Append(packet_queue, Head(to_client[k])) \in Seq(Packets)
      BY <1>0, <3>1, AppendProperties
    <3> QED BY <1>0, <1>7, <2>2, <3>1, <3>2
          DEF TcpTask, HandleIncoming, Forward, udpVars, SdkTypeOK, TcpTypeOK
  <2>1. CASE Sending(k)
    <3>1. Head(send_queue) \in Ids /\ Tail(send_queue) \in Seq(Ids)
      BY <1>0, <2>1, HeadTailProperties DEF Sending
    <3>2. Append(to_server[k], Head(send_queue)) \in Seq(Ids)
      BY <1>0, <3>1, AppendProperties
    <3>3. CASE WriteOutgoing(k)
      BY <1>0, <1>7, <3>1, <3>2, <3>3
         DEF TcpTask, WriteOutgoing, Callback, udpVars, SdkTypeOK, TcpTypeOK
    <3>4. CASE WriteFails(k)
      BY <1>0, <1>7, <3>1, <3>4
         DEF TcpTask, WriteFails, HandlerEnds, Abandoned, udpVars, SdkTypeOK, TcpTypeOK
    <3> QED BY <1>7, <2>0, <2>2, <3>3, <3>4 DEF TcpTask, TcpHandler
  <2> QED BY <1>7, <2>0, <2>1, <2>2 DEF TcpTask, TcpHandler, WriteOutgoing, WriteFails
<1>8. ASSUME NEW k \in Connections, UdpOutcome(k) PROVE SdkTypeOK'
  <2>1. \/ auth' = [auth EXCEPT ![k] = "ok"]
        \/ auth' = [c \in Connections |-> IF c \in {k} THEN "timeout" ELSE auth[c]]
    BY <1>8 DEF UdpOutcome, Udp!Succeed, Udp!Fail
  <2>2. auth' \in [Connections -> {"idle", "waiting", "ok", "timeout"}]
    <3>1. CASE auth' = [auth EXCEPT ![k] = "ok"]
      BY <1>0, <3>1
    <3>2. CASE auth' = [c \in Connections |-> IF c \in {k} THEN "timeout" ELSE auth[c]]
      <4>1. \A c \in Connections : auth[c] \in {"idle", "waiting", "ok", "timeout"}
        BY <1>0
      <4> QED BY <3>2, <4>1
    <3> QED BY <2>1, <3>1, <3>2
  <2>3. UNCHANGED <<tcpVars, connecting, listening, events>>
    BY <1>8 DEF UdpOutcome
  <2> QED BY <1>0, <2>2, <2>3 DEF tcpVars, SdkTypeOK, TcpTypeOK
<1>9. ASSUME NEW k \in Connections, Environment(k) PROVE SdkTypeOK'
  <2>1. CASE ServerHandles(k) /\ UNCHANGED udpVars
    <3>1. Head(to_server[k]) \in Ids /\ Tail(to_server[k]) \in Seq(Ids)
      BY <1>0, <2>1, HeadTailProperties DEF ServerHandles
    <3>2. ASSUME NEW r \in Requests
          PROVE  Append(to_client[k], Answer(r)) \in Seq(Packets)
      BY <1>0, PacketsAre, AppendProperties
    <3>3. to_client' \in [Connections -> Seq(Packets)]
      BY <1>0, <2>1, <3>2 DEF ServerHandles
    <3>4. to_server' \in [Connections -> Seq(Ids)] /\ executed' \in [Requests -> Nat]
      BY <1>0, <2>1, <3>1 DEF ServerHandles
    <3>5. UNCHANGED <<send_queue, packet_queue, handlers, pending_responses, outcome, links,
                      pushed, udpVars, connecting, listening, events>>
      BY <1>9, <2>1 DEF Environment, ServerHandles
    <3> QED BY <1>0, <3>3, <3>4, <3>5 DEF udpVars, SdkTypeOK, TcpTypeOK
  <2>2. CASE ServerPushes(k) /\ UNCHANGED udpVars
    <3>1. News(pushed + 1) \in Packets
      BY <2>2, PacketsAre DEF ServerPushes
    <3>2. Append(to_client[k], News(pushed + 1)) \in Seq(Packets)
      BY <1>0, <3>1, AppendProperties
    <3>3. pushed + 1 \in 0..MaxNews
      BY <1>0, <2>2, TcpAssumption DEF ServerPushes
    <3> QED BY <1>0, <1>9, <2>2, <3>2, <3>3
          DEF Environment, ServerPushes, udpVars, SdkTypeOK, TcpTypeOK
  <2>3. CASE LinkCloses(k) /\ UNCHANGED udpVars
    BY <1>0, <1>9, <2>3 DEF Environment, LinkCloses, udpVars, SdkTypeOK, TcpTypeOK
  <2>4. CASE Udp!Execute(k) /\ UNCHANGED tcpVars
    BY <1>0, <1>9, <2>4 DEF Environment, Udp!Execute, tcpVars, SdkTypeOK, TcpTypeOK
  <2> QED BY <1>9, <2>1, <2>2, <2>3, <2>4 DEF Environment, TcpServer
<1>10. ASSUME NEW r \in Requests, Call(r) PROVE SdkTypeOK'
  <2>1. Append(send_queue, r) \in Seq(Ids)
    BY <1>0, AppendProperties
  <2> QED BY <1>0, <1>10, <2>1 DEF Call, SendRequest, udpVars, SdkTypeOK, TcpTypeOK
<1>11. ASSUME NEW r \in Requests, TcpTimer(r) PROVE SdkTypeOK'
  BY <1>0, <1>11 DEF TcpTimer, RequestTimesOut, udpVars, SdkTypeOK, TcpTypeOK
<1>12. ASSUME NEW n \in Notices, SendMuteState(n) PROVE SdkTypeOK'
  <2>1. Append(send_queue, n) \in Seq(Ids)
    BY <1>0, AppendProperties
  <2> QED BY <1>0, <1>12, <2>1 DEF SendMuteState, SendEvent, udpVars, SdkTypeOK, TcpTypeOK
<1> QED BY <1>1, <1>2, <1>3, <1>4, <1>5, <1>6, <1>7, <1>8, <1>9, <1>10, <1>11, <1>12
      DEF SdkNext, Listener

-----------------------------------------------------------------------------
(* Where requests are.                                                     *)

LEMMA SdkInitially == SdkInit => SdkInv
<1> SUFFICES ASSUME SdkInit PROVE SdkInv
  OBVIOUS
<1>1. SdkTypeOK
  BY SdkTypeInitially
<1>2. HandlersHold
  BY DEF SdkInit, TcpInit, HandlersHold
<1>3. ASSUME NEW r \in Requests PROVE NotMade(r)
  BY OccurrencesNone DEF SdkInit, TcpInit, NotMade, NothingOn, Queued, Sent, Back
<1> QED BY <1>1, <1>2, <1>3 DEF SdkInv, Placed

\* A step that moves neither a request nor its answer, and at most gives its
\* caller up.
Undisturbed(r) ==
    /\ executed'[r] = executed[r]
    /\ \/ outcome'[r] = outcome[r]
       \/ outcome[r] = "waiting" /\ outcome'[r] \in {"timeout", "disconnected"}
    /\ Queued(r)' = Queued(r)
    /\ \A k \in Connections :
         /\ Sent(k, r)' = Sent(k, r) /\ Back(k, r)' = Back(k, r)
         /\ r \in pending_responses'[k] => r \in pending_responses[k]
         /\ outcome'[r] = "waiting" /\ r \in pending_responses[k] =>
              /\ r \in pending_responses'[k]
              /\ links[k] = "closed" => links'[k] = "closed"

LEMMA UndisturbedStays ==
    ASSUME SdkInv, NEW r \in Requests, Undisturbed(r)
    PROVE  (NotMade(r) \/ InQueue(r) \/ Taken(r))'
<1>0. \A k \in Connections : NothingOn(k, r) => NothingOn(k, r)'
  BY DEF Undisturbed, NothingOn
<1>1. CASE NotMade(r)
  BY <1>0, <1>1 DEF Undisturbed, NotMade
<1>2. CASE InQueue(r)
  BY <1>0, <1>2 DEF Undisturbed, InQueue
<1>3. CASE Taken(r)
  <2>1. PICK k \in Connections : OnTheWay(k, r)
    BY <1>3 DEF Taken
  <2>2. OnTheWay(k, r)'
    BY <1>0, <2>1 DEF Undisturbed, OnTheWay
  <2> QED BY <1>3, <2>2 DEF Undisturbed, Taken
<1> QED BY <1>1, <1>2, <1>3 DEF SdkInv, Placed

\* The send queue, with a packet more or a packet less.
LEMMA QueuePushed ==
    ASSUME SdkTypeOK, NEW x \in Requests \cup Notices,
           send_queue' = Append(send_queue, x), NEW r \in Requests
    PROVE  Queued(r)' = Queued(r) + (IF x = r THEN 1 ELSE 0)
<1>1. send_queue \in Seq(Requests \cup Notices)
  BY DEF SdkTypeOK, TcpTypeOK
<1> QED BY <1>1, OccurrencesAppend DEF Queued

LEMMA QueuePopped ==
    ASSUME SdkTypeOK, send_queue # <<>>, send_queue' = Tail(send_queue)
    PROVE  /\ Head(send_queue) \in Requests \cup Notices
           /\ \A r \in Requests :
                /\ Queued(r)' \in Nat
                /\ Queued(r) = Queued(r)' + (IF Head(send_queue) = r THEN 1 ELSE 0)
<1>1. send_queue \in Seq(Requests \cup Notices)
  BY DEF SdkTypeOK, TcpTypeOK
<1>2. Tail(send_queue) \in Seq(Requests \cup Notices)
  BY <1>1, OccurrencesTail
<1>3. ASSUME NEW r \in Requests PROVE Queued(r)' \in Nat
  BY <1>2, OccurrencesNat DEF Queued
<1> QED BY <1>1, <1>3, OccurrencesTail DEF Queued

\* SendRequest: the request was nowhere, and is in the queue.
LEMMA RequestPlaced ==
    ASSUME SdkInv, NEW q \in Requests, SendRequest(q),
           UNCHANGED <<pending_responses, to_server, to_client, executed>>,
           \A k \in Connections :
               handlers[k] = "running" /\ links[k] = "closed" => links'[k] = "closed"
    PROVE  Placed'
<1> SUFFICES ASSUME NEW r \in Requests PROVE (NotMade(r) \/ InQueue(r) \/ Taken(r))'
  BY DEF Placed
<1>1. Queued(r)' = Queued(r) + (IF q = r THEN 1 ELSE 0) /\ Queued(r) \in Nat
  BY QueuePushed, Counts DEF SendRequest, SdkInv
<1>2. outcome'[r] = IF r = q THEN "waiting" ELSE outcome[r]
  BY DEF SendRequest, SdkInv, SdkTypeOK, TcpTypeOK
<1>3. CASE r = q
  <2>1. NotMade(r)
    BY <1>3 DEF SendRequest, SdkInv, Placed, InQueue, Taken
  <2>2. InQueue(r)'
    BY <1>1, <1>2, <1>3, <2>1 DEF NotMade, InQueue, NothingOn, Sent, Back
  <2> QED BY <2>2
<1>4. CASE r # q
  <2>1. Undisturbed(r)
    BY <1>1, <1>2, <1>4 DEF SdkInv, HandlersHold, Undisturbed, Sent, Back
  <2> QED BY <2>1, UndisturbedStays
<1> QED BY <1>3, <1>4

\* A packet leaves the queue for a connection whose handler runs.
LEMMA WritePlaces ==
    ASSUME SdkInv, NEW k \in Connections, WriteOutgoing(k)
    PROVE  Placed'
<1> SUFFICES ASSUME NEW r \in Requests PROVE (NotMade(r) \/ InQueue(r) \/ Taken(r))'
  BY DEF Placed
<1> DEFINE x == Head(send_queue)
<1>1. /\ x \in Requests \cup Notices
      /\ Queued(r)' \in Nat /\ Queued(r) = Queued(r)' + (IF x = r THEN 1 ELSE 0)
  BY QueuePopped DEF WriteOutgoing, Sending, SdkInv
<1>2. /\ Queued(r) \in Nat /\ executed[r] \in Nat
      /\ \A j \in Connections : Sent(j, r) \in Nat /\ Back(j, r) \in Nat
  BY Counts DEF SdkInv
<1>3. /\ handlers[k] = "running" /\ links[k] \in {"open", "closed"}
      /\ outcome' = outcome /\ executed' = executed /\ links' = links
      /\ to_client' = to_client
  BY DEF WriteOutgoing, Sending, SdkInv, HandlersHold, SdkTypeOK, TcpTypeOK
<1>4. \A j \in Connections : Back(j, r)' = Back(j, r)
  BY <1>3 DEF Back
<1>5. /\ \A j \in Connections \ {k} : Sent(j, r)' = Sent(j, r)
      /\ Sent(k, r)' = Sent(k, r) + (IF x = r /\ links[k] = "open" THEN 1 ELSE 0)
  <2>1. to_server \in [Connections -> Seq(Requests \cup Notices)]
    BY DEF SdkInv, SdkTypeOK, TcpTypeOK
  <2>2. to_server' = [to_server EXCEPT ![k] =
                        IF links[k] = "open" THEN Append(to_server[k], x) ELSE to_server[k]]
    BY DEF WriteOutgoing
  <2>3. \A j \in Connections \ {k} : to_server'[j] = to_server[j]
    BY <2>1, <2>2
  <2>4. CASE links[k] = "open"
    <3>1. /\ to_server'[k] = Append(to_server[k], x)
          /\ to_server[k] \in Seq(Requests \cup Notices)
      BY <2>1, <2>2, <2>4
    <3>2. Occurrences(Append(to_server[k], x), r)
            = Occurrences(to_server[k], r) + (IF x = r THEN 1 ELSE 0)
      BY <1>1, <3>1, OccurrencesAppend
    <3> QED BY <2>3, <2>4, <3>1, <3>2 DEF Sent
  <2>5. CASE links[k] # "open"
    BY <1>2, <2>1, <2>2, <2>3, <2>5 DEF Sent
  <2> QED BY <2>4, <2>5
<1>6. pending_responses' = [pending_responses EXCEPT
          ![k] = pending_responses[k] \cup ({x} \cap Requests)]
  BY DEF WriteOutgoing, Callback
<1>7. /\ \A j \in Connections \ {k} : pending_responses'[j] = pending_responses[j]
      /\ r \in pending_responses'[k] <=> r \in pending_responses[k] \/ x = r
  BY <1>6 DEF SdkInv, SdkTypeOK, TcpTypeOK
<1> HIDE DEF x
<1>8. CASE x = r
  <2>1. InQueue(r)
    BY <1>1, <1>2, <1>8 DEF SdkInv, Placed, NotMade, Taken
  <2>2. \A j \in Connections \ {k} : NothingOn(j, r)'
    BY <1>4, <1>5, <1>7, <2>1 DEF InQueue, NothingOn
  <2>3. OnTheWay(k, r)'
    BY <1>2, <1>3, <1>4, <1>5, <1>7, <1>8, <2>1, <2>2 DEF InQueue, NothingOn, OnTheWay
  <2> QED BY <1>1, <1>2, <1>3, <1>8, <2>1, <2>3 DEF InQueue, Taken
<1>9. CASE x # r
  <2>1. Undisturbed(r)
    BY <1>1, <1>2, <1>3, <1>4, <1>5, <1>7, <1>9 DEF Undisturbed
  <2> QED BY <2>1, UndisturbedStays
<1> QED BY <1>8, <1>9

\* The handler of a connection ends: the callers whose callbacks it holds, and
\* the one whose packet it was about to write, are told.
LEMMA HandlerEndPlaces ==
    ASSUME SdkInv, NEW k \in Connections, WriteFails(k) \/ ReadEnds(k)
    PROVE  Placed'
<1> SUFFICES ASSUME NEW r \in Requests PROVE (NotMade(r) \/ InQueue(r) \/ Taken(r))'
  BY DEF Placed
<1>0. /\ handlers[k] = "running"
      /\ UNCHANGED <<executed, links, to_server, to_client>>
      /\ pending_responses' = [pending_responses EXCEPT ![k] = {}]
      /\ outcome'[r] # outcome[r] =>
           outcome[r] = "waiting" /\ outcome'[r] = "disconnected"
      /\ r \in pending_responses[k] => outcome'[r] # "waiting"
  BY DEF WriteFails, ReadEnds, Sending, HandlerEnds, Abandoned
<1>1. /\ \A j \in Connections \ {k} : pending_responses'[j] = pending_responses[j]
      /\ pending_responses'[k] = {}
  BY <1>0 DEF SdkInv, SdkTypeOK, TcpTypeOK
<1>2. \A j \in Connections : Sent(j, r)' = Sent(j, r) /\ Back(j, r)' = Back(j, r)
  BY <1>0 DEF Sent, Back
<1>3. CASE Queued(r)' = Queued(r)
  <2>1. Undisturbed(r)
    BY <1>0, <1>1, <1>2, <1>3 DEF Undisturbed
  <2> QED BY <2>1, UndisturbedStays
<1>4. CASE Queued(r)' # Queued(r)
  <2>1. WriteFails(k)
    BY <1>4 DEF ReadEnds, Queued
  <2>2. Head(send_queue) = r /\ Queued(r)' \in Nat /\ Queued(r) = Queued(r)' + 1
    BY <1>4, <2>1, QueuePopped, Counts DEF WriteFails, Sending, SdkInv
  <2>3. InQueue(r) /\ Queued(r)' = 0
    <3>1. Queued(r) # 0 /\ (NotMade(r) \/ InQueue(r) \/ Taken(r))
      BY <2>2 DEF SdkInv, Placed
    <3>2. InQueue(r)
      BY <3>1 DEF NotMade, Taken
    <3> QED BY <2>2, <3>2 DEF InQueue
  <2>4. outcome'[r] \notin {"idle", "ok", "waiting"}
    BY <2>1, <2>2, <2>3, <1>0 DEF WriteFails, HandlerEnds, Abandoned, Callback, InQueue
  <2>5. OnTheWay(k, r)'
    BY <1>0, <1>1, <1>2, <2>3, <2>4 DEF InQueue, NothingOn, OnTheWay
  <2> QED BY <2>3, <2>4, <2>5 DEF Taken
<1> QED BY <1>3, <1>4

\* A packet arrives.
LEMMA ReadPlaces ==
    ASSUME SdkInv, NEW k \in Connections, HandleIncoming(k)
    PROVE  Placed'
<1> SUFFICES ASSUME NEW r \in Requests PROVE (NotMade(r) \/ InQueue(r) \/ Taken(r))'
  BY DEF Placed
<1> DEFINE p == Head(to_client[k])
           claimed == Answers(p) \cap pending_responses[k]
<1>0. /\ handlers[k] = "running" /\ to_client[k] # <<>>
      /\ UNCHANGED <<executed, links, to_server, send_queue>>
      /\ pending_responses' = [pending_responses EXCEPT
             ![k] = pending_responses[k] \ claimed]
      /\ outcome'[r] = IF r \in claimed /\ outcome[r] = "waiting" THEN "ok" ELSE outcome[r]
      /\ to_client' = [to_client EXCEPT ![k] = Tail(to_client[k])]
  BY DEF HandleIncoming
<1>1. /\ \A j \in Connections \ {k} : pending_responses'[j] = pending_responses[j]
      /\ pending_responses'[k] = pending_responses[k] \ claimed
  BY <1>0 DEF SdkInv, SdkTypeOK, TcpTypeOK
<1>2. /\ \A j \in Connections : Sent(j, r)' = Sent(j, r)
      /\ Queued(r)' = Queued(r)
  BY <1>0 DEF Sent, Queued
<1>3. /\ p \in Packets
      /\ \A j \in Connections \ {k} : Back(j, r)' = Back(j, r)
      /\ Back(k, r) = Back(k, r)' + (IF p = Answer(r) THEN 1 ELSE 0)
  <2>1. to_client \in [Connections -> Seq(Packets)]
    BY DEF SdkInv, SdkTypeOK, TcpTypeOK
  <2>2. /\ \A j \in Connections \ {k} : to_client'[j] = to_client[j]
        /\ to_client'[k] = Tail(to_client[k])
    BY <1>0, <2>1
  <2>3. to_client[k] \in Seq(Packets)
    BY <2>1
  <2> QED BY <1>0, <2>2, <2>3, OccurrencesTail DEF Back
<1>4. /\ executed[r] \in Nat
      /\ \A j \in Connections : Sent(j, r) \in Nat /\ Back(j, r) \in Nat
  BY Counts DEF SdkInv
<1>4a. Back(k, r)' \in Nat
  <2>1. Tail(to_client[k]) \in Seq(Packets) /\ to_client'[k] = Tail(to_client[k])
    BY <1>0, HeadTailProperties DEF SdkInv, SdkTypeOK, TcpTypeOK
  <2> QED BY <2>1, OccurrencesNat DEF Back
<1>5. r \in Answers(p) <=> p = Answer(r)
  BY <1>3 DEF Answers, Answer, Packets
<1> HIDE DEF p
<1>6. CASE p = Answer(r)
  <2>1. Taken(r) /\ Back(k, r) >= 1
    BY <1>3, <1>4, <1>4a, <1>6 DEF SdkInv, Placed, NotMade, InQueue, NothingOn
  <2>2. OnTheWay(k, r)
    BY <2>1, <1>4 DEF Taken, OnTheWay, NothingOn
  <2>3. executed[r] = 1 /\ Sent(k, r) = 0 /\ Back(k, r) = 1 /\ Back(k, r)' = 0
    BY <1>3, <1>4, <1>4a, <1>6, <2>1, <2>2 DEF OnTheWay
  <2>4. outcome'[r] \notin {"idle", "waiting"}
    BY <1>0, <1>5, <1>6, <2>1, <2>2 DEF OnTheWay, Taken
  <2>5. \A j \in Connections \ {k} : NothingOn(j, r)'
    BY <1>1, <1>2, <1>3, <2>2 DEF OnTheWay, NothingOn
  <2>6. OnTheWay(k, r)'
    BY <1>0, <1>2, <2>3, <2>4, <2>5 DEF OnTheWay
  <2> QED BY <1>2, <2>1, <2>4, <2>6 DEF Taken
<1>7. CASE p # Answer(r)
  <2>1. Undisturbed(r)
    BY <1>0, <1>1, <1>2, <1>3, <1>4, <1>4a, <1>5, <1>7 DEF Undisturbed
  <2> QED BY <2>1, UndisturbedStays
<1> QED BY <1>6, <1>7

\* The server carries a request out and answers it.
LEMMA ServerPlaces ==
    ASSUME SdkInv, NEW k \in Connections, ServerHandles(k)
    PROVE  Placed'
<1> SUFFICES ASSUME NEW r \in Requests PROVE (NotMade(r) \/ InQueue(r) \/ Taken(r))'
  BY DEF Placed
<1> DEFINE x == Head(to_server[k])
<1>0. /\ to_server[k] # <<>>
      /\ UNCHANGED <<send_queue, handlers, pending_responses, outcome, links>>
      /\ executed'[r] = executed[r] + (IF r = x THEN 1 ELSE 0)
      /\ to_client' = [to_client EXCEPT ![k] =
             IF links[k] = "open" /\ x \in Requests
             THEN Append(to_client[k], Answer(x)) ELSE to_client[k]]
      /\ to_server' = [to_server EXCEPT ![k] = Tail(to_server[k])]
  BY DEF ServerHandles
<1>1. /\ to_server \in [Connections -> Seq(Requests \cup Notices)]
      /\ to_client \in [Connections -> Seq(Packets)]
  BY DEF SdkInv, SdkTypeOK, TcpTypeOK
<1>2. /\ \A j \in Connections \ {k} : Sent(j, r)' = Sent(j, r)
      /\ Sent(k, r) = Sent(k, r)' + (IF x = r THEN 1 ELSE 0)
  <2>1. /\ \A j \in Connections \ {k} : to_server'[j] = to_server[j]
        /\ to_server'[k] = Tail(to_server[k])
        /\ to_server[k] \in Seq(Requests \cup Notices)
    BY <1>0, <1>1
  <2> QED BY <1>0, <2>1, OccurrencesTail DEF Sent
<1>3. /\ \A j \in Connections \ {k} : Back(j, r)' = Back(j, r)
      /\ Back(k, r)' = Back(k, r) + (IF x = r /\ links[k] = "open" THEN 1 ELSE 0)
  <2>1. \A j \in Connections \ {k} : to_client'[j] = to_client[j]
    BY <1>0, <1>1
  <2>2. CASE links[k] = "open" /\ x \in Requests
    <3>1. to_client'[k] = Append(to_client[k], Answer(x))
      BY <1>0, <1>1, <2>2
    <3>2. to_client[k] \in Seq(Packets) /\ Answer(x) \in Packets
      BY <1>1, <2>2, PacketsAre
    <3>3. Answer(x) = Answer(r) <=> x = r
      BY DEF Answer
    <3>4. Occurrences(Append(to_client[k], Answer(x)), Answer(r))
            = Occurrences(to_client[k], Answer(r)) + (IF x = r THEN 1 ELSE 0)
      BY <3>2, <3>3, OccurrencesAppend
    <3> QED BY <2>1, <2>2, <3>1, <3>4 DEF Back
  <2>3. CASE ~(links[k] = "open" /\ x \in Requests)
    <3>1. to_client'[k] = to_client[k]
      BY <1>0, <1>1, <2>3
    <3> QED BY <2>1, <2>3, <3>1, Counts DEF Back, SdkInv
  <2> QED BY <2>2, <2>3
<1>4. /\ executed[r] \in Nat /\ Queued(r)' = Queued(r)
      /\ \A j \in Connections : Sent(j, r) \in Nat /\ Back(j, r) \in Nat
  BY <1>0, Counts DEF SdkInv, Queued
<1>5. Sent(k, r)' \in Nat
  <2>1. /\ Tail(to_server[k]) \in Seq(Requests \cup Notices)
        /\ to_server'[k] = Tail(to_server[k])
    BY <1>0, <1>1, HeadTailProperties
  <2> QED BY <2>1, OccurrencesNat DEF Sent
<1> HIDE DEF x
<1>6. CASE x = r
  <2>1. Taken(r) /\ Sent(k, r) >= 1
    BY <1>2, <1>4, <1>5, <1>6 DEF SdkInv, Placed, NotMade, InQueue, NothingOn
  <2>2. OnTheWay(k, r)
    BY <2>1, <1>4 DEF Taken, OnTheWay, NothingOn
  <2>3. executed[r] = 0 /\ Sent(k, r) = 1 /\ Back(k, r) = 0 /\ Sent(k, r)' = 0
    BY <1>2, <1>4, <1>5, <1>6, <2>1, <2>2 DEF OnTheWay
  <2>4. \A j \in Connections \ {k} : NothingOn(j, r)'
    BY <1>0, <1>2, <1>3, <2>2 DEF OnTheWay, NothingOn
  <2>5. outcome[r] = "waiting" => links[k] \in {"open", "closed"}
    BY <2>2 DEF OnTheWay, SdkInv, HandlersHold, SdkTypeOK, TcpTypeOK
  <2>6. OnTheWay(k, r)'
    BY <1>0, <1>3, <1>6, <2>2, <2>3, <2>4, <2>5 DEF OnTheWay
  <2> QED BY <1>0, <1>4, <2>1, <2>6 DEF Taken
<1>7. CASE x # r
  <2>1. Undisturbed(r)
    BY <1>0, <1>2, <1>3, <1>4, <1>5, <1>7 DEF Undisturbed
  <2> QED BY <2>1, UndisturbedStays
<1> QED BY <1>6, <1>7

-----------------------------------------------------------------------------
(* The invariant, and what follows from it.                                *)

\* A step that concerns no request's place: the server's news, a link that
\* closes, a caller that gives up, the packet queue's readers, and everything
\* Client::connect does that is not a request.
Aside ==
    /\ UNCHANGED <<send_queue, pending_responses, to_server, executed>>
    /\ \A r \in Requests, k \in Connections : Back(k, r)' = Back(k, r)
    /\ \A k \in Connections :
         handlers[k] = "running" /\ links[k] = "closed" => links'[k] = "closed"
    /\ \A r \in Requests :
         \/ outcome'[r] = outcome[r]
         \/ outcome[r] = "waiting" /\ outcome'[r] = "timeout"

LEMMA AsidePlaces == ASSUME SdkInv, Aside PROVE Placed'
<1> SUFFICES ASSUME NEW r \in Requests PROVE (NotMade(r) \/ InQueue(r) \/ Taken(r))'
  BY DEF Placed
<1>1. Undisturbed(r)
  BY DEF Aside, Undisturbed, Queued, Sent, SdkInv, HandlersHold
<1> QED BY <1>1, UndisturbedStays

LEMMA PlacedKeeps == SdkInv /\ SdkNext => Placed'
<1> SUFFICES ASSUME SdkInv, SdkNext PROVE Placed'
  OBVIOUS
<1>1. ASSUME NEW k \in Connections, Connect(k) PROVE Placed'
  <2>1. k \in Requests /\ handlers[k] = "none" /\ SendRequest(k)
    BY <1>1, SdkAssumption DEF Connect, TcpConnect
  <2>2. \A j \in Connections : handlers[j] = "running" => links'[j] = links[j]
    BY <1>1, <2>1 DEF Connect, TcpConnect, SdkInv, SdkTypeOK, TcpTypeOK
  <2> QED BY <1>1, <2>1, <2>2, RequestPlaced DEF Connect, TcpConnect
<1>2. ASSUME NEW r \in Requests, Call(r) PROVE Placed'
  BY <1>2, RequestPlaced DEF Call
<1>3. ASSUME NEW k \in Connections, TcpTask(k) PROVE Placed'
  BY <1>3, WritePlaces, HandlerEndPlaces, ReadPlaces DEF TcpTask, TcpHandler
<1>4. ASSUME NEW n \in Notices, SendMuteState(n) PROVE Placed'
  <2> SUFFICES ASSUME NEW r \in Requests PROVE (NotMade(r) \/ InQueue(r) \/ Taken(r))'
    BY DEF Placed
  <2>1. n # r /\ n \in Requests \cup Notices /\ Queued(r) \in Nat
    BY TcpAssumption, Counts DEF SdkInv
  <2>2. Queued(r)' = Queued(r)
    BY <1>4, <2>1, QueuePushed DEF SendMuteState, SendEvent, SdkInv
  <2>3. Undisturbed(r)
    BY <1>4, <2>2 DEF SendMuteState, SendEvent, Undisturbed, Sent, Back
  <2> QED BY <2>3, UndisturbedStays
<1>5. ASSUME NEW k \in Connections, Environment(k) PROVE Placed'
  <2>1. CASE ServerHandles(k)
    BY <2>1, ServerPlaces
  <2>2. CASE ServerPushes(k)
    <3>1. ASSUME NEW r \in Requests, NEW j \in Connections
          PROVE  Back(j, r)' = Back(j, r)
      <4>1. News(pushed + 1) \in Packets /\ News(pushed + 1) # Answer(r)
        BY <2>2, PacketsAre DEF ServerPushes, News, Answer
      <4>2. to_client \in [Connections -> Seq(Packets)]
        BY DEF SdkInv, SdkTypeOK, TcpTypeOK
      <4>3. to_client' = [to_client EXCEPT
                             ![k] = Append(to_client[k], News(pushed + 1))]
        BY <2>2 DEF ServerPushes
      <4>4. CASE j = k
        <5>1. to_client[k] \in Seq(Packets)
                /\ to_client'[k] = Append(to_client[k], News(pushed + 1))
          BY <4>2, <4>3
        <5> QED BY <4>1, <4>4, <5>1, OccurrencesAppend, Counts DEF Back, SdkInv
      <4>5. CASE j # k
        BY <4>2, <4>3, <4>5 DEF Back
      <4> QED BY <4>4, <4>5
    <3>2. Aside
      BY <2>2, <3>1 DEF ServerPushes, Aside
    <3> QED BY <3>2, AsidePlaces
  <2>3. CASE LinkCloses(k)
    <3>1. Aside
      BY <2>3 DEF LinkCloses, Aside, Back, SdkInv, SdkTypeOK, TcpTypeOK
    <3> QED BY <3>1, AsidePlaces
  <2>4. CASE UNCHANGED tcpVars
    <3>1. Aside
      BY <2>4 DEF tcpVars, Aside, Back
    <3> QED BY <3>1, AsidePlaces
  <2> QED BY <1>5, <2>1, <2>2, <2>3, <2>4 DEF Environment, TcpServer
<1>6. ASSUME NEW r \in Requests, TcpTimer(r) PROVE Placed'
  <2>1. Aside
    BY <1>6 DEF TcpTimer, RequestTimesOut, Aside, Back, SdkInv, SdkTypeOK, TcpTypeOK
  <2> QED BY <2>1, AsidePlaces
<1>7. ASSUME NEW k \in Connections,
             \/ ConnectFails(k) \/ ConnectStep(k) \/ Listener(k) \/ UdpOutcome(k)
      PROVE  Placed'
  <2>1. UNCHANGED <<send_queue, handlers, pending_responses, outcome, links, to_server,
                    to_client, executed, pushed>>
    BY <1>7 DEF ConnectFails, ConnectStep, LoginReturns, AuthReturns, Listener,
                TakePacket, HandlePacket, UdpOutcome, tcpVars
  <2>2. Aside
    BY <2>1 DEF Aside, Back
  <2> QED BY <2>2, AsidePlaces
<1>8. ASSUME NEW k \in Connections, ConnectHalfFails(k) PROVE Placed'
  <2>1. Aside
    BY <1>8 DEF ConnectHalfFails, TcpConnect, Aside, Back, SdkInv, SdkTypeOK, TcpTypeOK
  <2> QED BY <2>1, AsidePlaces
<1> QED BY <1>1, <1>2, <1>3, <1>4, <1>5, <1>6, <1>7, <1>8 DEF SdkNext

LEMMA HandlersKeep == SdkInv /\ SdkNext => HandlersHold'
<1> SUFFICES ASSUME SdkInv, SdkNext PROVE HandlersHold'
  OBVIOUS
<1>0. /\ handlers \in [Connections -> {"none", "running", "stopped"}]
      /\ pending_responses \in [Connections -> SUBSET Requests]
      /\ links \in [Connections -> {"none", "open", "closed"}]
      /\ \A k \in Connections :
           /\ pending_responses[k] # {} => handlers[k] = "running"
           /\ handlers[k] = "running" => links[k] # "none"
  BY DEF SdkInv, SdkTypeOK, TcpTypeOK, HandlersHold
<1>1. ASSUME NEW k \in Connections, TcpConnect(k) PROVE HandlersHold'
  BY <1>0, <1>1 DEF TcpConnect, HandlersHold
<1>2. ASSUME NEW k \in Connections, TcpHandler(k) PROVE HandlersHold'
  <2>1. CASE WriteOutgoing(k)
    <3>1. handlers[k] = "running" /\ UNCHANGED <<handlers, links>>
      BY <2>1 DEF WriteOutgoing, Sending
    <3>2. \A j \in Connections : j # k => pending_responses'[j] = pending_responses[j]
      BY <1>0, <2>1 DEF WriteOutgoing
    <3> QED BY <1>0, <3>1, <3>2 DEF HandlersHold
  <2>2. CASE WriteFails(k) \/ ReadEnds(k)
    BY <1>0, <2>2 DEF WriteFails, ReadEnds, HandlerEnds, HandlersHold
  <2>3. CASE HandleIncoming(k)
    <3>1. handlers[k] = "running" /\ UNCHANGED <<handlers, links>>
      BY <2>3 DEF HandleIncoming
    <3>2. \A j \in Connections : j # k => pending_responses'[j] = pending_responses[j]
      BY <1>0, <2>3 DEF HandleIncoming
    <3> QED BY <1>0, <3>1, <3>2 DEF HandlersHold
  <2> QED BY <1>2, <2>1, <2>2, <2>3 DEF TcpHandler
<1>3. ASSUME NEW k \in Connections, LinkCloses(k) PROVE HandlersHold'
  BY <1>0, <1>3 DEF LinkCloses, HandlersHold
<1>4. ASSUME UNCHANGED <<handlers, pending_responses, links>> PROVE HandlersHold'
  BY <1>0, <1>4 DEF HandlersHold
<1>5. ASSUME NEW k \in Connections,
             \/ Connect(k) \/ ConnectFails(k) \/ ConnectHalfFails(k) \/ ConnectStep(k)
             \/ Listener(k) \/ TcpTask(k) \/ UdpOutcome(k) \/ Environment(k)
      PROVE  HandlersHold'
  BY <1>1, <1>2, <1>3, <1>4, <1>5
     DEF Connect, ConnectFails, ConnectHalfFails, ConnectStep, LoginReturns, AuthReturns,
         Listener, TakePacket, HandlePacket, TcpTask, UdpOutcome, Environment, TcpServer,
         ServerHandles, ServerPushes, tcpVars
<1>6. ASSUME NEW r \in Requests, Call(r) \/ TcpTimer(r) PROVE HandlersHold'
  BY <1>4, <1>6 DEF Call, TcpTimer, RequestTimesOut
<1>7. ASSUME NEW n \in Notices, SendMuteState(n) PROVE HandlersHold'
  BY <1>4, <1>7 DEF SendMuteState, SendEvent
<1> QED BY <1>5, <1>6, <1>7 DEF SdkNext

LEMMA SdkKeeps == SdkInv /\ [SdkNext]_sdkVars => SdkInv'
<1> SUFFICES ASSUME SdkInv, [SdkNext]_sdkVars PROVE SdkInv'
  OBVIOUS
<1>1. SdkTypeOK'
  BY SdkTypeKeeps DEF SdkInv
<1>2. CASE SdkNext
  BY <1>1, <1>2, HandlersKeep, PlacedKeeps DEF SdkInv
<1>3. CASE UNCHANGED sdkVars
  <2>1. Aside
    BY <1>3 DEF sdkVars, tcpVars, Aside, Back
  <2>2. HandlersHold'
    BY <1>3 DEF sdkVars, tcpVars, SdkInv, HandlersHold
  <2> QED BY <1>1, <2>1, <2>2, AsidePlaces DEF SdkInv
<1> QED BY <1>2, <1>3

\* The client is always in one of the states its variables are declared for:
\* queues of packets, callbacks of requests (tcp_client.rs, client.rs).
THEOREM SdkTypeCorrect == SdkSpec => []SdkTypeOK
<1>1. SdkInit => SdkTypeOK
  BY SdkTypeInitially
<1>2. SdkTypeOK /\ [SdkNext]_sdkVars => SdkTypeOK'
  BY SdkTypeKeeps
<1> QED BY <1>1, <1>2, PTL DEF SdkSpec

\* The inductive invariant: besides the types, every request of the TCP client
\* is in one place at most.
THEOREM SdkInvariant == SdkSpec => []SdkInv
<1>1. SdkInit => SdkInv
  BY SdkInitially
<1>2. SdkInv /\ [SdkNext]_sdkVars => SdkInv'
  BY SdkKeeps
<1> QED BY <1>1, <1>2, PTL DEF SdkSpec

LEMMA PlacedIsAwaited == SdkInv => CallbacksAwaited
<1> SUFFICES ASSUME SdkInv, NEW r \in Requests, outcome[r] = "waiting"
             PROVE  LET holders == {k \in Connections : r \in pending_responses[k]} IN
               \/ Occurrences(send_queue, r) = 1 /\ holders = {}
               \/ /\ Occurrences(send_queue, r) = 0
                  /\ \E k \in Connections :
                       /\ holders = {k} /\ handlers[k] = "running"
                       /\ \/ links[k] = "closed"
                          \/ Occurrences(to_server[k], r)
                               + Occurrences(to_client[k], Answer(r)) = 1
  BY DEF CallbacksAwaited
<1>1. CASE InQueue(r)
  BY <1>1 DEF InQueue, NothingOn, Queued
<1>2. CASE Taken(r)
  <2>1. PICK k \in Connections : OnTheWay(k, r)
    BY <1>2 DEF Taken
  <2>2. {j \in Connections : r \in pending_responses[j]} = {k}
    BY <2>1 DEF OnTheWay, NothingOn
  <2>3. handlers[k] = "running"
    BY <2>1 DEF OnTheWay, SdkInv, HandlersHold
  <2>4. \/ links[k] = "closed"
        \/ Occurrences(to_server[k], r) + Occurrences(to_client[k], Answer(r)) = 1
    BY <2>1 DEF OnTheWay, Sent, Back
  <2>5. Occurrences(send_queue, r) = 0
    BY <1>2 DEF Taken, Queued
  <2> QED BY <2>2, <2>3, <2>4, <2>5
<1> QED BY <1>1, <1>2 DEF SdkInv, Placed, NotMade

\* A caller of send_request that waits is never forgotten by the client: its
\* request waits in the send queue, or one running handler holds its callback
\* and the request or its answer is under way there, or the link is closed and
\* the handler about to tell it (tcp_client.rs).
THEOREM CallbacksAreAwaited == SdkSpec => []CallbacksAwaited
BY SdkInvariant, PlacedIsAwaited, PTL

-----------------------------------------------------------------------------
(* The promise of Rpc.                                                     *)

LEMMA TcpRpcInitially == SdkInit => TcpRpc!RpcInit
BY DEF SdkInit, TcpInit, TcpRpc!RpcInit

LEMMA TcpRpcSteps == SdkInv /\ [SdkNext]_sdkVars => [TcpRpc!RpcNext]_TcpRpc!rpcVars
<1> SUFFICES ASSUME SdkInv, [SdkNext]_sdkVars
             PROVE  TcpRpc!RpcNext \/ UNCHANGED <<outcome, executed>>
  BY DEF TcpRpc!rpcVars
<1>0. /\ outcome \in [Requests -> {"idle", "waiting", "ok", "timeout", "disconnected"}]
      /\ executed \in [Requests -> Nat]
  BY DEF SdkInv, SdkTypeOK, TcpTypeOK
<1>1. ASSUME NEW r \in Requests, SendRequest(r), UNCHANGED executed
      PROVE  TcpRpc!RpcNext
  BY <1>1 DEF SendRequest, TcpRpc!RpcNext, TcpRpc!Ask
<1>2. ASSUME NEW r \in Requests, RequestTimesOut(r) PROVE TcpRpc!RpcNext
  <2>1. outcome' = [c \in Requests |-> IF c \in {r} THEN "timeout" ELSE outcome[c]]
    BY <1>0, <1>2 DEF RequestTimesOut
  <2>2. TcpRpc!Fail({r})
    BY <1>2, <2>1 DEF RequestTimesOut, TcpRpc!Fail
  <2> QED BY <2>2 DEF TcpRpc!RpcNext
<1>3. ASSUME NEW k \in Connections, WriteFails(k) \/ ReadEnds(k) PROVE TcpRpc!RpcNext
  <2>1. PICK C : outcome' = Abandoned(C) /\ UNCHANGED executed
    BY <1>3 DEF WriteFails, ReadEnds, HandlerEnds
  <2> DEFINE W == {r \in Requests : r \in C /\ outcome[r] = "waiting"}
  <2>2. outcome' = [c \in Requests |-> IF c \in W THEN "disconnected" ELSE outcome[c]]
    BY <2>1 DEF Abandoned
  <2>3. TcpRpc!Fail(W)
    BY <2>1, <2>2 DEF TcpRpc!Fail
  <2> QED BY <2>3 DEF TcpRpc!RpcNext
<1>4. ASSUME NEW k \in Connections, HandleIncoming(k)
      PROVE  TcpRpc!RpcNext \/ UNCHANGED <<outcome, executed>>
  <2> DEFINE p == Head(to_client[k])
             claimed == Answers(p) \cap pending_responses[k]
  <2>1. /\ UNCHANGED executed
        /\ outcome' = [r \in Requests |->
               IF r \in claimed /\ outcome[r] = "waiting" THEN "ok" ELSE outcome[r]]
    BY <1>4 DEF HandleIncoming
  <2>2. CASE \E r \in Requests : r \in claimed /\ outcome[r] = "waiting"
    <3>1. PICK r \in Requests : r \in claimed /\ outcome[r] = "waiting"
      BY <2>2
    <3>2. p = Answer(r) /\ claimed = {r}
      <4>1. to_client[k] \in Seq(Packets) /\ to_client[k] # <<>>
        BY <1>4 DEF HandleIncoming, SdkInv, SdkTypeOK, TcpTypeOK
      <4>2. p \in Packets
        BY <4>1, HeadTailProperties
      <4> HIDE DEF p
      <4> QED BY <3>1, <4>2 DEF Answers, Answer, Packets
    <3>3. executed[r] > 0
      <4>1. to_client[k] \in Seq(Packets) /\ to_client[k] # <<>>
        BY <1>4 DEF HandleIncoming, SdkInv, SdkTypeOK, TcpTypeOK
      <4>2. Occurrences(to_client[k], Answer(r))
              = Occurrences(Tail(to_client[k]), Answer(r)) + 1
        BY <3>2, <4>1, OccurrencesTail
      <4>3. Tail(to_client[k]) \in Seq(Packets)
        BY <4>1, HeadTailProperties
      <4>4. Occurrences(Tail(to_client[k]), Answer(r)) \in Nat
        BY <4>3, OccurrencesNat
      <4>5. Back(k, r) >= 1
        BY <4>2, <4>4 DEF Back
      <4>6. r \in pending_responses[k]
        BY <3>1
      <4>7. OnTheWay(k, r)
        BY <4>6 DEF SdkInv, Placed, NotMade, InQueue, Taken, OnTheWay, NothingOn
      <4> QED BY <4>5, <4>7, Counts DEF OnTheWay, SdkInv
    <3>4. outcome' = [outcome EXCEPT ![r] = "ok"]
      BY <1>0, <2>1, <3>1, <3>2
    <3>5. TcpRpc!Succeed(r)
      BY <2>1, <3>1, <3>3, <3>4 DEF TcpRpc!Succeed
    <3> QED BY <3>5 DEF TcpRpc!RpcNext
  <2>3. CASE \A r \in Requests : ~(r \in claimed /\ outcome[r] = "waiting")
    BY <1>0, <2>1, <2>3
  <2> QED BY <2>2, <2>3
<1>5. ASSUME NEW k \in Connections, ServerHandles(k)
      PROVE  TcpRpc!RpcNext \/ UNCHANGED <<outcome, executed>>
  <2> DEFINE x == Head(to_server[k])
  <2>1. /\ UNCHANGED outcome /\ to_server[k] # <<>>
        /\ executed' = [q \in Requests |-> executed[q] + (IF q = x THEN 1 ELSE 0)]
    BY <1>5 DEF ServerHandles
  <2>2. CASE x \in Requests
    <3>1. executed' = [executed EXCEPT ![x] = executed[x] + 1]
      <4>1. \A q \in Requests : executed[q] \in Nat /\ executed[q] + 0 = executed[q]
        BY <1>0
      <4> HIDE DEF x
      <4> QED BY <1>0, <2>1, <2>2, <4>1
    <3>2. Sent(k, x) >= 1
      <4>1. to_server[k] \in Seq(Requests \cup Notices)
        BY DEF SdkInv, SdkTypeOK, TcpTypeOK
      <4>2. Tail(to_server[k]) \in Seq(Requests \cup Notices)
        BY <2>1, <4>1, HeadTailProperties
      <4>3. Occurrences(to_server[k], x) = Occurrences(Tail(to_server[k]), x) + 1
        BY <2>1, <4>1, OccurrencesTail
      <4>4. Occurrences(Tail(to_server[k]), x) \in Nat
        BY <4>2, OccurrencesNat
      <4> QED BY <4>3, <4>4 DEF Sent
    <3>3. OnTheWay(k, x) /\ outcome[x] # "idle"
      BY <2>2, <3>2 DEF SdkInv, Placed, NotMade, InQueue, Taken, OnTheWay, NothingOn
    <3>4. executed[x] < 1
      BY <2>2, <3>2, <3>3, Counts DEF OnTheWay, SdkInv
    <3>5. TcpRpc!Execute(x)
      BY <2>1, <3>1, <3>3, <3>4 DEF TcpRpc!Execute
    <3> QED BY <2>2, <3>5 DEF TcpRpc!RpcNext
  <2>3. CASE x \notin Requests
    BY <1>0, <2>1, <2>3
  <2> QED BY <2>2, <2>3
<1>6. ASSUME NEW k \in Connections, Connect(k) PROVE TcpRpc!RpcNext
  BY <1>1, <1>6, SdkAssumption DEF Connect, TcpConnect
<1>7. ASSUME NEW r \in Requests, Call(r) PROVE TcpRpc!RpcNext
  BY <1>1, <1>7 DEF Call
<1>8. ASSUME NEW k \in Connections,
             \/ ConnectFails(k) \/ ConnectHalfFails(k) \/ ConnectStep(k)
             \/ Listener(k) \/ UdpOutcome(k)
      PROVE  UNCHANGED <<outcome, executed>>
  BY <1>8 DEF ConnectFails, ConnectHalfFails, TcpConnect, ConnectStep, LoginReturns,
              AuthReturns, Listener, TakePacket, HandlePacket, UdpOutcome, tcpVars
<1>9. ASSUME NEW k \in Connections, TcpTask(k)
      PROVE  TcpRpc!RpcNext \/ UNCHANGED <<outcome, executed>>
  BY <1>3, <1>4, <1>9 DEF TcpTask, TcpHandler, WriteOutgoing
<1>10. ASSUME NEW k \in Connections, Environment(k)
       PROVE  TcpRpc!RpcNext \/ UNCHANGED <<outcome, executed>>
  BY <1>5, <1>10 DEF Environment, TcpServer, ServerPushes, LinkCloses, tcpVars
<1>11. ASSUME NEW r \in Requests, TcpTimer(r) PROVE TcpRpc!RpcNext
  BY <1>2, <1>11 DEF TcpTimer
<1>12. ASSUME NEW n \in Notices, SendMuteState(n) PROVE UNCHANGED <<outcome, executed>>
  BY <1>12 DEF SendMuteState, SendEvent
<1>13. CASE UNCHANGED sdkVars
  BY <1>13 DEF sdkVars, tcpVars
<1> QED BY <1>6, <1>7, <1>8, <1>9, <1>10, <1>11, <1>12, <1>13 DEF SdkNext

\* send_request keeps the promise of Rpc over any number of connections, failed
\* connects, closed links and timeouts: "ok" means that the caller's own request
\* was carried out, and none is carried out twice (tcp_client.rs).
THEOREM TcpRefinesRpc == SdkSpec => TcpImplementsRpc
<1>1. SdkInit => TcpRpc!RpcInit
  BY TcpRpcInitially
<1>2. SdkInv /\ [SdkNext]_sdkVars => [TcpRpc!RpcNext]_TcpRpc!rpcVars
  BY TcpRpcSteps
<1> QED BY <1>1, <1>2, SdkInvariant, PTL
      DEF SdkSpec, TcpImplementsRpc, TcpRpc!RpcSpec
-----------------------------------------------------------------------------
(* The order of events.                                                    *)

\* A connection that nobody has made has nothing of its own, and before the
\* first one there is nothing at all.
Unused == \A k \in Connections : handlers[k] = "none" =>
    /\ links[k] = "none" /\ listening[k] = NotStarted
    /\ to_server[k] = <<>> /\ to_client[k] = <<>>
Unbegun == (\A k \in Connections : handlers[k] = "none") =>
    events = <<>> /\ packet_queue = <<>> /\ pushed = 0

\* While k is the only connection there has been: the news that its user has
\* been shown, that the listener holds, that wait in the queue and that are under
\* way to it follow each other.
Alone(k) ==
    /\ handlers[k] = "running" /\ links[k] = "open"
    /\ \A j \in Connections \ {k} : handlers[j] = "none"
Piece(s, a, b) == a \in Nat /\ b \in Nat /\ a <= b /\ Shows(s, a, b)
NewsFollow(k) == \E a, b, c \in Nat :
    /\ Piece(events, 0, a) /\ Piece(Held(k), a, b)
    /\ Piece(packet_queue, b, c) /\ Piece(to_client[k], c, pushed)

OrderInv ==
    /\ Unused /\ Unbegun
    /\ \A k \in Connections : Alone(k) => NewsFollow(k)

LEMMA OccurrencesOne ==
    ASSUME NEW S, NEW e \in S, NEW x
    PROVE  Occurrences(<<e>>, x) = IF e = x THEN 1 ELSE 0
<1> DEFINE s == <<>>
<1>1. s \in Seq(S)
  OBVIOUS
<1>2. Append(s, e) = <<e>> /\ Occurrences(s, x) = 0
  BY OccurrencesNone
<1>3. Occurrences(Append(s, e), x) = Occurrences(s, x) + (IF e = x THEN 1 ELSE 0)
  <2> HIDE DEF s
  <2> QED BY <1>1, OccurrencesAppend
<1> QED BY <1>2, <1>3

LEMMA HeldIs ==
    ASSUME SdkTypeOK, NEW k \in Connections
    PROVE  /\ Held(k) \in Seq(Packets)
           /\ listening[k] \in {NotStarted, NoPacket} => Held(k) = <<>>
           /\ listening[k] \notin {NotStarted, NoPacket} =>
                /\ Held(k) = <<listening[k]>> /\ listening[k] \in Packets
                /\ Held(k) # <<>> /\ Head(Held(k)) = listening[k] /\ Tail(Held(k)) = <<>>
<1>1. listening[k] \in Packets \cup {NoPacket, NotStarted}
  BY DEF SdkTypeOK
<1> QED BY <1>1 DEF Held

\* Pieces of the stream.
LEMMA PieceEmpty ==
    /\ \A a \in Nat : Piece(<<>>, a, a)
    /\ \A a, b : Piece(<<>>, a, b) => a = b
<1>1. ASSUME NEW a \in Nat PROVE Piece(<<>>, a, a)
  BY DEF Piece, Shows
<1>2. ASSUME NEW a, NEW b, Piece(<<>>, a, b) PROVE a = b
  <2>1. a \in Nat /\ b \in Nat /\ a <= b /\ \A n \in (a + 1)..b : n \in {}
    BY <1>2 DEF Piece, Shows
  <2>2. a < b => a + 1 \in (a + 1)..b
    BY <2>1
  <2> QED BY <2>1, <2>2
<1> QED BY <1>1, <1>2

\* One more packet: the next news, or none.
LEMMA PieceGrows ==
    ASSUME NEW s \in Seq(Packets), NEW e \in Packets, NEW a, NEW b, Piece(s, a, b)
    PROVE  /\ e = News(b + 1) => Piece(Append(s, e), a, b + 1)
           /\ e.kind # "news" => Piece(Append(s, e), a, b)
<1> DEFINE t == Append(s, e)
<1>1. /\ Len(t) = Len(s) + 1 /\ t[Len(s) + 1] = e /\ Len(s) \in Nat
      /\ DOMAIN s = 1..Len(s) /\ DOMAIN t = 1..Len(t)
      /\ \A i \in 1..Len(s) : t[i] = s[i]
  OBVIOUS
<1>2. a \in Nat /\ b \in Nat /\ a <= b /\ Shows(s, a, b)
  BY DEF Piece
<1>3. \A i \in DOMAIN t : (i \in DOMAIN s /\ t[i] = s[i]) \/ (i = Len(s) + 1 /\ t[i] = e)
  BY <1>1
<1>4. \A i \in DOMAIN s : i \in DOMAIN t /\ t[i] = s[i] /\ i < Len(s) + 1
  BY <1>1
<1>5. Len(s) + 1 \in DOMAIN t
  BY <1>1
<1> HIDE DEF t
<1>6. ASSUME e = News(b + 1) PROVE Piece(t, a, b + 1)
  <2>1. e.kind = "news" /\ e.of = b + 1
    BY <1>6 DEF News
  <2>2. \A i \in DOMAIN t : t[i].kind = "news" => t[i].of \in (a + 1)..(b + 1)
    BY <1>2, <1>3, <2>1 DEF Shows
  <2>3. ASSUME NEW n \in (a + 1)..(b + 1) PROVE \E i \in DOMAIN t : t[i] = News(n)
    <3>1. n \in (a + 1)..b \/ n = b + 1
      BY <1>2
    <3>2. CASE n \in (a + 1)..b
      BY <1>2, <1>4, <3>2 DEF Shows
    <3>3. CASE n = b + 1
      BY <1>1, <1>5, <1>6, <3>3 DEF t
    <3> QED BY <3>1, <3>2, <3>3
  <2>4. ASSUME NEW i \in DOMAIN t, NEW j \in DOMAIN t, i < j,
               t[i].kind = "news", t[j].kind = "news"
        PROVE  t[i].of < t[j].of
    <3>1. i \in DOMAIN s /\ t[i] = s[i]
      BY <1>1, <1>3, <2>4
    <3>2. CASE j \in DOMAIN s
      BY <1>2, <1>4, <2>4, <3>1, <3>2 DEF Shows
    <3>3. CASE j = Len(s) + 1
      <4>1. s[i].of \in (a + 1)..b
        BY <1>2, <2>4, <3>1 DEF Shows
      <4>2. t[j].of = b + 1
        BY <1>1, <2>1, <3>3 DEF t
      <4> QED BY <1>2, <3>1, <4>1, <4>2
    <3> QED BY <1>3, <3>2, <3>3
  <2>5. Shows(t, a, b + 1)
    BY <2>2, <2>3, <2>4 DEF Shows
  <2> QED BY <1>2, <2>5 DEF Piece
<1>7. ASSUME e.kind # "news" PROVE Piece(t, a, b)
  <2>1. \A i \in DOMAIN t : t[i].kind = "news" => i \in DOMAIN s /\ t[i] = s[i]
    BY <1>3, <1>7
  <2>2. \A i \in DOMAIN t : t[i].kind = "news" => t[i].of \in (a + 1)..b
    BY <1>2, <2>1 DEF Shows
  <2>3. \A n \in (a + 1)..b : \E i \in DOMAIN t : t[i] = News(n)
    BY <1>2, <1>4 DEF Shows
  <2>4. \A i, j \in DOMAIN t :
          i < j /\ t[i].kind = "news" /\ t[j].kind = "news" => t[i].of < t[j].of
    BY <1>2, <2>1 DEF Shows
  <2> QED BY <1>2, <2>2, <2>3, <2>4 DEF Piece, Shows
<1> QED BY <1>6, <1>7 DEF t

\* One packet less: the first news, or none.
LEMMA PieceShrinks ==
    ASSUME NEW s \in Seq(Packets), s # <<>>, NEW a, NEW b, Piece(s, a, b)
    PROVE  /\ Head(s).kind = "news" => Head(s) = News(a + 1) /\ Piece(Tail(s), a + 1, b)
           /\ Head(s).kind # "news" => Piece(Tail(s), a, b)
<1> DEFINE t == Tail(s)
           e == Head(s)
<1>1. /\ Len(s) \in Nat \ {0} /\ Len(t) = Len(s) - 1 /\ e = s[1] /\ e \in Packets
      /\ DOMAIN s = 1..Len(s) /\ DOMAIN t = 1..Len(t)
      /\ \A i \in 1..Len(t) : t[i] = s[i + 1]
  OBVIOUS
<1>2. a \in Nat /\ b \in Nat /\ a <= b /\ Shows(s, a, b)
  BY DEF Piece
<1> HIDE DEF t, e
<1>3. \A i \in DOMAIN t : i + 1 \in DOMAIN s /\ t[i] = s[i + 1] /\ i + 1 > 1 /\ i \in Nat
  BY <1>1
<1>4. \A i \in DOMAIN s : i = 1 \/ (i - 1 \in DOMAIN t /\ t[i - 1] = s[i])
  <2>1. ASSUME NEW i \in DOMAIN s, i # 1 PROVE i - 1 \in DOMAIN t /\ t[i - 1] = s[i]
    <3>1. i - 1 \in 1..Len(t) /\ (i - 1) + 1 = i
      BY <1>1, <2>1
    <3> QED BY <1>1, <3>1
  <2> QED BY <2>1
<1>5. 1 \in DOMAIN s
  BY <1>1
<1>6. \A i, j \in DOMAIN t :
        i < j /\ t[i].kind = "news" /\ t[j].kind = "news" => t[i].of < t[j].of
  <2> SUFFICES ASSUME NEW i \in DOMAIN t, NEW j \in DOMAIN t, i < j,
                      t[i].kind = "news", t[j].kind = "news"
               PROVE  t[i].of < t[j].of
    OBVIOUS
  <2>1. i + 1 < j + 1
    BY <1>3
  <2> QED BY <1>2, <1>3, <2>1 DEF Shows
<1>7. ASSUME e.kind = "news" PROVE e = News(a + 1) /\ Piece(t, a + 1, b)
  <2>1. e.of \in (a + 1)..b
    BY <1>1, <1>2, <1>5, <1>7 DEF Shows
  <2>2. a + 1 \in (a + 1)..b
    BY <1>2, <2>1
  <2>3. PICK i \in DOMAIN s : s[i] = News(a + 1)
    BY <1>2, <2>2 DEF Shows
  <2>4. i = 1
    <3>1. CASE i > 1
      <4>1. s[i].kind = "news" /\ s[i].of = a + 1
        BY <2>3 DEF News
      <4>2. s[1].of < s[i].of
        BY <1>1, <1>2, <1>5, <1>7, <3>1, <4>1 DEF Shows
      <4> QED BY <1>1, <1>2, <2>1, <4>1, <4>2
    <3> QED BY <1>1, <3>1
  <2>5. e = News(a + 1) /\ e.of = a + 1
    BY <1>1, <2>3, <2>4 DEF News
  <2>6. \A j \in DOMAIN t : t[j].kind = "news" => t[j].of \in (a + 2)..b
    <3> SUFFICES ASSUME NEW j \in DOMAIN t, t[j].kind = "news" PROVE t[j].of \in (a + 2)..b
      OBVIOUS
    <3>1. s[j + 1].of \in (a + 1)..b
      BY <1>2, <1>3 DEF Shows
    <3>2. s[1].of < s[j + 1].of
      BY <1>1, <1>2, <1>3, <1>5, <1>7 DEF Shows
    <3> QED BY <1>1, <1>2, <1>3, <2>5, <3>1, <3>2
  <2>7. ASSUME NEW n \in (a + 2)..b PROVE \E j \in DOMAIN t : t[j] = News(n)
    <3>1. n \in (a + 1)..b /\ n # a + 1
      BY <1>2
    <3>2. PICK j \in DOMAIN s : s[j] = News(n)
      BY <1>2, <3>1 DEF Shows
    <3>3. j # 1
      <4>1. s[j].of = n
        BY <3>2 DEF News
      <4> QED BY <1>1, <2>5, <3>1, <4>1
    <3> QED BY <1>4, <3>2, <3>3
  <2>8. (a + 1) + 1 = a + 2
    BY <1>2
  <2>9. Shows(t, a + 1, b)
    BY <1>6, <2>6, <2>7, <2>8 DEF Shows
  <2> QED BY <1>2, <2>1, <2>5, <2>9 DEF Piece
<1>8. ASSUME e.kind # "news" PROVE Piece(t, a, b)
  <2>1. \A j \in DOMAIN t : t[j].kind = "news" => t[j].of \in (a + 1)..b
    BY <1>2, <1>3 DEF Shows
  <2>2. ASSUME NEW n \in (a + 1)..b PROVE \E j \in DOMAIN t : t[j] = News(n)
    <3>1. PICK j \in DOMAIN s : s[j] = News(n)
      BY <1>2 DEF Shows
    <3>2. j # 1
      BY <1>1, <1>8, <3>1 DEF News
    <3> QED BY <1>4, <3>1, <3>2
  <2> QED BY <1>2, <1>6, <2>1, <2>2 DEF Piece, Shows
<1> QED BY <1>7, <1>8 DEF t, e

\* A packet that goes from the head of one piece to the end of the one before
\* moves the border between the two.
LEMMA PieceMoves ==
    ASSUME NEW s \in Seq(Packets), NEW t \in Seq(Packets), t # <<>>,
           NEW a, NEW b, NEW c, Piece(s, a, b), Piece(t, b, c)
    PROVE  \E d \in Nat : Piece(Append(s, Head(t)), a, d) /\ Piece(Tail(t), d, c)
<1>1. Head(t) \in Packets /\ b \in Nat /\ b + 1 \in Nat
  BY DEF Piece
<1>2. CASE Head(t).kind = "news"
  <2>1. Head(t) = News(b + 1) /\ Piece(Tail(t), b + 1, c)
    BY <1>2, PieceShrinks
  <2>2. Piece(Append(s, Head(t)), a, b + 1)
    BY <1>1, <2>1, PieceGrows
  <2> QED BY <1>1, <2>1, <2>2
<1>3. CASE Head(t).kind # "news"
  <2>1. Piece(Tail(t), b, c)
    BY <1>3, PieceShrinks
  <2>2. Piece(Append(s, Head(t)), a, b)
    BY <1>1, <1>3, PieceGrows
  <2> QED BY <1>1, <2>1, <2>2
<1> QED BY <1>2, <1>3

\* Two pieces make one.
LEMMA PiecesJoin ==
    ASSUME NEW s \in Seq(Packets), NEW t \in Seq(Packets),
           NEW a, NEW b, NEW c, Piece(s, a, b), Piece(t, b, c)
    PROVE  s \o t \in Seq(Packets) /\ Piece(s \o t, a, c)
<1> DEFINE u == s \o t
           m == Len(s)
<1>1. /\ m \in Nat /\ Len(t) \in Nat /\ Len(u) = m + Len(t)
      /\ DOMAIN s = 1..m /\ DOMAIN t = 1..Len(t) /\ DOMAIN u = 1..Len(u)
      /\ \A i \in 1..m : u[i] = s[i]
      /\ \A i \in 1..Len(u) : i > m => u[i] = t[i - m]
      /\ u \in Seq(Packets)
  OBVIOUS
<1>2. /\ a \in Nat /\ b \in Nat /\ c \in Nat /\ a <= b /\ b <= c
      /\ Shows(s, a, b) /\ Shows(t, b, c)
  BY DEF Piece
<1> HIDE DEF u
<1>3. \A i \in DOMAIN u : \/ i \in DOMAIN s /\ u[i] = s[i] /\ i <= m
                          \/ i - m \in DOMAIN t /\ u[i] = t[i - m] /\ i > m
  BY <1>1
<1>4. \A i \in DOMAIN s : i \in DOMAIN u /\ u[i] = s[i]
  BY <1>1
<1>5. \A i \in DOMAIN t : i + m \in DOMAIN u /\ u[i + m] = t[i]
  <2> SUFFICES ASSUME NEW i \in DOMAIN t PROVE i + m \in DOMAIN u /\ u[i + m] = t[i]
    OBVIOUS
  <2>1. i + m \in 1..Len(u) /\ i + m > m /\ (i + m) - m = i
    BY <1>1
  <2> QED BY <1>1, <2>1
<1>6. \A i \in DOMAIN u : u[i].kind = "news" => u[i].of \in (a + 1)..c
  <2> SUFFICES ASSUME NEW i \in DOMAIN u, u[i].kind = "news" PROVE u[i].of \in (a + 1)..c
    OBVIOUS
  <2>1. u[i].of \in (a + 1)..b \/ u[i].of \in (b + 1)..c
    BY <1>2, <1>3 DEF Shows
  <2> QED BY <1>2, <2>1
<1>7. ASSUME NEW n \in (a + 1)..c PROVE \E i \in DOMAIN u : u[i] = News(n)
  <2>1. n \in (a + 1)..b \/ n \in (b + 1)..c
    BY <1>2
  <2>2. CASE n \in (a + 1)..b
    BY <1>2, <1>4, <2>2 DEF Shows
  <2>3. CASE n \in (b + 1)..c
    BY <1>2, <1>5, <2>3 DEF Shows
  <2> QED BY <2>1, <2>2, <2>3
<1>8. ASSUME NEW i \in DOMAIN u, NEW j \in DOMAIN u, i < j,
             u[i].kind = "news", u[j].kind = "news"
      PROVE  u[i].of < u[j].of
  <2>0. i \in Int /\ j \in Int
    BY <1>1
  <2>1. CASE j <= m
    <3>1. i \in DOMAIN s /\ j \in DOMAIN s /\ u[i] = s[i] /\ u[j] = s[j]
      BY <1>1, <1>3, <1>8, <2>0, <2>1
    <3> QED BY <1>2, <1>8, <3>1 DEF Shows
  <2>2. CASE i <= m /\ j > m
    <3>1. i \in DOMAIN s /\ u[i] = s[i] /\ j - m \in DOMAIN t /\ u[j] = t[j - m]
      BY <1>1, <1>3, <2>0, <2>2
    <3>2. u[i].of \in (a + 1)..b
      BY <1>2, <1>8, <3>1 DEF Shows
    <3>3. u[j].of \in (b + 1)..c
      BY <1>2, <1>8, <3>1 DEF Shows
    <3> QED BY <1>2, <3>2, <3>3
  <2>3. CASE i > m
    <3>1. /\ i - m \in DOMAIN t /\ u[i] = t[i - m] /\ j - m \in DOMAIN t /\ u[j] = t[j - m]
          /\ i - m < j - m
      BY <1>1, <1>3, <1>8, <2>0, <2>3
    <3> QED BY <1>2, <1>8, <3>1 DEF Shows
  <2> QED BY <1>1, <2>0, <2>1, <2>2, <2>3
<1>9. Shows(u, a, c)
  BY <1>6, <1>7, <1>8 DEF Shows
<1> QED BY <1>1, <1>2, <1>9 DEF Piece, u

LEMMA OrderInitially == SdkInit => OrderInv
<1> SUFFICES ASSUME SdkInit PROVE OrderInv
  OBVIOUS
<1>1. Unused /\ Unbegun
  BY DEF SdkInit, TcpInit, Unused, Unbegun
<1>2. \A k \in Connections : ~Alone(k)
  BY DEF SdkInit, TcpInit, Alone
<1> QED BY <1>1, <1>2 DEF OrderInv

\* A step that stays clear of the stream.
LEMMA OrderStays ==
    ASSUME OrderInv,
           UNCHANGED <<handlers, links, to_server, to_client, pushed, listening, events,
                       packet_queue, executed>>
    PROVE  OrderInv'
<1>1. Unused' /\ Unbegun'
  BY DEF OrderInv, Unused, Unbegun
<1>2. ASSUME NEW k \in Connections, Alone(k)' PROVE NewsFollow(k)'
  <2>1. Alone(k)
    BY <1>2 DEF Alone
  <2>2. NewsFollow(k)
    BY <2>1 DEF OrderInv
  <2> QED BY <2>2 DEF NewsFollow, Held
<1> QED BY <1>1, <1>2 DEF OrderInv

\* A step of a connection that has been made: it alone can be the only one.
LEMMA OrderStep ==
    ASSUME OrderInv, NEW k \in Connections, handlers'[k] # "none",
           \A j \in Connections \ {k} :
               /\ handlers'[j] = handlers[j] /\ links'[j] = links[j]
               /\ to_server'[j] = to_server[j] /\ to_client'[j] = to_client[j]
               /\ listening'[j] = listening[j],
           Alone(k)' => NewsFollow(k)'
    PROVE  OrderInv'
<1>1. Unused'
  BY DEF OrderInv, Unused
<1>2. Unbegun'
  BY DEF Unbegun
<1>3. \A j \in Connections \ {k} : ~Alone(j)'
  BY DEF Alone
<1> QED BY <1>1, <1>2, <1>3 DEF OrderInv

\* What the steps below need of the types.
LEMMA StreamTypes ==
    ASSUME SdkTypeOK, NEW k \in Connections
    PROVE  /\ events \in Seq(Packets) /\ packet_queue \in Seq(Packets)
           /\ to_client[k] \in Seq(Packets) /\ Held(k) \in Seq(Packets) /\ pushed \in Nat
           /\ listening \in [Connections -> Packets \cup {NoPacket, NotStarted}]
           /\ to_client \in [Connections -> Seq(Packets)]
<1>1. Held(k) \in Seq(Packets)
  BY HeldIs
<1>2. pushed \in Nat
  BY TcpAssumption DEF SdkTypeOK, TcpTypeOK
<1> QED BY <1>1, <1>2 DEF SdkTypeOK, TcpTypeOK

\* A connection is made.
LEMMA ConnectOrders ==
    ASSUME SdkInv, OrderInv, NEW k \in Connections, Connect(k) \/ ConnectHalfFails(k)
    PROVE  OrderInv'
<1>1. /\ handlers[k] = "none" /\ handlers' = [handlers EXCEPT ![k] = "running"]
      /\ links' = [links EXCEPT ![k] = "open"]
      /\ listening' = [listening EXCEPT ![k] = NoPacket]
      /\ UNCHANGED <<packet_queue, to_server, to_client, executed, pushed, events>>
  BY DEF Connect, ConnectHalfFails, TcpConnect
<1>2. /\ handlers'[k] = "running" /\ listening'[k] = NoPacket
      /\ \A j \in Connections \ {k} :
           /\ handlers'[j] = handlers[j] /\ links'[j] = links[j]
           /\ listening'[j] = listening[j]
  BY <1>1 DEF SdkInv, SdkTypeOK, TcpTypeOK
<1>3. ASSUME Alone(k)' PROVE NewsFollow(k)'
  <2>1. \A j \in Connections : handlers[j] = "none"
    BY <1>1, <1>2, <1>3 DEF Alone
  <2>2. events' = <<>> /\ packet_queue' = <<>> /\ to_client'[k] = <<>> /\ pushed' = 0
    BY <1>1, <2>1 DEF OrderInv, Unused, Unbegun
  <2>3. Held(k)' = <<>>
    BY <1>2 DEF Held
  <2>4. Piece(<<>>, 0, 0)
    BY PieceEmpty
  <2>5. NewsFollow(k)'
    BY <2>2, <2>3, <2>4 DEF NewsFollow
  <2> QED BY <2>5
<1> QED BY <1>1, <1>2, <1>3, OrderStep

\* The listener takes a packet from the queue ...
LEMMA TakeOrders ==
    ASSUME SdkInv, OrderInv, NEW k \in Connections, TakePacket(k)
    PROVE  OrderInv'
<1> DEFINE p == Head(packet_queue)
<1>1. /\ listening[k] = NoPacket /\ packet_queue # <<>> /\ packet_queue' = Tail(packet_queue)
      /\ listening' = [listening EXCEPT ![k] = p]
      /\ UNCHANGED <<handlers, links, to_server, to_client, pushed, events, executed>>
  BY DEF TakePacket, PacketsLeft
<1>2. handlers[k] # "none"
  <2>1. NoPacket.kind # NotStarted.kind
    BY DEF NoPacket, NotStarted
  <2> QED BY <1>1, <2>1 DEF OrderInv, Unused
<1>3. p \in Packets /\ p \notin {NotStarted, NoPacket} /\ listening'[k] = p
  BY <1>1, PacketsAre, StreamTypes DEF SdkInv
<1>4. Held(k) = <<>> /\ Held(k)' = <<p>>
  <2> HIDE DEF p
  <2> QED BY <1>1, <1>3 DEF Held
<1>5. \A j \in Connections \ {k} : listening'[j] = listening[j]
  BY <1>1 DEF SdkInv, SdkTypeOK
<1>6. ASSUME Alone(k)' PROVE NewsFollow(k)'
  <2>1. Alone(k)
    BY <1>1, <1>6 DEF Alone
  <2>2. NewsFollow(k)
    BY <2>1 DEF OrderInv
  <2>3. packet_queue \in Seq(Packets) /\ <<>> \in Seq(Packets)
    BY StreamTypes DEF SdkInv
  <2>4. NewsFollow(k)'
    <3>1. PICK a, b, c \in Nat :
            /\ Piece(events, 0, a) /\ Piece(<<>>, a, b)
            /\ Piece(packet_queue, b, c) /\ Piece(to_client[k], c, pushed)
      BY <1>4, <2>2 DEF NewsFollow
    <3>2. PICK d \in Nat : Piece(Append(<<>>, p), a, d) /\ Piece(Tail(packet_queue), d, c)
      BY <1>1, <2>3, <3>1, PieceMoves
    <3>3. Append(<<>>, p) = <<p>>
      OBVIOUS
    <3> HIDE DEF p
    <3> QED BY <1>1, <1>4, <3>1, <3>2, <3>3 DEF NewsFollow
  <2> QED BY <2>4
<1> QED BY <1>1, <1>2, <1>5, <1>6, OrderStep

\* ... and makes an event of it, unless it is the answer to some other request.
LEMMA HandleOrders ==
    ASSUME SdkInv, OrderInv, NEW k \in Connections, HandlePacket(k)
    PROVE  OrderInv'
<1> DEFINE p == listening[k]
<1>1. /\ p \notin {NotStarted, NoPacket} /\ listening' = [listening EXCEPT ![k] = NoPacket]
      /\ events' = IF IsEvent(p) THEN Append(events, p) ELSE events
      /\ UNCHANGED <<handlers, links, to_server, to_client, pushed, packet_queue, executed>>
  BY DEF HandlePacket, tcpVars
<1>2. handlers[k] # "none"
  BY <1>1 DEF OrderInv, Unused
<1>3. /\ p \in Packets /\ Held(k) = <<p>> /\ Held(k) # <<>>
      /\ Head(Held(k)) = p /\ Tail(Held(k)) = <<>>
  BY <1>1, HeldIs DEF SdkInv
<1>4. Held(k)' = <<>>
  BY <1>1, StreamTypes DEF SdkInv, Held
<1>5. \A j \in Connections \ {k} : listening'[j] = listening[j]
  BY <1>1 DEF SdkInv, SdkTypeOK
<1>6. ASSUME Alone(k)' PROVE NewsFollow(k)'
  <2>1. Alone(k)
    BY <1>1, <1>6 DEF Alone
  <2>2. NewsFollow(k)
    BY <2>1 DEF OrderInv
  <2>3. events \in Seq(Packets) /\ Held(k) \in Seq(Packets)
    BY StreamTypes DEF SdkInv
  <2>4. ~IsEvent(p) => p.kind # "news"
    BY DEF IsEvent
  <2> HIDE DEF p
  <2>5. NewsFollow(k)'
    <3>1. PICK a, b, c \in Nat :
            /\ Piece(events, 0, a) /\ Piece(Held(k), a, b)
            /\ Piece(packet_queue, b, c) /\ Piece(to_client[k], c, pushed)
      BY <2>2 DEF NewsFollow
    <3>2. CASE IsEvent(p)
      <4>1. PICK d \in Nat : Piece(Append(events, p), 0, d) /\ Piece(<<>>, d, b)
        BY <1>3, <2>3, <3>1, PieceMoves
      <4> QED BY <1>1, <1>4, <3>1, <3>2, <4>1 DEF NewsFollow
    <3>3. CASE ~IsEvent(p)
      <4>1. Piece(<<>>, a, b)
        BY <1>3, <2>3, <2>4, <3>1, <3>3, PieceShrinks
      <4> QED BY <1>1, <1>4, <3>1, <3>3, <4>1 DEF NewsFollow
    <3> QED BY <3>2, <3>3
  <2> QED BY <2>5
<1> QED BY <1>1, <1>2, <1>5, <1>6, OrderStep

\* The handler reads a packet.
LEMMA ReadOrders ==
    ASSUME SdkInv, OrderInv, NEW k \in Connections, HandleIncoming(k),
           UNCHANGED <<listening, events>>
    PROVE  OrderInv'
<1> DEFINE p == Head(to_client[k])
<1>1. /\ handlers[k] = "running" /\ to_client[k] # <<>>
      /\ packet_queue' = Append(packet_queue, p)
      /\ to_client' = [to_client EXCEPT ![k] = Tail(@)]
      /\ UNCHANGED <<handlers, links, to_server, pushed, executed>>
  BY DEF HandleIncoming, Forward
<1>2. /\ to_client[k] \in Seq(Packets) /\ packet_queue \in Seq(Packets) /\ p \in Packets
      /\ to_client'[k] = Tail(to_client[k])
  BY <1>1, StreamTypes DEF SdkInv
<1>3. \A j \in Connections \ {k} : to_client'[j] = to_client[j]
  BY <1>1 DEF SdkInv, SdkTypeOK, TcpTypeOK
<1>4. Held(k)' = Held(k)
  BY DEF Held
<1>5. ASSUME Alone(k)' PROVE NewsFollow(k)'
  <2>1. Alone(k)
    BY <1>1, <1>5 DEF Alone
  <2>2. NewsFollow(k)
    BY <2>1 DEF OrderInv
  <2>3. NewsFollow(k)'
    <3>1. PICK a, b, c \in Nat :
            /\ Piece(events, 0, a) /\ Piece(Held(k), a, b)
            /\ Piece(packet_queue, b, c) /\ Piece(to_client[k], c, pushed)
      BY <2>2 DEF NewsFollow
    <3>2. PICK d \in Nat : /\ Piece(Append(packet_queue, p), b, d)
                           /\ Piece(Tail(to_client[k]), d, pushed)
      BY <1>1, <1>2, <3>1, PieceMoves
    <3> HIDE DEF p
    <3> QED BY <1>1, <1>2, <1>4, <3>1, <3>2 DEF NewsFollow
  <2> QED BY <2>3
<1> QED BY <1>1, <1>3, <1>5, OrderStep

\* The server answers a request, or sends news.
LEMMA ServerOrders ==
    ASSUME SdkInv, OrderInv, NEW k \in Connections, TcpServer(k),
           UNCHANGED <<listening, events>>
    PROVE  OrderInv'
<1>1. UNCHANGED <<handlers, links, packet_queue>>
  BY DEF TcpServer, ServerHandles, ServerPushes
<1>2. handlers[k] # "none"
  BY DEF TcpServer, ServerHandles, ServerPushes, OrderInv, Unused
<1>3. \A j \in Connections \ {k} :
        /\ to_server'[j] = to_server[j] /\ to_client'[j] = to_client[j]
  BY DEF TcpServer, ServerHandles, ServerPushes, SdkInv, SdkTypeOK, TcpTypeOK
<1>4. Held(k)' = Held(k)
  BY DEF Held
<1>5. ASSUME Alone(k)' PROVE NewsFollow(k)'
  <2>1. Alone(k) /\ links[k] = "open"
    BY <1>1, <1>5 DEF Alone
  <2>2. NewsFollow(k)
    BY <2>1 DEF OrderInv
  <2>3. PICK a, b, c \in Nat :
          /\ Piece(events, 0, a) /\ Piece(Held(k), a, b)
          /\ Piece(packet_queue, b, c) /\ Piece(to_client[k], c, pushed)
    BY <2>2 DEF NewsFollow
  <2>4. /\ pushed \in Nat /\ to_client[k] \in Seq(Packets)
        /\ to_client \in [Connections -> Seq(Packets)]
    BY StreamTypes DEF SdkInv
  <2>5. CASE ServerPushes(k)
    <3> DEFINE p == News(pushed + 1)
    <3>1. /\ to_client'[k] = Append(to_client[k], p) /\ pushed' = pushed + 1 /\ p \in Packets
      BY <2>4, <2>5, PacketsAre, TcpAssumption DEF ServerPushes
    <3>2. Piece(Append(to_client[k], p), c, pushed + 1)
      BY <2>3, <2>4, <3>1, PieceGrows
    <3> HIDE DEF p
    <3> QED BY <1>1, <1>4, <2>3, <3>1, <3>2 DEF NewsFollow
  <2>6. CASE ServerHandles(k)
    <3> DEFINE x == Head(to_server[k])
               p == Answer(x)
    <3>1. /\ pushed' = pushed
          /\ to_client'[k] = IF x \in Requests THEN Append(to_client[k], p) ELSE to_client[k]
      BY <2>1, <2>4, <2>6 DEF ServerHandles
    <3>2. p.kind # "news" /\ (x \in Requests => p \in Packets)
      BY PacketsAre DEF Answer
    <3>3. Piece(to_client'[k], c, pushed)
      <4> HIDE DEF p, x
      <4>1. CASE x \in Requests
        BY <2>3, <2>4, <3>1, <3>2, <4>1, PieceGrows
      <4>2. CASE x \notin Requests
        BY <2>3, <3>1, <4>2
      <4> QED BY <4>1, <4>2
    <3> HIDE DEF p, x
    <3> QED BY <1>1, <1>4, <2>3, <3>1, <3>3 DEF NewsFollow
  <2> QED BY <2>5, <2>6 DEF TcpServer
<1> QED BY <1>1, <1>2, <1>3, <1>5, OrderStep

\* The handler writes, or ends; the link closes.
LEMMA HandlerOrders ==
    ASSUME SdkInv, OrderInv, NEW k \in Connections,
           WriteOutgoing(k) \/ WriteFails(k) \/ ReadEnds(k) \/ LinkCloses(k),
           UNCHANGED <<listening, events>>
    PROVE  OrderInv'
<1>1. UNCHANGED <<packet_queue, to_client, pushed, executed>>
  BY DEF WriteOutgoing, WriteFails, ReadEnds, LinkCloses
<1>2. handlers'[k] # "none" /\ \A j \in Connections \ {k} :
        /\ handlers'[j] = handlers[j] /\ links'[j] = links[j] /\ to_server'[j] = to_server[j]
  BY DEF WriteOutgoing, Sending, WriteFails, ReadEnds, HandlerEnds, LinkCloses, OrderInv,
         Unused, SdkInv, SdkTypeOK, TcpTypeOK
<1>3. ASSUME Alone(k)' PROVE NewsFollow(k)'
  <2>1. WriteOutgoing(k)
    BY <1>3 DEF Alone, WriteFails, ReadEnds, HandlerEnds, LinkCloses, SdkInv, SdkTypeOK,
                TcpTypeOK
  <2>2. Alone(k)
    BY <1>3, <2>1 DEF Alone, WriteOutgoing
  <2>3. NewsFollow(k)
    BY <2>2 DEF OrderInv
  <2> QED BY <1>1, <2>3 DEF NewsFollow, Held
<1> QED BY <1>1, <1>2, <1>3, OrderStep

LEMMA OrderKeeps == SdkInv /\ OrderInv /\ [SdkNext]_sdkVars => OrderInv'
<1> SUFFICES ASSUME SdkInv, OrderInv, [SdkNext]_sdkVars PROVE OrderInv'
  OBVIOUS
<1>1. ASSUME NEW k \in Connections,
             \/ Connect(k) \/ ConnectFails(k) \/ ConnectHalfFails(k) \/ ConnectStep(k)
             \/ Listener(k) \/ UdpOutcome(k)
      PROVE  OrderInv'
  BY <1>1, ConnectOrders, TakeOrders, HandleOrders, OrderStays
  DEF ConnectFails, ConnectStep, LoginReturns, AuthReturns, Listener, UdpOutcome, tcpVars
<1>2. ASSUME NEW k \in Connections, TcpTask(k) PROVE OrderInv'
  BY <1>2, HandlerOrders, ReadOrders DEF TcpTask, TcpHandler
<1>3. ASSUME NEW k \in Connections, Environment(k) PROVE OrderInv'
  BY <1>3, HandlerOrders, ServerOrders, OrderStays DEF Environment, tcpVars
<1>4. ASSUME NEW r \in Requests, Call(r) \/ TcpTimer(r) PROVE OrderInv'
  BY <1>4, OrderStays DEF Call, TcpTimer, RequestTimesOut
<1>5. ASSUME NEW n \in Notices, SendMuteState(n) PROVE OrderInv'
  BY <1>5, OrderStays DEF SendMuteState, SendEvent
<1>6. CASE UNCHANGED sdkVars
  BY <1>6, OrderStays DEF sdkVars, tcpVars
<1> QED BY <1>1, <1>2, <1>3, <1>4, <1>5, <1>6 DEF SdkNext

\* As long as its connection is the only one there has been, and open, a user is
\* shown every broadcast that the server has sent him, once and in the order it
\* sent them: whatever requests are under way, time out or are answered meanwhile,
\* and however many broadcasts there are.
THEOREM EventsComeInOrder == SdkSpec => []EventsInOrder
<1>1. SdkInv /\ OrderInv => EventsInOrder
  <2> SUFFICES ASSUME SdkInv, OrderInv, NEW k \in Connections, Alone(k)
               PROVE  Shows(events \o Held(k) \o packet_queue \o to_client[k], 0, pushed)
    BY DEF EventsInOrder, Alone
  <2> DEFINE one == events \o Held(k)
             two == one \o packet_queue
             three == two \o to_client[k]
  <2>1. PICK a, b, c \in Nat :
          /\ Piece(events, 0, a) /\ Piece(Held(k), a, b)
          /\ Piece(packet_queue, b, c) /\ Piece(to_client[k], c, pushed)
    BY DEF OrderInv, NewsFollow
  <2>2. /\ events \in Seq(Packets) /\ Held(k) \in Seq(Packets)
        /\ packet_queue \in Seq(Packets) /\ to_client[k] \in Seq(Packets)
    BY StreamTypes DEF SdkInv
  <2>3. one \in Seq(Packets) /\ Piece(one, 0, b)
    BY <2>1, <2>2, PiecesJoin
  <2> HIDE DEF one
  <2>4. two \in Seq(Packets) /\ Piece(two, 0, c)
    BY <2>1, <2>2, <2>3, PiecesJoin
  <2> HIDE DEF two
  <2>5. Piece(three, 0, pushed)
    BY <2>1, <2>2, <2>4, PiecesJoin
  <2> HIDE DEF three
  <2> QED BY <2>5 DEF one, two, three, Piece
<1>2. SdkInv /\ OrderInv /\ [SdkNext]_sdkVars => OrderInv'
  BY OrderKeeps
<1> QED BY <1>1, <1>2, OrderInitially, SdkInvariant, PTL DEF SdkSpec
-----------------------------------------------------------------------------
(* No event twice.                                                         *)

\* Where a packet can be, once it has been sent: on one connection, in the queue,
\* with one listener, with the user.
NoneHolds(x) == \A k \in Connections : listening[k] # x
OnNoWire(x) == \A k \in Connections : Occurrences(to_client[k], x) = 0
AtNone(x) ==
    /\ NoneHolds(x) /\ OnNoWire(x)
    /\ Occurrences(packet_queue, x) = 0 /\ Occurrences(events, x) = 0
AtWire(x) ==
    /\ NoneHolds(x)
    /\ \E k \in Connections : /\ Occurrences(to_client[k], x) = 1
                              /\ \A j \in Connections \ {k} : Occurrences(to_client[j], x) = 0
    /\ Occurrences(packet_queue, x) = 0 /\ Occurrences(events, x) = 0
AtQueue(x) ==
    /\ NoneHolds(x) /\ OnNoWire(x)
    /\ Occurrences(packet_queue, x) = 1 /\ Occurrences(events, x) = 0
AtListener(x) ==
    /\ \E k \in Connections : /\ listening[k] = x
                              /\ \A j \in Connections \ {k} : listening[j] # x
    /\ OnNoWire(x)
    /\ Occurrences(packet_queue, x) = 0 /\ Occurrences(events, x) = 0
AtUser(x) ==
    /\ NoneHolds(x) /\ OnNoWire(x)
    /\ Occurrences(packet_queue, x) = 0 /\ Occurrences(events, x) = 1

Tracked == {News(n) : n \in 1..MaxNews} \cup {Answer(k) : k \in Connections}
Due(x) == IF x.kind = "news" THEN x.of <= pushed ELSE executed[x.of] > 0
Follows(x) ==
    /\ AtNone(x) \/ AtWire(x) \/ AtQueue(x) \/ AtListener(x) \/ AtUser(x)
    /\ ~Due(x) => AtNone(x)
    /\ AllOpen /\ Due(x) => ~AtNone(x)
OnceInv == \A x \in Tracked : Follows(x)

LEMMA TrackedAre ==
    /\ \A n \in 1..MaxNews : News(n) \in Tracked /\ (Due(News(n)) <=> n <= pushed)
    /\ \A k \in Connections : Answer(k) \in Tracked /\ (Due(Answer(k)) <=> executed[k] > 0)
    /\ \A x \in Tracked : x \in Packets /\ IsEvent(x) /\ x # NoPacket /\ x # NotStarted
<1>1. Connections \subseteq Requests
  BY SdkAssumption
<1>2. ASSUME NEW n \in 1..MaxNews
      PROVE  /\ News(n) \in Tracked /\ News(n) \in Packets /\ IsEvent(News(n))
             /\ Due(News(n)) <=> n <= pushed
  BY PacketsAre DEF Tracked, Due, News, IsEvent
<1>3. ASSUME NEW k \in Connections
      PROVE  /\ Answer(k) \in Tracked /\ Answer(k) \in Packets /\ IsEvent(Answer(k))
             /\ Due(Answer(k)) <=> executed[k] > 0
  BY <1>1, PacketsAre DEF Tracked, Due, Answer, IsEvent
<1>4. \A x \in Tracked : x \in Packets /\ IsEvent(x)
  BY <1>2, <1>3 DEF Tracked
<1> QED BY <1>2, <1>3, <1>4, PacketsAre

LEMMA OnceTypes ==
    ASSUME SdkTypeOK, NEW k \in Connections
    PROVE  /\ events \in Seq(Packets) /\ packet_queue \in Seq(Packets)
           /\ to_client[k] \in Seq(Packets)
           /\ to_client \in [Connections -> Seq(Packets)]
           /\ listening \in [Connections -> Packets \cup {NoPacket, NotStarted}]
BY DEF SdkTypeOK, TcpTypeOK

\* A packet that a step does not touch.
LEMMA FollowsOn ==
    ASSUME NEW x, Follows(x), AllOpen' => AllOpen, Due(x)' <=> Due(x),
           \A k \in Connections :
               /\ listening'[k] = x <=> listening[k] = x
               /\ Occurrences(to_client'[k], x) = Occurrences(to_client[k], x),
           Occurrences(packet_queue', x) = Occurrences(packet_queue, x),
           Occurrences(events', x) = Occurrences(events, x)
    PROVE  Follows(x)'
<1>1. (NoneHolds(x)' <=> NoneHolds(x)) /\ (OnNoWire(x)' <=> OnNoWire(x))
  BY DEF NoneHolds, OnNoWire
<1>2. AtNone(x)' <=> AtNone(x)
  BY <1>1 DEF AtNone
<1>3. AtWire(x) => AtWire(x)'
  BY <1>1 DEF AtWire
<1>4. AtQueue(x) => AtQueue(x)'
  BY <1>1 DEF AtQueue
<1>5. AtListener(x) => AtListener(x)'
  BY <1>1 DEF AtListener
<1>6. AtUser(x) => AtUser(x)'
  BY <1>1 DEF AtUser
<1> QED BY <1>2, <1>3, <1>4, <1>5, <1>6 DEF Follows

LEMMA OnceStays ==
    ASSUME OnceInv, AllOpen' => AllOpen,
           UNCHANGED <<to_client, pushed, listening, events, packet_queue, executed>>
    PROVE  OnceInv'
<1> SUFFICES ASSUME NEW x \in Tracked PROVE Follows(x)'
  BY DEF OnceInv
<1>1. Follows(x)
  BY DEF OnceInv
<1>2. Due(x)' <=> Due(x)
  BY DEF Due
<1> QED BY <1>1, <1>2, FollowsOn

LEMMA OnceInitially == SdkInit => OnceInv
<1> SUFFICES ASSUME SdkInit, NEW x \in Tracked PROVE Follows(x)
  BY DEF OnceInv
<1>1. /\ events = <<>> /\ packet_queue = <<>>
      /\ \A k \in Connections : listening[k] = NotStarted /\ to_client[k] = <<>>
  BY DEF SdkInit, TcpInit
<1>2. AtNone(x)
  BY <1>1, OccurrencesNone, TrackedAre DEF AtNone, NoneHolds, OnNoWire
<1>3. ~Due(x)
  <2>1. pushed = 0 /\ \A k \in Connections : executed[k] = 0
    BY SdkAssumption DEF SdkInit, TcpInit
  <2>2. CASE x \in {News(n) : n \in 1..MaxNews}
    BY <2>1, <2>2, TcpAssumption DEF Due, News
  <2>3. CASE x \in {Answer(k) : k \in Connections}
    BY <2>1, <2>3 DEF Due, Answer
  <2> QED BY <2>2, <2>3 DEF Tracked
<1> QED BY <1>2, <1>3 DEF Follows

\* A lost connection stays lost.
LEMMA LostStaysLost ==
    ASSUME SdkInv, OrderInv, [SdkNext]_sdkVars, AllOpen'
    PROVE  AllOpen
<1>0. /\ handlers \in [Connections -> {"none", "running", "stopped"}]
      /\ links \in [Connections -> {"none", "open", "closed"}]
  BY DEF SdkInv, SdkTypeOK, TcpTypeOK
<1>1. CASE UNCHANGED <<handlers, links>>
  BY <1>1 DEF AllOpen
<1>2. ASSUME NEW k \in Connections, TcpConnect(k) PROVE AllOpen
  <2>1. /\ handlers[k] = "none"
        /\ \A j \in Connections \ {k} : handlers'[j] = handlers[j] /\ links'[j] = links[j]
    BY <1>0, <1>2 DEF TcpConnect
  <2> QED BY <2>1 DEF AllOpen
<1>3. ASSUME NEW k \in Connections, WriteFails(k) \/ ReadEnds(k) PROVE FALSE
  BY <1>0, <1>3 DEF WriteFails, ReadEnds, HandlerEnds, AllOpen
<1>4. ASSUME NEW k \in Connections, LinkCloses(k) PROVE FALSE
  <2>1. handlers[k] # "none" /\ links[k] = "open"
    BY <1>4 DEF LinkCloses, OrderInv, Unused
  <2>2. handlers'[k] # "none" /\ links'[k] = "closed"
    BY <1>0, <1>4, <2>1 DEF LinkCloses
  <2> QED BY <2>2 DEF AllOpen
<1>5. ASSUME NEW k \in Connections,
             \/ Connect(k) \/ ConnectFails(k) \/ ConnectHalfFails(k) \/ ConnectStep(k)
             \/ Listener(k) \/ UdpOutcome(k)
      PROVE  AllOpen
  BY <1>1, <1>2, <1>5
  DEF Connect, ConnectHalfFails, ConnectFails, ConnectStep, LoginReturns, AuthReturns,
      Listener, TakePacket, HandlePacket, UdpOutcome, tcpVars
<1>6. ASSUME NEW k \in Connections, TcpTask(k) PROVE AllOpen
  BY <1>1, <1>3, <1>6 DEF TcpTask, TcpHandler, WriteOutgoing, HandleIncoming
<1>7. ASSUME NEW k \in Connections, Environment(k) PROVE AllOpen
  BY <1>1, <1>4, <1>7
  DEF Environment, TcpServer, ServerHandles, ServerPushes, tcpVars
<1>8. ASSUME NEW r \in Requests, Call(r) \/ TcpTimer(r) PROVE AllOpen
  BY <1>1, <1>8 DEF Call, TcpTimer, RequestTimesOut
<1>9. ASSUME NEW n \in Notices, SendMuteState(n) PROVE AllOpen
  BY <1>1, <1>9 DEF SendMuteState, SendEvent
<1>10. CASE UNCHANGED sdkVars
  BY <1>1, <1>10 DEF sdkVars, tcpVars
<1> QED BY <1>5, <1>6, <1>7, <1>8, <1>9, <1>10 DEF SdkNext

\* A packet goes from a connection to the queue, ...
LEMMA ReadOnce ==
    ASSUME SdkInv, OnceInv, AllOpen' => AllOpen, NEW k \in Connections, HandleIncoming(k),
           UNCHANGED <<listening, events>>
    PROVE  OnceInv'
<1> DEFINE p == Head(to_client[k])
<1> SUFFICES ASSUME NEW x \in Tracked PROVE Follows(x)'
  BY DEF OnceInv
<1>1. /\ to_client[k] # <<>> /\ packet_queue' = Append(packet_queue, p)
      /\ to_client' = [to_client EXCEPT ![k] = Tail(@)]
      /\ UNCHANGED <<pushed, executed>>
  BY DEF HandleIncoming, Forward
<1>2. Follows(x) /\ (Due(x)' <=> Due(x))
  BY <1>1 DEF OnceInv, Due
<1>3. /\ to_client'[k] = Tail(to_client[k]) /\ p \in Packets
      /\ \A j \in Connections \ {k} : to_client'[j] = to_client[j]
  BY <1>1, OnceTypes DEF SdkInv
<1>4. /\ Occurrences(to_client[k], x)
           = Occurrences(to_client'[k], x) + (IF p = x THEN 1 ELSE 0)
      /\ Occurrences(to_client'[k], x) \in Nat
  <2>1. to_client[k] \in Seq(Packets) /\ Tail(to_client[k]) \in Seq(Packets)
    BY <1>1, OnceTypes DEF SdkInv
  <2>2. Occurrences(Tail(to_client[k]), x) \in Nat
    BY <2>1, OccurrencesNat
  <2>3. Occurrences(to_client[k], x)
          = Occurrences(Tail(to_client[k]), x) + (IF p = x THEN 1 ELSE 0)
    BY <1>1, <2>1, OccurrencesTail
  <2> QED BY <1>3, <2>2, <2>3
<1>5. /\ Occurrences(packet_queue', x)
           = Occurrences(packet_queue, x) + (IF p = x THEN 1 ELSE 0)
      /\ Occurrences(packet_queue, x) \in Nat
  <2> HIDE DEF p
  <2>1. packet_queue \in Seq(Packets)
    BY OnceTypes DEF SdkInv
  <2>2. Occurrences(packet_queue, x) \in Nat
    BY <2>1, OccurrencesNat
  <2>3. Occurrences(Append(packet_queue, p), x)
          = Occurrences(packet_queue, x) + (IF p = x THEN 1 ELSE 0)
    BY <1>3, <2>1, OccurrencesAppend
  <2> QED BY <1>1, <2>2, <2>3
<1> HIDE DEF p
<1>6. CASE p = x
  <2>1. Occurrences(to_client[k], x) # 0
    BY <1>4, <1>6
  <2>2. AtWire(x)
    BY <1>2, <2>1 DEF Follows, AtNone, AtQueue, AtListener, AtUser, OnNoWire
  <2>3. /\ Occurrences(to_client[k], x) = 1
        /\ \A j \in Connections \ {k} : Occurrences(to_client[j], x) = 0
    BY <2>1, <2>2 DEF AtWire
  <2>4. OnNoWire(x)'
    BY <1>3, <1>4, <1>6, <2>3 DEF OnNoWire
  <2>5. NoneHolds(x)' /\ Occurrences(packet_queue', x) = 1 /\ Occurrences(events', x) = 0
    BY <1>5, <1>6, <2>2 DEF AtWire, NoneHolds
  <2>6. AtQueue(x)' /\ ~AtNone(x)'
    BY <2>4, <2>5 DEF AtQueue, AtNone
  <2>7. Due(x)
    BY <1>2, <2>1 DEF Follows, AtNone, OnNoWire
  <2> QED BY <1>2, <2>6, <2>7 DEF Follows
<1>7. CASE p # x
  <2>1. \A j \in Connections : Occurrences(to_client'[j], x) = Occurrences(to_client[j], x)
    BY <1>3, <1>4, <1>7, OnceTypes, OccurrencesNat DEF SdkInv
  <2>2. Occurrences(packet_queue', x) = Occurrences(packet_queue, x)
    BY <1>5, <1>7
  <2> QED BY <1>2, <2>1, <2>2, FollowsOn
<1> QED BY <1>6, <1>7

\* ... from the queue to one listener, whichever is first, ...
LEMMA TakeOnce ==
    ASSUME SdkInv, OnceInv, AllOpen' => AllOpen, NEW k \in Connections, TakePacket(k)
    PROVE  OnceInv'
<1> DEFINE p == Head(packet_queue)
<1> SUFFICES ASSUME NEW x \in Tracked PROVE Follows(x)'
  BY DEF OnceInv
<1>1. /\ listening[k] = NoPacket /\ packet_queue # <<>> /\ packet_queue' = Tail(packet_queue)
      /\ listening' = [listening EXCEPT ![k] = p]
      /\ UNCHANGED <<to_client, pushed, events, executed>>
  BY DEF TakePacket, PacketsLeft
<1>2. Follows(x) /\ (Due(x)' <=> Due(x))
  BY <1>1 DEF OnceInv, Due
<1>3. /\ listening'[k] = p /\ listening[k] # x
      /\ \A j \in Connections \ {k} : listening'[j] = listening[j]
  BY <1>1, OnceTypes, TrackedAre DEF SdkInv
<1>4. /\ Occurrences(packet_queue, x)
           = Occurrences(packet_queue', x) + (IF p = x THEN 1 ELSE 0)
      /\ Occurrences(packet_queue', x) \in Nat
  <2>1. packet_queue \in Seq(Packets) /\ Tail(packet_queue) \in Seq(Packets)
    BY <1>1, OnceTypes DEF SdkInv
  <2>2. Occurrences(Tail(packet_queue), x) \in Nat
    BY <2>1, OccurrencesNat
  <2>3. Occurrences(packet_queue, x)
          = Occurrences(Tail(packet_queue), x) + (IF p = x THEN 1 ELSE 0)
    BY <1>1, <2>1, OccurrencesTail
  <2> QED BY <1>1, <2>2, <2>3
<1> HIDE DEF p
<1>5. CASE p = x
  <2>1. Occurrences(packet_queue, x) # 0
    BY <1>4, <1>5
  <2>2. AtQueue(x)
    BY <1>2, <2>1 DEF Follows, AtNone, AtWire, AtListener, AtUser
  <2>3. Occurrences(packet_queue', x) = 0 /\ Occurrences(events', x) = 0 /\ OnNoWire(x)'
    BY <1>1, <1>4, <1>5, <2>2 DEF AtQueue, OnNoWire
  <2>4. listening'[k] = x /\ \A j \in Connections \ {k} : listening'[j] # x
    BY <1>3, <1>5, <2>2 DEF AtQueue, NoneHolds
  <2>5. AtListener(x)' /\ ~AtNone(x)'
    BY <2>3, <2>4 DEF AtListener, AtNone, NoneHolds
  <2>6. Due(x)
    BY <1>2, <2>1 DEF Follows, AtNone
  <2> QED BY <1>2, <2>5, <2>6 DEF Follows
<1>6. CASE p # x
  <2>1. \A j \in Connections : listening'[j] = x <=> listening[j] = x
    BY <1>3, <1>6
  <2>2. Occurrences(packet_queue', x) = Occurrences(packet_queue, x)
    BY <1>4, <1>6
  <2> QED BY <1>1, <1>2, <2>1, <2>2, FollowsOn
<1> QED BY <1>5, <1>6

\* ... and from the listener to the user.
LEMMA HandleOnce ==
    ASSUME SdkInv, OnceInv, AllOpen' => AllOpen, NEW k \in Connections, HandlePacket(k)
    PROVE  OnceInv'
<1> DEFINE p == listening[k]
<1> SUFFICES ASSUME NEW x \in Tracked PROVE Follows(x)'
  BY DEF OnceInv
<1>1. /\ p \notin {NotStarted, NoPacket} /\ listening' = [listening EXCEPT ![k] = NoPacket]
      /\ events' = IF IsEvent(p) THEN Append(events, p) ELSE events
      /\ UNCHANGED <<to_client, pushed, packet_queue, executed>>
  BY DEF HandlePacket, tcpVars
<1>2. Follows(x) /\ (Due(x)' <=> Due(x))
  BY <1>1 DEF OnceInv, Due
<1>3. /\ listening'[k] # x /\ p \in Packets
      /\ \A j \in Connections \ {k} : listening'[j] = listening[j]
  BY <1>1, OnceTypes, TrackedAre DEF SdkInv
<1>4. Occurrences(events', x) = Occurrences(events, x) + (IF p = x THEN 1 ELSE 0)
  <2>1. events \in Seq(Packets) /\ IsEvent(x) /\ Occurrences(events, x) \in Nat
    BY OnceTypes, TrackedAre, OccurrencesNat DEF SdkInv
  <2>2. Occurrences(Append(events, p), x)
          = Occurrences(events, x) + (IF p = x THEN 1 ELSE 0)
    <3> HIDE DEF p
    <3> QED BY <1>3, <2>1, OccurrencesAppend
  <2> HIDE DEF p
  <2>3. CASE IsEvent(p)
    BY <1>1, <2>2, <2>3
  <2>4. CASE ~IsEvent(p)
    BY <1>1, <2>1, <2>4
  <2> QED BY <2>3, <2>4
<1>5. CASE p = x
  <2>1. AtListener(x)
    BY <1>2, <1>5 DEF Follows, AtNone, AtWire, AtQueue, AtUser, NoneHolds
  <2>2. NoneHolds(x)'
    BY <1>3, <1>5, <2>1 DEF AtListener, NoneHolds
  <2>3. Occurrences(events', x) = 1 /\ Occurrences(packet_queue', x) = 0 /\ OnNoWire(x)'
    BY <1>1, <1>4, <1>5, <2>1 DEF AtListener, OnNoWire
  <2>4. AtUser(x)' /\ ~AtNone(x)'
    BY <2>2, <2>3 DEF AtUser, AtNone
  <2>5. Due(x)
    BY <1>2, <1>5 DEF Follows, AtNone, NoneHolds
  <2> QED BY <1>2, <2>4, <2>5 DEF Follows
<1>6. CASE p # x
  <2>1. \A j \in Connections : listening'[j] = x <=> listening[j] = x
    BY <1>3, <1>6
  <2>2. events \in Seq(Packets)
    BY OnceTypes DEF SdkInv
  <2>3. Occurrences(events, x) \in Nat
    BY <2>2, OccurrencesNat
  <2>4. Occurrences(events', x) = Occurrences(events, x)
    BY <1>4, <1>6, <2>3
  <2> HIDE DEF p
  <2> QED BY <1>1, <1>2, <2>1, <2>4, FollowsOn
<1> QED BY <1>5, <1>6

\* A packet that goes out on one connection and was nowhere before.
LEMMA SentOnce ==
    ASSUME SdkInv, NEW k \in Connections, NEW x \in Packets, AtNone(x),
           to_client' = [to_client EXCEPT ![k] = Append(to_client[k], x)],
           UNCHANGED <<listening, events, packet_queue>>
    PROVE  AtWire(x)' /\ ~AtNone(x)'
<1>1. /\ to_client'[k] = Append(to_client[k], x)
      /\ \A j \in Connections \ {k} : to_client'[j] = to_client[j]
  BY OnceTypes DEF SdkInv
<1>2. Occurrences(to_client'[k], x) = 1
  BY <1>1, OnceTypes, OccurrencesAppend DEF SdkInv, AtNone, OnNoWire
<1>3. \A j \in Connections \ {k} : Occurrences(to_client'[j], x) = 0
  BY <1>1 DEF AtNone, OnNoWire
<1> QED BY <1>2, <1>3 DEF AtWire, AtNone, NoneHolds, OnNoWire

\* One more packet on a connection is none of the others.
LEMMA OthersStay ==
    ASSUME SdkInv, NEW k \in Connections, NEW p \in Packets, NEW x, p # x,
           to_client' = [to_client EXCEPT ![k] = Append(to_client[k], p)]
    PROVE  \A j \in Connections : Occurrences(to_client'[j], x) = Occurrences(to_client[j], x)
<1>1. /\ to_client'[k] = Append(to_client[k], p)
      /\ \A j \in Connections \ {k} : to_client'[j] = to_client[j]
  BY OnceTypes DEF SdkInv
<1>2. Occurrences(to_client'[k], x) = Occurrences(to_client[k], x)
  <2>1. to_client[k] \in Seq(Packets)
    BY OnceTypes DEF SdkInv
  <2>2. Occurrences(to_client[k], x) \in Nat
    BY <2>1, OccurrencesNat
  <2>3. Occurrences(Append(to_client[k], p), x) = Occurrences(to_client[k], x) + 0
    BY <2>1, OccurrencesAppend
  <2> QED BY <1>1, <2>2, <2>3
<1> QED BY <1>1, <1>2

\* The server sends news ...
LEMMA PushOnce ==
    ASSUME SdkInv, OnceInv, AllOpen' => AllOpen, NEW k \in Connections, ServerPushes(k),
           UNCHANGED <<listening, events>>
    PROVE  OnceInv'
<1> DEFINE p == News(pushed + 1)
<1> SUFFICES ASSUME NEW x \in Tracked PROVE Follows(x)'
  BY DEF OnceInv
<1>1. /\ pushed + 1 \in 1..MaxNews /\ pushed' = pushed + 1 /\ pushed \in Nat
      /\ to_client' = [to_client EXCEPT ![k] = Append(to_client[k], p)]
      /\ UNCHANGED <<packet_queue, executed>>
  BY TcpAssumption DEF ServerPushes, SdkInv, SdkTypeOK, TcpTypeOK
<1>2. p \in Packets /\ Follows(x)
  BY <1>1, PacketsAre DEF OnceInv
<1>3. CASE p = x
  <2>1. ~Due(x) /\ Due(x)'
    BY <1>1, <1>3 DEF Due, News
  <2>2. AtNone(x)
    BY <1>2, <2>1 DEF Follows
  <2>3. AtWire(x)' /\ ~AtNone(x)'
    <3> HIDE DEF p
    <3> QED BY <1>1, <1>2, <1>3, <2>2, SentOnce
  <2> QED BY <2>1, <2>3 DEF Follows
<1>4. CASE p # x
  <2>1. Due(x)' <=> Due(x)
    <3>1. CASE x \in {News(n) : n \in 1..MaxNews}
      <4>1. PICK n \in 1..MaxNews : x = News(n)
        BY <3>1
      <4>2. n # pushed + 1 /\ n \in Int
        BY <1>4, <4>1
      <4> QED BY <1>1, <4>1, <4>2 DEF Due, News
    <3>2. CASE x \in {Answer(j) : j \in Connections}
      BY <1>1, <3>2 DEF Due, Answer
    <3> QED BY <3>1, <3>2 DEF Tracked
  <2> HIDE DEF p
  <2>2. \A j \in Connections : Occurrences(to_client'[j], x) = Occurrences(to_client[j], x)
    BY <1>1, <1>2, <1>4, OthersStay
  <2> QED BY <1>1, <1>2, <2>1, <2>2, FollowsOn
<1> QED BY <1>3, <1>4

\* ... or an answer, which is lost when the connection is.
LEMMA AnswerOnce ==
    ASSUME SdkInv, OrderInv, OnceInv, AllOpen' => AllOpen, NEW k \in Connections,
           ServerHandles(k), UNCHANGED <<listening, events>>
    PROVE  OnceInv'
<1> DEFINE r == Head(to_server[k])
           p == Answer(r)
<1> SUFFICES ASSUME NEW x \in Tracked PROVE Follows(x)'
  BY DEF OnceInv
<1>1. /\ to_server[k] # <<>>
      /\ executed' = [q \in Requests |-> executed[q] + (IF q = r THEN 1 ELSE 0)]
      /\ to_client' = [to_client EXCEPT ![k] =
             IF links[k] = "open" /\ r \in Requests THEN Append(@, p) ELSE @]
      /\ UNCHANGED <<packet_queue, handlers, links, pushed>>
  BY DEF ServerHandles
<1>2. Follows(x) /\ executed \in [Requests -> Nat] /\ Connections \subseteq Requests
  BY SdkAssumption DEF OnceInv, SdkInv, SdkTypeOK, TcpTypeOK
<1>3. handlers[k] # "none"
  BY <1>1 DEF OrderInv, Unused
<1>4. r \in Requests => executed[r] = 0
  <2> SUFFICES ASSUME r \in Requests PROVE executed[r] = 0
    OBVIOUS
  <2>1. to_server[k] \in Seq(Requests \cup Notices)
    BY DEF SdkInv, SdkTypeOK, TcpTypeOK
  <2>2. Tail(to_server[k]) \in Seq(Requests \cup Notices)
    BY <1>1, <2>1
  <2>3. Occurrences(to_server[k], r) = Occurrences(Tail(to_server[k]), r) + 1
    BY <1>1, <2>1, OccurrencesTail
  <2>4. Occurrences(Tail(to_server[k]), r) \in Nat
    BY <2>2, OccurrencesNat
  <2>5. Sent(k, r) >= 1
    BY <2>3, <2>4 DEF Sent
  <2> HIDE DEF r
  <2>6. Sent(k, r) >= 1 => OnTheWay(k, r)
    BY DEF SdkInv, Placed, NotMade, InQueue, Taken, OnTheWay, NothingOn
  <2>7. /\ Sent(k, r) \in Nat /\ executed[r] \in Nat
    BY Counts DEF SdkInv
  <2> QED BY <2>5, <2>6, <2>7 DEF OnTheWay
<1>5. CASE r \in Requests /\ p = x
  <2>1. r \in Connections /\ ~Due(x) /\ Due(x)'
    <3>1. x.kind = "answer" /\ x.of = r
      BY <1>5 DEF Answer
    <3>2. x \in {Answer(j) : j \in Connections}
      BY <3>1 DEF Tracked, News
    <3>3. r \in Connections
      BY <3>1, <3>2 DEF Answer
    <3> HIDE DEF r, p
    <3> QED BY <1>1, <1>2, <1>4, <1>5, <3>1, <3>3 DEF Due
  <2>2. AtNone(x)
    BY <1>2, <2>1 DEF Follows
  <2>3. CASE links[k] = "open"
    <3>1. to_client' = [to_client EXCEPT ![k] = Append(to_client[k], x)]
      BY <1>1, <1>5, <2>3
    <3>2. AtWire(x)' /\ ~AtNone(x)'
      <4> HIDE DEF r, p
      <4> QED BY <1>1, <2>2, <3>1, SentOnce, TrackedAre
    <3> QED BY <2>1, <3>2 DEF Follows
  <2>4. CASE links[k] # "open"
    <3>1. to_client' = to_client
      BY <1>1, <2>4, OnceTypes DEF SdkInv
    <3>2. ~AllOpen'
      BY <1>1, <1>3, <2>4 DEF AllOpen
    <3>3. AtNone(x)'
      BY <1>1, <2>2, <3>1 DEF AtNone, NoneHolds, OnNoWire
    <3> QED BY <2>1, <3>2, <3>3 DEF Follows
  <2> QED BY <2>3, <2>4
<1>6. CASE ~(r \in Requests /\ p = x)
  <2>1. Due(x)' <=> Due(x)
    <3>1. CASE x \in {News(n) : n \in 1..MaxNews}
      BY <1>1, <3>1 DEF Due, News
    <3>2. CASE x \in {Answer(j) : j \in Connections}
      <4>1. PICK j \in Connections : x = Answer(j)
        BY <3>2
      <4>2. j # r /\ j \in Requests
        BY <1>2, <1>6, <4>1
      <4>3. executed'[j] = executed[j]
        <5> HIDE DEF r
        <5> QED BY <1>1, <1>2, <4>2
      <4> QED BY <4>1, <4>3 DEF Due, Answer
    <3> QED BY <3>1, <3>2 DEF Tracked
  <2>2. \A j \in Connections : Occurrences(to_client'[j], x) = Occurrences(to_client[j], x)
    <3>1. CASE links[k] = "open" /\ r \in Requests
      <4>1. p \in Packets /\ p # x
        BY <1>6, <3>1, PacketsAre
      <4>2. to_client' = [to_client EXCEPT ![k] = Append(to_client[k], p)]
        BY <1>1, <3>1
      <4> HIDE DEF r, p
      <4> QED BY <4>1, <4>2, OthersStay
    <3>2. CASE ~(links[k] = "open" /\ r \in Requests)
      <4>1. to_client' = to_client
        BY <1>1, <3>2, OnceTypes DEF SdkInv
      <4> QED BY <4>1
    <3> QED BY <3>1, <3>2
  <2> HIDE DEF r, p
  <2> QED BY <1>1, <1>2, <2>1, <2>2, FollowsOn
<1> QED BY <1>5, <1>6

LEMMA OnceKeeps == SdkInv /\ OrderInv /\ OnceInv /\ [SdkNext]_sdkVars => OnceInv'
<1> SUFFICES ASSUME SdkInv, OrderInv, OnceInv, [SdkNext]_sdkVars PROVE OnceInv'
  OBVIOUS
<1>0. AllOpen' => AllOpen
  BY LostStaysLost
<1>1. ASSUME NEW k \in Connections, Connect(k) \/ ConnectHalfFails(k) PROVE OnceInv'
  <2>1. /\ handlers[k] = "none" /\ listening' = [listening EXCEPT ![k] = NoPacket]
        /\ UNCHANGED <<packet_queue, to_client, executed, pushed, events>>
    BY <1>1 DEF Connect, ConnectHalfFails, TcpConnect
  <2>2. listening[k] = NotStarted
    BY <2>1 DEF OrderInv, Unused
  <2>3. ASSUME NEW x \in Tracked PROVE Follows(x)'
    <3>1. \A j \in Connections : listening'[j] = x <=> listening[j] = x
      BY <2>1, <2>2, TrackedAre, OnceTypes DEF SdkInv
    <3>2. Follows(x) /\ (Due(x)' <=> Due(x))
      BY <2>1 DEF OnceInv, Due
    <3> QED BY <1>0, <2>1, <3>1, <3>2, FollowsOn
  <2> QED BY <2>3 DEF OnceInv
<1>2. ASSUME NEW k \in Connections,
             ConnectFails(k) \/ ConnectStep(k) \/ Listener(k) \/ UdpOutcome(k)
      PROVE  OnceInv'
  BY <1>0, <1>2, TakeOnce, HandleOnce, OnceStays
  DEF ConnectFails, ConnectStep, LoginReturns, AuthReturns, Listener, UdpOutcome, tcpVars
<1>3. ASSUME NEW k \in Connections, TcpTask(k) PROVE OnceInv'
  BY <1>0, <1>3, ReadOnce, OnceStays DEF TcpTask, TcpHandler, WriteOutgoing, WriteFails, ReadEnds
<1>4. ASSUME NEW k \in Connections, Environment(k) PROVE OnceInv'
  BY <1>0, <1>4, PushOnce, AnswerOnce, OnceStays
  DEF Environment, TcpServer, LinkCloses, tcpVars
<1>5. ASSUME NEW r \in Requests, Call(r) \/ TcpTimer(r) PROVE OnceInv'
  BY <1>0, <1>5, OnceStays DEF Call, TcpTimer, RequestTimesOut
<1>6. ASSUME NEW n \in Notices, SendMuteState(n) PROVE OnceInv'
  BY <1>0, <1>6, OnceStays DEF SendMuteState, SendEvent
<1>7. CASE UNCHANGED sdkVars
  BY <1>0, <1>7, OnceStays DEF sdkVars, tcpVars
<1> QED BY <1>1, <1>2, <1>3, <1>4, <1>5, <1>6, <1>7 DEF SdkNext

\* Whatever the number of connections, with a listener each on the one queue, and
\* whatever fails: no packet that the server pushed and no login's answer is
\* shown to the user twice.  While every connection is open none is missing either.
THEOREM EventsComeOnce == SdkSpec => []EventsOnce
<1>1. OnceInv => EventsOnce
  <2> SUFFICES ASSUME OnceInv PROVE EventsOnce
    OBVIOUS
  <2> DEFINE Holding(x) == {k \in Connections : listening[k] = x}
             Wires(x) == {k \in Connections : Occurrences(to_client[k], x) > 0}
  <2>1. Cardinality({}) = 0 /\ \A k \in Connections : Cardinality({k}) = 1
    BY FS_EmptySet, FS_Singleton
  <2>2. ASSUME NEW x \in Tracked
        PROVE  /\ \A k \in Connections : Occurrences(to_client[k], x) <= 1
               /\ Copies(x) <= 1 /\ (Copies(x) = 1 => Due(x))
               /\ AllOpen /\ Due(x) => Copies(x) = 1
    <3>1. NoneHolds(x) => Cardinality(Holding(x)) = 0
      <4>1. NoneHolds(x) => Holding(x) = {}
        BY DEF NoneHolds
      <4> QED BY <2>1, <4>1
    <3>2. OnNoWire(x) => /\ Cardinality(Wires(x)) = 0
                         /\ \A k \in Connections : Occurrences(to_client[k], x) <= 1
      <4>1. OnNoWire(x) => Wires(x) = {}
        BY DEF OnNoWire
      <4> QED BY <2>1, <4>1 DEF OnNoWire
    <3>3. Copies(x) = Occurrences(events, x) + Occurrences(packet_queue, x)
                        + Cardinality(Holding(x)) + Cardinality(Wires(x))
      BY DEF Copies
    <3>4. CASE AtNone(x)
      <4>1. Copies(x) = 0
        <5> HIDE DEF Holding, Wires
        <5> QED BY <3>1, <3>2, <3>3, <3>4 DEF AtNone
      <4> QED BY <3>2, <3>4, <4>1 DEF AtNone, OnceInv, Follows
    <3>5. ASSUME AtWire(x) \/ AtQueue(x) \/ AtListener(x) \/ AtUser(x)
          PROVE  /\ Copies(x) = 1
                 /\ \A k \in Connections : Occurrences(to_client[k], x) <= 1
      <4>1. CASE AtWire(x)
        <5>1. PICK k \in Connections :
                /\ Occurrences(to_client[k], x) = 1
                /\ \A j \in Connections \ {k} : Occurrences(to_client[j], x) = 0
          BY <4>1 DEF AtWire
        <5>2. Wires(x) = {k}
          BY <5>1
        <5>3. Cardinality(Wires(x)) = 1
          BY <2>1, <5>2
        <5>4. \A j \in Connections : Occurrences(to_client[j], x) <= 1
          BY <5>1
        <5> HIDE DEF Holding, Wires
        <5> QED BY <3>1, <3>3, <4>1, <5>3, <5>4 DEF AtWire
      <4>2. CASE AtListener(x)
        <5>1. PICK k \in Connections :
                listening[k] = x /\ \A j \in Connections \ {k} : listening[j] # x
          BY <4>2 DEF AtListener
        <5>2. Holding(x) = {k}
          BY <5>1
        <5>3. Cardinality(Holding(x)) = 1
          BY <2>1, <5>2
        <5> HIDE DEF Holding, Wires
        <5> QED BY <3>2, <3>3, <4>2, <5>3 DEF AtListener
      <4>3. CASE AtQueue(x) \/ AtUser(x)
        <5> HIDE DEF Holding, Wires
        <5> QED BY <3>1, <3>2, <3>3, <4>3 DEF AtQueue, AtUser
      <4> QED BY <3>5, <4>1, <4>2, <4>3
    <3>6. CASE ~AtNone(x)
      <4>1. AtWire(x) \/ AtQueue(x) \/ AtListener(x) \/ AtUser(x)
        BY <3>6 DEF OnceInv, Follows
      <4>2. Due(x)
        BY <3>6 DEF OnceInv, Follows
      <4> QED BY <3>5, <4>1, <4>2
    <3> QED BY <3>4, <3>6
  <2>3. /\ \A n \in 1..MaxNews : News(n) \in Tracked /\ (Due(News(n)) <=> n <= pushed)
        /\ \A k \in Connections : Answer(k) \in Tracked /\ (Due(Answer(k)) <=> executed[k] > 0)
    BY TrackedAre
  <2> QED BY <2>2, <2>3 DEF EventsOnce
<1>2. SdkInv /\ OrderInv /\ OnceInv /\ [SdkNext]_sdkVars => OnceInv'
  BY OnceKeeps
<1>3. SdkInv /\ OrderInv /\ [SdkNext]_sdkVars => OrderInv'
  BY OrderKeeps
<1> QED BY <1>1, <1>2, <1>3, OnceInitially, OrderInitially, SdkInvariant, PTL DEF SdkSpec
=============================================================================
