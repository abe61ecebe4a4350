------------------------------ MODULE SdkClient ------------------------------
(***************************************************************************)
(* Client::connect (sdk/src/client.rs) over the two transports, with the   *)
(* calls of api_client.rs and the event handler.  A user may try again     *)
(* after a connect() has failed, which leaves what it started running, or  *)
(* while it is under way; the desktop pings from its start, connected or   *)
(* not.                                                                    *)
(*                                                                         *)
(* The login of the k-th connect() has request id k.  Its voice            *)
(* authentication is call k of the UDP client, of which this module knows  *)
(* only what UdpClient has been checked to implement: Rpc.                 *)
(***************************************************************************)
EXTENDS TcpClient

ASSUME SdkAssumption ==
    Connections \subseteq Requests /\ Connections \subseteq Nat

VARIABLES
    auth, authenticated, \* the voice authentications: outcome, executed
    connecting,     \* where each connect() is
    listening,      \* the tasks of listen_to_packets
    events          \* event_tx .. event_rx

udpVars == <<auth, authenticated>>
sdkVars == <<tcpVars, udpVars, connecting, listening, events>>

Udp == INSTANCE Rpc WITH Calls <- Connections, Limit <- 1, Failures <- {"timeout"},
                         outcome <- auth, executed <- authenticated

NoPacket == [kind |-> "none", of |-> 0]
NotStarted == [kind |-> "not started", of |-> 0]

SdkTypeOK ==
    /\ TcpTypeOK
    /\ auth \in [Connections -> {"idle", "waiting", "ok", "timeout"}]
    /\ connecting \in [Connections -> {"none", "login", "auth", "ok", "failed"}]
    /\ listening \in [Connections -> Packets \cup {NoPacket, NotStarted}]
    /\ events \in Seq(Packets)

SdkInit ==
    /\ TcpInit /\ Udp!RpcInit
    /\ connecting = [k \in Connections |-> "none"]
    /\ listening = [k \in Connections |-> NotStarted]
    /\ events = <<>>

-----------------------------------------------------------------------------
(* Client::connect.                                                        *)

\* Nothing makes a connect() wait for an earlier one: the login page takes a
\* second submission while the first is under way.
MayConnect(k) ==
    /\ connecting[k] = "none"
    /\ \A j \in Connections : j < k => connecting[j] # "none"

\* TcpStream::connect fails or times out.
ConnectFails(k) ==
    /\ MayConnect(k)
    /\ connecting' = [connecting EXCEPT ![k] = "failed"]
    /\ UNCHANGED <<tcpVars, udpVars, listening, events>>

\* Up to the first await that takes long: both handlers and the listener
\* started, the login in the send queue.
Connect(k) ==
    /\ MayConnect(k)
    /\ TcpConnect(k) /\ SendRequest(k)
    /\ listening' = [listening EXCEPT ![k] = NoPacket]
    /\ connecting' = [connecting EXCEPT ![k] = "login"]
    /\ UNCHANGED <<udpVars, events>>

\* UdpSocket::bind fails: the TCP side has been started all the same.
ConnectHalfFails(k) ==
    /\ MayConnect(k)
    /\ TcpConnect(k) /\ UNCHANGED <<send_queue, outcome>>
    /\ listening' = [listening EXCEPT ![k] = NoPacket]
    /\ connecting' = [connecting EXCEPT ![k] = "failed"]
    /\ UNCHANGED <<udpVars, events>>

LoginReturns(k) ==
    /\ connecting[k] = "login" /\ outcome[k] \notin {"idle", "waiting"}
    /\ IF outcome[k] = "ok"
       THEN Udp!Ask(k) /\ connecting' = [connecting EXCEPT ![k] = "auth"]
       ELSE connecting' = [connecting EXCEPT ![k] = "failed"] /\ UNCHANGED udpVars
    /\ UNCHANGED <<tcpVars, listening, events>>

AuthReturns(k) ==
    /\ connecting[k] = "auth" /\ auth[k] \notin {"idle", "waiting"}
    /\ connecting' = [connecting EXCEPT ![k] = IF auth[k] = "ok" THEN "ok" ELSE "failed"]
    /\ UNCHANGED <<tcpVars, udpVars, listening, events>>

-----------------------------------------------------------------------------
(* The other calls of ApiClient.                                           *)

\* ping, and once connected join_channel, leave_channel and send_message.
Call(r) ==
    /\ r \notin Connections /\ Room /\ SendRequest(r)
    /\ UNCHANGED <<packet_queue, handlers, pending_responses, links, to_server,
                   to_client, executed, pushed, udpVars, connecting, listening, events>>

\* send_mute_state, by a user who is connected; bound: one such packet waiting.
SendMuteState(n) ==
    /\ \E k \in Connections : connecting[k] = "ok"
    /\ Occurrences(send_queue, n) = 0
    /\ \A k \in Connections : Occurrences(to_server[k], n) = 0
    /\ SendEvent(n)
    /\ UNCHANGED <<udpVars, connecting, listening, events>>

-----------------------------------------------------------------------------
(* EventHandler::listen_to_packets.                                        *)

\* All listeners take from one queue, and a packet from one of them goes to none
\* of the others.
\* Mutant: every listener sees every packet.
PacketsLeftForOthers(k) ==
    IF \E j \in Connections \ {k} : listening[j] = NoPacket
    THEN packet_queue ELSE Tail(packet_queue)
PacketsLeft(k) == Tail(packet_queue)

TakePacket(k) ==
    /\ listening[k] = NoPacket /\ packet_queue # <<>>
    /\ listening' = [listening EXCEPT ![k] = Head(packet_queue)]
    /\ packet_queue' = PacketsLeft(k)
    /\ UNCHANGED <<send_queue, handlers, pending_responses, outcome, links,
                   to_server, to_client, executed, pushed, udpVars, connecting, events>>

\* handle_packet: every news and every login response is an event.
IsEvent(p) == p.kind = "news" \/ p.of \in Connections

HandlePacket(k) ==
    /\ listening[k] \notin {NotStarted, NoPacket}
    /\ events' = IF IsEvent(listening[k]) THEN Append(events, listening[k]) ELSE events
    /\ listening' = [listening EXCEPT ![k] = NoPacket]
    /\ UNCHANGED <<tcpVars, udpVars, connecting>>

-----------------------------------------------------------------------------
ConnectStep(k) == LoginReturns(k) \/ AuthReturns(k)
Listener(k) == TakePacket(k) \/ HandlePacket(k)
TcpTask(k) == TcpHandler(k) /\ UNCHANGED <<udpVars, connecting, listening, events>>
TcpTimer(r) == RequestTimesOut(r) /\ UNCHANGED <<udpVars, connecting, listening, events>>

\* Its callers always get an outcome from the UDP client (UdpReturns).
UdpOutcome(k) ==
    /\ Udp!Succeed(k) \/ Udp!Fail({k})
    /\ UNCHANGED <<tcpVars, connecting, listening, events>>

Environment(k) ==
    /\ \/ (TcpServer(k) \/ LinkCloses(k)) /\ UNCHANGED udpVars
       \/ Udp!Execute(k) /\ UNCHANGED tcpVars
    /\ UNCHANGED <<connecting, listening, events>>

SdkNext ==
    \/ \E k \in Connections :
         \/ Connect(k) \/ ConnectFails(k) \/ ConnectHalfFails(k) \/ ConnectStep(k)
         \/ Listener(k) \/ TcpTask(k) \/ UdpOutcome(k) \/ Environment(k)
    \/ \E r \in Requests : Call(r) \/ TcpTimer(r)
    \/ \E n \in Notices : SendMuteState(n)

SdkSpec == SdkInit /\ [][SdkNext]_sdkVars

-----------------------------------------------------------------------------
(* Properties.                                                             *)

\* The news in s are those from a + 1 to b, in this order.
Shows(s, a, b) ==
    /\ \A i \in DOMAIN s : s[i].kind = "news" => s[i].of \in (a + 1)..b
    /\ \A n \in (a + 1)..b : \E i \in DOMAIN s : s[i] = News(n)
    /\ \A i, j \in DOMAIN s :
          i < j /\ s[i].kind = "news" /\ s[j].kind = "news" => s[i].of < s[j].of

Held(k) == IF listening[k] \in {NotStarted, NoPacket} THEN <<>> ELSE <<listening[k]>>

\* How often a packet is shown, or still on its way to be.
Copies(x) ==
    Occurrences(events, x) + Occurrences(packet_queue, x)
        + Cardinality({k \in Connections : listening[k] = x})
        + Cardinality({k \in Connections : Occurrences(to_client[k], x) > 0})

\* No connection has been lost.
AllOpen == \A k \in Connections :
    handlers[k] = "none" \/ (handlers[k] = "running" /\ links[k] = "open")

\* However many connections there are, with however many listeners on the one
\* queue, no packet that the server pushed and no login's answer is shown twice;
\* while all connections are open, none is missing either.  (A broadcast that the
\* server sends over two connections is two packets.)
EventsOnce ==
    LET Once(x, sent) ==
            /\ \A k \in Connections : Occurrences(to_client[k], x) <= 1
            /\ Copies(x) <= 1 /\ (Copies(x) = 1 => sent)
            /\ AllOpen /\ sent => Copies(x) = 1
    IN /\ \A n \in 1..MaxNews : Once(News(n), n <= pushed)
       /\ \A k \in Connections : Once(Answer(k), executed[k] > 0)

\* As long as there has been one connection, what its user has been shown, and
\* what is still on its way there, is what the server sent: in order, without
\* a gap or a repetition, whatever was asked and answered meanwhile.
EventsInOrder ==
    \A k \in Connections :
        (/\ handlers[k] = "running" /\ links[k] = "open"
         /\ \A j \in Connections \ {k} : handlers[j] = "none") =>
            Shows(events \o Held(k) \o packet_queue \o to_client[k], 0, pushed)
=============================================================================
