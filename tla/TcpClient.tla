------------------------------ MODULE TcpClient ------------------------------
(***************************************************************************)
(* sdk/src/network/tcp_client.rs.  All clones of a TcpClient share one     *)
(* send queue and one packet queue; every connect() spawns a handler task  *)
(* that takes from the first, feeds the second and keeps the callbacks of  *)
(* the requests it has sent (pending_responses).  A caller of send_request *)
(* waits for its callback for five seconds.                                *)
(*                                                                         *)
(* A request is its request id.  A link delivers in order until it closes; *)
(* the server at its other end (server/src/management) answers requests in *)
(* order and broadcasts news whenever it likes.  A read brings one packet: *)
(* that it brings more is the same as several reads in a row.              *)
(***************************************************************************)
EXTENDS Naturals, Sequences, FiniteSets

CONSTANTS
    Connections,    \* bound: the connections made, in order
    Requests,       \* bound: request ids of send_request calls
    Notices,        \* bound: packets of send_event, which have no callback
    MaxNews,        \* bound: broadcasts sent, over all connections
    MaxClosed,      \* bound: links that close
    MaxTogether     \* bound: both, and the calls besides the logins, together

ASSUME TcpAssumption ==
    /\ {MaxNews, MaxClosed, MaxTogether} \subseteq Nat
    /\ Requests \subseteq Nat \ {0} /\ Notices \subseteq Nat \ {0}
    /\ Requests \cap Notices = {}

VARIABLES
    send_queue,         \* send_tx .. send_rx
    packet_queue,       \* packet_tx .. packet_rx
    handlers,           \* the task that spawn_handler started
    pending_responses,  \* its callbacks, by request id
    outcome,            \* of each send_request call
    links,              \* the TCP connection
    to_server, to_client, \* packets under way
    executed,           \* how often the server handled each request
    pushed              \* how many news it has sent, over all connections

tcpVars == <<send_queue, packet_queue, handlers, pending_responses, outcome,
             links, to_server, to_client, executed, pushed>>

Answer(r) == [kind |-> "answer", of |-> r]
News(n) == [kind |-> "news", of |-> n]
Packets == [kind : {"answer"}, of : Requests] \cup [kind : {"news"}, of : 1..MaxNews]

TcpTypeOK ==
    /\ send_queue \in Seq(Requests \cup Notices)
    /\ packet_queue \in Seq(Packets)
    /\ handlers \in [Connections -> {"none", "running", "stopped"}]
    /\ pending_responses \in [Connections -> SUBSET Requests]
    /\ outcome \in [Requests -> {"idle", "waiting", "ok", "timeout", "disconnected"}]
    /\ links \in [Connections -> {"none", "open", "closed"}]
    /\ to_server \in [Connections -> Seq(Requests \cup Notices)]
    /\ to_client \in [Connections -> Seq(Packets)]
    /\ executed \in [Requests -> Nat]
    /\ pushed \in 0..MaxNews

TcpInit ==
    /\ send_queue = <<>> /\ packet_queue = <<>>
    /\ handlers = [k \in Connections |-> "none"]
    /\ pending_responses = [k \in Connections |-> {}]
    /\ outcome = [r \in Requests |-> "idle"]
    /\ links = [k \in Connections |-> "none"]
    /\ to_server = [k \in Connections |-> <<>>]
    /\ to_client = [k \in Connections |-> <<>>]
    /\ executed = [r \in Requests |-> 0]
    /\ pushed = 0

\* The bounds leave room for one more broadcast, call or closed link. (The login
\* of connection k is request k.)
Room ==
    pushed + Cardinality({k \in Connections : links[k] = "closed"})
      + Cardinality({r \in Requests \ Connections : outcome[r] # "idle"}) < MaxTogether

-----------------------------------------------------------------------------
(* Callers.                                                                *)

TcpConnect(k) ==
    /\ handlers[k] = "none"
    /\ links' = [links EXCEPT ![k] = "open"]
    /\ handlers' = [handlers EXCEPT ![k] = "running"]
    /\ UNCHANGED <<packet_queue, pending_responses, to_server, to_client,
                   executed, pushed>>

SendRequest(r) ==
    /\ outcome[r] = "idle"
    /\ outcome' = [outcome EXCEPT ![r] = "waiting"]
    /\ send_queue' = Append(send_queue, r)

SendEvent(n) ==
    /\ send_queue' = Append(send_queue, n)
    /\ UNCHANGED <<packet_queue, handlers, pending_responses, outcome, links,
                   to_server, to_client, executed, pushed>>

\* wait_for_response gives up; the queue, the wire and pending_responses keep
\* what they have of the request.
RequestTimesOut(r) ==
    /\ outcome[r] = "waiting"
    /\ outcome' = [outcome EXCEPT ![r] = "timeout"]
    /\ UNCHANGED <<send_queue, packet_queue, handlers, pending_responses, links,
                   to_server, to_client, executed, pushed>>

-----------------------------------------------------------------------------
(* The handler task.                                                       *)

Sending(k) == handlers[k] = "running" /\ send_queue # <<>>

\* The callback that comes with a packet.
Callback(x) == {x} \cap Requests

WriteOutgoing(k) ==
    /\ Sending(k)
    /\ send_queue' = Tail(send_queue)
    /\ pending_responses' = [pending_responses EXCEPT
           ![k] = @ \cup Callback(Head(send_queue))]
    /\ to_server' = [to_server EXCEPT ![k] =
           IF links[k] = "open" THEN Append(@, Head(send_queue)) ELSE @]
    /\ UNCHANGED <<packet_queue, handlers, outcome, links, to_client, executed, pushed>>

\* The task ends and drops the callbacks it holds: their callers are told.
\* Mutant: the callbacks outlive the task, as the UDP client's do.
AbandonedSilently(C) == outcome
Abandoned(C) ==
    [r \in Requests |-> IF r \in C /\ outcome[r] = "waiting"
                        THEN "disconnected" ELSE outcome[r]]

HandlerEnds(k, callbacks) ==
    /\ handlers' = [handlers EXCEPT ![k] = "stopped"]
    /\ pending_responses' = [pending_responses EXCEPT ![k] = {}]
    /\ outcome' = Abandoned(callbacks)

\* The write fails after the packet has left the queue and its callback has
\* been registered.
WriteFails(k) ==
    /\ Sending(k) /\ links[k] = "closed"
    /\ send_queue' = Tail(send_queue)
    /\ HandlerEnds(k, pending_responses[k] \cup Callback(Head(send_queue)))
    /\ UNCHANGED <<packet_queue, links, to_server, to_client, executed, pushed>>

\* End of file, or a read error, which loses what had arrived.
ReadEnds(k) ==
    /\ handlers[k] = "running" /\ links[k] = "closed"
    /\ HandlerEnds(k, pending_responses[k])
    /\ UNCHANGED <<send_queue, packet_queue, links, to_server, to_client,
                   executed, pushed>>

\* The request that a packet answers: Packet::request_id of a response.
\* Mutant: any number at the start of a packet is taken for a request id.
AnswersByNumber(p) == {p.of}
Answers(p) == IF p.kind = "answer" THEN {p.of} ELSE {}

\* Mutant: news overtake the packets that still wait for the listener.
ForwardNewsFirst(p, claimed) ==
    IF p.kind = "news" THEN <<p>> \o packet_queue ELSE Append(packet_queue, p)
Forward(p, claimed) == Append(packet_queue, p)

HandleIncoming(k) ==
    /\ handlers[k] = "running" /\ to_client[k] # <<>>
    /\ LET p == Head(to_client[k])
           claimed == Answers(p) \cap pending_responses[k]
       IN /\ pending_responses' = [pending_responses EXCEPT ![k] = @ \ claimed]
          /\ outcome' = [r \in Requests |->
                 IF r \in claimed /\ outcome[r] = "waiting" THEN "ok" ELSE outcome[r]]
          /\ packet_queue' = Forward(p, claimed)
    /\ to_client' = [to_client EXCEPT ![k] = Tail(@)]
    /\ UNCHANGED <<send_queue, handlers, links, to_server, executed, pushed>>

TcpHandler(k) ==
    WriteOutgoing(k) \/ WriteFails(k) \/ ReadEnds(k) \/ HandleIncoming(k)

-----------------------------------------------------------------------------
(* The server's end, as ManagementServer describes it.                     *)

ServerHandles(k) ==
    /\ to_server[k] # <<>>
    /\ LET r == Head(to_server[k]) IN
       /\ executed' = [q \in Requests |-> executed[q] + IF q = r THEN 1 ELSE 0]
       /\ to_client' = [to_client EXCEPT ![k] =
              IF links[k] = "open" /\ r \in Requests THEN Append(@, Answer(r)) ELSE @]
    /\ to_server' = [to_server EXCEPT ![k] = Tail(@)]
    /\ UNCHANGED <<send_queue, packet_queue, handlers, pending_responses, outcome,
                   links, pushed>>

ServerPushes(k) ==
    /\ links[k] = "open" /\ pushed + 1 \in 1..MaxNews /\ Room
    /\ pushed' = pushed + 1
    /\ to_client' = [to_client EXCEPT ![k] = Append(@, News(pushed + 1))]
    /\ UNCHANGED <<send_queue, packet_queue, handlers, pending_responses, outcome,
                   links, to_server, executed>>

LinkCloses(k) ==
    /\ links[k] = "open" /\ Room
    /\ Cardinality({j \in Connections : links[j] = "closed"}) < MaxClosed
    /\ links' = [links EXCEPT ![k] = "closed"]
    /\ UNCHANGED <<send_queue, packet_queue, handlers, pending_responses, outcome,
                   to_server, to_client, executed, pushed>>

TcpServer(k) == ServerHandles(k) \/ ServerPushes(k)

-----------------------------------------------------------------------------
(* Properties.                                                             *)

Occurrences(s, x) == Cardinality({i \in DOMAIN s : s[i] = x})

\* A caller that waits waits for something: its request is still in the send
\* queue, or one running handler holds its callback and the request, or its
\* answer, is on that handler's link, unless the link is closed and the handler
\* about to find out.  Nobody is left to the timeout by the client itself.
CallbacksAwaited ==
    \A r \in Requests : outcome[r] = "waiting" =>
        LET holders == {k \in Connections : r \in pending_responses[k]} IN
        \/ Occurrences(send_queue, r) = 1 /\ holders = {}
        \/ /\ Occurrences(send_queue, r) = 0
           /\ \E k \in Connections :
                /\ holders = {k} /\ handlers[k] = "running"
                /\ \/ links[k] = "closed"
                   \/ Occurrences(to_server[k], r)
                        + Occurrences(to_client[k], Answer(r)) = 1

\* send_request keeps the promise of Rpc whatever fails: success means that
\* the caller's own request was carried out, and no request, over however many
\* connections, is carried out twice.
TcpRpc == INSTANCE Rpc WITH Calls <- Requests, Limit <- 1,
                            Failures <- {"timeout", "disconnected"}
TcpImplementsRpc == TcpRpc!RpcSpec
=============================================================================
