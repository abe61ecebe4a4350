------------------------------ MODULE UdpClient ------------------------------
(***************************************************************************)
(* sdk/src/network/udp_client.rs.  Like the TcpClient's, its handlers take *)
(* from one queue; unlike the TcpClient's, they share pending_requests. A  *)
(* request is sent at most MAX_RETRY_ATTEMPTS times under one request id,  *)
(* each attempt with a callback and a timeout of its own.                  *)
(*                                                                         *)
(* The network is the set of datagrams ever sent: one that is never        *)
(* received is lost, one received twice was repeated.  The relay           *)
(* (server/src/voice) may answer a request any number of times; a denial   *)
(* is not among its answers, it ignores a token that it does not know.     *)
(* Voice data passes the handlers without touching this state.             *)
(***************************************************************************)
EXTENDS Naturals, Sequences, FiniteSets

CONSTANTS Sockets, AuthRequests, MAX_RETRY_ATTEMPTS

ASSUME UdpAssumption == MAX_RETRY_ATTEMPTS \in Nat \ {0}

VARIABLES
    udp_queue,        \* send_tx .. send_rx
    udp_handlers,     \* the task of each socket
    pending_requests, \* per request, the attempt whose callback is registered
    attempt,          \* the loop variable of send_request_with_response
    auth,             \* where that function is
    datagrams,        \* requests sent, with the socket they came from
    answers           \* the relay's answers, with the socket they go to

udpVars == <<udp_queue, udp_handlers, pending_requests, attempt, auth, datagrams, answers>>

UdpTypeOK ==
    /\ udp_queue \in Seq(AuthRequests)
    /\ udp_handlers \in [Sockets -> {"none", "running", "stopped"}]
    /\ pending_requests \in [AuthRequests -> 0..MAX_RETRY_ATTEMPTS]
    /\ attempt \in [AuthRequests -> 0..MAX_RETRY_ATTEMPTS]
    /\ auth \in [AuthRequests -> {"idle", "waiting", "expired", "sleeping", "ok", "timeout"}]
    /\ answers \subseteq datagrams /\ datagrams \subseteq Sockets \X AuthRequests

UdpInit ==
    /\ udp_queue = <<>>
    /\ udp_handlers = [k \in Sockets |-> "none"]
    /\ pending_requests = [r \in AuthRequests |-> 0]
    /\ attempt = [r \in AuthRequests |-> 0]
    /\ auth = [r \in AuthRequests |-> "idle"]
    /\ datagrams = {} /\ answers = {}

-----------------------------------------------------------------------------
(* The caller: send_request_with_response.                                 *)

UdpConnect(k) ==
    /\ udp_handlers[k] = "none"
    /\ udp_handlers' = [udp_handlers EXCEPT ![k] = "running"]
    /\ UNCHANGED <<udp_queue, pending_requests, attempt, auth, datagrams, answers>>

\* One attempt: register a callback, queue the request, and wait.
Attempt(r) ==
    /\ attempt' = [attempt EXCEPT ![r] = @ + 1]
    /\ pending_requests' = [pending_requests EXCEPT ![r] = attempt[r] + 1]
    /\ udp_queue' = Append(udp_queue, r)
    /\ auth' = [auth EXCEPT ![r] = "waiting"]
    /\ UNCHANGED <<udp_handlers, datagrams, answers>>

\* connect() has opened a socket first.
FirstAttempt(r) ==
    /\ auth[r] = "idle" /\ \E k \in Sockets : udp_handlers[k] # "none"
    /\ Attempt(r)
Retry(r) == auth[r] = "sleeping" /\ Attempt(r)

\* The timer fires, which drops the callback's receiver; only the next step
\* takes the callback out of pending_requests.
AttemptExpires(r) ==
    /\ auth[r] = "waiting"
    /\ auth' = [auth EXCEPT ![r] = "expired"]
    /\ UNCHANGED <<udp_queue, udp_handlers, pending_requests, attempt, datagrams, answers>>

\* Mutant: the callback is only taken out before another attempt.
CleanBeforeRetry(r) ==
    IF attempt[r] < MAX_RETRY_ATTEMPTS
    THEN [pending_requests EXCEPT ![r] = 0] ELSE pending_requests
Cleaned(r) == [pending_requests EXCEPT ![r] = 0]

\* Mutant: a loop that does not end.
NeverGivesUp(r) == IF attempt[r] < MAX_RETRY_ATTEMPTS THEN "sleeping" ELSE "expired"
AfterExpiry(r) == IF attempt[r] < MAX_RETRY_ATTEMPTS THEN "sleeping" ELSE "timeout"

CleanUp(r) ==
    /\ auth[r] = "expired"
    /\ pending_requests' = Cleaned(r)
    /\ auth' = [auth EXCEPT ![r] = AfterExpiry(r)]
    /\ UNCHANGED <<udp_queue, udp_handlers, attempt, datagrams, answers>>

UdpCaller(r) == Retry(r) \/ AttemptExpires(r) \/ CleanUp(r)

-----------------------------------------------------------------------------
(* The handler task.                                                       *)

SendDatagram(k) ==
    /\ udp_handlers[k] = "running" /\ udp_queue # <<>>
    /\ datagrams' = datagrams \cup {<<k, Head(udp_queue)>>}
    /\ udp_queue' = Tail(udp_queue)
    /\ UNCHANGED <<udp_handlers, pending_requests, attempt, auth, answers>>

\* The callback goes to whichever attempt is registered, also when the answer
\* is to an earlier one; without a callback, or a receiver, the answer is lost.
\* Mutant: an answer is handed to the caller whether or not it still waits.
TakenAnyway(r) == attempt[r] > 0
Taken(r) == pending_requests[r] # 0 /\ auth[r] = "waiting"

ReceiveDatagram(k, r) ==
    /\ udp_handlers[k] = "running" /\ <<k, r>> \in answers
    /\ pending_requests' = [pending_requests EXCEPT ![r] = 0]
    /\ auth' = [auth EXCEPT ![r] = IF Taken(r) THEN "ok" ELSE @]
    /\ UNCHANGED <<udp_queue, udp_handlers, attempt, datagrams, answers>>

\* Any datagram that does not decode ends the task, and so does a send or
\* receive error, such as the port being reported unreachable.
SocketFails(k) ==
    /\ udp_handlers[k] = "running"
    /\ udp_handlers' = [udp_handlers EXCEPT ![k] = "stopped"]
    /\ \/ UNCHANGED udp_queue
       \/ udp_queue # <<>> /\ udp_queue' = Tail(udp_queue)
    /\ UNCHANGED <<pending_requests, attempt, auth, datagrams, answers>>

UdpHandler(k) ==
    SendDatagram(k) \/ (\E r \in AuthRequests : ReceiveDatagram(k, r))

\* VoiceRelayServer::authenticate, for a token that it knows.
RelayAuthenticates(k, r) ==
    /\ <<k, r>> \in datagrams /\ <<k, r>> \notin answers
    /\ answers' = answers \cup {<<k, r>>}
    /\ UNCHANGED <<udp_queue, udp_handlers, pending_requests, attempt, auth, datagrams>>

-----------------------------------------------------------------------------
UdpNext ==
    \/ \E k \in Sockets :
         \/ UdpConnect(k) \/ UdpHandler(k) \/ SocketFails(k)
         \/ \E r \in AuthRequests : RelayAuthenticates(k, r)
    \/ \E r \in AuthRequests : FirstAttempt(r) \/ UdpCaller(r)

UdpSpec == UdpInit /\ [][UdpNext]_udpVars

\* A timer fires and the caller goes on; network, relay and handlers owe
\* nothing.
UdpFairSpec == UdpSpec /\ \A r \in AuthRequests : WF_udpVars(UdpCaller(r))

-----------------------------------------------------------------------------
(* Properties.                                                             *)

\* While a caller waits, the callback that pending_requests holds is that of
\* its current attempt, so that an answer that arrives now reaches it, also
\* when the handler, another attempt's timer and an older answer raced; and
\* no callback stays behind when the call is over.
CurrentCallback ==
    \A r \in AuthRequests :
        /\ auth[r] = "waiting" => pending_requests[r] = attempt[r]
        /\ auth[r] \in {"idle", "sleeping", "ok", "timeout"} => pending_requests[r] = 0

\* A call that succeeds has been answered by the relay, and the outcome of a
\* call never changes afterwards.
UdpOutcome ==
    [r \in AuthRequests |-> IF auth[r] \in {"expired", "sleeping"}
                            THEN "waiting" ELSE auth[r]]
Authenticated ==
    [r \in AuthRequests |-> IF \E k \in Sockets : <<k, r>> \in answers THEN 1 ELSE 0]
UdpRpc == INSTANCE Rpc WITH Calls <- AuthRequests, Limit <- 1, Failures <- {"timeout"},
                            outcome <- UdpOutcome, executed <- Authenticated
UdpImplementsRpc == UdpRpc!RpcSpec

\* Every call returns, though every datagram may be lost.
UdpReturns == \A r \in AuthRequests : auth[r] = "waiting" ~> auth[r] \in {"ok", "timeout"}
=============================================================================
