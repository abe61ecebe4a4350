------------------------------ MODULE UdpProofs ------------------------------
(* Theorems about the UDP client.                                           *)
EXTENDS UdpClient, TLAPS

\* The invariant that carries the others: the attempts that a call has made in
\* each phase, and that only requests that were made are under way.
Attempts ==
    \A r \in AuthRequests :
        /\ auth[r] = "idle" => attempt[r] = 0
        /\ auth[r] \in {"waiting", "expired"} => attempt[r] > 0
        /\ auth[r] = "sleeping" => attempt[r] < MAX_RETRY_ATTEMPTS

Asked ==
    /\ \A i \in 1..Len(udp_queue) : auth[udp_queue[i]] # "idle"
    /\ \A k \in Sockets, r \in AuthRequests : <<k, r>> \in datagrams => auth[r] # "idle"

UdpInv == UdpTypeOK /\ Attempts /\ Asked /\ CurrentCallback

LEMMA UdpInitially == UdpInit => UdpInv
BY UdpAssumption DEF UdpInit, UdpInv, UdpTypeOK, Attempts, Asked, CurrentCallback

\* An attempt by a call that may make one.
LEMMA AttemptKeeps ==
    ASSUME UdpInv, NEW r \in AuthRequests, auth[r] \in {"idle", "sleeping"}, Attempt(r)
    PROVE  UdpInv'
<1> USE DEF UdpInv, Attempt
<1>1. attempt[r] + 1 \in 1..MAX_RETRY_ATTEMPTS
  BY UdpAssumption DEF UdpTypeOK, Attempts
<1>2. UdpTypeOK'
  <2>1. udp_queue' \in Seq(AuthRequests)
    BY DEF UdpTypeOK
  <2> QED BY <1>1, <2>1 DEF UdpTypeOK
<1>3. Attempts'
  BY <1>1 DEF UdpTypeOK, Attempts
<1>4. Asked'
  BY DEF UdpTypeOK, Asked
<1>5. CurrentCallback'
  BY <1>1 DEF UdpTypeOK, CurrentCallback
<1> QED BY <1>2, <1>3, <1>4, <1>5

\* Taking a request from the queue.
LEMMA Dequeued ==
    ASSUME UdpTypeOK, Asked, udp_queue # <<>>
    PROVE  /\ Head(udp_queue) \in AuthRequests /\ auth[Head(udp_queue)] # "idle"
           /\ Tail(udp_queue) \in Seq(AuthRequests)
           /\ \A i \in 1..Len(Tail(udp_queue)) : auth[Tail(udp_queue)[i]] # "idle"
<1>1. udp_queue \in Seq(AuthRequests) /\ Len(udp_queue) > 0
  BY DEF UdpTypeOK
<1>2. /\ Head(udp_queue) = udp_queue[1]
      /\ Tail(udp_queue) \in Seq(AuthRequests)
      /\ \A i \in 1..Len(Tail(udp_queue)) :
           i + 1 \in 1..Len(udp_queue) /\ Tail(udp_queue)[i] = udp_queue[i + 1]
  BY <1>1
<1> QED BY <1>1, <1>2 DEF Asked

LEMMA UdpKeeps == UdpInv /\ [UdpNext]_udpVars => UdpInv'
<1> SUFFICES ASSUME UdpInv, [UdpNext]_udpVars PROVE UdpInv'
  OBVIOUS
<1> USE DEF UdpInv
<1>1. ASSUME NEW k \in Sockets, UdpConnect(k) PROVE UdpInv'
  BY <1>1 DEF UdpConnect, UdpTypeOK, Attempts, Asked, CurrentCallback
<1>2. ASSUME NEW k \in Sockets, SocketFails(k) PROVE UdpInv'
  <2>0. udp_queue' = udp_queue \/ (udp_queue # <<>> /\ udp_queue' = Tail(udp_queue))
    BY <1>2 DEF SocketFails
  <2>1. UdpTypeOK'
    BY <1>2, <2>0, Dequeued DEF SocketFails, UdpTypeOK
  <2>2. Asked'
    BY <1>2, <2>0, Dequeued DEF SocketFails, Asked
  <2> QED BY <1>2, <2>1, <2>2 DEF SocketFails, Attempts, CurrentCallback
<1>3. ASSUME NEW k \in Sockets, SendDatagram(k) PROVE UdpInv'
  <2>1. udp_queue # <<>>
    BY <1>3 DEF SendDatagram
  <2>2. UdpTypeOK'
    BY <1>3, <2>1, Dequeued DEF SendDatagram, UdpTypeOK
  <2>3. Asked'
    BY <1>3, <2>1, Dequeued DEF SendDatagram, Asked
  <2> QED BY <1>3, <2>2, <2>3 DEF SendDatagram, Attempts, CurrentCallback
<1>4. ASSUME NEW k \in Sockets, NEW r \in AuthRequests, ReceiveDatagram(k, r)
      PROVE  UdpInv'
  <2>1. UdpTypeOK'
    <3>1. pending_requests' \in [AuthRequests -> 0..MAX_RETRY_ATTEMPTS]
      BY <1>4, UdpAssumption DEF ReceiveDatagram, UdpTypeOK
    <3> QED BY <1>4, <3>1 DEF ReceiveDatagram, UdpTypeOK
  <2>2. \A q \in AuthRequests : auth'[q] = auth[q] \/ (q = r /\ auth'[q] = "ok")
    BY <1>4 DEF ReceiveDatagram, UdpTypeOK
  <2>3. Attempts' /\ Asked'
    BY <1>4, <2>2 DEF ReceiveDatagram, UdpTypeOK, Attempts, Asked
  <2>4. CurrentCallback'
    BY <1>4, UdpAssumption
    DEF ReceiveDatagram, Taken, UdpTypeOK, Attempts, CurrentCallback
  <2> QED BY <2>1, <2>3, <2>4
<1>5. ASSUME NEW k \in Sockets, NEW r \in AuthRequests, RelayAuthenticates(k, r)
      PROVE  UdpInv'
  BY <1>5 DEF RelayAuthenticates, UdpTypeOK, Attempts, Asked, CurrentCallback
<1>6. ASSUME NEW r \in AuthRequests, FirstAttempt(r) \/ Retry(r) PROVE UdpInv'
  BY <1>6, AttemptKeeps DEF FirstAttempt, Retry
<1>7. ASSUME NEW r \in AuthRequests, AttemptExpires(r) PROVE UdpInv'
  BY <1>7 DEF AttemptExpires, UdpTypeOK, Attempts, Asked, CurrentCallback
<1>8. ASSUME NEW r \in AuthRequests, CleanUp(r) PROVE UdpInv'
  <2>1. UdpTypeOK'
    BY <1>8, UdpAssumption DEF CleanUp, Cleaned, AfterExpiry, UdpTypeOK
  <2>2. Attempts' /\ Asked'
    BY <1>8 DEF CleanUp, AfterExpiry, UdpTypeOK, Attempts, Asked
  <2>3. CurrentCallback'
    BY <1>8 DEF CleanUp, Cleaned, AfterExpiry, UdpTypeOK, CurrentCallback
  <2> QED BY <2>1, <2>2, <2>3
<1>9. CASE UNCHANGED udpVars
  BY <1>9 DEF udpVars, UdpTypeOK, Attempts, Asked, CurrentCallback
<1> QED
  BY <1>1, <1>2, <1>3, <1>4, <1>5, <1>6, <1>7, <1>8, <1>9
  DEF UdpNext, UdpHandler, UdpCaller

LEMMA UdpInvariant == UdpSpec => []UdpInv
BY UdpInitially, UdpKeeps, PTL DEF UdpSpec

\* The state of the UDP client keeps its type; in particular no call is tried
\* more than MAX_RETRY_ATTEMPTS times.
THEOREM UdpTypeCorrect == UdpSpec => []UdpTypeOK
BY UdpInvariant, PTL DEF UdpInv

\* A waiting caller can always be reached, and a call that is over leaves no
\* callback behind, for any number of sockets, requests and attempts.
THEOREM CallbackIsCurrent == UdpSpec => []CurrentCallback
BY UdpInvariant, PTL DEF UdpInv

-----------------------------------------------------------------------------
(* The refinement of Rpc.                                                  *)

LEMMA RpcInitially == UdpInit => UdpRpc!RpcInit
BY DEF UdpInit, UdpRpc!RpcInit, UdpOutcome, Authenticated

LEMMA RpcSteps == UdpInv /\ [UdpNext]_udpVars => [UdpRpc!RpcNext]_(UdpRpc!rpcVars)
<1> SUFFICES ASSUME UdpInv, [UdpNext]_udpVars
             PROVE  UdpRpc!RpcNext \/ UNCHANGED <<UdpOutcome, Authenticated>>
  BY DEF UdpRpc!rpcVars
<1> USE DEF UdpInv
<1>0. ASSUME UNCHANGED <<auth, answers>> PROVE UNCHANGED <<UdpOutcome, Authenticated>>
  BY <1>0 DEF UdpOutcome, Authenticated
<1>1. ASSUME NEW r \in AuthRequests, UNCHANGED answers,
             UdpOutcome[r] = "idle", UdpOutcome' = [UdpOutcome EXCEPT ![r] = "waiting"]
      PROVE  UdpRpc!RpcNext
  <2>1. UNCHANGED Authenticated
    BY <1>1 DEF Authenticated
  <2> QED BY <1>1, <2>1 DEF UdpRpc!RpcNext, UdpRpc!Ask
<1>2. ASSUME NEW r \in AuthRequests, FirstAttempt(r) PROVE UdpRpc!RpcNext
  <2>1. UdpOutcome[r] = "idle" /\ UdpOutcome' = [UdpOutcome EXCEPT ![r] = "waiting"]
    BY <1>2 DEF FirstAttempt, Attempt, UdpOutcome, UdpTypeOK
  <2> QED BY <1>1, <1>2, <2>1 DEF FirstAttempt, Attempt
<1>3. ASSUME NEW r \in AuthRequests, Retry(r) \/ AttemptExpires(r)
      PROVE  UNCHANGED <<UdpOutcome, Authenticated>>
  BY <1>3 DEF Retry, Attempt, AttemptExpires, UdpOutcome, Authenticated, UdpTypeOK
<1>4. ASSUME NEW r \in AuthRequests, CleanUp(r)
      PROVE  UdpRpc!RpcNext \/ UNCHANGED <<UdpOutcome, Authenticated>>
  <2>1. UNCHANGED Authenticated
    BY <1>4 DEF CleanUp, Authenticated
  <2>2. CASE AfterExpiry(r) = "sleeping"
    BY <1>4, <2>1, <2>2 DEF CleanUp, UdpOutcome, UdpTypeOK
  <2>3. CASE AfterExpiry(r) = "timeout"
    <3>1. UdpOutcome[r] = "waiting"
      BY <1>4 DEF CleanUp, UdpOutcome
    <3>2. UdpOutcome' = [c \in AuthRequests |->
                            IF c \in {r} THEN "timeout" ELSE UdpOutcome[c]]
      BY <1>4, <2>3 DEF CleanUp, UdpOutcome, UdpTypeOK
    <3>3. UdpRpc!Fail({r})
      BY <2>1, <3>1, <3>2 DEF UdpRpc!Fail
    <3> QED BY <3>3 DEF UdpRpc!RpcNext
  <2> QED BY <2>2, <2>3 DEF AfterExpiry
<1>5. ASSUME NEW k \in Sockets, NEW r \in AuthRequests, ReceiveDatagram(k, r)
      PROVE  UdpRpc!RpcNext \/ UNCHANGED <<UdpOutcome, Authenticated>>
  <2>1. UNCHANGED Authenticated
    BY <1>5 DEF ReceiveDatagram, Authenticated
  <2>2. CASE ~Taken(r)
    BY <1>5, <2>1, <2>2 DEF ReceiveDatagram, UdpOutcome, UdpTypeOK
  <2>3. CASE Taken(r)
    <3>1. UdpOutcome[r] = "waiting" /\ Authenticated[r] > 0
      BY <1>5, <2>3 DEF ReceiveDatagram, Taken, UdpOutcome, Authenticated
    <3>2. UdpOutcome' = [UdpOutcome EXCEPT ![r] = "ok"]
      BY <1>5, <2>3 DEF ReceiveDatagram, UdpOutcome, UdpTypeOK
    <3>3. UdpRpc!Succeed(r)
      BY <2>1, <3>1, <3>2 DEF UdpRpc!Succeed
    <3> QED BY <3>3 DEF UdpRpc!RpcNext
  <2> QED BY <2>2, <2>3
<1>6. ASSUME NEW k \in Sockets, NEW r \in AuthRequests, RelayAuthenticates(k, r)
      PROVE  UdpRpc!RpcNext \/ UNCHANGED <<UdpOutcome, Authenticated>>
  <2>1. UNCHANGED UdpOutcome /\ UdpOutcome[r] # "idle"
    BY <1>6 DEF RelayAuthenticates, UdpOutcome, Asked
  <2>2. CASE Authenticated[r] = 1
    <3>1. UNCHANGED Authenticated
      BY <1>6, <2>2 DEF RelayAuthenticates, Authenticated
    <3> QED BY <2>1, <3>1
  <2>3. CASE Authenticated[r] = 0
    <3>1. Authenticated' = [Authenticated EXCEPT ![r] = @ + 1]
      <4>1. /\ <<k, r>> \in answers'
            /\ \A q \in AuthRequests \ {r}, j \in Sockets :
                 <<j, q>> \in answers' <=> <<j, q>> \in answers
        BY <1>6 DEF RelayAuthenticates
      <4>2. \A q \in AuthRequests : Authenticated'[q] =
                IF q = r THEN 1 ELSE Authenticated[q]
        BY <4>1 DEF Authenticated
      <4>3. /\ Authenticated' = [q \in AuthRequests |-> Authenticated'[q]]
            /\ Authenticated = [q \in AuthRequests |-> Authenticated[q]]
        BY DEF Authenticated
      <4> HIDE DEF UdpInv
      <4> QED BY <2>3, <4>2, <4>3
    <3>2. UdpRpc!Execute(r)
      BY <2>1, <2>3, <3>1 DEF UdpRpc!Execute
    <3> QED BY <3>2 DEF UdpRpc!RpcNext
  <2> QED BY <2>2, <2>3 DEF Authenticated
<1>7. ASSUME NEW k \in Sockets, UdpConnect(k) \/ SocketFails(k) \/ SendDatagram(k)
      PROVE  UNCHANGED <<auth, answers>>
  BY <1>7 DEF UdpConnect, SocketFails, SendDatagram
<1> QED
  BY <1>0, <1>2, <1>3, <1>4, <1>5, <1>6, <1>7
  DEF UdpNext, UdpHandler, UdpCaller, udpVars

\* Whatever is lost, repeated or late, a voice authentication that succeeds was
\* answered by the relay, and its caller is never told of anything else after.
THEOREM UdpRefinesRpc == UdpSpec => UdpImplementsRpc
<1>1. UdpSpec => UdpRpc!RpcInit /\ [][UdpRpc!RpcNext]_(UdpRpc!rpcVars)
  BY UdpInvariant, RpcInitially, RpcSteps, PTL DEF UdpSpec
<1> QED BY <1>1 DEF UdpImplementsRpc, UdpRpc!RpcSpec
=============================================================================
