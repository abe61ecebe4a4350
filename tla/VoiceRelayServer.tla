-------------------------- MODULE VoiceRelayServer --------------------------
(***************************************************************************)
(* The UDP side of the server (server/src/voice/server.rs) and the UDP     *)
(* side of the clients (sdk: ApiClient::authenticate_voice, UdpClient).    *)
(*                                                                         *)
(* VoiceRelayServer::run is one task: it handles one event or one datagram *)
(* at a time, and only it touches `sessions` and `ids_by_addresses`.       *)
(*                                                                         *)
(* UDP loses, duplicates and reorders.  datagrams_in and datagrams_out are *)
(* the sets of all datagrams ever sent: one may be handled never, once or  *)
(* many times, at any later moment.                                        *)
(***************************************************************************)
EXTENDS EventChannel

CONSTANTS
    UdpAddresses,   \* source addresses of datagrams, as the relay sees them
    UdpAddrOf       \* UdpAddrOf[h]: those of the client of user h (more than
                    \* one when a NAT gives its socket a new mapping)

ASSUME RelayAssumption ==
    /\ NoAddress \notin UdpAddresses
    /\ UdpAddrOf \in [UserIds -> SUBSET UdpAddresses]
    /\ \A h, k \in UserIds : h # k => UdpAddrOf[h] \cap UdpAddrOf[k] = {}

VARIABLES
    sessions,           \* DashMap<u64, VoiceSession>
    ids_by_addresses,   \* DashMap<SocketAddr, u64>; 0 where there is no entry
    relay,              \* "running", or "panicked" once an unwrap() has failed
    datagrams_in,       \* all datagrams clients have sent
    datagrams_out,      \* all datagrams the relay has sent
    authed              \* has authenticate_voice returned Ok, per client?

serverVars == <<sessions, ids_by_addresses, relay>>
udpVars == <<datagrams_in, datagrams_out, authed>>
relayVars == <<serverVars, udpVars>>

-----------------------------------------------------------------------------
VoiceSession == [token : Tokens, in_voice : BOOLEAN,
                 udp_address : UdpAddresses \cup {NoAddress}]
NewSession(t) == [token |-> t, in_voice |-> FALSE, udp_address |-> NoAddress]
NoSession == NewSession(0)

\* Speaker is not in a VoiceData packet: it records whose voice is in `data`.
DatagramIn == [type : {"VoiceAuthRequest", "VoiceData"}, from : UdpAddresses,
               token : Tokens, speaker : 0..MaxUsers]
VoiceAuthRequest(a, t) ==
    [type |-> "VoiceAuthRequest", from |-> a, token |-> t, speaker |-> 0]
VoiceDataFrom(a, h) ==
    [type |-> "VoiceData", from |-> a, token |-> 0, speaker |-> h]

DatagramOut == [type : {"VoiceAuthResponse", "VoiceData"}, to : UdpAddresses,
                user_id : 0..MaxUsers, speaker : 0..MaxUsers]
VoiceAuthResponse(a) ==
    [type |-> "VoiceAuthResponse", to |-> a, user_id |-> 0, speaker |-> 0]
VoiceDataTo(a, u, h) ==
    [type |-> "VoiceData", to |-> a, user_id |-> u, speaker |-> h]

RelayTypeOK ==
    /\ sessions \in [UserIds -> VoiceSession]
    /\ ids_by_addresses \in [UdpAddresses -> 0..MaxUsers]
    /\ relay \in {"running", "panicked"}
    /\ datagrams_in \subseteq DatagramIn
    /\ datagrams_out \subseteq DatagramOut
    /\ authed \in [UserIds -> BOOLEAN]

RelayInit ==
    /\ sessions = [h \in UserIds |-> NoSession]
    /\ ids_by_addresses = [a \in UdpAddresses |-> 0]
    /\ relay = "running"
    /\ datagrams_in = {} /\ datagrams_out = {}
    /\ authed = [h \in UserIds |-> FALSE]

-----------------------------------------------------------------------------
(* Events from the management server.                                      *)

\* The relay receives the oldest event, and it is one of this type.
Receives(type) ==
    /\ relay = "running"
    /\ events # <<>> /\ Head(events).type = type
    /\ events' = Tail(events)
    /\ UNCHANGED <<relay, udpVars>>

HandleUserConnected ==
    /\ Receives("UserConnected")
    /\ sessions' = [sessions EXCEPT ![Head(events).id] = NewSession(Head(events).token)]
    /\ UNCHANGED ids_by_addresses

\* Mutant: VoiceLeft has no effect.
SetInVoiceOnce(h, value) ==
    sessions' = IF sessions[h] = NoSession THEN sessions
                ELSE [sessions EXCEPT ![h].in_voice = @ \/ value]
\* Mutant: a copy of the session is changed and dropped.
SetInVoiceOfCopy(h, value) == UNCHANGED sessions
SetInVoice(h, value) ==
    sessions' = IF sessions[h] = NoSession THEN sessions
                ELSE [sessions EXCEPT ![h].in_voice = value]

HandleVoiceJoined ==
    /\ Receives("VoiceJoined")
    /\ SetInVoice(Head(events).id, TRUE)
    /\ UNCHANGED ids_by_addresses

HandleVoiceLeft ==
    /\ Receives("VoiceLeft")
    /\ SetInVoice(Head(events).id, FALSE)
    /\ UNCHANGED ids_by_addresses

\* Of the addresses cached for the user only one, the first found, is removed.
\* Mutant: the cache is never searched.
NoAddressesOf(h) == {}
AddressesOf(h) == {a \in UdpAddresses : ids_by_addresses[a] = h}

\* Mutant: without a cached address the handler returns early.
DisconnectAuthenticatedOnly ==
    /\ Receives("UserDisconnected")
    /\ LET h == Head(events).id IN
       IF AddressesOf(h) = {} THEN UNCHANGED <<sessions, ids_by_addresses>>
       ELSE /\ sessions' = [sessions EXCEPT ![h] = NoSession]
            /\ \E a \in AddressesOf(h) :
                 ids_by_addresses' = [ids_by_addresses EXCEPT ![a] = 0]
HandleUserDisconnected ==
    /\ Receives("UserDisconnected")
    /\ LET h == Head(events).id IN
       /\ sessions' = [sessions EXCEPT ![h] = NoSession]
       /\ IF AddressesOf(h) = {} THEN UNCHANGED ids_by_addresses
          ELSE \E a \in AddressesOf(h) :
                 ids_by_addresses' = [ids_by_addresses EXCEPT ![a] = 0]

HandleEvent == \/ HandleUserConnected \/ HandleVoiceJoined
               \/ HandleVoiceLeft \/ HandleUserDisconnected

-----------------------------------------------------------------------------
(* Datagrams.  A token that no session has is answered with nothing, and   *)
(* voice from an address that is not cached is ignored: no step.           *)

\* handle_packet finds the session by its token; authenticate then records
\* the address.  (Its own comparison of the two tokens cannot fail.)

\* Mutant: the response goes to the address the session had before.
AnswerOldAddress(d, h) ==
    /\ relay = "running"
    /\ d \in datagrams_in /\ d.type = "VoiceAuthRequest"
    /\ sessions[h] # NoSession /\ sessions[h].token = d.token
    /\ sessions' = [sessions EXCEPT ![h].udp_address = d.from]
    /\ ids_by_addresses' = [ids_by_addresses EXCEPT ![d.from] = h]
    /\ datagrams_out' = datagrams_out \cup
                           {VoiceAuthResponse(sessions[h].udp_address)}
    /\ UNCHANGED <<events, relay, datagrams_in, authed>>
\* Mutant: the changed copy of the session is not inserted.
AuthenticateCopy(d, h) ==
    /\ relay = "running"
    /\ d \in datagrams_in /\ d.type = "VoiceAuthRequest"
    /\ sessions[h] # NoSession /\ sessions[h].token = d.token
    /\ ids_by_addresses' = [ids_by_addresses EXCEPT ![d.from] = h]
    /\ datagrams_out' = datagrams_out \cup {VoiceAuthResponse(d.from)}
    /\ UNCHANGED <<events, sessions, relay, datagrams_in, authed>>
HandleVoiceAuthRequest(d, h) ==
    /\ relay = "running"
    /\ d \in datagrams_in /\ d.type = "VoiceAuthRequest"
    /\ sessions[h] # NoSession /\ sessions[h].token = d.token
    /\ sessions' = [sessions EXCEPT ![h].udp_address = d.from]
    /\ ids_by_addresses' = [ids_by_addresses EXCEPT ![d.from] = h]
    /\ datagrams_out' = datagrams_out \cup {VoiceAuthResponse(d.from)}
    /\ UNCHANGED <<events, relay, datagrams_in, authed>>

\* forward_voice_packet: every recipient's address is unwrapped before the
\* first datagram is sent.
\* Mutant: the speaker is not left out.
AllInVoice(id) == {h \in UserIds : sessions[h].in_voice}
Recipients(id) == {h \in UserIds : sessions[h].in_voice /\ h # id}
Reachable(h) == sessions[h].udp_address # NoAddress

HandleVoiceData(d) ==
    /\ relay = "running"
    /\ d \in datagrams_in /\ d.type = "VoiceData"
    /\ LET id == ids_by_addresses[d.from] IN
       /\ id # 0
       /\ IF \A h \in Recipients(id) : Reachable(h)
          THEN /\ datagrams_out' = datagrams_out \cup
                    {VoiceDataTo(sessions[h].udp_address, id, d.speaker) :
                        h \in Recipients(id)}
               /\ UNCHANGED relay
          ELSE relay' = "panicked" /\ UNCHANGED datagrams_out
    /\ UNCHANGED <<events, sessions, ids_by_addresses, datagrams_in, authed>>

RelayStep ==
    \/ HandleEvent
    \/ \E d \in datagrams_in :
         HandleVoiceData(d) \/ \E h \in UserIds : HandleVoiceAuthRequest(d, h)

-----------------------------------------------------------------------------
(* The client of user h.                                                   *)

\* One attempt of authenticate_voice; a retry sends the same request again.
SendVoiceAuth(h, token) ==
    /\ \E a \in UdpAddrOf[h] :
         datagrams_in' = datagrams_in \cup {VoiceAuthRequest(a, token)}
    /\ UNCHANGED <<serverVars, datagrams_out, authed>>

ReceiveVoiceAuthResponse(h) ==
    /\ ~authed[h]
    /\ \E a \in UdpAddrOf[h] : VoiceAuthResponse(a) \in datagrams_out
    /\ authed' = [authed EXCEPT ![h] = TRUE]
    /\ UNCHANGED <<serverVars, datagrams_in, datagrams_out>>

SendVoiceData(h) ==
    /\ \E a \in UdpAddrOf[h] :
         datagrams_in' = datagrams_in \cup {VoiceDataFrom(a, h)}
    /\ UNCHANGED <<serverVars, datagrams_out, authed>>

-----------------------------------------------------------------------------
(* Properties.                                                             *)

\* No datagram ever makes the relay task panic: whoever is in the voice
\* channel as far as the relay knows has an address to forward to.
RelayAlive == relay = "running"

\* Every voice datagram a client gets carries the id of the user whose voice
\* is in it, and no user is sent its own voice.
RelayedIdentity ==
    \A d \in datagrams_out : d.type = "VoiceData" =>
        d.user_id = d.speaker /\ d.to \notin UdpAddrOf[d.speaker]

\* The relay's two maps agree: an address is cached for the user whose session
\* holds that address, and the address of every session is cached.
MapsAgree ==
    /\ \A a \in UdpAddresses : ids_by_addresses[a] # 0 =>
           sessions[ids_by_addresses[a]].udp_address = a
    /\ \A h \in UserIds : sessions[h].udp_address # NoAddress =>
           ids_by_addresses[sessions[h].udp_address] = h
=============================================================================
