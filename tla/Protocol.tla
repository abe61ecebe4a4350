------------------------------ MODULE Protocol ------------------------------
(***************************************************************************)
(* The vocabulary every other module speaks: the packets of                *)
(* protocol/src/packet.rs, the events of server/src/event.rs that the      *)
(* management server sends to the voice relay, and the participant list a  *)
(* client keeps.                                                           *)
(*                                                                         *)
(* A packet is an abstract record, not its bytes.  A username is its       *)
(* length in bytes (the only thing the code tests), NoName standing for    *)
(* None.  A chat text is not represented at all.                           *)
(***************************************************************************)
EXTENDS Integers, Sequences, FiniteSets

CONSTANTS
    MaxUsers,       \* bound: how many TCP connections are ever accepted
    Token,          \* Token[id]: the u64 that random() drew for user id
    MaxRequests,    \* bound: packets a client sends on one connection
    NameLengths,    \* the username lengths that clients try
    NoAddress       \* None, of any socket address

UserIds == 1..MaxUsers
MAX_USERNAME_LEN == 32
NoName == -1

\* random::<u64>() never drew the same token twice, nor the 0 that a rejected
\* login is answered with.
ASSUME ProtocolAssumption ==
    /\ MaxUsers \in Nat /\ MaxRequests \in Nat
    /\ NameLengths \subseteq Nat
    /\ Token \in [UserIds -> Nat \ {0}]
    /\ \A i, j \in UserIds : Token[i] = Token[j] => i = j

Tokens == {Token[i] : i \in UserIds} \cup {0}

-----------------------------------------------------------------------------
(* Participant lists: LoginResponse carries one, each client keeps one.     *)

Names == NameLengths \cup {NoName}
ParticipantInfo == [username : Names, in_voice : BOOLEAN, is_muted : BOOLEAN]
Info(name, voice, muted) ==
    [username |-> name, in_voice |-> voice, is_muted |-> muted]
NoInfo == Info(NoName, FALSE, FALSE)
Participants == [UserIds -> ParticipantInfo]
Nobody == [u \in UserIds |-> NoInfo]

-----------------------------------------------------------------------------
(* Packets a client sends over TCP.                                         *)

RequestTypes == {"Login", "Join", "Leave", "Chat", "Ping", "Mute"}
Request == [type : RequestTypes, request_id : 0..MaxRequests,
            username : Names, user_id : 0..MaxUsers, is_muted : BOOLEAN]

LoginRequest(r, name) ==
    [type |-> "Login", request_id |-> r, username |-> name,
     user_id |-> 0, is_muted |-> FALSE]
PlainRequest(type, r) ==
    [type |-> type, request_id |-> r, username |-> NoName,
     user_id |-> 0, is_muted |-> FALSE]
MuteEvent(id, muted) ==
    [type |-> "Mute", request_id |-> 0, username |-> NoName,
     user_id |-> id, is_muted |-> muted]

(* Packets the server answers with, and packets it broadcasts.              *)

ResponseTypes == {"LoginResponse", "JoinResponse", "LeaveResponse",
                  "ChatResponse", "PingResponse"}
Response == [type : ResponseTypes, request_id : 0..MaxRequests,
             id : 0..MaxUsers, voice_token : Tokens,
             participants : Participants]
LoginResponse(r, id, token, list) ==
    [type |-> "LoginResponse", request_id |-> r, id |-> id,
     voice_token |-> token, participants |-> list]
\* Mutant: an answer that does not carry the id of its request.
AnonymousResponse(type, r) ==
    [type |-> type, request_id |-> 0, id |-> 0, voice_token |-> 0,
     participants |-> Nobody]
PlainResponse(type, r) ==
    [type |-> type, request_id |-> r, id |-> 0, voice_token |-> 0,
     participants |-> Nobody]

NewsTypes == {"UserJoinedServer", "UserLeftServer", "UserJoinedVoice",
              "UserLeftVoice", "UserSentMessage", "UserMuteState"}
News == [type : NewsTypes, user_id : 0..MaxUsers, username : Names,
         is_muted : BOOLEAN]
UserJoinedServer(id, name) ==
    [type |-> "UserJoinedServer", user_id |-> id, username |-> name,
     is_muted |-> FALSE]
UserMuteState(id, muted) ==
    [type |-> "UserMuteState", user_id |-> id, username |-> NoName,
     is_muted |-> muted]
PlainNews(type, id) ==
    [type |-> type, user_id |-> id, username |-> NoName, is_muted |-> FALSE]

-----------------------------------------------------------------------------
(* Events from the management server to the voice relay.                    *)

EventTypes == {"UserConnected", "VoiceJoined", "VoiceLeft", "UserDisconnected"}
Event == [type : EventTypes, id : UserIds, token : Tokens]
UserConnected(i, t) == [type |-> "UserConnected", id |-> i, token |-> t]
VoiceJoined(i) == [type |-> "VoiceJoined", id |-> i, token |-> 0]
VoiceLeft(i) == [type |-> "VoiceLeft", id |-> i, token |-> 0]
UserDisconnected(i) == [type |-> "UserDisconnected", id |-> i, token |-> 0]
=============================================================================
