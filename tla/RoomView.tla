------------------------------ MODULE RoomView ------------------------------
(***************************************************************************)
(* What one client makes of the packets it receives over TCP.  A packet    *)
(* goes through three pieces of client code in turn: tcp_client.rs gives a  *)
(* response to the request that waits for it, event_handler.rs turns it     *)
(* into a ClientEvent, and the ServerEventReceived arm of view/room.rs      *)
(* applies that event to the participant list.                             *)
(*                                                                         *)
(* The list's entry for the user itself is also written by the results of  *)
(* the user's own commands, which is not modelled here: properties compare *)
(* the entries of OTHER users.                                             *)
(***************************************************************************)
EXTENDS Protocol

\* user_id and voice_token as returned by authenticate_management, which
\* accepts any LoginResponse: a rejected login leaves both 0.
Client == [login : {"none", "asked", "answered"}, user_id : 0..MaxUsers,
           voice_token : Tokens, pending : SUBSET (0..MaxRequests),
           participants : Participants]

NewClient == [login |-> "none", user_id |-> 0, voice_token |-> 0,
              pending |-> {}, participants |-> Nobody]

LoggedIn(c) == c.user_id # 0

-----------------------------------------------------------------------------
\* The ServerEventReceived arm.  Every event but UserJoinedServer changes only
\* an entry that is there; a chat message is shown only if its sender is.
ApplyNews(list, p) ==
    IF p.type = "UserJoinedServer"
    THEN [list EXCEPT ![p.user_id] = Info(p.username, FALSE, FALSE)]
    ELSE IF p.user_id \notin UserIds \/ list[p.user_id] = NoInfo
    THEN list
    ELSE CASE p.type = "UserJoinedVoice" ->
                [list EXCEPT ![p.user_id].in_voice = TRUE,
                             ![p.user_id].is_muted = FALSE]
           [] p.type = "UserLeftVoice" ->
                [list EXCEPT ![p.user_id].in_voice = FALSE,
                             ![p.user_id].is_muted = FALSE]
           [] p.type = "UserLeftServer" -> [list EXCEPT ![p.user_id] = NoInfo]
           [] p.type = "UserMuteState" ->
                [list EXCEPT ![p.user_id].is_muted = p.is_muted]
           [] OTHER -> list

ReceiveNews(c, p) == [c EXCEPT !.participants = ApplyNews(@, p)]

\* A response completes the request that waits for it; a LoginResponse also
\* replaces the participant list.
ReceiveResponse(c, p) ==
    IF p.type = "LoginResponse"
    THEN [c EXCEPT !.pending = @ \ {p.request_id},
                   !.login = "answered", !.user_id = p.id,
                   !.voice_token = p.voice_token,
                   !.participants = p.participants]
    ELSE [c EXCEPT !.pending = @ \ {p.request_id}]
=============================================================================
