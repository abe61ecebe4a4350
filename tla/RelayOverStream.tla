--------------------------- MODULE RelayOverStream --------------------------
(***************************************************************************)
(* The voice relay on its own: its events come from any sender that keeps  *)
(* EventStream's promise, and from clients that join the voice channel     *)
(* only after Client::connect has returned, that is, once their voice      *)
(* authentication has succeeded.  (A client whose login was rejected asks  *)
(* for voice authentication with the token 0 it was given.)                *)
(***************************************************************************)
EXTENDS VoiceRelayServer, EventStream

CONSTANT Backlog    \* bound: how many events are ever waiting

streamVars == <<events, phase, relayVars>>

RoSInit == StreamInit /\ RelayInit

Joins(h) == events' = Append(events, VoiceJoined(h))

RoSNext ==
    \/ \E h \in UserIds :
         \/ /\ StreamStep(h)
            /\ Joins(h) => authed[h]
            /\ Len(events) < Backlog
            /\ UNCHANGED relayVars
         \/ /\ phase[h] = "connected" /\ ~authed[h]
            /\ \E t \in {0, Token[h]} : SendVoiceAuth(h, t)
            /\ UNCHANGED <<events, phase>>
         \/ /\ ReceiveVoiceAuthResponse(h)
            /\ UNCHANGED <<events, phase>>
         \/ /\ authed[h]
            /\ SendVoiceData(h)
            /\ UNCHANGED <<events, phase>>
    \/ RelayStep /\ UNCHANGED phase

RoSSpec == RoSInit /\ [][RoSNext]_streamVars
=============================================================================
