---------------------------- MODULE EventStream -----------------------------
(***************************************************************************)
(* What the management server promises the voice relay, and no more: for   *)
(* each user id one UserConnected with the user's own token, then any      *)
(* number of VoiceJoined and VoiceLeft, then one UserDisconnected.         *)
(* ManagementServer implements this specification.                         *)
(***************************************************************************)
EXTENDS EventChannel

VARIABLE phase          \* how far the stream of each user id has got

StreamInit ==
    /\ events = <<>>
    /\ phase = [h \in UserIds |-> "none"]

Connected(h) ==
    /\ phase[h] = "none"
    /\ phase' = [phase EXCEPT ![h] = "connected"]
    /\ events' = Append(events, UserConnected(h, Token[h]))

VoiceChanged(h) ==
    /\ phase[h] = "connected"
    /\ \E e \in {VoiceJoined(h), VoiceLeft(h)} : events' = Append(events, e)
    /\ UNCHANGED phase

Disconnected(h) ==
    /\ phase[h] = "connected"
    /\ phase' = [phase EXCEPT ![h] = "gone"]
    /\ events' = Append(events, UserDisconnected(h))

StreamStep(h) == Connected(h) \/ VoiceChanged(h) \/ Disconnected(h)

\* The relay receives the oldest event.
Taken ==
    /\ events # <<>>
    /\ events' = Tail(events)
    /\ UNCHANGED phase

StreamNext == Taken \/ \E h \in UserIds : StreamStep(h)
StreamSpec == StreamInit /\ [][StreamNext]_<<events, phase>>
=============================================================================
