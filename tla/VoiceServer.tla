----------------------------- MODULE VoiceServer ----------------------------
(***************************************************************************)
(* The whole server: the management server and the voice relay, joined by  *)
(* the event channel, with clients that use both (server/src/main.rs and   *)
(* sdk Client::connect).                                                   *)
(***************************************************************************)
EXTENDS ManagementServer, VoiceRelayServer

CONSTANT Eager  \* ids over whose connection requests may come although
                \* their voice authentication has not succeeded.
                \* Client::connect returns only after it, but neither its
                \* queue nor the desktop keeps this up: see the README, 3
ASSUME VoiceServerAssumption == Eager \subseteq UserIds

vars == <<events, mgmtVars, relayVars>>

Init == events = <<>> /\ MgmtInit /\ RelayInit

-----------------------------------------------------------------------------
(* Client::connect logs in over TCP and then authenticates over UDP with    *)
(* the token it got; it returns Ok when both have succeeded.                *)

\* The requests that reach h wait for the voice authentication of h, and not
\* merely for that of some connection of the same application.
\* Mutant: they do not wait.
MayActAtOnce(h) == TRUE
MayAct(h) == authed[h] \/ h \in Eager

MakeRequest(h, kind) ==
    /\ kind = "Login" \/ MayAct(h)
    /\ ClientRequest(h, kind)
    /\ UNCHANGED relayVars

AuthenticateVoice(h) ==
    /\ socket[h] = "open" /\ clients[h].login = "answered" /\ ~authed[h]
    /\ SendVoiceAuth(h, clients[h].voice_token)
    /\ UNCHANGED <<events, mgmtVars>>

VoiceAuthenticated(h) ==
    /\ socket[h] = "open"
    /\ ReceiveVoiceAuthResponse(h)
    /\ UNCHANGED <<events, mgmtVars>>

\* The audio input starts once connect() has returned; nothing makes it wait
\* for the user to be in the voice channel.
Speak(h) ==
    /\ socket[h] = "open" /\ MayAct(h)
    /\ SendVoiceData(h)
    /\ UNCHANGED <<events, mgmtVars>>

ClientActs(h) ==
    \/ \E kind \in RequestTypes : MakeRequest(h, kind)
    \/ AuthenticateVoice(h) \/ VoiceAuthenticated(h) \/ Speak(h)
    \/ ConnectionEnds(h) /\ UNCHANGED relayVars

-----------------------------------------------------------------------------
Accepts == (\E a \in Addresses : Accept(a)) /\ UNCHANGED relayVars
HandlerActs(h) == HandlerStep(h) /\ UNCHANGED relayVars
RelayActs == RelayStep /\ UNCHANGED mgmtVars

Next == Accepts \/ RelayActs \/ \E h \in UserIds : HandlerActs(h) \/ ClientActs(h)

Spec == Init /\ [][Next]_vars

\* select! picks at random, so neither a stream of datagrams nor one of
\* packets keeps the relay from its events or a handler from its work.
Fairness ==
    /\ WF_vars(HandleEvent /\ UNCHANGED mgmtVars)
    /\ \A h \in UserIds : WF_vars(HandlerActs(h))
FairSpec == Spec /\ Fairness

-----------------------------------------------------------------------------
(* Properties.                                                             *)

\* Once the relay has received what a handler has sent, it has a session for
\* that user, and both halves of the server agree whether the user is in the
\* voice channel (unless a failed write cut the handler short).
RelayInSync ==
    \A h \in UserIds :
        /\ pc[h] = "running" /\ effects[h] = <<>> /\ socket[h] # "broken"
        /\ ~Pending(h)
        => sessions[h] # NoSession /\ sessions[h].in_voice = Self(h).in_voice

\* Once the relay has received a user's last event nothing is left of the user.
NothingLeft ==
    \A h \in UserIds : pc[h] = "done" /\ ~Pending(h) =>
        sessions[h] = NoSession /\ \A a \in UdpAddresses : ids_by_addresses[a] # h

\* A user in the voice channel of the management server comes to be in that of
\* the relay, unless it leaves or its connection ends first.
JoinReachesRelay ==
    \A h \in UserIds :
        (pc[h] = "running" /\ Self(h).in_voice)
            ~> (\/ sessions[h].in_voice \/ socket[h] # "open"
                \/ ~Self(h).in_voice)

\* However a connection ends, the relay's session of its user is removed.
SessionReclaimed ==
    \A h \in UserIds :
        socket[h] \in {"closed", "broken"} ~> (pc[h] = "done" /\ sessions[h] = NoSession)

\* The relay inside the whole server is the relay that RelayOverStream
\* describes: the handlers and the clients together keep the promise it
\* relies on.
Relay == INSTANCE RelayOverStream WITH
             phase <- StreamPhase,
             Backlog <- MaxUsers * (MaxRequests + 2) + 1
ImplementsRelay == Relay!RoSSpec
=============================================================================
