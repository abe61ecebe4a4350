-------------------------- MODULE ManagementServer --------------------------
(***************************************************************************)
(* The TCP side of the server (server/src/management) and the clients that *)
(* talk to it.  ManagementServer::run accepts connections and spawns one   *)
(* UserHandler task per connection; the tasks share the `users` map, a     *)
(* broadcast channel, and the event channel to the voice relay.            *)
(*                                                                         *)
(* Connection h is the one whose user got id h.  A handler is sequential,  *)
(* but every shared effect of it (a change of `users`, one read of the map *)
(* while a login iterates over it, a socket write, an event, a broadcast)  *)
(* is a step of its own here, so handlers interleave between any two.      *)
(* Handling a packet changes `users` and leaves the rest of the function   *)
(* to do in effects[h]; a failed write drops what is left, as `?` does.    *)
(*                                                                         *)
(* The receiver of a successful write is the client itself: the network    *)
(* delay is the client's delay in acting on what it got.                   *)
(***************************************************************************)
EXTENDS RoomView, EventChannel

CONSTANTS
    Addresses,      \* TCP peer addresses, the keys of `users`
    Capacity,       \* BROADCAST_CHANNEL_CAPACITY
    RequestKinds,   \* bound: the kinds of each client's first, second... request
    Endings,        \* bound: the ways connections end, "close" and "break"
    PortReuse       \* may a peer port return while its old handler still runs?

ASSUME ManagementAssumption ==
    /\ NoAddress \notin Addresses
    /\ Capacity \in Nat \ {0}
    /\ RequestKinds \in [UserIds -> [1..MaxRequests -> SUBSET RequestTypes]]
    /\ Endings \subseteq {"close", "break"}
    /\ PortReuse \in BOOLEAN

VARIABLES
    users,          \* Arc<DashMap<SocketAddr, User>>
    next_user_id,   \* AtomicU64
    address,        \* UserHandler.address
    pc,             \* where the connection's task is
    effects,        \* what is left of the handler function that is running
    unvisited,      \* addresses a login has still to visit in `users`
    packet_buffer,  \* packets read and not yet handled
    broadcast_rx,   \* messages the handler's receiver has not taken yet
    lagged,         \* has the receiver missed messages?
    socket,         \* the connection: open, closed by the client, or broken
    inbox,          \* packets the client sent and the handler has not read
    requests,       \* how many packets the client has sent
    clients         \* the client at the other end

handlerVars == <<address, pc, effects, unvisited, packet_buffer>>
channelVars == <<broadcast_rx, lagged>>
clientVars == <<socket, inbox, requests, clients>>
mgmtVars == <<users, next_user_id, handlerVars, channelVars, clientVars>>
mgmtAll == <<events, mgmtVars>>

-----------------------------------------------------------------------------
(* State.                                                                  *)

User == [id : 0..MaxUsers, username : Names, in_voice : BOOLEAN,
         is_muted : BOOLEAN, token : Tokens]
\* No entry under this address.
NoUser == [id |-> 0, username |-> NoName, in_voice |-> FALSE,
           is_muted |-> FALSE, token |-> 0]

BroadcastMessage == [exclude : Addresses \cup {NoAddress}, packet : News]
for_all(p) == [exclude |-> NoAddress, packet |-> p]
excluding(a, p) == [exclude |-> a, packet |-> p]
should_send_to(m, a) == m.exclude # a

Write(p) == [do |-> "write", packet |-> p]
Emit(e) == [do |-> "event", event |-> e]
Cast(m) == [do |-> "broadcast", message |-> m]
Effect == [do : {"write"}, packet : Response]
          \cup [do : {"event"}, event : Event]
          \cup [do : {"broadcast"}, message : BroadcastMessage]

MgmtTypeOK ==
    /\ users \in [Addresses -> User]
    /\ next_user_id \in 1..(MaxUsers + 1)
    /\ events \in Seq(Event)
    /\ address \in [UserIds -> Addresses \cup {NoAddress}]
    /\ pc \in [UserIds -> {"none", "spawned", "running", "exiting", "done"}]
    /\ effects \in [UserIds -> Seq(Effect)]
    /\ unvisited \in [UserIds -> SUBSET Addresses]
    /\ packet_buffer \in [UserIds -> Seq(Request)]
    /\ broadcast_rx \in [UserIds -> Seq(BroadcastMessage)]
    /\ \A h \in UserIds : Len(broadcast_rx[h]) <= Capacity
    /\ lagged \in [UserIds -> {"no", "unreported", "reported"}]
    /\ socket \in [UserIds -> {"none", "open", "closed", "broken"}]
    /\ inbox \in [UserIds -> Seq(Request)]
    /\ requests \in [UserIds -> 0..MaxRequests]
    /\ clients \in [UserIds -> Client]

MgmtInit ==
    /\ users = [a \in Addresses |-> NoUser]
    /\ next_user_id = 1
    /\ events = <<>>
    /\ address = [h \in UserIds |-> NoAddress]
    /\ pc = [h \in UserIds |-> "none"]
    /\ effects = [h \in UserIds |-> <<>>]
    /\ unvisited = [h \in UserIds |-> {}]
    /\ packet_buffer = [h \in UserIds |-> <<>>]
    /\ broadcast_rx = [h \in UserIds |-> <<>>]
    /\ lagged = [h \in UserIds |-> "no"]
    /\ socket = [h \in UserIds |-> "none"]
    /\ inbox = [h \in UserIds |-> <<>>]
    /\ requests = [h \in UserIds |-> 0]
    /\ clients = [h \in UserIds |-> NewClient]

-----------------------------------------------------------------------------
(* ManagementServer::run and register_new_user.                            *)

\* The kernel lets a peer address come back once its old connection is gone.
\* With PortReuse that is as soon as the old connection is broken, before its
\* handler has noticed; without, only after that handler has ended.
AddressFree(a) ==
    \A h \in UserIds : address[h] = a =>
        pc[h] \in {"none", "done"} \/ (PortReuse /\ socket[h] = "broken")

\* register_new_user's insertion replaces whatever the address had.
NewUser(h) == [NoUser EXCEPT !.id = h, !.token = Token[h]]
\* Mutant: entry(address).or_insert(user).
RegisterOrKeep(a, h) ==
    IF users[a] = NoUser THEN [users EXCEPT ![a] = NewUser(h)] ELSE users
Registered(a, h) == [users EXCEPT ![a] = NewUser(h)]

Accept(a) ==
    /\ next_user_id \in UserIds
    /\ AddressFree(a)
    /\ LET h == next_user_id IN
       /\ users' = Registered(a, h)
       /\ next_user_id' = h + 1
       /\ address' = [address EXCEPT ![h] = a]
       /\ pc' = [pc EXCEPT ![h] = "spawned"]
       /\ socket' = [socket EXCEPT ![h] = "open"]
    /\ UNCHANGED <<events, effects, unvisited, packet_buffer, channelVars,
                   inbox, requests, clients>>

\* The spawned task up to the select! loop: the event, then handle()'s
\* subscription to the broadcasts.
Start(h) ==
    /\ pc[h] = "spawned"
    /\ events' = Sent(UserConnected(h, Token[h]))
    /\ pc' = [pc EXCEPT ![h] = "running"]
    /\ UNCHANGED <<users, next_user_id, address, effects, unvisited,
                   packet_buffer, channelVars, clientVars>>

\* The end of the task, after handle() has returned.
Exit(h) ==
    /\ pc[h] = "exiting" /\ effects[h] = <<>>
    /\ events' = Sent(UserDisconnected(h))
    /\ pc' = [pc EXCEPT ![h] = "done"]
    /\ UNCHANGED <<users, next_user_id, address, effects, unvisited,
                   packet_buffer, channelVars, clientVars>>

-----------------------------------------------------------------------------
(* The effects of a handler function, one at a time.                       *)

Self(h) == users[address[h]]

Due(h, what) ==
    /\ effects[h] # <<>> /\ unvisited[h] = {}
    /\ Head(effects[h]).do = what

SendEvent(h) ==
    /\ Due(h, "event")
    /\ events' = Sent(Head(effects[h]).event)
    /\ effects' = [effects EXCEPT ![h] = Tail(@)]
    /\ UNCHANGED <<users, next_user_id, address, pc, unvisited, packet_buffer,
                   channelVars, clientVars>>

\* tokio's broadcast channel keeps the last Capacity messages; a receiver that
\* is further behind loses the oldest ones and is told so by its next recv.
Overflow(q) == Len(q) = Capacity
\* Mutant: one message more than the capacity is kept.
PushTooMany(q, m) == Append(IF Len(q) > Capacity THEN Tail(q) ELSE q, m)
Push(q, m) == Append(IF Overflow(q) THEN Tail(q) ELSE q, m)
\* Mutant: the handler subscribes once its login has read `users`.
SubscribedLate(h) ==
    pc[h] = "running" /\ unvisited[h] = {} /\ Self(h).username # NoName
Subscribed(h) == pc[h] = "running"

SendBroadcast(h) ==
    /\ Due(h, "broadcast")
    /\ LET m == Head(effects[h]).message IN
       broadcast_rx' = [r \in UserIds |->
           IF Subscribed(r) THEN Push(broadcast_rx[r], m) ELSE broadcast_rx[r]]
    /\ lagged' = [r \in UserIds |->
           IF Subscribed(r) /\ Overflow(broadcast_rx[r])
           THEN "unreported" ELSE lagged[r]]
    /\ effects' = [effects EXCEPT ![h] = Tail(@)]
    /\ UNCHANGED <<users, next_user_id, events, address, pc, unvisited,
                   packet_buffer, clientVars>>

\* A write succeeds until the connection is broken, but only reaches a client
\* that has not closed its end.
CanWrite(h) == socket[h] # "broken"
Reaches(h) == socket[h] = "open"

WriteResponse(h) ==
    /\ Due(h, "write")
    /\ effects' = [effects EXCEPT ![h] = IF CanWrite(h) THEN Tail(@) ELSE <<>>]
    /\ clients' = [clients EXCEPT ![h] =
           IF Reaches(h) THEN ReceiveResponse(@, Head(effects[h]).packet) ELSE @]
    /\ UNCHANGED <<users, next_user_id, events, address, pc, unvisited,
                   packet_buffer, channelVars, socket, inbox, requests>>

-----------------------------------------------------------------------------
(* UserHandler::handle_packet: one action per request.                     *)

\* The handler is in the decode loop, with a packet of this type to handle.
Handles(h, type) ==
    /\ pc[h] = "running" /\ effects[h] = <<>>
    /\ packet_buffer[h] # <<>> /\ Head(packet_buffer[h]).type = type

Packet(h) == Head(packet_buffer[h])

\* What the handlers of a request share: without an entry under its address
\* the handler returns UserNotFound and does nothing; with one, it replaces it
\* and has `rest` to do.
Handling(h, type, user, rest) ==
    /\ Handles(h, type)
    /\ IF Self(h).id = 0
       THEN UNCHANGED <<users, effects>>
       ELSE /\ users' = [users EXCEPT ![address[h]] = user]
            /\ effects' = [effects EXCEPT ![h] = rest]
    /\ packet_buffer' = [packet_buffer EXCEPT ![h] = Tail(@)]
    /\ UNCHANGED <<next_user_id, events, address, pc, channelVars, clientVars>>

ValidName(name) == name > 0 /\ name <= MAX_USERNAME_LEN

RejectLogin(h) ==
    /\ Handles(h, "Login") /\ ~ValidName(Packet(h).username)
    /\ effects' = [effects EXCEPT ![h] =
           <<Write(LoginResponse(Packet(h).request_id, 0, 0, Nobody))>>]
    /\ packet_buffer' = [packet_buffer EXCEPT ![h] = Tail(@)]
    /\ UNCHANGED <<users, next_user_id, events, address, pc, unvisited,
                   channelVars, clientVars>>

\* The response is written once the iteration over `users` has filled its
\* participant list (Collect).
HandleLogin(h) ==
    /\ Handles(h, "Login") /\ ValidName(Packet(h).username)
    /\ Handling(h, "Login",
           [Self(h) EXCEPT !.username = Packet(h).username],
           <<Write(LoginResponse(Packet(h).request_id, Self(h).id,
                                 Self(h).token, Nobody)),
             Cast(excluding(address[h],
                            UserJoinedServer(Self(h).id, Packet(h).username)))>>)
    /\ unvisited' = [unvisited EXCEPT ![h] = IF Self(h).id = 0 THEN {} ELSE Addresses]

\* DashMap::iter visits the entries one shard at a time, in no particular
\* order and without holding off changes to the rest of the map.
Collect(h, a) ==
    /\ a \in unvisited[h]
    /\ unvisited' = [unvisited EXCEPT ![h] = @ \ {a}]
    /\ LET u == users[a] IN
       effects' = IF u.username = NoName THEN effects ELSE
           [effects EXCEPT ![h][1].packet.participants[u.id] =
                Info(u.username, u.in_voice, u.is_muted)]
    /\ UNCHANGED <<users, next_user_id, events, address, pc, packet_buffer,
                   channelVars, clientVars>>

HandleJoinVoiceChannel(h) ==
    /\ Handling(h, "Join",
           [Self(h) EXCEPT !.in_voice = TRUE, !.is_muted = FALSE],
           <<Write(PlainResponse("JoinResponse", Packet(h).request_id)),
             Emit(VoiceJoined(Self(h).id)),
             Cast(excluding(address[h], PlainNews("UserJoinedVoice", Self(h).id)))>>)
    /\ UNCHANGED unvisited

HandleLeaveVoiceChannel(h) ==
    /\ Handling(h, "Leave",
           [Self(h) EXCEPT !.in_voice = FALSE, !.is_muted = FALSE],
           <<Write(PlainResponse("LeaveResponse", Packet(h).request_id)),
             Emit(VoiceLeft(Self(h).id)),
             Cast(excluding(address[h], PlainNews("UserLeftVoice", Self(h).id)))>>)
    /\ UNCHANGED unvisited

HandleChatMessage(h) ==
    /\ Handling(h, "Chat", Self(h),
           <<Write(PlainResponse("ChatResponse", Packet(h).request_id)),
             Cast(for_all(PlainNews("UserSentMessage", Self(h).id)))>>)
    /\ UNCHANGED unvisited

\* The broadcast names the user that the packet names, not the handler's own.
HandleUserMuteState(h) ==
    /\ Handling(h, "Mute", [Self(h) EXCEPT !.is_muted = Packet(h).is_muted],
           <<Cast(excluding(address[h],
                            UserMuteState(Packet(h).user_id, Packet(h).is_muted)))>>)
    /\ UNCHANGED unvisited

HandlePing(h) ==
    /\ Handles(h, "Ping")
    /\ effects' = [effects EXCEPT ![h] =
           <<Write(PlainResponse("PingResponse", Packet(h).request_id))>>]
    /\ packet_buffer' = [packet_buffer EXCEPT ![h] = Tail(@)]
    /\ UNCHANGED <<users, next_user_id, events, address, pc, unvisited,
                   channelVars, clientVars>>

-----------------------------------------------------------------------------
(* UserHandler::handle: the select! over the socket and the broadcasts.    *)

AtSelect(h) ==
    /\ pc[h] = "running" /\ effects[h] = <<>> /\ packet_buffer[h] = <<>>

\* A read takes what has arrived.  (That less has arrived than was sent is
\* the client having sent it later.)
Read(h) ==
    /\ AtSelect(h) /\ inbox[h] # <<>>
    /\ packet_buffer' = [packet_buffer EXCEPT ![h] = inbox[h]]
    /\ inbox' = [inbox EXCEPT ![h] = <<>>]
    /\ UNCHANGED <<users, next_user_id, events, address, pc, effects, unvisited,
                   channelVars, socket, requests, clients>>

\* What handle_disconnect broadcasts about the user it has removed, if any.
\* Mutant: a user in the voice channel only leaves that.
FarewellInPart(user) ==
    IF user.id = 0 THEN <<>>
    ELSE IF user.in_voice THEN <<Cast(for_all(PlainNews("UserLeftVoice", user.id)))>>
    ELSE <<Cast(for_all(PlainNews("UserLeftServer", user.id)))>>
\* Mutant: only a user in the voice channel is missed.
FarewellFromVoice(user) ==
    IF user.in_voice THEN <<Cast(for_all(PlainNews("UserLeftVoice", user.id)))>>
    ELSE <<>>
\* Mutant: it also reports the disconnection, as the end of the task does.
FarewellTwice(user) ==
    IF user.id = 0 THEN <<>>
    ELSE <<Cast(for_all(PlainNews("UserLeftServer", user.id))),
           Emit(UserDisconnected(user.id))>>
Farewell(user) ==
    (IF user.id = 0 THEN <<>>
     ELSE <<Cast(for_all(PlainNews("UserLeftServer", user.id)))>>)
    \o (IF ~user.in_voice THEN <<>>
        ELSE <<Cast(for_all(PlainNews("UserLeftVoice", user.id)))>>)

\* handle_disconnect, on end of file (Ok(0)) or on a read error.  Its receiver
\* will not be read again.
Disconnect(h) ==
    /\ AtSelect(h)
    /\ socket[h] = "broken" \/ (socket[h] = "closed" /\ inbox[h] = <<>>)
    /\ users' = [users EXCEPT ![address[h]] = NoUser]
    /\ pc' = [pc EXCEPT ![h] = "exiting"]
    /\ effects' = [effects EXCEPT ![h] = Farewell(Self(h))]
    /\ broadcast_rx' = [broadcast_rx EXCEPT ![h] = <<>>]
    /\ UNCHANGED <<next_user_id, events, address, unvisited, packet_buffer,
                   lagged, clientVars>>

HasBroadcast(h) ==
    AtSelect(h) /\ broadcast_rx[h] # <<>> /\ lagged[h] # "unreported"

\* handle_broadcast_message, when it succeeds.
DeliverBroadcast(h) ==
    /\ HasBroadcast(h)
    /\ LET m == Head(broadcast_rx[h]) IN
       /\ should_send_to(m, address[h]) => CanWrite(h)
       /\ clients' = [clients EXCEPT ![h] =
              IF should_send_to(m, address[h]) /\ Reaches(h)
              THEN ReceiveNews(@, m.packet) ELSE @]
    /\ broadcast_rx' = [broadcast_rx EXCEPT ![h] = Tail(@)]
    /\ UNCHANGED <<users, next_user_id, events, handlerVars, lagged,
                   socket, inbox, requests>>

\* When its write fails, handle() returns without handle_disconnect.
BroadcastWriteFails(h) ==
    /\ HasBroadcast(h)
    /\ should_send_to(Head(broadcast_rx[h]), address[h]) /\ ~CanWrite(h)
    /\ pc' = [pc EXCEPT ![h] = "exiting"]
    /\ broadcast_rx' = [broadcast_rx EXCEPT ![h] = <<>>]
    /\ UNCHANGED <<users, next_user_id, events, address, effects, unvisited,
                   packet_buffer, lagged, clientVars>>

\* RecvError::Lagged is only logged.
NoticeLag(h) ==
    /\ AtSelect(h) /\ lagged[h] = "unreported"
    /\ lagged' = [lagged EXCEPT ![h] = "reported"]
    /\ UNCHANGED <<users, next_user_id, events, handlerVars, broadcast_rx,
                   clientVars>>

-----------------------------------------------------------------------------
(* The client's end of the connection, as sdk and desktop drive it.        *)

\* connect() logs in once on each connection, and the room page, where the
\* other requests come from, opens once the login has succeeded.
MayRequest(h, kind) ==
    /\ socket[h] = "open" /\ requests[h] < MaxRequests
    /\ kind \in RequestKinds[h][requests[h] + 1]
    /\ IF kind = "Login" THEN clients[h].login = "none" ELSE LoggedIn(clients[h])

PacketsOf(h, kind) ==
    LET r == requests[h] + 1 IN
    CASE kind = "Login" -> {LoginRequest(r, name) : name \in NameLengths}
      [] kind = "Mute" -> {MuteEvent(clients[h].user_id, m) : m \in BOOLEAN}
      [] OTHER -> {PlainRequest(kind, r)}

ClientRequest(h, kind) ==
    /\ MayRequest(h, kind)
    /\ \E p \in PacketsOf(h, kind) : inbox' = [inbox EXCEPT ![h] = Append(@, p)]
    /\ requests' = [requests EXCEPT ![h] = @ + 1]
    /\ clients' = [clients EXCEPT
           ![h].login = IF kind = "Login" THEN "asked" ELSE @,
           ![h].pending = IF kind = "Mute" THEN @ ELSE @ \cup {requests[h] + 1}]
    /\ UNCHANGED <<users, next_user_id, events, handlerVars, channelVars, socket>>

ClientClose(h) ==
    /\ "close" \in Endings /\ socket[h] = "open"
    /\ socket' = [socket EXCEPT ![h] = "closed"]
    /\ UNCHANGED <<users, next_user_id, events, handlerVars, channelVars,
                   inbox, requests, clients>>

\* A reset: the client's host vanished, or answered a write after its close.
ConnectionBreaks(h) ==
    /\ "break" \in Endings /\ socket[h] \in {"open", "closed"}
    /\ socket' = [socket EXCEPT ![h] = "broken"]
    /\ UNCHANGED <<users, next_user_id, events, handlerVars, channelVars,
                   inbox, requests, clients>>

-----------------------------------------------------------------------------
HandlerStep(h) ==
    \/ Start(h) \/ Exit(h)
    \/ SendEvent(h) \/ SendBroadcast(h) \/ WriteResponse(h)
    \/ RejectLogin(h) \/ HandleLogin(h) \/ \E a \in Addresses : Collect(h, a)
    \/ HandleJoinVoiceChannel(h) \/ HandleLeaveVoiceChannel(h)
    \/ HandleChatMessage(h) \/ HandleUserMuteState(h) \/ HandlePing(h)
    \/ Read(h) \/ Disconnect(h)
    \/ DeliverBroadcast(h) \/ BroadcastWriteFails(h) \/ NoticeLag(h)

ConnectionEnds(h) == ClientClose(h) \/ ConnectionBreaks(h)

MgmtNext ==
    \/ \E a \in Addresses : Accept(a)
    \/ \E h \in UserIds :
         \/ HandlerStep(h)
         \/ \E kind \in RequestTypes : ClientRequest(h, kind)
         \/ ConnectionEnds(h)

MgmtSpec == MgmtInit /\ [][MgmtNext]_mgmtAll

-----------------------------------------------------------------------------
(* Properties.                                                             *)

\* The entry that a live handler finds under its address is the one that was
\* registered for it: no handler ever reads or changes another user's entry
\* through self.server_users.get_mut(&self.address).
HandlerOwnsEntry ==
    \A h \in UserIds : pc[h] \in {"spawned", "running"} =>
        Self(h).id = h /\ Self(h).token = Token[h]

\* What the server holds about user u, in the form clients are told it.
Roster(u) ==
    IF \E a \in Addresses : users[a].id = u /\ users[a].username # NoName
    THEN LET e == users[CHOOSE a \in Addresses : users[a].id = u]
         IN Info(e.username, e.in_voice, e.is_muted)
    ELSE NoInfo

\* A client whose list ought to be right: logged in, connected, and its
\* handler told of no lost broadcasts.
Current(c) ==
    /\ pc[c] = "running" /\ socket[c] = "open"
    /\ LoggedIn(clients[c]) /\ lagged[c] = "no"

Quiet ==
    \A h \in UserIds :
        \/ pc[h] \in {"none", "done"}
        \/ AtSelect(h) /\ broadcast_rx[h] = <<>> /\ inbox[h] = <<>>

\* Whatever was interleaved with a client's login (which reads `users` entry
\* by entry while other handlers change it and broadcast the changes), when
\* nothing is under way any more its list agrees with `users` about every
\* other user whose connection did not break.
ViewsConverge ==
    Quiet => \A c, u \in UserIds :
        c # u /\ Current(c) /\ socket[u] # "broken" =>
            clients[c].participants[u] = Roster(u)

\* A chat message that is about to be shown to a logged-in client is from
\* somebody on its list as long as the sender is still connected: room.rs
\* drops messages of users it does not know.
ChatAttributable ==
    \A c, u \in UserIds :
        /\ Current(c) /\ HasBroadcast(c)
        /\ Head(broadcast_rx[c]).packet = PlainNews("UserSentMessage", u)
        /\ pc[u] = "running" /\ socket[u] # "broken"
        => clients[c].participants[u] # NoInfo

\* Every entry of `users` belongs to a connection whose handler still runs:
\* nobody is listed who is gone.
NoGhost ==
    \A a \in Addresses : users[a].id # 0 =>
        pc[users[a].id] \in {"spawned", "running"}

-----------------------------------------------------------------------------
(* Liveness.  Tokio polls every task that can make progress, select! picks *)
(* among its ready branches at random, and a client's host reads what it   *)
(* is sent: a handler that can take a step takes one.                      *)

MgmtFairness == \A h \in UserIds : WF_mgmtAll(HandlerStep(h))
MgmtFairSpec == MgmtSpec /\ MgmtFairness

\* A request is answered, unless its connection ends first.
RequestsAnswered ==
    \A h \in UserIds, r \in 1..MaxRequests :
        r \in clients[h].pending
            ~> (r \notin clients[h].pending \/ socket[h] # "open")

\* A user that closes its connection disappears from every other client's
\* list, unless the connection also broke, or that client is gone or lagged.
DepartureSeen ==
    \A u, c \in UserIds : u # c =>
        (socket[u] = "closed"
            ~> (\/ socket[u] = "broken"
                \/ clients[c].participants[u] = NoInfo /\ pc[u] = "done"
                \/ socket[c] # "open" \/ lagged[c] # "no"))

-----------------------------------------------------------------------------
(* The promise to the voice relay: EventStream.                            *)

StreamPhase ==
    [h \in UserIds |-> CASE pc[h] \in {"none", "spawned"} -> "none"
                         [] pc[h] \in {"running", "exiting"} -> "connected"
                         [] OTHER -> "gone"]
Stream == INSTANCE EventStream WITH phase <- StreamPhase

\* The handlers together send an event stream the relay can rely on: about
\* each user they send that user's own token first, its disconnection last,
\* and both once.
ImplementsStream == Stream!StreamSpec
=============================================================================
