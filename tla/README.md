# voiceapp in TLA+

This directory holds a TLA+ model of voiceapp: a Rust voice-chat application with a server (`server/`), a client library
(`sdk/`), the packets both speak (`protocol/`), a desktop client (`desktop/`) and a music bot (`extras/`). The modules are
written from the source; `PROJECT.json` says which lines each definition stands for, which runs and mutants check it, and which
hazards of the code each property is about.

## 1. The system

| part | state it keeps | operations | interacts by |
|---|---|---|---|
| management server (`server/src/management`) | `users: DashMap<SocketAddr, User>`, `next_user_id`, one `UserHandler` task per TCP connection with its read buffer and broadcast receiver | accept and register; login, join, leave, chat, ping, mute; deliver a broadcast; disconnect | TCP with its client; a `broadcast` channel of capacity 1000 among the handlers; an unbounded `mpsc` channel of `Event`s to the relay |
| voice relay (`server/src/voice`) | `sessions: DashMap<u64, VoiceSession>`, `ids_by_addresses: DashMap<SocketAddr, u64>` | four events; voice authentication; forward voice data | UDP with all clients; the event channel |
| SDK TCP client (`sdk/src/network/tcp_client.rs`) | a send queue and a packet queue shared by all connections; one handler task per connection with `pending_responses` | connect, send request, send event, read, time out | channels with the callers; TCP |
| SDK UDP client (`udp_client.rs`) | send and packet queues, `pending_requests`, byte counters; one handler task per `connect` | connect, request with three attempts, send, receive | channels; UDP |
| SDK event handler, API, `Client` | request id counter, user id, event channel | `connect`, `join_channel`, `leave_channel`, `send_message`, `send_mute_state`, `ping` | call the two clients; turn packets into `ClientEvent`s |
| SDK voice pipeline (`sdk/src/voice`) | resample and encode buffers, sequence and timestamp, decoder per user | sample rate changes, encode, decode | channels between audio callbacks and the UDP client |
| desktop pages and states | participant list, mute and voice flags, current page | messages of the iced runtime | one message bus: every message goes to every page and to every state |
| desktop audio (`desktop/src/audio`) | input stream, receiver task, mute flag, output streams, notification player with its position | start and stop recording, mute, play, the devices' callbacks | the devices' threads, tasks, a lock |
| desktop configuration (`config.rs`, `state/config.rs`) | `AppConfig` in memory and on disk, dirty flag | load, change, save every ten seconds and at the close | an `ArcSwap` that all parts read |
| wire format (`protocol/`) | none | encode, decode, reader, writer | both ends of TCP keep an accumulator of bytes |

What makes it hard: handlers are concurrent tasks over one map, and a login iterates over that map while others change it and
broadcast the changes; a broadcast receiver may lag; a handler ends in several ways and `?` cuts a function short after it has
changed the map; the relay learns of everything late, through one channel, while datagrams are lost, repeated and reordered;
requests time out although they are carried out; reconnecting starts a second handler on the same queues; packets arrive in pieces
of any size, at tasks that do not read while they write; samples, mute clicks and device changes meet in queues between threads.

Correctness, part by part:

* management: a handler finds its own user under its address and no other; clients' lists agree with the map once things are
  quiet; a chat message comes from somebody on the list; every request is answered; a departure is announced; the relay hears of
  every user in order and once.
* relay: never panics; relays voice under the speaker's own id, to others only; its two maps agree; it forgets users who left.
* wire format: packets are handled whole, in order, once, and not later than when they are there in full.
* sound: what is said is sent unless muted, what is played is heard once and in full unless replaced, every microphone that is open is
  the chosen one, a recording that is over ends; settings reach the disk.
* the two servers together: both know the same users in the voice channel; a join reaches the relay; nothing of a user stays behind.

## 2. Modules

| module | models | kind |
|---|---|---|
| `Protocol` | packets, events, participant lists | vocabulary |
| `RoomView` | what a client makes of packets: pending requests, the participant list | operators |
| `EventChannel` | the queue of events | vocabulary |
| `EventStream` | what the management server promises the relay | abstract specification |
| `ManagementServer` | accept loop, handlers, broadcast channel, connections, clients | component |
| `VoiceRelayServer` | the relay task, UDP, the UDP side of clients | component |
| `RelayOverStream` | the relay with any sender that keeps `EventStream` | composition, abstract environment |
| `VoiceServer` | management server and relay joined by the channel, with clients that use both | composition |
| `Rpc` | what a caller may rely on when it makes a request: executed at most so often, outcome final, success only if executed | abstract specification |
| `TcpClient` | the TCP client's callers, queues and handler tasks | component |
| `UdpClient` | the UDP client's requests, attempts and handler tasks | component |
| `SdkClient` | `connect()`, its retry, the calls and the listener, over `TcpClient` and, for UDP, `Rpc` | composition |
| `Desktop` | the message bus, the room page, the audio manager and the commands of one user's application, over a server with others | component |
| `PacketLink` | what the other modules take a TCP connection for: packets in order, once, each way | abstract specification |
| `Framing` | the bytes: both ends' tasks, frames, accumulators, kernels that hold only so much | component |
| `AudioDevices` | the devices of a machine | vocabulary |
| `Recording` | microphone, receiver task, input pipeline, of each recording | component |
| `Playback` | the notification player and its output stream | component |
| `Settings` | configuration in memory and on disk, pages, the settings page's level meter | component |
| `Sound` | the three put together by the messages of the application's thread | composition |
| `ManagementServerProofs`, `RelayProofs`, `VoiceServerProofs`, `SdkProofs`, `UdpProofs`, `DesktopProofs`, `FramingProofs`, `SoundProofs` | theorems | proofs |
| `MCManagement`, `MCRelay`, `MCVoice`, `MCDesktop`, `MCFraming`, `MCSound` | constants of the instances | model checking |

Each program module is modelled once, and what another module needs of it is a specification it has been checked (or proved)
to implement: the relay is checked over `EventStream`, which `ManagementServer` implements; the SDK's `connect()` uses `Rpc`
for its UDP half, which `UdpClient` implements; the packets of `ManagementServer` and `TcpClient` travel as `PacketLink` says, which
`Framing` implements; and `VoiceServer` is proved to be an implementation of `RelayOverStream`, so
that the environment the relay's properties assume is the one it has.

## 3. How the models correspond to the code

`PROJECT.json` gives the lines of every definition. What follows is what cannot be read off there.

**`ManagementServer`.** Connection `h` is the one whose user gets id `h`; `pc`, `effects`, `packet_buffer` are the local state
of its `UserHandler` task. Handling a packet takes one step, which changes `users` and leaves the rest of the function in
`effects[h]`: socket writes, events, broadcasts, each a step of its own, with every other task free to act between two of them.
A write that fails drops what is left of the function, as `?` does (`handle()` only logs the error and goes on); `let _ =`
sends do not. A login copies the map one entry at a time (`Collect`), since `DashMap::iter` holds one shard at a time. A
successful write delivers to the client at once: the delay of the network is the client's delay in acting on it. `Read` takes
everything that has arrived. The broadcast channel keeps `Capacity` messages per receiver, and a receiver that has lost some is
told so by its next `recv`. The branch for a closed channel is left out: the sender lives as long as the server. A client
is modelled as `sdk` and `desktop` drive it: one login, other requests from the room page, which opens after the login.

**`VoiceRelayServer`.** One task alternates between events and datagrams, so each event and each datagram is one step, with
the datagrams it sends. UDP is the set of datagrams ever sent: one may be received any number of times, in any order, or never.
`unwrap()` on a missing address sets `panicked`, after which the task does nothing, as a panic of a spawned task
is not propagated. With `RelayListens = FALSE` the relay failed to bind; the management server does not notice.

**`VoiceServer`.** The management server's event queue is the relay's. A client authenticates over UDP between login and its
first request, as `Client::connect` does: `MayAct` is asked of each connection `h` and its own user. `Eager` holds the connections
for which that fails (used in `voice_two_connections` only), so `Eager = {}` is more than that `connect()` calls do not overlap. The
code does not ensure it, in three ways:

* Two `connect()` calls overlap (`login.rs:198` accepts a second submission): their handlers take packets from one queue, and the room
  opens when one of them returns, so a join may go out over the connection of the other.
* A `connect()` whose voice authentication timed out (`client.rs:98`) leaves its TCP handler running, which goes on taking from the shared
  `send_rx` (`tcp_client.rs:116`). After a successful retry a join may go out over the old connection, whose user is logged in and has not
  authenticated. Nothing overlaps here.
* Escape on the login page (`view/settings.rs:531`) opens the room, from which a join may be sent before the authentication, over a
  single connection.

**`TcpClient`, `UdpClient`, `SdkClient`.** A request is its id; one packet is read at a time. The send and packet queues are shared
by all connections of a client, `pending_responses` belongs to one TCP handler, `pending_requests` to all UDP handlers. A
link delivers in order until it closes. `connect()` may be called again at any time, as the login page does not prevent a double
submission (`login.rs:198`), and what a failed call started keeps running. News `n` is the `n`-th packet that the server pushes, over
whichever connection: a broadcast that goes to two connections of one application is two of them. Pings are
sent at any time, connected or not (`application.rs:125`). The relay never answers an unknown token. The branch of the
UDP client that reports a stopped handler (`udp_client.rs:131-132`) is never taken, because nobody drops the callbacks: such
callers are told Timeout. Voice data and byte counters are left out of the UDP client.

**`Desktop`.** One `Deliver` action is one `Application::update`: every state and every page gets the message. What an update
returns are tasks, each spawned on the runtime's thread pool, so that the bus is a set and its messages arrive in any order; the event
stream is one task and arrives in order. `clicks` numbers the user's clicks. Two history variables serve the properties:
`failed` says that some device failed to open, `strained` that the user clicked while an earlier click had consequences to come,
or before the room listed the user, or that a request was given up after it was sent. The connection comes up at once and stays:
`SdkClient` is about the others. `PressEscape` is the settings page's answer to a key that every page gets: it opens the room from any
page. With `Impatient = FALSE` the user does not press it before the login is complete, which is what the properties, and
the theorems, are stated for (section 6 says what happens otherwise). Chat, statistics and volumes are left out.

**`Framing`.** A byte is its position in the stream of one side, so every variable is a count and a frame is an interval: `begun`
frames have been started, `written` bytes handed to the kernel, `got` of them read by the peer, `used` of those drained from
its accumulator. Each side is one task with a `select!`: it begins a frame, or reads, and does neither while it is in `write_all()`.
What the peer of another version may send is a kind of frame: an id `decode` does not know (an error at once, before the header is
complete), a payload that is not UTF-8 (an error once it is complete), and a payload too short for its fields, which `decode` reports as
`PacketTooShort`, the same error as for a header that has not arrived, so that the reader waits, for good, for what is already there.
An error drops all that was read, wherever the last read ended; from there on the accumulator begins inside a frame and may decode as
anything (`TakeGarbage`), which is why `PacketLink` promises nothing behind a foreign frame. `encode()` panics on a payload longer than
65 535 bytes: in the server's handler that ends the task; the SDK encodes on the caller's side, so its task never meets one.
The end of a connection is in `ManagementServer` and `TcpClient`.

**`Recording`.** Each `start_recording` that succeeds makes a new stream, task, channel and pipeline; a replaced task is not aborted, and
the SDK "drops the old pipeline" by dropping an empty struct (`io_manager.rs:36`). Samples are counted, not named: buffers are queues
filled at one end and drained at the other. The level threshold is a choice of the task, as are an encoder or a resampler that fails.
`ReceiveBuffer` and `SendFrame` are two steps because a mute may come between them. `abort()` takes effect when the task
next waits for a buffer. History variables: `taken`, `made`, `chunks`, `frames` count the samples through the pipeline, `late`
what a task has passed on since the mute. The UDP queue's channel is never closed.

**`Playback`.** The sample that is next (`current`), the chunk that has been fetched (`leftover`) and the rest of the device's request
(`room`) are on two threads; the lock makes `play()` and `get_audio()` steps of their own. A sample is known by the `play()` it belongs
to, its position and the length of its sound, so that a lost or repeated one shows. Users' voices go through the same `fill_output`, from NetEq.

**`Settings`, `Sound`.** A save may fail before or after `fs::write` has emptied the file; a file that does not parse is `Torn`, and a
behaviour, one run of the application, may begin with one, as a crash in a save leaves it. All settings but the devices are one value.
One message is one step: `ConfigState`, then the audio manager, then the pages. Each device that is opened may fail to open.
The room, the commands and what the server says are `Desktop`'s: here a join, a leave or a mute may come at any time.
Channel and format conversion, volumes, decoding of the sounds' files and the decoders of other users' voices are left out.

## 4. Runs

| run | instance | shows |
|---|---|---|
| `mgmt_safety` | two users, three requests each at most, a channel of capacity 2, connections that close and break | types; a handler owns the entry under its address; lists converge; chat is attributable |
| `mgmt_live` | two users, two requests (login, ping), valid and too long names, connections that close | every request is answered, every departure is seen |
| `relay_contract` | three users, one event in the queue, three addresses | the relay's types, no panic, voice under the speaker's own id, maps that agree |
| `voice_server` | two users one after the other at one TCP port, join, leave, join | the two halves agree; nothing stays behind; refinement of `EventStream` and of `RelayOverStream`; a join reaches the relay, a session goes |
| `sdk_client` | two connections, overlapping or one after the other failed, and any two of: a broadcast, another, a ping, a link that closes; a mute packet | nobody waits for a callback nobody holds; no event lost or shown twice, and in order over one connection; refinement of `Rpc` |
| `udp_client` | two sockets, two calls, three attempts | callbacks are current; refinement of `Rpc`; every call returns |
| `desktop` | two users, two devices of different rates, three clicks, two acts of the other user, one upset | streams follow voice and selection; page, audio manager and server agree; no ghosts play |
| `framing` | up to three frames a side, of 0 to 4 bytes of payload, reads of at most 3 bytes, kernels that hold 4, a limit of 3 instead of 65 535, one foreign frame of each kind | what has been written ends with a whole frame; nothing is withheld; refinement of `PacketLink`; delivery |
| `sound` | two recordings of two buffers of one or three samples, chunks and frames of two, numbers that wrap at 4; sounds and requests of one or three samples, chunks of one or two; four messages | types; every sample sent; silence when muted; the last sound wins, without a gap; microphones current; settings saved; recordings end |
| `mgmt_ghost`, `voice_two_connections`, `desktop_hears` | small instances | the disagreements of section 6 |

Why the bounds are enough to be of interest. Two users are the least with an observer and an observed, and the properties about lists
quantify over pairs; three requests allow a login, a change of state and its reversal, and a capacity of two lets
three broadcasts overflow the receiver of the other user. One TCP port in `voice_server` makes the second user
take the first one's address, which is the case where a stale entry would bite. Three users in the relay are the least with a speaker, a
listener and somebody who is neither. Two connections are a failed one and its retry, or a double submission. Two broadcasts are the least of which
one may be lost, or overtake the other; `MaxTogether = 2` lets any two of the two broadcasts, the ping and a closing link happen with both
logins, and not all of them together, as that product (some thirty million states) is out of TLC's reach in the time of a run. Three attempts are the code's own
`MAX_RETRY_ATTEMPTS`. Three clicks are join, mute, leave, or a double click and one more; an upset is a device selected, a device that
fails or a request given up. Frames longer than a read are cut in the header and in the payload, shorter ones share a read, and four bytes
of kernel make both sides wait for each other. Buffers of one and of three samples leave a rest of every size before chunks and frames of
two, and four frames make the numbers wrap; two recordings are one and its replacement. The setups of `MCSound` let either the
recordings, the notifications, the settings or a selection in voice vary, as the four have no more in common than the messages: the whole
product is out of TLC's reach. The bounds are named in the modules (`MaxUsers`, `MaxRequests`, `RequestKinds`, `Endings`, `Backlog`,
`MaxNews`, `MaxClosed`, `MaxTogether`, `MaxClicks`, `MaxUpsets`, `MaxFrames`, `MaxRecordings`, `MaxBuffers`, `MaxMessages`, `Capacity` where it is
smaller than the code's 1000). Users are numbered in
order of their connections and clients act differently, so only TCP addresses are symmetric; symmetry is used in runs without liveness
only. Clients stop after their last request, so runs do not check for deadlock where the instance as a whole comes to rest
(`CHECK_DEADLOCK FALSE`); that nobody is stuck is what the liveness properties say.

Every property has a mutant in `PROJECT.json`: a definition of the model changed the way a plausible bug would change the code,
which makes the property fail. The mutated forms stand next to the definitions they replace, marked "Mutant".

## 5. Fairness

Tokio polls every task that has been woken, and `select!` picks at random among the branches that are ready. So a handler that
can take a step eventually takes one (`MgmtFairness`: weak fairness of each handler as a whole, not of each of its branches), and the
relay eventually takes an event that stays in its queue although datagrams keep arriving (`Fairness` in `VoiceServer`).
The UDP client's liveness (`UdpReturns`) needs its callers and their timers only: nothing is assumed of the network, the relay or the handler
tasks. `FramingFairSpec` polls each side's task while it can do anything, whatever it is; `SoundFairSpec` polls each receiver task and each
pipeline. Microphones need not deliver. Clients and
users are never assumed to do anything. `sdk_client` and `desktop` check no liveness.

## 6. Where code and documentation disagree

* `mgmt_ghost`: a broadcast write that fails ends `handle()` without `handle_disconnect` (`handler.rs:92`). The user stays in `users`,
  and everybody who logs in later is shown somebody who is gone.
* `voice_two_connections`: the `unwrap()` of `voice/server.rs:145` relies on clients to authenticate over UDP before they join, which the
  server does not check. Overlapping `connect()` calls, a plain retry after a voice authentication that timed out, and Escape on the login page
  (section 3, `VoiceServer`) each let a join be sent for a user who has not authenticated; it makes the relay task panic, for everybody.
* `desktop_hears`: the audio manager ignores the participant list, so who was in voice before the login is not played.

Also noticed, without a run:

* The diagram of `server/README.md:16-48` has the event `UserConnected` after the `LoginRequest`, and `VoiceJoined` before the
  `JoinVoiceResponse`. In the code `UserConnected` is sent when the connection is accepted (`management/server.rs:54`), whether or not anybody
  logs in, and `VoiceJoined` after the response (`handler.rs:235`), so a client may speak before the relay knows that it has joined.
  The models have the code's order.
* With two connections of one application, after a retry or a double submission, two listeners take from one packet queue
  (`event_handler.rs:60`), and events may reach the page out of order; each connection gets every broadcast, and the page applies both copies.
  `EventsOnce` says that no packet is lost or shown twice, `EventsInOrder` is about a lone connection.
* An unknown voice token is never answered although `server/README.md:55` promises success or failure.
* `UserDisconnected` removes one cached address (`voice/server.rs:78`). Who authenticated from two, as after a NAT rebinding between two
  attempts, leaves the other behind, and voice from it is relayed when the user is gone (`server/README.md:58`).
* With peer ports reused before an old handler has ended (`PortReuse = TRUE`) `HandlerOwnsEntry` is false, and the late
  `handle_disconnect` removes the newcomer's entry.
* Escape on the login page opens the room at once (`view/settings.rs:531`). A join sent from there may overtake the voice authentication,
  which is a simple way to the panic of `voice_two_connections`, and may be carried out before the audio manager knows its own id.
* Mute survives leaving and joining in the application (`is_input_muted`, `RoomPage.muted`) but not on the server, which resets it
  (`handler.rs:223`), nor in the page's list (`room.rs:641`): after join, mute, leave, join everybody is shown an open microphone that is muted.
  `RoomTellsTruth` therefore says of mute that the list is the server's, the switch the microphone's, and that whom the server
  shows as muted is muted, and not the converse.
* A handler and its client that both sit in `write_all()` while the other's bytes fill the kernel wait for each other for good
  (`handler.rs:92`, `tcp_client.rs:181`); `Delivered` names this as the exception.
* `UserSentMessage` is eight bytes longer than the `ChatMessageRequest` it comes from, so a request that just fits makes the server's
  handler panic in `encode()`, and a `LoginResponse` with some 1500 participants does the same. A panic skips `handle_disconnect`
  and `UserDisconnected`.
* A payload shorter than its fields is taken for an incomplete one, and the connection stalls behind it (`handler.rs:68`).
* Audio captured while muted is sent if the mute ends before the task comes to it, and what was captured before a mute but not yet
  looked at is dropped: the flag is that of the moment the task looks (`audio_manager.rs:59`).
* A device change makes a new encoder, which begins again at sequence 0, where `io_manager.rs:33` says "they all write to the same stream".
* A crash between emptying and filling `config.toml` costs all settings: the next start takes the defaults (`config.rs:98`).
* The settings page shows a device as selected that `ConfigState` could not find and does not use (`view/settings.rs:490`).
* Per-user volumes are stored under ids that the server hands out anew (`audio_source.rs:55`).
* A chunk that the resampler rejects is dropped (`EverySampleSent` counts it as having made nothing), and a save that fails when the
  application closes is not tried again (`NothingUnsaved` is about a running application).
* A last frame of less than 960 samples is never sent (see `EverySampleSent`), so the music bot's files end up to 20 ms early.

## 7. Theorems

| theorem | says | assumes |
|---|---|---|
| `MgmtTypeCorrect` | `MgmtTypeOK` | |
| `EntryOwnership` | `HandlerOwnsEntry` | `PortReuse = FALSE` |
| `ListsConverge`, `ChatIsAttributable` | `ViewsConverge`, `ChatAttributable` | `PortReuse = FALSE` |
| `StreamImplemented` | `ManagementServer` implements `EventStream` | `PortReuse = FALSE`, `RelayListens = TRUE` |
| `RelayTypeCorrect`, `RelayNeverPanics`, `VoiceIsAttributed` | `RelayTypeOK`, `RelayAlive`, `RelayedIdentity` | clients as `RelayOverStream` has them |
| `MapsAlwaysAgree` | `MapsAgree` | one UDP address per client |
| `WholeImplementsRelay`, `WholeRelayNeverPanics`, `WholeVoiceIsAttributed`, `HalvesAgree` | `VoiceServer` implements `RelayOverStream`; `RelayAlive`, `RelayedIdentity`, `RelayInSync` | `RelayListens = TRUE`, `PortReuse = FALSE`, `Eager = {}` |
| `NothingIsLeft` | `NothingLeft` | these, and one UDP address per client |
| `UdpTypeCorrect`, `CallbackIsCurrent`, `UdpRefinesRpc` | `UdpTypeOK`, `CurrentCallback`, `UdpClient` implements `Rpc` | |
| `SdkTypeCorrect`, `CallbacksAreAwaited`, `EventsComeOnce`, `EventsComeInOrder`, `TcpRefinesRpc` | `SdkTypeOK`, `CallbacksAwaited`, `EventsOnce`, `EventsInOrder`, `TcpClient` under `SdkClient` implements `Rpc` | |
| `DesktopTypeCorrect`, `StreamsMatchVoice`, `StreamsAreCurrent`, `NobodyHaunts`, `RoomShowsTheTruth` | `DesktopTypeOK`, `StreamsFollowVoice`, `StreamsCurrent`, `NoGhostStreams`, `RoomTellsTruth` | `Impatient = FALSE` |
| `FramingTypeCorrect`, `FramesStayWhole`, `NothingIsWithheld` | `FramingTypeOK`, `WholeFrames`, `NothingWithheld` | |
| `LinkImplemented` | `Framing` implements `PacketLink` | |
| `SoundTypeCorrect`, `EverySampleIsSent`, `MutedStaysSilent`, `TheLastWins`, `SoundsAreGapless`, `NothingStaysUnsaved`, `InputsAreCurrent` | `SoundTypeOK`, `EverySampleSent`, `MutedIsSilent`, `LastWins`, `Gapless`, `NothingUnsaved`, `InputsCurrent` | |

Each holds for all values of the constants that satisfy the modules' assumptions, any number of users, addresses, attempts and devices included, and for
frames, reads, buffers, chunks and sounds of any length. The assumptions are those of the runs: `PortReuse = FALSE` says that a peer's port
comes back only after the handler of its previous connection has ended, `RelayListens = TRUE` that the relay could bind its
port, `Eager = {}` that the requests over each connection come only after the voice authentication of that connection's own user, and `Impatient = FALSE` that the user does not leave the login page
by Escape; sections 3 and 6 say what happens otherwise.

* **Management.** `HandlerOwnsEntry` is not inductive. `Owned` joins to it `Shape` (the types, and that a login still collecting starts
  with its response) and `Exclusive`: a handler exists exactly for the ids below `next_user_id`, and no two live handlers have one
  address, which follows from `AddressFree`. `StreamImplemented` needs `Streaming`, which adds `OwnEffects`: the events left in
  `effects[h]` are about `h`, and only a running or an exiting handler has effects left; so an event a handler sends is about itself
  and comes between its first and last.
* **Lists.** A client's list is right in the end because the last thing said about a user is right. `Listed` takes an entry apart into name, voice
  and microphone (`Facets`), as one packet speaks of some of them only. What a handler has left to broadcast says what its entry is now
  (`Truthful`); in a receiver's queue the last packet to say anything on a facet is right, or another is still to be broadcast
  (`Heard`); and where nothing is left to be said on a facet, what is listed is right (`Seen`). A packet that needs an entry finds one or
  comes after a `UserJoinedServer` (`Known`), unless its user is leaving, and then a farewell follows it (`FarewellFollows`): this keeps a
  late `UserJoinedVoice` from being lost, and is `ChatAttributable`. All of it is stated of the client's list and of the list that a
  login has under construction, for the addresses it has visited; so a broadcast that overtakes the snapshot or is overtaken by it makes
  no difference. `Asked` says that the login is a connection's first request and the only one, and `ToldOwn` that nothing about a client
  itself gets through to it, but its chat.
* **Relay.** `RelayInv` joins what the sender has announced (`Announced`), what tokens and addresses datagrams may carry (`Genuine`), and
  that an answered authentication has settled in the session (`Answered`): a client that has its answer and joins is in a session with an
  address, so `unwrap()` has something to take. `Paired` is the strengthening of `MapsAgree`.
* **Whole server.** Each of its steps is a step of `RelayOverStream` or none, once three things are known of the management half: only the
  handler of an authenticated client is asked to join or has that to report (`Granted`), a client is given no token but its own (`Proper`),
  and events waiting are no more than the requests, arrivals and departures they report (`Counted`), which is the bound of the queue. What
  is proved of the relay is then proved of it here. `Synced` is the strengthening of `RelayInSync`: the event a handler has left, or else the
  last one about it in the queue, or else its session, says what its entry in `users` says. After a user's last event no session is
  left, and with one address each, no cached address.
* **TCP client.** `Placed` follows each request: it is nowhere before it is made (`NotMade`), then once in the shared send queue (`InQueue`),
  then on one connection at most (`Taken`), where it was sent or carried out at most once and answered no more often than that
  (`OnTheWay`). `CallbacksAwaited` says this only of requests whose callers still wait; the invariant must go on following those whose
  callers have given up, or the server could be shown an old request twice. The steps rest on what `Append` and `Tail` do to the
  number of `Occurrences`, and every step that does not move a request is dismissed by one lemma (`UndisturbedStays`).
* **Events.** `OrderInv` cuts the news sent so far into four pieces that follow each other without a gap: shown, held by the listener,
  waiting in the queue, under way (`NewsFollow`). `EventsInOrder` is stated by positions (`Shows`) and not with `SelectSeq`, which no
  installed prover expands. `OnceInv` says of each pushed packet and each login's answer that it is in one place at most: on one
  connection, in the queue, with one listener, or shown (`Follows`); nowhere before it is sent, and somewhere afterwards while all
  connections are open. Both are about any number of packets and, the second, of connections; the run is about two of each.
* **UDP client.** `UdpInv` says that the callback under a call's id is the one of its current attempt, and that an answer on its way
  was executed; a late answer, or the clean-up after an expiry, can therefore not touch the next attempt.
* **Desktop.** `DesktopInv` adds to the two stream properties that no event is about the user itself (`OthersOnly`), so the user is in
  `users_in_voice` only by a result of its own, and that before the room opens no command can be on the way (`BeforeRoom`): otherwise the
  audio manager, which does not know its user yet, could be told of a join. `AudioOK` states the stream properties of any audio manager, so that each of its
  operations is proved once to keep them, whatever messages lead to it. `Foretold` computes from the events on their way who will be taken to be in
  voice, and says that those are. `Patient` is for a user who waits for one click to be over: then one job at most is under way, on the bus or at the
  server (`OneAtATime`), page, audio manager and server differ by that job alone (`InStep`; `SameEntry` for the entry of the user in the list,
  mute included), and the list of the login comes before the first click (`FirstList`), so that it cannot undo one.
* **Framing.** While only frames that both sides know have been taken, the accumulator begins where the next packet does
  (`NextAtHead`), which makes the packet taken the next one; that a frame begun fits its header (`BegunFits`) makes its length field
  its length. Where a task waits after decoding, its accumulator has just been found without a packet in full, and it has not grown since.
* **Sound.** A step is taken apart first: `RecordingPart` and `PlaybackPart` say what the messages and threads can do to either, so that each
  has an invariant of its own. `Accounted` keeps the books of each pipeline: what it has made is what it has sent and what it holds
  (`Balanced`), a buffer is short of a chunk or a frame wherever its loop has ended (`Drained`), and a pipeline not yet started has nothing
  (`Unused`); the numbers wrap as their counts do (`WrapAdvanced`). `Silent` adds to `MutedIsSilent` that a task which has passed on a
  buffer since the mute has none in hand. `PlaybackInv` says that what is left over, and then what is next, continue what was
  heard last (`Queue`, `Order`), and that the samples of earlier sounds heard so far and those left over make up at most one chunk
  (`StaleFits`).

Proofs are written action by action; an action that leaves the variables of a conjunct alone is dismissed in one step.

Only model-checked: what is about liveness (`RequestsAnswered`, `DepartureSeen`, `JoinReachesRelay`, `SessionReclaimed`,
`UdpReturns`, `Delivered`, `RecordingsEnd`), which is out of the prover's reach. Every invariant and every refinement that a passing run
checks is a theorem as well.

## 8. Not modelled, and the plan

Left out because there is no protocol in it: layout and styling, the arithmetic of samples, the Opus, NetEq and resampling libraries, logging,
the music bot (an SDK user that reads a file), ports and start-up. Left out because nothing depends on it: the chat history of the
room page, statistics, a second receiver of the event stream, which no program takes.

Next: `Sound` over `Desktop`'s commands instead of messages that may come at any time, and the same for what `Desktop` takes its server for.
