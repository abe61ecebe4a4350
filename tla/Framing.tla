------------------------------- MODULE Framing -------------------------------
(***************************************************************************)
(* The bytes under a TCP connection: how the client's handler task         *)
(* (sdk/src/network/tcp_client.rs) and the server's UserHandler write      *)
(* packets as frames, read them in pieces and put them together again      *)
(* (protocol/src).                                                         *)
(*                                                                         *)
(* Bytes are positions: the frames a side sends are laid end to end, end   *)
(* says where each of them ends, and every variable is a position in one   *)
(* of the two streams.  Each side is ONE task: while it waits in           *)
(* write_all() it does not read.  The connection stays open.               *)
(***************************************************************************)
EXTENDS Integers, Sequences

CONSTANTS
    Scripts,        \* what the two sides may come to send: see Script
    MAX_PAYLOAD,    \* the longest payload a u16 counts, 65535
    READ_SIZE,      \* size of the buffer read() fills, 4096
    MaxFrames,      \* bound: frames in a script (for Delivered only)
    Capacity        \* bytes the kernels hold on the way in one direction

HEADER == 3         \* packet id and payload length
Sides == {"client", "server"}
Peer(s) == IF s = "client" THEN "server" ELSE "client"

\* A frame is plain if the other side decodes it.  A peer of another version
\* may send one with an id that is not known, with a payload in which decode()
\* finds an error, or with one too short for the fields it looks for.
Kinds == {"plain", "unknown", "invalid", "short"}
Script(t) == \A s \in Sides :
    /\ t[s].count \in Nat
    /\ t[s].end \in [0..t[s].count -> Nat] /\ t[s].end[0] = 0
    /\ t[s].kind \in [1..t[s].count -> Kinds]
    /\ \A i, j \in 0..t[s].count : i < j => t[s].end[i] + HEADER <= t[s].end[j]

ASSUME FramingAssumption ==
    /\ MaxFrames \in Nat /\ MAX_PAYLOAD \in Nat /\ READ_SIZE \in Nat \ {0} /\ Capacity \in Nat \ {0}
    /\ \A t \in Scripts : Script(t) /\ \A s \in Sides : t[s].count <= MaxFrames

VARIABLES
    script,     \* the frames each side sends in this behaviour
    pc,         \* what each side's task is doing
    back,       \* what it goes back to after write_all()
    begun,      \* frames it has begun to write
    written,    \* bytes it has handed to its kernel
    got,        \* bytes of the peer's stream it has read
    used,       \* those of them that have left its accumulator
    received    \* the packets it has handled, 0 for one that was never sent

framingVars == <<script, pc, back, begun, written, got, used, received>>

Count(s) == script[s].count
End(s, k) == script[s].end[k]
Kind(s, k) == script[s].kind[k]

FramingInit ==
    /\ script \in Scripts
    /\ pc = [s \in Sides |-> "select"] /\ back = [s \in Sides |-> "select"]
    /\ begun = [s \in Sides |-> 0] /\ written = [s \in Sides |-> 0]
    /\ got = [s \in Sides |-> 0] /\ used = [s \in Sides |-> 0]
    /\ received = [s \in Sides |-> <<>>]

-----------------------------------------------------------------------------
(* Writing.                                                                 *)

\* The length in the header: encode() panics when it does not fit.
\* Mutant: the length is truncated to 16 bits.
TooLong == -1
Payload(s, k) == End(s, k) - End(s, k - 1) - HEADER
TruncatedLength(s, k) == Payload(s, k) % (MAX_PAYLOAD + 1)
LengthField(s, k) == IF Payload(s, k) <= MAX_PAYLOAD THEN Payload(s, k) ELSE TooLong

BeginsFrame(s, return) ==
    /\ begun[s] < Count(s)
    /\ LengthField(s, begun[s] + 1) # TooLong
    /\ begun' = [begun EXCEPT ![s] = @ + 1]
    /\ pc' = [pc EXCEPT ![s] = "write"]
    /\ back' = [back EXCEPT ![s] = return]

\* select! takes the next packet of the send queue, or the next broadcast.
\* Both were encoded elsewhere: what is too long does not get here.
MayBegin(s) == pc[s] = "select"
Begin(s) ==
    /\ MayBegin(s)
    /\ BeginsFrame(s, "select")
    /\ UNCHANGED <<script, written, got, used, received>>

\* One turn of write_all(): as many bytes as the kernel happens to take.
Room(s) == Capacity - (written[s] - got[Peer(s)])
Write(s) == \E n \in 1..Capacity :
    /\ pc[s] = "write"
    /\ n <= Room(s) /\ written[s] + n <= End(s, begun[s])
    /\ written' = [written EXCEPT ![s] = @ + n]
    /\ pc' = IF written'[s] = End(s, begun[s])
             THEN [pc EXCEPT ![s] = back[s]] ELSE pc
    /\ UNCHANGED <<script, back, begun, got, used, received>>

-----------------------------------------------------------------------------
(* Reading.  The accumulator of s holds bytes used[s] + 1 to got[s] of the  *)
(* peer's stream, and decode() looks at its first frame.                    *)

\* write_all() is awaited in the body of a branch of select!, not raced by it.
\* Mutant: it is raced by the read, which drops it where it happens to be.
MayReadWhileWriting(s) == pc[s] \in {"select", "write"}
MayRead(s) == pc[s] = "select"
Read(s) == \E n \in 1..READ_SIZE :
    /\ MayRead(s)
    /\ n <= written[Peer(s)] - got[s]
    /\ got' = [got EXCEPT ![s] = @ + n]
    /\ pc' = [pc EXCEPT ![s] = "decode"]
    /\ UNCHANGED <<script, back, begun, written, used, received>>

Buffered(s) == got[s] - used[s]
AtHead(s, k) == k \in 1..Count(Peer(s)) /\ used[s] = End(Peer(s), k - 1)
Astray(s) == \A k \in 0..Count(Peer(s)) : used[s] # End(Peer(s), k)

\* Mutant: a payload that is just complete is taken for incomplete.
CompleteAndMore(s, k) == Buffered(s) > HEADER + LengthField(Peer(s), k)
Complete(s, k) == Buffered(s) >= HEADER + LengthField(Peer(s), k)
Decodable(s, k) == Kind(Peer(s), k) = "plain" /\ Complete(s, k)
Erroneous(s, k) ==
    \/ Kind(Peer(s), k) = "unknown" /\ Buffered(s) > 0
    \/ Kind(Peer(s), k) = "invalid" /\ Complete(s, k)

\* A packet p of n bytes is handled and drained.  The server may write a
\* response as it handles the packet, or panic because what it has to encode
\* is too long; the client only passes packets on.
\* Mutant: the loop ends after one packet.
AfterPacketOnce(s) == pc' = [pc EXCEPT ![s] = "select"] /\ UNCHANGED <<begun, back>>
AfterPacket(s) ==
    \/ UNCHANGED <<pc, begun, back>>
    \/ s = "server" /\ BeginsFrame(s, "decode")
    \/ /\ s = "server" /\ begun[s] < Count(s)
       /\ LengthField(s, begun[s] + 1) = TooLong
       /\ pc' = [pc EXCEPT ![s] = "panicked"]
       /\ UNCHANGED <<begun, back>>
Takes(s, p, n) ==
    /\ pc[s] = "decode"
    /\ received' = [received EXCEPT ![s] = Append(@, p)]
    /\ used' = [used EXCEPT ![s] = @ + n]
    /\ AfterPacket(s)
    /\ UNCHANGED <<script, written, got>>

TakePacket(s) == \E k \in 1..Count(Peer(s)) :
    /\ AtHead(s, k) /\ Decodable(s, k)
    /\ Takes(s, k, HEADER + LengthField(Peer(s), k))

\* An error other than a lack of bytes: everything that was read is dropped,
\* up to wherever the last read() happened to end.
ClearBuffer(s) ==
    /\ pc[s] = "decode"
    /\ Astray(s) \/ \E k \in 1..Count(Peer(s)) : AtHead(s, k) /\ Erroneous(s, k)
    /\ used' = [used EXCEPT ![s] = got[s]]
    /\ pc' = [pc EXCEPT ![s] = "select"]
    /\ UNCHANGED <<script, back, begun, written, got, received>>

\* IncompletePayload, or PacketTooShort: also for a payload that is complete
\* and too short for its fields.
AwaitMore(s) ==
    /\ pc[s] = "decode"
    /\ \A k \in 1..Count(Peer(s)) :
          AtHead(s, k) => ~Decodable(s, k) /\ ~Erroneous(s, k)
    /\ pc' = [pc EXCEPT ![s] = "select"]
    /\ UNCHANGED <<script, back, begun, written, got, used, received>>

\* Between two frames, bytes may look like any packet.
TakeGarbage(s) ==
    /\ Astray(s)
    /\ \E n \in HEADER..(written[Peer(s)]) : n <= Buffered(s) /\ Takes(s, 0, n)

Decode(s) == TakePacket(s) \/ ClearBuffer(s) \/ AwaitMore(s) \/ TakeGarbage(s)
Task(s) == Begin(s) \/ Write(s) \/ Read(s) \/ Decode(s)
FramingNext == \E s \in Sides : Task(s)
FramingSpec == FramingInit /\ [][FramingNext]_framingVars

\* A task that can do something is polled.
FramingFairSpec == FramingSpec /\ \A s \in Sides : WF_framingVars(Task(s))

-----------------------------------------------------------------------------
(* Properties.                                                              *)

PcValues == {"select", "write", "decode", "panicked"}

\* The types; nothing is read that was not written or dropped that was not
\* read, and the kernels never hold more than they have room for.
FramingTypeOK ==
    /\ script \in Scripts
    /\ pc \in [Sides -> PcValues] /\ back \in [Sides -> {"select", "decode"}]
    /\ received \in [Sides -> Seq(Nat)]
    /\ begun \in [Sides -> Nat] /\ written \in [Sides -> Nat]
    /\ got \in [Sides -> Nat] /\ used \in [Sides -> Nat]
    /\ \A s \in Sides :
          /\ begun[s] <= Count(s)
          /\ used[s] <= got[s] /\ got[s] <= written[Peer(s)]
          /\ written[Peer(s)] - got[s] <= Capacity

\* Responses and broadcasts, requests and events of one side never get mixed
\* in the stream: unless a frame is just being written the stream ends with a
\* whole one, even if the task has panicked.
WholeFrames == \A s \in Sides :
    IF pc[s] = "write"
    THEN /\ begun[s] > 0
         /\ End(s, begun[s] - 1) <= written[s] /\ written[s] < End(s, begun[s])
    ELSE written[s] = End(s, begun[s])

\* However the frames are cut into reads, a task goes back to waiting for more
\* bytes only when no packet that is there in full has been left unhandled.
Waits(s) == pc[s] = "select" \/ (pc[s] = "write" /\ back[s] = "select")
NothingWithheld == \A s \in Sides : \A k \in 1..Count(Peer(s)) :
    Waits(s) /\ AtHead(s, k) => ~Decodable(s, k)

\* The two sides of a connection are a PacketLink: until the first foreign
\* frame each side handles the peer's packets, all of them, once, in order.
IntactPackets == [s \in Sides |->
    {k \in 1..Count(s) : \A j \in 1..k : Kind(s, j) = "plain"}]
Link == INSTANCE PacketLink WITH intact <- IntactPackets, sent <- begun
ImplementsLink == Link!LinkSpec

\* Every packet arrives, unless a task has panicked or both tasks are stuck in
\* write_all() because neither reads.
Jammed == \A s \in Sides : pc[s] = "write" /\ Room(s) = 0
Delivered == \A s \in Sides : \A k \in 1..MaxFrames :
    (k <= begun[Peer(s)] /\ k \in IntactPackets[Peer(s)])
        ~> \/ Len(received[s]) >= k
           \/ Jammed
           \/ pc["server"] = "panicked"
=============================================================================
