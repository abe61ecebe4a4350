----------------------------- MODULE PacketLink ------------------------------
(***************************************************************************)
(* What the rest of this project takes a TCP connection of voiceapp to be: *)
(* a link that carries packets, each way, in order, once, and none that    *)
(* was not sent.  ManagementServer and TcpClient use it so; Framing, which *)
(* is about the bytes, implements it.                                      *)
(*                                                                         *)
(* Packets are numbered in the order they are sent.  The promise is made   *)
(* for those that only packets both sides know go before; behind a foreign *)
(* one anything may be delivered, a packet nobody sent (0) included.       *)
(***************************************************************************)
EXTENDS Integers, Sequences

VARIABLES
    intact,     \* intact[s]: the packets of s that the promise is about
    sent,       \* how many packets each side has sent
    received    \* the packets each side has been given, as numbers

linkVars == <<intact, sent, received>>

Sides == {"client", "server"}
Peer(s) == IF s = "client" THEN "server" ELSE "client"

LinkInit ==
    /\ intact \in [Sides -> SUBSET Nat]
    /\ sent = [s \in Sides |-> 0]
    /\ received = [s \in Sides |-> <<>>]

Send(s) == sent' = [sent EXCEPT ![s] = @ + 1]
Deliver(s) == \E p \in 0..sent[Peer(s)] :
    /\ Len(received[s]) + 1 \in intact[Peer(s)] => p = Len(received[s]) + 1
    /\ received' = [received EXCEPT ![s] = Append(@, p)]

\* The server may answer a packet as it takes it.
LinkNext ==
    /\ UNCHANGED intact
    /\ \E s \in Sides : /\ Send(s) \/ UNCHANGED sent
                        /\ Deliver(s) \/ UNCHANGED received

LinkSpec == LinkInit /\ [][LinkNext]_linkVars
=============================================================================
