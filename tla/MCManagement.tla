---------------------------- MODULE MCManagement ----------------------------
(* Small instances of ManagementServer.                                     *)
EXTENDS ManagementServer, TLC

CONSTANTS a1, a2, a3

MCToken == [i \in 1..MaxUsers |-> 100 + i]
AddressSymmetry == Permutations(Addresses)

\* What the first client may send after its login; the others only log in.
First(second, third) ==
    [i \in 1..MaxUsers |-> [r \in 1..MaxRequests |->
        IF r = 1 THEN {"Login"} ELSE IF i # 1 THEN {}
        ELSE IF r = 2 THEN second ELSE third]]
JoinLeaveMuteChat == First({"Join", "Chat"}, {"Leave", "Mute"})
All(kinds) == [i \in 1..MaxUsers |-> [r \in 1..MaxRequests |-> kinds]]
Chatting == All({"Login", "Chat"})
Pinging == All({"Login", "Ping"})
=============================================================================
