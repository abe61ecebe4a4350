------------------------------- MODULE MCVoice ------------------------------
(* Small instances of VoiceServer.                                          *)
EXTENDS VoiceServer, TLC

CONSTANTS a1, a2, u1, u2

MCToken == [i \in 1..MaxUsers |-> 100 + i]
OneEach == [i \in 1..MaxUsers |-> IF i = 1 THEN {u1} ELSE {u2}]
AddressSymmetry == Permutations(Addresses)

\* The first client joins and leaves; whoever takes its port next joins.
JoinLeaveJoin == [i \in 1..MaxUsers |-> [r \in 1..MaxRequests |->
    IF i = 1 THEN {"Login", "Join", "Leave"} ELSE {"Login", "Join"}]]
=============================================================================
