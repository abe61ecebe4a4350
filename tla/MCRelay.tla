------------------------------- MODULE MCRelay ------------------------------
(* Small instances of RelayOverStream.                                      *)
EXTENDS RelayOverStream, TLC

CONSTANTS u1, u2, u3

MCToken == [i \in 1..MaxUsers |-> 100 + i]
OneEach == [i \in 1..MaxUsers |-> CASE i = 1 -> {u1} [] i = 2 -> {u2} [] OTHER -> {u3}]
=============================================================================
