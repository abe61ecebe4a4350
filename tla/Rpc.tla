--------------------------------- MODULE Rpc ---------------------------------
(***************************************************************************)
(* What a request over either transport of the SDK promises its caller.    *)
(* It is carried out at most Limit times; a caller that is told "ok" asked *)
(* and had its request carried out; one that is told of a failure knows    *)
(* nothing: the request may have been carried out, or may yet be.          *)
(***************************************************************************)
EXTENDS Naturals

CONSTANTS Calls, Limit, Failures    \* the ways a call may fail

VARIABLES outcome, executed
rpcVars == <<outcome, executed>>

RpcInit ==
    /\ outcome = [c \in Calls |-> "idle"]
    /\ executed = [c \in Calls |-> 0]

Ask(c) ==
    /\ outcome[c] = "idle"
    /\ outcome' = [outcome EXCEPT ![c] = "waiting"]
    /\ UNCHANGED executed

Execute(c) ==
    /\ outcome[c] # "idle" /\ executed[c] < Limit
    /\ executed' = [executed EXCEPT ![c] = @ + 1]
    /\ UNCHANGED outcome

Succeed(c) ==
    /\ outcome[c] = "waiting" /\ executed[c] > 0
    /\ outcome' = [outcome EXCEPT ![c] = "ok"]
    /\ UNCHANGED executed

\* Calls that waited on the same connection fail together.
Fail(C) ==
    /\ \A c \in C : outcome[c] = "waiting"
    /\ \E f \in Failures :
         outcome' = [c \in Calls |-> IF c \in C THEN f ELSE outcome[c]]
    /\ UNCHANGED executed

RpcNext ==
    \/ \E c \in Calls : Ask(c) \/ Execute(c) \/ Succeed(c)
    \/ \E C \in SUBSET Calls : Fail(C)

RpcSpec == RpcInit /\ [][RpcNext]_rpcVars
=============================================================================
