------------------------------ MODULE MCDesktop -----------------------------
(* Small instances of Desktop: two devices of different rates.              *)
EXTENDS Desktop, TLC

CONSTANTS d1, d2

MCToken == [i \in 1..MaxUsers |-> 100 + i]
TwoRates == d1 :> 48000 @@ d2 :> 44100
=============================================================================
