----------------------------- MODULE MCConsumer -----------------------------
(* Two consumer processes, one handling two copies at a time and the other *)
(* one; one message in two copies; two faults.                             *)
EXTENDS Consumer, TLC

CONSTANTS w1, w2

TwoAndOne == w1 :> 2 @@ w2 :> 1
=============================================================================
