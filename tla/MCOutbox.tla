------------------------------ MODULE MCOutbox ------------------------------
(* Finite instances of Outbox; workers are interchangeable.                *)
EXTENDS Outbox, TLC

WorkerSymmetry == Permutations(Workers)
=============================================================================
