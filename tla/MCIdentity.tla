----------------------------- MODULE MCIdentity -----------------------------
(* Finite instances of Identity; requests served are interchangeable.      *)
EXTENDS Identity, TLC

Symmetry == Permutations(Requests) \cup Permutations(Passwords)
=============================================================================
