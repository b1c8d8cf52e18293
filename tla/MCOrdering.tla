----------------------------- MODULE MCOrdering -----------------------------
(* Finite instances of Ordering; requests are interchangeable.             *)
EXTENDS Ordering, TLC

Symmetry == Permutations(Requests)
=============================================================================
