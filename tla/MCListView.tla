----------------------------- MODULE MCListView -----------------------------
(* Finite instances of ListView; handlers and tasks are interchangeable.   *)
EXTENDS ListView, TLC

Symmetry == Permutations(Requests) \cup Permutations(Tasks)
=============================================================================
