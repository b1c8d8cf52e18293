----------------------------- MODULE MCActivity -----------------------------
(* Finite instances of Activity; requests, paths and values are          *)
(* interchangeable.                                                        *)
EXTENDS Activity, TLC

Symmetry == Permutations(Requests) \cup Permutations(Paths) \cup Permutations(Values)
=============================================================================
