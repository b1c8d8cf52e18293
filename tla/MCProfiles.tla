----------------------------- MODULE MCProfiles -----------------------------
(* Finite instances of Profiles; requests, paths and names are             *)
(* interchangeable.                                                        *)
EXTENDS Profiles, TLC

Symmetry == Permutations(Requests) \cup Permutations(Paths) \cup Permutations(Names)
=============================================================================
