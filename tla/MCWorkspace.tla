---------------------------- MODULE MCWorkspace ----------------------------
(* Interchangeable users, slugs, values and requests.                      *)
EXTENDS Workspace, TLC

Symmetry == Permutations(Users) \cup Permutations(Slugs) \cup Permutations(Values)
              \cup Permutations(Requests)
=============================================================================
