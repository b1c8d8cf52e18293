---------------------------- MODULE MCMembership ----------------------------
(* Finite instances of Membership; the users other than the founder, the   *)
(* invitations and the requests are interchangeable.                       *)
EXTENDS Membership, TLC

Symmetry == Permutations(Users \ {Founder}) \cup Permutations(Invitations)
              \cup Permutations(Requests)
=============================================================================
