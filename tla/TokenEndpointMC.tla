-------------------------- MODULE TokenEndpointMC --------------------------
(* Instances of TokenEndpoint for TLC. *)
EXTENDS TokenEndpointInv, TLC

CONSTANT u1

\* Every login belongs to the one user of the instance.
OneOwner == [l \in Logins |-> u1]

Symmetry == Permutations(Grants) \cup Permutations(Codes) \cup Permutations(Procs)
=============================================================================
