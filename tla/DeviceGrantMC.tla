--------------------------- MODULE DeviceGrantMC ---------------------------
(* Instances of DeviceGrant for TLC. *)
EXTENDS DeviceGrant, TLC

CONSTANT u1

\* Every login belongs to the one user of the instance.
OneOwner == [l \in Logins |-> u1]

DeviceSymmetry == Permutations(Grants) \cup Permutations(Procs)

\* Bound: a behaviour is followed until the UPDATE that consumes a device code,
\* or the revocation behind a deactivation, fails.
NothingMissed == unspent = {} /\ missed = {}
=============================================================================
