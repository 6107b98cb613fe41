------------------------------ MODULE ServerMC ------------------------------
(* Instances of Server for TLC. *)
EXTENDS Server, TLC

CONSTANTS server, tool, k1, k2, v0, v1, bad, empty

\* One migration of each kind, and one that a late stamp may make run again.
KindOf == <<"again", "rebuild", "once">>

\* A number, which keeps what is in memory, and a switch, which has a fallback.
TwoKeys == {k1, k2}
Defaults == [k \in TwoKeys |-> v0]
CanBeRead == [k \in TwoKeys |-> {v0, v1}]
FallbackOf == [k \in TwoKeys |-> IF k = k1 THEN None ELSE v1]

\* Both settings, one of them back, and two values that cannot be read.
SomeUpdates == {[k \in TwoKeys |-> v1], [k \in TwoKeys |-> IF k = k1 THEN v0 ELSE None],
                [k \in TwoKeys |-> IF k = k1 THEN bad ELSE empty]}

Symmetry == Permutations(Procs) \cup Permutations(Users)

\* Bounds: runs of migrations that were disturbed are followed on a file that nobody
\* has used, changes of the settings when there is one administrator.
AsStarted == \A k \in Keys : setting[k] \in {None, v0} /\ config[k] = v0
Unused == /\ \A p \in Procs : At(p, "idle")
          /\ \A u \in Users : user[u] = "none"
          /\ AsStarted
OneAdministrator ==
  /\ Cardinality({u \in Users : user[u] = "admin"}) = 1 /\ \A u \in Users : user[u] # "user"
  /\ \A p \in Procs : req[p].step \notin {"create", "promote", "mark"}
Followed ==
  /\ disturbed => Unused
  /\ ~AsStarted \/ (\E p \in Procs : At(p, "set")) => OneAdministrator
=============================================================================
