----------------------------- MODULE AccountsMC -----------------------------
(* Instances of Accounts for TLC. *)
EXTENDS Accounts, TLC

Symmetry == Permutations(Procs) \cup Permutations(Ids) \cup Permutations(Subjects)
              \cup Permutations(Addresses)

\* Bounds: at most three things refer to an account; one with an address has a
\* password and at most one such thing, none while a link or request is about the
\* address.
FewRows ==
  \A u \in Ids :
    LET things == Cardinality(rows[u]) + requests[u] + Cardinality(Identities(u))
        trusted == Cardinality(proven[u] \cup mistaken[u])
        busy == sent[u] # None \/ \E p \in Procs : req[p].id = u /\ req[p].address # None
    IN  IF busy \/ trusted > 0 \/ address[u] # None
        THEN acct[u] \in {"password", "none"} /\ trusted <= 2 /\ things <= (IF busy THEN 0 ELSE 1)
        ELSE things <= 3
=============================================================================
