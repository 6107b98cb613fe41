----------------------------- MODULE UserRowMC -----------------------------
(* Instances of UserRow for TLC. *)
EXTENDS UserRow, TLC, Combinatorics

RowSymmetry == Permutations(Procs) \cup Permutations(Secrets)

\* How many wrong passwords P requests at a time get: MaxAttempts + P - 1 choose P.
ASSUME ProfilesCounted ==
  Cardinality(Profiles) = choose(MaxAttempts + Cardinality(Procs) - 1, Cardinality(Procs))

\* src/docs-web/docs/users/account-lockout.mdx:21: "Number of consecutive
\* failures before lockout".
LockedAtMaxAttempts == guesses >= MaxAttempts => user.locked

\* pkg/user/update.go:12, "Get existing user to preserve values": the columns a
\* request does not name are left as they are.
ValuesPreserved ==
  [][\A p \in Procs, ch \in Changes :
       UpdateWrite(p, ch) =>
         /\ ch.password = None => user'.password = user.password
         /\ ch.totp_verified = None => user'.totp_verified = user.totp_verified
         /\ ch.require_password_change = None =>
              user'.require_password_change = user.require_password_change]_vars
=============================================================================
