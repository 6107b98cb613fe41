\* Cleanup deletes the session of an unexpired refresh token.
\* The instance has finitely many rows, so it may come to rest.
CONSTANTS
  u1 = u1  None = None
  Users = {u1}
  Logins = {l1}
  Owner <- OneOwner
  Codes = {c1}
  Grants = {g1}
  Procs = {p1}
  Operations = {"direct", "clock", "sweep"}
SPECIFICATION Spec
INVARIANT RefreshLifetimeKept
CHECK_DEADLOCK FALSE
