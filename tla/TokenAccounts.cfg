\* Account operations with two statements against requests in flight, with
\* statements that fail and a restart in between.
CONSTANTS
  u1 = u1  None = None
  Users = {u1}
  Logins = {l1}
  Owner <- OneOwner
  Codes = {c1}
  Grants = {g1, g2}
  Procs = {p1, p2}
  Operations = {"login", "exchange", "refresh", "revokeOthers", "revokeAll", "deactivate", "reset", "crash", "dbFail"}
SPECIFICATION Spec
SYMMETRY Symmetry
INVARIANTS CascadeComplete DeactivationComplete
