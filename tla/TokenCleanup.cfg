\* The cleanup goroutine against requests in flight: ids and rows that go
\* stale between two statements.
CONSTANTS
  u1 = u1  None = None
  Users = {u1}
  Logins = {l1}
  Owner <- OneOwner
  Codes = {c1}
  Grants = {g1, g2}
  Procs = {p1}
  Operations = {"login", "authorize", "exchange", "refresh", "clock", "sweep", "sweepFail"}
SPECIFICATION Spec
SYMMETRY Symmetry
INVARIANTS LinkInherited
