\* What must happen in the end: idle logins are closed, deactivated users are
\* cut off.
CONSTANTS
  u1 = u1  None = None
  Users = {u1}
  Logins = {l1}
  Owner <- OneOwner
  Codes = {}
  Grants = {g1}
  Procs = {p1}
  Operations = {"login", "authorize", "direct", "clock", "sweep", "deactivate", "dbFail"}
SPECIFICATION FairSpec
PROPERTIES IdleLoginCloses DeactivationSettles
