\* Two requests poll, approve and deny one device code while the user's access
\* changes underneath.
CONSTANTS
  u1 = u1  None = None
  Users = {u1}
  Logins = {}
  Owner <- OneOwner
  Codes = {}
  Grants = {g1, g2}
  Procs = {p1, p2}
  Devices = {d1}
  BaseInterval = 1
  MaxInterval = 2
  Operations = {"direct", "deactivate", "crash", "dbFail"}
SPECIFICATION DeviceSpec
SYMMETRY DeviceSymmetry
CONSTRAINT NothingMissed
INVARIANTS DeviceTypeOK DeviceGrantApproved DeviceCodeSpent SlowDownsCounted
PROPERTIES FirstAnswerStands TokenEndpointSpec
