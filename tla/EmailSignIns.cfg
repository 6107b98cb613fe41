\* Two requests at a time, three links, two scopes.
CONSTANTS
  None = None
  openid = openid
  email = email
  Procs = {p1, p2}
  Links = {l1, l2, l3}
  Scopes <- TwoScopes
  Asks <- ThreeAsks
  Operations = {"dbFail", "crash"}
SPECIFICATION Spec
SYMMETRY Symmetry
CONSTRAINTS NothingLost UnapprovedAlone
INVARIANTS TypeOK LinkSpent LinksBounded CodesConsented
