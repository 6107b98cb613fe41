\* Two requests at a time, two subjects of a provider.
CONSTANTS
  None = None
  Procs = {p1, p2}
  Ids = {u1, u2}
  Subjects = {x1, x2}
  Addresses = {a1, a2}
  Operations = {"dbFail", "crash"}
SPECIFICATION Spec
SYMMETRY Symmetry
CONSTRAINT FewRows
INVARIANTS TypeOK DeletionBlocked RegistrationKept VerifiedProven FederatedUserLinked
