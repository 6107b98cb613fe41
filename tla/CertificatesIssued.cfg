\* Two requests or commands at a time, five certificates.
\* The instance has finitely many rows, so it may come to rest.
CONSTANTS
  Procs = {p1, p2}
  MaxCerts = 5
  MaxRoots = 1
SPECIFICATION Spec
SYMMETRY Symmetry
CONSTRAINT Filling
INVARIANTS LateUses OrphansBounded
CHECK_DEADLOCK FALSE
