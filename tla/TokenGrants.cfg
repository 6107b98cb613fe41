\* Two concurrent requests redeem, refresh, replay and revoke while the
\* browser login is signed out.
CONSTANTS
  u1 = u1  None = None
  Users = {u1}
  Logins = {l1}
  Owner <- OneOwner
  Codes = {c1, c2}
  Grants = {g1, g2, g3}
  Procs = {p1, p2}
  Operations = {"login", "authorize", "exchange", "refresh", "logout", "revoke", "endSession"}
SPECIFICATION Spec
SYMMETRY Symmetry
INVARIANTS TypeOK RotatedParentRetired RedeemedCodeSpent RedemptionsBounded
PROPERTIES RegistrySpec
