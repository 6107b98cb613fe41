\* Two requests at a time, two challenges, one device.
CONSTANTS
  None = None
  Procs = {p1, p2}
  Challenges = {c1, c2}
  Devices = {d1}
  Configs <- ThreeConfigs
  Limit = 2
  MaxFailed = 1
  Operations = {"dbFail", "totp", "settings", "clock", "revoke", "crash"}
SPECIFICATION Spec
SYMMETRY Symmetry
CONSTRAINTS NothingLost SecondUnderBoth
INVARIANTS TypeOK GuessesBounded ChallengeSpent DeviceEarned
