\* Two requests at a time on one account, with failing statements and restarts.
CONSTANTS
  None = None
  Procs = {p1, p2}
  Passwords = {w1}
  Secrets = {s1, s2}
  MaxAttempts = 3
  MaxFailed = 4
  Operations = {"dbFail", "crash"}
SPECIFICATION Spec
SYMMETRY RowSymmetry
INVARIANTS TypeOK LateGuesses SecretProven LockReached
