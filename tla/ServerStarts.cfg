\* The server and a command, two requests, three migrations, two settings.
CONSTANTS
  None = None
  server = server
  tool = tool
  k1 = k1
  k2 = k2
  v0 = v0
  v1 = v1
  bad = bad
  empty = empty
  Programs = {server, tool}
  Main = server
  Procs = {p1, p2}
  SchemaVersion = 3
  Kind <- KindOf
  Keys <- TwoKeys
  Values = {v0, v1, bad, empty}
  Default <- Defaults
  Readable <- CanBeRead
  Fallback <- FallbackOf
  Empty = empty
  Updates <- SomeUpdates
  Users = {u1, u2, u3}
  Operations = {"dbFail", "signup"}
SPECIFICATION Spec
SYMMETRY Symmetry
CONSTRAINT Followed
INVARIANTS SchemaComplete FailsOnlyDisturbed ConfigCurrent FirstUserPromoted AdminsBounded
