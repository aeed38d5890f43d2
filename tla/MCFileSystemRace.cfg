CONSTANTS
  Proc = {p1, p2}
  NInodes = 2
  Name = {"a"}
  Path <- RacePaths
  Calls <- RaceCalls
  NFILE = 1
  NOFILE = 1
  None = None
CHECK_DEADLOCK FALSE
SPECIFICATION Spec
INVARIANT NeverNoType
