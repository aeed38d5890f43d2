CONSTANTS
  Proc = {p1, p2}
  NInodes = 3
  Name = {"a", "b"}
  Path <- Paths
  Calls <- AllCalls
  NFILE = 1
  NOFILE = 1
  None = None
SYMMETRY Symmetry
CONSTRAINT Restricted
SPECIFICATION Spec
INVARIANTS
  RefsAreCounted
  
  
  NoLockCycle
