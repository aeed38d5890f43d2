CONSTANTS
  NPROC = 4
  Cpu = {c1, c2}
  Chan = {}
  KillPids = {3}
  MaxPid = 4
SPECIFICATION Spec
SYMMETRY Symmetry
INVARIANTS
  OneCpuPerProcess
  
  ChildrenAreWaitedFor
