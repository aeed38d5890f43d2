CONSTANTS
  NPROC = 3
  Cpu = {c1}
  Chan = {ticks}
  KillPids = {3}
  MaxPid = 4
SPECIFICATION FairSpec
PROPERTIES
  NoStarvation
  KilledExits
  
