CONSTANTS
  Thread = {t1, t2}
  Block = {b1, b2, b3}
  Value = {v0, v1}
  InitValue = v0
  NoBlock = NoBlock
  MAXOPBLOCKS = 1
  LOGSIZE = 2
  LogBlocks = 3
SPECIFICATION FairSpec
INVARIANTS
  QuietIsDurable
  
PROPERTIES
  ImplementsAtomicDisk
  SleepersAreWoken
