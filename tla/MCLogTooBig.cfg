CONSTANTS
  Thread = {t1, t2, t3}
  Block = {b1, b2, b3}
  Value = {v0}
  InitValue = v0
  NoBlock = NoBlock
  MAXOPBLOCKS = 1
  LOGSIZE = 2
  LogBlocks = 2
SPECIFICATION Spec
SYMMETRY Symmetry
INVARIANTS
  NeverTooBig
