CONSTANTS
  Process = {p1, p2, p3}
  First = p1
  Killable = {p1}
  PIPESIZE = 2
  UintMod = 4
  MaxCount = 3
  MaxBytes = 4
SPECIFICATION Spec
SYMMETRY Symmetry
INVARIANTS
  StreamInOrder
  SleepersHaveReason
  NoUseAfterFree
\* Everyone may have closed the pipe, or wait for a process that does nothing.
CHECK_DEADLOCK FALSE
