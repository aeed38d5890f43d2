CONSTANTS
  Payload <- MCPayload
  Self = 3
  Args <- MCArgs
  BufSize = 2
  ROWS = 2
  WIDTH = 2
  Pause = 1
  Lines = 1
  MaxEvents = 5
  MaxTicks = 2
SPECIFICATION FairSpec
INVARIANTS
  BoardMatchesHistory
  EveryEventIsCounted
PROPERTIES
  OneShotEnds
CHECK_DEADLOCK FALSE
