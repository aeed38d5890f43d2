CONSTANTS
  Thread = {t1, t2}
  NoThread = NoThread
  Payload = {p1, p2}
  NoPayload = NoPayload
  BufSize = 2
  SeqMod = 4
  MaxRead = 2
  MaxTicks = 1
SPECIFICATION FairSpec
INVARIANTS
  IInv
  EventsInOrder
PROPERTIES
  ImplementsTraceQueue
  LockIsReleased
