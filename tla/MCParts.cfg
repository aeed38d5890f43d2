CONSTANTS
  Parts = {"spinlock", "console", "memory", "files", "malloc", "parser", "shell"}
  Cpu = {c1, c2}
  NLocks = 2
  NoCpu = NoCpu
  Reader = {p1, p2}
  INPUT_BUF = 3
  Width = 6
  MaxRead = 2
  Slot = {1, 2}
  NPages = 18
  PGSIZE = 2
  KERNBASE = 14
  Program <- Programs
  Growth <- Growths
  MaxCalls = 5
  File = {1, 2}
  NBlocks = 4
  NDIRECT = 1
  BSIZE = 2
  MaxPiece = 2
  MaxWrite = 3
  Units = {1, 2, 4}
  NALLOC = 3
  MaxBrk = 10
  MaxTokens = 5
  MAXARGS = 4
  Pid = {1, 2, 3, 4, 5, 6}
  Command <- Commands
  MaxLines = 2
SPECIFICATION Spec
INVARIANTS
  InterruptsAreMatched
  ReadersAreWoken
  PagesOwnedOnce
  ImageIsWhole
  ReadsWhatWasWritten
  BlocksAreOwned
  HeapIsWhole
  ParsesTheGrammar
  PipelinesEnd
  ListsInOrder
PROPERTIES
  ImplementsLineQueue
