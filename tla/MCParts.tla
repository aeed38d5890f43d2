------------------------------ MODULE MCParts -------------------------------
(***************************************************************************)
(* Small instances of the modules that need no fairness and little room:   *)
(* spinlocks, console, memory, content of files, malloc, and the shell.    *)
(* They are independent: a behaviour picks one of them and stays with it.  *)
(***************************************************************************)
EXTENDS Integers, Sequences

CONSTANTS
  Parts,       \* the parts that are checked
  Cpu, NLocks, NoCpu,
  Reader, INPUT_BUF, Width, MaxRead,
  Slot, NPages, PGSIZE, KERNBASE, Program, Growth,
  MaxCalls,    \* bound: the calls that Memory makes
  File, NBlocks, NDIRECT, BSIZE, MaxPiece, MaxWrite,
  Units, NALLOC, MaxBrk,
  MaxTokens, MAXARGS,
  Pid, Command, MaxLines

VARIABLES
  part, calls,
  spin, core, frame,
  inbuf, inr, inw, ine, reader,
  kfreelist, space, crash,
  blk, bitmap, ip, dip, off, todo, panicked,
  hdr, freep, brk, live,
  line, parsed,
  task, fds, pipes, lines, noproc

Spin == INSTANCE Spinlock
Cons == INSTANCE Console
Mem == INSTANCE Memory
Data == INSTANCE FileData
Heap == INSTANCE Malloc
Parser == INSTANCE ShellParser
Run == INSTANCE ShellRun

Init ==
  /\ part \in Parts
  /\ calls = 0
  /\ Spin!Init /\ Cons!Init /\ Mem!Init /\ Data!Init /\ Heap!Init /\ Run!Init
  /\ IF part = "parser" THEN Parser!Init ELSE line = <<>> /\ parsed = Parser!NotYet

spinVars == <<spin, core, frame>>
consVars == <<inbuf, inr, inw, ine, reader>>
memVars == <<kfreelist, space, crash>>
dataVars == <<blk, bitmap, ip, dip, off, todo, panicked>>
heapVars == <<hdr, freep, brk, live>>
parserVars == <<line, parsed>>
runVars == <<task, fds, pipes, lines, noproc>>
vars == <<part, calls, spinVars, consVars, memVars, dataVars, heapVars, parserVars,
          runVars>>

\* Steps of one part.  Those of Memory are counted.
SpinSteps ==
  /\ part = "spinlock" /\ Spin!Next
  /\ UNCHANGED <<part, calls, consVars, memVars, dataVars, heapVars,
                 parserVars, runVars>>
ConsSteps ==
  /\ part = "console" /\ Cons!Next
  /\ UNCHANGED <<part, calls, spinVars, memVars, dataVars, heapVars,
                 parserVars, runVars>>
MemSteps ==
  /\ part = "memory" /\ Mem!Next
  /\ calls < MaxCalls /\ calls' = calls + 1
  /\ UNCHANGED <<part, spinVars, consVars, dataVars, heapVars,
                 parserVars, runVars>>
DataSteps ==
  /\ part = "files" /\ Data!Next
  /\ UNCHANGED <<part, calls, spinVars, consVars, memVars, heapVars,
                 parserVars, runVars>>
HeapSteps ==
  /\ part = "malloc" /\ Heap!Next
  /\ UNCHANGED <<part, calls, spinVars, consVars, memVars, dataVars,
                 parserVars, runVars>>
ParserSteps ==
  /\ part = "parser" /\ Parser!Next
  /\ UNCHANGED <<part, calls, spinVars, consVars, memVars, dataVars,
                 heapVars, runVars>>
RunSteps ==
  /\ part = "shell" /\ Run!Next
  /\ UNCHANGED <<part, calls, spinVars, consVars, memVars, dataVars,
                 heapVars, parserVars>>

\* Nothing is left to do: the bound is reached, the line is parsed, the shell has
\* no more input (or has exited) and its commands have ended.
Ended ==
  /\ \/ part = "memory" /\ calls = MaxCalls
     \/ part = "parser" /\ parsed # Parser!NotYet
     \/ part = "shell" /\ Run!Finished
  /\ UNCHANGED vars

Next == SpinSteps \/ ConsSteps \/ MemSteps \/ DataSteps \/ HeapSteps \/ ParserSteps
        \/ RunSteps \/ Ended
Spec == Init /\ [][Next]_vars

\* The properties of the parts, which say what each is about in full.

\* spinlock.c: interrupts stay off as long as a lock is held, and come back after.
InterruptsAreMatched == part = "spinlock" => Spin!InterruptsAreMatched
\* console.c: readers get the lines that were edited, in order, and no others.
ImplementsLineQueue == Cons!ImplementsLineQueue
\* console.c: nobody sleeps in consoleread while a line waits.
ReadersAreWoken == part = "console" => Cons!ReadersAreWoken
\* kalloc.c, vm.c: a page has one owner, or is on the free list.
PagesOwnedOnce == part = "memory" => Mem!PagesOwnedOnce
\* vm.c, exec.c: the pages of a process are those that its size says.
ImageIsWhole == part = "memory" => Mem!ImageIsWhole
\* fs.c: readi returns what writei wrote.
ReadsWhatWasWritten == part = "files" => Data!ReadsWhatWasWritten
\* fs.c: the bitmap agrees with the blocks that inodes use.
BlocksAreOwned == part = "files" => Data!BlocksAreOwned
\* umalloc.c: the heap is covered by blocks that do not overlap.
HeapIsWhole == part = "malloc" => Heap!HeapIsWhole
\* sh.c: the parser accepts the sentences of its grammar.
ParsesTheGrammar == part = "parser" => Parser!ParsesTheGrammar
\* sh.c: the processes of a pipeline never wait for each other.
PipelinesEnd == part = "shell" => Run!PipelinesEnd
\* sh.c: what comes after ";" waits for what comes before.
ListsInOrder == part = "shell" => Run!ListsInOrder
-----------------------------------------------------------------------------
Programs == {<<4, 7>>, <<4, 15>>, <<11>>}   \* the last two do not fit
Growths == {3, -1, -4, -9}

Simple == [type |-> "EXEC"]
Piped(l, r) == [type |-> "PIPE", left |-> l, right |-> r]
Listed(l, r) == [type |-> "LIST", left |-> l, right |-> r]
Back(c) == [type |-> "BACK", cmd |-> c]
To(c, d) == [type |-> "REDIR", cmd |-> c, fd |-> d]
Commands ==
  {Listed(Piped(Simple, Simple), Back(Simple)),
   Piped(Simple, Listed(Back(Simple), To(To(Simple, 0), 1))),
   Piped(Simple, Piped(Simple, Simple))}
=============================================================================
