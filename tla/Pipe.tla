-------------------------------- MODULE Pipe --------------------------------
(***************************************************************************)
(* One pipe (pipe.c) and the processes that share it: the ring with its    *)
(* two wrapping counters, the two ends with their reference counts         *)
(* (file.c), sleeping readers and writers, fork, kill and exit.            *)
(*                                                                         *)
(* What is done under p->lock up to a sleep or a return is one step, and   *)
(* releasing the lock and falling asleep is another (SleepLock shows why   *)
(* it may be one): kill, which does not take p->lock, can come between     *)
(* the test of killed and the sleep.  A byte is <<w, k>>, the k-th byte    *)
(* that process w stores.                                                  *)
(***************************************************************************)
EXTENDS Naturals, Sequences, FiniteSetsExt

CONSTANTS Process,
          First,      \* the process that calls pipe()
          Killable,   \* the processes that may be killed
          PIPESIZE,
          UintMod,    \* 2^32 in the code
          MaxCount,   \* bound on the size of one read or write
          MaxBytes    \* bound on the bytes written in a behaviour

ASSUME PipeAssumption ==
  /\ PIPESIZE \in Nat \ {0} /\ UintMod \in Nat
  /\ UintMod % PIPESIZE = 0 /\ UintMod > PIPESIZE
  /\ First \in Process /\ Killable \subseteq Process
  /\ MaxCount \in Nat /\ "nobody" \notin Process

VARIABLES lock,       \* holder of p->lock, where it is kept between two steps
          data, nread, nwrite,
          readopen, writeopen,
          allocated,  \* the page of the pipe
          fds,        \* fds[p]: the ends that p has open
          pc,         \* where p is; "unborn" before it is forked
          n,          \* what is left of p's read or write
          chan,       \* what p sleeps on, or "none"
          killed,
          sent,       \* history: how many bytes p stored
          seen        \* history: seen[w] is the last byte of w that was read
ring == <<data, nread, nwrite>>
ends == <<readopen, writeopen, allocated, fds>>
history == <<sent, seen>>
vars == <<lock, ring, ends, pc, n, chan, killed, history>>

End == {"r", "w"}
Nobody == "nobody"
Wrap(i) == i % UintMod
Stored == (nwrite + UintMod - nread) % UintMod
Full == nwrite = Wrap(nread + PIPESIZE)

\* pipealloc, when the two files and the page are to be had.
Init ==
  /\ lock = Nobody
  /\ data = [i \in 0 .. PIPESIZE - 1 |-> <<First, 0>>]
  /\ nread = 0 /\ nwrite = 0
  /\ readopen = TRUE /\ writeopen = TRUE /\ allocated = TRUE
  /\ fds = [p \in Process |-> IF p = First THEN End ELSE {}]
  /\ pc = [p \in Process |-> IF p = First THEN "user" ELSE "unborn"]
  /\ n = [p \in Process |-> 0]
  /\ chan = [p \in Process |-> "none"]
  /\ killed = [p \in Process |-> FALSE]
  /\ sent = [p \in Process |-> 0]
  /\ seen = [p \in Process |-> 0]

Goto(p, l) == pc' = [pc EXCEPT ![p] = l]
Woken(c) == [p \in Process |-> IF chan[p] = c THEN "none" ELSE chan[p]]
-----------------------------------------------------------------------------
\* read and write on the pipe's files: fileread and filewrite go on to piperead
\* and pipewrite.
fileread(p) ==
  /\ pc[p] = "user" /\ ~killed[p] /\ "r" \in fds[p]
  /\ \E count \in 1 .. MaxCount : n' = [n EXCEPT ![p] = count]
  /\ Goto(p, "read")
  /\ UNCHANGED <<lock, ring, ends, chan, killed, history>>

Promised(p) == sent[p] + IF pc[p] \in {"write", "write_sleep"} THEN n[p] ELSE 0
WithinBound(count) == MapThenSumSet(Promised, Process) + count <= MaxBytes
filewrite(p) ==
  /\ pc[p] = "user" /\ ~killed[p] /\ "w" \in fds[p]
  /\ \E count \in 1 .. MaxCount :
       /\ WithinBound(count)
       /\ n' = [n EXCEPT ![p] = count]
  /\ Goto(p, "write")
  /\ UNCHANGED <<lock, ring, ends, chan, killed, history>>

Return(p) == Goto(p, "user") /\ n' = [n EXCEPT ![p] = 0] /\ UNCHANGED lock
Ready(p, l) == pc[p] = l /\ chan[p] = "none" /\ lock = Nobody

\* The next k bytes of p's buffer go into the ring.
Store(p, k) ==
  /\ data' = [i \in DOMAIN data |->
                LET at == {j \in 0 .. k - 1 : Wrap(nwrite + j) % PIPESIZE = i}
                IN  IF at = {} THEN data[i] ELSE <<p, sent[p] + 1 + Max(at)>>]
  /\ nwrite' = Wrap(nwrite + k)
  /\ sent' = [sent EXCEPT ![p] = @ + k]
  /\ UNCHANGED <<nread, ends, killed, seen>>

\* pipewrite, given the room that its test for a full pipe leaves and whom its
\* last line wakes.  It stores what fits; if something is left it gives up, or
\* wakes the readers and goes to sleep.
pipewriteAs(p, room, told) ==
  /\ Ready(p, "write")
  /\ LET k == Min({n[p], room}) IN
       /\ Store(p, k)
       /\ \/ k = n[p] /\ Return(p) /\ chan' = told
          \/ k < n[p] /\ (~readopen \/ killed[p]) /\ Return(p) /\ UNCHANGED chan
          \/ /\ k < n[p] /\ readopen /\ ~killed[p]
             /\ Goto(p, "write_sleep") /\ lock' = p /\ chan' = Woken("nread")
             /\ n' = [n EXCEPT ![p] = @ - k]

\* Faulty variant: readers are not woken.
pipewriteSilent(p) == pipewriteAs(p, PIPESIZE - Stored, chan)

pipewrite(p) == pipewriteAs(p, PIPESIZE - Stored, Woken("nread"))

Oldest(k) == [j \in 1 .. k |-> data[Wrap(nread + j - 1) % PIPESIZE]]
Seen(bytes) ==
  [w \in Process |-> LET mine == {j \in DOMAIN bytes : bytes[j][1] = w}
                     IN  IF mine = {} THEN seen[w] ELSE bytes[Max(mine)][2]]

\* piperead, given how many bytes there are to copy and whom it wakes at the end.
pipereadAs(p, avail, told) ==
  /\ Ready(p, "read")
  /\ \/ Stored = 0 /\ writeopen /\ killed[p]
        /\ Return(p) /\ UNCHANGED <<nread, chan, seen>>
     \/ Stored = 0 /\ writeopen /\ ~killed[p]
        /\ Goto(p, "read_sleep") /\ lock' = p
        /\ UNCHANGED <<nread, n, chan, seen>>
     \/ /\ Stored > 0 \/ ~writeopen
        /\ LET k == Min({n[p], avail}) IN
             nread' = Wrap(nread + k) /\ seen' = Seen(Oldest(k))
        /\ Return(p) /\ chan' = told
  /\ UNCHANGED <<data, nwrite, ends, killed, sent>>

\* Faulty variant: the copy does not stop at nwrite.
pipereadPastEnd(p) == pipereadAs(p, MaxCount, Woken("nwrite"))

piperead(p) == pipereadAs(p, Stored, Woken("nwrite"))

\* sleep, which releases p->lock; the loop starts again when p is woken.
sleep(p) ==
  /\ \/ pc[p] = "read_sleep" /\ chan' = [chan EXCEPT ![p] = "nread"]
        /\ Goto(p, "read")
     \/ pc[p] = "write_sleep" /\ chan' = [chan EXCEPT ![p] = "nwrite"]
        /\ Goto(p, "write")
  /\ lock' = Nobody
  /\ UNCHANGED <<ring, ends, n, killed, history>>
-----------------------------------------------------------------------------
\* fork: the child's files are the parent's, each with filedup.
fork(p, q) ==
  /\ pc[p] = "user" /\ ~killed[p] /\ pc[q] = "unborn"
  /\ Goto(q, "user")
  /\ fds' = [fds EXCEPT ![q] = fds[p]]
  /\ UNCHANGED <<lock, ring, readopen, writeopen, allocated, n, chan, killed, history>>

\* fileclose, by close or by exit: the last reference goes on to pipeclose,
\* after ftable.lock is released.
fileclose(p, e) ==
  /\ pc[p] = "user" /\ e \in fds[p]
  /\ fds' = [fds EXCEPT ![p] = @ \ {e}]
  /\ IF \E q \in Process \ {p} : e \in fds[q] THEN UNCHANGED pc
     ELSE Goto(p, IF e = "r" THEN "close_r" ELSE "close_w")
  /\ UNCHANGED <<lock, ring, readopen, writeopen, allocated, n, chan, killed, history>>

\* pipeclose, given whether the page is freed.
pipecloseAs(p, free) ==
  /\ lock = Nobody /\ pc[p] \in {"close_r", "close_w"}
  /\ LET w == pc[p] = "close_w" IN
       /\ writeopen' = (writeopen /\ ~w) /\ readopen' = (readopen /\ w)
       /\ chan' = Woken(IF w THEN "nread" ELSE "nwrite")
  /\ allocated' = (allocated /\ ~free)
  /\ Goto(p, "user")
  /\ UNCHANGED <<lock, ring, fds, n, killed, history>>

\* Faulty variant: the page is freed with one end open.
pipecloseEither(p) == pipecloseAs(p, TRUE)

\* The page is freed when this closes the end that is still open.
pipeclose(p) ==
  pipecloseAs(p, IF pc[p] = "close_w" THEN ~readopen ELSE ~writeopen)

\* kill sets killed and makes a sleeper runnable; it holds ptable.lock, not
\* p->lock.
kill(p) ==
  /\ p \in Killable /\ pc[p] # "unborn" /\ ~killed[p]
  /\ killed' = [killed EXCEPT ![p] = TRUE]
  /\ chan' = [chan EXCEPT ![p] = "none"]
  /\ UNCHANGED <<lock, ring, ends, pc, n, history>>

\* The steps of the calls that a process is in.
inside(p) == pipewrite(p) \/ piperead(p) \/ sleep(p) \/ pipeclose(p)

Next == \E p \in Process :
          \/ fileread(p) \/ filewrite(p) \/ inside(p) \/ kill(p)
          \/ \E q \in Process : fork(p, q)
          \/ \E e \in End : fileclose(p, e)

Spec == Init /\ [][Next]_vars

-----------------------------------------------------------------------------
Label == {"unborn", "user", "read", "write", "read_sleep", "write_sleep",
          "close_r", "close_w"}
Byte == Process \X Nat

TypeOK ==
  /\ lock \in Process \cup {Nobody}
  /\ data \in [0 .. PIPESIZE - 1 -> Byte]
  /\ nread \in 0 .. UintMod - 1 /\ nwrite \in 0 .. UintMod - 1
  /\ Stored <= PIPESIZE /\ (Full <=> Stored = PIPESIZE)
  /\ <<readopen, writeopen, allocated>> \in BOOLEAN \X BOOLEAN \X BOOLEAN
  /\ fds \in [Process -> SUBSET End] /\ pc \in [Process -> Label]
  /\ n \in [Process -> 0 .. MaxCount]
  /\ chan \in [Process -> {"none", "nread", "nwrite"}]
  /\ killed \in [Process -> BOOLEAN]
  /\ sent \in [Process -> Nat] /\ seen \in [Process -> Nat]

\* Bytes go through in order, once and without loss, also when the counters wrap
\* and several processes write and read: what the ring holds of a writer's bytes
\* is what follows the last that was read, up to the last that was written, each
\* byte once and earlier ones first.
StreamInOrder ==
  /\ TypeOK
  /\ LET bytes == Oldest(Stored) IN
       /\ \A j \in DOMAIN bytes :
            bytes[j][2] \in seen[bytes[j][1]] + 1 .. sent[bytes[j][1]]
       /\ \A i, j \in DOMAIN bytes :
            i < j /\ bytes[i][1] = bytes[j][1] => bytes[i][2] < bytes[j][2]
       /\ \A w \in Process : \A k \in seen[w] + 1 .. sent[w] :
            \E j \in DOMAIN bytes : bytes[j] = <<w, k>>

\* A writer sleeps only on a full pipe that can still be read.  A reader sleeps
\* only on an empty pipe that can still be written, as long as no process was
\* killed: a killed process that fills the pipe gives up without waking readers.
SleepersHaveReason ==
  /\ \A p \in Process : chan[p] = "nwrite" => Stored = PIPESIZE /\ readopen
  /\ (\A p \in Process : ~killed[p]) =>
       \A p \in Process : chan[p] = "nread" => Stored = 0 /\ writeopen

\* The page of the pipe is in use as long as anyone has, reads, writes or
\* closes one of its ends.
NoUseAfterFree ==
  ~allocated => \A p \in Process : fds[p] = {} /\ pc[p] \in {"user", "unborn"}

=============================================================================
