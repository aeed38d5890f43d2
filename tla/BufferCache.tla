---------------------------- MODULE BufferCache -----------------------------
(***************************************************************************)
(* The buffer cache (bio.c) on the IDE driver (ide.c).                     *)
(*                                                                         *)
(* A step is what the code does under bcache.lock, or under idelock, or    *)
(* while it has a buffer's sleep lock and touches nothing shared.  The     *)
(* content of a block is abstracted to what matters: a copy, in a buffer   *)
(* or on the disk, either is what was last written to the block or is not. *)
(***************************************************************************)
EXTENDS Naturals, FiniteSets, Sequences

CONSTANTS Thread, Block, Buf,
          Pins,      \* the most buffers that log.c keeps pinned (LOGSIZE)
          Nil        \* no block, no thread, no buffer

ASSUME BufferCacheAssumption ==
  /\ IsFiniteSet(Thread) /\ IsFiniteSet(Buf) /\ Pins \in Nat
  /\ Nil \notin Thread /\ Nil \notin Block /\ Nil \notin Buf

VARIABLES
  buf,       \* the struct bufs, with the holder of the sleep lock
  mru,       \* bcache.head: the buffers, most recently used first
  idequeue,  \* the requests, the one at work first
  cmd,       \* the controller: "idle", "busy" or "done" (interrupt raised)
  disk,      \* the blocks on the disk: is this copy the latest?
  damaged,   \* history: the blocks of which a read has failed
  pc, b      \* each thread: where it is, and its buffer

vars == <<buf, mru, idequeue, cmd, disk, damaged, pc, b>>

Init ==
  /\ buf = [i \in Buf |-> [blockno |-> Nil, valid |-> FALSE, dirty |-> FALSE,
                           refcnt |-> 0, latest |-> FALSE, holder |-> Nil]]
  /\ mru \in {list \in [1..Cardinality(Buf) -> Buf] :
              \A i \in Buf : \E n \in DOMAIN list : list[n] = i}
  /\ idequeue = <<>> /\ cmd = "idle"
  /\ disk = [k \in Block |-> TRUE] /\ damaged = {}
  /\ pc = [t \in Thread |-> "idle"] /\ b = [t \in Thread |-> Nil]

Goto(t, from, to) == pc[t] = from /\ pc' = [pc EXCEPT ![t] = to]
Writing == {b[t] : t \in {u \in Thread : pc[u] \in {"iderw", "asleep", "woken"}}}
Pinned == {i \in Buf : buf[i].dirty} \ Writing
Free(i) == buf[i].refcnt = 0 /\ ~buf[i].dirty
LastOf(S) == mru[CHOOSE n \in DOMAIN mru :
                   mru[n] \in S /\ \A m \in DOMAIN mru : mru[m] \in S => m <= n]
-----------------------------------------------------------------------------
\* bget, up to acquiresleep: the cached buffer of the block, or else the least
\* recently used one among those given to it.
bgetAs(t, k, unused) ==
  LET hits == {i \in Buf : buf[i].blockno = k}
  IN \/ \E i \in hits :
          /\ Goto(t, "idle", "lock")
          /\ buf' = [buf EXCEPT ![i].refcnt = @ + 1]
          /\ b' = [b EXCEPT ![t] = i]
     \/ /\ hits = {}
        /\ IF unused = {}
           THEN Goto(t, "idle", "panic") /\ UNCHANGED <<buf, b>>   \* no buffers
           ELSE LET i == LastOf(unused)
                IN /\ Goto(t, "idle", "lock")
                   /\ buf' = [buf EXCEPT ![i] = [@ EXCEPT !.blockno = k,
                                !.valid = FALSE, !.dirty = FALSE, !.refcnt = 1,
                                !.latest = FALSE]]
                   /\ b' = [b EXCEPT ![t] = i]

\* Faulty variant: a buffer that is not referenced is taken although it is dirty.
bgetDirty(t, k) ==
  /\ bgetAs(t, k, {i \in Buf : buf[i].refcnt = 0})
  /\ UNCHANGED <<mru, idequeue, cmd, disk, damaged>>

\* Faulty variant: a buffer that holds a block already is not recycled.
bgetFresh(t, k) ==
  /\ bgetAs(t, k, {i \in Buf : Free(i) /\ ~buf[i].valid})
  /\ UNCHANGED <<mru, idequeue, cmd, disk, damaged>>

bget(t, k) ==
  /\ bgetAs(t, k, {i \in Buf : Free(i)})
  /\ UNCHANGED <<mru, idequeue, cmd, disk, damaged>>

\* The end of bget and the test in bread: a valid buffer needs no disk.
bread(t) ==
  /\ pc[t] = "lock" /\ buf[b[t]].holder = Nil
  /\ Goto(t, "lock", IF buf[b[t]].valid THEN "use" ELSE "iderw")
  /\ buf' = [buf EXCEPT ![b[t]].holder = t]
  /\ UNCHANGED <<mru, idequeue, cmd, disk, damaged, b>>
-----------------------------------------------------------------------------
\* A holder changes the block in memory and calls log_write, which pins it: the
\* disk does not have the latest any more.  log.c admits no more than Pins.
log_write(t) ==
  /\ Goto(t, "use", "use")
  /\ buf[b[t]].dirty \/ Cardinality(Pinned) < Pins
  /\ buf' = [buf EXCEPT ![b[t]].dirty = TRUE]
  /\ disk' = [disk EXCEPT ![buf[b[t]].blockno] = FALSE]
  /\ UNCHANGED <<mru, idequeue, cmd, damaged, b>>

\* bwrite, of a block the holder has just changed or of a pinned one.
bwrite(t) ==
  /\ Goto(t, "use", "iderw")
  /\ buf' = [buf EXCEPT ![b[t]].dirty = TRUE]
  /\ \/ disk' = [disk EXCEPT ![buf[b[t]].blockno] = FALSE]
     \/ buf[b[t]].dirty /\ UNCHANGED disk
  /\ UNCHANGED <<mru, idequeue, cmd, damaged, b>>

\* brelse gives up the lock first, and the reference in a second step.
brelseLock(t) ==
  /\ Goto(t, "use", "put")
  /\ buf' = [buf EXCEPT ![b[t]].holder = Nil]
  /\ UNCHANGED <<mru, idequeue, cmd, disk, damaged, b>>

\* The buffer at place n of the list goes to the front.
MoveToFront(n) ==
  [m \in DOMAIN mru |->
     IF m = 1 THEN mru[n] ELSE IF m <= n THEN mru[m - 1] ELSE mru[m]]

brelse(t) ==
  /\ Goto(t, "put", "idle")
  /\ buf' = [buf EXCEPT ![b[t]].refcnt = @ - 1]
  /\ \E n \in DOMAIN mru :
       mru[n] = b[t] /\ mru' = IF buf[b[t]].refcnt = 1 THEN MoveToFront(n) ELSE mru
  /\ b' = [b EXCEPT ![t] = Nil]
  /\ UNCHANGED <<idequeue, cmd, disk, damaged>>
-----------------------------------------------------------------------------
\* idestart sets the controller to work on the first request.
idestart(queue) == cmd' = IF queue = <<>> THEN "idle" ELSE "busy"

\* iderw: append the request, start the disk if it is the only one, and sleep.
iderw(t) ==
  /\ Goto(t, "iderw", "asleep")
  /\ idequeue' = Append(idequeue, b[t])
  /\ IF idequeue = <<>> THEN idestart(idequeue') ELSE UNCHANGED cmd
  /\ UNCHANGED <<buf, mru, disk, damaged, b>>

\* The loop of iderw, after wakeup or after kill has ended the sleep.
iderwLoop(t) ==
  /\ pc[t] = "woken"
  /\ Goto(t, "woken", IF buf[b[t]].valid /\ ~buf[b[t]].dirty
                      THEN "use" ELSE "asleep")
  /\ UNCHANGED <<buf, mru, idequeue, cmd, disk, damaged, b>>

kill(t) ==
  /\ Goto(t, "asleep", "woken")
  /\ UNCHANGED <<buf, mru, idequeue, cmd, disk, damaged, b>>

\* The disk does what it was told and raises its interrupt.
diskDone ==
  /\ cmd = "busy" /\ cmd' = "done"
  /\ LET r == buf[Head(idequeue)]
     IN disk' = IF r.dirty THEN [disk EXCEPT ![r.blockno] = r.latest] ELSE disk
  /\ UNCHANGED <<buf, mru, idequeue, damaged, pc, b>>

\* Faulty variant: the next request is not started, and waits for the one after.
ideintrStops(ok) ==
  cmd = "done" /\
  LET i == Head(idequeue)
      k == buf[i].blockno
  IN /\ idequeue' = Tail(idequeue) /\ cmd' = "idle"
     /\ buf' = [buf EXCEPT ![i].valid = TRUE, ![i].dirty = FALSE,
                           ![i].latest = IF buf[i].dirty THEN @ ELSE disk[k]]
     /\ pc' = [t \in Thread |-> IF pc[t] = "asleep" /\ b[t] = i
                                THEN "woken" ELSE pc[t]]
     /\ UNCHANGED <<mru, disk, damaged, b>>

\* What idewait reports to ideintr: the disk had no error, or it had one.
idewait == BOOLEAN

\* ideintr: take the request off the queue, fetch what was read unless the disk
\* reports an error, mark the buffer valid and clean all the same, wake whoever
\* sleeps on it and start the next request.
ideintr(ok) ==
  cmd = "done" /\
  LET i == Head(idequeue)
      k == buf[i].blockno
      read == ~buf[i].dirty
  IN /\ idequeue' = Tail(idequeue) /\ idestart(idequeue')
     /\ buf' = [buf EXCEPT ![i].valid = TRUE, ![i].dirty = FALSE,
                           ![i].latest = IF read /\ ok THEN disk[k] ELSE @]
     /\ ok \/ read
     /\ damaged' = IF ok THEN damaged ELSE damaged \cup {k}
     /\ pc' = [t \in Thread |-> IF pc[t] = "asleep" /\ b[t] = i
                                THEN "woken" ELSE pc[t]]
     /\ UNCHANGED <<mru, disk, b>>
-----------------------------------------------------------------------------
Step(t) == \/ \E k \in Block : bget(t, k)
           \/ bread(t) \/ log_write(t) \/ bwrite(t) \/ brelseLock(t)
           \/ brelse(t) \/ iderw(t) \/ iderwLoop(t)
Panicked == \E t \in Thread : pc[t] = "panic"
Next == /\ ~Panicked
        /\ \/ \E t \in Thread : Step(t) \/ kill(t)
           \/ diskDone
           \/ \E ok \in idewait : ideintr(ok)

Spec == Init /\ [][Next]_vars
-----------------------------------------------------------------------------
TypeOK ==
  /\ buf \in [Buf -> [blockno : Block \cup {Nil}, valid : BOOLEAN,
                      dirty : BOOLEAN, refcnt : 0..Cardinality(Thread),
                      latest : BOOLEAN, holder : Thread \cup {Nil}]]
  /\ mru \in [1..Cardinality(Buf) -> Buf]
  /\ \A i \in Buf : \E n \in DOMAIN mru : mru[n] = i
  /\ idequeue \in Seq(Buf) /\ cmd \in {"idle", "busy", "done"}
  /\ disk \in [Block -> BOOLEAN] /\ damaged \subseteq Block
  /\ pc \in [Thread -> {"idle", "lock", "use", "put", "iderw", "asleep",
                        "woken", "panic"}]
  /\ b \in [Thread -> Buf \cup {Nil}]

\* No block has two buffers, and a buffer is referenced by exactly the threads
\* that are between bget and the end of brelse with it, so that bget recycles
\* none that a thread waits for.  So whoever has a buffer from bread sees what was
\* last written to the block, through whatever evictions, pins and writes by
\* others; the only exception is a block of which a read has failed, because
\* ideintr does not report it.
HolderSeesLatest ==
  /\ TypeOK
  /\ \A i, j \in Buf : i # j /\ buf[i].blockno = buf[j].blockno
                       => buf[i].blockno = Nil
  /\ \A i \in Buf : buf[i].refcnt = Cardinality({t \in Thread : b[t] = i})
  /\ \A t \in Thread : pc[t] = "use" /\ buf[b[t]].blockno \notin damaged
                       => buf[b[t]].latest

\* bget always finds a buffer, as long as there are more of them than the log
\* may pin and the other threads hold.
BuffersSuffice == ~Panicked

\* Nobody waits for a request that will not be served: whoever sleeps in iderw
\* has its buffer in the queue, once, and a queue that is not empty has the disk
\* at work.  Nor is iderw ever called with nothing to do, which would panic.
RequestsAreServed ==
  /\ \A t \in Thread : pc[t] = "iderw" => ~buf[b[t]].valid \/ buf[b[t]].dirty
  /\ \A t \in Thread : pc[t] = "asleep" =>
       \E n \in DOMAIN idequeue : idequeue[n] = b[t]
  /\ \A m, n \in DOMAIN idequeue : idequeue[m] = idequeue[n] => m = n
  /\ (idequeue = <<>>) <=> (cmd = "idle")
=============================================================================
