-------------------------------- MODULE Log ---------------------------------
(***************************************************************************)
(* The redo log of the file system (log.c), the buffers it pins (bio.c)    *)
(* and recovery at boot.  One block write is atomic on the disk; the       *)
(* machine may stop between any two of them, recovery included.  Sections  *)
(* that hold log.lock are one step; log_write looks at the log size before *)
(* it takes the lock, so its check and its record are two.                 *)
(***************************************************************************)
EXTENDS Naturals, FiniteSets, Sequences

CONSTANTS Thread, Block, Value, InitValue, NoBlock,
          MAXOPBLOCKS,   \* blocks that one system call may write
          LOGSIZE,       \* entries of logheader.block
          LogBlocks      \* log.size: the header and the data blocks on disk

ASSUME LogAssumption ==
  /\ MAXOPBLOCKS \in Nat \ {0} /\ LOGSIZE \in Nat /\ LogBlocks \in Nat
  /\ MAXOPBLOCKS <= LOGSIZE
  /\ InitValue \in Value /\ NoBlock \notin Block
  /\ IsFiniteSet(Thread)

VARIABLES home,         \* disk: every block at its home location
          logged,       \* disk: the data blocks of the log
          head,         \* disk: the header, as the sequence of its n entries
          cache,        \* contents of the buffers
          dirty,        \* buffers with B_DIRTY set
          lh,           \* log.lh in memory
          outstanding, committing,
          boot,         \* "up", or what initlog, or panic, is doing
          pc,           \* what each thread is doing
          buf,          \* the buffer a thread holds locked
          wrote,        \* the blocks a system call has written
          tail          \* loop index of the committer or of recovery

stable == <<home, logged, head>>
memory == <<cache, dirty, lh, outstanding, committing>>
threads == <<pc, buf, wrote>>
vars == <<stable, memory, boot, threads, tail>>

\* The header h has an entry for block b.
Listed(h, b) == \E i \in 1..Len(h) : h[i] = b

\* What recovery makes of a disk whose header is h.
Recovered(h, data, old) ==
  [b \in Block |->
     IF \E i \in DOMAIN h : h[i] = b
     THEN data[CHOOSE i \in DOMAIN h : h[i] = b]
     ELSE old[b]]

\* A new file system, before the first boot.
Init ==
  /\ home = [b \in Block |-> InitValue]
  /\ logged = [i \in 1..LOGSIZE |-> InitValue]
  /\ head = <<>>
  /\ cache = home /\ dirty = {}
  /\ lh = <<>> /\ outstanding = 0 /\ committing = FALSE
  /\ boot = "read_head"
  /\ pc = [t \in Thread |-> "idle"]
  /\ buf = [t \in Thread |-> NoBlock]
  /\ wrote = [t \in Thread |-> {}]
  /\ tail = 1

\* The machine stops: only the disk survives.
Crash ==
  /\ cache' = home /\ dirty' = {}
  /\ lh' = <<>> /\ outstanding' = 0 /\ committing' = FALSE
  /\ boot' = "read_head"
  /\ pc' = [t \in Thread |-> "idle"]
  /\ buf' = [t \in Thread |-> NoBlock]
  /\ wrote' = [t \in Thread |-> {}]
  /\ tail' = 1
  /\ UNCHANGED stable
-----------------------------------------------------------------------------
\* initlog: read_head.
read_head ==
  /\ boot = "read_head"
  /\ lh' = head
  /\ boot' = "install"
  /\ UNCHANGED <<stable, cache, dirty, outstanding, committing, threads, tail>>

\* One round of install_trans, for the committer and for recovery: copy log
\* block number tail to its home; bwrite leaves the buffer clean.
InstallBlock ==
  LET b == lh[tail] IN
    /\ tail <= Len(lh)
    /\ cache' = [cache EXCEPT ![b] = logged[tail]]
    /\ home' = [home EXCEPT ![b] = logged[tail]]
    /\ dirty' = dirty \ {b}
    /\ tail' = tail + 1
    /\ UNCHANGED <<logged, head, lh, outstanding, committing>>

recover_install ==
  /\ boot = "install"
  /\ InstallBlock
  /\ UNCHANGED <<boot, threads>>

\* Faulty variant: the header on disk is not cleared.
recover_clearMemoryOnly ==
  /\ boot = "install" /\ tail > Len(lh)
  /\ lh' = <<>> /\ tail' = 1
  /\ boot' = "up"
  /\ UNCHANGED <<stable, cache, dirty, outstanding, committing, threads>>

\* The end of recover_from_log: log.lh.n = 0 and write_head.
recover_clear ==
  /\ boot = "install" /\ tail > Len(lh)
  /\ lh' = <<>> /\ head' = <<>> /\ tail' = 1
  /\ boot' = "up"
  /\ UNCHANGED <<home, logged, cache, dirty, outstanding, committing, threads>>
-----------------------------------------------------------------------------
Goto(t, l) == pc' = [pc EXCEPT ![t] = l]

\* wakeup(&log)
Woken == [u \in Thread |-> IF pc[u] = "asleep" THEN "begin" ELSE pc[u]]

\* Faulty variant: a system call joins without room reserved for what those that
\* have begun may still write.
begin_opAs(t, full) ==
  /\ boot = "up" /\ pc[t] \in {"idle", "begin"}
  /\ \/ /\ full
        /\ Goto(t, "asleep")
        /\ UNCHANGED <<outstanding, wrote>>
     \/ /\ ~full
        /\ outstanding' = outstanding + 1
        /\ wrote' = [wrote EXCEPT ![t] = {}]
        /\ Goto(t, "op")
  /\ UNCHANGED <<stable, cache, dirty, lh, committing, boot, buf, tail>>
begin_opNoReserve(t) ==
  begin_opAs(t, committing \/ Len(lh) + MAXOPBLOCKS > LOGSIZE)

\* One round of begin_op's loop: sleep, or join the transaction.
begin_op(t) ==
  /\ boot = "up" /\ pc[t] \in {"idle", "begin"}
  /\ LET full == Len(lh) + (outstanding + 1) * MAXOPBLOCKS > LOGSIZE IN
       \/ /\ committing \/ full
          /\ Goto(t, "asleep")
          /\ UNCHANGED <<outstanding, wrote>>
       \/ /\ ~committing /\ ~full
          /\ outstanding' = outstanding + 1
          /\ wrote' = [wrote EXCEPT ![t] = {}]
          /\ Goto(t, "op")
  /\ UNCHANGED <<stable, cache, dirty, lh, committing, boot, buf, tail>>

\* A system call, within its budget, locks a buffer and modifies it.
modify(t, b, v) ==
  /\ boot = "up" /\ pc[t] = "op"
  /\ Cardinality(wrote[t] \cup {b}) <= MAXOPBLOCKS
  /\ \A u \in Thread : buf[u] # b
  /\ buf' = [buf EXCEPT ![t] = b]
  /\ wrote' = [wrote EXCEPT ![t] = @ \cup {b}]
  /\ cache' = [cache EXCEPT ![b] = v]
  /\ Goto(t, "check")
  /\ UNCHANGED <<stable, dirty, lh, outstanding, committing, boot, tail>>

\* log_write's checks, without log.lock.
log_writeChecks(t) ==
  /\ boot = "up" /\ pc[t] = "check"
  /\ LET bad == \/ Len(lh) >= LOGSIZE
                \/ Len(lh) >= LogBlocks - 1
                \/ outstanding < 1
     IN \/ bad /\ boot' = "panic" /\ UNCHANGED pc
        \/ ~bad /\ Goto(t, "record") /\ UNCHANGED boot
  /\ UNCHANGED <<stable, memory, buf, wrote, tail>>

\* The locked part of log_write, and the caller's brelse.
log_write(t) ==
  /\ boot = "up" /\ pc[t] = "record"
  /\ lh' = IF Listed(lh, buf[t]) THEN lh ELSE Append(lh, buf[t])
  /\ dirty' = dirty \cup {buf[t]}
  /\ buf' = [buf EXCEPT ![t] = NoBlock]
  /\ Goto(t, "op")
  /\ UNCHANGED <<stable, cache, outstanding, committing, boot, wrote, tail>>
-----------------------------------------------------------------------------
\* end_op: the last system call out commits, any other wakes those that wait
\* for room.
end_op(t) ==
  /\ boot = "up" /\ pc[t] = "op"
  /\ outstanding' = outstanding - 1
  /\ boot' = IF committing THEN "panic" ELSE "up"
  /\ \/ /\ outstanding = 1
        /\ committing' = TRUE
        /\ tail' = 1
        /\ Goto(t, IF lh = <<>> THEN "done" ELSE "write_log")
     \/ /\ outstanding > 1
        /\ pc' = [Woken EXCEPT ![t] = "idle"]
        /\ UNCHANGED <<committing, tail>>
  /\ UNCHANGED <<stable, cache, dirty, lh, buf, wrote>>

\* One round of write_log.
write_log(t) ==
  /\ boot = "up" /\ pc[t] = "write_log" /\ tail <= Len(lh)
  /\ logged' = [logged EXCEPT ![tail] = cache[lh[tail]]]
  /\ tail' = tail + 1
  /\ UNCHANGED <<home, head, memory, boot, threads>>

\* The first write_head of commit.
write_head(t) ==
  /\ boot = "up" /\ pc[t] = "write_log" /\ tail > Len(lh)
  /\ head' = lh /\ tail' = 1
  /\ Goto(t, "install")
  /\ UNCHANGED <<home, logged, memory, boot, buf, wrote>>

install_trans(t) ==
  /\ boot = "up" /\ pc[t] = "install"
  /\ InstallBlock
  /\ UNCHANGED <<boot, threads>>

\* Faulty variant: the log is cleared before the last block is installed.
clear_logEarly(t) ==
  /\ boot = "up" /\ pc[t] = "install" /\ tail >= Len(lh)
  /\ lh' = <<>> /\ head' = <<>> /\ tail' = 1
  /\ Goto(t, "done")
  /\ UNCHANGED <<home, logged, cache, dirty, outstanding, committing, boot, buf,
                 wrote>>

\* The end of commit: log.lh.n = 0 and the second write_head.
clear_log(t) ==
  /\ boot = "up" /\ pc[t] = "install" /\ tail > Len(lh)
  /\ lh' = <<>> /\ head' = <<>> /\ tail' = 1
  /\ Goto(t, "done")
  /\ UNCHANGED <<home, logged, cache, dirty, outstanding, committing, boot, buf,
                 wrote>>

\* Faulty variant: the sleepers stay asleep.
end_commitNoWake(t) ==
  /\ boot = "up" /\ pc[t] = "done"
  /\ committing' = FALSE
  /\ Goto(t, "idle")
  /\ UNCHANGED <<stable, cache, dirty, lh, outstanding, boot, buf, wrote, tail>>

\* The end of end_op, after commit.
end_commit(t) ==
  /\ boot = "up" /\ pc[t] = "done"
  /\ committing' = FALSE
  /\ pc' = [Woken EXCEPT ![t] = "idle"]
  /\ UNCHANGED <<stable, cache, dirty, lh, outstanding, boot, buf, wrote, tail>>
-----------------------------------------------------------------------------
Recovery == read_head \/ recover_install \/ recover_clear

CommitStep(t) ==
  write_log(t) \/ write_head(t) \/ install_trans(t) \/ clear_log(t)
    \/ end_commit(t)

Next ==
  \/ Crash \/ Recovery
  \/ \E t \in Thread :
       \/ begin_op(t) \/ log_writeChecks(t) \/ log_write(t) \/ end_op(t)
       \/ CommitStep(t)
       \/ \E b \in Block, v \in Value : modify(t, b, v)

Spec == Init /\ [][Next]_vars

\* Recovery and every thread go on, and every system call ends.
FairSpec ==
  /\ Spec
  /\ WF_vars(Recovery)
  /\ \A t \in Thread :
       /\ WF_vars(log_writeChecks(t) \/ log_write(t))
       /\ WF_vars(CommitStep(t))
       /\ WF_vars(pc[t] = "begin" /\ begin_op(t))
       /\ SF_vars(end_op(t))
-----------------------------------------------------------------------------
TypeOK ==
  /\ home \in [Block -> Value] /\ cache \in [Block -> Value]
  /\ logged \in [1..LOGSIZE -> Value]
  /\ head \in Seq(Block) /\ lh \in Seq(Block)
  /\ dirty \subseteq Block
  /\ outstanding \in 0..Cardinality(Thread) /\ committing \in BOOLEAN
  /\ boot \in {"read_head", "install", "up", "panic"}
  /\ pc \in [Thread -> {"idle", "begin", "asleep", "op", "check", "record",
                        "write_log", "install", "done"}]
  /\ buf \in [Thread -> Block \cup {NoBlock}]
  /\ wrote \in [Thread -> SUBSET Block]
  /\ tail \in 1..Len(lh)+1

InOp == {t \in Thread : pc[t] \in {"op", "check", "record"}}

\* What a crash now would leave after recovery.
OnDisk == Recovered(head, logged, home)

\* Nothing is running, and nothing is committing: all that system calls wrote
\* is on the disk, so the last end_op returns only when its group is durable.
\* At any time a buffer that bget may recycle (clean and unlocked) has the
\* contents of its home block.
QuietIsDurable ==
  /\ TypeOK
  /\ boot = "up" /\ InOp = {} /\ ~committing => OnDisk = cache
  /\ \A b \in Block :
       b \notin dirty /\ (\A t \in Thread : buf[t] # b) => cache[b] = home[b]

\* System calls that keep to MAXOPBLOCKS never meet the panics of log_write and
\* end_op: what begin_op reserves for them is enough.
NeverTooBig == boot # "panic"

\* Only one thread commits, and no system call runs meanwhile ("there is never
\* any reasoning required about whether a commit might write an uncommitted
\* system call's updates"); and the blocks that it writes to the log lie in the
\* log's region of the disk ("max data blocks in on-disk log"), whatever system
\* calls ran together and although log_write tests the size without the lock.
CommitIsAlone ==
  /\ Len(lh) <= LogBlocks - 1
  /\ boot = "up" =>
       /\ outstanding = Cardinality(InOp)
       /\ committing <=> \E t \in Thread : pc[t] \in {"write_log", "install", "done"}
       /\ committing => outstanding = 0

\* Whoever sleeps in begin_op for room or for a commit is woken, as long as the
\* machine runs.
SleepersAreWoken ==
  \A t \in Thread : (pc[t] = "asleep") ~> (pc[t] # "asleep" \/ boot = "panic")

\* Whenever the machine stops, recovery finds the writes of whole groups of
\* system calls, never part of one.
Atomic ==
  INSTANCE AtomicDisk WITH
    mem <- IF boot \in {"up", "panic"} THEN cache ELSE OnDisk,
    disk <- OnDisk,
    active <- InOp
ImplementsAtomicDisk == Atomic!Spec
=============================================================================
