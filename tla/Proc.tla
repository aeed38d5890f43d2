-------------------------------- MODULE Proc --------------------------------
(***************************************************************************)
(* The process table (proc.c): allocproc, fork, exit, wait, sleep, wakeup, *)
(* kill, yield and the per-CPU scheduler.  Every section that holds        *)
(* ptable.lock is one step: the lock is taken with interrupts off, and a   *)
(* process that gives up its CPU hands the lock over to the scheduler, so  *)
(* no other thread sees the table between two assignments of one section.  *)
(* What runs without the lock (building a forked child, closing files in   *)
(* exit) is a step of its own, and other CPUs run between the two.         *)
(***************************************************************************)
EXTENDS Integers, FiniteSets

CONSTANTS NPROC,     \* number of slots of ptable
          Cpu,       \* processors
          Chan,      \* wait channels other than a process waiting for children
          KillPids,  \* the arguments that processes pass to kill
          MaxPid     \* bound on nextpid

ASSUME ProcAssumption == NPROC \in Nat \ {0} /\ MaxPid \in Nat \ {0}
ASSUME KillAssumption == KillPids \subseteq Int

Slot == 1..NPROC
initproc == 1   \* userinit takes the first slot
None == 0       \* the null pointer
ASSUME ChanAssumption == Chan \cap (0..NPROC) = {}

VARIABLES state,    \* p->state
          pid,      \* p->pid, 0 in a slot that was never used or was reaped
          parent,   \* p->parent
          killed,   \* p->killed
          chan,     \* p->chan; a waiting parent sleeps on its own slot
          pc,       \* what the kernel is doing for p
          child,    \* the slot that p's fork is building
          nextpid,
          cur,      \* cur[c]: the process on processor c
          pos,      \* pos[c]: where c's scheduler is in its pass
          panicked,
          shell,    \* the pid that the program init waits for, 0 if none
          victims   \* history: the pids that were passed to kill

table == <<state, pid, parent, killed, chan>>
vars == <<table, pc, child, nextpid, cur, pos, panicked,
          shell, victims>>

Live == {p \in Slot : state[p] \notin {"UNUSED", "EMBRYO"}}

\* The machine after userinit: init is ready, every other slot is zeroed.
Init ==
  /\ state = [p \in Slot |-> IF p = initproc THEN "RUNNABLE" ELSE "UNUSED"]
  /\ pid = [p \in Slot |-> IF p = initproc THEN 1 ELSE 0]
  /\ parent = [p \in Slot |-> None]
  /\ killed = [p \in Slot |-> FALSE]
  /\ chan = [p \in Slot |-> None]
  /\ pc = [p \in Slot |-> "user"]
  /\ child = [p \in Slot |-> None]
  /\ nextpid = 2
  /\ cur = [c \in Cpu |-> None]
  /\ pos = [c \in Cpu |-> 1]
  /\ panicked = FALSE
  /\ shell = 0
  /\ victims = {}

\* p executes on c, and is past the tidying up after a sleep.
Runs(c, p) == ~panicked /\ cur[c] = p /\ p # None /\ chan[p] = None

\* Faulty variant: the scheduler starts from the first slot after every process.
SchedRestarts(c) ==
  /\ cur' = [cur EXCEPT ![c] = None]
  /\ pos' = [pos EXCEPT ![c] = 1]

\* sched: the process leaves its CPU, whose scheduler goes on to the next slot.
Sched(c) ==
  /\ cur' = [cur EXCEPT ![c] = None]
  /\ pos' = [pos EXCEPT ![c] = cur[c] + 1]

StaysOn == UNCHANGED <<cur, pos>>

\* wakeup1 on every channel in S.
Wakeup1(st, S) ==
  [p \in Slot |-> IF st[p] = "SLEEPING" /\ chan[p] \in S THEN "RUNNABLE"
                                                         ELSE st[p]]
-----------------------------------------------------------------------------
\* Faulty variant: the chosen process stays RUNNABLE.
schedulerNoMark(c) ==
  /\ ~panicked /\ cur[c] = None
  /\ \E p \in Slot :
       /\ p >= pos[c] /\ state[p] = "RUNNABLE"
       /\ cur' = [cur EXCEPT ![c] = p]
  /\ UNCHANGED <<table, pc, child, nextpid, pos, panicked, shell, victims>>

\* One step of c's pass over the table: run the next RUNNABLE process, or end
\* the pass and start again.
scheduler(c) ==
  /\ ~panicked /\ cur[c] = None
  /\ LET ready == {p \in Slot : p >= pos[c] /\ state[p] = "RUNNABLE"} IN
       \/ /\ ready = {}
          /\ pos' = [pos EXCEPT ![c] = 1]
          /\ UNCHANGED <<state, cur>>
       \/ \E p \in ready :
            /\ \A q \in ready : p <= q
            /\ cur' = [cur EXCEPT ![c] = p]
            /\ state' = [state EXCEPT ![p] = "RUNNING"]
            /\ UNCHANGED pos
  /\ UNCHANGED <<pid, parent, killed, chan, pc, child, nextpid, panicked, shell,
                 victims>>

\* The timer interrupts p.
yield(c) ==
  \E p \in Slot :
    /\ Runs(c, p)
    /\ state' = [state EXCEPT ![p] = "RUNNABLE"]
    /\ Sched(c)
    /\ UNCHANGED <<pid, parent, killed, chan, pc, child, nextpid, panicked,
                   shell, victims>>

\* Sleep on a channel, in the middle of a system call or while exiting.
sleep(c, ch) ==
  \E p \in Slot :
    /\ Runs(c, p) /\ pc[p] \in {"kernel", "exiting"}
    /\ chan' = [chan EXCEPT ![p] = ch]
    /\ state' = [state EXCEPT ![p] = "SLEEPING"]
    /\ Sched(c)
    /\ UNCHANGED <<pid, parent, killed, pc, child, nextpid, panicked, shell,
                   victims>>

\* The end of sleep, when p has a CPU again.
sleepReturns(c) ==
  \E p \in Slot :
    /\ ~panicked /\ cur[c] = p /\ chan[p] # None
    /\ chan' = [chan EXCEPT ![p] = None]
    /\ StaysOn
    /\ UNCHANGED <<state, pid, parent, killed, pc, child, nextpid, panicked,
                   shell, victims>>

\* An interrupt handler or another process wakes a channel.
wakeup(ch) ==
  /\ ~panicked
  /\ state' = Wakeup1(state, {ch})
  /\ StaysOn
  /\ UNCHANGED <<pid, parent, killed, chan, pc, child, nextpid, panicked, shell,
                 victims>>

\* The program init forks only when it has no shell; other programs fork when
\* they like.
MayFork(p) == p # initproc \/ shell = 0

\* fork up to the return of allocproc: the first UNUSED slot is taken.
forkAlloc(c) ==
  \E p \in Slot :
    /\ Runs(c, p) /\ pc[p] = "kernel" /\ MayFork(p)
    /\ nextpid <= MaxPid
    /\ \E q \in Slot :
         /\ state[q] = "UNUSED"
         /\ \A r \in Slot : state[r] = "UNUSED" => q <= r
         /\ state' = [state EXCEPT ![q] = "EMBRYO"]
         /\ pid' = [pid EXCEPT ![q] = nextpid]
         /\ child' = [child EXCEPT ![p] = q]
    /\ nextpid' = nextpid + 1
    /\ pc' = [pc EXCEPT ![p] = "forking"]
    /\ StaysOn
    /\ UNCHANGED <<parent, killed, chan, panicked, shell, victims>>

\* The rest of fork, which runs without ptable.lock.
forkReturns(c) ==
  \E p \in Slot :
    /\ Runs(c, p) /\ pc[p] = "forking"
    /\ LET q == child[p] IN
         /\ parent' = [parent EXCEPT ![q] = p]
         /\ state' = [state EXCEPT ![q] = "RUNNABLE"]
         /\ pc' = [pc EXCEPT ![p] = "return", ![q] = "user"]
         /\ shell' = IF p = initproc THEN pid[q] ELSE shell
    /\ child' = [child EXCEPT ![p] = None]
    /\ StaysOn
    /\ UNCHANGED <<pid, killed, chan, nextpid, panicked, victims>>

\* fork finds no slot and returns -1; the program init then exits.
forkFails(c) ==
  \E p \in Slot :
    /\ Runs(c, p) /\ pc[p] = "kernel" /\ MayFork(p)
    /\ \A q \in Slot : state[q] # "UNUSED"
    /\ panicked' = (p = initproc)
    /\ pc' = [pc EXCEPT ![p] = "return"]
    /\ StaysOn
    /\ UNCHANGED <<table, child, nextpid, shell, victims>>

\* A program calls the kernel, even if it was killed while in user space.
syscall(c) ==
  \E p \in Slot :
    /\ Runs(c, p) /\ pc[p] = "user"
    /\ pc' = [pc EXCEPT ![p] = "kernel"]
    /\ StaysOn
    /\ UNCHANGED <<table, child, nextpid, panicked, shell, victims>>

\* exit up to its critical section; init must never get there.
Exits(p) ==
  /\ panicked' = (p = initproc)
  /\ pc' = [pc EXCEPT ![p] = "exiting"]

\* The exit system call.  The program init calls it only in forkFails.
exitBegins(c) ==
  \E p \in Slot \ {initproc} :
    /\ Runs(c, p) /\ pc[p] = "kernel"
    /\ Exits(p)
    /\ StaysOn
    /\ UNCHANGED <<table, child, nextpid, shell, victims>>

\* The end of a system call: a process that was killed does not go back.  The
\* calls that the program init makes are fork and wait.
sysReturns(c) ==
  \E p \in Slot :
    /\ Runs(c, p) /\ pc[p] \in {"kernel", "return"}
    /\ p = initproc => pc[p] = "return"
    /\ \/ killed[p] /\ Exits(p)
       \/ ~killed[p] /\ pc' = [pc EXCEPT ![p] = "user"] /\ UNCHANGED panicked
    /\ StaysOn
    /\ UNCHANGED <<table, child, nextpid, shell, victims>>

\* An interrupt finds a process that was killed in user space.
trapExits(c) ==
  \E p \in Slot :
    /\ Runs(c, p) /\ pc[p] = "user" /\ killed[p]
    /\ Exits(p)
    /\ StaysOn
    /\ UNCHANGED <<table, child, nextpid, shell, victims>>

\* Faulty variants of the critical section of exit: init is not told about the
\* children that are zombies already, or the parent is not woken.
exitEndsAs(c, tell, heard) ==
  \E p \in Slot :
    /\ Runs(c, p) /\ pc[p] = "exiting"
    /\ LET kids == {q \in Slot : parent[q] = p}
           woken == {q \in {parent[p]} : heard} \cup
                    {q \in {initproc} :
                       tell /\ \E r \in kids : state[r] = "ZOMBIE"}
       IN /\ parent' = [q \in Slot |-> IF q \in kids THEN initproc
                                                     ELSE parent[q]]
          /\ state' = [Wakeup1(state, woken) EXCEPT ![p] = "ZOMBIE"]
    /\ Sched(c)
    /\ UNCHANGED <<pid, killed, chan, pc, child, nextpid, panicked, shell,
                   victims>>
exitEndsSilently(c) == exitEndsAs(c, FALSE, TRUE)
exitEndsUnheard(c) == exitEndsAs(c, TRUE, FALSE)

\* The critical section of exit: wake the parent, pass the children to init,
\* become a zombie and leave the CPU for good.
exitEnds(c) ==
  \E p \in Slot :
    /\ Runs(c, p) /\ pc[p] = "exiting"
    /\ LET kids == {q \in Slot : parent[q] = p}
           woken == {parent[p]} \cup
                    {q \in {initproc} : \E r \in kids : state[r] = "ZOMBIE"}
       IN /\ parent' = [q \in Slot |-> IF q \in kids THEN initproc
                                                     ELSE parent[q]]
          /\ state' = [Wakeup1(state, woken) EXCEPT ![p] = "ZOMBIE"]
    /\ Sched(c)
    /\ UNCHANGED <<pid, killed, chan, pc, child, nextpid, panicked, shell,
                   victims>>

\* Faulty variant: the reaped slot keeps its killed mark.
waitKeepsKilled(c) ==
  \E p, q \in Slot :
    /\ Runs(c, p) /\ pc[p] \in {"kernel", "waiting"}
    /\ p = initproc => shell # 0
    /\ parent[q] = p /\ state[q] = "ZOMBIE"
    /\ state' = [state EXCEPT ![q] = "UNUSED"]
    /\ pid' = [pid EXCEPT ![q] = 0]
    /\ parent' = [parent EXCEPT ![q] = None]
    /\ pc' = [pc EXCEPT ![p] = "return"]
    /\ shell' = IF p = initproc /\ pid[q] = shell THEN 0 ELSE shell
    /\ StaysOn
    /\ UNCHANGED <<killed, chan, child, nextpid, panicked, victims>>

\* One pass of wait's loop: reap the first zombie child, give up, or sleep
\* until a child exits.
wait(c) ==
  \E p \in Slot :
    /\ Runs(c, p) /\ pc[p] \in {"kernel", "waiting"}
    /\ p = initproc => shell # 0
    /\ LET kids == {q \in Slot : parent[q] = p}
           zombies == {q \in kids : state[q] = "ZOMBIE"}
       IN \/ \E q \in zombies :
               /\ \A r \in zombies : q <= r
               /\ state' = [state EXCEPT ![q] = "UNUSED"]
               /\ pid' = [pid EXCEPT ![q] = 0]
               /\ parent' = [parent EXCEPT ![q] = None]
               /\ killed' = [killed EXCEPT ![q] = FALSE]
               /\ pc' = [pc EXCEPT ![p] = "return", ![q] = "user"]
               /\ shell' = IF p = initproc /\ pid[q] = shell THEN 0 ELSE shell
               /\ StaysOn
               /\ UNCHANGED chan
          \/ /\ zombies = {} /\ (kids = {} \/ killed[p])
             /\ pc' = [pc EXCEPT ![p] = "return"]
             /\ shell' = IF p = initproc THEN 0 ELSE shell
             /\ StaysOn
             /\ UNCHANGED table
          \/ /\ zombies = {} /\ kids # {} /\ ~killed[p]
             /\ pc' = [pc EXCEPT ![p] = "waiting"]
             /\ chan' = [chan EXCEPT ![p] = p]
             /\ state' = [state EXCEPT ![p] = "SLEEPING"]
             /\ Sched(c)
             /\ UNCHANGED <<pid, parent, killed, shell>>
    /\ UNCHANGED <<child, nextpid, panicked, victims>>

\* Faulty variant: a sleeping process is marked but not woken.
killNoWake(c, n) ==
  \E p \in Slot \ {initproc}, q \in Slot :
    /\ Runs(c, p) /\ pc[p] = "kernel"
    /\ pid[q] = n
    /\ killed' = [killed EXCEPT ![q] = TRUE]
    /\ victims' = victims \cup {n}
    /\ pc' = [pc EXCEPT ![p] = "return"]
    /\ StaysOn
    /\ UNCHANGED <<state, pid, parent, chan, child, nextpid, panicked, shell>>

\* The first slot with this pid is marked, whatever its state.
kill(c, n) ==
  \E p \in Slot \ {initproc} :
    /\ Runs(c, p) /\ pc[p] = "kernel"
    /\ \E q \in Slot :
         /\ pid[q] = n
         /\ \A r \in Slot : pid[r] = n => q <= r
         /\ killed' = [killed EXCEPT ![q] = TRUE]
         /\ state' = [state EXCEPT ![q] = IF @ = "SLEEPING" THEN "RUNNABLE"
                                                            ELSE @]
    /\ victims' = victims \cup {n}
    /\ pc' = [pc EXCEPT ![p] = "return"]
    /\ StaysOn
    /\ UNCHANGED <<pid, parent, chan, child, nextpid, panicked, shell>>

\* A fault in user space kills the process, and the handler goes on to exit.
\* The program init has none.
trap(c) ==
  \E p \in Slot \ {initproc} :
    /\ Runs(c, p) /\ pc[p] = "user"
    /\ killed' = [killed EXCEPT ![p] = TRUE]
    /\ Exits(p)
    /\ StaysOn
    /\ UNCHANGED <<state, pid, parent, chan, child, nextpid, shell, victims>>

\* panic stops every processor.
panicLoop == panicked /\ UNCHANGED vars

CallStep(c) ==
  \/ syscall(c) \/ sysReturns(c) \/ trap(c) \/ trapExits(c)
  \/ forkAlloc(c) \/ forkReturns(c) \/ forkFails(c)
  \/ exitBegins(c) \/ exitEnds(c) \/ wait(c)
  \/ \E n \in KillPids : kill(c, n)
ProcessStep(c) ==
  CallStep(c) \/ sleepReturns(c) \/ \E ch \in Chan : sleep(c, ch)

Next ==
  \/ \E c \in Cpu : scheduler(c) \/ yield(c) \/ ProcessStep(c)
  \/ \E ch \in Chan : wakeup(ch)
  \/ panicLoop

Spec == Init /\ [][Next]_vars

\* Every scheduler keeps scanning, the timer interrupts every processor, channels
\* are woken again and again (as the clock does), and a process that gets a
\* processor again and again executes instructions and does not only sleep.
Fairness ==
  /\ \A c \in Cpu : WF_vars(scheduler(c)) /\ WF_vars(yield(c))
  /\ \A ch \in Chan : WF_vars(wakeup(ch))
  /\ \A p \in Slot : /\ SF_vars(\E c \in Cpu : cur[c] = p /\ CallStep(c))
                     /\ SF_vars(\E c \in Cpu : cur[c] = p /\ sleepReturns(c))

FairSpec == Spec /\ Fairness
-----------------------------------------------------------------------------
State == {"UNUSED", "EMBRYO", "SLEEPING", "RUNNABLE", "RUNNING", "ZOMBIE"}

TypeOK ==
  /\ state \in [Slot -> State]
  /\ pid \in [Slot -> 0..MaxPid]
  /\ parent \in [Slot -> Slot \cup {None}]
  /\ killed \in [Slot -> BOOLEAN]
  /\ chan \in [Slot -> Slot \cup {None} \cup Chan]
  /\ pc \in [Slot -> {"user", "kernel", "return", "forking", "waiting",
                      "exiting"}]
  /\ child \in [Slot -> Slot \cup {None}]
  /\ nextpid \in 1..MaxPid+1
  /\ cur \in [Cpu -> Slot \cup {None}]
  /\ pos \in [Cpu -> 1..NPROC+1]
  /\ panicked \in BOOLEAN
  /\ shell \in 0..MaxPid
  /\ victims \subseteq Int

\* A process is RUNNING exactly when some processor runs it, and no two
\* processors run the same one: each kernel stack has one user.
OneCpuPerProcess ==
  /\ TypeOK
  /\ \A p \in Slot : state[p] = "RUNNING" <=> \E c \in Cpu : cur[c] = p
  /\ \A c, d \in Cpu : c # d /\ cur[c] # None => cur[c] # cur[d]

\* Every process but init has a parent that can still wait for it: exit hands
\* the children of a process to init before it becomes a zombie, and a slot is
\* freed only when nobody refers to it as parent.  And a parent asleep in wait has
\* a child to wait for, none of them is a zombie yet, and nobody has killed it:
\* the wakeups of exit and kill are never lost.
ChildrenAreWaitedFor ==
  /\ \A p \in Live \ {initproc} :
       parent[p] \in Live /\ state[parent[p]] # "ZOMBIE"
  /\ \A p \in Slot : state[p] = "SLEEPING" /\ pc[p] = "waiting" =>
       /\ ~killed[p]
       /\ \E q \in Slot : parent[q] = p
       /\ \A q \in Slot : parent[q] = p => state[q] # "ZOMBIE"

\* Only a process that was itself the target of kill is ever marked as killed
\* ("Kill the process with the given pid"); a trap marks a process on its way
\* into exit.
KilledWasTargeted ==
  \A p \in Slot :
    state[p] # "UNUSED" /\ killed[p] => pid[p] \in victims \/ pc[p] = "exiting"

\* The table is scanned in order from where the last process left it, so a
\* process that is ready is run, whatever the other processes do.
NoStarvation ==
  \A p \in Slot : []<>(state[p] # "RUNNABLE" \/ panicked)

\* A process that was killed exits, wherever it was when it was killed: asleep
\* in wait, in a system call, in user space or being preempted: none stays alive
\* with the mark of kill, which nothing but the end of the process takes away.
KilledExits ==
  \A p \in Slot :
    []<>(killed[p] /\ p \in Live => state[p] = "ZOMBIE" \/ panicked)

\* init reaps every zombie handed to it, unless the pids of the instance have
\* run out and init has no shell to wait for.
ZombiesAreReaped ==
  \A p \in Slot \ {initproc} :
    (state[p] = "ZOMBIE" /\ parent[p] = initproc)
      ~> (state[p] = "UNUSED" \/ panicked \/ nextpid > MaxPid)
=============================================================================
