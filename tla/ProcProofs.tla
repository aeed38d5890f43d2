----------------------------- MODULE ProcProofs -----------------------------
(***************************************************************************)
(* The process table is consistent for any number of slots and processors: *)
(* a process runs on one processor, a live process has a parent that can   *)
(* wait for it, and a parent asleep in wait has something to wait for.     *)
(***************************************************************************)
EXTENDS Proc, TLAPS

\* Time enough for every leaf, whatever else the machine does.
USE SMTT(15), ZenonT(20)

\* A slot under construction belongs to one fork; a slot that is free or under
\* construction has no parent yet; and nobody is its own parent.
ForkInv ==
  /\ \A p \in Slot : pc[p] = "forking" =>
       /\ child[p] \in Slot /\ state[child[p]] = "EMBRYO"
       /\ \A q \in Slot : pc[q] = "forking" /\ child[q] = child[p] => q = p
  /\ \A p \in Slot : state[p] \in {"UNUSED", "EMBRYO"} =>
       parent[p] = None /\ pc[p] = "user"
  /\ \A p \in Slot : parent[p] # p

\* init is there until the kernel panics, and is nobody's child.
InitInv ==
  /\ state[initproc] \notin {"UNUSED", "EMBRYO", "ZOMBIE"}
  /\ parent[initproc] = None
  /\ pc[initproc] = "exiting" => panicked

\* A parent asleep in wait sleeps on its own slot, which is what exit wakes.
WaitInv ==
  \A p \in Slot : state[p] = "SLEEPING" /\ pc[p] = "waiting" => chan[p] = p

ProcInv == OneCpuPerProcess /\ ForkInv /\ InitInv /\ WaitInv /\ ChildrenAreWaitedFor
-----------------------------------------------------------------------------
LEMMA InitIsSlot == initproc \in Slot /\ None \notin Slot
  BY ProcAssumption DEF initproc, Slot, None

LEMMA InitProcInv == Init => ProcInv
<1> SUFFICES ASSUME Init PROVE ProcInv
  OBVIOUS
<1> USE ProcAssumption, InitIsSlot DEF Init, Slot, initproc, None
<1>1. TypeOK
  <2>1. /\ 1 \in 0..MaxPid /\ 0 \in 0..MaxPid /\ 2 \in 1..MaxPid+1
        /\ 1 \in 1..NPROC+1
    OBVIOUS
  <2>2. pid \in [Slot -> 0..MaxPid] /\ nextpid \in 1..MaxPid+1 /\ shell \in 0..MaxPid
    BY <2>1
  <2>3. pos \in [Cpu -> 1..NPROC+1] /\ cur \in [Cpu -> Slot \cup {None}]
    BY <2>1
  <2>4. /\ state \in [Slot -> State] /\ parent \in [Slot -> Slot \cup {None}]
        /\ killed \in [Slot -> BOOLEAN] /\ chan \in [Slot -> Slot \cup {None} \cup Chan]
        /\ child \in [Slot -> Slot \cup {None}]
    BY DEF State
  <2> QED BY <2>2, <2>3, <2>4 DEF TypeOK
<1>2. OneCpuPerProcess
  BY <1>1 DEF OneCpuPerProcess
<1>3. ForkInv /\ InitInv /\ WaitInv
  BY DEF ForkInv, InitInv, WaitInv
<1>4. ChildrenAreWaitedFor
  BY DEF ChildrenAreWaitedFor, Live
<1> QED BY <1>2, <1>3, <1>4 DEF ProcInv

\* A process that leaves its processor is on none.
LEMMA SchedLeaves ==
  ASSUME OneCpuPerProcess, NEW c \in Cpu, NEW p \in Slot, cur[c] = p, Sched(c)
  PROVE  /\ state[p] = "RUNNING"
         /\ pos' \in [Cpu -> 1..NPROC+1] /\ cur' \in [Cpu -> Slot \cup {None}]
         /\ \A d \in Cpu : cur'[d] # p /\ (cur'[d] = cur[d] \/ cur'[d] = None)
         /\ \A q \in Slot \ {p} :
              (\E d \in Cpu : cur'[d] = q) <=> (\E d \in Cpu : cur[d] = q)
<1> USE InitIsSlot, ProcAssumption
<1>1. state[p] = "RUNNING" /\ cur' \in [Cpu -> Slot \cup {None}]
  BY DEF OneCpuPerProcess, TypeOK, Sched
<1>2. p + 1 \in 1..NPROC+1
  BY DEF Slot
<1>3. pos' \in [Cpu -> 1..NPROC+1]
  BY <1>2 DEF OneCpuPerProcess, TypeOK, Sched
<1>4. \A d \in Cpu : cur'[d] # p /\ (cur'[d] = cur[d] \/ cur'[d] = None)
  BY DEF OneCpuPerProcess, TypeOK, Sched
<1>5. \A q \in Slot \ {p} : (\E d \in Cpu : cur'[d] = q) <=> (\E d \in Cpu : cur[d] = q)
  BY DEF OneCpuPerProcess, TypeOK, Sched
<1> QED BY <1>1, <1>3, <1>4, <1>5

\* What keeps OneCpuPerProcess when p leaves its processor.
LEMMA LeavingKeeps ==
  ASSUME OneCpuPerProcess, NEW c \in Cpu, NEW p \in Slot, cur[c] = p, Sched(c),
         state' \in [Slot -> State], state'[p] # "RUNNING",
         \A q \in Slot \ {p} : state'[q] = "RUNNING" <=> state[q] = "RUNNING",
         TypeOK'
  PROVE  OneCpuPerProcess'
<1>1. \A q \in Slot : state'[q] = "RUNNING" <=> \E d \in Cpu : cur'[d] = q
  BY SchedLeaves DEF OneCpuPerProcess
<1>2. \A d, e \in Cpu : d # e /\ cur'[d] # None => cur'[d] # cur'[e]
  BY SchedLeaves DEF OneCpuPerProcess
<1> QED BY <1>1, <1>2 DEF OneCpuPerProcess

\* Steps of a call that change only where the process is, and perhaps panic.
LEMMA CallKeeps ==
  ASSUME ProcInv, NEW c \in Cpu,
         syscall(c) \/ sysReturns(c) \/ trapExits(c) \/ exitBegins(c) \/ forkFails(c)
  PROVE  ProcInv'
<1> USE InitIsSlot, ProcAssumption DEF ProcInv
<1>1. PICK p \in Slot, l \in {"user", "kernel", "return", "exiting"} :
        /\ ~panicked /\ cur[c] = p /\ pc[p] # "forking" /\ panicked' \in BOOLEAN
        /\ pc' = [pc EXCEPT ![p] = l]
        /\ p = initproc /\ l = "exiting" => panicked'
        /\ UNCHANGED <<table, child, nextpid, cur, pos, shell, victims>>
  BY DEF syscall, sysReturns, trapExits, exitBegins, forkFails, Runs, StaysOn, Exits,
         OneCpuPerProcess, TypeOK
<1>2. OneCpuPerProcess'
  BY <1>1 DEF OneCpuPerProcess, TypeOK, table
<1>3. ForkInv'
  BY <1>1 DEF ForkInv, OneCpuPerProcess, TypeOK, table
<1>4. InitInv' /\ WaitInv'
  BY <1>1 DEF InitInv, WaitInv, OneCpuPerProcess, TypeOK, table
<1>5. ChildrenAreWaitedFor'
  BY <1>1 DEF ChildrenAreWaitedFor, OneCpuPerProcess, TypeOK, Live, table
<1> QED BY <1>2, <1>3, <1>4, <1>5

\* The scheduler runs a process that nobody runs.
LEMMA SchedulerKeeps ==
  ASSUME ProcInv, NEW c \in Cpu, scheduler(c)
  PROVE  ProcInv'
<1> USE InitIsSlot, ProcAssumption DEF ProcInv
<1>1. OneCpuPerProcess'
  BY DEF OneCpuPerProcess, ForkInv, TypeOK, State, scheduler
<1>2. ForkInv'
  BY DEF ForkInv, OneCpuPerProcess, TypeOK, scheduler
<1>3. InitInv' /\ WaitInv'
  BY DEF InitInv, WaitInv, OneCpuPerProcess, ForkInv, TypeOK, scheduler
<1>4. ChildrenAreWaitedFor'
  BY DEF ChildrenAreWaitedFor, OneCpuPerProcess, ForkInv, InitInv, WaitInv, TypeOK, Live, scheduler
<1> QED BY <1>1, <1>2, <1>3, <1>4

\* A process gives up its processor.
LEMMA YieldKeeps ==
  ASSUME ProcInv, NEW c \in Cpu, yield(c)
  PROVE  ProcInv'
<1> USE InitIsSlot, ProcAssumption DEF ProcInv
<1>1. OneCpuPerProcess'
  <2>1. PICK p \in Slot : cur[c] = p /\ Sched(c) /\ state' = [state EXCEPT ![p] = "RUNNABLE"]
    BY DEF yield, Runs
  <2>2. TypeOK'
    BY <2>1, SchedLeaves DEF OneCpuPerProcess, TypeOK, State, yield, Runs
  <2> QED BY <2>1, <2>2, LeavingKeeps DEF OneCpuPerProcess, TypeOK
<1>2. ForkInv'
  BY DEF ForkInv, OneCpuPerProcess, TypeOK, yield, Runs, Sched
<1>3. InitInv' /\ WaitInv'
  BY DEF InitInv, WaitInv, OneCpuPerProcess, ForkInv, TypeOK, yield, Runs, Sched
<1>4. ChildrenAreWaitedFor'
  BY DEF ChildrenAreWaitedFor, OneCpuPerProcess, ForkInv, InitInv, WaitInv, TypeOK, Live, yield, Runs, Sched
<1> QED BY <1>1, <1>2, <1>3, <1>4

\* A process sleeps in a call.
LEMMA SleepKeeps ==
  ASSUME ProcInv, NEW c \in Cpu, NEW ch \in Chan, sleep(c, ch)
  PROVE  ProcInv'
<1> USE InitIsSlot, ProcAssumption DEF ProcInv
<1>1. OneCpuPerProcess'
  <2>1. PICK p \in Slot : cur[c] = p /\ Sched(c) /\ state' = [state EXCEPT ![p] = "SLEEPING"]
    BY DEF sleep, Runs
  <2>2. TypeOK'
    BY <2>1, SchedLeaves DEF OneCpuPerProcess, TypeOK, State, sleep, Runs
  <2> QED BY <2>1, <2>2, LeavingKeeps DEF OneCpuPerProcess, TypeOK
<1>2. ForkInv'
  BY DEF ForkInv, OneCpuPerProcess, TypeOK, sleep, Runs, Sched
<1>3. InitInv' /\ WaitInv'
  BY DEF InitInv, WaitInv, OneCpuPerProcess, ForkInv, TypeOK, sleep, Runs, Sched
<1>4. ChildrenAreWaitedFor'
  BY DEF ChildrenAreWaitedFor, OneCpuPerProcess, ForkInv, InitInv, WaitInv, TypeOK, Live, sleep, Runs, Sched
<1> QED BY <1>1, <1>2, <1>3, <1>4

\* A process is back from sleep.
LEMMA SleepReturnsKeeps ==
  ASSUME ProcInv, NEW c \in Cpu, sleepReturns(c)
  PROVE  ProcInv'
<1> USE InitIsSlot, ProcAssumption DEF ProcInv
<1>1. OneCpuPerProcess'
  BY DEF OneCpuPerProcess, ForkInv, TypeOK, State, sleepReturns, StaysOn
<1>2. ForkInv'
  BY DEF ForkInv, OneCpuPerProcess, TypeOK, sleepReturns, StaysOn
<1>3. InitInv' /\ WaitInv'
  BY DEF InitInv, WaitInv, OneCpuPerProcess, ForkInv, TypeOK, sleepReturns, StaysOn
<1>4. ChildrenAreWaitedFor'
  BY DEF ChildrenAreWaitedFor, OneCpuPerProcess, ForkInv, InitInv, WaitInv, TypeOK, Live, sleepReturns, StaysOn
<1> QED BY <1>1, <1>2, <1>3, <1>4

\* A channel is woken.
LEMMA WakeupKeeps ==
  ASSUME ProcInv, NEW ch \in Chan, wakeup(ch)
  PROVE  ProcInv'
<1> USE InitIsSlot, ProcAssumption DEF ProcInv
<1>1. OneCpuPerProcess'
  BY DEF OneCpuPerProcess, ForkInv, TypeOK, State, wakeup, Wakeup1, StaysOn
<1>2. ForkInv'
  BY DEF ForkInv, OneCpuPerProcess, TypeOK, wakeup, Wakeup1, StaysOn
<1>3. InitInv' /\ WaitInv'
  BY DEF InitInv, WaitInv, OneCpuPerProcess, ForkInv, TypeOK, wakeup, Wakeup1, StaysOn
<1>4. ChildrenAreWaitedFor'
  BY DEF ChildrenAreWaitedFor, OneCpuPerProcess, ForkInv, InitInv, WaitInv, TypeOK, Live, wakeup, Wakeup1, StaysOn
<1> QED BY <1>1, <1>2, <1>3, <1>4

\* A fault kills the process.
LEMMA TrapKeeps ==
  ASSUME ProcInv, NEW c \in Cpu, trap(c)
  PROVE  ProcInv'
<1> USE InitIsSlot, ProcAssumption DEF ProcInv
<1>1. OneCpuPerProcess'
  BY DEF OneCpuPerProcess, ForkInv, TypeOK, State, trap, Runs, StaysOn, Exits
<1>2. ForkInv'
  BY DEF ForkInv, OneCpuPerProcess, TypeOK, trap, Runs, StaysOn, Exits
<1>3. InitInv' /\ WaitInv'
  BY DEF InitInv, WaitInv, OneCpuPerProcess, ForkInv, TypeOK, trap, Runs, StaysOn, Exits
<1>4. ChildrenAreWaitedFor'
  BY DEF ChildrenAreWaitedFor, OneCpuPerProcess, ForkInv, InitInv, WaitInv, TypeOK, Live, trap, Runs, StaysOn, Exits
<1> QED BY <1>1, <1>2, <1>3, <1>4

\* allocproc takes a free slot.
LEMMA ForkAllocKeeps ==
  ASSUME ProcInv, NEW c \in Cpu, forkAlloc(c)
  PROVE  ProcInv'
<1> USE InitIsSlot, ProcAssumption DEF ProcInv
<1>1. OneCpuPerProcess'
  BY DEF OneCpuPerProcess, ForkInv, TypeOK, State, forkAlloc, Runs, StaysOn
<1>2. ForkInv'
  BY DEF ForkInv, OneCpuPerProcess, TypeOK, forkAlloc, Runs, StaysOn
<1>3. InitInv' /\ WaitInv'
  BY DEF InitInv, WaitInv, OneCpuPerProcess, ForkInv, TypeOK, forkAlloc, Runs, StaysOn
<1>4. ChildrenAreWaitedFor'
  BY DEF ChildrenAreWaitedFor, OneCpuPerProcess, ForkInv, InitInv, WaitInv, TypeOK, Live, forkAlloc, Runs, StaysOn
<1> QED BY <1>1, <1>2, <1>3, <1>4

\* fork makes the child runnable.
LEMMA ForkReturnsKeeps ==
  ASSUME ProcInv, NEW c \in Cpu, forkReturns(c)
  PROVE  ProcInv'
<1> USE InitIsSlot, ProcAssumption DEF ProcInv
<1>1. OneCpuPerProcess'
  BY DEF OneCpuPerProcess, ForkInv, TypeOK, State, forkReturns, Runs, StaysOn
<1>2. ForkInv'
  BY DEF ForkInv, OneCpuPerProcess, TypeOK, forkReturns, Runs, StaysOn
<1>3. InitInv' /\ WaitInv'
  BY DEF InitInv, WaitInv, OneCpuPerProcess, ForkInv, TypeOK, forkReturns, Runs, StaysOn
<1>4. ChildrenAreWaitedFor'
  BY DEF ChildrenAreWaitedFor, OneCpuPerProcess, ForkInv, InitInv, WaitInv, TypeOK, Live, forkReturns, Runs, StaysOn
<1> QED BY <1>1, <1>2, <1>3, <1>4

\* kill marks a process and ends its sleep.
LEMMA KillKeeps ==
  ASSUME ProcInv, NEW c \in Cpu, NEW n \in KillPids, kill(c, n)
  PROVE  ProcInv'
<1> USE InitIsSlot, ProcAssumption DEF ProcInv
<1>1. OneCpuPerProcess'
  BY KillAssumption DEF OneCpuPerProcess, ForkInv, TypeOK, State, kill, Runs, StaysOn
<1>2. ForkInv'
  BY KillAssumption DEF ForkInv, OneCpuPerProcess, TypeOK, kill, Runs, StaysOn
<1>3. InitInv' /\ WaitInv'
  BY KillAssumption DEF InitInv, WaitInv, OneCpuPerProcess, ForkInv, TypeOK, kill, Runs, StaysOn
<1>4. ChildrenAreWaitedFor'
  BY KillAssumption DEF ChildrenAreWaitedFor, OneCpuPerProcess, ForkInv, InitInv, WaitInv, TypeOK, Live, kill, Runs, StaysOn
<1> QED BY <1>1, <1>2, <1>3, <1>4

\* exit hands the children over, and wakes whoever waits for one that is a zombie.
LEMMA ExitEndsKeeps ==
  ASSUME ProcInv, NEW c \in Cpu, exitEnds(c)
  PROVE  ProcInv'
<1> USE InitIsSlot, ProcAssumption DEF ProcInv
<1> DEFINE kids(p) == {q \in Slot : parent[q] = p}
           told(p) == {parent[p]} \cup
                      {q \in {initproc} : \E r \in kids(p) : state[r] = "ZOMBIE"}
<1>0. PICK p \in Slot :
        /\ ~panicked /\ cur[c] = p /\ pc[p] = "exiting" /\ Sched(c)
        /\ parent' = [q \in Slot |-> IF q \in kids(p) THEN initproc ELSE parent[q]]
        /\ state' = [Wakeup1(state, told(p)) EXCEPT ![p] = "ZOMBIE"]
        /\ UNCHANGED <<pid, killed, chan, pc, child, nextpid, panicked, shell, victims>>
  BY DEF exitEnds, Runs
<1>1. PICK woken :
        /\ ~panicked /\ cur[c] = p /\ pc[p] = "exiting" /\ Sched(c)
        /\ parent[p] \in woken
        /\ (\E r \in Slot : parent[r] = p /\ state[r] = "ZOMBIE") => initproc \in woken
        /\ parent' = [q \in Slot |-> IF parent[q] = p THEN initproc ELSE parent[q]]
        /\ state' = [Wakeup1(state, woken) EXCEPT ![p] = "ZOMBIE"]
        /\ UNCHANGED <<pid, killed, chan, pc, child, nextpid, panicked, shell, victims>>
  <2>1. parent' = [q \in Slot |-> IF parent[q] = p THEN initproc ELSE parent[q]]
    BY <1>0
  <2>2. /\ parent[p] \in told(p)
        /\ (\E r \in Slot : parent[r] = p /\ state[r] = "ZOMBIE") => initproc \in told(p)
    OBVIOUS
  <2> HIDE DEF told, kids
  <2> QED BY <1>0, <2>1, <2>2
<1> HIDE DEF told, kids
<1>2. /\ state \in [Slot -> State] /\ state' \in [Slot -> State] /\ state'[p] = "ZOMBIE"
      /\ \A q \in Slot \ {p} :
           state'[q] = IF state[q] = "SLEEPING" /\ chan[q] \in woken THEN "RUNNABLE"
                                                                     ELSE state[q]
  BY <1>1 DEF OneCpuPerProcess, TypeOK, Wakeup1, State
<1>3. p # initproc /\ state[p] = "RUNNING"
  BY <1>1 DEF InitInv, OneCpuPerProcess
<1>4. OneCpuPerProcess'
  <2>1. TypeOK'
    BY <1>1, <1>2, SchedLeaves DEF OneCpuPerProcess, TypeOK
  <2> QED BY <1>1, <1>2, <2>1, LeavingKeeps
<1>5. ForkInv'
  BY <1>1, <1>2, <1>3 DEF ForkInv, InitInv, OneCpuPerProcess, TypeOK
<1>6. InitInv' /\ WaitInv'
  BY <1>1, <1>2, <1>3 DEF InitInv, WaitInv
\* The children of p have init for a parent, the others the one they had.
<1>7. ASSUME NEW q \in Live' \ {initproc}
      PROVE  parent'[q] \in Live' /\ state'[parent'[q]] # "ZOMBIE"
  <2>1. q \in Slot /\ q \in Live
    BY <1>2, <1>3 DEF Live
  <2>2. parent[q] \in Live /\ state[parent[q]] # "ZOMBIE" /\ initproc \in Live
    BY <2>1 DEF ChildrenAreWaitedFor, InitInv, Live
  <2>3. parent'[q] \in Slot \ {p} /\ parent'[q] \in Live /\ state[parent'[q]] # "ZOMBIE"
    BY <1>1, <1>3, <2>1, <2>2 DEF InitInv, Live
  <2> QED BY <1>2, <2>3 DEF Live
<1>8. ASSUME NEW q \in Slot, state'[q] = "SLEEPING", pc'[q] = "waiting"
      PROVE  /\ ~killed'[q]
             /\ \E r \in Slot : parent'[r] = q
             /\ \A r \in Slot : parent'[r] = q => state'[r] # "ZOMBIE"
  <2>1. q # p /\ state[q] = "SLEEPING" /\ pc[q] = "waiting" /\ chan[q] = q /\ q \notin woken
    BY <1>1, <1>2, <1>8 DEF WaitInv
  <2>2. ~killed'[q] /\ \E r \in Slot : parent'[r] = q
    BY <1>1, <2>1 DEF ChildrenAreWaitedFor
  <2>3. ASSUME NEW r \in Slot, parent'[r] = q PROVE state'[r] # "ZOMBIE"
    <3>1. r # p
      BY <1>1, <1>3, <2>1, <2>3 DEF ForkInv
    <3>2. CASE parent[r] = p
      BY <1>1, <1>2, <2>1, <2>3, <3>1, <3>2
    <3>3. CASE parent[r] # p
      BY <1>1, <1>2, <2>1, <2>3, <3>1, <3>3 DEF ChildrenAreWaitedFor
    <3> QED BY <3>2, <3>3
  <2> QED BY <2>2, <2>3
<1>9. ChildrenAreWaitedFor'
  BY <1>7, <1>8 DEF ChildrenAreWaitedFor
<1> QED BY <1>4, <1>5, <1>6, <1>9

\* wait frees the slot of a zombie child.
LEMMA ReapKeeps ==
  ASSUME ProcInv, NEW p \in Slot, NEW q \in Slot,
         state[p] = "RUNNING", parent[q] = p, state[q] = "ZOMBIE",
         state' = [state EXCEPT ![q] = "UNUSED"],
         pid' = [pid EXCEPT ![q] = 0],
         parent' = [parent EXCEPT ![q] = None],
         killed' = [killed EXCEPT ![q] = FALSE],
         pc' = [pc EXCEPT ![p] = "return", ![q] = "user"],
         shell' \in {0, shell},
         UNCHANGED <<chan, cur, pos, child, nextpid, panicked, victims>>
  PROVE  ProcInv'
<1> USE InitIsSlot, ProcAssumption DEF ProcInv
<1>1. /\ pc \in [Slot -> {"user", "kernel", "return", "forking", "waiting", "exiting"}]
      /\ state \in [Slot -> State] /\ q # p
  BY DEF OneCpuPerProcess, TypeOK
<1>2. /\ pc' \in [Slot -> {"user", "kernel", "return", "forking", "waiting", "exiting"}]
      /\ pc'[p] = "return" /\ pc'[q] = "user"
      /\ \A r \in Slot \ {p, q} : pc'[r] = pc[r]
  BY <1>1
<1>3. /\ state' \in [Slot -> State] /\ state'[q] = "UNUSED"
      /\ \A r \in Slot \ {q} : state'[r] = state[r]
  BY <1>1 DEF State
<1>4. /\ parent' \in [Slot -> Slot \cup {None}] /\ parent'[q] = None
      /\ \A r \in Slot \ {q} : parent'[r] = parent[r]
  BY DEF OneCpuPerProcess, TypeOK
<1>5. /\ pid' \in [Slot -> 0..MaxPid] /\ shell' \in 0..MaxPid
  BY DEF OneCpuPerProcess, TypeOK
<1>6. /\ killed' \in [Slot -> BOOLEAN]
      /\ \A r \in Slot \ {q} : killed'[r] = killed[r]
  BY DEF OneCpuPerProcess, TypeOK
<1>7. TypeOK'
  BY <1>2, <1>3, <1>4, <1>5, <1>6 DEF OneCpuPerProcess, TypeOK
<1>8. OneCpuPerProcess'
  BY <1>3, <1>7 DEF OneCpuPerProcess
<1>9. ForkInv'
  <2>1. \A r \in Slot : pc'[r] = "forking" => pc[r] = "forking"
    BY <1>2
  <2>2. \A r \in Slot : pc'[r] = "forking" =>
          /\ child'[r] \in Slot /\ state'[child'[r]] = "EMBRYO"
          /\ \A u \in Slot : pc'[u] = "forking" /\ child'[u] = child'[r] => u = r
    <3> SUFFICES ASSUME NEW r \in Slot, pc'[r] = "forking"
                 PROVE  /\ child[r] \in Slot /\ state'[child[r]] = "EMBRYO"
                        /\ \A u \in Slot : pc'[u] = "forking" /\ child[u] = child[r] => u = r
      OBVIOUS
    <3>1. /\ child[r] \in Slot /\ state[child[r]] = "EMBRYO"
          /\ \A u \in Slot : pc[u] = "forking" /\ child[u] = child[r] => u = r
      BY <2>1 DEF ForkInv
    <3>2. child[r] # q
      BY <3>1
    <3> QED BY <1>3, <2>1, <3>1, <3>2
  <2>3. \A r \in Slot : state'[r] \in {"UNUSED", "EMBRYO"} =>
          parent'[r] = None /\ pc'[r] = "user"
    BY <1>1, <1>2, <1>3, <1>4 DEF ForkInv
  <2>4. \A r \in Slot : parent'[r] # r
    BY <1>4 DEF ForkInv
  <2> QED BY <2>2, <2>3, <2>4 DEF ForkInv
<1>10. InitInv'
  BY <1>1, <1>2, <1>3, <1>4 DEF InitInv
<1>11. WaitInv'
  BY <1>2, <1>3 DEF WaitInv
<1>12. ChildrenAreWaitedFor'
  <2>1. \A r \in Slot : r \in Live' => r \in Live /\ r # q
    BY <1>3 DEF Live
  <2>2. \A r \in Slot \ {q} : r \in Live => r \in Live'
    BY <1>3 DEF Live
  <2>3. ASSUME NEW r \in Live' \ {initproc}
        PROVE  parent'[r] \in Live' /\ state'[parent'[r]] # "ZOMBIE"
    <3>1. r \in Slot /\ r \in Live /\ r # q
      BY <2>1 DEF Live
    <3>2. parent'[r] = parent[r] /\ parent[r] \in Live /\ state[parent[r]] # "ZOMBIE"
      BY <1>4, <3>1 DEF ChildrenAreWaitedFor
    <3>3. parent[r] \in Slot \ {q}
      BY <3>2 DEF Live
    <3> QED BY <1>3, <2>2, <3>2, <3>3
  <2>4. ASSUME NEW r \in Slot, state'[r] = "SLEEPING", pc'[r] = "waiting"
        PROVE  /\ ~killed'[r]
               /\ \E u \in Slot : parent'[u] = r
               /\ \A u \in Slot : parent'[u] = r => state'[u] # "ZOMBIE"
    <3>1. r # q /\ r # p /\ state[r] = "SLEEPING" /\ pc[r] = "waiting"
      BY <1>2, <1>3, <2>4
    <3>2. /\ ~killed[r]
          /\ \E u \in Slot : parent[u] = r
          /\ \A u \in Slot : parent[u] = r => state[u] # "ZOMBIE"
      BY <3>1 DEF ChildrenAreWaitedFor
    <3> QED BY <1>3, <1>4, <1>6, <3>1, <3>2
  <2> QED BY <2>3, <2>4 DEF ChildrenAreWaitedFor
<1> QED BY <1>8, <1>9, <1>10, <1>11, <1>12

\* wait reaps a zombie, gives up or sleeps.
LEMMA WaitKeeps ==
  ASSUME ProcInv, NEW c \in Cpu, wait(c)
  PROVE  ProcInv'
<1> USE InitIsSlot, ProcAssumption DEF ProcInv
<1> DEFINE zombies(p) == {q \in {r \in Slot : parent[r] = p} : state[q] = "ZOMBIE"}
<1>1. PICK p \in Slot :
        /\ ~panicked /\ cur[c] = p /\ pc[p] \in {"kernel", "waiting"}
        /\ UNCHANGED <<child, nextpid, panicked, victims>>
        /\ \/ \E q \in zombies(p) :
                /\ state' = [state EXCEPT ![q] = "UNUSED"]
                /\ pid' = [pid EXCEPT ![q] = 0]
                /\ parent' = [parent EXCEPT ![q] = None]
                /\ killed' = [killed EXCEPT ![q] = FALSE]
                /\ pc' = [pc EXCEPT ![p] = "return", ![q] = "user"]
                /\ shell' \in {0, shell}
                /\ UNCHANGED <<chan, cur, pos>>
           \/ /\ pc' = [pc EXCEPT ![p] = "return"] /\ shell' \in {0, shell}
              /\ UNCHANGED <<state, pid, parent, killed, chan, cur, pos>>
           \/ /\ zombies(p) = {} /\ {q \in Slot : parent[q] = p} # {} /\ ~killed[p]
              /\ pc' = [pc EXCEPT ![p] = "waiting"]
              /\ chan' = [chan EXCEPT ![p] = p]
              /\ state' = [state EXCEPT ![p] = "SLEEPING"]
              /\ Sched(c)
              /\ UNCHANGED <<pid, parent, killed, shell>>
  BY DEF wait, Runs, StaysOn, table
<1>2. /\ state[p] = "RUNNING" /\ cur[c] = p /\ pc[p] \in {"kernel", "waiting"}
      /\ UNCHANGED <<child, nextpid, panicked, victims>>
  BY <1>1 DEF OneCpuPerProcess
<1>3. CASE \E q \in zombies(p) :
             /\ state' = [state EXCEPT ![q] = "UNUSED"]
             /\ pid' = [pid EXCEPT ![q] = 0]
             /\ parent' = [parent EXCEPT ![q] = None]
             /\ killed' = [killed EXCEPT ![q] = FALSE]
             /\ pc' = [pc EXCEPT ![p] = "return", ![q] = "user"]
             /\ shell' \in {0, shell}
             /\ UNCHANGED <<chan, cur, pos>>
  <2>1. PICK q \in Slot :
          /\ parent[q] = p /\ state[q] = "ZOMBIE"
          /\ state' = [state EXCEPT ![q] = "UNUSED"]
          /\ pid' = [pid EXCEPT ![q] = 0]
          /\ parent' = [parent EXCEPT ![q] = None]
          /\ killed' = [killed EXCEPT ![q] = FALSE]
          /\ pc' = [pc EXCEPT ![p] = "return", ![q] = "user"]
          /\ shell' \in {0, shell}
          /\ UNCHANGED <<chan, cur, pos>>
    BY <1>3
  <2> QED BY <1>1, <1>2, <2>1, ReapKeeps
<1>4. CASE /\ pc' = [pc EXCEPT ![p] = "return"] /\ shell' \in {0, shell}
           /\ UNCHANGED <<state, pid, parent, killed, chan, cur, pos>>
  <2>1. OneCpuPerProcess'
    BY <1>2, <1>4 DEF OneCpuPerProcess, TypeOK
  <2>2. ForkInv' /\ InitInv' /\ WaitInv'
    BY <1>2, <1>4 DEF ForkInv, InitInv, WaitInv, OneCpuPerProcess, TypeOK
  <2>3. ChildrenAreWaitedFor'
    BY <1>2, <1>4 DEF ChildrenAreWaitedFor, OneCpuPerProcess, TypeOK, Live
  <2> QED BY <2>1, <2>2, <2>3
<1>5. CASE /\ zombies(p) = {} /\ {q \in Slot : parent[q] = p} # {} /\ ~killed[p]
           /\ pc' = [pc EXCEPT ![p] = "waiting"]
           /\ chan' = [chan EXCEPT ![p] = p]
           /\ state' = [state EXCEPT ![p] = "SLEEPING"]
           /\ Sched(c)
           /\ UNCHANGED <<pid, parent, killed, shell>>
  <2>1. TypeOK'
    <3>1. pos' \in [Cpu -> 1..NPROC+1] /\ cur' \in [Cpu -> Slot \cup {None}]
      BY <1>2, <1>5, SchedLeaves
    <3>2. state' \in [Slot -> State] /\ chan' \in [Slot -> Slot \cup {None} \cup Chan]
      BY <1>5 DEF OneCpuPerProcess, TypeOK, State
    <3> QED BY <1>2, <1>5, <3>1, <3>2 DEF OneCpuPerProcess, TypeOK
  <2>2. OneCpuPerProcess'
    <3>1. /\ state' \in [Slot -> State] /\ state'[p] # "RUNNING"
          /\ \A q \in Slot \ {p} : state'[q] = "RUNNING" <=> state[q] = "RUNNING"
      BY <1>5, <2>1 DEF OneCpuPerProcess, TypeOK
    <3> QED BY <1>2, <1>5, <2>1, <3>1, LeavingKeeps
  <2>3. ForkInv' /\ InitInv' /\ WaitInv'
    <3>1. /\ \A q \in Slot \ {p} : state'[q] = state[q] /\ pc'[q] = pc[q] /\ chan'[q] = chan[q]
          /\ state'[p] = "SLEEPING" /\ pc'[p] = "waiting" /\ chan'[p] = p
      BY <1>5 DEF OneCpuPerProcess, TypeOK
    <3>2. ForkInv'
      BY <1>2, <1>5, <3>1 DEF ForkInv
    <3>3. InitInv'
      BY <1>2, <1>5, <3>1 DEF InitInv
    <3>4. WaitInv'
      BY <3>1 DEF WaitInv
    <3> QED BY <3>2, <3>3, <3>4
  <2>4. (\E q \in Slot : parent[q] = p) /\ \A q \in Slot : parent[q] = p => state[q] # "ZOMBIE"
    BY <1>5
  <2>5. ChildrenAreWaitedFor'
    BY <1>2, <1>5, <2>4 DEF ChildrenAreWaitedFor, OneCpuPerProcess, TypeOK, Live
  <2> QED BY <2>2, <2>3, <2>5
<1> QED BY <1>1, <1>3, <1>4, <1>5

LEMMA ProcInvInductive == ProcInv /\ [Next]_vars => ProcInv'
<1> SUFFICES ASSUME ProcInv, [Next]_vars PROVE ProcInv'
  OBVIOUS
<1>1. CASE UNCHANGED vars
  <2>1. UNCHANGED <<state, pid, parent, killed, chan, pc, child, nextpid, cur, pos,
                    panicked, shell, victims>>
    BY <1>1 DEF vars, table
  <2>2. OneCpuPerProcess'
    BY <2>1 DEF ProcInv, OneCpuPerProcess, TypeOK
  <2>3. ForkInv'
    BY <2>1 DEF ProcInv, ForkInv
  <2>4. InitInv' /\ WaitInv'
    BY <2>1 DEF ProcInv, InitInv, WaitInv
  <2>5. ChildrenAreWaitedFor'
    BY <2>1 DEF ProcInv, ChildrenAreWaitedFor, Live
  <2> QED BY <2>2, <2>3, <2>4, <2>5 DEF ProcInv
<1>2. ASSUME NEW c \in Cpu, scheduler(c) \/ yield(c)
      PROVE  ProcInv'
  BY <1>2, SchedulerKeeps, YieldKeeps
<1>3. ASSUME NEW c \in Cpu, CallStep(c)
      PROVE  ProcInv'
  <2>1. CASE \/ syscall(c) \/ sysReturns(c) \/ trapExits(c) \/ exitBegins(c) \/ forkFails(c)
    BY <2>1, CallKeeps
  <2>2. CASE trap(c) \/ forkAlloc(c) \/ forkReturns(c)
    BY <2>2, TrapKeeps, ForkAllocKeeps, ForkReturnsKeeps
  <2>3. CASE exitEnds(c) \/ wait(c)
    BY <2>3, ExitEndsKeeps, WaitKeeps
  <2>4. CASE \E n \in KillPids : kill(c, n)
    BY <2>4, KillKeeps
  <2> QED BY <1>3, <2>1, <2>2, <2>3, <2>4 DEF CallStep
<1>4. ASSUME NEW c \in Cpu, ProcessStep(c)
      PROVE  ProcInv'
  BY <1>3, <1>4, SleepKeeps, SleepReturnsKeeps DEF ProcessStep
<1>5. ASSUME NEW ch \in Chan, wakeup(ch)
      PROVE  ProcInv'
  BY <1>5, WakeupKeeps
<1>6. CASE panicLoop
  BY <1>1, <1>6 DEF panicLoop
<1> QED BY <1>1, <1>2, <1>4, <1>5, <1>6 DEF Next

\* For any number of processors and slots, a process is RUNNING exactly when one
\* processor runs it: scheduler, yield, sleep, exit and wait never put two
\* processors on one kernel stack.
THEOREM OneCpuCorrect == Spec => []OneCpuPerProcess
<1>1. ProcInv => OneCpuPerProcess
  BY DEF ProcInv
<1> QED BY <1>1, InitProcInv, ProcInvInductive, PTL DEF Spec

\* For any number of slots, every process but init has a parent that can still
\* wait for it, and a parent asleep in wait has a child and no zombie: neither
\* exit's adoption nor its wakeups leave a zombie that nobody is told about.
THEOREM ChildrenCorrect == Spec => []ChildrenAreWaitedFor
<1>1. ProcInv => ChildrenAreWaitedFor
  BY DEF ProcInv
<1> QED BY <1>1, InitProcInv, ProcInvInductive, PTL DEF Spec
-----------------------------------------------------------------------------
\* A slot that is free carries no mark and no pid, so that the process that gets
\* it next does not inherit either.
KillInv ==
  /\ KilledWasTargeted
  /\ \A p \in Slot : state[p] = "UNUSED" => ~killed[p] /\ pid[p] = 0

\* A step that frees no slot, marks nobody and takes nobody out of exit.
LEMMA QuietKill ==
  ASSUME KillInv, UNCHANGED <<killed, pid, victims>>,
         \A p \in Slot : state'[p] = "UNUSED" <=> state[p] = "UNUSED",
         \A p \in Slot : pc[p] = "exiting" => pc'[p] = "exiting"
  PROVE  KillInv'
  BY DEF KillInv, KilledWasTargeted

LEMMA KillInvStep ==
  ASSUME 0 \notin KillPids, ProcInv, KillInv, [Next]_vars
  PROVE  KillInv'
<1> USE InitIsSlot
<1>1. /\ state \in [Slot -> State] /\ killed \in [Slot -> BOOLEAN]
      /\ pid \in [Slot -> 0..MaxPid] /\ child \in [Slot -> Slot \cup {None}]
      /\ pc \in [Slot -> {"user", "kernel", "return", "forking", "waiting", "exiting"}]
      /\ nextpid \in Nat \ {0}
  BY ProcAssumption DEF ProcInv, OneCpuPerProcess, TypeOK
<1>2. CASE UNCHANGED vars
  BY <1>2, QuietKill DEF vars, table
<1>3. ASSUME NEW c \in Cpu,
             scheduler(c) \/ yield(c) \/ sleepReturns(c) \/ \E ch \in Chan : sleep(c, ch)
      PROVE  KillInv'
  <2>1. UNCHANGED <<killed, pid, victims, pc>>
    BY <1>3 DEF scheduler, yield, sleepReturns, sleep
  <2>2. \A p \in Slot : state'[p] = "UNUSED" <=> state[p] = "UNUSED"
    <3>1. CASE scheduler(c)
      BY <1>1, <3>1 DEF scheduler
    <3>2. CASE yield(c) \/ sleepReturns(c) \/ \E ch \in Chan : sleep(c, ch)
      <4>1. \A p \in Slot : cur[c] = p => state[p] = "RUNNING"
        BY DEF ProcInv, OneCpuPerProcess
      <4> QED BY <1>1, <3>2, <4>1 DEF yield, sleepReturns, sleep, Runs
    <3> QED BY <1>3, <3>1, <3>2
  <2> QED BY <2>1, <2>2, QuietKill
<1>4. ASSUME NEW ch \in Chan, wakeup(ch)
      PROVE  KillInv'
  <2>1. UNCHANGED <<killed, pid, victims, pc>>
    BY <1>4 DEF wakeup
  <2>2. \A p \in Slot : state'[p] = "UNUSED" <=> state[p] = "UNUSED"
    BY <1>1, <1>4 DEF wakeup, Wakeup1
  <2> QED BY <2>1, <2>2, QuietKill
<1>5. ASSUME NEW c \in Cpu,
             \/ syscall(c) \/ sysReturns(c) \/ trapExits(c) \/ exitBegins(c)
             \/ forkFails(c)
      PROVE  KillInv'
  <2>1. UNCHANGED <<killed, pid, victims, state>>
    BY <1>5 DEF syscall, sysReturns, trapExits, exitBegins, forkFails, table
  <2>2. \A p \in Slot : pc[p] = "exiting" => pc'[p] = "exiting"
    BY <1>1, <1>5 DEF syscall, sysReturns, trapExits, exitBegins, forkFails, Exits
  <2> QED BY <2>1, <2>2, QuietKill
<1>6. ASSUME NEW c \in Cpu, trap(c)
      PROVE  KillInv'
  <2>1. PICK p \in Slot : /\ cur[c] = p
                          /\ killed' = [killed EXCEPT ![p] = TRUE]
                          /\ pc' = [pc EXCEPT ![p] = "exiting"]
                          /\ UNCHANGED <<state, pid, victims>>
    BY <1>6 DEF trap, Runs, Exits
  <2>2. state[p] = "RUNNING"
    BY <2>1 DEF ProcInv, OneCpuPerProcess
  <2> QED BY <1>1, <2>1, <2>2 DEF KillInv, KilledWasTargeted
<1>7. ASSUME NEW c \in Cpu, forkAlloc(c)
      PROVE  KillInv'
  <2>1. PICK p \in Slot, q \in Slot :
          /\ pc[p] = "kernel" /\ state[q] = "UNUSED"
          /\ state' = [state EXCEPT ![q] = "EMBRYO"]
          /\ pid' = [pid EXCEPT ![q] = nextpid]
          /\ pc' = [pc EXCEPT ![p] = "forking"]
          /\ UNCHANGED <<killed, victims>>
    BY <1>7 DEF forkAlloc
  <2> QED BY <1>1, <2>1 DEF KillInv, KilledWasTargeted
<1>8. ASSUME NEW c \in Cpu, forkReturns(c)
      PROVE  KillInv'
  <2>1. PICK p \in Slot :
          /\ pc[p] = "forking"
          /\ state' = [state EXCEPT ![child[p]] = "RUNNABLE"]
          /\ pc' = [pc EXCEPT ![p] = "return", ![child[p]] = "user"]
          /\ UNCHANGED <<killed, pid, victims>>
    BY <1>8 DEF forkReturns
  <2>2. child[p] \in Slot /\ state[child[p]] = "EMBRYO" /\ pc[child[p]] = "user"
    BY <2>1 DEF ProcInv, ForkInv
  <2> QED BY <1>1, <2>1, <2>2, QuietKill
<1>9. ASSUME NEW c \in Cpu, exitEnds(c)
      PROVE  KillInv'
  <2>1. PICK p \in Slot :
          /\ cur[c] = p
          /\ \E S : state' = [Wakeup1(state, S) EXCEPT ![p] = "ZOMBIE"]
          /\ UNCHANGED <<killed, pid, victims, pc>>
    BY <1>9 DEF exitEnds, Runs
  <2>2. PICK S : state' = [Wakeup1(state, S) EXCEPT ![p] = "ZOMBIE"]
    BY <2>1
  <2>3. state[p] = "RUNNING"
    BY <2>1 DEF ProcInv, OneCpuPerProcess
  <2>4. \A q \in Slot : state'[q] = "UNUSED" <=> state[q] = "UNUSED"
    BY <1>1, <2>2, <2>3 DEF Wakeup1
  <2> QED BY <2>1, <2>4, QuietKill
<1>10. ASSUME NEW c \in Cpu, wait(c)
       PROVE  KillInv'
  <2>1. PICK p \in Slot :
          /\ cur[c] = p /\ pc[p] \in {"kernel", "waiting"} /\ UNCHANGED victims
          /\ \/ \E q \in Slot :
                  /\ state[q] = "ZOMBIE"
                  /\ state' = [state EXCEPT ![q] = "UNUSED"]
                  /\ pid' = [pid EXCEPT ![q] = 0]
                  /\ killed' = [killed EXCEPT ![q] = FALSE]
                  /\ pc' = [pc EXCEPT ![p] = "return", ![q] = "user"]
             \/ /\ pc' = [pc EXCEPT ![p] = "return"] /\ UNCHANGED <<state, pid, killed>>
             \/ /\ pc' = [pc EXCEPT ![p] = "waiting"]
                /\ state' = [state EXCEPT ![p] = "SLEEPING"]
                /\ UNCHANGED <<pid, killed>>
    BY <1>10 DEF wait, Runs, table
  <2>2. state[p] = "RUNNING"
    BY <2>1 DEF ProcInv, OneCpuPerProcess
  <2>3. ASSUME NEW q \in Slot, state[q] = "ZOMBIE",
               state' = [state EXCEPT ![q] = "UNUSED"],
               pid' = [pid EXCEPT ![q] = 0],
               killed' = [killed EXCEPT ![q] = FALSE],
               pc' = [pc EXCEPT ![p] = "return", ![q] = "user"]
        PROVE  KillInv'
    <3>1. \A r \in Slot \ {q} : /\ state'[r] = state[r] /\ pid'[r] = pid[r]
                                /\ killed'[r] = killed[r]
                                /\ pc[r] = "exiting" => pc'[r] = "exiting"
      BY <1>1, <2>1, <2>3
    <3>2. state'[q] = "UNUSED" /\ ~killed'[q] /\ pid'[q] = 0
      BY <1>1, <2>3
    <3>3. UNCHANGED victims
      BY <2>1
    <3> QED BY <3>1, <3>2, <3>3 DEF KillInv, KilledWasTargeted
  <2>4. CASE /\ pc' = [pc EXCEPT ![p] = "return"] /\ UNCHANGED <<state, pid, killed>>
    BY <1>1, <2>1, <2>4, QuietKill
  <2>5. CASE /\ pc' = [pc EXCEPT ![p] = "waiting"]
             /\ state' = [state EXCEPT ![p] = "SLEEPING"]
             /\ UNCHANGED <<pid, killed>>
    BY <1>1, <2>1, <2>2, <2>5, QuietKill
  <2> QED BY <2>1, <2>3, <2>4, <2>5
<1>11. ASSUME NEW c \in Cpu, NEW n \in KillPids, kill(c, n)
       PROVE  KillInv'
  <2>1. PICK p \in Slot, q \in Slot :
          /\ pc[p] = "kernel" /\ pid[q] = n
          /\ killed' = [killed EXCEPT ![q] = TRUE]
          /\ state' = [state EXCEPT ![q] = IF @ = "SLEEPING" THEN "RUNNABLE" ELSE @]
          /\ victims' = victims \cup {n}
          /\ pc' = [pc EXCEPT ![p] = "return"]
          /\ UNCHANGED pid
    BY <1>11 DEF kill
  <2>2. state[q] # "UNUSED"
    BY <2>1 DEF KillInv
  <2> QED BY <1>1, <2>1, <2>2 DEF KillInv, KilledWasTargeted
<1>12. ASSUME NEW c \in Cpu, ProcessStep(c)
       PROVE  KillInv'
  BY <1>3, <1>5, <1>6, <1>7, <1>8, <1>9, <1>10, <1>11, <1>12 DEF ProcessStep, CallStep
<1> QED BY <1>2, <1>3, <1>4, <1>12 DEF Next, panicLoop

\* If no program asks for pid 0, which is the pid of every free slot, kill marks
\* the process it was asked for and no other, however slots and marks are reused.
THEOREM KilledCorrect ==
  ASSUME 0 \notin KillPids
  PROVE  Spec => []KilledWasTargeted
<1>1. Init => KillInv
  BY InitIsSlot DEF Init, KillInv, KilledWasTargeted
<1>2. ProcInv /\ KillInv /\ [Next]_vars => KillInv'
  BY KillInvStep
<1>3. KillInv => KilledWasTargeted
  BY DEF KillInv
<1> QED BY <1>1, <1>2, <1>3, InitProcInv, ProcInvInductive, PTL DEF Spec
=============================================================================
