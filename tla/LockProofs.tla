----------------------------- MODULE LockProofs -----------------------------
(***************************************************************************)
(* The two kinds of locks.  The sleep lock excludes and misses no wakeup,  *)
(* for any set of threads; the spinlocks exclude, and their processors     *)
(* turn interrupts off and on again in pairs, for any number of both.      *)
(***************************************************************************)
EXTENDS SleepLock, Naturals, Sequences, FiniteSetTheorems, TLAPS

\* Time enough for every leaf, whatever else the machine does.
USE SMTT(15), ZenonT(20)

\* Initially nobody holds or wants anything.
LEMMA InitIInv == Init => IInv
  BY NoneAssumption
  DEF Init, IInv, TypeOK, SpinInv, SleepMutex, OwnerInv, SleepInv, NoMissedWakeup,
      HoldsLk, HoldsPtable, Holds, Label

\* Each step of acquiresleep keeps the invariant: the test of lk->locked is made
\* with lk->lk held, so that no release comes between it and the assignment.
LEMMA AcquireKeeps ==
  ASSUME IInv, NEW t \in Thread, acquiresleep(t)
  PROVE  IInv'
<1> USE NoneAssumption
    DEF IInv, Goto, TypeOK, SpinInv, SleepMutex, OwnerInv, SleepInv,
        NoMissedWakeup, HoldsLk, HoldsPtable, Holds, Label
<1>1. CASE acquire(t)
  BY <1>1 DEF acquire
<1>2. CASE testLocked(t)
  BY <1>2 DEF testLocked
<1>3. CASE testFree(t)
  BY <1>3 DEF testFree
<1>4. CASE acquired(t)
  BY <1>4 DEF acquired
<1> QED BY <1>1, <1>2, <1>3, <1>4 DEF acquiresleep

\* Each step of sleep keeps it: ptable.lock is taken before lk->lk is released,
\* so that a wakeup waits until the sleeper is marked SLEEPING.
LEMMA SleepKeeps ==
  ASSUME IInv, NEW t \in Thread, sleep(t)
  PROVE  IInv'
<1> USE NoneAssumption
    DEF IInv, Goto, TypeOK, SpinInv, SleepMutex, OwnerInv, SleepInv,
        NoMissedWakeup, HoldsLk, HoldsPtable, Holds, Label
<1>1. CASE sleepAcquires(t)
  BY <1>1 DEF sleepAcquires
<1>2. CASE sleepReleases(t)
  BY <1>2 DEF sleepReleases
<1>3. CASE sleepSched(t)
  BY <1>3 DEF sleepSched
<1>4. CASE sleepResumes(t)
  BY <1>4 DEF sleepResumes
<1>5. CASE sleepReturns(t)
  BY <1>5 DEF sleepReturns
<1> QED BY <1>1, <1>2, <1>3, <1>4, <1>5 DEF sleep

\* Each step of releasesleep keeps it: the lock is cleared with lk->lk held, and
\* lk->lk is only let go after wakeup.
LEMMA ReleaseKeeps ==
  ASSUME IInv, NEW t \in Thread, releasesleep(t)
  PROVE  IInv'
<1> USE NoneAssumption
    DEF IInv, Goto, TypeOK, SpinInv, SleepMutex, OwnerInv, SleepInv,
        NoMissedWakeup, HoldsLk, HoldsPtable, Holds, Label
<1>1. CASE releaseAcquires(t)
  BY <1>1 DEF releaseAcquires
<1>2. CASE releaseClears(t)
  BY <1>2 DEF releaseClears
<1>3. CASE wakeupAcquires(t)
  BY <1>3 DEF wakeupAcquires
<1>4. CASE wakeup1(t)
  BY <1>4 DEF wakeup1
<1>5. CASE releaseDone(t)
  BY <1>5 DEF releaseDone
<1> QED BY <1>1, <1>2, <1>3, <1>4, <1>5 DEF releasesleep

\* Every step of the system keeps the invariant; kill only takes sleepers away.
LEMMA NextIInv == IInv /\ [Next]_vars => IInv'
<1> SUFFICES ASSUME IInv, [Next]_vars PROVE IInv'
  OBVIOUS
<1>1. CASE UNCHANGED vars
  BY <1>1 DEF vars, IInv, TypeOK, SpinInv, SleepMutex, OwnerInv, SleepInv,
              NoMissedWakeup
<1>2. CASE \E t \in Thread : kill(t)
  BY <1>2 DEF kill, IInv, TypeOK, SpinInv, SleepMutex, OwnerInv, SleepInv,
              NoMissedWakeup
<1> QED BY <1>1, <1>2, AcquireKeeps, SleepKeeps, ReleaseKeeps DEF Next

\* The invariant holds in every reachable state.
THEOREM Inductive == Spec => []IInv
  BY InitIInv, NextIInv, PTL DEF Spec

\* acquiresleep gives the lock to one thread at a time, the one in lk->pid.
THEOREM MutexCorrect == Spec => []SleepMutex
<1>1. IInv => SleepMutex
  BY DEF IInv
<1> QED BY <1>1, Inductive, PTL

\* Whenever a thread sleeps on the lock, a wakeup is still to come.
THEOREM WakeupCorrect == Spec => []NoMissedWakeup
<1>1. IInv => NoMissedWakeup
  BY DEF IInv
<1> QED BY <1>1, Inductive, PTL
-----------------------------------------------------------------------------
CONSTANTS Cpu, NLocks, NoCpu
VARIABLES spin, core, frame
Spin == INSTANCE Spinlock

Place == {"go", "xchg", "own", "unlock", "popcli"}
Activation == [pc : Place, lk : 0..NLocks, held : SUBSET Spin!Lock]
Core == [flag : BOOLEAN, ncli : Nat, intena : BOOLEAN]

\* What an activation knows of its processor: cpu->ncli counts its locks, with the
\* one that it takes or gives up, and interrupts are on exactly in a thread
\* without any.
Fine(a, k, handler) ==
  /\ a \in Activation /\ k \in Core
  /\ a.pc # "go" => a.lk \in Spin!Lock \ a.held
  /\ a.pc = "go" /\ a.held = {} => a.lk = 0
  /\ k.ncli = Cardinality(a.held) + IF a.pc = "go" THEN 0 ELSE 1
  /\ k.flag <=> ~handler /\ k.ncli = 0
  /\ k.ncli > 0 => (k.intena <=> ~handler)

\* An interrupted thread has no lock.
CpuInv ==
  /\ core \in [Cpu -> Core] /\ frame \in [Cpu -> Seq(Activation)]
  /\ \A c \in Cpu :
       /\ Len(frame[c]) \in {1, 2} /\ (Spin!Handler(c) => frame[c][1] = Spin!NewFrame)
       /\ Fine(Spin!Now(c), core[c], Spin!Handler(c))

\* The locks agree with who has them.
Has(c, l) == \/ l \in Spin!Now(c).held
             \/ Spin!Now(c).lk = l /\ Spin!Now(c).pc \in {"own", "unlock"}
Record == [locked : BOOLEAN, cpu : Cpu \cup {NoCpu}]
LockInv ==
  /\ spin \in [Spin!Lock -> Record]
  /\ \A l \in Spin!Lock : \A c \in Cpu :
       /\ spin[l].cpu = c <=> l \in Spin!Now(c).held
       /\ Has(c, l) => spin[l].locked /\ \A d \in Cpu : Has(d, l) => c = d

MatchedInv == CpuInv /\ LockInv

\* What Cardinality is of a set of locks, and of one with a lock more or less.
LEMMA Counted ==
  ASSUME NLocks \in Nat, NEW S \in SUBSET Spin!Lock
  PROVE  /\ IsFiniteSet(S) /\ Cardinality(S) \in Nat /\ (Cardinality(S) = 0 <=> S = {})
         /\ \A l \in Spin!Lock \ S : Cardinality(S \cup {l}) = Cardinality(S) + 1
         /\ \A l \in S : Cardinality(S \ {l}) = Cardinality(S) - 1
<1>1. IsFiniteSet(Spin!Lock)
  BY FS_Interval DEF Spin!Lock
<1>2. IsFiniteSet(S) /\ Cardinality(S) \in Nat
  BY <1>1, FS_Subset, FS_CardinalityType
<1> QED BY <1>2, FS_EmptySet, FS_AddElement, FS_RemoveElement

\* What pushcli and popcli do to a processor.
LEMMA Pushed ==
  ASSUME NEW k \in Core
  PROVE  LET j == Spin!pushcli(k) IN
         /\ j \in Core /\ ~j.flag /\ j.ncli = k.ncli + 1
         /\ j.intena = IF k.ncli = 0 THEN k.flag ELSE k.intena
<1>1. PICK i \in BOOLEAN : i = IF k.ncli = 0 THEN k.flag ELSE k.intena
  BY DEF Core
<1>2. PICK n \in Nat : n = k.ncli + 1
  BY DEF Core
<1>3. Spin!pushcli(k) = [k EXCEPT !.flag = FALSE, !.ncli = n, !.intena = i]
  BY <1>1, <1>2 DEF Spin!pushcli
<1>4. [k EXCEPT !.flag = FALSE, !.ncli = n, !.intena = i] \in Core
  BY DEF Core
<1> QED BY <1>1, <1>2, <1>3, <1>4 DEF Core

LEMMA Popped ==
  ASSUME NEW k \in Core, k.ncli > 0
  PROVE  LET j == Spin!popcli(k) IN
         /\ j \in Core /\ j.intena = k.intena /\ j.ncli = k.ncli - 1
         /\ j.flag = IF k.ncli = 1 /\ k.intena THEN TRUE ELSE k.flag
<1>1. PICK f \in BOOLEAN : f = IF k.ncli = 1 /\ k.intena THEN TRUE ELSE k.flag
  BY DEF Core
<1>2. PICK n \in Nat : n = k.ncli - 1
  BY DEF Core
<1>3. Spin!popcli(k) = [k EXCEPT !.ncli = n, !.flag = f]
  BY <1>1, <1>2 DEF Spin!popcli
<1>4. [k EXCEPT !.ncli = n, !.flag = f] \in Core
  BY DEF Core
<1> QED BY <1>1, <1>2, <1>3, <1>4 DEF Core

\* Goto changes the running activation of one processor.
LEMMA Moves ==
  ASSUME CpuInv, NEW c \in Cpu, NEW from, NEW new \in Activation, Spin!Goto(c, from, new)
  PROVE  /\ frame' \in [Cpu -> Seq(Activation)] /\ Spin!Now(c).pc = from
         /\ Len(frame'[c]) = Len(frame[c]) /\ Spin!Now(c)' = new
         /\ Spin!Handler(c) => frame'[c][1] = frame[c][1]
         /\ \A d \in Cpu \ {c} : frame'[d] = frame[d]
<1>1. PICK n \in {1, 2} : n = Len(frame[c])
  BY DEF CpuInv
<1>2. PICK s : s = [frame[c] EXCEPT ![n] = new]
  OBVIOUS
<1>3. frame' = [frame EXCEPT ![c] = s]
  BY <1>1, <1>2 DEF Spin!Goto
<1>4. s \in Seq(Activation) /\ Len(s) = n /\ s[n] = new /\ (n = 2 => s[1] = frame[c][1])
  BY <1>1, <1>2 DEF CpuInv
<1> QED BY <1>1, <1>3, <1>4 DEF CpuInv, Spin!Goto, Spin!Now, Spin!Handler

\* Every step of a processor keeps the counts if what runs on it afterwards agrees
\* with its flag and its counter.
LEMMA CpuKeeps ==
  ASSUME CpuInv, NEW c \in Cpu, NEW from, NEW new \in Activation, NEW k \in Core,
         Spin!Goto(c, from, new), core' = [core EXCEPT ![c] = k],
         Fine(new, k, Spin!Handler(c))
  PROVE  CpuInv'
<1>1. /\ frame' \in [Cpu -> Seq(Activation)] /\ Len(frame'[c]) = Len(frame[c])
      /\ Spin!Now(c)' = new /\ (Spin!Handler(c) => frame'[c][1] = frame[c][1])
      /\ \A d \in Cpu \ {c} : frame'[d] = frame[d]
  BY Moves
<1>2. core' \in [Cpu -> Core] /\ core'[c] = k /\ \A d \in Cpu \ {c} : core'[d] = core[d]
  BY DEF CpuInv
<1>3. ASSUME NEW d \in Cpu
      PROVE  /\ Len(frame'[d]) \in {1, 2}
             /\ Spin!Handler(d)' => frame'[d][1] = Spin!NewFrame
             /\ Fine(Spin!Now(d)', core'[d], Spin!Handler(d)')
  <2>1. CASE d = c
    <3>1. Spin!Handler(c)' <=> Spin!Handler(c)
      BY <1>1 DEF Spin!Handler
    <3>2. Fine(Spin!Now(c)', core'[c], Spin!Handler(c)')
      BY <1>1, <1>2, <3>1 DEF Fine
    <3> QED BY <1>1, <2>1, <3>1, <3>2 DEF CpuInv
  <2>2. CASE d # c
    <3>1. (Spin!Handler(d)' <=> Spin!Handler(d)) /\ Spin!Now(d)' = Spin!Now(d)
      BY <1>1, <2>2 DEF Spin!Handler, Spin!Now
    <3> QED BY <1>1, <1>2, <2>2, <3>1 DEF CpuInv, Fine
  <2> QED BY <2>1, <2>2
<1>4. Spin!NewFrame' = Spin!NewFrame
  BY DEF Spin!NewFrame
<1> QED BY <1>1, <1>2, <1>3, <1>4 DEF CpuInv, Fine, Core, Activation, Spin!Lock

\* What runs on the processors that do not step stays the same.
LEMMA OthersStay ==
  ASSUME CpuInv, NEW c \in Cpu, NEW from, NEW new \in Activation, Spin!Goto(c, from, new)
  PROVE  Spin!Now(c)' = new /\ \A d \in Cpu \ {c} : Spin!Now(d)' = Spin!Now(d)
  BY Moves DEF Spin!Now

\* A write of lk->locked changes only that.
LEMMA LockedSet ==
  ASSUME LockInv, NEW l \in Spin!Lock, NEW x \in BOOLEAN,
         spin' = [spin EXCEPT ![l].locked = x]
  PROVE  /\ spin' \in [Spin!Lock -> Record]
         /\ \A m \in Spin!Lock : /\ spin'[m].cpu = spin[m].cpu
                                 /\ m = l => (spin'[m].locked <=> x)
                                 /\ m # l => spin'[m].locked = spin[m].locked
<1>1. PICK r \in Record : r = spin[l]
  BY DEF LockInv
<1>2. PICK q : q = [r EXCEPT !.locked = x]
  OBVIOUS
<1>3. q \in Record /\ q.locked = x /\ q.cpu = r.cpu
  BY <1>2 DEF Record
<1>4. spin' = [spin EXCEPT ![l] = q]
  BY <1>1, <1>2
<1> QED BY <1>1, <1>3, <1>4 DEF LockInv

\* The same for lk->cpu.
LEMMA CpuSet ==
  ASSUME LockInv, NEW l \in Spin!Lock, NEW x \in Cpu \cup {NoCpu},
         spin' = [spin EXCEPT ![l].cpu = x]
  PROVE  /\ spin' \in [Spin!Lock -> Record]
         /\ \A m \in Spin!Lock : /\ spin'[m].locked = spin[m].locked
                                 /\ m = l => spin'[m].cpu = x
                                 /\ m # l => spin'[m].cpu = spin[m].cpu
<1>1. PICK r \in Record : r = spin[l]
  BY DEF LockInv
<1>2. PICK q : q = [r EXCEPT !.cpu = x]
  OBVIOUS
<1>3. q \in Record /\ q.cpu = x /\ q.locked = r.locked
  BY <1>2 DEF Record
<1>4. spin' = [spin EXCEPT ![l] = q]
  BY <1>1, <1>2
<1> QED BY <1>1, <1>3, <1>4 DEF LockInv

\* acquire, up to the xchg: the lock is not one of the processor's own.
LEMMA SpinAcquireKeeps ==
  ASSUME NLocks \in Nat, MatchedInv, NEW c \in Cpu, NEW l \in Spin!Lock, Spin!acquire(c, l)
  PROVE  MatchedInv'
<1>1. PICK a : a = Spin!Now(c)
  OBVIOUS
<1>2. PICK k : k = core[c]
  OBVIOUS
<1>3. /\ Fine(a, k, Spin!Handler(c)) /\ a \in Activation /\ k \in Core
      /\ a.held \subseteq Spin!Lock /\ a.pc = "go"
  BY <1>1, <1>2 DEF MatchedInv, CpuInv, Spin!acquire, Spin!Goto, Fine, Activation
<1>4. l \notin a.held /\ ~Spin!holding(c, l)
  <2>1. l \notin a.held
    BY <1>1, <1>3 DEF Spin!acquire, Spin!Lock
  <2> QED BY <1>1, <2>1 DEF MatchedInv, LockInv, Spin!holding
<1>5. PICK b : b = [a EXCEPT !.pc = "xchg", !.lk = l]
  OBVIOUS
<1>6. Spin!Goto(c, "go", b)
  BY <1>1, <1>4, <1>5 DEF Spin!acquire
<1>7. b \in Activation /\ b.pc = "xchg" /\ b.lk = l /\ b.held = a.held
  <2>1. l \in 0..NLocks /\ "xchg" \in Place
    BY DEF Spin!Lock, Place
  <2>2. b \in Activation
    BY <1>3, <1>5, <2>1 DEF Activation
  <2> QED BY <1>3, <1>5, <2>2 DEF Activation
<1>8. PICK j : j = Spin!pushcli(k)
  OBVIOUS
<1>9. /\ j \in Core /\ ~j.flag /\ j.ncli = k.ncli + 1
      /\ j.intena = IF k.ncli = 0 THEN k.flag ELSE k.intena
  BY <1>3, <1>8, Pushed
<1>10. Fine(b, j, Spin!Handler(c))
  <2>1. Cardinality(a.held) \in Nat
    BY <1>3, Counted
  <2> QED BY <1>3, <1>4, <1>7, <1>9, <2>1 DEF Fine, Core
<1>11. core' = [core EXCEPT ![c] = j]
  BY <1>2, <1>8 DEF Spin!acquire
<1>12. CpuInv'
  BY <1>6, <1>7, <1>9, <1>10, <1>11, CpuKeeps DEF MatchedInv
<1>13. LockInv'
  <2>1. Spin!Now(c)' = b /\ \A d \in Cpu \ {c} : Spin!Now(d)' = Spin!Now(d)
    BY <1>6, <1>7, OthersStay DEF MatchedInv
  <2>2. \A d \in Cpu : /\ Spin!Now(d)'.held = Spin!Now(d).held
                       /\ \A m \in Spin!Lock : Has(d, m)' => Has(d, m)
    BY <1>1, <1>7, <2>1 DEF Has
  <2>3. spin' = spin
    BY DEF Spin!acquire
  <2> QED BY <2>2, <2>3 DEF MatchedInv, LockInv, Spin!Lock
<1> QED BY <1>12, <1>13 DEF MatchedInv

\* The exchange takes a lock that nobody had.
LEMMA XchgKeeps ==
  ASSUME NLocks \in Nat, MatchedInv, NEW c \in Cpu, Spin!xchg(c)
  PROVE  MatchedInv'
<1>1. PICK a : a = Spin!Now(c)
  OBVIOUS
<1>2. PICK k : k = core[c]
  OBVIOUS
<1>3. /\ Fine(a, k, Spin!Handler(c)) /\ a \in Activation /\ k \in Core
      /\ a.pc = "xchg" /\ a.lk \in Spin!Lock \ a.held
  BY <1>1, <1>2 DEF MatchedInv, CpuInv, Spin!xchg, Spin!Goto, Fine
<1>4. PICK b : b = [a EXCEPT !.pc = "own"]
  OBVIOUS
<1>5. Spin!Goto(c, "xchg", b)
  BY <1>1, <1>4 DEF Spin!xchg
<1>6. b \in Activation /\ b.pc = "own" /\ b.lk = a.lk /\ b.held = a.held
  BY <1>3, <1>4 DEF Activation, Place
<1>7. Fine(b, k, Spin!Handler(c))
  BY <1>3, <1>6 DEF Fine
<1>8. core' = [core EXCEPT ![c] = k]
  BY <1>2 DEF MatchedInv, CpuInv, Spin!xchg
<1>9. CpuInv'
  BY <1>3, <1>5, <1>6, <1>7, <1>8, CpuKeeps DEF MatchedInv
<1>10. LockInv'
  <2>1. Spin!Now(c)' = b /\ \A d \in Cpu \ {c} : Spin!Now(d)' = Spin!Now(d)
    BY <1>5, <1>6, OthersStay DEF MatchedInv
  <2>2. \A d \in Cpu : ~Has(d, a.lk)
    BY <1>1, <1>3 DEF MatchedInv, LockInv, Spin!xchg
  <2>3. \A d \in Cpu : /\ Spin!Now(d)'.held = Spin!Now(d).held
                       /\ \A m \in Spin!Lock : Has(d, m)' => Has(d, m) \/ (d = c /\ m = a.lk)
    BY <1>1, <1>6, <2>1 DEF Has
  <2>4. /\ spin' \in [Spin!Lock -> Record]
        /\ \A m \in Spin!Lock : /\ spin'[m].cpu = spin[m].cpu
                                /\ m = a.lk => spin'[m].locked
                                /\ m # a.lk => spin'[m].locked = spin[m].locked
    <3>1. LockInv /\ spin' = [spin EXCEPT ![a.lk].locked = TRUE]
      BY <1>1 DEF MatchedInv, Spin!xchg
    <3> QED BY <1>3, <3>1, LockedSet
  <2>5. ASSUME NEW m \in Spin!Lock, NEW d \in Cpu
        PROVE  /\ spin'[m].cpu = d <=> m \in Spin!Now(d)'.held
               /\ Has(d, m)' => spin'[m].locked /\ \A e \in Cpu : Has(e, m)' => d = e
    <3>1. CASE m = a.lk
      BY <2>2, <2>3, <2>4, <3>1 DEF MatchedInv, LockInv
    <3>2. CASE m # a.lk
      BY <2>3, <2>4, <3>2 DEF MatchedInv, LockInv
    <3> QED BY <3>1, <3>2
  <2> QED BY <2>4, <2>5 DEF LockInv, Spin!Lock, Record
<1> QED BY <1>9, <1>10 DEF MatchedInv

\* lk->cpu is written by the one that has the lock.
LEMMA OwnKeeps ==
  ASSUME NLocks \in Nat, NoCpu \notin Cpu, MatchedInv, NEW c \in Cpu, Spin!own(c)
  PROVE  MatchedInv'
<1>1. PICK a : a = Spin!Now(c)
  OBVIOUS
<1>2. PICK k : k = core[c]
  OBVIOUS
<1>3. /\ Fine(a, k, Spin!Handler(c)) /\ a \in Activation /\ k \in Core
      /\ a.pc = "own" /\ a.lk \in Spin!Lock \ a.held
  BY <1>1, <1>2 DEF MatchedInv, CpuInv, Spin!own, Spin!Goto, Fine
<1>4. PICK S : S = a.held \cup {a.lk}
  OBVIOUS
<1>5. PICK b : b = [a EXCEPT !.pc = "go", !.held = S]
  OBVIOUS
<1>6. Spin!Goto(c, "own", b)
  BY <1>1, <1>4, <1>5 DEF Spin!own
<1>7. S \in SUBSET Spin!Lock
  BY <1>3, <1>4 DEF Activation
<1>8. b \in Activation /\ b.pc = "go" /\ b.lk = a.lk /\ b.held = S
  BY <1>3, <1>5, <1>7 DEF Activation, Place
<1>9. Fine(b, k, Spin!Handler(c))
  <2>1. Cardinality(a.held) \in Nat /\ Cardinality(S) = Cardinality(a.held) + 1
    BY <1>3, <1>4, Counted DEF Activation
  <2> QED BY <1>3, <1>4, <1>8, <2>1 DEF Fine
<1>10. core' = [core EXCEPT ![c] = k]
  BY <1>2 DEF MatchedInv, CpuInv, Spin!own
<1>11. CpuInv'
  BY <1>3, <1>6, <1>8, <1>9, <1>10, CpuKeeps DEF MatchedInv
<1>12. LockInv'
  <2>1. Spin!Now(c)' = b /\ \A d \in Cpu \ {c} : Spin!Now(d)' = Spin!Now(d)
    BY <1>6, <1>8, OthersStay DEF MatchedInv
  <2>2. Has(c, a.lk)
    BY <1>1, <1>3 DEF Has
  <2>3. \A d \in Cpu : \A m \in Spin!Lock :
          /\ Has(d, m)' => Has(d, m)
          /\ m \in Spin!Now(d)'.held <=> m \in Spin!Now(d).held \/ (d = c /\ m = a.lk)
    BY <1>1, <1>3, <1>4, <1>8, <2>1 DEF Has
  <2>4. \A d \in Cpu : a.lk \in Spin!Now(d)'.held => d = c
    BY <1>3, <2>2, <2>3 DEF MatchedInv, LockInv, Has
  <2>5. /\ spin' \in [Spin!Lock -> Record]
        /\ \A m \in Spin!Lock : /\ spin'[m].locked = spin[m].locked
                                /\ m = a.lk => spin'[m].cpu = c
                                /\ m # a.lk => spin'[m].cpu = spin[m].cpu
    <3>1. LockInv /\ c \in Cpu \cup {NoCpu} /\ spin' = [spin EXCEPT ![a.lk].cpu = c]
      BY <1>1 DEF MatchedInv, Spin!own
    <3> QED BY <1>3, <3>1, CpuSet
  <2>6. ASSUME NEW m \in Spin!Lock, NEW d \in Cpu
        PROVE  /\ spin'[m].cpu = d <=> m \in Spin!Now(d)'.held
               /\ Has(d, m)' => spin'[m].locked /\ \A e \in Cpu : Has(e, m)' => d = e
    BY <2>3, <2>4, <2>5 DEF MatchedInv, LockInv
  <2> QED BY <2>5, <2>6 DEF LockInv, Spin!Lock, Record
<1> QED BY <1>11, <1>12 DEF MatchedInv

\* release starts with the lock in the hands of the processor.
LEMMA SpinReleaseKeeps ==
  ASSUME NLocks \in Nat, NoCpu \notin Cpu, MatchedInv, NEW c \in Cpu, NEW l \in Spin!Lock,
         Spin!release(c, l)
  PROVE  MatchedInv'
<1>1. PICK a : a = Spin!Now(c)
  OBVIOUS
<1>2. PICK k : k = core[c]
  OBVIOUS
<1>3. /\ Fine(a, k, Spin!Handler(c)) /\ a \in Activation /\ k \in Core
      /\ a.pc = "go" /\ l \in a.held
  BY <1>1, <1>2 DEF MatchedInv, CpuInv, Spin!release, Spin!Goto, Fine
<1>4. Has(c, l) /\ Spin!holding(c, l)
  <2>1. Has(c, l)
    BY <1>1, <1>3 DEF Has
  <2> QED BY <1>1, <1>3, <2>1 DEF MatchedInv, LockInv, Spin!holding
<1>5. PICK S : S = a.held \ {l}
  OBVIOUS
<1>6. PICK b : b = [a EXCEPT !.pc = "unlock", !.lk = l, !.held = S]
  OBVIOUS
<1>7. Spin!Goto(c, "go", b)
  BY <1>1, <1>4, <1>5, <1>6 DEF Spin!release
<1>8. S \in SUBSET Spin!Lock /\ l \in 0..NLocks
  BY <1>3, <1>5 DEF Activation, Spin!Lock
<1>9. b \in Activation /\ b.pc = "unlock" /\ b.lk = l /\ b.held = S
  BY <1>3, <1>6, <1>8 DEF Activation, Place
<1>10. Fine(b, k, Spin!Handler(c))
  <2>1. /\ Cardinality(a.held) \in Nat /\ Cardinality(S) \in Nat
        /\ Cardinality(S) = Cardinality(a.held) - 1
    BY <1>3, <1>5, <1>8, Counted DEF Activation
  <2> QED BY <1>3, <1>5, <1>9, <2>1 DEF Fine
<1>11. core' = [core EXCEPT ![c] = k]
  BY <1>2 DEF MatchedInv, CpuInv, Spin!release
<1>12. CpuInv'
  BY <1>3, <1>7, <1>9, <1>10, <1>11, CpuKeeps DEF MatchedInv
<1>13. LockInv'
  <2>1. Spin!Now(c)' = b /\ \A d \in Cpu \ {c} : Spin!Now(d)' = Spin!Now(d)
    BY <1>7, <1>9, OthersStay DEF MatchedInv
  <2>2. \A d \in Cpu : \A m \in Spin!Lock :
          /\ Has(d, m)' => Has(d, m)
          /\ m \in Spin!Now(d)'.held <=> m \in Spin!Now(d).held /\ ~(d = c /\ m = l)
    BY <1>1, <1>4, <1>5, <1>9, <2>1 DEF Has
  <2>3. \A d \in Cpu : l \notin Spin!Now(d)'.held
    BY <1>4, <2>2 DEF MatchedInv, LockInv, Has
  <2>4. /\ spin' \in [Spin!Lock -> Record]
        /\ \A m \in Spin!Lock : /\ spin'[m].locked = spin[m].locked
                                /\ m = l => spin'[m].cpu = NoCpu
                                /\ m # l => spin'[m].cpu = spin[m].cpu
    <3>1. /\ LockInv /\ NoCpu \in Cpu \cup {NoCpu}
          /\ spin' = [spin EXCEPT ![l].cpu = NoCpu]
      BY DEF MatchedInv, Spin!release
    <3> QED BY <3>1, CpuSet
  <2>5. ASSUME NEW m \in Spin!Lock, NEW d \in Cpu
        PROVE  /\ spin'[m].cpu = d <=> m \in Spin!Now(d)'.held
               /\ Has(d, m)' => spin'[m].locked /\ \A e \in Cpu : Has(e, m)' => d = e
    BY <2>2, <2>3, <2>4 DEF MatchedInv, LockInv
  <2> QED BY <2>4, <2>5 DEF LockInv, Spin!Lock, Record
<1> QED BY <1>12, <1>13 DEF MatchedInv

\* The lock is freed by the only one that has it.
LEMMA UnlockKeeps ==
  ASSUME NLocks \in Nat, MatchedInv, NEW c \in Cpu, Spin!unlock(c)
  PROVE  MatchedInv'
<1>1. PICK a : a = Spin!Now(c)
  OBVIOUS
<1>2. PICK k : k = core[c]
  OBVIOUS
<1>3. /\ Fine(a, k, Spin!Handler(c)) /\ a \in Activation /\ k \in Core
      /\ a.pc = "unlock" /\ a.lk \in Spin!Lock \ a.held
  BY <1>1, <1>2 DEF MatchedInv, CpuInv, Spin!unlock, Spin!Goto, Fine
<1>4. PICK b : b = [a EXCEPT !.pc = "popcli"]
  OBVIOUS
<1>5. Spin!Goto(c, "unlock", b)
  BY <1>1, <1>4 DEF Spin!unlock
<1>6. b \in Activation /\ b.pc = "popcli" /\ b.lk = a.lk /\ b.held = a.held
  BY <1>3, <1>4 DEF Activation, Place
<1>7. Fine(b, k, Spin!Handler(c))
  BY <1>3, <1>6 DEF Fine
<1>8. core' = [core EXCEPT ![c] = k]
  BY <1>2 DEF MatchedInv, CpuInv, Spin!unlock
<1>9. CpuInv'
  BY <1>3, <1>5, <1>6, <1>7, <1>8, CpuKeeps DEF MatchedInv
<1>10. LockInv'
  <2>1. Spin!Now(c)' = b /\ \A d \in Cpu \ {c} : Spin!Now(d)' = Spin!Now(d)
    BY <1>5, <1>6, OthersStay DEF MatchedInv
  <2>2. Has(c, a.lk)
    BY <1>1, <1>3 DEF Has
  <2>3. \A d \in Cpu : /\ Spin!Now(d)'.held = Spin!Now(d).held
                       /\ \A m \in Spin!Lock : Has(d, m)' => Has(d, m) /\ ~(d = c /\ m = a.lk)
    BY <1>1, <1>3, <1>6, <2>1 DEF Has
  <2>4. \A d \in Cpu : ~Has(d, a.lk)'
    BY <1>3, <2>2, <2>3 DEF MatchedInv, LockInv
  <2>5. /\ spin' \in [Spin!Lock -> Record]
        /\ \A m \in Spin!Lock : /\ spin'[m].cpu = spin[m].cpu
                                /\ m # a.lk => spin'[m].locked = spin[m].locked
    <3>1. LockInv /\ spin' = [spin EXCEPT ![a.lk].locked = FALSE]
      BY <1>1 DEF MatchedInv, Spin!unlock
    <3> QED BY <1>3, <3>1, LockedSet
  <2>6. ASSUME NEW m \in Spin!Lock, NEW d \in Cpu
        PROVE  /\ spin'[m].cpu = d <=> m \in Spin!Now(d)'.held
               /\ Has(d, m)' => spin'[m].locked /\ \A e \in Cpu : Has(e, m)' => d = e
    <3>1. CASE m = a.lk
      BY <2>3, <2>4, <2>5, <3>1 DEF MatchedInv, LockInv
    <3>2. CASE m # a.lk
      BY <2>3, <2>5, <3>2 DEF MatchedInv, LockInv
    <3> QED BY <3>1, <3>2
  <2> QED BY <2>5, <2>6 DEF LockInv, Spin!Lock, Record
<1> QED BY <1>9, <1>10 DEF MatchedInv

\* The last popcli of a thread sets the flag again, one of a handler never does.
LEMMA PopcliKeeps ==
  ASSUME NLocks \in Nat, MatchedInv, NEW c \in Cpu, Spin!doPopcli(c)
  PROVE  MatchedInv'
<1>1. PICK a : a = Spin!Now(c)
  OBVIOUS
<1>2. PICK k : k = core[c]
  OBVIOUS
<1>3. /\ Fine(a, k, Spin!Handler(c)) /\ a \in Activation /\ k \in Core
      /\ a.pc = "popcli" /\ a.held \in SUBSET Spin!Lock
  BY <1>1, <1>2 DEF MatchedInv, CpuInv, Spin!doPopcli, Spin!Goto, Fine, Activation
<1>4. /\ Cardinality(a.held) \in Nat /\ (Cardinality(a.held) = 0 <=> a.held = {})
      /\ k.ncli = Cardinality(a.held) + 1 /\ k.ncli > 0 /\ ~k.flag
      /\ k.intena <=> ~Spin!Handler(c)
  <2>1. Cardinality(a.held) \in Nat /\ (Cardinality(a.held) = 0 <=> a.held = {})
    BY <1>3, Counted
  <2> QED BY <1>3, <2>1 DEF Fine
<1>5. PICK b : b = [a EXCEPT !.pc = "go", !.lk = 0]
  OBVIOUS
<1>6. Spin!Goto(c, "popcli", b)
  <2>1. ~(core[c].flag \/ core[c].ncli = 0)
    BY <1>2, <1>4
  <2> QED BY <1>1, <1>5, <2>1 DEF Spin!doPopcli
<1>7. b \in Activation /\ b.pc = "go" /\ b.lk = 0 /\ b.held = a.held
  <2>1. 0 \in 0..NLocks /\ "go" \in Place
    BY DEF Place
  <2>2. b \in Activation
    BY <1>3, <1>5, <2>1 DEF Activation
  <2> QED BY <1>3, <1>5, <2>2 DEF Activation
<1>8. PICK j : j = Spin!popcli(k)
  OBVIOUS
<1>9. /\ j \in Core /\ j.intena = k.intena /\ j.ncli = k.ncli - 1
      /\ j.flag = IF k.ncli = 1 /\ k.intena THEN TRUE ELSE k.flag
  BY <1>3, <1>4, <1>8, Popped
<1>10. j.flag <=> ~Spin!Handler(c) /\ j.ncli = 0
  BY <1>4, <1>9
<1>11. Fine(b, j, Spin!Handler(c))
  BY <1>4, <1>7, <1>9, <1>10 DEF Fine
<1>12. core' = [core EXCEPT ![c] = j]
  BY <1>2, <1>8 DEF Spin!doPopcli
<1>13. CpuInv'
  BY <1>6, <1>7, <1>9, <1>11, <1>12, CpuKeeps DEF MatchedInv
<1>14. LockInv'
  <2>1. Spin!Now(c)' = b /\ \A d \in Cpu \ {c} : Spin!Now(d)' = Spin!Now(d)
    BY <1>6, <1>7, OthersStay DEF MatchedInv
  <2>2. \A d \in Cpu : /\ Spin!Now(d)'.held = Spin!Now(d).held
                       /\ \A m \in Spin!Lock : Has(d, m)' => Has(d, m)
    BY <1>1, <1>7, <2>1 DEF Has
  <2>3. spin' = spin
    BY DEF Spin!doPopcli
  <2> QED BY <2>2, <2>3 DEF MatchedInv, LockInv, Spin!Lock, Record
<1> QED BY <1>13, <1>14 DEF MatchedInv

\* An activation that is about to start or has ended.
LEMMA Idle ==
  ASSUME NLocks \in Nat
  PROVE  /\ Spin!NewFrame \in Activation /\ Spin!NewFrame.pc = "go"
         /\ Spin!NewFrame.lk = 0 /\ Spin!NewFrame.held = {}
         /\ \A k \in Core : \A h \in BOOLEAN :
              k.ncli = 0 /\ (k.flag <=> ~h) => Fine(Spin!NewFrame, k, h)
<1>1. /\ Spin!NewFrame \in Activation /\ Spin!NewFrame.pc = "go"
      /\ Spin!NewFrame.lk = 0 /\ Spin!NewFrame.held = {}
  BY DEF Spin!NewFrame, Activation, Place
<1>2. Cardinality({}) = 0
  BY FS_EmptySet
<1> QED BY <1>1, <1>2 DEF Fine

\* A write of the flag changes only that.
LEMMA FlagSet ==
  ASSUME CpuInv, NEW c \in Cpu, NEW x \in BOOLEAN, core' = [core EXCEPT ![c].flag = x]
  PROVE  /\ core' \in [Cpu -> Core] /\ core'[c].ncli = core[c].ncli
         /\ core'[c].flag <=> x
         /\ \A d \in Cpu \ {c} : core'[d] = core[d]
<1>1. PICK k \in Core : k = core[c]
  BY DEF CpuInv
<1>2. PICK j : j = [k EXCEPT !.flag = x]
  OBVIOUS
<1>3. j \in Core /\ j.ncli = k.ncli /\ j.flag = x
  BY <1>2 DEF Core
<1>4. core' = [core EXCEPT ![c] = j]
  BY <1>1, <1>2
<1> QED BY <1>1, <1>3, <1>4 DEF CpuInv

\* A handler starts above a thread, and returns to one, that has no lock.
LEMMA SwitchKeeps ==
  ASSUME NLocks \in Nat, MatchedInv, NEW c \in Cpu, NEW h \in BOOLEAN,
         Spin!Now(c) = Spin!NewFrame, core[c].ncli = 0, UNCHANGED spin,
         NEW s \in Seq(Activation), Len(s) \in {1, 2}, h <=> Len(s) = 2,
         s[1] = Spin!NewFrame, s[Len(s)] = Spin!NewFrame, frame' = [frame EXCEPT ![c] = s],
         core' = [core EXCEPT ![c].flag = ~h]
  PROVE  MatchedInv'
<1>1. /\ frame' \in [Cpu -> Seq(Activation)] /\ Len(frame'[c]) \in {1, 2}
      /\ h <=> Len(frame'[c]) = 2
      /\ frame'[c][1] = Spin!NewFrame /\ frame'[c][Len(frame'[c])] = Spin!NewFrame
      /\ \A d \in Cpu \ {c} : frame'[d] = frame[d]
  BY DEF MatchedInv, CpuInv
<1>2. /\ core' \in [Cpu -> Core] /\ core'[c].ncli = 0 /\ (core'[c].flag <=> ~h)
      /\ \A d \in Cpu \ {c} : core'[d] = core[d]
  BY FlagSet DEF MatchedInv
<1>3. \A d \in Cpu : Spin!Now(d)' = Spin!Now(d)
  BY <1>1 DEF Spin!Now
<1>4. (Spin!Handler(c)' <=> h) /\ \A d \in Cpu \ {c} : Spin!Handler(d)' <=> Spin!Handler(d)
  BY <1>1 DEF Spin!Handler
<1>5. ASSUME NEW d \in Cpu
      PROVE  /\ Len(frame'[d]) \in {1, 2}
             /\ Spin!Handler(d)' => frame'[d][1] = Spin!NewFrame
             /\ Fine(Spin!Now(d)', core'[d], Spin!Handler(d)')
  <2>1. CASE d = c
    <3>1. Fine(Spin!NewFrame, core'[c], h)
      BY <1>2, Idle
    <3>2. Fine(Spin!Now(c)', core'[c], Spin!Handler(c)')
      BY <1>3, <1>4, <3>1 DEF Fine
    <3> QED BY <1>1, <2>1, <3>2
  <2>2. CASE d # c
    BY <1>1, <1>2, <1>3, <1>4, <2>2 DEF MatchedInv, CpuInv, Fine
  <2> QED BY <2>1, <2>2
<1>6. Spin!NewFrame' = Spin!NewFrame
  BY DEF Spin!NewFrame
<1>7. CpuInv'
  BY <1>1, <1>2, <1>5, <1>6 DEF CpuInv, Fine, Core, Activation, Spin!Lock
<1>8. LockInv'
  BY <1>3 DEF MatchedInv, LockInv, Has, Spin!Lock, Record
<1> QED BY <1>7, <1>8 DEF MatchedInv

\* An interrupt comes only to a thread without locks, and a handler returns without.
LEMMA InterruptKeeps ==
  ASSUME NLocks \in Nat, MatchedInv, NEW c \in Cpu, Spin!interrupt(c) \/ Spin!iret(c)
  PROVE  MatchedInv'
<1>1. PICK a : a = Spin!Now(c)
  OBVIOUS
<1>2. PICK k : k = core[c]
  OBVIOUS
<1>3. Fine(a, k, Spin!Handler(c)) /\ a \in Activation /\ a.held \in SUBSET Spin!Lock
  BY <1>1, <1>2 DEF MatchedInv, CpuInv, Fine, Activation
<1>4. Cardinality(a.held) \in Nat /\ (Cardinality(a.held) = 0 <=> a.held = {})
  BY <1>3, Counted
<1>5. CASE Spin!interrupt(c)
  <2>1. k.flag /\ ~Spin!Handler(c)
    BY <1>2, <1>5 DEF Spin!interrupt
  <2>2. k.ncli = 0 /\ a.pc = "go" /\ a.held = {} /\ a.lk = 0
    BY <1>3, <1>4, <2>1 DEF Fine
  <2>3. a = Spin!NewFrame
    BY <1>3, <2>2 DEF Activation, Spin!NewFrame
  <2>4. Len(frame[c]) = 1 /\ frame[c] \in Seq(Activation)
    BY <2>1 DEF MatchedInv, CpuInv, Spin!Handler
  <2>5. frame[c][1] = Spin!NewFrame
    BY <1>1, <2>3, <2>4 DEF Spin!Now
  <2>6. PICK s : s = Append(frame[c], Spin!NewFrame)
    OBVIOUS
  <2>7. /\ s \in Seq(Activation) /\ Len(s) = 2
        /\ s[1] = Spin!NewFrame /\ s[2] = Spin!NewFrame
    BY <2>4, <2>5, <2>6, Idle
  <2>8. frame' = [frame EXCEPT ![c] = s] /\ core' = [core EXCEPT ![c].flag = ~TRUE]
    BY <1>5, <2>6 DEF Spin!interrupt
  <2>9. Spin!Now(c) = Spin!NewFrame /\ core[c].ncli = 0 /\ UNCHANGED spin
    BY <1>1, <1>2, <1>5, <2>2, <2>3 DEF Spin!interrupt
  <2> QED BY <2>7, <2>8, <2>9, SwitchKeeps
<1>6. CASE Spin!iret(c)
  <2>1. a = Spin!NewFrame /\ Spin!Handler(c) /\ frame[c][1] = Spin!NewFrame
    BY <1>1, <1>6 DEF MatchedInv, CpuInv, Spin!iret
  <2>2. k.ncli = 0
    BY <1>3, <1>4, <2>1, Idle DEF Fine
  <2>3. PICK s : s = <<Spin!NewFrame>>
    OBVIOUS
  <2>4. s \in Seq(Activation) /\ Len(s) = 1 /\ s[1] = Spin!NewFrame
    BY <2>3, Idle
  <2>5. frame' = [frame EXCEPT ![c] = s] /\ core' = [core EXCEPT ![c].flag = ~FALSE]
    BY <1>6, <2>1, <2>3 DEF Spin!iret
  <2>6. Spin!Now(c) = Spin!NewFrame /\ core[c].ncli = 0 /\ UNCHANGED spin
    BY <1>1, <1>2, <1>6, <2>1, <2>2 DEF Spin!iret
  <2>7. Len(s) \in {1, 2} /\ (FALSE <=> Len(s) = 2) /\ s[Len(s)] = Spin!NewFrame
    BY <2>4
  <2> QED BY <2>4, <2>5, <2>6, <2>7, SwitchKeeps
<1> QED BY <1>5, <1>6

\* Whoever holds a lock in some activation holds it in the running one.
LEMMA HoldsNow ==
  ASSUME NLocks \in Nat, MatchedInv, NEW c \in Cpu, NEW l \in Spin!Lock, Spin!Holds(c, l)
  PROVE  Has(c, l)
<1>1. PICK i \in DOMAIN frame[c] :
        \/ l \in frame[c][i].held
        \/ frame[c][i].lk = l /\ frame[c][i].pc \in {"own", "unlock"}
  BY DEF Spin!Holds
<1>2. PICK n \in {1, 2} : n = Len(frame[c])
  BY DEF MatchedInv, CpuInv
<1>3. CASE i = Len(frame[c])
  BY <1>1, <1>3 DEF Has, Spin!Now
<1>4. CASE i # Len(frame[c])
  <2>1. i \in 1..n /\ i # n
    BY <1>1, <1>2, <1>4 DEF MatchedInv, CpuInv
  <2>2. n = 2 /\ i = 1
    BY <2>1
  <2>3. frame[c][i] = Spin!NewFrame
    BY <1>2, <2>2 DEF MatchedInv, CpuInv, Spin!Handler
  <2> QED BY <1>1, <2>3, Idle
<1> QED BY <1>3, <1>4

\* The invariant implies the property.
LEMMA MatchedSuffices ==
  ASSUME NLocks \in Nat, MatchedInv
  PROVE  Spin!InterruptsAreMatched
<1>1. \A l \in Spin!Lock : \A c, d \in Cpu : Spin!Holds(c, l) /\ Spin!Holds(d, l) => c = d
  BY HoldsNow DEF MatchedInv, LockInv
<1>2. ASSUME NEW c \in Cpu
      PROVE  /\ Spin!Now(c).pc # "panic"
             /\ Spin!Now(c).pc = "xchg" => ~Spin!Holds(c, Spin!Now(c).lk)
             /\ core[c].flag <=> /\ ~Spin!Handler(c)
                                 /\ Spin!Now(c).held = {} /\ Spin!Now(c).lk = 0
  <2>1. PICK a : a = Spin!Now(c)
    OBVIOUS
  <2>2. PICK k : k = core[c]
    OBVIOUS
  <2>3. /\ Fine(a, k, Spin!Handler(c)) /\ a \in Activation
        /\ a.held \in SUBSET Spin!Lock /\ a.pc \in Place
    BY <2>1, <2>2 DEF MatchedInv, CpuInv, Fine, Activation
  <2>4. Cardinality(a.held) \in Nat /\ (Cardinality(a.held) = 0 <=> a.held = {})
    BY <2>3, Counted
  <2>5. a.pc # "panic"
    BY <2>3 DEF Place
  <2>6. ASSUME a.pc = "xchg"
        PROVE  ~Spin!Holds(c, a.lk)
    <3>1. a.lk \in Spin!Lock \ a.held
      BY <2>3, <2>6 DEF Fine
    <3>2. ~Has(c, a.lk)
      BY <2>1, <2>6, <3>1 DEF Has
    <3> QED BY <3>1, <3>2, HoldsNow
  <2>7. k.flag <=> ~Spin!Handler(c) /\ a.held = {} /\ a.lk = 0
    <3>1. a.pc # "go" => a.lk # 0
      BY <2>3 DEF Fine, Spin!Lock
    <3> QED BY <2>3, <2>4, <3>1 DEF Fine
  <2> QED BY <2>1, <2>2, <2>5, <2>6, <2>7
<1> QED BY <1>1, <1>2 DEF Spin!InterruptsAreMatched

\* Initially interrupts are on, and no lock is held.
LEMMA MatchedInit ==
  ASSUME NLocks \in Nat, NoCpu \notin Cpu, Spin!Init
  PROVE  MatchedInv
<1>1. \A c \in Cpu : /\ core[c] \in Core /\ core[c].ncli = 0 /\ core[c].flag
                     /\ frame[c] = <<Spin!NewFrame>>
  BY DEF Spin!Init, Core
<1>2. \A c \in Cpu : Spin!Now(c) = Spin!NewFrame /\ (Spin!Handler(c) <=> FALSE)
  BY <1>1 DEF Spin!Now, Spin!Handler
<1>3. ASSUME NEW c \in Cpu
      PROVE  Fine(Spin!Now(c), core[c], Spin!Handler(c))
  <2>1. Fine(Spin!NewFrame, core[c], FALSE)
    BY <1>1, Idle
  <2> QED BY <1>2, <2>1 DEF Fine
<1>4. core \in [Cpu -> Core] /\ frame \in [Cpu -> Seq(Activation)]
  BY <1>1, Idle DEF Spin!Init
<1>5. CpuInv
  <2>1. \A c \in Cpu : Len(frame[c]) = 1
    BY <1>1
  <2> QED BY <1>2, <1>3, <1>4, <2>1 DEF CpuInv
<1>6. \A c \in Cpu : \A l \in Spin!Lock : l \notin Spin!Now(c).held /\ ~Has(c, l)
  BY <1>2, Idle DEF Has
<1>7. /\ spin \in [Spin!Lock -> Record]
      /\ \A l \in Spin!Lock : spin[l].cpu = NoCpu
  BY DEF Spin!Init, Record
<1>8. LockInv
  BY <1>6, <1>7 DEF LockInv
<1> QED BY <1>5, <1>8 DEF MatchedInv

\* A processor waits for no lock of its own, a lock has one holder, and interrupts
\* are on exactly in a thread without locks, for any number of processors and locks.
THEOREM InterruptsCorrect ==
  ASSUME NLocks \in Nat, NoCpu \notin Cpu
  PROVE  Spin!Spec => []Spin!InterruptsAreMatched
<1>1. Spin!Init => MatchedInv
  BY MatchedInit
<1>2. MatchedInv /\ [Spin!Next]_Spin!vars => MatchedInv'
  <2> SUFFICES ASSUME MatchedInv, [Spin!Next]_Spin!vars PROVE MatchedInv'
    OBVIOUS
  <2>1. ASSUME NEW c \in Cpu, NEW l \in Spin!Lock, Spin!acquire(c, l) \/ Spin!release(c, l)
        PROVE  MatchedInv'
    BY <2>1, SpinAcquireKeeps, SpinReleaseKeeps
  <2>2. ASSUME NEW c \in Cpu,
               \/ Spin!xchg(c) \/ Spin!own(c) \/ Spin!unlock(c) \/ Spin!doPopcli(c)
               \/ Spin!interrupt(c) \/ Spin!iret(c)
        PROVE  MatchedInv'
    BY <2>2, XchgKeeps, OwnKeeps, UnlockKeeps, PopcliKeeps, InterruptKeeps
  <2>3. CASE UNCHANGED Spin!vars
    <3>1. spin' = spin /\ core' = core /\ frame' = frame
      BY <2>3 DEF Spin!vars
    <3>2. \A c \in Cpu : /\ Spin!Now(c)' = Spin!Now(c)
                         /\ Spin!Handler(c)' <=> Spin!Handler(c)
      BY <3>1 DEF Spin!Now, Spin!Handler
    <3>3. \A c \in Cpu : Fine(Spin!Now(c)', core'[c], Spin!Handler(c)')
      BY <3>1, <3>2 DEF MatchedInv, CpuInv, Fine
    <3>4. CpuInv'
      BY <3>1, <3>2, <3>3
      DEF MatchedInv, CpuInv, Fine, Core, Activation, Spin!Lock, Spin!NewFrame
    <3>5. LockInv'
      BY <3>1, <3>2 DEF MatchedInv, LockInv, Has, Record, Spin!Lock
    <3> QED BY <3>4, <3>5 DEF MatchedInv
  <2> QED BY <2>1, <2>2, <2>3 DEF Spin!Next
<1>3. MatchedInv => Spin!InterruptsAreMatched
  BY MatchedSuffices
<1> QED BY <1>1, <1>2, <1>3, PTL DEF Spin!Spec
=============================================================================
