----------------------------- MODULE SleepLock ------------------------------
(***************************************************************************)
(* Sleep locks (sleeplock.c) on top of sleep and wakeup (proc.c), with     *)
(* every acquire and release of the two spinlocks involved, lk->lk and     *)
(* ptable.lock, as a step of its own.  This is the protocol that the other *)
(* modules rely on when they take "release the lock and sleep" to be one   *)
(* step.  kill may wake a sleeper at any time.                             *)
(***************************************************************************)
CONSTANTS Thread, None
ASSUME NoneAssumption == None \notin Thread

VARIABLES lk,         \* holder of lk->lk
          ptable,     \* holder of ptable.lock
          locked,     \* lk->locked
          pid,        \* lk->pid
          sleeping,   \* the processes in state SLEEPING with chan = lk
          pc
vars == <<lk, ptable, locked, pid, sleeping, pc>>

Init ==
  /\ lk = None /\ ptable = None
  /\ locked = FALSE /\ pid = None
  /\ sleeping = {}
  /\ pc = [t \in Thread |-> "idle"]

Goto(t, from, to) == pc[t] = from /\ pc' = [pc EXCEPT ![t] = to]
-----------------------------------------------------------------------------
\* acquiresleep: take lk->lk, at the beginning or at the end of sleep.
acquire(t) ==
  /\ \/ Goto(t, "idle", "test")
     \/ Goto(t, "relock", "test")
  /\ lk = None /\ lk' = t
  /\ UNCHANGED <<ptable, locked, pid, sleeping>>

testLocked(t) ==
  /\ Goto(t, "test", "sleep")
  /\ locked
  /\ UNCHANGED <<lk, ptable, locked, pid, sleeping>>

testFree(t) ==
  /\ Goto(t, "test", "acquired")
  /\ ~locked
  /\ locked' = TRUE /\ pid' = t
  /\ UNCHANGED <<lk, ptable, sleeping>>

acquired(t) ==
  /\ Goto(t, "acquired", "holding")
  /\ lk' = None
  /\ UNCHANGED <<ptable, locked, pid, sleeping>>

\* Faulty variant: lk is released before ptable.lock is held.
sleepUnlocked(t) ==
  /\ Goto(t, "sleep", "asleep_next")
  /\ lk' = None
  /\ UNCHANGED <<ptable, locked, pid, sleeping>>

\* sleep: take ptable.lock, only then release lk.
sleepAcquires(t) ==
  /\ Goto(t, "sleep", "sleep_locked")
  /\ ptable = None /\ ptable' = t
  /\ UNCHANGED <<lk, locked, pid, sleeping>>

sleepReleases(t) ==
  /\ Goto(t, "sleep_locked", "asleep_next")
  /\ lk' = None
  /\ UNCHANGED <<ptable, locked, pid, sleeping>>

\* sched gives ptable.lock away with the processor.
sleepSched(t) ==
  /\ Goto(t, "asleep_next", "asleep")
  /\ sleeping' = sleeping \cup {t}
  /\ ptable' = None
  /\ UNCHANGED <<lk, locked, pid>>

\* The scheduler, with ptable.lock, switches to a process that was woken.
sleepResumes(t) ==
  /\ Goto(t, "asleep", "tidy")
  /\ t \notin sleeping
  /\ ptable = None /\ ptable' = t
  /\ UNCHANGED <<lk, locked, pid, sleeping>>

\* The end of sleep: release ptable.lock, then go for lk again.
sleepReturns(t) ==
  /\ Goto(t, "tidy", "relock")
  /\ ptable' = None
  /\ UNCHANGED <<lk, locked, pid, sleeping>>
-----------------------------------------------------------------------------
\* releasesleep.
releaseAcquires(t) ==
  /\ Goto(t, "holding", "clear")
  /\ lk = None /\ lk' = t
  /\ UNCHANGED <<ptable, locked, pid, sleeping>>

releaseClears(t) ==
  /\ Goto(t, "clear", "wakeup")
  /\ locked' = FALSE /\ pid' = None
  /\ UNCHANGED <<lk, ptable, sleeping>>

wakeupAcquires(t) ==
  /\ Goto(t, "wakeup", "wakeup1")
  /\ ptable = None /\ ptable' = t
  /\ UNCHANGED <<lk, locked, pid, sleeping>>

\* Faulty variant: nobody is woken.
wakeupNobody(t) ==
  /\ Goto(t, "wakeup1", "woken")
  /\ ptable' = None
  /\ UNCHANGED <<lk, locked, pid, sleeping>>

\* wakeup1 and the release of ptable.lock.
wakeup1(t) ==
  /\ Goto(t, "wakeup1", "woken")
  /\ sleeping' = {}
  /\ ptable' = None
  /\ UNCHANGED <<lk, locked, pid>>

releaseDone(t) ==
  /\ Goto(t, "woken", "idle")
  /\ lk' = None
  /\ UNCHANGED <<ptable, locked, pid, sleeping>>

\* kill makes a sleeping process RUNNABLE, and holds ptable.lock for it.
kill(t) ==
  /\ ptable = None
  /\ t \in sleeping
  /\ sleeping' = sleeping \ {t}
  /\ UNCHANGED <<lk, ptable, locked, pid, pc>>

acquiresleep(t) == acquire(t) \/ testLocked(t) \/ testFree(t) \/ acquired(t)
sleep(t) == \/ sleepAcquires(t) \/ sleepReleases(t) \/ sleepSched(t)
            \/ sleepResumes(t) \/ sleepReturns(t)
releasesleep(t) == \/ releaseAcquires(t) \/ releaseClears(t)
                   \/ wakeupAcquires(t) \/ wakeup1(t) \/ releaseDone(t)

Next == \E t \in Thread :
          acquiresleep(t) \/ sleep(t) \/ releasesleep(t) \/ kill(t)

Spec == Init /\ [][Next]_vars

\* Threads with a spinlock keep running, a spinlock that is free again and again
\* is obtained in the end, and whoever holds the sleep lock releases it.
FairSpec ==
  /\ Spec
  /\ \A t \in Thread : /\ SF_vars(pc[t] # "idle" /\ acquiresleep(t))
                       /\ SF_vars(sleep(t))
                       /\ SF_vars(releasesleep(t))
-----------------------------------------------------------------------------
HoldsLk == {"test", "sleep", "sleep_locked", "acquired", "clear", "wakeup",
            "wakeup1", "woken"}
HoldsPtable == {"sleep_locked", "asleep_next", "tidy", "wakeup1"}
Holds == {"acquired", "holding", "clear"}   \* the sleep lock itself
Label == HoldsLk \cup HoldsPtable \cup {"idle", "relock", "holding", "asleep"}

TypeOK ==
  /\ lk \in Thread \cup {None} /\ ptable \in Thread \cup {None}
  /\ locked \in BOOLEAN /\ pid \in Thread \cup {None}
  /\ sleeping \subseteq Thread
  /\ pc \in [Thread -> Label]

\* At most one thread has the sleep lock, and it is the one in lk->pid, although
\* no spinlock is held meanwhile.
SleepMutex ==
  \A t \in Thread : pc[t] \in Holds => locked /\ pid = t

\* No wakeup is missed: whenever someone sleeps, the lock is taken, so that a
\* release is still to come, or the release that freed it is about to call
\* wakeup ("we can be guaranteed that we won't miss any wakeup").
NoMissedWakeup ==
  sleeping # {} =>
    locked \/ \E t \in Thread : pc[t] \in {"wakeup", "wakeup1"}

\* Every sleeper is woken.
SleepersAreWoken == \A t \in Thread : (t \in sleeping) ~> (t \notin sleeping)

\* Spinlocks exclude, and where each thread is says which it holds.
SpinInv ==
  /\ \A t \in Thread : pc[t] \in HoldsLk <=> lk = t
  /\ \A t \in Thread : pc[t] \in HoldsPtable <=> ptable = t
OwnerInv == locked => pid \in Thread /\ pc[pid] \in Holds
\* Who sleeps is in sleep; who is on the way there found the lock taken, and
\* only lets go of lk with ptable.lock in hand.
SleepInv ==
  /\ \A t \in sleeping : pc[t] = "asleep"
  /\ \A t \in Thread : pc[t] \in {"sleep", "sleep_locked"} => locked
  /\ \A t \in Thread : pc[t] = "asleep_next" =>
       locked \/ \E u \in Thread : pc[u] = "wakeup"

\* The inductive invariant: what each thread's place in the code says of the two
\* spinlocks, of lk->locked and of the sleepers.
IInv == /\ TypeOK /\ SpinInv /\ SleepMutex /\ OwnerInv /\ SleepInv
        /\ NoMissedWakeup
=============================================================================
