------------------------------ MODULE Spinlock ------------------------------
(***************************************************************************)
(* Spinlocks and the interrupt flag (spinlock.c): several processors, each *)
(* with the thread that it runs and, on top of it, an interrupt handler,   *)
(* which takes a lock as well.  Every instruction that touches the lock,   *)
(* the flag or cpu->ncli is a step.  Locks are taken in the order of their *)
(* numbers, a handler takes one.                                           *)
(***************************************************************************)
EXTENDS Naturals, Sequences

CONSTANTS Cpu, NLocks, NoCpu
Lock == 1..NLocks

VARIABLES spin,  \* each lock: locked, and the processor in lk->cpu
          core,  \* each processor: interrupt flag, ncli, intena
          frame  \* each processor: its activations, the running one last

vars == <<spin, core, frame>>

\* An activation: where it is, the lock at hand, the locks it holds.
NewFrame == [pc |-> "go", lk |-> 0, held |-> {}]
Init ==
  /\ spin = [l \in Lock |-> [locked |-> FALSE, cpu |-> NoCpu]]
  /\ core = [c \in Cpu |-> [flag |-> TRUE, ncli |-> 0, intena |-> FALSE]]
  /\ frame = [c \in Cpu |-> <<NewFrame>>]

Now(c) == frame[c][Len(frame[c])]
Goto(c, from, new) ==
  /\ Now(c).pc = from
  /\ frame' = [frame EXCEPT ![c][Len(frame[c])] = new]
Handler(c) == Len(frame[c]) = 2
-----------------------------------------------------------------------------
holding(c, l) == spin[l].locked /\ spin[l].cpu = c

\* Faulty variant: every pushcli saves the flag, not only the outermost.
pushcliEach(k) == [k EXCEPT !.flag = FALSE, !.ncli = @ + 1, !.intena = k.flag]

pushcli(k) ==
  [k EXCEPT !.flag = FALSE, !.ncli = @ + 1, !.intena = IF k.ncli = 0 THEN k.flag ELSE @]
popcli(k) ==
  [k EXCEPT !.ncli = @ - 1, !.flag = IF k.ncli = 1 /\ k.intena THEN TRUE ELSE @]

\* acquire: pushcli, the test for a lock that this processor holds, xchg until
\* the lock was free, lk->cpu.
acquire(c, l) ==
  /\ \A m \in Now(c).held : m < l
  /\ Handler(c) => Now(c).held = {}
  /\ Goto(c, "go", [Now(c) EXCEPT !.pc = IF holding(c, l) THEN "panic" ELSE "xchg",
                                  !.lk = l])
  /\ core' = [core EXCEPT ![c] = pushcli(@)]
  /\ UNCHANGED spin
xchg(c) ==
  LET l == Now(c).lk IN
  /\ Goto(c, "xchg", [Now(c) EXCEPT !.pc = "own"])
  /\ ~spin[l].locked /\ spin' = [spin EXCEPT ![l].locked = TRUE]
  /\ UNCHANGED core
own(c) ==
  LET l == Now(c).lk IN
  /\ Goto(c, "own", [Now(c) EXCEPT !.pc = "go", !.held = @ \cup {l}])
  /\ spin' = [spin EXCEPT ![l].cpu = c]
  /\ UNCHANGED core

\* release, of any lock that is held: lk->cpu, then lk->locked, then popcli.
release(c, l) ==
  /\ l \in Now(c).held
  /\ Goto(c, "go", [Now(c) EXCEPT !.pc = IF holding(c, l) THEN "unlock" ELSE "panic",
                                  !.lk = l, !.held = @ \ {l}])
  /\ spin' = [spin EXCEPT ![l].cpu = NoCpu]
  /\ UNCHANGED core
unlock(c) ==
  /\ Goto(c, "unlock", [Now(c) EXCEPT !.pc = "popcli"])
  /\ spin' = [spin EXCEPT ![Now(c).lk].locked = FALSE]
  /\ UNCHANGED core
doPopcli(c) ==
  /\ Goto(c, "popcli", [Now(c) EXCEPT
                          !.pc = IF core[c].flag \/ core[c].ncli = 0 THEN "panic" ELSE "go",
                          !.lk = 0])
  /\ core' = [core EXCEPT ![c] = popcli(@)]
  /\ UNCHANGED spin

\* An interrupt, between any two instructions with the flag set: the handler
\* runs with the flag clear, and its return sets it again.
interrupt(c) ==
  /\ core[c].flag /\ ~Handler(c)
  /\ frame' = [frame EXCEPT ![c] = Append(@, NewFrame)]
  /\ core' = [core EXCEPT ![c].flag = FALSE]
  /\ UNCHANGED spin
iret(c) ==
  /\ Handler(c) /\ Now(c) = NewFrame
  /\ frame' = [frame EXCEPT ![c] = <<@[1]>>]
  /\ core' = [core EXCEPT ![c].flag = TRUE]
  /\ UNCHANGED spin

Next ==
  \E c \in Cpu : \/ \E l \in Lock : acquire(c, l) \/ release(c, l)
                 \/ xchg(c) \/ own(c) \/ unlock(c) \/ doPopcli(c)
                 \/ interrupt(c) \/ iret(c)
Spec == Init /\ [][Next]_vars
-----------------------------------------------------------------------------
Holds(c, l) ==
  \E k \in DOMAIN frame[c] : \/ l \in frame[c][k].held
                             \/ frame[c][k].lk = l /\ frame[c][k].pc \in {"own", "unlock"}
\* A processor never waits for a lock that it holds itself, because it takes no
\* interrupt while it holds or takes one; a lock has one holder; and a thread
\* without locks can be interrupted again, however its locks were nested and
\* although pushcli and popcli are not atomic with the lock.
InterruptsAreMatched ==
  /\ \A l \in Lock : \A c, d \in Cpu : Holds(c, l) /\ Holds(d, l) => c = d
  /\ \A c \in Cpu :
       /\ Now(c).pc # "panic" /\ (Now(c).pc = "xchg" => ~Holds(c, Now(c).lk))
       /\ core[c].flag <=> ~Handler(c) /\ Now(c).held = {} /\ Now(c).lk = 0
=============================================================================
