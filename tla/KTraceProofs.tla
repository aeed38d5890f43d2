---------------------------- MODULE KTraceProofs ----------------------------
(***************************************************************************)
(* Proofs about the trace buffer for every ring size, every counter width  *)
(* that is a multiple of it, and every set of threads; and that it         *)
(* implements TraceQueue.                                                  *)
(***************************************************************************)
EXTENDS KTrace, SequenceTheorems, TLAPS

\* Time enough for every leaf, whatever else the machine does.
USE SMTT(15), ZenonT(20)

-----------------------------------------------------------------------------
(* uint arithmetic without the modulus.                                    *)

\* A uint counter that is incremented wraps to zero and nowhere else.
LEMMA IncCases ==
  ASSUME NEW n \in Uint
  PROVE  /\ Inc(n) \in Uint
         /\ Inc(n) = IF n = SeqMod - 1 THEN 0 ELSE n + 1
  BY SeqModAssumption, BufSizeAssumption DEF Inc, Uint

\* The difference of two uint counters is the distance from one to the other.
LEMMA MinusCases ==
  ASSUME NEW m \in Uint, NEW n \in Uint
  PROVE  /\ Minus(m, n) \in Uint
         /\ Minus(m, n) = IF m >= n THEN m - n ELSE m - n + SeqMod
  BY SeqModAssumption, BufSizeAssumption DEF Minus, Uint

\* The same for a sum that wraps at most once.
LEMMA PlusCases ==
  ASSUME NEW m \in Uint, NEW n \in Uint
  PROVE  /\ (m + n) % SeqMod \in Uint
         /\ (m + n) % SeqMod = IF m + n < SeqMod THEN m + n ELSE m + n - SeqMod
  BY SeqModAssumption, BufSizeAssumption DEF Uint

\* How the distance from b to a changes when one of them moves.
LEMMA Distances ==
  ASSUME NEW a \in Uint, NEW b \in Uint
  PROVE  /\ Inc(a) \in Uint /\ Inc(b) \in Uint /\ Minus(b, 1) \in Uint
         /\ Minus(Inc(b), 1) = b /\ Inc(Minus(b, 1)) = b
         /\ a # b => Minus(a, Inc(b)) = Minus(a, b) - 1
         /\ Minus(a, b) < SeqMod - 1 => Minus(Inc(a), b) = Minus(a, b) + 1
         /\ Minus(Inc(a), Inc(b)) = Minus(a, b)
         /\ Minus(a, b) = BufSize => Minus(Inc(a), BufSize) = Inc(b)
<1>1. 1 \in Uint /\ BufSize \in Uint /\ SeqMod \in Int /\ BufSize \in Int
      /\ 0 < BufSize /\ BufSize + 1 < SeqMod
  BY SeqModAssumption, BufSizeAssumption DEF Uint
<1> DEFINE step(n) == IF n = SeqMod - 1 THEN 0 ELSE n + 1
           dist(m, n) == IF m >= n THEN m - n ELSE m - n + SeqMod
<1>2. \A n \in Uint : Inc(n) = step(n) /\ Inc(n) \in Uint
  BY IncCases
<1>3. \A m, n \in Uint : Minus(m, n) = dist(m, n) /\ Minus(m, n) \in Uint
  BY MinusCases
<1>4. Inc(a) = step(a) /\ Inc(b) = step(b) /\ Inc(a) \in Uint /\ Inc(b) \in Uint
  BY <1>2
<1>5. /\ Minus(b, 1) = dist(b, 1) /\ Minus(b, 1) \in Uint
      /\ Minus(Inc(b), 1) = dist(Inc(b), 1)
      /\ Minus(a, b) = dist(a, b)
      /\ Minus(a, Inc(b)) = dist(a, Inc(b))
      /\ Minus(Inc(a), b) = dist(Inc(a), b)
      /\ Minus(Inc(a), Inc(b)) = dist(Inc(a), Inc(b))
      /\ Minus(Inc(a), BufSize) = dist(Inc(a), BufSize)
  BY <1>1, <1>3, <1>4
<1>6. Inc(Minus(b, 1)) = step(Minus(b, 1))
  BY <1>2, <1>5
<1> QED BY <1>1, <1>4, <1>5, <1>6 DEF Uint

\* The k-th number from a on, when there are at least k of them before n.
LEMMA Positions ==
  ASSUME NEW a \in Uint, NEW n \in Uint, NEW k \in Uint, k <= Minus(n, a)
  PROVE  /\ (a + k) % SeqMod \in Uint
         /\ Minus(n, (a + k) % SeqMod) = Minus(n, a) - k
         /\ k = Minus(n, a) => (a + k) % SeqMod = n
         /\ k < SeqMod - 1 => (Inc(a) + k) % SeqMod = (a + (k + 1)) % SeqMod
<1>1. SeqMod \in Nat /\ SeqMod > 1
  BY SeqModAssumption, BufSizeAssumption
<1>2. /\ (a + k) % SeqMod \in Uint
      /\ (a + k) % SeqMod = IF a + k < SeqMod THEN a + k ELSE a + k - SeqMod
  BY PlusCases
<1>3. Minus(n, a) = IF n >= a THEN n - a ELSE n - a + SeqMod
  BY MinusCases
<1>4. ASSUME k < SeqMod - 1
      PROVE  (Inc(a) + k) % SeqMod = (a + (k + 1)) % SeqMod
  <2>1. Inc(a) \in Uint /\ Inc(a) = IF a = SeqMod - 1 THEN 0 ELSE a + 1
    BY IncCases
  <2>2. k + 1 \in Uint
    BY <1>1, <1>4 DEF Uint
  <2>3. /\ (Inc(a) + k) % SeqMod =
             IF Inc(a) + k < SeqMod THEN Inc(a) + k ELSE Inc(a) + k - SeqMod
        /\ (a + (k + 1)) % SeqMod =
             IF a + (k + 1) < SeqMod THEN a + (k + 1)
                                     ELSE a + (k + 1) - SeqMod
    BY <2>1, <2>2, PlusCases
  <2> QED BY <1>1, <1>4, <2>1, <2>3 DEF Uint
<1> DEFINE p == (a + k) % SeqMod
<1>5. p \in Uint /\ p = IF a + k < SeqMod THEN a + k ELSE a + k - SeqMod
  BY <1>2
<1> HIDE DEF p
<1>6. Minus(n, p) = IF n >= p THEN n - p ELSE n - p + SeqMod
  BY <1>5, MinusCases
<1>7. Minus(n, p) = Minus(n, a) - k /\ (k = Minus(n, a) => p = n)
  BY <1>1, <1>3, <1>5, <1>6 DEF Uint
<1> QED BY <1>4, <1>5, <1>7 DEF p

LEMMA SlotRange ==
  ASSUME NEW n \in Uint
  PROVE  SlotOf(n) \in Slot
  BY BufSizeAssumption, SeqModAssumption DEF SlotOf, Slot, Uint
\* Two numbers less than one lap apart have different slots.
LEMMA ModDistinct ==
  ASSUME NEW a \in Int, NEW d \in 1..BufSize-1
  PROVE  (a + d) % BufSize # a % BufSize
<1> DEFINE q == a \div BufSize  r == a % BufSize
           s == (a + d) \div BufSize  u == (a + d) % BufSize
<1>1. q \in Int /\ s \in Int /\ a = BufSize * q + r /\ a + d = BufSize * s + u
  BY BufSizeAssumption
<1>2. SUFFICES ASSUME r = u PROVE FALSE
  OBVIOUS
<1>3. d = BufSize * (s - q)
  BY <1>1, <1>2, BufSizeAssumption
<1>4. CASE s - q <= 0
  BY <1>1, <1>3, <1>4, BufSizeAssumption
<1>5. CASE s - q >= 1
  BY <1>1, <1>3, <1>5, BufSizeAssumption
<1> QED BY <1>1, <1>4, <1>5

\* A multiple of BufSize that is a difference of two slots is zero.
LEMMA SameSlot ==
  ASSUME NEW x \in Int, NEW r \in Slot, NEW u \in Slot, u - r = BufSize * x
  PROVE  u = r
<1>1. CASE x <= -1
  <2>1. BufSize * x <= BufSize * (-1)
    BY <1>1, BufSizeAssumption
  <2> QED BY <2>1, BufSizeAssumption DEF Slot
<1>2. CASE x >= 1
  <2>1. BufSize * x >= BufSize
    BY <1>2, BufSizeAssumption
  <2> QED BY <2>1, BufSizeAssumption DEF Slot
<1>3. CASE x = 0
  BY <1>3, BufSizeAssumption DEF Slot
<1> QED BY <1>1, <1>2, <1>3

\* The range of a counter is a whole number of laps, so a number keeps its
\* slot when the counter wraps.
LEMMA ModShift ==
  ASSUME NEW a \in Int
  PROVE  (a + SeqMod) % BufSize = a % BufSize
<1> DEFINE k == SeqMod \div BufSize
           q == a \div BufSize  r == a % BufSize
           s == (a + SeqMod) \div BufSize  u == (a + SeqMod) % BufSize
<1>1. k \in Int /\ SeqMod = BufSize * k
  BY BufSizeAssumption, SeqModAssumption
<1>2. q \in Int /\ a = BufSize * q + r /\ r \in Slot
  BY BufSizeAssumption DEF Slot
<1>3. s \in Int /\ a + SeqMod = BufSize * s + u /\ u \in Slot
  BY BufSizeAssumption, SeqModAssumption DEF Slot
<1> HIDE DEF k, q, r, s, u
<1>4. u - r = BufSize * (q + k - s)
  BY <1>1, <1>2, <1>3, BufSizeAssumption DEF Slot
<1>5. u = r
  BY <1>1, <1>2, <1>3, <1>4, SameSlot
<1> QED BY <1>5 DEF u, r

LEMMA SlotDistinct ==
  ASSUME NEW a \in Uint, NEW b \in Uint, NEW d \in Int,
         d = Minus(a, b), 0 < d, d < BufSize
  PROVE  SlotOf(a) # SlotOf(b)
<1>1. d = IF a >= b THEN a - b ELSE a - b + SeqMod
  BY MinusCases
<1>2. a \in Int /\ b \in Int /\ d \in 1..BufSize-1 /\ SeqMod \in Int
  BY BufSizeAssumption, SeqModAssumption DEF Uint
<1>3. (b + d) % BufSize # b % BufSize
  BY <1>2, ModDistinct
<1>4. b + d = a \/ b + d = a + SeqMod
  BY <1>1, <1>2
<1>5. (b + d) % BufSize = a % BufSize
  BY <1>2, <1>4, ModShift
<1> QED BY <1>3, <1>5 DEF SlotOf
-----------------------------------------------------------------------------
(* Types and the lock.                                                     *)

LEMMA ConstantTypes ==
  /\ 0 \in Uint
  /\ 0 \in 0..MaxTicks /\ 0 \in 0..MaxRead
  /\ ZeroEvent \in Event /\ <<>> \in Seq(Event)
  BY SeqModAssumption, BufSizeAssumption, BoundAssumption
     DEF Uint, ZeroEvent, Event

LEMMA TypeInit == Init => TypeOK
  BY ConstantTypes DEF Init, TypeOK, Label, Critical

LEMMA TypeStep ==
  ASSUME TypeOK, [Next]_vars
  PROVE  TypeOK'
<1>1. CASE traceinit
  BY <1>1, ConstantTypes DEF traceinit, TypeOK, call
<1>2. CASE Tick
  BY <1>2, BoundAssumption DEF Tick, TypeOK, ring, call
<1>3. ASSUME NEW t \in Thread, NEW p \in Payload, CallEvent(t, p)
      PROVE  TypeOK'
  BY <1>3 DEF CallEvent, Goto, TypeOK, ring, Label
<1>4. ASSUME NEW t \in Thread, NEW n \in 1..MaxRead, CallRead(t, n)
      PROVE  TypeOK'
  BY <1>4, BoundAssumption DEF CallRead, Goto, TypeOK, ring, Label
<1>5. ASSUME NEW t \in Thread, Acquire(t) PROVE TypeOK'
  BY <1>5 DEF Acquire, Goto, TypeOK, ring, call, Label, Critical
<1>6. ASSUME NEW t \in Thread, Fill(t) PROVE TypeOK'
  <2>1. [seq |-> seq, ticks |-> ticks, payload |-> arg[t],
         overwritten |-> overwritten] \in Event
    BY DEF TypeOK, Event
  <2>2. events' \in [Slot -> Event]
    BY <1>6, <2>1 DEF Fill, TypeOK
  <2> QED BY <1>6, <2>2 DEF Fill, Goto, TypeOK, call, Label, Critical
<1>7. ASSUME NEW t \in Thread, Advance(t) PROVE TypeOK'
  <2>1. /\ Inc(seq) \in Uint /\ Inc(overwritten) \in Uint
        /\ Minus(Inc(seq), BufSize) \in Uint
    <3>1. Inc(seq) \in Uint /\ BufSize \in Uint
      BY IncCases, BufSizeAssumption, SeqModAssumption DEF TypeOK, Uint
    <3> QED BY <3>1, IncCases, MinusCases DEF TypeOK
  <2> QED BY <1>7, <2>1 DEF Advance, Goto, TypeOK, call, Label, Critical
<1>8. ASSUME NEW t \in Thread, Take(t) PROVE TypeOK'
  <2>1. events[SlotOf(readseq)] \in Event /\ Inc(readseq) \in Uint
    BY SlotRange, IncCases DEF TypeOK
  <2> QED BY <1>8, <2>1 DEF Take, Goto, TypeOK, Label, Critical
<1>9. ASSUME NEW t \in Thread, LoopDone(t) PROVE TypeOK'
  BY <1>9 DEF LoopDone, Goto, TypeOK, ring, call, Label, Critical
<1>10. ASSUME NEW t \in Thread, CopyOut(t) PROVE TypeOK'
  <2>1. Append(dst[t], event[t]) \in Seq(Event)
    BY DEF TypeOK
  <2>2. Inc(consumed) \in Uint
    BY IncCases DEF TypeOK
  <2> QED BY <1>10, <2>1, <2>2, ConstantTypes
          DEF CopyOut, Goto, TypeOK, ring, Label, Critical
<1>11. ASSUME NEW t \in Thread, CopyFault(t) PROVE TypeOK'
  <2>1. Inc(consumed) \in Uint
    BY IncCases DEF TypeOK
  <2> QED BY <1>11, <2>1, ConstantTypes
          DEF CopyFault, Goto, TypeOK, ring, Label, Critical
<1>12. ASSUME NEW t \in Thread, Release(t) PROVE TypeOK'
  <2>1. <<>> \in Seq(Event)
    OBVIOUS
  <2> QED BY <1>12, <2>1, ConstantTypes DEF Release, Goto, TypeOK, ring, Label
<1>13. CASE UNCHANGED vars
  BY <1>13 DEF vars, ring, call, TypeOK
<1> QED BY <1>1, <1>2, <1>3, <1>4, <1>5, <1>6, <1>7, <1>8, <1>9, <1>10,
           <1>11, <1>12, <1>13 DEF Next, Locked

\* The counters stay uints, the slots and the callers' buffers hold events,
\* and the lock has a thread or nobody for its holder.
THEOREM TypeCorrect == Spec => []TypeOK
<1>1. TypeOK /\ [Next]_vars => TypeOK'
  BY TypeStep
<1> QED BY <1>1, TypeInit, PTL DEF Spec

\* One thread at a time is inside the lock, so what the holder is doing decides
\* whether an event is being published or copied out.
LEMMA HolderDecides ==
  ASSUME LockProtects, NEW t \in Thread, pc[t] \in Critical
  PROVE  /\ lock = t
         /\ Advancing <=> pc[t] = "advance"
         /\ Copying <=> pc[t] = "copyout"
  BY DEF LockProtects, Critical, Advancing, Copying

LEMMA NobodyInside ==
  ASSUME LockProtects, lock = NoThread
  PROVE  ~Advancing /\ ~Copying
  BY NoValueAssumption DEF LockProtects, Critical, Advancing, Copying

\* What the lock, the boot flag and the arguments need for themselves.
Control == LockProtects /\ BootInv /\ ArgInv

LEMMA ControlInductive ==
  ASSUME TypeOK, Control, [Next]_vars
  PROVE  Control'
<1> USE NoValueAssumption DEF Control
<1>1. CASE traceinit
  BY <1>1 DEF traceinit, TypeOK, LockProtects, BootInv, ArgInv, Critical, call
<1>2. CASE Tick
  BY <1>2 DEF Tick, LockProtects, BootInv, ArgInv, ring, call
<1>3. ASSUME NEW t \in Thread, NEW p \in Payload, CallEvent(t, p)
      PROVE  Control'
  BY <1>3 DEF CallEvent, Goto, TypeOK, LockProtects, BootInv, ArgInv, Critical,
              ring
<1>4. ASSUME NEW t \in Thread, NEW n \in 1..MaxRead, CallRead(t, n)
      PROVE  Control'
  BY <1>4 DEF CallRead, Goto, TypeOK, LockProtects, BootInv, ArgInv, Critical,
              ring
<1>5. ASSUME NEW t \in Thread, Acquire(t) PROVE Control'
  BY <1>5 DEF Acquire, Goto, TypeOK, LockProtects, BootInv, ArgInv, Critical,
              ring, call
<1>6. ASSUME NEW t \in Thread, Locked(t) PROVE Control'
  <2>1. pc[t] \in Critical /\ enabled
    BY <1>6 DEF Locked, Fill, Advance, Take, LoopDone, CopyOut, CopyFault,
                Release, Critical, BootInv, TypeOK
  <2>2. CASE Release(t)
    BY <2>1, <2>2 DEF Release, Goto, TypeOK, LockProtects, BootInv, ArgInv,
                      Critical, ring
  <2>3. CASE ~Release(t)
    <3>1. /\ lock' = lock /\ enabled' = enabled /\ arg' = arg
          /\ \E l \in Critical \ {"fill"} : Goto(t, l)
      BY <1>6, <2>3 DEF Locked, Fill, Advance, Take, LoopDone, CopyOut,
                CopyFault, Critical, ring, call
    <3> QED BY <2>1, <3>1 DEF Goto, TypeOK, LockProtects, BootInv, ArgInv,
                              Critical
  <2> QED BY <2>2, <2>3
<1>7. CASE UNCHANGED vars
  BY <1>7 DEF vars, ring, call, LockProtects, BootInv, ArgInv
<1> QED BY <1>1, <1>2, <1>3, <1>4, <1>5, <1>6, <1>7 DEF Next

\* Only the holder of traceBuffer.lock is inside the critical sections.
THEOREM LockCorrect == Spec => []LockProtects
<1>1. Init => Control
  BY NoValueAssumption DEF Init, Control, LockProtects, BootInv, ArgInv,
                           Critical
<1>2. TypeOK /\ Control /\ [Next]_vars => Control'
  BY ControlInductive
<1>3. Control => LockProtects
  BY DEF Control
<1> QED BY <1>1, <1>2, <1>3, TypeCorrect, PTL DEF Spec
-----------------------------------------------------------------------------
(* The window of unread events: the steps that do not move it, the step    *)
(* that records an event and the steps that take one.                      *)

window == <<NextSeq, OldestSeq, LostCount, events, consumed>>

LEMMA WindowTypes ==
  ASSUME TypeOK
  PROVE  /\ Unread \in Uint /\ NextSeq \in Uint /\ OldestSeq \in Uint
         /\ LostCount \in Uint /\ UnreadCount \in Uint
<1>1. 1 \in Uint /\ Inc(seq) \in Uint /\ Inc(readseq) \in Uint
      /\ Inc(overwritten) \in Uint
  BY IncCases, SeqModAssumption, BufSizeAssumption DEF TypeOK, Uint
<1>2. Minus(readseq, 1) \in Uint /\ Unread \in Uint
  BY <1>1, MinusCases DEF TypeOK, Unread
<1>3. NextSeq \in Uint /\ OldestSeq \in Uint /\ LostCount \in Uint
  BY <1>1, <1>2 DEF TypeOK, NextSeq, OldestSeq, LostCount
<1> QED BY <1>2, <1>3, MinusCases DEF UnreadCount

\* A step outside the lock, or one that neither fills a slot nor copies an
\* event out, leaves the window alone.
LEMMA QuietSteps ==
  ASSUME TypeOK, Control, UnreadBound, [Next]_vars,
         \A t \in Thread : ~Fill(t) /\ ~CopyOut(t) /\ ~CopyFault(t)
  PROVE  UnreadBound' /\ UNCHANGED window
<1> USE DEF Control
<1>1. CASE UNCHANGED <<seq, readseq, overwritten, events, consumed>>
           /\ (Advancing' <=> Advancing) /\ (Copying' <=> Copying)
  <2>1. Unread' = Unread
    BY <1>1 DEF Unread
  <2> QED BY <1>1, <2>1 DEF UnreadBound, window, NextSeq, OldestSeq, LostCount,
                            Displacing
<1>2. CASE traceinit
  <2>1. /\ seq' = seq /\ readseq' = readseq /\ overwritten' = overwritten
        /\ events' = events /\ consumed' = consumed /\ pc' = pc
    BY <1>2 DEF traceinit, BootInv, call
  <2> QED BY <1>1, <2>1 DEF Advancing, Copying
<1>3. CASE Tick \/ UNCHANGED vars
  BY <1>1, <1>3 DEF Tick, vars, ring, call, Advancing, Copying
<1>4. ASSUME NEW t \in Thread, NEW l \in Label \ {"advance", "copyout"},
             pc[t] \notin {"advance", "copyout"}, Goto(t, l),
             UNCHANGED <<ring, consumed>>
      PROVE  UnreadBound' /\ UNCHANGED window
  <2>1. (Advancing' <=> Advancing) /\ (Copying' <=> Copying)
    BY <1>4 DEF Goto, TypeOK, Advancing, Copying
  <2> QED BY <1>1, <1>4, <2>1 DEF ring
<1>5. ASSUME NEW t \in Thread,
             \/ \E p \in Payload : CallEvent(t, p)
             \/ \E n \in 1..MaxRead : CallRead(t, n)
             \/ Acquire(t) \/ LoopDone(t) \/ Release(t)
      PROVE  UnreadBound' /\ UNCHANGED window
  BY <1>4, <1>5 DEF CallEvent, CallRead, Acquire, LoopDone, Release, Label,
                    Critical
<1>6. ASSUME NEW t \in Thread, Advance(t)
      PROVE  UnreadBound' /\ UNCHANGED window
  <2>1. /\ Advancing /\ ~Copying /\ ~Advancing' /\ ~Copying'
    BY <1>6, HolderDecides DEF Advance, Goto, TypeOK, LockProtects, Critical,
                               Advancing, Copying
  <2>2. Unread \in Uint /\ Inc(seq) \in Uint /\ BufSize \in Uint
    <3>1. BufSize \in Uint
      BY BufSizeAssumption, SeqModAssumption DEF Uint
    <3> QED BY <3>1, WindowTypes, IncCases DEF TypeOK
  <2>3. Unread <= BufSize
    BY DEF UnreadBound
  <2>4. Minus(Inc(seq), readseq) = Unread + 1
    BY <2>2, <2>3, Distances, SeqModAssumption, BufSizeAssumption
       DEF TypeOK, Unread, Uint
  <2>5. CASE Unread = BufSize
    <3>1. Minus(Inc(seq), BufSize) = Inc(readseq)
      BY <2>5, Distances DEF TypeOK, Unread
    <3>2. /\ seq' = Inc(seq) /\ readseq' = Inc(readseq)
          /\ overwritten' = Inc(overwritten)
      BY <1>6, <2>2, <2>4, <2>5, <3>1, BufSizeAssumption DEF Advance
    <3>3. Unread' = BufSize
      BY <2>5, <3>2, Distances DEF TypeOK, Unread
    <3> QED BY <1>6, <2>1, <2>5, <3>2, <3>3, BufSizeAssumption
            DEF Advance, call, UnreadBound, window, NextSeq, OldestSeq,
                LostCount, Displacing
  <2>6. CASE Unread < BufSize
    <3>1. /\ seq' = Inc(seq) /\ readseq' = readseq
          /\ overwritten' = overwritten
      BY <1>6, <2>2, <2>4, <2>6, BufSizeAssumption DEF Advance, Uint
    <3>2. Unread' = Unread + 1
      BY <2>4, <3>1 DEF Unread
    <3> QED BY <1>6, <2>1, <2>2, <2>6, <3>1, <3>2, BufSizeAssumption
            DEF Advance, call, UnreadBound, window, NextSeq, OldestSeq,
                LostCount, Displacing, Uint
  <2> QED BY <2>2, <2>3, <2>5, <2>6, BufSizeAssumption DEF Uint
<1>7. ASSUME NEW t \in Thread, Take(t)
      PROVE  UnreadBound' /\ UNCHANGED window
  <2>1. ~Advancing /\ ~Copying /\ ~Advancing' /\ Copying'
    BY <1>7, HolderDecides DEF Take, Goto, TypeOK, LockProtects, Critical,
                               Advancing, Copying
  <2>2. /\ seq' = seq /\ readseq' = Inc(readseq) /\ readseq # seq
        /\ overwritten' = overwritten /\ events' = events
        /\ consumed' = consumed
    BY <1>7 DEF Take
  <2>3. Minus(Inc(readseq), 1) = readseq
    BY Distances DEF TypeOK
  <2>4. Unread' = Unread - 1 /\ Unread \in Uint
    <3>1. seq \in Uint /\ readseq \in Uint /\ seq # readseq
      BY <2>2 DEF TypeOK
    <3>2. Minus(seq, Inc(readseq)) = Minus(seq, readseq) - 1
      BY <3>1, Distances
    <3>3. Unread \in Uint
      BY WindowTypes
    <3> QED BY <2>2, <3>2, <3>3 DEF Unread
  <2> QED BY <2>1, <2>2, <2>3, <2>4, BufSizeAssumption
          DEF UnreadBound, window, NextSeq, OldestSeq, LostCount, Displacing,
              Uint
<1> QED BY <1>2, <1>3, <1>5, <1>6, <1>7 DEF Next, Locked
\* Filling a slot extends the window by the new event and, when the ring is
\* full, drops the oldest one.
LEMMA FillStep ==
  ASSUME TypeOK, Control, UnreadBound, NEW t \in Thread, Fill(t)
  PROVE  /\ UnreadBound' /\ consumed' = consumed
         /\ NextSeq = seq /\ OldestSeq = readseq /\ LostCount = overwritten
         /\ UnreadCount = Unread
         /\ NextSeq' = Inc(NextSeq)
         /\ OldestSeq' = IF UnreadCount = BufSize THEN Inc(OldestSeq)
                                                  ELSE OldestSeq
         /\ LostCount' = IF UnreadCount = BufSize THEN Inc(LostCount)
                                                  ELSE LostCount
         /\ UnreadCount' = IF UnreadCount = BufSize THEN BufSize
                                                    ELSE UnreadCount + 1
<1>1. ~Advancing /\ ~Copying /\ Advancing' /\ ~Copying'
  BY HolderDecides DEF Control, Fill, Goto, TypeOK, LockProtects, Critical,
                       Advancing, Copying
<1>2. /\ seq' = seq /\ readseq' = readseq /\ overwritten' = overwritten
      /\ consumed' = consumed /\ Unread' = Unread
  BY DEF Fill, Unread
<1>3. /\ NextSeq = seq /\ OldestSeq = readseq /\ LostCount = overwritten
      /\ UnreadCount = Unread
  BY <1>1 DEF NextSeq, OldestSeq, LostCount, Displacing, UnreadCount, Unread
<1>4. /\ NextSeq' = Inc(seq)
      /\ OldestSeq' = IF Unread = BufSize THEN Inc(readseq) ELSE readseq
      /\ LostCount' = IF Unread = BufSize THEN Inc(overwritten)
                                          ELSE overwritten
  BY <1>1, <1>2 DEF NextSeq, OldestSeq, LostCount, Displacing
<1>5. Unread < SeqMod - 1
  BY WindowTypes, BufSizeAssumption, SeqModAssumption DEF UnreadBound, Uint
<1>6. UnreadCount' = IF Unread = BufSize THEN BufSize ELSE Unread + 1
  BY <1>4, <1>5, Distances DEF UnreadCount, TypeOK, Unread
<1> QED BY <1>1, <1>2, <1>3, <1>4, <1>6 DEF UnreadBound

\* Copying an event out, or failing to, drops the oldest event.
LEMMA CopyStep ==
  ASSUME TypeOK, Control, UnreadBound, NEW t \in Thread,
         CopyOut(t) \/ CopyFault(t)
  PROVE  /\ UnreadBound' /\ consumed' = Inc(consumed) /\ events' = events
         /\ NextSeq' = NextSeq /\ LostCount' = LostCount
         /\ OldestSeq' = Inc(OldestSeq)
         /\ UnreadCount \in 1..BufSize /\ UnreadCount' = UnreadCount - 1
<1>1. Copying /\ ~Advancing /\ ~Copying' /\ ~Advancing'
  BY HolderDecides DEF Control, CopyOut, CopyFault, Goto, TypeOK, LockProtects,
                       Critical, Advancing, Copying
<1>2. /\ seq' = seq /\ readseq' = readseq /\ overwritten' = overwritten
      /\ events' = events /\ consumed' = Inc(consumed) /\ Unread' = Unread
  BY DEF CopyOut, CopyFault, ring, Unread
<1>3. /\ NextSeq = seq /\ OldestSeq = Minus(readseq, 1)
      /\ LostCount = overwritten
      /\ NextSeq' = seq /\ OldestSeq' = readseq /\ LostCount' = overwritten
  BY <1>1, <1>2 DEF NextSeq, OldestSeq, LostCount, Displacing
<1>4. Minus(readseq, 1) \in Uint /\ Inc(Minus(readseq, 1)) = readseq
  BY Distances DEF TypeOK
<1>5. Unread \in Uint /\ Unread < BufSize /\ UnreadCount \in Uint
      /\ UnreadCount' = Unread
  BY <1>1, <1>3, WindowTypes DEF UnreadBound, UnreadCount, Unread
<1>6. UnreadCount = Unread + 1
  <2>1. UnreadCount = Minus(seq, Minus(readseq, 1))
    BY <1>3 DEF UnreadCount
  <2>2. CASE seq = Minus(readseq, 1)
    <3>1. Unread = SeqMod - 1
      <4>1. readseq = IF seq = SeqMod - 1 THEN 0 ELSE seq + 1
        BY <1>4, <2>2, IncCases DEF TypeOK
      <4>2. Unread = IF seq >= readseq THEN seq - readseq
                                       ELSE seq - readseq + SeqMod
        BY MinusCases DEF TypeOK, Unread
      <4> QED BY <4>1, <4>2, SeqModAssumption, BufSizeAssumption
              DEF TypeOK, Uint
    <3> QED BY <1>5, <3>1, SeqModAssumption, BufSizeAssumption
  <2>3. CASE seq # Minus(readseq, 1)
    <3>1. Minus(seq, Inc(Minus(readseq, 1))) = Minus(seq, Minus(readseq, 1)) - 1
      BY <1>4, <2>3, Distances DEF TypeOK
    <3> QED BY <1>4, <1>5, <2>1, <3>1 DEF Unread, Uint
  <2> QED BY <2>2, <2>3
<1> QED BY <1>1, <1>2, <1>3, <1>4, <1>5, <1>6, BufSizeAssumption
        DEF UnreadBound, Uint
\* What the window holds after an event is recorded: the j-th event of before, and
\* at its end the new one.
LEMMA FillMoves ==
  ASSUME TypeOK, Control, UnreadBound, NEW t \in Thread, Fill(t),
         NEW k \in 0..BufSize-1, k < UnreadCount',
         NEW j, j = IF UnreadCount = BufSize THEN k + 1 ELSE k
  PROVE  /\ j \in 0..UnreadCount
         /\ UnreadSeq(k)' = UnreadSeq(j)
         /\ j = UnreadCount =>
              /\ UnreadSeq(j) = seq
              /\ UnreadEvent(k)' = [seq |-> seq, ticks |-> ticks, payload |-> arg[t],
                                    overwritten |-> overwritten]
         /\ j < UnreadCount => UnreadEvent(k)' = UnreadEvent(j)
<1> USE FillStep
<1>1. UnreadCount' <= BufSize /\ UnreadCount \in Uint /\ UnreadCount <= BufSize
  BY WindowTypes, BufSizeAssumption DEF UnreadBound, Uint
<1>2. /\ j \in Uint /\ k \in Uint /\ k < SeqMod - 1
      /\ j <= UnreadCount
      /\ UnreadCount = Minus(seq, readseq)
  BY <1>1, BufSizeAssumption, SeqModAssumption DEF Uint, Unread
<1>3. /\ (readseq + j) % SeqMod \in Uint
      /\ Minus(seq, (readseq + j) % SeqMod) = UnreadCount - j
      /\ j = UnreadCount => (readseq + j) % SeqMod = seq
  BY <1>2, Positions DEF TypeOK
<1>4. UnreadSeq(k)' = (readseq + j) % SeqMod /\ UnreadSeq(j) = (readseq + j) % SeqMod
  <2>1. UnreadSeq(k)' = (OldestSeq' + k) % SeqMod
    BY DEF UnreadSeq
  <2>2. CASE UnreadCount = BufSize
    <3>1. k <= Minus(seq, readseq)
      BY <1>1, <1>2, <2>2, BufSizeAssumption DEF Uint
    <3>2. (Inc(readseq) + k) % SeqMod = (readseq + (k + 1)) % SeqMod
      BY <1>2, <3>1, Positions DEF TypeOK
    <3> QED BY <2>1, <2>2, <3>2 DEF UnreadSeq
  <2>3. CASE UnreadCount # BufSize
    BY <2>1, <2>3 DEF UnreadSeq
  <2> QED BY <2>2, <2>3
<1>5. UnreadEvent(k)' = events'[SlotOf((readseq + j) % SeqMod)]
  BY <1>4 DEF UnreadEvent
<1>6. /\ events' = [events EXCEPT ![SlotOf(seq)] =
                  [seq |-> seq, ticks |-> ticks, payload |-> arg[t],
                   overwritten |-> overwritten]]
      /\ SlotOf(seq) \in Slot /\ SlotOf((readseq + j) % SeqMod) \in Slot
  <2>1. SlotOf(seq) \in Slot /\ SlotOf((readseq + j) % SeqMod) \in Slot
    BY <1>3, SlotRange DEF TypeOK
  <2> QED BY <2>1 DEF Fill
<1>7. ASSUME j = UnreadCount
      PROVE  UnreadEvent(k)' = [seq |-> seq, ticks |-> ticks, payload |-> arg[t],
                                overwritten |-> overwritten]
  BY <1>3, <1>5, <1>6, <1>7 DEF TypeOK
<1>8. ASSUME j < UnreadCount PROVE UnreadEvent(k)' = UnreadEvent(j)
  <2>1. UnreadCount - j \in Int /\ 0 < UnreadCount - j /\ UnreadCount - j < BufSize
    BY <1>1, <1>2, <1>8, BufSizeAssumption DEF Uint
  <2>2. SlotOf(seq) # SlotOf((readseq + j) % SeqMod)
    BY <1>3, <2>1, SlotDistinct DEF TypeOK
  <2> QED BY <1>4, <1>5, <1>6, <2>2 DEF TypeOK, UnreadEvent
<1> QED BY <1>1, <1>2, <1>3, <1>4, <1>7, <1>8 DEF Uint

LEMMA FillKeepsRing ==
  ASSUME TypeOK, Control, UnreadBound, RingHoldsUnread, NEW t \in Thread,
         Fill(t)
  PROVE  RingHoldsUnread'
<1>1. UnreadCount' <= BufSize /\ UnreadCount \in Uint /\ UnreadCount <= BufSize
  BY FillStep, WindowTypes, BufSizeAssumption DEF UnreadBound, Uint
<1>2. SUFFICES ASSUME NEW k \in 0..BufSize-1, k < UnreadCount'
               PROVE  /\ UnreadEvent(k)'.seq = UnreadSeq(k)'
                      /\ UnreadEvent(k)'.payload \in Payload
  BY <1>1 DEF RingHoldsUnread
<1>3. PICK j : j = IF UnreadCount = BufSize THEN k + 1 ELSE k
  OBVIOUS
<1>4. /\ j \in 0..UnreadCount
      /\ UnreadSeq(k)' = UnreadSeq(j)
      /\ j = UnreadCount =>
           /\ UnreadSeq(j) = seq
           /\ UnreadEvent(k)' = [seq |-> seq, ticks |-> ticks, payload |-> arg[t],
                                 overwritten |-> overwritten]
      /\ j < UnreadCount => UnreadEvent(k)' = UnreadEvent(j)
  BY <1>2, <1>3, FillMoves
<1>5. CASE j = UnreadCount
  BY <1>4, <1>5 DEF Fill, Control, ArgInv
<1>6. CASE j < UnreadCount
  <2>1. j \in 0..BufSize-1
    BY <1>1, <1>4, <1>6, BufSizeAssumption DEF Uint
  <2> QED BY <1>4, <1>6, <2>1 DEF RingHoldsUnread
<1> QED BY <1>1, <1>4, <1>5, <1>6 DEF Uint

LEMMA CopyKeepsRing ==
  ASSUME TypeOK, Control, UnreadBound, RingHoldsUnread, NEW t \in Thread,
         CopyOut(t) \/ CopyFault(t)
  PROVE  RingHoldsUnread'
<1> USE CopyStep
<1>1. UnreadCount' <= BufSize
  BY BufSizeAssumption
<1>2. SUFFICES ASSUME NEW k \in 0..BufSize-1, k < UnreadCount'
               PROVE  /\ UnreadEvent(k)'.seq = UnreadSeq(k)'
                      /\ UnreadEvent(k)'.payload \in Payload
  BY <1>1 DEF RingHoldsUnread
<1>3. /\ k + 1 \in 0..BufSize-1 /\ k + 1 < UnreadCount
      /\ k \in Uint /\ k < SeqMod - 1 /\ k <= UnreadCount
  BY <1>2, BufSizeAssumption, SeqModAssumption DEF Uint
<1>4. UnreadSeq(k)' = UnreadSeq(k + 1)
  <2>1. /\ NextSeq \in Uint /\ OldestSeq \in Uint
        /\ k \in Uint /\ k < SeqMod - 1 /\ k <= Minus(NextSeq, OldestSeq)
    BY <1>3, WindowTypes DEF UnreadCount
  <2>2. (Inc(OldestSeq) + k) % SeqMod = (OldestSeq + (k + 1)) % SeqMod
    BY <2>1, Positions
  <2> QED BY <2>2 DEF UnreadSeq
<1>5. UnreadEvent(k)' = UnreadEvent(k + 1)
  BY <1>4 DEF UnreadEvent
<1> QED BY <1>3, <1>4, <1>5 DEF RingHoldsUnread

\* The window is what RingHoldsUnread and EveryEventAccounted are about.
LEMMA QuietKeepsRing ==
  ASSUME UNCHANGED window, RingHoldsUnread, EveryEventAccounted
  PROVE  RingHoldsUnread' /\ EveryEventAccounted'
<1>1. UnreadCount' = UnreadCount
  BY DEF window, UnreadCount
<1>2. \A k \in 0..BufSize-1 : /\ UnreadSeq(k)' = UnreadSeq(k)
                              /\ UnreadEvent(k)' = UnreadEvent(k)
  BY DEF window, UnreadSeq, UnreadEvent
<1> QED BY <1>1, <1>2 DEF window, RingHoldsUnread, EveryEventAccounted

\* Taking an event and displacing one are the two ways for the window to start
\* later, and each is counted.
LEMMA StepIsAccounted ==
  ASSUME TypeOK, Control, UnreadBound, EveryEventAccounted, NEW t \in Thread,
         Fill(t) \/ CopyOut(t) \/ CopyFault(t)
  PROVE  EveryEventAccounted'
<1>1. ASSUME NEW m \in Uint, NEW n \in Uint
      PROVE  /\ Inc((m + n) % SeqMod) = (Inc(m) + n) % SeqMod
             /\ Inc((m + n) % SeqMod) = (m + Inc(n)) % SeqMod
  <2>1. /\ Inc(m) \in Uint /\ Inc(n) \in Uint /\ SeqMod \in Nat /\ SeqMod > 1
        /\ Inc(m) = IF m = SeqMod - 1 THEN 0 ELSE m + 1
        /\ Inc(n) = IF n = SeqMod - 1 THEN 0 ELSE n + 1
    BY IncCases, SeqModAssumption, BufSizeAssumption
  <2> DEFINE p == (m + n) % SeqMod
  <2>2. p \in Uint /\ p = IF m + n < SeqMod THEN m + n ELSE m + n - SeqMod
    BY PlusCases
  <2> HIDE DEF p
  <2>3. Inc(p) = IF p = SeqMod - 1 THEN 0 ELSE p + 1
    BY <2>2, IncCases
  <2>4. /\ (Inc(m) + n) % SeqMod = IF Inc(m) + n < SeqMod THEN Inc(m) + n
                                   ELSE Inc(m) + n - SeqMod
        /\ (m + Inc(n)) % SeqMod = IF m + Inc(n) < SeqMod THEN m + Inc(n)
                                   ELSE m + Inc(n) - SeqMod
    BY <2>1, PlusCases
  <2>5. Inc(p) = (Inc(m) + n) % SeqMod /\ Inc(p) = (m + Inc(n)) % SeqMod
    BY <2>1, <2>2, <2>3, <2>4 DEF Uint
  <2> QED BY <2>5 DEF p
<1>2. consumed \in Uint /\ LostCount \in Uint
  BY WindowTypes DEF TypeOK
<1>3. CASE Fill(t)
  BY <1>1, <1>2, <1>3, FillStep DEF EveryEventAccounted
<1>4. CASE CopyOut(t) \/ CopyFault(t)
  BY <1>1, <1>2, <1>4, CopyStep DEF EveryEventAccounted
<1> QED BY <1>3, <1>4

LEMMA IInvInductive == IInv /\ [Next]_vars => IInv'
<1> SUFFICES ASSUME IInv, [Next]_vars PROVE IInv'
  OBVIOUS
<1> USE DEF IInv
<1>1. TypeOK'
  BY TypeStep
<1>2. Control /\ Control'
  BY ControlInductive DEF Control
<1>3. UnreadBound' /\ RingHoldsUnread' /\ EveryEventAccounted'
  <2>1. CASE \E t \in Thread : Fill(t)
    BY <1>2, <2>1, FillStep, FillKeepsRing, StepIsAccounted
  <2>2. CASE \E t \in Thread : CopyOut(t) \/ CopyFault(t)
    BY <1>2, <2>2, CopyStep, CopyKeepsRing, StepIsAccounted
  <2>3. CASE \A t \in Thread : ~Fill(t) /\ ~CopyOut(t) /\ ~CopyFault(t)
    BY <1>2, <2>3, QuietSteps, QuietKeepsRing
  <2> QED BY <2>1, <2>2, <2>3
<1> QED BY <1>1, <1>2, <1>3 DEF Control

LEMMA IInvInit == Init => IInv
<1> SUFFICES ASSUME Init PROVE IInv
  OBVIOUS
<1>1. TypeOK
  BY TypeInit
<1>2. Control
  BY NoValueAssumption DEF Init, Control, LockProtects, BootInv, ArgInv,
                           Critical
<1>3. /\ ~Advancing /\ ~Copying /\ seq = 0 /\ readseq = 0 /\ overwritten = 0
      /\ consumed = 0
  BY DEF Init, Advancing, Copying
<1>4. NextSeq = 0 /\ OldestSeq = 0 /\ LostCount = 0
  BY <1>3 DEF NextSeq, OldestSeq, LostCount, Displacing
<1>5. Unread = 0 /\ UnreadCount = 0 /\ (0 + 0) % SeqMod = 0
  BY <1>3, <1>4, ConstantTypes, MinusCases, PlusCases, SeqModAssumption
     DEF Unread, UnreadCount
<1> QED BY <1>1, <1>2, <1>3, <1>4, <1>5, BufSizeAssumption
        DEF IInv, Control, UnreadBound, RingHoldsUnread, EveryEventAccounted

\* For every ring size and counter width, the invariant holds in every state
\* that ktrace.c can reach.
THEOREM Inductive == Spec => []IInv
  BY IInvInit, IInvInductive, PTL DEF Spec

\* For every ring size and counter width: the reader's window of the ring holds
\* exactly the events it should, across overwriting and wrap-around.
THEOREM RingCorrect == Spec => []RingHoldsUnread
<1>1. IInv => RingHoldsUnread
  BY DEF IInv
<1> QED BY <1>1, Inductive, PTL

\* For every ring size and counter width: no event is lost without being
\* counted in overwritten or handed to a traceread call.
THEOREM AccountingCorrect == Spec => []EveryEventAccounted
<1>1. IInv => EveryEventAccounted
  BY DEF IInv
<1> QED BY <1>1, Inductive, PTL
-----------------------------------------------------------------------------
(* The ring implements the lossy queue of TraceQueue: the initial state    *)
(* maps to an initial state, and every step to a step or to none.          *)

\* What the simulation needs beyond IInv: no event is younger than the clock,
\* and the event in traceread's hands is the oldest unread one.
ClockInv == \A i \in Slot : events[i].ticks <= ticks
HandInv == \A t \in Thread : pc[t] = "copyout" => event[t] = UnreadEvent(0)
SimInv == IInv /\ ClockInv /\ HandInv

\* The first position of the window.
LEMMA ZeroOff ==
  ASSUME NEW a \in Uint
  PROVE  (a + 0) % SeqMod = a
  BY SeqModAssumption, BufSizeAssumption DEF Uint

\* The steps that move no event, for which QuietSteps is.
Quiet == [Next]_vars /\ \A t \in Thread : ~Fill(t) /\ ~CopyOut(t) /\ ~CopyFault(t)

LEMMA QuietWindow ==
  ASSUME IInv, Quiet
  PROVE  UNCHANGED window /\ (\A k : UnreadEvent(k)' = UnreadEvent(k))
         /\ UnreadCount' = UnreadCount /\ UnreadQueue' = UnreadQueue
<1>1. UNCHANGED window
  BY QuietSteps DEF IInv, Control, Quiet
<1>2. UnreadCount' = UnreadCount /\ (\A k : UnreadEvent(k)' = UnreadEvent(k))
  BY <1>1 DEF window, UnreadCount, UnreadEvent, UnreadSeq
<1> QED BY <1>1, <1>2 DEF UnreadQueue

\* The clock only goes forward, and Fill stamps an event with it.
LEMMA ClockStep ==
  ASSUME IInv, ClockInv, [Next]_vars
  PROVE  ClockInv'
<1> USE DEF ClockInv
<1>1. events \in [Slot -> Event] /\ ticks \in Nat
      /\ (\A i \in Slot : events[i].ticks \in Nat)
  BY BoundAssumption DEF IInv, TypeOK, Event
<1>2. ASSUME NEW t \in Thread, Fill(t) PROVE ClockInv'
  <2>1. \A i \in Slot : events'[i] = events[i] \/ events'[i].ticks = ticks
    BY <1>1, <1>2 DEF Fill
  <2> QED BY <1>1, <1>2, <2>1 DEF Fill
<1>3. CASE Tick
  BY <1>1, <1>3 DEF Tick, ring
<1>4. CASE UNCHANGED <<events, ticks>>
  BY <1>4
<1>5. (\E t \in Thread : Fill(t)) \/ Tick \/ UNCHANGED <<events, ticks>>
  BY DEF Next, Locked, traceinit, CallEvent, CallRead, Acquire, Advance, Take,
         LoopDone, CopyOut, CopyFault, Release, vars, ring, call
<1> QED BY <1>2, <1>3, <1>4, <1>5

\* Take copies the oldest event; nobody else moves the window while it is held.
LEMMA HandStep ==
  ASSUME IInv, HandInv, [Next]_vars
  PROVE  HandInv'
<1>1. TypeOK /\ LockProtects /\ Control
  BY DEF IInv, Control
<1>2. ASSUME NEW t \in Thread, Fill(t) \/ CopyOut(t) \/ CopyFault(t)
      PROVE  HandInv'
  <2>1. lock = t /\ pc[t] \in Critical /\ pc'[t] # "copyout"
        /\ (\A u \in Thread \ {t} : pc'[u] = pc[u])
    BY <1>1, <1>2 DEF TypeOK, LockProtects, Critical, Fill, CopyOut, CopyFault, Goto
  <2>2. \A u \in Thread : pc'[u] # "copyout"
    BY <1>1, <2>1 DEF LockProtects, Critical
  <2> QED BY <2>2 DEF HandInv
<1>3. ASSUME Quiet PROVE HandInv'
  <2>1. UnreadEvent(0)' = UnreadEvent(0)
    BY <1>3, QuietWindow
  <2>2. ASSUME NEW t \in Thread, Take(t) PROVE HandInv'
    <3>1. event'[t] = events[SlotOf(readseq)] /\ OldestSeq = readseq
          /\ (\A u \in Thread \ {t} : pc'[u] # "copyout")
      BY <1>1, <2>2, HolderDecides
         DEF TypeOK, Take, Goto, OldestSeq, Displacing, LockProtects, Critical
    <3>2. UnreadEvent(0) = events[SlotOf(readseq)]
      <4>1. readseq \in Uint
        BY <1>1 DEF TypeOK
      <4> QED BY <3>1, <4>1, ZeroOff DEF UnreadEvent, UnreadSeq
    <3> QED BY <2>1, <3>1, <3>2 DEF HandInv
  <2>3. ASSUME \A t \in Thread : ~Take(t)
        PROVE  /\ event' = event
               /\ \A u \in Thread : pc'[u] = "copyout" => pc[u] = "copyout"
    BY <1>1, <1>3, <2>3
       DEF Quiet, Next, Locked, traceinit, Tick, CallEvent, CallRead, Acquire, Advance,
           LoopDone, Release, vars, ring, call, Goto, TypeOK
  <2> QED BY <2>1, <2>2, <2>3 DEF HandInv
<1> QED BY <1>2, <1>3 DEF Quiet

LEMMA SimInductive == Spec => []SimInv
<1>1. Init => ClockInv /\ HandInv
  BY BoundAssumption DEF Init, ClockInv, HandInv, ZeroEvent
<1>2. IInv /\ ClockInv /\ HandInv /\ [Next]_vars => (ClockInv /\ HandInv)'
  BY ClockStep, HandStep
<1>3. IInv /\ ClockInv /\ HandInv => SimInv
  BY DEF SimInv
<1> QED BY <1>1, <1>2, <1>3, Inductive, PTL DEF Spec
-----------------------------------------------------------------------------
(* The queue that the ring stands for.                                     *)

LEMMA UnreadIsEvent ==
  ASSUME TypeOK
  PROVE  \A k \in Int : UnreadEvent(k) \in Event /\ SlotOf(UnreadSeq(k)) \in Slot
<1> SUFFICES ASSUME NEW k \in Int
             PROVE  UnreadEvent(k) \in Event /\ SlotOf(UnreadSeq(k)) \in Slot
  OBVIOUS
<1>1. OldestSeq \in Int /\ SeqMod \in Nat \ {0}
  BY WindowTypes, SeqModAssumption, BufSizeAssumption DEF Uint
<1>2. UnreadSeq(k) \in Uint
  BY <1>1 DEF UnreadSeq, Uint
<1>3. SlotOf(UnreadSeq(k)) \in Slot
  BY <1>2, SlotRange
<1> QED BY <1>3 DEF UnreadEvent, TypeOK

\* It is a sequence of as many events as there are between the two counters.
Shape ==
  /\ UnreadCount \in Nat /\ UnreadCount <= BufSize
  /\ UnreadQueue \in Seq(Event) /\ Len(UnreadQueue) = UnreadCount
  /\ \A k \in 1..UnreadCount : UnreadQueue[k] = UnreadEvent(k-1)

LEMMA QueueShape == IInv => Shape
<1> SUFFICES ASSUME IInv PROVE Shape
  OBVIOUS
<1>1. TypeOK
  BY DEF IInv
<1>2. UnreadCount \in Nat /\ UnreadCount <= BufSize
  BY <1>1, WindowTypes DEF IInv, RingHoldsUnread, Uint
<1>3. \A k \in Int : UnreadEvent(k) \in Event
  BY <1>1, UnreadIsEvent
<1>4. UnreadQueue \in [1..UnreadCount -> Event]
  BY <1>2, <1>3 DEF UnreadQueue
<1>5. UnreadQueue \in Seq(Event)
  BY <1>2, <1>4, SeqDef
<1>6. Len(UnreadQueue) = UnreadCount
  BY <1>2, <1>4, <1>5
<1> QED BY <1>2, <1>5, <1>6 DEF UnreadQueue, Shape

\* When the oldest event is taken, each of the others moves up by one.
LEMMA CopyMoves ==
  ASSUME TypeOK, Control, UnreadBound, NEW t \in Thread, CopyOut(t) \/ CopyFault(t)
  PROVE  \A k \in 1..UnreadCount' : UnreadEvent(k-1)' = UnreadEvent(k)
<1> SUFFICES ASSUME NEW k \in 1..UnreadCount' PROVE UnreadEvent(k-1)' = UnreadEvent(k)
  OBVIOUS
<1>1. /\ events' = events /\ OldestSeq' = Inc(OldestSeq)
      /\ UnreadCount \in 1..BufSize /\ UnreadCount' = UnreadCount - 1
  BY CopyStep
<1>2. /\ NextSeq \in Uint /\ OldestSeq \in Uint /\ UnreadCount \in Uint
  BY WindowTypes
<1>3. /\ k - 1 \in Uint /\ k - 1 < SeqMod - 1 /\ k - 1 <= Minus(NextSeq, OldestSeq)
      /\ (k - 1) + 1 = k
  BY <1>1, <1>2, BufSizeAssumption, SeqModAssumption DEF Uint, UnreadCount
<1>4. (Inc(OldestSeq) + (k - 1)) % SeqMod = (OldestSeq + k) % SeqMod
  BY <1>2, <1>3, Positions
<1> QED BY <1>1, <1>4 DEF UnreadEvent, UnreadSeq

\* Taking the oldest event leaves the tail of the queue.
LEMMA CopyTakesHead ==
  ASSUME SimInv, NEW t \in Thread, CopyOut(t) \/ CopyFault(t), IInv'
  PROVE  /\ UnreadQueue # <<>> /\ UnreadQueue' = Tail(UnreadQueue)
         /\ event[t] = Head(UnreadQueue)
<1>1. TypeOK /\ Control /\ UnreadBound
  BY DEF SimInv, IInv, Control
<1>2. /\ events' = events /\ NextSeq' = NextSeq /\ OldestSeq' = Inc(OldestSeq)
      /\ UnreadCount \in 1..BufSize /\ UnreadCount' = UnreadCount - 1
  BY <1>1, CopyStep
<1>3. /\ UnreadQueue \in Seq(Event) /\ Len(UnreadQueue) = UnreadCount
      /\ \A k \in 1..UnreadCount : UnreadQueue[k] = UnreadEvent(k-1)
  BY QueueShape DEF SimInv, Shape
<1>4. /\ UnreadQueue' \in Seq(Event) /\ Len(UnreadQueue') = UnreadCount'
      /\ \A k \in 1..UnreadCount' : UnreadQueue'[k] = UnreadEvent(k-1)'
  <2>1. IInv' => Shape'
    BY QueueShape, PTL
  <2> QED BY <2>1 DEF Shape
<1>5. \A k \in 1..UnreadCount' : UnreadEvent(k-1)' = UnreadEvent(k)
  BY <1>1, CopyMoves
<1>6. UnreadQueue # <<>>
  BY <1>2, <1>3
<1>7. /\ Tail(UnreadQueue) \in Seq(Event) /\ Len(Tail(UnreadQueue)) = UnreadCount'
      /\ \A k \in 1..UnreadCount' : Tail(UnreadQueue)[k] = UnreadQueue[k+1]
  BY <1>2, <1>3, <1>6, HeadTailProperties
<1>8. \A k \in 1..UnreadCount' : UnreadQueue'[k] = Tail(UnreadQueue)[k]
  BY <1>2, <1>3, <1>4, <1>5, <1>7, BufSizeAssumption
<1>9. UnreadQueue' = Tail(UnreadQueue)
  BY <1>4, <1>7, <1>8, SeqEqual
<1>10. pc[t] = "copyout"
  BY DEF CopyOut, CopyFault
<1>11. Head(UnreadQueue) = UnreadEvent(0)
  BY <1>2, <1>3
<1> QED BY <1>6, <1>9, <1>10, <1>11 DEF SimInv, HandInv

\* Filling a slot appends the event that TraceQueue describes, to what is left
\* of a full queue without its oldest one.
LEMMA FillAppends ==
  ASSUME SimInv, NEW t \in Thread, Fill(t), IInv', NEW e,
         e = [seq |-> NextSeq, ticks |-> ticks, payload |-> arg[t],
              overwritten |-> LostCount]
  PROVE  UnreadQueue' = IF Len(UnreadQueue) = BufSize
                        THEN Append(Tail(UnreadQueue), e)
                        ELSE Append(UnreadQueue, e)
<1>1. TypeOK /\ Control /\ UnreadBound
  BY DEF SimInv, IInv, Control
<1>2. /\ NextSeq = seq /\ LostCount = overwritten
      /\ UnreadCount' = IF UnreadCount = BufSize THEN BufSize ELSE UnreadCount + 1
  BY <1>1, FillStep
<1>3. /\ UnreadCount \in Nat /\ UnreadCount <= BufSize
      /\ UnreadQueue \in Seq(Event) /\ Len(UnreadQueue) = UnreadCount
      /\ \A k \in 1..UnreadCount : UnreadQueue[k] = UnreadEvent(k-1)
  BY QueueShape DEF SimInv, Shape
<1>4. /\ UnreadQueue' \in Seq(Event) /\ Len(UnreadQueue') = UnreadCount'
      /\ \A k \in 1..UnreadCount' : UnreadQueue'[k] = UnreadEvent(k-1)'
  <2>1. IInv' => Shape'
    BY QueueShape, PTL
  <2> QED BY <2>1 DEF Shape
<1>5. e \in Event
  BY <1>1, <1>2 DEF TypeOK, Event
\* The queue without what is displaced.
<1> DEFINE kept == IF UnreadCount = BufSize THEN Tail(UnreadQueue) ELSE UnreadQueue
           shift == IF UnreadCount = BufSize THEN 1 ELSE 0
<1>6. /\ kept \in Seq(Event) /\ Len(kept) = UnreadCount - shift
      /\ \A k \in 1..UnreadCount - shift : kept[k] = UnreadQueue[k + shift]
  <2>1. CASE UnreadCount = BufSize
    <3>1. UnreadQueue # <<>>
      BY <1>3, <2>1, BufSizeAssumption
    <3> QED BY <1>3, <2>1, <3>1, HeadTailProperties
  <2>2. CASE UnreadCount # BufSize
    BY <1>3, <2>2
  <2> QED BY <2>1, <2>2
<1>7. shift \in {0, 1} /\ UnreadCount' = UnreadCount - shift + 1 /\ UnreadCount' \in 1..BufSize
  BY <1>2, <1>3, BufSizeAssumption
<1>8. /\ Append(kept, e) \in Seq(Event) /\ Len(Append(kept, e)) = UnreadCount'
      /\ \A k \in 1..UnreadCount' : Append(kept, e)[k] = IF k = UnreadCount' THEN e ELSE kept[k]
  BY <1>3, <1>5, <1>6, <1>7
<1>9. ASSUME NEW k \in 1..UnreadCount' PROVE UnreadQueue'[k] = Append(kept, e)[k]
  <2>1. /\ k - 1 \in 0..BufSize-1 /\ k - 1 < UnreadCount'
        /\ k - 1 + shift = IF UnreadCount = BufSize THEN (k - 1) + 1 ELSE k - 1
    BY <1>7, BufSizeAssumption
  <2>2. PICK j : j = k - 1 + shift
    OBVIOUS
  <2>3. /\ j = UnreadCount => UnreadEvent(k-1)' = e
        /\ j < UnreadCount => UnreadEvent(k-1)' = UnreadEvent(j)
    BY <1>1, <1>2, <2>1, <2>2, FillMoves
  <2>4. CASE k = UnreadCount'
    BY <1>3, <1>4, <1>7, <1>8, <2>2, <2>3, <2>4
  <2>5. CASE k # UnreadCount'
    <3>1. j < UnreadCount /\ k \in 1..UnreadCount - shift /\ k + shift \in 1..UnreadCount
          /\ j = (k + shift) - 1
      BY <1>3, <1>7, <2>2, <2>5, BufSizeAssumption
    <3>2. kept[k] = UnreadEvent(j)
      BY <1>3, <1>6, <3>1
    <3> QED BY <1>4, <1>8, <2>3, <2>5, <3>1, <3>2
  <2> QED BY <2>4, <2>5
<1> HIDE DEF kept
<1>10. UnreadQueue' = Append(kept, e)
  BY <1>4, <1>8, <1>9, SeqEqual
<1> QED BY <1>3, <1>10 DEF kept
-----------------------------------------------------------------------------
(* The simulation.                                                         *)

\* The time of the latest event, as the refinement mapping has it.
Stamp == events[SlotOf(NextSeq + SeqMod - 1)].ticks

LEMMA StampNotLater ==
  ASSUME SimInv
  PROVE  Stamp \in Nat /\ Stamp <= ticks /\ ticks \in 0..MaxTicks
<1>1. NextSeq \in Uint /\ TypeOK
  BY WindowTypes DEF SimInv, IInv
<1>2. SlotOf(NextSeq + SeqMod - 1) \in Slot
  BY <1>1, SeqModAssumption, BufSizeAssumption DEF SlotOf, Slot, Uint
<1> QED BY <1>1, <1>2, BoundAssumption DEF SimInv, ClockInv, Stamp, TypeOK, Event

\* Recording an event makes its time the latest.
LEMMA FillStamps ==
  ASSUME SimInv, NEW t \in Thread, Fill(t)
  PROVE  Stamp' = ticks
<1>1. TypeOK /\ Control /\ UnreadBound
  BY DEF SimInv, IInv, Control
<1>2. NextSeq = seq /\ NextSeq' = Inc(NextSeq) /\ seq \in Uint
  BY <1>1, FillStep DEF TypeOK
<1>3. SlotOf(Inc(seq) + SeqMod - 1) = SlotOf(seq)
  <2>1. Inc(seq) = IF seq = SeqMod - 1 THEN 0 ELSE seq + 1
    BY <1>2, IncCases
  <2>2. seq \in Int /\ SeqMod \in Int
    BY <1>2, SeqModAssumption DEF Uint
  <2>3. Inc(seq) + SeqMod - 1 = seq \/ Inc(seq) + SeqMod - 1 = seq + SeqMod
    BY <2>1, <2>2
  <2> QED BY <2>2, <2>3, ModShift DEF SlotOf
<1>4. SlotOf(seq) \in Slot
  BY <1>2, SlotRange
<1> QED BY <1>1, <1>2, <1>3, <1>4 DEF Stamp, Fill, TypeOK

LEMMA EmptyAtFirst ==
  ASSUME Init
  PROVE  NextSeq = 0 /\ LostCount = 0 /\ UnreadCount = 0
<1>1. ~Advancing /\ ~Copying /\ seq = 0 /\ readseq = 0 /\ overwritten = 0
  BY DEF Init, Advancing, Copying
<1>2. NextSeq = 0 /\ OldestSeq = 0 /\ LostCount = 0
  BY <1>1 DEF NextSeq, OldestSeq, LostCount, Displacing
<1> QED BY <1>2, ConstantTypes, MinusCases DEF UnreadCount

LEMMA InitSimulates == Init => Abstract!Init
<1> SUFFICES ASSUME Init PROVE Abstract!Init
  OBVIOUS
<1>1. NextSeq = 0 /\ LostCount = 0 /\ UnreadCount = 0
  BY EmptyAtFirst
<1>2. UnreadQueue = <<>>
  BY <1>1 DEF UnreadQueue
<1>3. SlotOf(0 + SeqMod - 1) \in Slot
  BY SeqModAssumption, BufSizeAssumption DEF SlotOf, Slot
<1>4. events[SlotOf(NextSeq + SeqMod - 1)].ticks = 0
  BY <1>1, <1>3 DEF Init, ZeroEvent
<1> QED BY <1>1, <1>2, <1>4 DEF Init, Abstract!Init

\* Fill records, CopyOut delivers, CopyFault loses the event in hand, Release ends
\* the call; nothing else is seen from outside the lock.
LEMMA StepSimulates ==
  ASSUME SimInv, IInv', [Next]_vars
  PROVE  [Abstract!Next]_(Abstract!vars)
<1>1. TypeOK /\ Control /\ UnreadBound /\ IInv
  BY DEF SimInv, IInv, Control
<1>2. ASSUME NEW t \in Thread, Fill(t) PROVE Abstract!Next
  <2>1. PICK e : e = [seq |-> NextSeq, ticks |-> ticks, payload |-> arg[t],
                      overwritten |-> LostCount]
    OBVIOUS
  <2>2. UnreadQueue' = IF Len(UnreadQueue) = BufSize
                       THEN Append(Tail(UnreadQueue), e) ELSE Append(UnreadQueue, e)
    BY <1>2, <2>1, FillAppends
  <2>3. Len(UnreadQueue) = UnreadCount
    BY <1>1, QueueShape DEF Shape
  <2>4. /\ NextSeq' = (NextSeq + 1) % SeqMod
        /\ LostCount' = IF Len(UnreadQueue) = BufSize THEN (LostCount + 1) % SeqMod
                                                      ELSE LostCount
    BY <1>1, <1>2, <2>3, FillStep DEF Inc
  <2>5. ticks \in Stamp..MaxTicks /\ Stamp' = ticks
    BY <1>2, StampNotLater, FillStamps
  <2>6. dst' = dst /\ arg[t] \in Payload
    BY <1>1, <1>2 DEF Fill, call, Control, ArgInv
  <2>7. Abstract!Record(arg[t])
    BY <2>1, <2>2, <2>4, <2>5, <2>6 DEF Abstract!Record, Abstract!NewEvent, Stamp
  <2> QED BY <2>6, <2>7 DEF Abstract!Next
<1>3. ASSUME NEW t \in Thread, CopyOut(t) \/ CopyFault(t) PROVE Abstract!Next
  <2>1. /\ UnreadQueue # <<>> /\ UnreadQueue' = Tail(UnreadQueue)
        /\ event[t] = Head(UnreadQueue)
    BY <1>3, CopyTakesHead
  <2>2. NextSeq' = NextSeq /\ LostCount' = LostCount /\ Stamp' = Stamp
    BY <1>1, <1>3, CopyStep DEF Stamp
  <2>3. CASE CopyOut(t)
    <3>1. dst' = [dst EXCEPT ![t] = Append(@, Head(UnreadQueue))]
      BY <2>1, <2>3 DEF CopyOut
    <3>2. Abstract!Deliver(t)
      BY <2>1, <2>2, <3>1 DEF Abstract!Deliver, Stamp
    <3> QED BY <3>2 DEF Abstract!Next
  <2>4. CASE CopyFault(t)
    <3>1. Abstract!Fault(t)
      BY <2>1, <2>2, <2>4 DEF CopyFault, Abstract!Fault, Stamp
    <3> QED BY <3>1 DEF Abstract!Next
  <2> QED BY <1>3, <2>3, <2>4
<1>4. ASSUME Quiet PROVE Abstract!Next \/ UNCHANGED Abstract!vars
  <2>1. UnreadQueue' = UnreadQueue /\ NextSeq' = NextSeq /\ LostCount' = LostCount
        /\ Stamp' = Stamp
    BY <1>1, <1>4, QuietWindow DEF window, Stamp
  <2>2. ASSUME NEW t \in Thread, Release(t) PROVE Abstract!Next
    <3>1. dst' = [dst EXCEPT ![t] = <<>>]
      BY <2>2 DEF Release
    <3>2. Abstract!EndRead(t)
      BY <2>1, <3>1 DEF Abstract!EndRead, Stamp
    <3> QED BY <3>2 DEF Abstract!Next
  <2>3. ASSUME \A t \in Thread : ~Release(t) PROVE dst' = dst
    BY <1>4, <2>3
       DEF Quiet, Next, Locked, traceinit, Tick, CallEvent, CallRead, Acquire, Advance,
           Take, LoopDone, vars, ring, call
  <2> QED BY <2>1, <2>2, <2>3 DEF Abstract!vars, Stamp
<1> QED BY <1>2, <1>3, <1>4 DEF Quiet

\* For every ring size, counter width and set of threads: seen from outside its
\* lock, the ring with its wrapping counters is the queue of the most recent unread
\* events that TraceQueue describes.
THEOREM RingIsTraceQueue == Spec => ImplementsTraceQueue
<1>1. SimInv => IInv
  BY DEF SimInv
<1>2. SimInv /\ IInv' /\ [Next]_vars => [Abstract!Next]_(Abstract!vars)
  BY StepSimulates
<1> QED BY <1>1, <1>2, InitSimulates, SimInductive, PTL
        DEF Spec, ImplementsTraceQueue, Abstract!Spec
-----------------------------------------------------------------------------
(* The order of events.                                                    *)

\* EventsInOrder is about events that were copied out and events that are unread;
\* what joins the two is that the last one copied out comes just before the first
\* unread one, as long as the call goes on.
LastOut(t) == dst[t][Len(dst[t])]
OutInv ==
  \A t \in Thread : dst[t] # <<>> =>
    /\ pc[t] \in {"loop", "copyout", "release"}
    /\ pc[t] \in {"loop", "copyout"} =>
         /\ Inc(LastOut(t).seq) = OldestSeq
         /\ UnreadCount > 0 => LastOut(t).ticks <= UnreadEvent(0).ticks
OrderInv == EventsInOrder /\ OutInv

\* Only a thread inside the lock has copied something out.
LEMMA OthersOut ==
  ASSUME IInv, OutInv, NEW t \in Thread, pc[t] \in Critical
  PROVE  /\ \A u \in Thread \ {t} : dst[u] = <<>>
         /\ pc[t] \in {"fill", "advance"} => dst[t] = <<>>
  BY DEF IInv, OutInv, LockProtects, Critical

LEMMA QuietOrder ==
  ASSUME IInv, OrderInv, Quiet
  PROVE  OrderInv'
<1>1. /\ \A k : UnreadEvent(k)' = UnreadEvent(k)
      /\ UnreadCount' = UnreadCount /\ OldestSeq' = OldestSeq
  BY QuietWindow DEF window
<1>2. \A u \in Thread :
        \/ dst'[u] = <<>>
        \/ /\ dst'[u] = dst[u]
           /\ \/ pc'[u] = pc[u] \/ pc'[u] = "release"
              \/ pc[u] = "loop" /\ pc'[u] = "copyout"
              \/ pc[u] \notin {"loop", "copyout", "release"}
  BY DEF IInv, TypeOK, Quiet, Next, Locked, traceinit, Tick, CallEvent, CallRead, Acquire,
         Advance, Take, LoopDone, Release, vars, ring, call, Goto
<1>3. EventsInOrder'
  <2>1. \A u \in Thread : dst'[u] = <<>> \/ dst'[u] = dst[u]
    BY <1>2
  <2>2. \A u \in Thread : \A i \in 1..Len(dst'[u])-1 :
          /\ dst'[u][i+1].seq = Inc(dst'[u][i].seq)
          /\ dst'[u][i].ticks <= dst'[u][i+1].ticks
    BY <2>1 DEF OrderInv, EventsInOrder
  <2> QED BY <1>1, <2>2 DEF OrderInv, EventsInOrder, Inc
<1>4. OutInv'
  BY <1>1, <1>2 DEF OrderInv, OutInv, LastOut, Inc
<1> QED BY <1>3, <1>4 DEF OrderInv

\* A new event is not older than any other, because the clock is read in the lock.
LEMMA FillOrder ==
  ASSUME SimInv, OrderInv, NEW t \in Thread, Fill(t)
  PROVE  OrderInv'
<1>1. TypeOK /\ Control /\ UnreadBound /\ IInv /\ UnreadCount \in Nat /\ UnreadCount <= BufSize
  BY QueueShape DEF SimInv, IInv, Control, Shape
<1>2. dst' = dst /\ (\A u \in Thread : dst[u] = <<>>)
  BY <1>1, OthersOut DEF OrderInv, Fill, call, Critical
<1>3. OutInv'
  BY <1>2 DEF OutInv
<1>4. UnreadCount' = IF UnreadCount = BufSize THEN BufSize ELSE UnreadCount + 1
  BY <1>1, FillStep
<1>5. ASSUME NEW k \in 1..BufSize-1, k < UnreadCount'
      PROVE  UnreadEvent(k-1)'.ticks <= UnreadEvent(k)'.ticks
  <2>1. PICK j : j = IF UnreadCount = BufSize THEN k + 1 ELSE k
    OBVIOUS
  <2>2. PICK i : i = IF UnreadCount = BufSize THEN (k - 1) + 1 ELSE k - 1
    OBVIOUS
  <2>3. /\ k - 1 \in 0..BufSize-1 /\ k - 1 < UnreadCount' /\ k \in 0..BufSize-1
        /\ i = j - 1 /\ i \in Nat /\ j \in Nat /\ j > 0
    BY <1>1, <1>4, <1>5, <2>1, <2>2, BufSizeAssumption
  <2>4. /\ j \in 0..UnreadCount
        /\ j = UnreadCount => UnreadEvent(k)'.ticks = ticks
        /\ j < UnreadCount => UnreadEvent(k)' = UnreadEvent(j)
    BY <1>1, <1>5, <2>1, <2>3, FillMoves
  <2>5. i < UnreadCount => UnreadEvent(k-1)' = UnreadEvent(i)
    BY <1>1, <2>2, <2>3, FillMoves
  <2>6. UnreadEvent(k-1)' = UnreadEvent(j-1)
    BY <1>1, <2>3, <2>4, <2>5
  <2>7. CASE j = UnreadCount
    <3>1. UnreadEvent(j-1).ticks <= ticks
      BY <1>1, <2>3, UnreadIsEvent DEF SimInv, ClockInv, UnreadEvent
    <3> QED BY <2>4, <2>6, <2>7, <3>1
  <2>8. CASE j < UnreadCount
    <3>1. j \in 1..BufSize-1
      BY <1>1, <2>3, <2>8, BufSizeAssumption
    <3>2. UnreadEvent(j-1).ticks <= UnreadEvent(j).ticks
      BY <2>8, <3>1 DEF OrderInv, EventsInOrder
    <3> QED BY <2>4, <2>6, <2>8, <3>2
  <2> QED BY <1>1, <2>4, <2>7, <2>8
<1>6. EventsInOrder'
  BY <1>2, <1>5 DEF EventsInOrder
<1> QED BY <1>3, <1>6 DEF OrderInv

\* The event that is copied out follows the one before it, and the next unread one
\* follows it; a failed copy ends the call.
LEMMA CopyOrder ==
  ASSUME SimInv, OrderInv, NEW t \in Thread, CopyOut(t) \/ CopyFault(t)
  PROVE  OrderInv'
<1>1. TypeOK /\ Control /\ UnreadBound /\ IInv /\ pc[t] = "copyout" /\ pc[t] \in Critical
  BY DEF SimInv, IInv, Control, CopyOut, CopyFault, Critical
<1>2. /\ OldestSeq' = Inc(OldestSeq) /\ UnreadCount \in 1..BufSize
      /\ UnreadCount' = UnreadCount - 1
      /\ \A k \in 1..UnreadCount' : UnreadEvent(k-1)' = UnreadEvent(k)
  BY <1>1, CopyStep, CopyMoves
<1>3. \A u \in Thread \ {t} : dst[u] = <<>>
  BY <1>1, OthersOut DEF OrderInv
<1>4. ASSUME NEW k \in 1..BufSize-1, k < UnreadCount'
      PROVE  UnreadEvent(k-1)'.ticks <= UnreadEvent(k)'.ticks
  <2>1. /\ k \in 1..UnreadCount' /\ k+1 \in 1..UnreadCount' /\ k+1 \in 1..BufSize-1
        /\ k+1 < UnreadCount /\ (k+1)-1 = k
    BY <1>2, <1>4, BufSizeAssumption
  <2>2. UnreadEvent(k-1)' = UnreadEvent(k) /\ UnreadEvent(k)' = UnreadEvent(k+1)
    BY <1>2, <2>1
  <2>3. UnreadEvent(k).ticks <= UnreadEvent(k+1).ticks
    BY <2>1 DEF OrderInv, EventsInOrder
  <2> QED BY <2>2, <2>3
<1>5. /\ event[t] = UnreadEvent(0) /\ event[t].seq = OldestSeq
      /\ UnreadCount' > 0 => event[t].ticks <= UnreadEvent(0)'.ticks
  <2>1. event[t] = UnreadEvent(0)
    BY <1>1 DEF SimInv, HandInv
  <2>2. UnreadSeq(0) = OldestSeq
    BY <1>1, WindowTypes, ZeroOff DEF UnreadSeq
  <2>3. UnreadEvent(0).seq = UnreadSeq(0)
    BY <1>1, <1>2, BufSizeAssumption DEF IInv, RingHoldsUnread
  <2>4. ASSUME UnreadCount' > 0 PROVE UnreadEvent(0).ticks <= UnreadEvent(0)'.ticks
    <3>1. 1 \in 1..UnreadCount' /\ 1 \in 1..BufSize-1 /\ 1 < UnreadCount /\ 1-1 = 0
      BY <1>2, <2>4, BufSizeAssumption
    <3>2. UnreadEvent(0)' = UnreadEvent(1)
      BY <1>2, <3>1
    <3> QED BY <3>1, <3>2 DEF OrderInv, EventsInOrder
  <2> QED BY <2>1, <2>2, <2>3, <2>4
<1>6. dst[t] \in Seq(Event) /\ event[t] \in Event /\ dst \in [Thread -> Seq(Event)]
      /\ pc \in [Thread -> Label]
  BY <1>1 DEF TypeOK
<1>7. CASE CopyFault(t)
  <2>1. dst' = dst /\ pc'[t] = "release"
    BY <1>6, <1>7 DEF CopyFault, Goto
  <2>2. OutInv'
    BY <1>3, <2>1 DEF OutInv
  <2>3. EventsInOrder'
    BY <1>4, <2>1 DEF OrderInv, EventsInOrder
  <2> QED BY <2>2, <2>3 DEF OrderInv
<1>8. CASE CopyOut(t)
  <2> DEFINE out == Append(dst[t], event[t])
  <2>1. dst' = [dst EXCEPT ![t] = out] /\ pc'[t] = "loop"
    BY <1>6, <1>8 DEF CopyOut, Goto
  <2>2. /\ dst'[t] = out /\ (\A u \in Thread \ {t} : dst'[u] = <<>>)
        /\ Len(out) = Len(dst[t]) + 1 /\ Len(dst[t]) \in Nat
        /\ out[Len(out)] = event[t]
        /\ \A i \in 1..Len(dst[t]) : out[i] = dst[t][i]
    BY <1>3, <1>6, <2>1
  <2>3. dst[t] # <<>> => /\ Inc(LastOut(t).seq) = OldestSeq
                        /\ LastOut(t).ticks <= UnreadEvent(0).ticks
    BY <1>1, <1>2, BufSizeAssumption DEF OrderInv, OutInv
  <2>4. OutInv'
    BY <1>2, <1>5, <2>1, <2>2 DEF OutInv, LastOut, Inc
  <2>5. ASSUME NEW i \in 1..Len(out)-1
        PROVE  out[i+1].seq = Inc(out[i].seq) /\ out[i].ticks <= out[i+1].ticks
    <3>1. CASE i < Len(dst[t])
      <4>1. i \in 1..Len(dst[t])-1 /\ i+1 \in 1..Len(dst[t]) /\ i \in 1..Len(dst[t])
        BY <2>2, <3>1
      <4> QED BY <2>2, <4>1 DEF OrderInv, EventsInOrder
    <3>2. CASE i = Len(dst[t])
      <4>1. dst[t] # <<>> /\ i \in 1..Len(dst[t]) /\ i+1 = Len(out)
        BY <1>6, <2>2, <3>2
      <4>2. out[i] = LastOut(t) /\ out[i+1] = event[t]
        BY <2>2, <3>2, <4>1 DEF LastOut
      <4> QED BY <1>5, <2>3, <4>1, <4>2
    <3> QED BY <2>2, <3>1, <3>2
  <2> HIDE DEF out
  <2>6. \A u \in Thread : \A i \in 1..Len(dst'[u])-1 :
          /\ dst'[u][i+1].seq = Inc(dst'[u][i].seq)
          /\ dst'[u][i].ticks <= dst'[u][i+1].ticks
    BY <2>2, <2>5
  <2>7. EventsInOrder'
    BY <1>4, <2>6 DEF EventsInOrder, Inc
  <2> QED BY <2>4, <2>7 DEF OrderInv
<1> QED BY <1>7, <1>8

\* For every ring size, counter width and set of threads: one call of traceread
\* returns consecutive events, and sequence order is time order for them and for
\* the unread ones.
THEOREM OrderCorrect == Spec => []EventsInOrder
<1>1. Init => OrderInv
  <2> SUFFICES ASSUME Init PROVE OrderInv
    OBVIOUS
  <2>1. UnreadCount = 0
    BY EmptyAtFirst
  <2> QED BY <2>1, BufSizeAssumption DEF Init, OrderInv, EventsInOrder, OutInv
<1>2. SimInv /\ OrderInv /\ [Next]_vars => OrderInv'
  BY QuietOrder, FillOrder, CopyOrder DEF SimInv, Quiet
<1>3. OrderInv => EventsInOrder
  BY DEF OrderInv
<1> QED BY <1>1, <1>2, <1>3, SimInductive, PTL DEF Spec
=============================================================================
