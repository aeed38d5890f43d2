------------------------------- MODULE KTrace -------------------------------
(***************************************************************************)
(* The kernel trace buffer (ktrace.c): a ring of TRACE_BUF_SIZE events     *)
(* indexed by two uint sequence numbers that wrap, shared by every kernel  *)
(* thread under one spinlock.  Each thread runs traceevent or traceread    *)
(* step by step, so the lock is what keeps the steps of two threads apart. *)
(***************************************************************************)
EXTENDS Integers, Sequences

CONSTANTS Thread,     \* kernel threads that record or read events
          NoThread,   \* the owner of a free lock
          Payload,    \* type, pid, arg0..arg2, comm and name of one event
          NoPayload,  \* the zeroed payload of a slot never written
          BufSize,    \* TRACE_BUF_SIZE
          SeqMod,     \* number of values of a uint: 2^32 in the code
          MaxRead,    \* largest max_events a caller passes
          MaxTicks    \* bound on the kernel clock

ASSUME BufSizeAssumption == BufSize \in Nat \ {0}
\* 2^32 is a multiple of 128, and a counter can tell a full ring with one more
\* event from an empty one.
ASSUME SeqModAssumption ==
  SeqMod \in Nat /\ SeqMod > BufSize + 1 /\ SeqMod % BufSize = 0
ASSUME BoundAssumption == MaxRead \in Nat /\ MaxTicks \in Nat
ASSUME NoValueAssumption == NoThread \notin Thread /\ NoPayload \notin Payload

VARIABLES enabled,      \* traceBuffer.enabled
          seq,          \* traceBuffer.seq
          readseq,      \* traceBuffer.readseq
          overwritten,  \* traceBuffer.overwritten
          events,       \* traceBuffer.events
          lock,         \* the holder of traceBuffer.lock
          ticks,        \* the kernel clock of trap.c
          pc,           \* pc[t]: where t is in traceevent or traceread
          arg,          \* arg[t]: the payload t passed to traceevent
          max,          \* max[t]: the max_events t passed to traceread
          event,        \* event[t]: traceread's local copy of one event
          dst,          \* dst[t]: what t's traceread call has copied out
          consumed      \* history: events copied out, or lost to a failed
                        \* copyout, so far (as a uint)

ring == <<enabled, seq, readseq, overwritten, events>>
call == <<arg, max, event, dst>>
vars == <<ring, lock, ticks, pc, call, consumed>>

Uint == 0..SeqMod-1
Slot == 0..BufSize-1

Event == [seq : Uint, ticks : 0..MaxTicks, payload : Payload \cup {NoPayload},
          overwritten : Uint]

\* Static storage starts out zeroed.
ZeroEvent == [seq |-> 0, ticks |-> 0, payload |-> NoPayload, overwritten |-> 0]

\* uint arithmetic.
Inc(n) == (n + 1) % SeqMod
Minus(m, n) == (m - n) % SeqMod

SlotOf(n) == n % BufSize

\* The number of events between the two counters.
Unread == Minus(seq, readseq)

-----------------------------------------------------------------------------
Init ==
  /\ enabled = FALSE
  /\ seq = 0 /\ readseq = 0 /\ overwritten = 0
  /\ events = [i \in Slot |-> ZeroEvent]
  /\ lock = NoThread
  /\ ticks = 0
  /\ pc = [t \in Thread |-> "idle"]
  /\ arg = [t \in Thread |-> NoPayload]
  /\ max = [t \in Thread |-> 0]
  /\ event = [t \in Thread |-> ZeroEvent]
  /\ dst = [t \in Thread |-> <<>>]
  /\ consumed = 0

Goto(t, label) == pc' = [pc EXCEPT ![t] = label]

\* The boot processor runs this once, before any other thread exists.
traceinit ==
  /\ ~enabled
  /\ enabled' = TRUE
  /\ seq' = 0 /\ readseq' = 0 /\ overwritten' = 0
  /\ lock' = NoThread
  /\ UNCHANGED <<events, ticks, pc, call, consumed>>

\* The timer interrupt; the clock is not under the trace lock.
Tick ==
  /\ ticks < MaxTicks
  /\ ticks' = ticks + 1
  /\ UNCHANGED <<ring, lock, pc, call, consumed>>

\* traceevent up to its acquire.  A call before traceinit returns at once and
\* changes nothing: it is a stuttering step.
CallEvent(t, p) ==
  /\ pc[t] = "idle"
  /\ enabled
  /\ arg' = [arg EXCEPT ![t] = p]
  /\ Goto(t, "event_acquire")
  /\ UNCHANGED <<ring, lock, ticks, max, event, dst, consumed>>

\* traceread up to its acquire.  A call with max_events <= 0 returns 0 and
\* changes nothing.
CallRead(t, n) ==
  /\ pc[t] = "idle"
  /\ enabled
  /\ max' = [max EXCEPT ![t] = n]
  /\ Goto(t, "read_acquire")
  /\ UNCHANGED <<ring, lock, ticks, arg, event, dst, consumed>>

Acquire(t) ==
  /\ pc[t] \in {"event_acquire", "read_acquire"}
  /\ lock = NoThread
  /\ lock' = t
  /\ Goto(t, IF pc[t] = "event_acquire" THEN "fill" ELSE "loop")
  /\ UNCHANGED <<ring, ticks, call, consumed>>

\* The call returns; its arguments and its result are no longer of interest.
Release(t) ==
  /\ pc[t] = "release"
  /\ lock' = NoThread
  /\ arg' = [arg EXCEPT ![t] = NoPayload]
  /\ max' = [max EXCEPT ![t] = 0]
  /\ dst' = [dst EXCEPT ![t] = <<>>]
  /\ Goto(t, "idle")
  /\ UNCHANGED <<ring, ticks, event, consumed>>

\* traceevent: every field of the slot under seq.
Fill(t) ==
  /\ pc[t] = "fill"
  /\ events' = [events EXCEPT ![SlotOf(seq)] =
                  [seq |-> seq, ticks |-> ticks, payload |-> arg[t],
                   overwritten |-> overwritten]]
  /\ Goto(t, "advance")
  /\ UNCHANGED <<enabled, seq, readseq, overwritten, lock, ticks, call,
                 consumed>>

\* Faulty variants of the publishing step: the reader is never moved, or is moved
\* without being counted.
AdvanceBy(t, size, newest, step) ==
  /\ pc[t] = "advance"
  /\ seq' = Inc(seq)
  /\ LET lapped == Minus(Inc(seq), readseq) > size IN
       /\ readseq' = IF lapped THEN newest ELSE readseq
       /\ overwritten' = IF lapped THEN (overwritten + step) % SeqMod
                                   ELSE overwritten
  /\ Goto(t, "release")
  /\ UNCHANGED <<enabled, events, lock, ticks, call, consumed>>
AdvanceNoTrim(t) == AdvanceBy(t, SeqMod, readseq, 1)
AdvanceUncounted(t) == AdvanceBy(t, BufSize, Minus(Inc(seq), BufSize), 0)

\* traceevent: publish the slot and, if the reader was lapped, move it to the
\* oldest event still there.
Advance(t) ==
  /\ pc[t] = "advance"
  /\ seq' = Inc(seq)
  /\ LET lapped == Minus(Inc(seq), readseq) > BufSize IN
       /\ readseq' = IF lapped THEN Minus(Inc(seq), BufSize) ELSE readseq
       /\ overwritten' = IF lapped THEN Inc(overwritten) ELSE overwritten
  /\ Goto(t, "release")
  /\ UNCHANGED <<enabled, events, lock, ticks, call, consumed>>

\* traceread: the loop condition holds, so one event is copied to the stack
\* and readseq moves before anything reaches the user.
Take(t) ==
  /\ pc[t] = "loop"
  /\ Len(dst[t]) < max[t] /\ readseq # seq
  /\ event' = [event EXCEPT ![t] = events[SlotOf(readseq)]]
  /\ readseq' = Inc(readseq)
  /\ Goto(t, "copyout")
  /\ UNCHANGED <<enabled, seq, overwritten, events, lock, ticks, arg, max, dst,
                 consumed>>

LoopDone(t) ==
  /\ pc[t] = "loop"
  /\ Len(dst[t]) >= max[t] \/ readseq = seq
  /\ Goto(t, "release")
  /\ UNCHANGED <<ring, lock, ticks, call, consumed>>

\* Faulty variant: gives the lock up between two events of one call.
CopyOutUnlocked(t) ==
  /\ pc[t] = "copyout"
  /\ dst' = [dst EXCEPT ![t] = Append(@, event[t])]
  /\ event' = [event EXCEPT ![t] = ZeroEvent]
  /\ consumed' = Inc(consumed)
  /\ lock' = NoThread
  /\ Goto(t, "read_acquire")
  /\ UNCHANGED <<ring, ticks, arg, max>>

CopyOut(t) ==
  /\ pc[t] = "copyout"
  /\ dst' = [dst EXCEPT ![t] = Append(@, event[t])]
  /\ event' = [event EXCEPT ![t] = ZeroEvent]
  /\ consumed' = Inc(consumed)
  /\ Goto(t, "loop")
  /\ UNCHANGED <<ring, lock, ticks, arg, max>>

\* Faulty variant: the error path returns with the lock held.
CopyFaultHolding(t) ==
  /\ pc[t] = "copyout"
  /\ event' = [event EXCEPT ![t] = ZeroEvent]
  /\ consumed' = Inc(consumed)
  /\ Goto(t, "idle")
  /\ UNCHANGED <<ring, lock, ticks, arg, max, dst>>

\* copyout fails: the call ends, and the event just taken is gone.
CopyFault(t) ==
  /\ pc[t] = "copyout"
  /\ event' = [event EXCEPT ![t] = ZeroEvent]
  /\ consumed' = Inc(consumed)
  /\ Goto(t, "release")
  /\ UNCHANGED <<ring, lock, ticks, arg, max, dst>>

\* What a thread does between acquire and release.
Locked(t) ==
  Fill(t) \/ Advance(t) \/ Take(t) \/ LoopDone(t) \/ CopyOut(t)
          \/ CopyFault(t) \/ Release(t)

Next ==
  \/ traceinit
  \/ Tick
  \/ \E t \in Thread :
       \/ \E p \in Payload : CallEvent(t, p)
       \/ \E n \in 1..MaxRead : CallRead(t, n)
       \/ Acquire(t)
       \/ Locked(t)

Spec == Init /\ [][Next]_vars

\* A spinlock is held with interrupts off, so its holder keeps running.
FairSpec == Spec /\ \A t \in Thread : WF_vars(Locked(t))
-----------------------------------------------------------------------------
\* The events that count as unread while a thread is inside the lock: a slot
\* that is filled counts as recorded (so its old event is already displaced),
\* and an event on traceread's stack counts as unread until it is copied out.
Advancing == \E t \in Thread : pc[t] = "advance"
Copying == \E t \in Thread : pc[t] = "copyout"
Displacing == Advancing /\ Unread = BufSize

NextSeq == IF Advancing THEN Inc(seq) ELSE seq
OldestSeq == IF Copying THEN Minus(readseq, 1)
             ELSE IF Displacing THEN Inc(readseq) ELSE readseq
LostCount == IF Displacing THEN Inc(overwritten) ELSE overwritten

UnreadCount == Minus(NextSeq, OldestSeq)
UnreadSeq(k) == (OldestSeq + k) % SeqMod
UnreadEvent(k) == events[SlotOf(UnreadSeq(k))]

Critical == {"fill", "advance", "loop", "copyout", "release"}
Label == {"idle", "event_acquire", "read_acquire"} \cup Critical

TypeOK ==
  /\ enabled \in BOOLEAN
  /\ seq \in Uint /\ readseq \in Uint /\ overwritten \in Uint
  /\ events \in [Slot -> Event]
  /\ lock \in Thread \cup {NoThread}
  /\ ticks \in 0..MaxTicks
  /\ pc \in [Thread -> Label]
  /\ arg \in [Thread -> Payload \cup {NoPayload}]
  /\ max \in [Thread -> 0..MaxRead]
  /\ event \in [Thread -> Event]
  /\ dst \in [Thread -> Seq(Event)]
  /\ consumed \in Uint

\* The threads inside the critical sections of ktrace.c are exactly the holder
\* of traceBuffer.lock: there is never more than one.
LockProtects == \A t \in Thread : pc[t] \in Critical <=> lock = t

\* Although the writer never waits for the reader and both counters wrap, the
\* slots from the reader's position up to the writer's hold exactly the events
\* with those sequence numbers: the reader never gets a slot that was never
\* written, was already overwritten, or belongs to another lap of the ring.
RingHoldsUnread ==
  /\ UnreadCount <= BufSize
  /\ \A k \in 0..BufSize-1 : k < UnreadCount =>
       /\ UnreadEvent(k).seq = UnreadSeq(k)
       /\ UnreadEvent(k).payload \in Payload

\* Every event ever recorded is in one place: taken by a traceread call,
\* counted in overwritten, or still unread.  In particular
\* overwritten counts each displaced event exactly once.
EveryEventAccounted ==
  OldestSeq = (consumed + LostCount) % SeqMod

\* One call of traceread returns consecutive events with no gap in them, whatever
\* the writers do meanwhile, because it keeps the lock while it copies out
\* ("keeping the lock is simpler"); and sequence order is time order, for those
\* events and the unread ones, because traceevent reads the clock in the lock.
EventsInOrder ==
  /\ \A t \in Thread : \A i \in 1..Len(dst[t])-1 :
       /\ dst[t][i+1].seq = Inc(dst[t][i].seq)
       /\ dst[t][i].ticks <= dst[t][i+1].ticks
  /\ \A k \in 1..BufSize-1 : k < UnreadCount =>
       UnreadEvent(k-1).ticks <= UnreadEvent(k).ticks

\* Whoever takes the trace lock gives it back: the loop of traceread ends
\* although other threads keep calling traceevent.
LockIsReleased == \A t \in Thread : (lock = t) ~> (lock # t)

-----------------------------------------------------------------------------
\* What makes RingHoldsUnread and EveryEventAccounted inductive: nothing has
\* happened before traceinit; a caller on its way to Fill has its payload; and
\* the two counters are never further apart than the ring is long, with room
\* for the event that traceread has in its hands.
BootInv ==
  ~enabled => /\ seq = 0 /\ readseq = 0 /\ overwritten = 0 /\ consumed = 0
              /\ lock = NoThread
              /\ \A t \in Thread : pc[t] = "idle"
ArgInv ==
  \A t \in Thread : pc[t] \in {"event_acquire", "fill"} => arg[t] \in Payload
UnreadBound == Unread <= BufSize /\ (Copying => Unread < BufSize)

\* The inductive invariant: at most one thread is in the sections under the lock,
\* the slots between reader and writer hold exactly the unread events, and every
\* event is delivered, unread or counted as lost, once.
IInv == /\ TypeOK /\ LockProtects /\ BootInv /\ ArgInv /\ UnreadBound
        /\ RingHoldsUnread /\ EveryEventAccounted

-----------------------------------------------------------------------------
\* The ring implements the lossy queue of TraceQueue.
UnreadQueue == [k \in 1..UnreadCount |-> UnreadEvent(k-1)]

Abstract == INSTANCE TraceQueue WITH
  queue <- UnreadQueue,
  next <- NextSeq,
  lost <- LostCount,
  stamp <- events[SlotOf(NextSeq + SeqMod - 1)].ticks

\* Seen from outside its lock, the ring buffer is the queue of the most recent
\* unread events, with displacement, loss count, timestamps and reads as
\* TraceQueue describes them.
ImplementsTraceQueue == Abstract!Spec
=============================================================================
