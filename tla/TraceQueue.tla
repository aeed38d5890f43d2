----------------------------- MODULE TraceQueue -----------------------------
(***************************************************************************)
(* What the kernel trace buffer promises to the code that records events   *)
(* and to the programs that read them, without its ring, its lock or its   *)
(* counters: a queue of the most recent events that nobody has read.  An   *)
(* event that finds the queue full displaces the oldest one, which is      *)
(* counted as lost; a read takes events from the old end, one at a time.   *)
(* KTrace is shown to implement this specification, and Dashboard is built *)
(* on it.                                                                  *)
(***************************************************************************)
EXTENDS Integers, Sequences

CONSTANTS Thread,    \* kernel threads that record or read events
          Payload,   \* what a caller passes to traceevent: type, pid, args, name
          BufSize,   \* TRACE_BUF_SIZE
          SeqMod,    \* number of values of a uint counter
          MaxTicks   \* bound on the kernel clock

VARIABLES queue,     \* the unread events, oldest first
          next,      \* sequence number of the next event
          lost,      \* how many events were displaced unread
          stamp,     \* ticks of the latest event
          dst        \* dst[t]: what t's traceread call has copied out so far

vars == <<queue, next, lost, stamp, dst>>

Event == [seq : 0..SeqMod-1, ticks : 0..MaxTicks, payload : Payload,
          overwritten : 0..SeqMod-1]

Init ==
  /\ queue = <<>>
  /\ next = 0
  /\ lost = 0
  /\ stamp = 0
  /\ dst = [t \in Thread |-> <<>>]

\* The event that the next call of traceevent records.
NewEvent(p, now) ==
  [seq |-> next, ticks |-> now, payload |-> p, overwritten |-> lost]

Record(p) ==
  \E now \in stamp..MaxTicks :
    /\ queue' = IF Len(queue) = BufSize
                THEN Append(Tail(queue), NewEvent(p, now))
                ELSE Append(queue, NewEvent(p, now))
    /\ lost' = IF Len(queue) = BufSize THEN (lost + 1) % SeqMod ELSE lost
    /\ next' = (next + 1) % SeqMod
    /\ stamp' = now
    /\ UNCHANGED dst

\* A call of traceread returns what it has copied out.
EndRead(t) ==
  /\ dst' = [dst EXCEPT ![t] = <<>>]
  /\ UNCHANGED <<queue, next, lost, stamp>>

Deliver(t) ==
  /\ queue # <<>>
  /\ queue' = Tail(queue)
  /\ dst' = [dst EXCEPT ![t] = Append(@, Head(queue))]
  /\ UNCHANGED <<next, lost, stamp>>

\* The event is taken, but the copy to user memory fails: nobody sees it.
Fault(t) ==
  /\ queue # <<>>
  /\ queue' = Tail(queue)
  /\ UNCHANGED <<next, lost, stamp, dst>>

Next ==
  \/ \E p \in Payload : Record(p)
  \/ \E t \in Thread : EndRead(t) \/ Deliver(t) \/ Fault(t)

Spec == Init /\ [][Next]_vars
=============================================================================
