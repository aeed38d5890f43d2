----------------------------- MODULE Dashboard ------------------------------
(***************************************************************************)
(* The program trace (trace.c) on top of the kernel's queue of unread      *)
(* events (TraceQueue, which KTrace implements).  Other processes record   *)
(* events and the clock ticks between any two system calls of the program. *)
(***************************************************************************)
EXTENDS Integers, Sequences, FiniteSetsExt, Functions

CONSTANTS Payload,     \* [type, pid] of the events that other processes record
          Self,        \* the pid of the dashboard
          Args,        \* command lines: [limit, type, pid, rows]
          BufSize,     \* TRACE_BUF_SIZE
          ROWS,        \* MAX_TRACE_ROWS
          WIDTH,       \* GRAPH_WIDTH, and the cap of a jump of the graph
          Pause,       \* the 10 ticks of an idle round
          Lines,       \* the 25 newlines that main prints first
          MaxEvents,   \* bound on the events recorded
          MaxTicks     \* bound on the clock

ASSUME DashAssumption ==
  /\ BufSize \in Nat \ {0} /\ ROWS \in Nat \ {0} /\ WIDTH \in Nat \ {0}
  /\ Pause \in Nat /\ Lines \in Nat /\ MaxEvents \in Nat /\ MaxTicks \in Nat
  /\ IsFiniteSet({p.type : p \in Payload}) /\ \A a \in Args : a.rows \in Int

VARIABLES queue, next, lost, stamp, dst,   \* the kernel's queue
          ticks,
          pc, args, lines, sleep0,
          recent, recent_count, recent_start,
          seen, total, shown,              \* t_*_count and *_count, by type
          overwritten,
          activity, activity_pos, last_tick,
          wanted,                          \* history: the events captured, with
                                           \* the tick they are counted at
          drawn                            \* history: events ever on the screen

kernel == <<queue, next, lost, stamp, dst>>
window == <<recent, recent_count, recent_start>>
graph == <<activity, activity_pos, last_tick>>
output == <<window, seen, shown, graph, wanted, drawn>>
counts == <<total, overwritten>>
main == <<args, lines, sleep0>>
vars == <<kernel, ticks, pc, main, counts, output>>

Type == {p.type : p \in Payload} \cup {"syscall"}
SelfWrite == [type |-> "syscall", pid |-> Self]
NoEvent == [seq |-> -1]

Queue == INSTANCE TraceQueue WITH
  Thread <- {Self}, Payload <- Payload \cup {SelfWrite}, SeqMod <- MaxEvents + 1

\* The kernel has booted, and someone is about to run trace.
Init ==
  /\ Queue!Init /\ ticks = 0
  /\ pc = "exec" /\ args \in Args /\ lines = 0 /\ sleep0 = 0
  /\ recent = [i \in 0..ROWS-1 |-> NoEvent]
  /\ recent_count = 0 /\ recent_start = 0
  /\ seen = 0 /\ overwritten = 0
  /\ total = [t \in Type |-> 0] /\ shown = [t \in Type |-> 0]
  /\ activity = [i \in 0..WIDTH-1 |-> 0] /\ activity_pos = 0 /\ last_tick = -1
  /\ wanted = <<>> /\ drawn = {}
-----------------------------------------------------------------------------
Tick ==
  /\ ticks < MaxTicks
  /\ ticks' = ticks + 1
  /\ UNCHANGED <<kernel, pc, main, counts, output>>

\* An event is recorded now.
traceevent(p) ==
  /\ next < MaxEvents
  /\ Queue!Record(p) /\ stamp' = ticks

\* Another process; the bound leaves room for the dashboard's own events.
Others(p) ==
  /\ next + Lines - lines < MaxEvents
  /\ traceevent(p)
  /\ UNCHANGED <<ticks, pc, main, counts, output>>

exec ==
  /\ pc = "exec"
  /\ pc' = "flush"
  /\ UNCHANGED <<kernel, ticks, main, counts, output>>

\* The newlines that main prints are system calls, and are traced.
flush ==
  /\ pc = "flush"
  /\ \/ /\ lines < Lines
        /\ traceevent(SelfWrite)
        /\ lines' = lines + 1
        /\ UNCHANGED pc
     \/ /\ lines = Lines
        /\ pc' = "loop"
        /\ UNCHANGED <<kernel, lines>>
  /\ UNCHANGED <<ticks, args, sleep0, counts, output>>

\* The loop condition, and traceread(&event, 1) if it holds.  event is on the
\* stack of main, so the copy to it does not fail.
traceread ==
  /\ pc = "loop"
  /\ \/ /\ args.limit # 0 /\ seen >= args.limit
        /\ pc' = "exit"
        /\ UNCHANGED kernel
     \/ /\ args.limit = 0 \/ seen < args.limit
        /\ queue = <<>>
        /\ pc' = "empty"
        /\ UNCHANGED kernel
     \/ /\ args.limit = 0 \/ seen < args.limit
        /\ Queue!Deliver(Self)
        /\ pc' = "event"
  /\ UNCHANGED <<ticks, main, counts, output>>

\* The filter; the dashboard's own events never pass.
want_event(e) ==
  /\ e.payload.pid # Self
  /\ args.type \in {"all", e.payload.type}
  /\ args.pid \in {-1, e.payload.pid}

\* The graph after the clock has moved on by diff ticks.
Shifted(diff) ==
  LET gone == {(activity_pos + k) % WIDTH : k \in 1..Min({diff, WIDTH})}
  IN [i \in 0..WIDTH-1 |-> IF i \in gone THEN 0 ELSE activity[i]]
ShiftedPos(diff) == (activity_pos + Min({diff, WIDTH})) % WIDTH

\* drawBoard: the oldest rows of the window go to the screen.
drawBoard(w, count, first) ==
  LET rows == [i \in 1..Min({count, args.rows, ROWS}) |->
                 w[(first + i - 1) % ROWS]]
  IN drawn' = drawn \cup {rows[i].seq : i \in DOMAIN rows}

\* Faulty variant: a full window does not move its start.
KeepRowAs(e, start) ==
  LET full == recent_count = ROWS
      count == IF full THEN ROWS ELSE recent_count + 1
      w == [recent EXCEPT ![IF full THEN recent_start ELSE recent_count] = e]
      first == IF full THEN start ELSE recent_start
  IN /\ recent' = w /\ recent_count' = count /\ recent_start' = first
     /\ drawBoard(w, count, first)
KeepRowStuck(e) == KeepRowAs(e, recent_start)

\* The event enters the window, which is drawn.
KeepRow(e) ==
  LET full == recent_count = ROWS
      count == IF full THEN ROWS ELSE recent_count + 1
      w == [recent EXCEPT ![IF full THEN recent_start ELSE recent_count] = e]
      first == IF full THEN (recent_start + 1) % ROWS ELSE recent_start
  IN /\ recent' = w /\ recent_count' = count /\ recent_start' = first
     /\ drawBoard(w, count, first)

\* The event is counted at its tick, or at the latest tick of the graph.
CountActivity(e) ==
  LET diff == IF last_tick = -1 \/ e.ticks <= last_tick
              THEN 0 ELSE e.ticks - last_tick
  IN /\ activity' = [Shifted(diff) EXCEPT ![ShiftedPos(diff)] = @ + 1]
     /\ activity_pos' = ShiftedPos(diff)
     /\ last_tick' = Max({last_tick, e.ticks})

\* Faulty variant: events that the filter rejects are not counted.
handleUncounted ==
  /\ pc = "event"
  /\ LET e == dst[Self][1] IN
       \/ /\ want_event(e)
          /\ total' = [total EXCEPT ![e.payload.type] = @ + 1]
          /\ overwritten' = e.overwritten
          /\ CountActivity(e) /\ KeepRow(e)
          /\ shown' = [shown EXCEPT ![e.payload.type] = @ + 1]
          /\ seen' = seen + 1
          /\ wanted' = Append(wanted, [event |-> e, at |-> last_tick'])
       \/ /\ ~want_event(e)
          /\ UNCHANGED <<counts, output>>
  /\ Queue!EndRead(Self)
  /\ pc' = "loop"
  /\ UNCHANGED <<ticks, main>>

\* The loop body, after an event was read.
handle ==
  /\ pc = "event"
  /\ LET e == dst[Self][1] IN
       /\ total' = [total EXCEPT ![e.payload.type] = @ + 1]
       /\ overwritten' = e.overwritten
       /\ \/ /\ want_event(e)
             /\ CountActivity(e) /\ KeepRow(e)
             /\ shown' = [shown EXCEPT ![e.payload.type] = @ + 1]
             /\ seen' = seen + 1
             /\ wanted' = Append(wanted, [event |-> e, at |-> last_tick'])
          \/ ~want_event(e) /\ UNCHANGED output
  /\ Queue!EndRead(Self)
  /\ pc' = "loop"
  /\ UNCHANGED <<ticks, main>>

\* Faulty variant: the exit of a drained buffer waits for a full window.
oneShotFull ==
  /\ pc = "empty"
  /\ LET stop == /\ args.limit = 0
                 /\ \/ recent_count > ROWS
                    \/ seen = 0 /\ ticks - last_tick > Pause
     IN pc' = IF stop THEN "exit" ELSE "idle"
  /\ UNCHANGED <<kernel, ticks, main, counts, output>>

\* No event: the two exits of one-shot mode, the second of which looks at the
\* clock.
oneShot ==
  /\ pc = "empty"
  /\ LET stop == /\ args.limit = 0
                 /\ \/ recent_count > 0
                    \/ seen = 0 /\ ticks - last_tick > Pause
     IN pc' = IF stop THEN "exit" ELSE "idle"
  /\ UNCHANGED <<kernel, ticks, main, counts, output>>

\* Move the graph on to now, draw if it moved, and go to sleep.
idle ==
  /\ pc = "idle"
  /\ LET diff == IF last_tick = -1 THEN 0 ELSE ticks - last_tick IN
       /\ activity' = Shifted(diff)
       /\ activity_pos' = ShiftedPos(diff)
       /\ last_tick' = ticks
       /\ \/ diff > 0 /\ drawBoard(recent, recent_count, recent_start)
          \/ diff = 0 /\ UNCHANGED drawn
  /\ sleep0' = ticks
  /\ pc' = "sleep"
  /\ UNCHANGED <<kernel, ticks, args, lines, counts, window, seen, shown, wanted>>

\* The end of sleep(10); the clock of the instance stops at MaxTicks, and every
\* sleep ends there.
wake ==
  /\ pc = "sleep"
  /\ ticks - sleep0 >= Pause \/ ticks = MaxTicks
  /\ pc' = "loop"
  /\ UNCHANGED <<kernel, ticks, main, counts, output>>

trace == exec \/ flush \/ traceread \/ handle \/ oneShot \/ idle \/ wake

Next == Tick \/ trace \/ \E p \in Payload : Others(p)

Spec == Init /\ [][Next]_vars

\* The clock ticks and the scheduler runs the dashboard.
FairSpec == Spec /\ WF_vars(Tick) /\ WF_vars(trace)
-----------------------------------------------------------------------------
TypeOK ==
  /\ ticks \in 0..MaxTicks
  /\ pc \in {"exec", "flush", "loop", "event", "empty", "idle", "sleep", "exit"}
  /\ queue \in Seq(Queue!Event) /\ dst[Self] \in Seq(Queue!Event)
  /\ recent \in [0..ROWS-1 -> Queue!Event \cup {NoEvent}]
  /\ recent_count \in 0..ROWS /\ recent_start \in 0..ROWS-1
  /\ seen \in 0..MaxEvents /\ overwritten \in 0..MaxEvents
  /\ total \in [Type -> 0..MaxEvents] /\ shown \in [Type -> 0..MaxEvents]
  /\ activity \in [0..WIDTH-1 -> 0..MaxEvents]
  /\ activity_pos \in 0..WIDTH-1 /\ last_tick \in -1..MaxTicks

\* What the board shows agrees with what was captured.  The window holds the last
\* rows, in order, however often its ring has gone round.  Each bar of the graph
\* is the number of events of its tick, for the last WIDTH ticks, although the
\* graph is moved both by events and by the idle loop; an event older than the
\* last move counts at that move.  Every event captured has been on the screen,
\* if as many rows are drawn as are kept.
BoardMatchesHistory ==
  LET k == Min({ROWS, Len(wanted)}) IN
    /\ TypeOK
    /\ recent_count = k
    /\ \A i \in 1..k : recent[(recent_start + i - 1) % ROWS]
                         = wanted[Len(wanted) - k + i].event
    /\ \A i \in 0..WIDTH-1 :
         activity[(activity_pos - i) % WIDTH]
           = Cardinality({j \in DOMAIN wanted : wanted[j].at = last_tick - i})
    /\ args.rows >= ROWS => \A i \in DOMAIN wanted : wanted[i].event.seq \in drawn

\* Every event that was ever recorded is in the totals of the dashboard, still
\* unread, or overwritten: none is dropped between the kernel and the board.  The
\* loss that it reports when it has drained the buffer is at most one event behind
\* the kernel's: traceevent copies the count into an event before it counts the
\* event that this one displaces.
EveryEventIsCounted ==
  /\ SumFunction(total) + Len(dst[Self]) + Len(queue) + lost = next
  /\ pc = "empty" /\ queue = <<>> => overwritten \in {lost - 1, lost}

\* Whatever is in the buffer is read, as long as the dashboard runs; and one-shot
\* mode ends once it has shown something, when the other processes let it drain
\* the buffer.
OneShotEnds ==
  /\ (queue # <<>> /\ pc # "exit") ~> (queue = <<>> \/ pc = "exit")
  /\ (args.limit = 0 /\ seen > 0) ~> (pc = "exit")
=============================================================================
