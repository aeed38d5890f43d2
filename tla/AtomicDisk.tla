----------------------------- MODULE AtomicDisk -----------------------------
(***************************************************************************)
(* What the log promises to the file system (log.c): the writes of the     *)
(* system calls between two moments at which no system call is active      *)
(* reach the disk all together or not at all, whenever the machine stops.  *)
(***************************************************************************)
CONSTANTS Thread, Block, Value, InitValue

VARIABLES mem,     \* the contents that system calls see
          disk,    \* the contents that survive a crash
          active   \* the system calls between begin_op and end_op

vars == <<mem, disk, active>>

Init ==
  /\ mem = [b \in Block |-> InitValue]
  /\ disk = mem
  /\ active = {}

Begin(t) ==
  /\ t \notin active
  /\ active' = active \cup {t}
  /\ UNCHANGED <<mem, disk>>

Write(t, b, v) ==
  /\ t \in active
  /\ mem' = [mem EXCEPT ![b] = v]
  /\ UNCHANGED <<disk, active>>

End(t) ==
  /\ t \in active
  /\ active' = active \ {t}
  /\ UNCHANGED <<mem, disk>>

Commit ==
  /\ active = {}
  /\ disk' = mem
  /\ UNCHANGED <<mem, active>>

Crash ==
  /\ mem' = disk
  /\ active' = {}
  /\ UNCHANGED disk

Next ==
  \/ \E t \in Thread : Begin(t) \/ End(t)
  \/ \E t \in Thread, b \in Block, v \in Value : Write(t, b, v)
  \/ Commit
  \/ Crash

Spec == Init /\ [][Next]_vars
=============================================================================
