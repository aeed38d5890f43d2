---------------------------- MODULE MCDashboard -----------------------------
(***************************************************************************)
(* Small instances of Dashboard: two other processes, one of which records *)
(* system calls and one memory events.                                     *)
(***************************************************************************)
EXTENDS Dashboard

MCPayload == {[type |-> "syscall", pid |-> 1], [type |-> "mem", pid |-> 2]}

Cmd(limit, type, pid, rows) ==
  [limit |-> limit, type |-> type, pid |-> pid, rows |-> rows]

\* trace; trace 2; trace 0 mem; trace 1 2 -n 1
MCArgs == {Cmd(0, "all", -1, 2), Cmd(2, "all", -1, 2), Cmd(0, "mem", -1, 2),
           Cmd(1, "all", 2, 1)}
=============================================================================
