------------------------------ MODULE ShellRun ------------------------------
(***************************************************************************)
(* How the shell runs a command (main and runcmd of sh.c): a tree of       *)
(* processes, each with the part of the command that it runs, and the file *)
(* descriptors that connect them.                                          *)
(*                                                                         *)
(* A step is a system call, or a few that only change descriptors of the   *)
(* process itself.  A program (exec) that has a pipe for its input reads   *)
(* it to the end, as cat, grep or wc do, and then exits.                   *)
(***************************************************************************)
EXTENDS Naturals, SequencesExt

CONSTANTS Pid,        \* processes; 1 is the shell itself
          Command,    \* what is typed: trees as parsecmd builds them
          MaxLines    \* bound: the lines that are typed

Fd == 0..6
Closed == <<"none", 0>>
Tty == <<"tty", 0>>

VARIABLES task,    \* each process: what it runs, where it is, its parent
          fds,     \* its file descriptors: the ends <<"r", k>>, <<"w", k>> of pipe k
          pipes,   \* how many pipes were made
          lines,
          noproc   \* history: a fork has failed

vars == <<task, fds, pipes, lines, noproc>>

\* at: the place in the command; "B" in it stands for the right side of a &.
NoTask == [pc |-> "none", cmd |-> [type |-> "none"], parent |-> 0, at |-> <<>>]
Init ==
  /\ task = [p \in Pid |-> IF p = 1 THEN [NoTask EXCEPT !.pc = "getcmd"] ELSE NoTask]
  /\ fds = [p \in Pid |-> [d \in Fd |-> IF p = 1 /\ d < 3 THEN Tty ELSE Closed]]
  /\ pipes = 0 /\ lines = 0 /\ noproc = FALSE

Lowest(S) == CHOOSE x \in S : \A y \in S : x <= y
FreeFd(p) == Lowest({d \in Fd : fds[p][d] = Closed})
FreePids == {p \in Pid : task[p].pc = "none"}
NoFds == [d \in Fd |-> Closed]
-----------------------------------------------------------------------------
\* fork1: a child with the descriptors f that runs cmd; the parent goes on at pc.
\* Without a free process it panics, that is, it exits.
fork1(p, cmd, turn, f, pc) ==
  /\ UNCHANGED <<pipes, lines>> /\ noproc' = (noproc \/ FreePids = {})
  /\ IF FreePids = {}
     THEN /\ task' = [task EXCEPT ![p].pc = "exit"] /\ UNCHANGED fds
     ELSE LET q == Lowest(FreePids)
          IN /\ task' = [task EXCEPT ![p].pc = pc,
                           ![q] = [pc |-> "run", cmd |-> cmd, parent |-> p,
                                   at |-> task[p].at \o turn]]
             /\ fds' = [fds EXCEPT ![q] = f]

At(p, pc, type) == task[p].pc = pc /\ task[p].cmd.type = type

\* Faulty variant: wait returns although no child has exited.
waitNot(p, pc) ==
  /\ task' = [task EXCEPT ![p].pc = pc]
  /\ UNCHANGED <<fds, pipes, lines, noproc>>

\* wait: a child that has exited is gone.
wait(p, pc) ==
  /\ \E q \in Pid : /\ task[q].pc = "zombie" /\ task[q].parent = p
                    /\ task' = [task EXCEPT ![q] = NoTask, ![p].pc = pc]
  /\ UNCHANGED <<fds, pipes, lines, noproc>>

\* exit closes the descriptors; the children go to init, which waits for them.
exit(p) ==
  /\ task[p].pc = "exit"
  /\ task' = [q \in Pid |->
       IF q = p THEN IF task[p].parent = 0 THEN NoTask
                     ELSE [NoTask EXCEPT !.pc = "zombie", !.parent = task[p].parent]
       ELSE IF task[q].parent # p THEN task[q]
       ELSE IF task[q].pc = "zombie" THEN NoTask ELSE [task[q] EXCEPT !.parent = 0]]
  /\ fds' = [fds EXCEPT ![p] = NoFds]
  /\ UNCHANGED <<pipes, lines, noproc>>
-----------------------------------------------------------------------------
\* main: read a line, run it in a child, wait for the child.
getcmd(cmd) ==
  /\ task[1].pc = "getcmd" /\ lines < MaxLines
  /\ lines' = lines + 1
  /\ task' = [task EXCEPT ![1].pc = "main", ![1].cmd = cmd]
  /\ UNCHANGED <<fds, pipes, noproc>>
main ==
  \/ task[1].pc = "main" /\ fork1(1, task[1].cmd, <<>>, fds[1], "mainWait")
  \/ task[1].pc = "mainWait" /\ wait(1, "getcmd")

\* EXEC: the program ends once its input has.
Writers(k) == {p \in Pid : \E d \in Fd : fds[p][d] = <<"w", k>>}
runExec(p) ==
  /\ At(p, "run", "EXEC")
  /\ fds[p][0][1] = "r" => Writers(fds[p][0][2]) = {}
  /\ task' = [task EXCEPT ![p].pc = "exit"]
  /\ UNCHANGED <<fds, pipes, lines, noproc>>

\* REDIR: close, open.  The file may not be there.
runRedir(p) ==
  /\ At(p, "run", "REDIR")
  /\ LET d == task[p].cmd.fd
     IN \/ /\ task' = [task EXCEPT ![p].pc = "exit"]
           /\ fds' = [fds EXCEPT ![p][d] = Closed]
        \/ /\ task' = [task EXCEPT ![p].cmd = @.cmd]
           /\ fds' = [fds EXCEPT ![p][d] = <<"file", 0>>]
  /\ UNCHANGED <<pipes, lines, noproc>>

\* LIST: the left side in a child; after wait, the right side in this process.
runList(p) ==
  \/ At(p, "run", "LIST") /\ fork1(p, task[p].cmd.left, <<"L">>, fds[p], "list")
  \/ At(p, "list", "LIST") /\ wait(p, "listRight")
  \/ /\ At(p, "listRight", "LIST")
     /\ task' = [task EXCEPT ![p].pc = "run", ![p].cmd = @.right,
                             ![p].at = Append(@, "R")]
     /\ UNCHANGED <<fds, pipes, lines, noproc>>

\* The ends of the pipe of p, its descriptors after closing both, and those of
\* its children: an end is moved to descriptor d, and both are closed.
End(p, rw) == Lowest({d \in Fd : d > 2 /\ fds[p][d][1] = rw})
Without(p) == [d \in Fd |-> IF d \in {End(p, "r"), End(p, "w")} THEN Closed ELSE fds[p][d]]
\* Faulty variant: the children keep both ends as well.
ChildFdsKeeps(p, d, rw) == [fds[p] EXCEPT ![d] = fds[p][End(p, rw)]]
ChildFds(p, d, rw) == [Without(p) EXCEPT ![d] = fds[p][End(p, rw)]]

runPipe(p) ==
  \/ /\ At(p, "run", "PIPE")
     /\ pipes' = pipes + 1
     /\ LET r == FreeFd(p)
            w == Lowest({d \in Fd : d > r /\ fds[p][d] = Closed})
        IN fds' = [fds EXCEPT ![p][r] = <<"r", pipes + 1>>, ![p][w] = <<"w", pipes + 1>>]
     /\ task' = [task EXCEPT ![p].pc = "pipeL"] /\ UNCHANGED <<lines, noproc>>
  \/ /\ At(p, "pipeL", "PIPE")
     /\ fork1(p, task[p].cmd.left, <<"P">>, ChildFds(p, 1, "w"), "pipeR")
  \/ /\ At(p, "pipeR", "PIPE")
     /\ fork1(p, task[p].cmd.right, <<"P">>, ChildFds(p, 0, "r"), "pipeClose")
  \/ /\ At(p, "pipeClose", "PIPE")
     /\ fds' = [fds EXCEPT ![p] = Without(p)]
     /\ task' = [task EXCEPT ![p].pc = "pipeWait1"] /\ UNCHANGED <<pipes, lines, noproc>>
  \/ At(p, "pipeWait1", "PIPE") /\ wait(p, "pipeWait2")
  \/ At(p, "pipeWait2", "PIPE") /\ wait(p, "exit")

\* BACK: nobody waits for the child.
runBack(p) ==
  At(p, "run", "BACK") /\ fork1(p, task[p].cmd.cmd, <<"B">>, fds[p], "exit")

\* The shell has no more to do, or has exited; and no command runs.
Finished == /\ task[1].pc = "none" \/ (task[1].pc = "getcmd" /\ lines = MaxLines)
            /\ \A p \in Pid \ {1} : task[p].pc = "none"
Next ==
  \/ (\E cmd \in Command : getcmd(cmd)) \/ main
  \/ \E p \in Pid \ {1} : \/ runExec(p) \/ runRedir(p) \/ runList(p) \/ runPipe(p)
                          \/ runBack(p)
  \/ \E p \in Pid : exit(p)
Spec == Init /\ [][Next]_vars
-----------------------------------------------------------------------------
Alive(p) == task[p].pc \notin {"none", "zombie"}
Waiting == {"mainWait", "list", "pipeWait1", "pipeWait2"}
Blocked(p) ==
  \/ task[p].pc \in Waiting /\ ~\E q \in Pid : task[q].pc = "zombie" /\ task[q].parent = p
  \/ At(p, "run", "EXEC") /\ fds[p][0][1] = "r" /\ Writers(fds[p][0][2]) # {}

\* The processes of a command never all wait for each other: a process that
\* waits for a child keeps no end of a pipe that makes a reader wait, and a
\* reader does not keep its own pipe open.  So every pipeline ends.
PipelinesEnd ==
  (\E p \in Pid \ {1} : Alive(p)) => \E p \in Pid \ {1} : Alive(p) /\ ~Blocked(p)

\* What comes after ";" starts, and the shell prompts again, only when all that
\* came before has ended, except for what is in the background.  wait may return
\* any child, and the shell counts on having only those it waits for.  (When a
\* fork fails, the parent exits and what it had started goes on.)
InForeground(p) == Alive(p) /\ p # 1 /\ ~Contains(task[p].at, "B")
ListsInOrder ==
  noproc \/
  /\ task[1].pc \in {"getcmd", "main"} => \A p \in Pid : ~InForeground(p)
  /\ \A p, q \in Pid :
       LET a == task[p].at
           n == Len(a)
       IN ~(/\ InForeground(p) /\ InForeground(q) /\ n > 0 /\ a[n] = "R"
            /\ IsStrictPrefix(SubSeq(a, 1, n - 1) \o <<"L">>, task[q].at \o <<"">>))
=============================================================================
