---------------------------- MODULE MCFileSystem ----------------------------
(***************************************************************************)
(* Small instances of FileSystem.                                          *)
(***************************************************************************)
EXTENDS FileSystem, TLC

Abs(s) == [abs |-> TRUE, elems |-> s]
Rel(s) == [abs |-> FALSE, elems |-> s]
A == Abs(<<"a">>)
B == Abs(<<"b">>)
AB == Rel(<<"a", "b">>)
Paths == {A, B, AB}
AllCalls == [link |-> {A}, new |-> {B, AB}, unlink |-> {A, AB}, file |-> {A},
             dev |-> {AB}, dir |-> {A}, open |-> {A}, chdir |-> {A}]

RacePaths == {A}
RaceCalls == [c \in DOMAIN AllCalls |-> IF c \in {"unlink", "file"} THEN RacePaths ELSE {}]

\* Not while an inode is freed is it allocated again: iput does not lock it.
NoAllocWhileFreed ==
  \A p, q \in Proc : p # q /\ th[p].freeing = "flags" =>
                     ~(th[q].pc = "create3" /\ th[q].ip = Head(th[p].puts))
\* A directory that has been removed is not used any more by somebody else.
NoUseOfRemoved ==
  \A i \in Inum : icache[i].valid /\ icache[i].type = "dir" /\ icache[i].nlink = 0
                 => icache[i].ref <= 1
Restricted == NoAllocWhileFreed /\ NoUseOfRemoved
Symmetry == Permutations(Proc)
=============================================================================
