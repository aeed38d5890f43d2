----------------------------- MODULE FileSystem -----------------------------
(***************************************************************************)
(* Inodes, directories and path names (fs.c), open files (file.c) and the  *)
(* system calls on them (sysfile.c), with several processes at a time.     *)
(*                                                                         *)
(* A step is what a process does while it has one inode locked, or, for    *)
(* iget and iput, what the code does under icache.lock.  Where a second    *)
(* inode is locked as well, or a reference is dropped while the inode is   *)
(* locked, there is a step of its own.  The cache has an entry per inode   *)
(* number: which slot it occupies makes no difference, and an entry with   *)
(* ref 0 is forgotten by the next iget.  What a file contains is left out  *)
(* (FileData), and so are transactions (Log).                              *)
(***************************************************************************)
EXTENDS Integers, Sequences, FiniteSets

CONSTANTS Proc,       \* processes
          NInodes,    \* sb.ninodes - 1: inode numbers are 1..NInodes
          Name,       \* names of files, without "." and ".."
          Path,       \* path names, as records [abs, elems]
          Calls,      \* the system calls that are made, with their paths
          NFILE, NOFILE,
          None        \* no process

ASSUME FSAssumption ==
  /\ IsFiniteSet(Proc) /\ None \notin Proc
  /\ NInodes \in Nat \ {0} /\ NFILE \in Nat /\ NOFILE \in Nat
  /\ Name \cap {".", ".."} = {}
  /\ Path \subseteq [abs : BOOLEAN, elems : Seq(Name \cup {".", ".."})]

Inum == 1..NInodes
ROOTINO == 1
Dots == {".", ".."}
Type == {"none", "dir", "file", "dev"}

VARIABLES
  dinode,   \* type and nlink of the inodes on the disk
  dir,      \* the entries of the directories, 0 if there is none
  icache,   \* the inodes in memory
  file,     \* ftable: the inode of each file, 0 if it is free
  ofile,    \* the open files of each process, 0 if the descriptor is free
  cwd,
  th,       \* each process: its place in a system call, and the variables of it
  panicked  \* the argument of panic, if it was called

vars == <<dinode, dir, icache, file, ofile, cwd, th, panicked>>

NoEntries == [n \in Name \cup Dots |-> 0]
Unused == [ref |-> 0, valid |-> FALSE, type |-> "none", nlink |-> 0, lock |-> None]
NoPath == [abs |-> FALSE, elems |-> <<>>]
\* puts: the inodes that are to be dropped by iput before the call goes on.
Idle == [pc |-> "idle", path |-> <<>>, ret |-> "idle", cur |-> 0, ip |-> 0,
         new |-> NoPath, type |-> "none", puts |-> <<>>, freeing |-> "no"]

\* The file system that mkfs makes, without its files; every process is in "/".
Init ==
  /\ dinode = [i \in Inum |-> IF i = ROOTINO THEN [type |-> "dir", nlink |-> 1]
                                             ELSE [type |-> "none", nlink |-> 0]]
  /\ dir = [i \in Inum |-> IF i = ROOTINO
                           THEN [NoEntries EXCEPT !["."] = 1, ![".."] = 1]
                           ELSE NoEntries]
  /\ icache = [i \in Inum |-> IF i = ROOTINO
                              THEN [Unused EXCEPT !.ref = Cardinality(Proc)]
                              ELSE Unused]
  /\ file = [f \in 1..NFILE |-> 0]
  /\ ofile = [p \in Proc |-> [d \in 1..NOFILE |-> 0]]
  /\ cwd = [p \in Proc |-> ROOTINO]
  /\ th = [p \in Proc |-> Idle]
  /\ panicked = "no"
-----------------------------------------------------------------------------
\* The inode layer: what the functions of fs.c do to the cache ic.
idup(ic, i) == [ic EXCEPT ![i].ref = @ + 1]
iget(ic, i) ==
  IF ic[i].ref = 0 THEN [ic EXCEPT ![i] = [Unused EXCEPT !.ref = 1]]
                   ELSE idup(ic, i)

\* ilock fills in an inode that is not valid; NoType is its panic.
NoType(i) == ~icache[i].valid /\ dinode[i].type = "none"
mayLock(i) == icache[i].lock = None /\ ~NoType(i)
ilock(ic, i, p) ==
  [ic EXCEPT ![i] = [ref |-> @.ref, valid |-> TRUE, lock |-> p,
                     type |-> IF @.valid THEN @.type ELSE dinode[i].type,
                     nlink |-> IF @.valid THEN @.nlink ELSE dinode[i].nlink]]
iunlock(ic, i) == [ic EXCEPT ![i].lock = None]
Visit(i) == iunlock(ilock(icache, i, None), i)    \* ilock ... iunlock
iupdate(di, ic, i) ==
  [di EXCEPT ![i] = [type |-> ic[i].type, nlink |-> ic[i].nlink]]

\* The inode number of an entry, 0 if there is none; and the directories with a
\* new entry, which callers make when dirlookup has not found the name.
dirlookup(d, n) == dir[d][n]
dirlink(d, n, i) == [dir EXCEPT ![d][n] = i]

At(p, label) == th[p].pc = label /\ th[p].puts = <<>> /\ panicked = "no"
\* The call is over, but for the references that are dropped last.
Return(p, puts) == th' = [th EXCEPT ![p] = [Idle EXCEPT !.puts = puts]]
panic(msg) == panicked' = msg /\ UNCHANGED <<dinode, dir, icache, file, ofile, cwd, th>>
OnlyInodes == UNCHANGED <<file, ofile, cwd, panicked>>
-----------------------------------------------------------------------------
\* iput, under icache.lock: the last reference to an inode without links frees
\* it, which is done after the lock is released; any other is just dropped.
iputTestAs(p, last) ==
  /\ th[p].puts # <<>> /\ th[p].freeing = "no" /\ panicked = "no"
  /\ LET i == Head(th[p].puts)
     IN IF icache[i].ref \in last /\ icache[i].valid /\ icache[i].nlink = 0
        THEN /\ th' = [th EXCEPT ![p].freeing = "itrunc"]
             /\ UNCHANGED icache
        ELSE /\ icache' = IF icache[i].ref = 1 THEN [icache EXCEPT ![i] = Unused]
                          ELSE [icache EXCEPT ![i].ref = @ - 1]
             /\ th' = [th EXCEPT ![p].puts = Tail(@)]
  /\ UNCHANGED <<dinode, dir>> /\ OnlyInodes

\* Faulty variant: an inode without links is freed although others refer to it.
iputTestAny(p) == iputTestAs(p, Nat)

iputTest(p) == iputTestAs(p, {1})

\* itrunc, type = 0 and iupdate: the inode is free on the disk.
iputFree(p) ==
  /\ th[p].freeing = "itrunc" /\ panicked = "no"
  /\ LET i == Head(th[p].puts)
     IN /\ dir' = [dir EXCEPT ![i] = NoEntries]
        /\ icache' = [icache EXCEPT ![i].type = "none"]
        /\ dinode' = iupdate(dinode, icache', i)
  /\ th' = [th EXCEPT ![p].freeing = "flags"]
  /\ OnlyInodes

\* Under icache.lock again: flags = 0 and ref--.
iputDone(p) ==
  /\ th[p].freeing = "flags" /\ panicked = "no"
  /\ LET i == Head(th[p].puts)
     IN icache' = IF icache[i].ref = 1 THEN [icache EXCEPT ![i] = Unused]
                  ELSE [icache EXCEPT ![i].ref = @ - 1, ![i].valid = FALSE]
  /\ th' = [th EXCEPT ![p].puts = Tail(@), ![p].freeing = "no"]
  /\ UNCHANGED <<dinode, dir>> /\ OnlyInodes

iput(p) == iputTest(p) \/ iputFree(p) \/ iputDone(p)
-----------------------------------------------------------------------------
\* namex starts at "/" or at the current directory; the label says where the
\* call goes on.  Those that want the parent stop one level early.
WantsParent == {"link2", "unlink1", "create1"}
namexStart(p, path, r, label) ==
  LET i == IF path.abs THEN ROOTINO ELSE cwd[p]
  IN /\ icache' = IF path.abs THEN iget(icache, i) ELSE idup(icache, i)
     /\ th' = [th EXCEPT ![p] = [r EXCEPT !.pc = "namex", !.path = path.elems,
                                          !.ret = label, !.cur = i]]

\* namex with nothing left of the path.
namexEnd(p) ==
  LET r == th[p] IN
  /\ At(p, "namex") /\ r.path = <<>>
  /\ th' = [th EXCEPT ![p] = IF r.ret \in WantsParent
              THEN [r EXCEPT !.pc = r.ret, !.cur = 0, !.puts = <<r.cur>>]
              ELSE [r EXCEPT !.pc = r.ret]]
  /\ UNCHANGED <<dinode, dir, icache>> /\ OnlyInodes

\* One round of the loop of namex.
namex(p) ==
  LET r == th[p]
      fail == [r EXCEPT !.pc = r.ret, !.cur = 0, !.puts = <<r.cur>>]
      ic == Visit(r.cur)
      next == dirlookup(r.cur, Head(r.path))
  IN /\ At(p, "namex") /\ r.path # <<>> /\ mayLock(r.cur)
     /\ \/ /\ ic[r.cur].type # "dir"
           /\ icache' = ic /\ th' = [th EXCEPT ![p] = fail]
        \/ /\ ic[r.cur].type = "dir"
           /\ r.ret \in WantsParent /\ Len(r.path) = 1
           /\ icache' = ic /\ th' = [th EXCEPT ![p].pc = r.ret]
        \/ /\ ic[r.cur].type = "dir"
           /\ ~(r.ret \in WantsParent /\ Len(r.path) = 1)
           /\ IF next = 0
              THEN icache' = ic /\ th' = [th EXCEPT ![p] = fail]
              ELSE /\ icache' = iget(ic, next)
                   /\ th' = [th EXCEPT ![p].puts = <<r.cur>>, ![p].cur = next,
                                       ![p].path = Tail(@)]
     /\ UNCHANGED <<dinode, dir>> /\ OnlyInodes

-----------------------------------------------------------------------------
\* sys_link.  The link count goes up before the entry is made, and down again if
\* it cannot be.
sys_link(p, old, new) ==
  /\ old \in Calls["link"] /\ new \in Calls["new"] /\ At(p, "idle")
  /\ namexStart(p, old, [Idle EXCEPT !.new = new], "link1")
  /\ UNCHANGED <<dinode, dir>> /\ OnlyInodes

link1(p) ==
  LET r == th[p]
      ic == Visit(r.cur)
      up == [ic EXCEPT ![r.cur].nlink = @ + 1]
      from == IF r.new.abs THEN ROOTINO ELSE cwd[p]
  IN /\ At(p, "link1")
     /\ \/ /\ r.cur = 0
           /\ Return(p, <<>>) /\ UNCHANGED <<icache, dinode>>
        \/ /\ r.cur # 0 /\ mayLock(r.cur) /\ ic[r.cur].type = "dir"
           /\ Return(p, <<r.cur>>) /\ icache' = ic /\ UNCHANGED dinode
        \/ /\ r.cur # 0 /\ mayLock(r.cur) /\ ic[r.cur].type # "dir"
           /\ icache' = iget(up, from)
           /\ dinode' = iupdate(dinode, up, r.cur)
           /\ th' = [th EXCEPT ![p] = [r EXCEPT !.pc = "namex", !.ret = "link2",
                             !.path = r.new.elems, !.ip = r.cur, !.cur = from]]
     /\ UNCHANGED dir /\ OnlyInodes

\* dirlink refuses a name that is present (and has looked it up by then).
link2(p) ==
  LET r == th[p]
      n == Head(r.path)
      ic == Visit(r.cur)
      bad == [Idle EXCEPT !.pc = "linkbad", !.ip = r.ip]
      old == dirlookup(r.cur, n)
  IN /\ At(p, "link2")
     /\ \/ /\ r.cur = 0
           /\ th' = [th EXCEPT ![p] = bad] /\ UNCHANGED <<icache, dir>>
        \/ /\ r.cur # 0 /\ mayLock(r.cur) /\ old # 0
           /\ icache' = ic /\ UNCHANGED dir
           /\ th' = [th EXCEPT ![p] = [bad EXCEPT !.puts = <<r.cur>>]]
        \/ /\ r.cur # 0 /\ mayLock(r.cur) /\ old = 0
           /\ icache' = ic /\ dir' = dirlink(r.cur, n, r.ip)
           /\ Return(p, <<r.cur, r.ip>>)
     /\ UNCHANGED dinode /\ OnlyInodes

\* Faulty variant: the link count stays up.
linkbadNot(p) ==
  /\ At(p, "linkbad") /\ mayLock(th[p].ip)
  /\ icache' = Visit(th[p].ip)
  /\ Return(p, <<th[p].ip>>)
  /\ UNCHANGED <<dinode, dir>> /\ OnlyInodes

linkbad(p) ==
  LET i == th[p].ip
      down == [Visit(i) EXCEPT ![i].nlink = @ - 1]
  IN /\ At(p, "linkbad") /\ mayLock(i)
     /\ icache' = down /\ dinode' = iupdate(dinode, down, i)
     /\ Return(p, <<i>>)
     /\ UNCHANGED dir /\ OnlyInodes
-----------------------------------------------------------------------------
sys_unlink(p, path) ==
  /\ path \in Calls["unlink"] /\ At(p, "idle")
  /\ namexStart(p, path, Idle, "unlink1")
  /\ UNCHANGED <<dinode, dir>> /\ OnlyInodes

\* The directory stays locked while the inode that it names is.
unlink1(p) ==
  LET r == th[p]
      n == Head(r.path)
      ic == ilock(icache, r.cur, p)
      i == dirlookup(r.cur, n)
  IN /\ At(p, "unlink1")
     /\ \/ r.cur = 0 /\ Return(p, <<>>) /\ UNCHANGED icache
        \/ /\ r.cur # 0 /\ mayLock(r.cur) /\ (n \in Dots \/ i = 0)
           /\ icache' = iunlock(ic, r.cur) /\ Return(p, <<r.cur>>)
        \/ /\ r.cur # 0 /\ mayLock(r.cur) /\ n \notin Dots /\ i # 0
           /\ icache' = iget(ic, i)
           /\ th' = [th EXCEPT ![p].pc = "unlink2", ![p].ip = i]
     /\ UNCHANGED <<dinode, dir>> /\ OnlyInodes

isdirempty(i) == \A n \in Name : dir[i][n] = 0

unlink2(p) ==
  LET r == th[p]
      ic == ilock(icache, r.ip, p)
      isdir == ic[r.ip].type = "dir"
      gone == [iunlock(ic, r.cur) EXCEPT ![r.cur].nlink = IF isdir THEN @ - 1 ELSE @]
  IN /\ At(p, "unlink2") /\ mayLock(r.ip)
     /\ IF ic[r.ip].nlink < 1 THEN panic("unlink: nlink < 1") ELSE
        \/ /\ isdir /\ ~isdirempty(r.ip)
           /\ icache' = iunlock(ic, r.ip)
           /\ th' = [th EXCEPT ![p].pc = "unlinkbad", ![p].puts = <<r.ip>>,
                               ![p].ip = 0]
           /\ UNCHANGED <<dinode, dir>> /\ OnlyInodes
        \/ /\ ~(isdir /\ ~isdirempty(r.ip))
           /\ dir' = [dir EXCEPT ![r.cur][Head(r.path)] = 0]
           /\ icache' = gone
           /\ dinode' = IF isdir THEN iupdate(dinode, gone, r.cur) ELSE dinode
           /\ th' = [th EXCEPT ![p].pc = "unlink3", ![p].puts = <<r.cur>>,
                               ![p].cur = 0]
           /\ OnlyInodes

\* Faulty variant: the directory is not unlocked.
unlinkbadHolds(p) ==
  /\ At(p, "unlinkbad")
  /\ Return(p, <<th[p].cur>>)
  /\ UNCHANGED <<dinode, dir, icache>> /\ OnlyInodes

unlinkbad(p) ==
  /\ At(p, "unlinkbad")
  /\ icache' = iunlock(icache, th[p].cur) /\ Return(p, <<th[p].cur>>)
  /\ UNCHANGED <<dinode, dir>> /\ OnlyInodes

unlink3(p) ==
  LET i == th[p].ip
      ic == [iunlock(icache, i) EXCEPT ![i].nlink = @ - 1]
  IN /\ At(p, "unlink3")
     /\ icache' = ic /\ dinode' = iupdate(dinode, ic, i)
     /\ Return(p, <<i>>)
     /\ UNCHANGED dir /\ OnlyInodes
-----------------------------------------------------------------------------
\* create is called by sys_open (O_CREATE), sys_mkdir and sys_mknod, and returns
\* with the inode locked.
create(p, path, type) ==
  /\ path \in Calls[type] /\ At(p, "idle")
  /\ namexStart(p, path, [Idle EXCEPT !.type = type], "create1")
  /\ UNCHANGED <<dinode, dir>> /\ OnlyInodes
sys_mkdir(p, path) == create(p, path, "dir")
sys_mknod(p, path) == create(p, path, "dev")

\* The first free inode on the disk, marked allocated there; then iget.
ialloc(ic, i, type) ==
  /\ dinode[i].type = "none" /\ \A j \in Inum : j < i => dinode[j].type # "none"
  /\ dinode' = [dinode EXCEPT ![i] = [type |-> type, nlink |-> 0]]
  /\ dir' = [dir EXCEPT ![i] = NoEntries]
  /\ icache' = iget(ic, i)

create1(p) ==
  LET r == th[p]
      old == dirlookup(r.cur, Head(r.path))
  IN /\ At(p, "create1")
     /\ \/ /\ r.cur = 0
           /\ Return(p, <<>>) /\ UNCHANGED <<dinode, dir, icache>> /\ OnlyInodes
        \/ /\ r.cur # 0 /\ mayLock(r.cur) /\ old # 0
           /\ icache' = iget(Visit(r.cur), old)
           /\ th' = [th EXCEPT ![p].pc = "create2", ![p].ip = old, ![p].cur = 0,
                               ![p].puts = <<r.cur>>]
           /\ UNCHANGED <<dinode, dir>> /\ OnlyInodes
        \/ /\ r.cur # 0 /\ mayLock(r.cur) /\ old = 0
           /\ \E i \in Inum :
                /\ ialloc(ilock(icache, r.cur, p), i, r.type)
                /\ th' = [th EXCEPT ![p].pc = "create3", ![p].ip = i]
           /\ OnlyInodes
        \/ /\ r.cur # 0 /\ mayLock(r.cur) /\ old = 0
           /\ \A i \in Inum : dinode[i].type # "none"
           /\ panic("ialloc: no inodes")

\* The name exists already.
create2(p) ==
  LET r == th[p]
      ic == ilock(icache, r.ip, p)
  IN /\ At(p, "create2") /\ mayLock(r.ip)
     /\ IF r.type = "file" /\ ic[r.ip].type = "file"
        THEN icache' = ic /\ th' = [th EXCEPT ![p].pc = "open2"]
        ELSE icache' = iunlock(ic, r.ip) /\ Return(p, <<r.ip>>)
     /\ UNCHANGED <<dinode, dir>> /\ OnlyInodes

\* The new inode, with both inodes locked; dirlink panics if the name is there.
create3(p) ==
  LET r == th[p]
      n == Head(r.path)
      isdir == r.type = "dir"
      dots == [NoEntries EXCEPT !["."] = r.ip, ![".."] = r.cur]
      one == [iunlock(ilock(icache, r.ip, p), r.cur) EXCEPT ![r.ip].nlink = 1]
      ic == IF isdir THEN [one EXCEPT ![r.cur].nlink = @ + 1] ELSE one
      di == iupdate(dinode, ic, r.ip)
  IN /\ At(p, "create3") /\ mayLock(r.ip)
     /\ IF dirlookup(r.cur, n) # 0 THEN panic("create: dirlink") ELSE
           /\ icache' = ic
           /\ dinode' = IF isdir THEN iupdate(di, ic, r.cur) ELSE di
           /\ dir' = [dirlink(r.cur, n, r.ip) EXCEPT ![r.ip] =
                      IF isdir THEN dots ELSE @]
           /\ th' = [th EXCEPT ![p].pc = IF r.type = "file" THEN "open2" ELSE "made",
                               ![p].cur = 0, ![p].puts = <<r.cur>>]
           /\ OnlyInodes

\* Faulty variant: the inode is unlocked and its reference kept.
madeKeeps(p) ==
  /\ At(p, "made")
  /\ icache' = iunlock(icache, th[p].ip) /\ Return(p, <<>>)
  /\ UNCHANGED <<dinode, dir>> /\ OnlyInodes

\* The end of sys_mkdir and sys_mknod.
made(p) ==
  /\ At(p, "made")
  /\ icache' = iunlock(icache, th[p].ip) /\ Return(p, <<th[p].ip>>)
  /\ UNCHANGED <<dinode, dir>> /\ OnlyInodes
-----------------------------------------------------------------------------
sys_open(p, path) ==
  \/ create(p, path, "file")                                       \* O_CREATE
  \/ /\ path \in Calls["open"] /\ At(p, "idle")
     /\ namexStart(p, path, Idle, "open1")
     /\ UNCHANGED <<dinode, dir>> /\ OnlyInodes

\* Without O_CREATE: a directory is only opened for reading.
open1(p) ==
  LET r == th[p]
      ic == ilock(icache, r.cur, p)
  IN /\ At(p, "open1")
     /\ \/ r.cur = 0 /\ Return(p, <<>>) /\ UNCHANGED icache
        \/ /\ r.cur # 0 /\ mayLock(r.cur)
           /\ ic[r.cur].type = "dir"                  \* and not O_RDONLY
           /\ icache' = iunlock(ic, r.cur) /\ Return(p, <<r.cur>>)
        \/ /\ r.cur # 0 /\ mayLock(r.cur)
           /\ icache' = ic
           /\ th' = [th EXCEPT ![p].pc = "open2", ![p].ip = r.cur, ![p].cur = 0]
     /\ UNCHANGED <<dinode, dir>> /\ OnlyInodes

\* The first free file and the first free descriptor, 0 if there is none.
first(S) == IF S = {} THEN 0 ELSE CHOOSE x \in S : \A y \in S : x <= y
filealloc == first({f \in 1..NFILE : file[f] = 0})
fdalloc(p) == first({d \in 1..NOFILE : ofile[p][d] = 0})

\* Without either, the inode is given up.
open2(p) ==
  LET i == th[p].ip
      f == filealloc
      d == fdalloc(p)
  IN /\ At(p, "open2")
     /\ icache' = iunlock(icache, i)
     /\ \/ (f = 0 \/ d = 0) /\ Return(p, <<i>>) /\ UNCHANGED <<file, ofile>>
        \/ /\ f # 0 /\ d # 0
           /\ file' = [file EXCEPT ![f] = i]
           /\ ofile' = [ofile EXCEPT ![p][d] = f]
           /\ Return(p, <<>>)
     /\ UNCHANGED <<dinode, dir, cwd, panicked>>

\* fileclose of the only descriptor of a file drops the inode.  (Files that
\* several descriptors share are in Pipe.)
fileclose(p, f) == file' = [file EXCEPT ![f] = 0] /\ Return(p, <<file[f]>>)
sys_close(p, d) ==
  /\ At(p, "idle") /\ ofile[p][d] # 0
  /\ ofile' = [ofile EXCEPT ![p][d] = 0]
  /\ fileclose(p, ofile[p][d])
  /\ UNCHANGED <<dinode, dir, icache, cwd, panicked>>

sys_chdir(p, path) ==
  /\ path \in Calls["chdir"] /\ At(p, "idle")
  /\ namexStart(p, path, Idle, "chdir1")
  /\ UNCHANGED <<dinode, dir>> /\ OnlyInodes

chdir1(p) ==
  LET r == th[p]
      ic == Visit(r.cur)
  IN /\ At(p, "chdir1")
     /\ \/ r.cur = 0 /\ Return(p, <<>>) /\ UNCHANGED <<icache, cwd>>
        \/ /\ r.cur # 0 /\ mayLock(r.cur) /\ icache' = ic
           /\ IF ic[r.cur].type = "dir"
              THEN cwd' = [cwd EXCEPT ![p] = r.cur] /\ Return(p, <<cwd[p]>>)
              ELSE Return(p, <<r.cur>>) /\ UNCHANGED cwd
     /\ UNCHANGED <<dinode, dir, file, ofile, panicked>>
-----------------------------------------------------------------------------
\* The inode that a process is about to lock.
Wants(p) ==
  LET r == th[p] IN
  IF r.pc \in {"link1", "link2", "unlink1", "create1", "open1", "chdir1"}
     \/ (r.pc = "namex" /\ r.path # <<>>) THEN r.cur
  ELSE IF r.pc \in {"linkbad", "unlink2", "create2", "create3"} THEN r.ip
  ELSE 0

\* ilock panics, and the process gets no further: the inode is free.
NoTypePanic(p) ==
  /\ At(p, th[p].pc) /\ Wants(p) # 0
  /\ icache[Wants(p)].lock = None /\ NoType(Wants(p))

\* panic never returns.
halted == panicked # "no" /\ UNCHANGED vars

start(p) ==
  \/ \E path \in Path : \/ sys_unlink(p, path) \/ sys_open(p, path)
                        \/ sys_mkdir(p, path) \/ sys_mknod(p, path)
                        \/ sys_chdir(p, path)
                        \/ \E new \in Path : sys_link(p, path, new)
  \/ \E d \in 1..NOFILE : sys_close(p, d)
step(p) ==
  \/ namex(p) \/ namexEnd(p) \/ iput(p)
  \/ link1(p) \/ link2(p) \/ linkbad(p)
  \/ unlink1(p) \/ unlink2(p) \/ unlinkbad(p) \/ unlink3(p)
  \/ create1(p) \/ create2(p) \/ create3(p) \/ made(p)
  \/ open1(p) \/ open2(p) \/ chdir1(p)

Next == (\E p \in Proc : start(p) \/ step(p)) \/ halted
Spec == Init /\ [][Next]_vars
-----------------------------------------------------------------------------
TypeOK ==
  /\ dinode \in [Inum -> [type : Type, nlink : Int]]
  /\ dir \in [Inum -> [Name \cup Dots -> 0..NInodes]]
  /\ icache \in [Inum -> [ref : Nat, valid : BOOLEAN, type : Type, nlink : Int,
                          lock : Proc \cup {None}]]
  /\ file \in [1..NFILE -> 0..NInodes]
  /\ ofile \in [Proc -> [1..NOFILE -> 0..NFILE]]
  /\ cwd \in [Proc -> Inum]

\* Who refers to an inode: current directories, the variables of system calls,
\* open files.
Holders(i) ==
       {<<p, 0>> : p \in {q \in Proc : cwd[q] = i}}
  \cup {<<p, -1>> : p \in {q \in Proc : th[q].cur = i}}
  \cup {<<p, -2>> : p \in {q \in Proc : th[q].ip = i}}
  \cup {x \in Proc \X (1..2) : /\ x[2] <= Len(th[x[1]].puts)
                             /\ th[x[1]].puts[x[2]] = i}
  \cup {<<None, f>> : f \in {g \in 1..NFILE : file[g] = i}}

\* ip->ref is the number of pointers to the inode, on every path through every
\* call, its errors included: none is leaked, so that an inode can be freed, and
\* none is dropped twice, so that it is not freed in use.
RefsAreCounted ==
  TypeOK /\ \A i \in Inum : icache[i].ref = Cardinality(Holders(i))

\* Directory entries that name an inode; "." is not counted, and neither is the
\* ".." of a directory that no longer has a name.
Named(d) == d = ROOTINO \/ \E e \in Inum, n \in Name : dir[e][n] = d
Entries(i) ==
  {e \in Inum \X (Name \cup {".."}) :
     dir[e[1]][e[2]] = i /\ (e[2] = ".." => Named(e[1]))}
\* sys_link has counted an entry that is not there yet, and sys_unlink counts one
\* that is not there any more.
Pending(i) ==
  {p \in Proc : /\ th[p].ip = i
                /\ th[p].pc \in {"linkbad", "unlink3"} \/ th[p].ret = "link2"}

\* The link count on the disk is the number of names at all times, but for the
\* calls that are at work on it; every name is that of an allocated inode; and
\* an inode that nobody refers to is free if it has no name.
LinksMatch ==
  \A i \in Inum :
    /\ dinode[i].type # "none" =>
         dinode[i].nlink = Cardinality(Entries(i)) + Cardinality(Pending(i))
    /\ Entries(i) # {} => dinode[i].type # "none"
    /\ dinode[i].type # "none" /\ icache[i].ref = 0 => dinode[i].nlink > 0

\* No processes wait for each other's inodes, or for their own: a directory is
\* locked before what it names, and only sys_unlink and create hold two.
NoLockCycle ==
  \A S \in SUBSET Proc \ {{}} :
    \E p \in S : th[p].puts # <<>> \/ Wants(p) = 0 \/ icache[Wants(p)].lock \notin S

\* None of the panics of the inode layer happens, except that inodes run out.
NeverPanics ==
  /\ panicked \in {"no", "ialloc: no inodes"}
  /\ \A p \in Proc : ~NoTypePanic(p)

\* The panic "ilock: no type" cannot happen: a process only ever locks an inode
\* that is allocated.
NeverNoType == \A p \in Proc : ~NoTypePanic(p)
=============================================================================
