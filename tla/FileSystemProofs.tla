-------------------------- MODULE FileSystemProofs --------------------------
(***************************************************************************)
(* The reference counts of the inode cache, for every number of processes, *)
(* inodes, open files and names: on every path through every system call,  *)
(* ip->ref is the number of pointers to the inode.                         *)
(*                                                                         *)
(* A step is split into what it does to the pointers of its system call    *)
(* (Moves) and what it does to the cache (Effect); when the two agree the  *)
(* count still holds (DiskStep, MemoryStep, CallEnds, PointerStep).        *)
(***************************************************************************)
EXTENDS FileSystem, FiniteSetTheorems, NaturalsInduction, WellFoundedInduction, TLAPS

\* Time enough for every leaf, whatever else the machine does.
USE ZenonT(2), SMTT(15), ZenonT(20)
-----------------------------------------------------------------------------
\* The local state of a system call: Rets are the places that namex returns to.
Rets == {"link1", "link2", "unlink1", "create1", "open1", "chdir1"}
PC == Rets \cup {"idle", "namex", "linkbad", "unlink2", "unlinkbad", "unlink3",
                 "create2", "create3", "made", "open2"}
PathName == [abs : BOOLEAN, elems : Seq(Name \cup Dots)]
Frame == [pc : PC, path : Seq(Name \cup Dots), ret : Rets \cup {"idle"},
          cur : 0..NInodes, ip : 0..NInodes, new : PathName, type : Type,
          puts : Seq(Inum), freeing : {"no", "itrunc", "flags"}]
CacheRec == [ref : Nat, valid : BOOLEAN, type : Type, nlink : Int,
             lock : Proc \cup {None}]
Cache == [Inum -> CacheRec]

\* Which pointers a call has at which place: cur is the directory that it walks or
\* works in, ip the inode that it works on, and puts the references that it has
\* still to drop, of which there are two at most.
NoCur == {"idle", "linkbad", "unlink3", "create2", "made", "open2"}
HasCur == {"namex", "unlink2", "unlinkbad", "create3"}
HasIp == {"link2", "linkbad", "unlink2", "unlink3", "create2", "create3", "made",
          "open2"}
Place(q) ==
  /\ q.pc \in NoCur => q.cur = 0
  /\ q.pc \in HasCur => q.cur # 0
  /\ q.ip # 0 <=> (q.pc \in HasIp \/ (q.pc = "namex" /\ q.ret = "link2"))
  /\ q.pc = "namex" => q.ret # "idle"
  /\ q.pc \in Rets => q.ret = q.pc
  /\ q.ret = "link2" => q.pc \in {"namex", "link2"}
  /\ q.pc \in WantsParent \cup {"unlink2", "create3"} /\ q.cur # 0 => q.path # <<>>
  /\ Len(q.puts) <= 2
  /\ q.freeing # "no" => q.puts # <<>>

\* The inode that a process has locked, 0 if there is none.
LockOf(q) ==
  IF q.pc \in {"unlink2", "unlinkbad", "create3"} THEN q.cur
  ELSE IF q.pc \in {"unlink3", "made", "open2"} THEN q.ip ELSE 0

\* Every process is at a place of its call with the pointers that belong there.
FramesOK == th \in [Proc -> Frame] /\ \A p \in Proc : Place(th[p])
\* A descriptor is of an open file, and no two descriptors of one file: a file is
\* closed by its one descriptor, which drops its one reference.
FilesOpen ==
  /\ \A p \in Proc, d \in 1..NOFILE :
        ofile[p][d] # 0 => file[ofile[p][d]] # 0
  /\ \A p, r \in Proc, d, e \in 1..NOFILE :
        ofile[p][d] # 0 /\ ofile[p][d] = ofile[r][e] => p = r /\ d = e
\* The lock of an inode is held by the process whose place says so: none is left
\* locked when a call moves on, and none is unlocked by another.
LocksHeld ==
  \A i \in Inum, p \in Proc : icache[i].lock = p <=> LockOf(th[p]) = i

\* The inductive invariant.
RefInv == RefsAreCounted /\ FramesOK /\ FilesOpen /\ LocksHeld
-----------------------------------------------------------------------------
(* The functions of the cache: idup, iget, ilock, iunlock, the fields.     *)

B(P) == IF P THEN 1 ELSE 0
One(a, i) == IF a = i THEN 1 ELSE 0

LEMMA Numbers ==
  /\ Inum \subseteq Nat /\ 0 \notin Inum /\ ROOTINO \in Inum
  /\ 0..NInodes = Inum \cup {0}
BY FSAssumption, SMTT(30) DEF Inum, ROOTINO

\* The cache jc is ic but for the inode i, which has n references and the lock l.
Changed(ic, jc, i, n, l) ==
  /\ jc \in Cache /\ jc[i].ref = n /\ jc[i].lock = l
  /\ \A j \in Inum \ {i} : jc[j] = ic[j]

LEMMA ChangedTo ==
  ASSUME NEW ic \in Cache, NEW i \in Inum, NEW c \in CacheRec
  PROVE  Changed(ic, [ic EXCEPT ![i] = c], i, c.ref, c.lock)
BY DEF Changed, Cache

\* What the operations of the inode layer do to the references and the locks of a
\* cache.
LEMMA IdupCache ==
  ASSUME NEW ic \in Cache, NEW i \in Inum
  PROVE  Changed(ic, idup(ic, i), i, ic[i].ref + 1, ic[i].lock)
<1>1. PICK c : c = [ic[i] EXCEPT !.ref = @ + 1]
  BY Zenon
<1>2. c \in CacheRec /\ c.ref = ic[i].ref + 1 /\ c.lock = ic[i].lock
  BY <1>1, SMTT(30) DEF Cache, CacheRec
<1>3. idup(ic, i) = [ic EXCEPT ![i] = c]
  BY <1>1 DEF idup
<1>4. QED
  BY <1>2, <1>3, ChangedTo

LEMMA IgetCache ==
  ASSUME NEW ic \in Cache, NEW i \in Inum
  PROVE  \E l : /\ Changed(ic, iget(ic, i), i, ic[i].ref + 1, l)
                /\ l = IF ic[i].ref = 0 THEN None ELSE ic[i].lock
<1>1. CASE ic[i].ref = 0
  <2>1. PICK b : b = [Unused EXCEPT !.ref = 1]
    OBVIOUS
  <2>2. b = [ref |-> 1, valid |-> FALSE, type |-> "none", nlink |-> 0, lock |-> None]
    BY <2>1 DEF Unused
  <2>3. b \in CacheRec /\ b.ref = ic[i].ref + 1 /\ b.lock = None
    BY <1>1, <2>2, SMTT(30) DEF CacheRec, Type
  <2>4. iget(ic, i) = [ic EXCEPT ![i] = b]
    BY <1>1, <2>1 DEF iget
  <2>5. QED
    BY <1>1, <2>3, <2>4, ChangedTo
<1>2. CASE ic[i].ref # 0
  BY <1>2, IdupCache DEF iget
<1>3. QED
  BY <1>1, <1>2

LEMMA IlockCache ==
  ASSUME TypeOK, NEW ic \in Cache, NEW i \in Inum, NEW p \in Proc \cup {None}
  PROVE  Changed(ic, ilock(ic, i, p), i, ic[i].ref, p)
<1>1. ic[i] \in CacheRec /\ dinode[i] \in [type : Type, nlink : Int]
  BY DEF Cache, TypeOK
<1>2. PICK t, n : /\ t = IF ic[i].valid THEN ic[i].type ELSE dinode[i].type
                  /\ n = IF ic[i].valid THEN ic[i].nlink ELSE dinode[i].nlink
  OBVIOUS
<1>3. PICK c : c = [ref |-> ic[i].ref, valid |-> TRUE, lock |-> p, type |-> t,
                    nlink |-> n]
  OBVIOUS
<1>4. c \in CacheRec /\ c.ref = ic[i].ref /\ c.lock = p
  BY <1>1, <1>2, <1>3 DEF CacheRec
<1>5. ilock(ic, i, p) = [ic EXCEPT ![i] = c]
  BY <1>2, <1>3 DEF ilock
<1>6. QED
  BY <1>4, <1>5, ChangedTo

LEMMA IunlockCache ==
  ASSUME NEW ic \in Cache, NEW i \in Inum
  PROVE  Changed(ic, iunlock(ic, i), i, ic[i].ref, None)
<1>1. PICK c : c = [ic[i] EXCEPT !.lock = None]
  OBVIOUS
<1>2. c \in CacheRec /\ c.ref = ic[i].ref /\ c.lock = None
  BY <1>1 DEF Cache, CacheRec
<1>3. iunlock(ic, i) = [ic EXCEPT ![i] = c]
  BY <1>1 DEF iunlock
<1>4. QED
  BY <1>2, <1>3, ChangedTo

WithNlink(ic, i, n) == [ic EXCEPT ![i].nlink = n]
WithType(ic, i, t) == [ic EXCEPT ![i].type = t]

LEMMA FieldCache ==
  ASSUME NEW ic \in Cache, NEW i \in Inum
  PROVE  /\ \A n \in Int : Changed(ic, WithNlink(ic, i, n), i, ic[i].ref, ic[i].lock)
         /\ \A t \in Type : Changed(ic, WithType(ic, i, t), i, ic[i].ref, ic[i].lock)
<1>1. ASSUME NEW n \in Int
      PROVE  Changed(ic, WithNlink(ic, i, n), i, ic[i].ref, ic[i].lock)
  <2>1. PICK c : c = [ic[i] EXCEPT !.nlink = n]
    OBVIOUS
  <2>2. c \in CacheRec /\ c.ref = ic[i].ref /\ c.lock = ic[i].lock
    BY <2>1 DEF Cache, CacheRec
  <2>3. WithNlink(ic, i, n) = [ic EXCEPT ![i] = c]
    BY <2>1 DEF WithNlink
  <2>4. QED
    BY <2>2, <2>3, ChangedTo
<1>2. ASSUME NEW t \in Type
      PROVE  Changed(ic, WithType(ic, i, t), i, ic[i].ref, ic[i].lock)
  <2>1. PICK c : c = [ic[i] EXCEPT !.type = t]
    OBVIOUS
  <2>2. c \in CacheRec /\ c.ref = ic[i].ref /\ c.lock = ic[i].lock
    BY <2>1 DEF Cache, CacheRec
  <2>3. WithType(ic, i, t) = [ic EXCEPT ![i] = c]
    BY <2>1 DEF WithType
  <2>4. QED
    BY <2>2, <2>3, ChangedTo
<1>3. QED
  BY <1>1, <1>2
-----------------------------------------------------------------------------
(* Counting: a pointer is a pair of its owner and a number, and a step     *)
(* changes those of one process and of one open file.                      *)

\* The pointers of one process and of one open file to an inode.
Put(s, n) == IF n <= Len(s) THEN s[n] ELSE 0
Own(c, q, v, i) ==
  One(c, i) + One(q.cur, i) + One(q.ip, i) + One(Put(q.puts, 1), i)
    + One(Put(q.puts, 2), i) + One(v, i)
FileAt(f) == IF f \in 1..NFILE THEN file[f] ELSE 0

LEMMA HolderOf ==
  ASSUME NEW i \in Inum, NEW p \in Proc, FramesOK
  PROVE  /\ <<p, 0>> \in Holders(i) <=> cwd[p] = i
         /\ <<p, -1>> \in Holders(i) <=> th[p].cur = i
         /\ <<p, -2>> \in Holders(i) <=> th[p].ip = i
         /\ <<p, 1>> \in Holders(i) <=> Put(th[p].puts, 1) = i
         /\ <<p, 2>> \in Holders(i) <=> Put(th[p].puts, 2) = i
<1>1. th[p].puts \in Seq(Inum) /\ i # 0
  BY Numbers DEF FramesOK, Frame
<1>2. QED
  BY <1>1, FSAssumption, SMTT(30) DEF Holders, Put

LEMMA FileHolderOf ==
  ASSUME NEW i \in Inum, NEW f
  PROVE  <<None, f>> \in Holders(i) <=> FileAt(f) = i
BY FSAssumption, Numbers DEF Holders, FileAt

LEMMA HolderIs ==
  ASSUME NEW i, NEW x \in Holders(i)
  PROVE  x \in (Proc \X (-2..2)) \cup ({None} \X (1..NFILE))
BY FSAssumption, SMTT(30) DEF Holders

LEMMA HoldersFinite ==
  ASSUME NEW i
  PROVE  IsFiniteSet(Holders(i)) /\ Cardinality(Holders(i)) \in Nat
<1>a. IsFiniteSet(-2..2) /\ IsFiniteSet(1..NFILE) /\ IsFiniteSet(Proc)
  <2>1. -2 \in Int /\ 2 \in Int /\ 1 \in Int /\ NFILE \in Int
    BY FSAssumption, SMTT(30)
  <2>2. IsFiniteSet(-2..2)
    BY <2>1, FS_Interval
  <2>3. IsFiniteSet(1..NFILE)
    BY <2>1, FS_Interval
  <2>4. QED
    BY <2>2, <2>3, FSAssumption
<1>b. IsFiniteSet({None})
  BY FS_Singleton
<1>1. IsFiniteSet(Proc \X (-2..2))
  BY <1>a, FS_Product
<1>2. IsFiniteSet({None} \X (1..NFILE))
  BY <1>a, <1>b, FS_Product
<1>3. IsFiniteSet((Proc \X (-2..2)) \cup ({None} \X (1..NFILE)))
  BY <1>1, <1>2, FS_Union
<1>4. Holders(i) \subseteq (Proc \X (-2..2)) \cup ({None} \X (1..NFILE))
  BY HolderIs
<1>5. QED
  BY <1>3, <1>4, FS_Subset, FS_CardinalityType

LEMMA CountWithout ==
  ASSUME NEW H, IsFiniteSet(H), NEW x
  PROVE  /\ IsFiniteSet(H \ {x})
         /\ Cardinality(H) \in Nat /\ Cardinality(H \ {x}) \in Nat
         /\ Cardinality(H) = Cardinality(H \ {x}) + B(x \in H)
<1>1. /\ IsFiniteSet(H \ {x})
      /\ Cardinality(H \ {x}) = IF x \in H THEN Cardinality(H) - 1 ELSE Cardinality(H)
  BY FS_RemoveElement
<1>2. Cardinality(H) \in Nat /\ Cardinality(H \ {x}) \in Nat
  BY <1>1, FS_CardinalityType
<1>3. QED
  BY <1>1, <1>2, SMTT(30) DEF B, One

\* When one process, and one open file, change their pointers, the number of
\* pointers to an inode changes by as much as theirs.
LEMMA Recount ==
  ASSUME FramesOK, FramesOK', NEW p \in Proc, NEW f, NEW i \in Inum,
         \A r \in Proc \ {p} : th'[r] = th[r] /\ cwd'[r] = cwd[r],
         \A g \in 1..NFILE : g # f => file'[g] = file[g]
  PROVE  Cardinality(Holders(i)') + Own(cwd[p], th[p], FileAt(f), i)
           = Cardinality(Holders(i)) + Own(cwd'[p], th'[p], FileAt(f)', i)
<1> DEFINE Six == {<<p, 0>>, <<p, -1>>, <<p, -2>>, <<p, 1>>, <<p, 2>>, <<None, f>>}
<1>0. ASSUME NEW H, IsFiniteSet(H)
      PROVE  /\ Cardinality(H) = Cardinality(H \ Six)
                  + B(<<p, 0>> \in H) + B(<<p, -1>> \in H) + B(<<p, -2>> \in H)
                  + B(<<p, 1>> \in H) + B(<<p, 2>> \in H) + B(<<None, f>> \in H)
             /\ Cardinality(H \ Six) \in Nat
  <2>0. PICK a, b, c, d, e, g : /\ a = <<p, 0>> /\ b = <<p, -1>> /\ c = <<p, -2>>
                                /\ d = <<p, 1>> /\ e = <<p, 2>> /\ g = <<None, f>>
    OBVIOUS
  <2>1. PICK H1, H2, H3, H4, H5, H6 :
          /\ H1 = H \ {a} /\ H2 = H1 \ {b} /\ H3 = H2 \ {c} /\ H4 = H3 \ {d}
          /\ H5 = H4 \ {e} /\ H6 = H5 \ {g}
    OBVIOUS
  <2>2. /\ IsFiniteSet(H1) /\ Cardinality(H) = Cardinality(H1) + B(a \in H)
    BY <1>0, <2>1, CountWithout
  <2>3. /\ IsFiniteSet(H2) /\ Cardinality(H1) = Cardinality(H2) + B(b \in H1)
    BY <2>1, <2>2, CountWithout
  <2>4. /\ IsFiniteSet(H3) /\ Cardinality(H2) = Cardinality(H3) + B(c \in H2)
    BY <2>1, <2>3, CountWithout
  <2>5. /\ IsFiniteSet(H4) /\ Cardinality(H3) = Cardinality(H4) + B(d \in H3)
    BY <2>1, <2>4, CountWithout
  <2>6. /\ IsFiniteSet(H5) /\ Cardinality(H4) = Cardinality(H5) + B(e \in H4)
    BY <2>1, <2>5, CountWithout
  <2>7. /\ Cardinality(H5) = Cardinality(H6) + B(g \in H5) /\ Cardinality(H6) \in Nat
    BY <2>1, <2>6, CountWithout
  <2>8. /\ a \notin {b, c, d, e, g} /\ b \notin {c, d, e, g} /\ c \notin {d, e, g}
        /\ d \notin {e, g} /\ e # g
    BY <2>0, FSAssumption, SMTT(30)
  <2>9. /\ b \in H1 <=> b \in H
        /\ c \in H2 <=> c \in H
        /\ d \in H3 <=> d \in H
        /\ e \in H4 <=> e \in H
        /\ g \in H5 <=> g \in H
        /\ H6 = H \ {a, b, c, d, e, g}
    BY <2>1, <2>8
  <2>10. /\ B(b \in H1) = B(b \in H) /\ B(c \in H2) = B(c \in H)
         /\ B(d \in H3) = B(d \in H) /\ B(e \in H4) = B(e \in H)
         /\ B(g \in H5) = B(g \in H) /\ \A x : B(x \in H) \in Nat
    BY <2>9 DEF B
  <2>11. QED
    BY <2>0, <2>2, <2>3, <2>4, <2>5, <2>6, <2>7, <2>9, <2>10, SMTT(30)
<1>1. \A r \in Proc :
        /\ <<r, 0>> \in Holders(i)' <=> cwd'[r] = i
        /\ <<r, -1>> \in Holders(i)' <=> th'[r].cur = i
        /\ <<r, -2>> \in Holders(i)' <=> th'[r].ip = i
        /\ <<r, 1>> \in Holders(i)' <=> Put(th'[r].puts, 1) = i
        /\ <<r, 2>> \in Holders(i)' <=> Put(th'[r].puts, 2) = i
  <2>1. \A r \in Proc : th'[r].puts \in Seq(Inum) /\ i # 0
    BY Numbers DEF FramesOK, Frame
  <2>2. QED
    BY <2>1, FSAssumption, SMTT(30) DEF Holders, Put
<1>2. /\ IsFiniteSet(Holders(i)) /\ Cardinality(Holders(i)) \in Nat
      /\ IsFiniteSet(Holders(i)') /\ Cardinality(Holders(i)') \in Nat
  <2>1. IsFiniteSet(Holders(i)) /\ Cardinality(Holders(i)) \in Nat
    BY HoldersFinite
  <2>2. (IsFiniteSet(Holders(i)) /\ Cardinality(Holders(i)) \in Nat)'
    BY HoldersFinite, PTL
  <2>3. QED
    BY <2>1, <2>2
<1>3. Holders(i)' \ Six = Holders(i) \ Six
  <2>1. ASSUME NEW r \in Proc, NEW n \in -2..2, r # p
        PROVE  <<r, n>> \in Holders(i)' <=> <<r, n>> \in Holders(i)
    <3>1. n \in {-2, -1, 0, 1, 2}
      BY SMTT(30)
    <3>2. th'[r] = th[r] /\ cwd'[r] = cwd[r]
      BY <2>1
    <3>3. /\ <<r, 0>> \in Holders(i)' <=> <<r, 0>> \in Holders(i)
          /\ <<r, -1>> \in Holders(i)' <=> <<r, -1>> \in Holders(i)
          /\ <<r, -2>> \in Holders(i)' <=> <<r, -2>> \in Holders(i)
          /\ <<r, 1>> \in Holders(i)' <=> <<r, 1>> \in Holders(i)
          /\ <<r, 2>> \in Holders(i)' <=> <<r, 2>> \in Holders(i)
      BY <1>1, <3>2, HolderOf, SMTT(30)
    <3>4. QED
      BY <3>1, <3>3
  <2>2. ASSUME NEW g \in 1..NFILE, g # f
        PROVE  <<None, g>> \in Holders(i)' <=> <<None, g>> \in Holders(i)
    <3>1. <<None, g>> \in Holders(i) <=> file[g] = i
      BY FileHolderOf DEF FileAt
    <3>2. <<None, g>> \in Holders(i)' <=> file'[g] = i
      BY FSAssumption, Numbers DEF Holders
    <3>3. QED
      BY <3>1, <3>2, <2>2
  <2>3. ASSUME NEW x, x \notin Six,
               x \in (Proc \X (-2..2)) \cup ({None} \X (1..NFILE))
        PROVE  x \in Holders(i)' <=> x \in Holders(i)
    <3>1. CASE \E r \in Proc, n \in -2..2 : x = <<r, n>>
      <4>1. PICK r \in Proc, n \in -2..2 : x = <<r, n>>
        BY <3>1
      <4>2. n \in {-2, -1, 0, 1, 2}
        BY SMTT(30)
      <4>3. r # p
        BY <2>3, <4>1, <4>2
      <4>4. QED
        BY <2>1, <4>1, <4>3
    <3>2. CASE \E g \in 1..NFILE : x = <<None, g>>
      BY <2>2, <2>3, <3>2
    <3>3. QED
      BY <2>3, <3>1, <3>2, SMTT(30)
  <2>4. \A x \in Holders(i) : x \in (Proc \X (-2..2)) \cup ({None} \X (1..NFILE))
    BY HolderIs
  <2>5. \A x \in Holders(i)' : x \in (Proc \X (-2..2)) \cup ({None} \X (1..NFILE))
    BY FSAssumption, SMTT(30) DEF Holders
  <2>6. QED
    BY <2>3, <2>4, <2>5
<1>4. /\ Cardinality(Holders(i))
           = Cardinality(Holders(i) \ Six) + Own(cwd[p], th[p], FileAt(f), i)
      /\ Cardinality(Holders(i) \ Six) \in Nat
      /\ Own(cwd[p], th[p], FileAt(f), i) \in Nat
  <2>1. PICK H : H = Holders(i)
    OBVIOUS
  <2>2. /\ Cardinality(H) = Cardinality(H \ Six)
             + B(<<p, 0>> \in H) + B(<<p, -1>> \in H) + B(<<p, -2>> \in H)
             + B(<<p, 1>> \in H) + B(<<p, 2>> \in H) + B(<<None, f>> \in H)
        /\ Cardinality(H \ Six) \in Nat
    BY <1>0, <1>2, <2>1
  <2>3. /\ B(<<p, 0>> \in H) = One(cwd[p], i)
        /\ B(<<p, -1>> \in H) = One(th[p].cur, i)
        /\ B(<<p, -2>> \in H) = One(th[p].ip, i)
        /\ B(<<p, 1>> \in H) = One(Put(th[p].puts, 1), i)
        /\ B(<<p, 2>> \in H) = One(Put(th[p].puts, 2), i)
        /\ B(<<None, f>> \in H) = One(FileAt(f), i)
    BY <2>1, HolderOf, FileHolderOf, SMTT(30) DEF B, One
  <2>4. QED
    BY <2>1, <2>2, <2>3, SMTT(30) DEF Own, B, One
<1>5. /\ Cardinality(Holders(i)')
           = Cardinality(Holders(i)' \ Six) + Own(cwd'[p], th'[p], FileAt(f)', i)
      /\ Own(cwd'[p], th'[p], FileAt(f)', i) \in Nat
  <2>1. PICK H : H = Holders(i)'
    OBVIOUS
  <2>2. /\ Cardinality(H) = Cardinality(H \ Six)
             + B(<<p, 0>> \in H) + B(<<p, -1>> \in H) + B(<<p, -2>> \in H)
             + B(<<p, 1>> \in H) + B(<<p, 2>> \in H) + B(<<None, f>> \in H)
        /\ Cardinality(H \ Six) \in Nat
    BY <1>0, <1>2, <2>1
  <2>3. <<None, f>> \in Holders(i)' <=> FileAt(f)' = i
    BY FSAssumption, Numbers DEF Holders, FileAt
  <2>4. /\ B(<<p, 0>> \in H) = One(cwd'[p], i)
        /\ B(<<p, -1>> \in H) = One(th'[p].cur, i)
        /\ B(<<p, -2>> \in H) = One(th'[p].ip, i)
        /\ B(<<p, 1>> \in H) = One(Put(th'[p].puts, 1), i)
        /\ B(<<p, 2>> \in H) = One(Put(th'[p].puts, 2), i)
        /\ B(<<None, f>> \in H) = One(FileAt(f)', i)
    BY <1>1, <2>1, <2>3 DEF B, One
  <2>5. QED
    BY <2>1, <2>2, <2>4, SMTT(30) DEF Own, B, One
<1>6. QED
  BY <1>2, <1>3, <1>4, <1>5, SMTT(30)
-----------------------------------------------------------------------------
\* The pointers of a system call.
Ptrs(q, i) ==
  One(q.cur, i) + One(q.ip, i) + One(Put(q.puts, 1), i) + One(Put(q.puts, 2), i)

\* One call moves to another place.
LEMMA FramesStep ==
  ASSUME FramesOK, NEW p \in Proc, NEW q \in Frame, Place(q),
         th' = [th EXCEPT ![p] = q]
  PROVE  FramesOK' /\ th'[p] = q /\ \A r \in Proc \ {p} : th'[r] = th[r]
BY DEF FramesOK

\* The locks after a step of p.
LEMMA LocksStep ==
  ASSUME FramesOK, LocksHeld, NEW p \in Proc, NEW q, th' = [th EXCEPT ![p] = q],
         \A j \in Inum :
           /\ icache'[j].lock = p <=> LockOf(q) = j
           /\ \A r \in Proc \ {p} : icache'[j].lock = r <=> icache[j].lock = r
  PROVE  LocksHeld'
<1>1. th'[p] = q /\ \A r \in Proc \ {p} : th'[r] = th[r]
  BY DEF FramesOK
<1> SUFFICES ASSUME NEW i \in Inum, NEW r \in Proc
             PROVE  icache'[i].lock = r <=> LockOf(th'[r]) = i
  BY DEF LocksHeld
<1>2. CASE r = p
  BY <1>1, <1>2
<1>3. CASE r # p
  BY <1>1, <1>3, SMTT(30) DEF LocksHeld
<1>4. QED
  BY <1>2, <1>3

\* The count of one inode after a step of p.
LEMMA RefStep ==
  ASSUME FramesOK, FramesOK', NEW p \in Proc, NEW i \in Inum,
         \A r \in Proc \ {p} : th'[r] = th[r], UNCHANGED <<file, cwd>>,
         NEW m \in Nat, m = Cardinality(Holders(i)),
         NEW n \in Nat, n + Ptrs(th[p], i) = m + Ptrs(th'[p], i)
  PROVE  n = Cardinality(Holders(i)')
<1>1. FileAt(0) = 0 /\ FileAt(0)' = 0
  BY SMTT(30) DEF FileAt
<1>2. Cardinality(Holders(i)') + Own(cwd[p], th[p], FileAt(0), i)
         = Cardinality(Holders(i)) + Own(cwd'[p], th'[p], FileAt(0)', i)
  BY Recount
<1>3. PICK b \in Nat :
        /\ Own(cwd[p], th[p], FileAt(0), i) = b + Ptrs(th[p], i)
        /\ Own(cwd'[p], th'[p], FileAt(0)', i) = b + Ptrs(th'[p], i)
  BY <1>1, Numbers, SMTT(30) DEF Own, Ptrs, B, One
<1>4. Ptrs(th[p], i) \in Nat /\ Ptrs(th'[p], i) \in Nat
  BY SMTT(30) DEF Ptrs, B, One
<1>5. Cardinality(Holders(i)') \in Nat
  <2>1. (Cardinality(Holders(i)) \in Nat)'
    BY HoldersFinite, PTL
  <2>2. QED
    BY <2>1
<1>6. QED
  BY <1>2, <1>3, <1>4, <1>5, SMTT(30)

\* A step that leaves the current directories and the open files alone keeps the
\* invariant if it moves the counts and the locks as it moves its pointers.
LEMMA CallStep ==
  ASSUME RefInv, NEW p \in Proc, NEW q \in Frame, Place(q),
         th' = [th EXCEPT ![p] = q], icache' \in Cache,
         dinode' \in [Inum -> [type : Type, nlink : Int]],
         dir' \in [Inum -> [Name \cup Dots -> 0..NInodes]],
         UNCHANGED <<file, ofile, cwd>>,
         \A j \in Inum :
           /\ icache'[j].ref + Ptrs(th[p], j) = icache[j].ref + Ptrs(q, j)
           /\ icache'[j].lock = p <=> LockOf(q) = j
           /\ \A r \in Proc \ {p} : icache'[j].lock = r <=> icache[j].lock = r
  PROVE  RefInv'
<1>1. FramesOK' /\ th'[p] = q /\ \A r \in Proc \ {p} : th'[r] = th[r]
  BY FramesStep DEF RefInv
<1>2. TypeOK'
  BY DEF RefInv, RefsAreCounted, TypeOK, Cache, CacheRec
<1>3. FilesOpen'
  BY SMTT(30) DEF RefInv, FilesOpen
<1>4. LocksHeld'
  BY LocksStep DEF RefInv
<1>5. ASSUME NEW i \in Inum
      PROVE  icache'[i].ref = Cardinality(Holders(i)')
  <2>1. icache[i].ref = Cardinality(Holders(i)) /\ icache[i].ref \in Nat
        /\ icache'[i].ref \in Nat
    BY DEF RefInv, RefsAreCounted, TypeOK, Cache, CacheRec
  <2>2. icache'[i].ref + Ptrs(th[p], i) = icache[i].ref + Ptrs(th'[p], i)
    BY <1>1
  <2>3. FramesOK
    BY DEF RefInv
  <2>4. QED
    BY <1>1, <2>1, <2>2, <2>3, RefStep, SMTT(30)
<1>6. QED
  BY <1>1, <1>2, <1>3, <1>4, <1>5 DEF RefInv, RefsAreCounted
-----------------------------------------------------------------------------
(* What the invariant says of a process; the frame of a call that ends.    *)

LEMMA Types ==
  ASSUME RefInv
  PROVE  /\ TypeOK /\ icache \in Cache
         /\ \A p \in Proc : th[p] \in Frame /\ Place(th[p]) /\ cwd[p] \in Inum
BY DEF RefInv, RefsAreCounted, TypeOK, Cache, CacheRec, FramesOK

LEMMA FrameOf ==
  ASSUME NEW r \in Frame, Place(r)
  PROVE  /\ r.cur \in Inum \cup {0} /\ r.ip \in Inum \cup {0} /\ 0 \notin Inum
         /\ r.pc \in WantsParent \cup {"unlink2", "create3"} /\ r.cur # 0
            => Head(r.path) \in Name \cup Dots
<1>1. r.path \in Seq(Name \cup Dots)
  BY DEF Frame
<1>2. QED
  BY <1>1, Numbers, SMTT(30) DEF Frame, Place

LEMMA PutOf ==
  ASSUME NEW a, NEW b
  PROVE  /\ Put(<<>>, 1) = 0 /\ Put(<<>>, 2) = 0
         /\ Put(<<a>>, 1) = a /\ Put(<<a>>, 2) = 0
         /\ Put(<<a, b>>, 1) = a /\ Put(<<a, b>>, 2) = b
BY SMTT(30) DEF Put

LEMMA PtrsNone ==
  ASSUME NEW q, q.puts = <<>>, NEW j \in Inum
  PROVE  Ptrs(q, j) = One(q.cur, j) + One(q.ip, j)
<1>1. 0 # j /\ Put(q.puts, 1) = 0 /\ Put(q.puts, 2) = 0
  BY Numbers, PutOf
<1>2. QED
  BY <1>1, SMTT(30) DEF Ptrs, B, One

LEMMA PutTail ==
  ASSUME NEW s \in Seq(Inum), Len(s) <= 2, s # <<>>
  PROVE  /\ Head(s) \in Inum /\ Put(s, 1) = Head(s)
         /\ Tail(s) \in Seq(Inum) /\ Len(Tail(s)) <= 2
         /\ Put(Tail(s), 1) = Put(s, 2) /\ Put(Tail(s), 2) = 0
BY SMTT(30) DEF Put

LEMMA IsFrame ==
  ASSUME NEW a \in PC, NEW b \in Seq(Name \cup Dots), NEW c \in Rets \cup {"idle"},
         NEW d \in 0..NInodes, NEW e \in 0..NInodes, NEW f \in PathName, NEW g \in Type,
         NEW h \in Seq(Inum), NEW k \in {"no", "itrunc", "flags"}
  PROVE  [pc |-> a, path |-> b, ret |-> c, cur |-> d, ip |-> e, new |-> f, type |-> g,
          puts |-> h, freeing |-> k] \in Frame
BY DEF Frame

\* The frame of a call that is over, but for what it drops.
Over(s) == [pc |-> "idle", path |-> <<>>, ret |-> "idle", cur |-> 0, ip |-> 0,
            new |-> NoPath, type |-> "none", puts |-> s, freeing |-> "no"]

LEMMA OverFrame ==
  ASSUME NEW s \in Seq(Inum), Len(s) <= 2
  PROVE  /\ Over(s) \in Frame /\ Place(Over(s)) /\ LockOf(Over(s)) = 0
         /\ Over(s).cur = 0 /\ Over(s).ip = 0 /\ Over(s).puts = s
<1>1. NoPath \in PathName /\ 0 \in 0..NInodes
  BY Numbers, SMTT(30) DEF NoPath, PathName
<1>2. <<>> \in Seq(Name \cup Dots) /\ "idle" \in PC /\ "none" \in Type
      /\ "idle" \in Rets \cup {"idle"} /\ "no" \in {"no", "itrunc", "flags"}
  BY SMTT(30) DEF PC, Type
<1>3. PICK q : q = Over(s)
  OBVIOUS
<1>4. q \in Frame
  BY <1>1, <1>2, <1>3, IsFrame DEF Over
<1>5. /\ q.pc = "idle" /\ q.cur = 0 /\ q.ip = 0 /\ q.puts = s /\ q.freeing = "no"
      /\ q.path = <<>> /\ q.ret = "idle"
  BY <1>3 DEF Over
<1>6. QED
  BY <1>3, <1>4, <1>5 DEF Place, LockOf, NoCur, HasCur, HasIp, Rets, WantsParent

LEMMA ReturnIs ==
  ASSUME NEW p, NEW s, Return(p, s)
  PROVE  th' = [th EXCEPT ![p] = Over(s)]
<1>1. [Idle EXCEPT !.puts = s] = Over(s)
  BY SMTT(30) DEF Idle, Over
<1>2. QED
  BY <1>1 DEF Return

\* At boot, root is referenced by the current directory of every process.
LEMMA InitRefs ==
  ASSUME Init
  PROVE  RefInv
<1>1. /\ icache \in Cache
      /\ icache[ROOTINO].ref = Cardinality(Proc)
      /\ \A i \in Inum : /\ icache[i].lock = None
                         /\ i # ROOTINO => icache[i].ref = 0
  <2>1. PICK u : u = [Unused EXCEPT !.ref = Cardinality(Proc)]
    OBVIOUS
  <2>2. u = [ref |-> Cardinality(Proc), valid |-> FALSE, type |-> "none", nlink |-> 0,
             lock |-> None]
    BY <2>1 DEF Unused
  <2>3. Cardinality(Proc) \in Nat
    BY FSAssumption, FS_CardinalityType
  <2>4. u \in CacheRec /\ u.ref = Cardinality(Proc) /\ u.lock = None
    BY <2>2, <2>3, SMTT(30) DEF CacheRec, Type
  <2>5. Unused \in CacheRec /\ Unused.ref = 0 /\ Unused.lock = None
    BY SMTT(30) DEF Unused, CacheRec, Type
  <2>6. icache = [i \in Inum |-> IF i = ROOTINO THEN u ELSE Unused]
    BY <2>1 DEF Init
  <2>7. QED
    BY <2>4, <2>5, <2>6, Numbers DEF Cache
<1>2. /\ \A p \in Proc : th[p] = Over(<<>>) /\ cwd[p] = ROOTINO
      /\ th = [p \in Proc |-> Over(<<>>)]
  BY DEF Init, Idle, Over
<1>3. FramesOK
  <2>1. <<>> \in Seq(Inum) /\ Len(<<>>) <= 2
    BY SMTT(30)
  <2>2. Over(<<>>) \in Frame /\ Place(Over(<<>>))
    BY <2>1, OverFrame
  <2>3. QED
    BY <1>2, <2>2 DEF FramesOK
<1>4. TypeOK
  <2>1. dinode \in [Inum -> [type : Type, nlink : Int]]
    BY SMTT(30) DEF Init, Type
  <2>2. dir \in [Inum -> [Name \cup Dots -> 0..NInodes]]
    <3>1. PICK e : e = [NoEntries EXCEPT !["."] = 1, ![".."] = 1]
      OBVIOUS
    <3>2. NoEntries \in [Name \cup Dots -> 0..NInodes] /\ 1 \in 0..NInodes
      BY FSAssumption, SMTT(30) DEF NoEntries
    <3>3. e \in [Name \cup Dots -> 0..NInodes]
      BY <3>1, <3>2 DEF Dots
    <3>4. dir = [i \in Inum |-> IF i = ROOTINO THEN e ELSE NoEntries]
      BY <3>1 DEF Init
    <3>5. QED
      BY <3>2, <3>3, <3>4
  <2>3. /\ file \in [1..NFILE -> 0..NInodes]
        /\ ofile \in [Proc -> [1..NOFILE -> 0..NFILE]]
        /\ cwd \in [Proc -> Inum]
    BY FSAssumption, Numbers, SMTT(30) DEF Init
  <2>4. QED
    BY <1>1, <2>1, <2>2, <2>3 DEF TypeOK, Cache, CacheRec
<1>5. FilesOpen
  BY DEF Init, FilesOpen
<1>6. LocksHeld
  <2>1. <<>> \in Seq(Inum) /\ Len(<<>>) <= 2
    BY SMTT(30)
  <2>2. LockOf(Over(<<>>)) = 0
    BY <2>1, OverFrame
  <2>3. QED
    BY <1>1, <1>2, <2>2, FSAssumption, Numbers DEF LocksHeld
<1>7. ASSUME NEW i \in Inum
      PROVE  icache[i].ref = Cardinality(Holders(i))
  <2>1. <<>> \in Seq(Inum) /\ Len(<<>>) <= 2 /\ i # 0
    BY Numbers, SMTT(30)
  <2>2. \A p \in Proc : th[p].cur = 0 /\ th[p].ip = 0 /\ Len(th[p].puts) = 0
    BY <1>2, <2>1, OverFrame
  <2>3. \A f \in 1..NFILE : file[f] = 0
    BY DEF Init
  <2>4. CASE i = ROOTINO
    <3>1. Holders(i) = Proc \X {0}
      BY <1>2, <2>1, <2>2, <2>3, <2>4, SMTT(30) DEF Holders
    <3>2. /\ IsFiniteSet({0}) /\ Cardinality({0}) = 1
          /\ Cardinality(Proc) \in Nat
      BY FS_Singleton, FSAssumption, FS_CardinalityType
    <3>3. Cardinality(Proc \X {0}) = Cardinality(Proc) * 1
      BY <3>2, FS_Product, FSAssumption
    <3>4. QED
      BY <1>1, <2>4, <3>1, <3>2, <3>3, SMTT(30)
  <2>5. CASE i # ROOTINO
    <3>1. Holders(i) = {}
      BY <1>2, <2>1, <2>2, <2>3, <2>5, SMTT(30) DEF Holders
    <3>2. QED
      BY <1>1, <2>5, <3>1, FS_EmptySet
  <2>6. QED
    BY <2>4, <2>5
<1>8. QED
  BY <1>3, <1>4, <1>5, <1>6, <1>7 DEF RefInv, RefsAreCounted

\* Whoever has an inode locked refers to it.
LEMMA HoldersCount ==
  ASSUME RefInv, NEW i \in Inum, NEW x \in Holders(i)
  PROVE  /\ icache[i].ref >= 1
         /\ \A y \in Holders(i) : y # x => icache[i].ref >= 2
<1>1. /\ IsFiniteSet(Holders(i)) /\ icache[i].ref = Cardinality(Holders(i))
  BY HoldersFinite DEF RefInv, RefsAreCounted
<1>2. PICK H : H = Holders(i)
  OBVIOUS
<1>3. /\ IsFiniteSet(H \ {x}) /\ Cardinality(H \ {x}) \in Nat
      /\ Cardinality(H) = Cardinality(H \ {x}) + 1
  BY <1>1, <1>2, CountWithout DEF B, One
<1>4. ASSUME NEW y \in H, y # x
      PROVE  Cardinality(H) >= 2
  <2>1. PICK K : K = H \ {x}
    OBVIOUS
  <2>2. Cardinality(K) = Cardinality(K \ {y}) + 1 /\ Cardinality(K \ {y}) \in Nat
    BY <1>3, <1>4, <2>1, CountWithout, SMTT(30) DEF B, One
  <2>3. QED
    BY <1>3, <2>1, <2>2, SMTT(30)
<1>5. Cardinality(H) >= 1
  BY <1>3, SMTT(30)
<1>6. QED
  BY <1>1, <1>2, <1>4, <1>5

LEMMA LockedRef ==
  ASSUME RefInv, NEW i \in Inum, NEW r \in Proc, icache[i].lock = r
  PROVE  /\ icache[i].ref >= 1
         /\ \A p \in Proc : Put(th[p].puts, 1) = i => icache[i].ref >= 2
<1>1. LockOf(th[r]) = i /\ FramesOK
  BY DEF RefInv, LocksHeld
<1>2. th[r].cur = i \/ th[r].ip = i
  BY <1>1, Numbers DEF LockOf
<1>3. PICK n \in {-1, -2} : <<r, n>> \in Holders(i)
  BY <1>1, <1>2, HolderOf
<1>4. ASSUME NEW p \in Proc, Put(th[p].puts, 1) = i
      PROVE  <<p, 1>> \in Holders(i) /\ <<p, 1>> # <<r, n>>
  <2>1. <<p, 1>> \in Holders(i)
    BY <1>1, <1>4, HolderOf
  <2>2. <<p, 1>> # <<r, n>>
    BY <1>3, SMTT(30)
  <2>3. QED
    BY <2>1, <2>2
<1>5. QED
  BY <1>3, <1>4, HoldersCount

LEMMA PointedRef ==
  ASSUME RefInv, NEW i \in Inum, NEW p \in Proc,
         i \in {cwd[p], th[p].cur, th[p].ip, Put(th[p].puts, 1)}
  PROVE  icache[i].ref >= 1
<1>1. FramesOK
  BY DEF RefInv
<1>2. \E x : x \in Holders(i)
  BY <1>1, HolderOf, ZenonT(30)
<1>3. QED
  BY <1>2, HoldersCount

\* iget locks nothing, and unlocks nothing.
LEMMA IgetLocks ==
  ASSUME NEW ic \in Cache, NEW i \in Inum, ic[i].ref = 0 => ic[i].lock \notin Proc
  PROVE  \A j \in Inum : \A r \in Proc : iget(ic, i)[j].lock = r <=> ic[j].lock = r
<1>1. ASSUME NEW j \in Inum, NEW r \in Proc
      PROVE  iget(ic, i)[j].lock = r <=> ic[j].lock = r
  <2>1. CASE j # i
    <3>1. iget(ic, i)[j] = ic[j]
      BY <2>1, IgetCache, SMTT(30) DEF Changed
    <3>2. QED
      BY <3>1
  <2>2. CASE j = i /\ ic[i].ref # 0
    BY <2>2, IgetCache, SMTT(30) DEF Changed
  <2>3. CASE j = i /\ ic[i].ref = 0
    <3>1. iget(ic, i)[i].lock = None
      BY <2>3, IgetCache DEF Changed
    <3>2. QED
      BY <2>3, <3>1, FSAssumption
  <2>4. QED
    BY <2>1, <2>2, <2>3
<1>2. QED
  BY <1>1

-----------------------------------------------------------------------------
(* Steps, as what they do to the pointers of a call and to the cache.      *)

\* A step takes the cache from ic to jc: the inode g gains a reference (none if it
\* is 0), and p, which is the only one to lock or unlock, holds the lock of l.
Effect(ic, jc, g, p, l) ==
  /\ jc \in Cache
  /\ \A j \in Inum :
       /\ jc[j].ref = ic[j].ref + One(g, j)
       /\ jc[j].lock = p <=> l = j
       /\ \A s \in Proc \ {p} : jc[j].lock = s <=> ic[j].lock = s

Dinodes == [Inum -> [type : Type, nlink : Int]]
Dirs == [Inum -> [Name \cup Dots -> 0..NInodes]]

LEMMA DiskTypes ==
  ASSUME RefInv
  PROVE  dinode \in Dinodes /\ dir \in Dirs
BY Types DEF TypeOK, Dinodes, Dirs

\* The frame q comes after r: the call has the pointers of r and one more to g (none
\* if it is 0), and the lock of l.
Moves(r, q, g, l) ==
  /\ q \in Frame /\ Place(q) /\ LockOf(q) = l
  /\ \A j \in Inum : Ptrs(q, j) = Ptrs(r, j) + One(g, j)

\* What a directory refers to is an inode.
LEMMA EntryIs ==
  ASSUME RefInv, NEW d \in Inum, NEW n \in Name \cup Dots
  PROVE  dirlookup(d, n) \in Inum \cup {0}
BY DiskTypes, Numbers DEF Dirs, dirlookup

\* A step of a call, which may write to the disk.
LEMMA DiskStep ==
  ASSUME RefInv, NEW p \in Proc, NEW q, NEW g, NEW l, Moves(th[p], q, g, l),
         Effect(icache, icache', g, p, l), th' = [th EXCEPT ![p] = q],
         dinode' \in Dinodes, dir' \in Dirs, OnlyInodes
  PROVE  RefInv'
<1>1. /\ q \in Frame /\ Place(q) /\ icache' \in Cache
      /\ dinode' \in [Inum -> [type : Type, nlink : Int]]
      /\ dir' \in [Inum -> [Name \cup Dots -> 0..NInodes]]
      /\ UNCHANGED <<file, ofile, cwd>>
  BY DEF Moves, Effect, Dinodes, Dirs, OnlyInodes
<1>2. ASSUME NEW j \in Inum
      PROVE  /\ icache'[j].ref + Ptrs(th[p], j) = icache[j].ref + Ptrs(q, j)
             /\ icache'[j].lock = p <=> LockOf(q) = j
             /\ \A s \in Proc \ {p} : icache'[j].lock = s <=> icache[j].lock = s
  <2>1. icache[j].ref \in Nat /\ Ptrs(th[p], j) \in Nat /\ One(g, j) \in Nat
    BY Types, SMTT(30) DEF Cache, CacheRec, Ptrs, One
  <2>2. PICK b : b = One(g, j)
    OBVIOUS
  <2>3. Ptrs(q, j) = Ptrs(th[p], j) + b /\ icache'[j].ref = icache[j].ref + b
    BY <2>2 DEF Effect, Moves
  <2>4. icache'[j].ref + Ptrs(th[p], j) = icache[j].ref + Ptrs(q, j)
    BY <2>1, <2>2, <2>3, SMTT(30)
  <2>5. QED
    BY <2>4 DEF Effect, Moves
<1>3. QED
  BY <1>1, <1>2, CallStep

\* One that does not.
LEMMA MemoryStep ==
  ASSUME RefInv, NEW p \in Proc, NEW q, NEW g, NEW l, Moves(th[p], q, g, l),
         Effect(icache, icache', g, p, l), th' = [th EXCEPT ![p] = q],
         UNCHANGED <<dinode, dir>>, OnlyInodes
  PROVE  RefInv'
<1>1. dinode' \in Dinodes /\ dir' \in Dirs
  BY DiskTypes
<1>2. QED
  BY <1>1, DiskStep

\* A step that leaves the cache alone.
LEMMA EffectNone ==
  ASSUME RefInv, NEW p \in Proc
  PROVE  Effect(icache, icache, 0, p, LockOf(th[p]))
<1>1. \A j \in Inum : icache[j].ref \in Nat /\ 0 # j
  BY Types, Numbers DEF Cache, CacheRec
<1>2. QED
  BY <1>1, Types, SMTT(30) DEF Effect, One, RefInv, LocksHeld

\* ilock and iunlock of an inode, another one being locked or not.
LEMMA EffectRelock ==
  ASSUME RefInv, NEW p \in Proc, NEW i \in Inum, mayLock(i),
         NEW w \in {p, None}
  PROVE  Effect(icache, iunlock(ilock(icache, i, w), i), 0, p, LockOf(th[p]))
<1>1. TypeOK /\ icache \in Cache /\ w \in Proc \cup {None}
  BY Types
<1>2. PICK ic : ic = ilock(icache, i, w)
  OBVIOUS
<1>3. /\ ic \in Cache /\ ic[i].ref = icache[i].ref
      /\ \A j \in Inum \ {i} : ic[j] = icache[j]
  BY <1>1, <1>2, IlockCache, SMTT(30) DEF Changed
<1>4. PICK jc : jc = iunlock(ic, i)
  OBVIOUS
<1>5. /\ jc \in Cache
      /\ jc[i].ref = icache[i].ref /\ jc[i].lock = None
      /\ \A j \in Inum \ {i} : jc[j] = icache[j]
  BY <1>3, <1>4, IunlockCache DEF Changed
<1>6. \A j \in Inum : jc[j].ref = icache[j].ref /\ jc[j].lock = icache[j].lock
  BY <1>5 DEF mayLock
<1>7. Effect(icache, icache, 0, p, LockOf(th[p]))
  BY EffectNone
<1>8. Effect(icache, jc, 0, p, LockOf(th[p]))
  BY <1>5, <1>6, <1>7 DEF Effect
<1>9. QED
  BY <1>2, <1>4, <1>8

LEMMA EffectLock ==
  ASSUME RefInv, NEW p \in Proc, NEW i \in Inum, mayLock(i), LockOf(th[p]) = 0
  PROVE  Effect(icache, ilock(icache, i, p), 0, p, i)
<1>1. TypeOK /\ icache \in Cache
  BY Types
<1>2. PICK ic : ic = ilock(icache, i, p)
  OBVIOUS
<1>3. /\ ic \in Cache /\ ic[i].lock = p
      /\ \A j \in Inum : /\ ic[j].ref = icache[j].ref
                         /\ j # i => ic[j].lock = icache[j].lock
  BY <1>1, <1>2, IlockCache, SMTT(30) DEF Changed
<1>4. Effect(icache, icache, 0, p, 0)
  BY EffectNone
<1>5. icache[i].lock \notin Proc
  BY FSAssumption DEF mayLock
<1>6. ASSUME NEW j \in Inum
      PROVE  /\ ic[j].ref = icache[j].ref + One(0, j)
             /\ ic[j].lock = p <=> i = j
             /\ \A s \in Proc \ {p} : ic[j].lock = s <=> icache[j].lock = s
  BY <1>3, <1>4, <1>5, Numbers, SMTT(30) DEF Effect
<1>7. QED
  BY <1>2, <1>3, <1>6 DEF Effect

LEMMA EffectUnlock ==
  ASSUME RefInv, NEW p \in Proc, NEW i \in Inum, LockOf(th[p]) = i
  PROVE  Effect(icache, iunlock(icache, i), 0, p, 0)
<1>1. TypeOK /\ icache \in Cache
  BY Types
<1>2. PICK ic : ic = iunlock(icache, i)
  OBVIOUS
<1>3. /\ ic \in Cache /\ ic[i].lock = None
      /\ \A j \in Inum : /\ ic[j].ref = icache[j].ref
                         /\ j # i => ic[j].lock = icache[j].lock
  BY <1>1, <1>2, IunlockCache, SMTT(30) DEF Changed
<1>4. Effect(icache, icache, 0, p, i)
  BY EffectNone
<1>5. None \notin Proc /\ icache[i].lock = p
  BY FSAssumption DEF RefInv, LocksHeld
<1>6. ASSUME NEW j \in Inum
      PROVE  /\ ic[j].ref = icache[j].ref + One(0, j)
             /\ ic[j].lock = p <=> 0 = j
             /\ \A s \in Proc \ {p} : ic[j].lock = s <=> icache[j].lock = s
  BY <1>3, <1>4, <1>5, Numbers, SMTT(30) DEF Effect
<1>7. QED
  BY <1>2, <1>3, <1>6 DEF Effect

LEMMA EffectVisit ==
  ASSUME RefInv, NEW p \in Proc, NEW i \in Inum, mayLock(i)
  PROVE  Effect(icache, Visit(i), 0, p, LockOf(th[p]))
BY EffectRelock DEF Visit

\* What a call refers to, in the order in which it is dropped.
Drops(r, s) ==
  \/ s = <<>> /\ r.cur = 0 /\ r.ip = 0
  \/ s = <<r.cur>> /\ r.cur # 0 /\ r.ip = 0
  \/ s = <<r.ip>> /\ r.cur = 0 /\ r.ip # 0
  \/ s = <<r.cur, r.ip>> /\ r.cur # 0 /\ r.ip # 0

\* The end of a system call: it drops what it refers to, and has nothing locked.
LEMMA CallEnds ==
  ASSUME RefInv, NEW p \in Proc, th[p].puts = <<>>, NEW s, Drops(th[p], s),
         Return(p, s), dinode' \in Dinodes, dir' \in Dirs, OnlyInodes,
         Effect(icache, icache', 0, p, 0)
  PROVE  RefInv'
<1>1. PICK r : r = th[p]
  OBVIOUS
<1>2. r \in Frame /\ r.cur \in Inum \cup {0} /\ r.ip \in Inum \cup {0}
  BY <1>1, Types, FrameOf
<1>3. s \in Seq(Inum) /\ Len(s) <= 2
  <2>1. /\ <<>> \in Seq(Inum) /\ Len(<<>>) <= 2
        /\ \A a \in Inum : <<a>> \in Seq(Inum) /\ Len(<<a>>) <= 2
        /\ \A a, b \in Inum : <<a, b>> \in Seq(Inum) /\ Len(<<a, b>>) <= 2
    BY SMTT(30)
  <2>2. QED
    BY <1>1, <1>2, <2>1 DEF Drops
<1>4. ASSUME NEW j \in Inum
      PROVE  One(Put(s, 1), j) + One(Put(s, 2), j) = One(r.cur, j) + One(r.ip, j)
  <2>1. CASE s = <<>> /\ r.cur = 0 /\ r.ip = 0
    BY <2>1, PutOf
  <2>2. CASE s = <<r.cur>> /\ r.ip = 0
    <3>1. Put(s, 1) = r.cur /\ Put(s, 2) = r.ip
      BY <2>2, PutOf
    <3>2. QED
      BY <3>1
  <2>3. CASE s = <<r.ip>> /\ r.cur = 0
    <3>1. Put(s, 1) = r.ip /\ Put(s, 2) = r.cur
      BY <2>3, PutOf
    <3>2. QED
      BY <3>1, SMTT(30) DEF One
  <2>4. CASE s = <<r.cur, r.ip>>
    <3>1. Put(s, 1) = r.cur /\ Put(s, 2) = r.ip
      BY <2>4, PutOf
    <3>2. QED
      BY <3>1
  <2>5. QED
    BY <1>1, <2>1, <2>2, <2>3, <2>4 DEF Drops
<1>5. PICK q : q = Over(s)
  OBVIOUS
<1>6. /\ q \in Frame /\ Place(q) /\ LockOf(q) = 0
      /\ q.cur = 0 /\ q.ip = 0 /\ q.puts = s
  BY <1>3, <1>5, OverFrame
<1>7. ASSUME NEW j \in Inum
      PROVE  Ptrs(q, j) = Ptrs(r, j) + One(0, j)
  <2>1. Ptrs(r, j) = One(r.cur, j) + One(r.ip, j)
    BY <1>1, PtrsNone
  <2>2. QED
    BY <1>4, <1>6, <2>1, Numbers, SMTT(30) DEF Ptrs, One
<1>8. Moves(th[p], q, 0, 0)
  BY <1>1, <1>6, <1>7 DEF Moves
<1>9. th' = [th EXCEPT ![p] = q]
  BY <1>5, ReturnIs
<1>10. QED
  BY <1>8, <1>9, DiskStep

OnlyFile(f) == \A g \in 1..NFILE : g # f => file'[g] = file[g]
RefsKept == \A j \in Inum : icache'[j].ref = icache[j].ref
PtrsKept(p, q, a, b) ==
  \A j \in Inum : Own(cwd[p], th[p], a, j) = Own(cwd'[p], q, b, j)
LocksMove(p, l) ==
  \A j \in Inum :
    /\ icache'[j].lock = p <=> l = j
    /\ \A r \in Proc \ {p} : icache'[j].lock = r <=> icache[j].lock = r

\* A step that also moves a pointer from or to an open file or the current
\* directory.
LEMMA PointerStep ==
  ASSUME RefInv, NEW p \in Proc, NEW q \in Frame, Place(q),
         th' = [th EXCEPT ![p] = q], icache' \in Cache, UNCHANGED <<dinode, dir>>,
         cwd' \in [Proc -> Inum], \A r \in Proc \ {p} : cwd'[r] = cwd[r],
         file' \in [1..NFILE -> 0..NInodes],
         ofile' \in [Proc -> [1..NOFILE -> 0..NFILE]], FilesOpen',
         NEW f, OnlyFile(f), NEW a, a = FileAt(f), NEW b, b = FileAt(f)',
         RefsKept, PtrsKept(p, q, a, b), LocksMove(p, LockOf(q))
  PROVE  RefInv'
<1>1. /\ FramesOK /\ FramesOK' /\ th'[p] = q
      /\ \A r \in Proc \ {p} : th'[r] = th[r] /\ cwd'[r] = cwd[r]
  BY FramesStep DEF RefInv
<1>2. TypeOK'
  BY DEF RefInv, RefsAreCounted, TypeOK, Cache, CacheRec
<1>3. LocksHeld'
  BY LocksStep, ZenonT(30) DEF RefInv, LocksMove
<1>4. ASSUME NEW i \in Inum
      PROVE  icache'[i].ref = Cardinality(Holders(i)')
  <2>1. icache'[i].ref = icache[i].ref /\ icache[i].ref = Cardinality(Holders(i))
    BY DEF RefInv, RefsAreCounted, RefsKept
  <2>2. Own(cwd[p], th[p], FileAt(f), i) = Own(cwd'[p], th'[p], FileAt(f)', i)
    BY <1>1 DEF PtrsKept
  <2>3. Cardinality(Holders(i)') + Own(cwd[p], th[p], FileAt(f), i)
           = Cardinality(Holders(i)) + Own(cwd'[p], th'[p], FileAt(f)', i)
    BY <1>1, Recount DEF OnlyFile
  <2>4. Cardinality(Holders(i)) \in Nat /\ Cardinality(Holders(i)') \in Nat
    <3>1. Cardinality(Holders(i)) \in Nat
      BY HoldersFinite
    <3>2. (Cardinality(Holders(i)) \in Nat)'
      BY HoldersFinite, PTL
    <3>3. QED
      BY <3>1, <3>2
  <2>5. PICK m : m = Own(cwd[p], th[p], FileAt(f), i)
    OBVIOUS
  <2>6. m \in Nat
    BY <2>5, SMTT(30) DEF Own, One
  <2>7. Cardinality(Holders(i)') + m = Cardinality(Holders(i)) + m
    BY <2>2, <2>3, <2>5
  <2>8. PICK c \in Nat, e \in Nat : c = Cardinality(Holders(i)) /\ e = Cardinality(Holders(i)')
    BY <2>4
  <2>9. c = e
    BY <2>6, <2>7, <2>8, SMTT(30)
  <2>10. QED
    BY <2>1, <2>8, <2>9
<1>5. QED
  BY <1>1, <1>2, <1>3, <1>4 DEF RefInv, RefsAreCounted

\* What a step that leaves the inodes in memory alone does to them.
LEMMA KeptInodes ==
  ASSUME RefInv, NEW p \in Proc, Effect(icache, icache', 0, p, 0)
  PROVE  icache' \in Cache /\ RefsKept /\ LocksMove(p, 0)
<1>1. ASSUME NEW j \in Inum PROVE icache'[j].ref = icache[j].ref
  <2>1. icache[j].ref \in Nat /\ One(0, j) = 0
    BY Types, Numbers DEF Cache, CacheRec, One
  <2>2. icache'[j].ref = icache[j].ref + One(0, j)
    BY DEF Effect
  <2>3. QED
    BY <2>1, <2>2, SMTT(30)
<1>2. QED
  BY <1>1 DEF Effect, RefsKept, LocksMove

LEMMA FirstOf ==
  ASSUME NEW n \in Nat, NEW S \in SUBSET (1..n), first(S) # 0
  PROVE  first(S) \in S
<1>1. S # {} /\ S \subseteq Nat
  BY SMTT(30) DEF first
<1>2. PICK x \in S : \A y \in S : ~(<<y, x>> \in OpToRel(<, Nat))
  BY <1>1, WFMin, NatLessThanWellFounded
<1>3. \A y \in S : ~(y < x)
  BY <1>1, <1>2 DEF OpToRel
<1>4. \A y \in S : x <= y
  BY <1>1, <1>3, SMTT(30)
<1>5. QED
  BY <1>1, <1>4 DEF first

\* The last step of open: the call's reference becomes the file's.
LEMMA open2Refs ==
  ASSUME RefInv, NEW p \in Proc, open2(p)
  PROVE  RefInv'
<1>1. PICK r : r = th[p]
  OBVIOUS
<1>2. /\ r \in Frame /\ Place(r) /\ r.pc = "open2" /\ r.puts = <<>>
      /\ r.ip \in Inum /\ r.ip # 0 /\ LockOf(r) = r.ip /\ r.cur = 0
  <2>1. r \in Frame /\ Place(r) /\ r.pc = "open2" /\ r.puts = <<>>
    BY <1>1, Types DEF open2, At
  <2>2. QED
    BY <2>1, Numbers DEF Frame, Place, HasIp, NoCur, LockOf
<1>3. /\ UNCHANGED <<dinode, dir, cwd>>
      /\ dinode' \in Dinodes /\ dir' \in Dirs /\ icache' = iunlock(icache, r.ip)
  BY <1>1, DiskTypes DEF open2
<1>4. Effect(icache, icache', 0, p, 0)
  BY <1>1, <1>2, <1>3, EffectUnlock
<1>5. CASE Return(p, <<r.ip>>) /\ UNCHANGED <<file, ofile>>
  <2>1. Drops(r, <<r.ip>>)
    BY <1>2 DEF Drops
  <2>2. OnlyInodes
    BY <1>3, <1>5 DEF open2, OnlyInodes
  <2>3. QED
    BY <1>1, <1>2, <1>3, <1>4, <1>5, <2>1, <2>2, CallEnds
<1>6. ASSUME NEW f, f = filealloc, NEW d, d = fdalloc(p), f # 0, d # 0,
             file' = [file EXCEPT ![f] = r.ip], ofile' = [ofile EXCEPT ![p][d] = f],
             Return(p, <<>>)
      PROVE  RefInv'
  <2>1. f \in 1..NFILE /\ file[f] = 0
    <3>1. PICK S : S = {g \in 1..NFILE : file[g] = 0}
      OBVIOUS
    <3>2. S \in SUBSET (1..NFILE) /\ first(S) # 0 /\ NFILE \in Nat
      BY <1>6, <3>1, FSAssumption DEF filealloc
    <3>3. f \in S
      BY <1>6, <3>1, <3>2, FirstOf DEF filealloc
    <3>4. QED
      BY <3>1, <3>3
  <2>2. d \in 1..NOFILE /\ ofile[p][d] = 0
    <3>1. PICK S : S = {e \in 1..NOFILE : ofile[p][e] = 0}
      OBVIOUS
    <3>2. S \in SUBSET (1..NOFILE) /\ first(S) # 0 /\ NOFILE \in Nat
      BY <1>6, <3>1, FSAssumption DEF fdalloc
    <3>3. d \in S
      BY <1>6, <3>1, <3>2, FirstOf DEF fdalloc
    <3>4. QED
      BY <3>1, <3>3
  <2>3. /\ file \in [1..NFILE -> 0..NInodes]
        /\ ofile \in [Proc -> [1..NOFILE -> 0..NFILE]]
        /\ cwd \in [Proc -> Inum]
    BY Types DEF TypeOK
  <2>4. /\ file' \in [1..NFILE -> 0..NInodes] /\ file'[f] = r.ip
        /\ \A g \in 1..NFILE : g # f => file'[g] = file[g]
    BY <1>2, <1>6, <2>1, <2>3, Numbers
  <2>5. /\ ofile' \in [Proc -> [1..NOFILE -> 0..NFILE]] /\ ofile'[p][d] = f
        /\ \A s \in Proc, e \in 1..NOFILE :
              s # p \/ e # d => ofile'[s][e] = ofile[s][e]
    <3>1. f \in 0..NFILE
      BY <2>1, FSAssumption, SMTT(30)
    <3>2. QED
      BY <1>6, <2>2, <2>3, <3>1
  <2>6. FilesOpen'
    <3>1. \A s \in Proc, e \in 1..NOFILE : ofile[s][e] # f
      BY <1>6, <2>1, <2>3, SMTT(30) DEF RefInv, FilesOpen
    <3>2. ASSUME NEW s \in Proc, NEW e \in 1..NOFILE, ofile'[s][e] # 0
          PROVE  file'[ofile'[s][e]] # 0
      <4>1. CASE s = p /\ e = d
        BY <1>2, <2>4, <2>5, <4>1
      <4>2. CASE s # p \/ e # d
        <5>1. ofile'[s][e] = ofile[s][e] /\ ofile[s][e] \in 1..NFILE /\ ofile[s][e] # f
          BY <2>3, <2>5, <3>1, <3>2, <4>2, FSAssumption, SMTT(30)
        <5>2. file[ofile[s][e]] # 0
          BY <3>2, <5>1 DEF RefInv, FilesOpen
        <5>3. QED
          BY <2>4, <5>1, <5>2
      <4>3. QED
        BY <4>1, <4>2
    <3>3. ASSUME NEW s \in Proc, NEW t \in Proc, NEW e \in 1..NOFILE, NEW c \in 1..NOFILE,
                 ofile'[s][e] # 0, ofile'[s][e] = ofile'[t][c]
          PROVE  s = t /\ e = c
      <4>1. CASE (s = p /\ e = d) \/ (t = p /\ c = d)
        BY <2>5, <3>1, <3>3, <4>1, SMTT(30)
      <4>2. CASE (s # p \/ e # d) /\ (t # p \/ c # d)
        BY <2>5, <3>3, <4>2, SMTT(30) DEF RefInv, FilesOpen
      <4>3. QED
        BY <4>1, <4>2
    <3>4. QED
      BY <3>2, <3>3, SMTT(30) DEF FilesOpen
  <2>7. <<>> \in Seq(Inum) /\ Len(<<>>) <= 2
    BY SMTT(30)
  <2>8. PICK q : q = Over(<<>>)
    OBVIOUS
  <2>9. /\ q \in Frame /\ Place(q) /\ LockOf(q) = 0
        /\ q.cur = 0 /\ q.ip = 0 /\ q.puts = <<>>
    BY <2>7, <2>8, OverFrame
  <2>10. th' = [th EXCEPT ![p] = q]
    BY <1>6, <2>8, ReturnIs
  <2>11. cwd' \in [Proc -> Inum] /\ cwd' = cwd
    BY <1>3, <2>3
  <2>12. icache' \in Cache /\ RefsKept /\ LocksMove(p, LockOf(q))
    BY <1>4, <2>9, KeptInodes
  <2>13. 0 = FileAt(f) /\ r.ip = FileAt(f)'
    BY <2>1, <2>4 DEF FileAt
  <2>14. PtrsKept(p, q, 0, r.ip)
    <3>0. SUFFICES ASSUME NEW j \in Inum
                   PROVE  Own(cwd[p], th[p], 0, j) = Own(cwd'[p], q, r.ip, j)
      BY DEF PtrsKept
    <3>1. Put(r.puts, 1) = 0 /\ Put(r.puts, 2) = 0 /\ Put(q.puts, 1) = 0 /\ Put(q.puts, 2) = 0
      BY <1>2, <2>9, PutOf
    <3>2. Own(cwd[p], r, 0, j) = Own(cwd[p], q, r.ip, j)
      BY <1>2, <2>9, <3>1, Numbers, SMTT(30) DEF Own, One
    <3>3. QED
      BY <1>1, <2>11, <3>2
  <2>16. /\ q \in Frame /\ Place(q) /\ UNCHANGED <<dinode, dir>>
         /\ (\A s \in Proc \ {p} : cwd'[s] = cwd[s]) /\ OnlyFile(f)
    BY <1>3, <2>4, <2>9, <2>11 DEF OnlyFile
  <2>17. QED
    BY <2>4, <2>5, <2>6, <2>10, <2>11, <2>12, <2>13, <2>14, <2>16, PointerStep
<1>7. QED
  BY <1>1, <1>5, <1>6 DEF open2

\* close: the file's reference is the call's, to drop it.
LEMMA sys_closeRefs ==
  ASSUME RefInv, NEW p \in Proc, NEW d \in 1..NOFILE, sys_close(p, d)
  PROVE  RefInv'
<1>1. PICK r : r = th[p]
  OBVIOUS
<1>2. PICK f : f = ofile[p][d]
  OBVIOUS
<1>3. PICK i : i = file[f]
  OBVIOUS
<1>4. /\ file \in [1..NFILE -> 0..NInodes]
      /\ ofile \in [Proc -> [1..NOFILE -> 0..NFILE]]
      /\ cwd \in [Proc -> Inum]
  BY Types DEF TypeOK
<1>5. /\ r \in Frame /\ Place(r) /\ r.pc = "idle" /\ r.puts = <<>>
      /\ r.ip = 0 /\ LockOf(r) = 0 /\ r.cur = 0
  <2>1. r \in Frame /\ Place(r) /\ r.pc = "idle" /\ r.puts = <<>>
    BY <1>1, Types DEF sys_close, At
  <2>2. QED
    BY <2>1 DEF Frame, Place, HasIp, NoCur, LockOf
<1>6. /\ f # 0 /\ ofile' = [ofile EXCEPT ![p][d] = 0] /\ file' = [file EXCEPT ![f] = 0]
      /\ Return(p, <<i>>) /\ UNCHANGED <<dinode, dir, icache, cwd>>
  BY <1>2, <1>3 DEF sys_close, fileclose
<1>7. f \in 1..NFILE /\ i \in Inum
  <2>1. f \in 1..NFILE
    BY <1>2, <1>4, <1>6, FSAssumption, SMTT(30)
  <2>2. i # 0
    BY <1>2, <1>3, <1>6 DEF RefInv, FilesOpen
  <2>3. QED
    BY <1>3, <1>4, <2>1, <2>2, Numbers
<1>8. /\ file' \in [1..NFILE -> 0..NInodes] /\ file'[f] = 0 /\ OnlyFile(f)
  BY <1>4, <1>6, <1>7, Numbers DEF OnlyFile
<1>9. /\ ofile' \in [Proc -> [1..NOFILE -> 0..NFILE]] /\ ofile'[p][d] = 0
      /\ \A s \in Proc, e \in 1..NOFILE :
            s # p \/ e # d => ofile'[s][e] = ofile[s][e]
  <2>1. 0 \in 0..NFILE
    BY FSAssumption, SMTT(30)
  <2>2. QED
    BY <1>4, <1>6, <2>1
<1>10. FilesOpen'
  <2>1. ASSUME NEW s \in Proc, NEW e \in 1..NOFILE, ofile'[s][e] # 0
        PROVE  file'[ofile'[s][e]] # 0
    <3>1. (s # p \/ e # d) /\ ofile'[s][e] = ofile[s][e]
      BY <1>9, <2>1
    <3>2. ofile[s][e] # f
      <4>1. FilesOpen
        BY DEF RefInv
      <4>2. QED
        BY <1>2, <2>1, <3>1, <4>1 DEF FilesOpen
    <3>3. ofile[s][e] \in 1..NFILE /\ file[ofile[s][e]] # 0
      BY <1>4, <2>1, <3>1, FSAssumption, SMTT(30) DEF RefInv, FilesOpen
    <3>4. QED
      BY <1>8, <3>1, <3>2, <3>3 DEF OnlyFile
  <2>2. ASSUME NEW s \in Proc, NEW t \in Proc, NEW e \in 1..NOFILE, NEW c \in 1..NOFILE,
               ofile'[s][e] # 0, ofile'[s][e] = ofile'[t][c]
        PROVE  s = t /\ e = c
    <3>1. ofile'[s][e] = ofile[s][e] /\ ofile'[t][c] = ofile[t][c]
      BY <1>9, <2>2
    <3>2. ofile[s][e] # 0 /\ ofile[s][e] = ofile[t][c]
      BY <2>2, <3>1
    <3>3. QED
      BY <3>2, SMTT(30) DEF RefInv, FilesOpen
  <2>3. QED
    BY <2>1, <2>2, SMTT(30) DEF FilesOpen
<1>11. <<i>> \in Seq(Inum) /\ Len(<<i>>) <= 2
  BY <1>7, SMTT(30)
<1>12. PICK q : q = Over(<<i>>)
  OBVIOUS
<1>13. /\ q \in Frame /\ Place(q) /\ LockOf(q) = 0
       /\ q.cur = 0 /\ q.ip = 0 /\ q.puts = <<i>>
  BY <1>11, <1>12, OverFrame
<1>14. th' = [th EXCEPT ![p] = q]
  BY <1>6, <1>12, ReturnIs
<1>15. icache' \in Cache /\ RefsKept /\ LocksMove(p, LockOf(q))
  <2>1. Effect(icache, icache', 0, p, 0)
    BY <1>1, <1>5, <1>6, EffectNone
  <2>2. QED
    BY <1>13, <2>1, KeptInodes
<1>16. i = FileAt(f) /\ 0 = FileAt(f)'
  BY <1>3, <1>7, <1>8 DEF FileAt
<1>17. PtrsKept(p, q, i, 0)
  <2>0. SUFFICES ASSUME NEW j \in Inum
                 PROVE  Own(cwd[p], th[p], i, j) = Own(cwd'[p], q, 0, j)
    BY DEF PtrsKept
  <2>1. Put(r.puts, 1) = 0 /\ Put(r.puts, 2) = 0 /\ Put(q.puts, 1) = i /\ Put(q.puts, 2) = 0
    BY <1>5, <1>13, PutOf, ZenonT(30)
  <2>2. Own(cwd[p], r, i, j) = Own(cwd[p], q, 0, j)
    BY <1>5, <1>13, <2>1, Numbers, SMTT(30) DEF Own, One
  <2>3. QED
    BY <1>1, <1>6, <2>2
<1>18. /\ q \in Frame /\ Place(q) /\ UNCHANGED <<dinode, dir>>
       /\ \A s \in Proc \ {p} : cwd'[s] = cwd[s]
       /\ cwd' \in [Proc -> Inum]
  BY <1>4, <1>6, <1>13
<1>19. QED
  BY <1>8, <1>9, <1>10, <1>14, <1>15, <1>16, <1>17, <1>18, PointerStep

\* chdir: the new directory is kept, and the old one is dropped.
LEMMA chdir1Refs ==
  ASSUME RefInv, NEW p \in Proc, chdir1(p)
  PROVE  RefInv'
<1>1. PICK r : r = th[p]
  OBVIOUS
<1>2. /\ r \in Frame /\ Place(r) /\ r.pc = "chdir1" /\ r.puts = <<>>
      /\ r.ip = 0 /\ LockOf(r) = 0 /\ r.cur \in Inum \cup {0}
  <2>1. r \in Frame /\ Place(r) /\ r.pc = "chdir1" /\ r.puts = <<>>
    BY <1>1, Types DEF chdir1, At
  <2>2. QED
    BY <2>1, Numbers DEF Frame, Place, HasIp, LockOf
<1>3. /\ UNCHANGED <<dinode, dir, file, ofile>>
      /\ dinode' \in Dinodes /\ dir' \in Dirs
  BY DiskTypes DEF chdir1
<1>4. CASE r.cur = 0 /\ Return(p, <<>>) /\ UNCHANGED <<icache, cwd>>
  <2>1. Drops(r, <<>>) /\ OnlyInodes
    BY <1>2, <1>4 DEF Drops, chdir1, OnlyInodes
  <2>2. Effect(icache, icache', 0, p, 0)
    BY <1>1, <1>2, <1>4, EffectNone
  <2>3. QED
    BY <1>1, <1>2, <1>3, <1>4, <2>1, <2>2, CallEnds
<1>5. r.cur # 0 /\ mayLock(r.cur) => Effect(icache, Visit(r.cur), 0, p, 0)
  BY <1>1, <1>2, EffectVisit
<1>6. CASE /\ r.cur # 0 /\ mayLock(r.cur) /\ icache' = Visit(r.cur)
           /\ Return(p, <<r.cur>>) /\ UNCHANGED cwd
  <2>1. Drops(r, <<r.cur>>) /\ OnlyInodes
    BY <1>2, <1>6 DEF Drops, chdir1, OnlyInodes
  <2>2. Effect(icache, icache', 0, p, 0)
    BY <1>5, <1>6
  <2>3. QED
    BY <1>1, <1>2, <1>3, <1>6, <2>1, <2>2, CallEnds
<1>7. CASE /\ r.cur # 0 /\ mayLock(r.cur) /\ icache' = Visit(r.cur)
           /\ cwd' = [cwd EXCEPT ![p] = r.cur] /\ Return(p, <<cwd[p]>>)
  <2>1. /\ cwd \in [Proc -> Inum] /\ cwd[p] \in Inum
        /\ file \in [1..NFILE -> 0..NInodes]
        /\ ofile \in [Proc -> [1..NOFILE -> 0..NFILE]]
    BY Types DEF TypeOK
  <2>2. <<cwd[p]>> \in Seq(Inum) /\ Len(<<cwd[p]>>) <= 2
    BY <2>1, SMTT(30)
  <2>3. PICK q : q = Over(<<cwd[p]>>)
    OBVIOUS
  <2>4. /\ q \in Frame /\ Place(q) /\ LockOf(q) = 0
        /\ q.cur = 0 /\ q.ip = 0 /\ q.puts = <<cwd[p]>>
    BY <2>2, <2>3, OverFrame
  <2>5. th' = [th EXCEPT ![p] = q]
    BY <1>7, <2>3, ReturnIs
  <2>6. icache' \in Cache /\ RefsKept /\ LocksMove(p, LockOf(q))
    <3>1. Effect(icache, icache', 0, p, 0)
      BY <1>5, <1>7
    <3>2. QED
      BY <2>4, <3>1, KeptInodes
  <2>7. /\ cwd' \in [Proc -> Inum] /\ cwd'[p] = r.cur
        /\ \A s \in Proc \ {p} : cwd'[s] = cwd[s]
    BY <1>2, <1>7, <2>1
  <2>8. PtrsKept(p, q, 0, 0)
    <3>0. SUFFICES ASSUME NEW j \in Inum
                   PROVE  Own(cwd[p], th[p], 0, j) = Own(cwd'[p], q, 0, j)
      BY DEF PtrsKept
    <3>1. /\ Put(r.puts, 1) = 0 /\ Put(r.puts, 2) = 0
          /\ Put(q.puts, 1) = cwd[p] /\ Put(q.puts, 2) = 0
      BY <1>2, <2>4, PutOf, ZenonT(30)
    <3>2. Own(cwd[p], r, 0, j) = Own(r.cur, q, 0, j)
      BY <1>2, <2>4, <3>1, Numbers, SMTT(30) DEF Own, One
    <3>3. QED
      BY <1>1, <2>7, <3>2
  <2>9. 0 = FileAt(0) /\ 0 = FileAt(0)' /\ OnlyFile(0)
    BY <1>3, SMTT(30) DEF FileAt, OnlyFile
  <2>10. /\ file' \in [1..NFILE -> 0..NInodes] /\ UNCHANGED <<dinode, dir>>
         /\ ofile' \in [Proc -> [1..NOFILE -> 0..NFILE]] /\ FilesOpen'
    BY <1>3, <2>1, SMTT(30) DEF RefInv, FilesOpen
  <2>11. q \in Frame /\ Place(q)
    BY <2>4
  <2>12. QED
    BY <2>5, <2>6, <2>7, <2>8, <2>9, <2>10, <2>11, PointerStep
<1>8. QED
  BY <1>1, <1>4, <1>6, <1>7 DEF chdir1

\* A second inode is locked, and the first one unlocked.
LEMMA EffectExchange ==
  ASSUME RefInv, NEW p \in Proc, NEW i \in Inum, mayLock(i), NEW c \in Inum,
         LockOf(th[p]) = c
  PROVE  c # i /\ Effect(icache, iunlock(ilock(icache, i, p), c), 0, p, i)
<1>1. TypeOK /\ icache \in Cache
  BY Types
<1>2. None \notin Proc /\ icache[c].lock = p /\ icache[i].lock = None
  BY FSAssumption DEF RefInv, LocksHeld, mayLock
<1>3. c # i
  BY <1>2
<1>4. PICK ic : ic = ilock(icache, i, p)
  OBVIOUS
<1>5. /\ ic \in Cache /\ ic[i].ref = icache[i].ref /\ ic[i].lock = p
      /\ \A j \in Inum \ {i} : ic[j] = icache[j]
  BY <1>1, <1>4, IlockCache, SMTT(30) DEF Changed
<1>6. PICK jc : jc = iunlock(ic, c)
  OBVIOUS
<1>7. /\ jc \in Cache /\ jc[c].ref = ic[c].ref /\ jc[c].lock = None
      /\ \A j \in Inum \ {c} : jc[j] = ic[j]
  BY <1>5, <1>6, IunlockCache DEF Changed
<1>8. /\ \A j \in Inum : jc[j].ref = icache[j].ref
      /\ jc[i].lock = p /\ \A j \in Inum \ {i, c} : jc[j].lock = icache[j].lock
  BY <1>3, <1>5, <1>7
<1>9. Effect(icache, icache, 0, p, c)
  BY EffectNone
<1>10. ASSUME NEW j \in Inum
       PROVE  /\ jc[j].ref = icache[j].ref + One(0, j)
              /\ jc[j].lock = p <=> i = j
              /\ \A s \in Proc \ {p} : jc[j].lock = s <=> icache[j].lock = s
  BY <1>2, <1>3, <1>7, <1>8, <1>9, Numbers, SMTT(30) DEF Effect
<1>11. Effect(icache, jc, 0, p, i)
  BY <1>7, <1>10 DEF Effect
<1>12. QED
  BY <1>3, <1>4, <1>6, <1>11

\* iget after that.
LEMMA EffectGet ==
  ASSUME RefInv, NEW p \in Proc, NEW ic, NEW l, Effect(icache, ic, 0, p, l),
         NEW i \in Inum, l = i => icache[i].ref >= 1
  PROVE  Effect(icache, iget(ic, i), i, p, l)
<1>1. /\ ic \in Cache /\ icache \in Cache
      /\ \A j \in Inum : ic[j].ref = icache[j].ref
  <2>1. \A j \in Inum : icache[j].ref \in Nat /\ One(0, j) = 0
    BY Types, Numbers DEF Cache, CacheRec, B, One
  <2>2. QED
    BY <2>1, Types, SMTT(30) DEF Effect
<1>2. ic[i].ref = 0 => ic[i].lock \notin Proc
  <2>1. SUFFICES ASSUME NEW s \in Proc, ic[i].lock = s
                 PROVE  icache[i].ref >= 1
    BY <1>1, SMTT(30)
  <2>2. CASE s = p
    BY <2>1, <2>2 DEF Effect
  <2>3. CASE s # p
    <3>1. icache[i].lock = s
      BY <2>1, <2>3 DEF Effect
    <3>2. QED
      BY <3>1, LockedRef
  <2>4. QED
    BY <2>2, <2>3
<1>3. PICK jc : jc = iget(ic, i)
  OBVIOUS
<1>4. /\ jc \in Cache /\ jc[i].ref = ic[i].ref + 1
      /\ \A j \in Inum \ {i} : jc[j] = ic[j]
  BY <1>1, <1>3, IgetCache DEF Changed
<1>5. \A j \in Inum : \A s \in Proc : jc[j].lock = s <=> ic[j].lock = s
  BY <1>1, <1>2, <1>3, IgetLocks, SMTT(30)
<1>6. ASSUME NEW j \in Inum
      PROVE  /\ jc[j].ref = icache[j].ref + One(i, j)
             /\ jc[j].lock = p <=> l = j
             /\ \A s \in Proc \ {p} : jc[j].lock = s <=> icache[j].lock = s
  <2>1. jc[j].ref = icache[j].ref + One(i, j)
    <3>1. icache[j].ref \in Nat
      BY <1>1 DEF Cache, CacheRec
    <3>2. QED
      BY <1>1, <1>4, <3>1, SMTT(30) DEF B, One
  <2>2. QED
    BY <1>5, <2>1, SMTT(30) DEF Effect
<1>7. QED
  BY <1>3, <1>4, <1>6, SMTT(30) DEF Effect

\* Fields other than the count and the lock are written.
LEMMA EffectWrite ==
  ASSUME NEW p, NEW l, NEW g, NEW ic, Effect(icache, ic, g, p, l),
         NEW jc \in Cache,
         \A j \in Inum : jc[j].ref = ic[j].ref /\ jc[j].lock = ic[j].lock
  PROVE  Effect(icache, jc, g, p, l)
BY DEF Effect

\* The start of a system call on a path name.
LEMMA startRefs ==
  ASSUME RefInv, NEW p \in Proc, At(p, "idle"), NEW path \in PathName,
         NEW label \in Rets \ {"link2"},
         NEW r \in Frame, r.puts = <<>>, r.freeing = "no", r.ip = 0,
         namexStart(p, path, r, label), UNCHANGED <<dinode, dir>>, OnlyInodes
  PROVE  RefInv'
<1>1. PICK i : i = IF path.abs THEN ROOTINO ELSE cwd[p]
  OBVIOUS
<1>2. path.abs \in BOOLEAN /\ path.elems \in Seq(Name \cup Dots)
  BY DEF PathName
<1>3. i \in Inum /\ icache \in Cache /\ i # 0
  BY <1>1, Numbers, Types
<1>4. PICK q : q = [r EXCEPT !.pc = "namex", !.path = path.elems, !.ret = label,
                             !.cur = i]
  OBVIOUS
<1>5. th' = [th EXCEPT ![p] = q]
  BY <1>1, <1>4 DEF namexStart
<1>6. q \in Frame
  <2>1. /\ "namex" \in PC /\ label \in Rets \cup {"idle"} /\ i \in 0..NInodes
    BY <1>3, Numbers DEF PC
  <2>2. QED
    BY <1>2, <1>4, <2>1 DEF Frame
<1>7. /\ q.pc = "namex" /\ q.cur = i /\ q.puts = <<>> /\ q.ip = 0
      /\ q.ret = label /\ q.freeing = "no"
  BY <1>4, <1>6 DEF Frame
<1>8. Place(q)
  BY <1>3, <1>7, SMTT(30) DEF Place, NoCur, HasCur, HasIp, Rets, WantsParent
<1>9. /\ th[p].pc = "idle" /\ th[p].puts = <<>> /\ th[p].cur = 0 /\ th[p].ip = 0
  BY Types DEF At, Place, NoCur, HasIp
<1>10. LockOf(q) = 0 /\ LockOf(th[p]) = 0
  BY <1>7, <1>9 DEF LockOf
<1>11. \A j \in Inum : Ptrs(q, j) = Ptrs(th[p], j) + One(i, j)
  <2>1. Put(th[p].puts, 1) = 0 /\ Put(th[p].puts, 2) = 0
        /\ Put(q.puts, 1) = 0 /\ Put(q.puts, 2) = 0
    BY <1>7, <1>9, SMTT(30) DEF Put
  <2>2. QED
    BY <1>7, <1>9, <2>1, Numbers, SMTT(30) DEF Ptrs, One
<1>12. Moves(th[p], q, i, 0)
  BY <1>6, <1>8, <1>10, <1>11 DEF Moves
<1>13. Effect(icache, icache, 0, p, 0)
  BY <1>10, EffectNone
<1>14. Effect(icache, icache', i, p, 0)
  <2>1. CASE path.abs
    <3>1. icache' = iget(icache, i)
      BY <1>1, <2>1 DEF namexStart
    <3>2. QED
      BY <1>3, <1>13, <3>1, EffectGet
  <2>2. CASE ~path.abs
    <3>1. Changed(icache, icache', i, icache[i].ref + 1, icache[i].lock)
      BY <1>1, <1>3, <2>2, IdupCache DEF namexStart
    <3>2. \A j \in Inum : icache[j].ref \in Nat
      BY <1>3 DEF Cache, CacheRec
    <3>3. QED
      BY <1>3, <1>13, <3>1, <3>2, SMTT(30) DEF Effect, Changed, One
  <2>3. QED
    BY <1>2, <2>1, <2>2
<1>15. QED
  BY <1>5, <1>12, <1>14, MemoryStep

-----------------------------------------------------------------------------
(* namex.                                                                  *)

\* The frame of namex when it fails, or has nothing to return to a caller that
\* wants the parent; and when it returns the inode, or its parent.
Fail(r) == [r EXCEPT !.pc = r.ret, !.cur = 0, !.puts = <<r.cur>>]
Found(r) == [r EXCEPT !.pc = r.ret]

LEMMA FailFrame ==
  ASSUME NEW r \in Frame, Place(r), r.pc = "namex", r.puts = <<>>
  PROVE  Moves(r, Fail(r), 0, LockOf(r))
<1>0. PICK q : q = Fail(r)
  OBVIOUS
<1>1. /\ r.cur \in Inum /\ r.cur # 0 /\ r.ret \in Rets
  BY Numbers DEF Place, Frame, HasCur
<1>2. q \in Frame
  <2>1. r.ret \in PC /\ 0 \in 0..NInodes /\ <<r.cur>> \in Seq(Inum)
    BY <1>1, Numbers, SMTT(30) DEF PC
  <2>2. QED
    BY <1>0, <2>1 DEF Frame, Fail
<1>3. /\ q.pc = r.ret /\ q.cur = 0 /\ q.puts = <<r.cur>> /\ q.ip = r.ip
      /\ q.ret = r.ret /\ q.freeing = r.freeing /\ q.path = r.path
  BY <1>0, <1>2 DEF Frame, Fail
<1>4. Place(q) /\ LockOf(q) = LockOf(r)
  BY <1>1, <1>3, SMTT(30) DEF Place, NoCur, HasCur, HasIp, Rets, WantsParent, LockOf
<1>5. Put(q.puts, 1) = r.cur /\ Put(q.puts, 2) = 0 /\ Put(r.puts, 1) = 0 /\ Put(r.puts, 2) = 0
  BY <1>3, SMTT(30) DEF Put
<1>6. \A j \in Inum : Ptrs(q, j) = Ptrs(r, j) + One(0, j)
  BY <1>1, <1>3, <1>5, Numbers, SMTT(30) DEF Ptrs, One
<1>7. QED
  BY <1>0, <1>2, <1>4, <1>6 DEF Moves

LEMMA FoundFrame ==
  ASSUME NEW r \in Frame, Place(r), r.pc = "namex", r.puts = <<>>,
         r.ret \in WantsParent => r.path # <<>>
  PROVE  Moves(r, Found(r), 0, LockOf(r))
<1>0. PICK q : q = Found(r)
  OBVIOUS
<1>1. r.ret \in Rets
  BY DEF Place, Frame
<1>2. q \in Frame
  BY <1>0, <1>1 DEF Frame, PC, Found
<1>3. /\ q.pc = r.ret /\ q.cur = r.cur /\ q.puts = r.puts /\ q.ip = r.ip
      /\ q.ret = r.ret /\ q.freeing = r.freeing /\ q.path = r.path
  BY <1>0, <1>2 DEF Frame, Found
<1>4. Place(q) /\ LockOf(q) = LockOf(r)
  BY <1>1, <1>3 DEF Place, NoCur, HasCur, HasIp, Rets, WantsParent, LockOf
<1>5. \A j \in Inum : Ptrs(q, j) = Ptrs(r, j) + One(0, j)
  BY <1>3, Numbers, SMTT(30) DEF Ptrs, One
<1>6. QED
  BY <1>0, <1>2, <1>4, <1>5 DEF Moves

\* The frame of namex when it goes on in a directory's entry i.
Down(r, i) == [r EXCEPT !.puts = <<r.cur>>, !.cur = i, !.path = Tail(@)]

LEMMA DownFrame ==
  ASSUME NEW r \in Frame, Place(r), r.pc = "namex", r.puts = <<>>, r.path # <<>>,
         NEW i \in Inum
  PROVE  Moves(r, Down(r, i), i, LockOf(r))
<1>0. PICK q : q = Down(r, i)
  OBVIOUS
<1>1. /\ r.cur \in Inum /\ r.ret \in Rets /\ i # 0
  BY Numbers DEF Place, Frame, HasCur
<1>2. q \in Frame
  <2>1. i \in 0..NInodes /\ <<r.cur>> \in Seq(Inum) /\ Tail(r.path) \in Seq(Name \cup Dots)
    BY <1>1, Numbers, SMTT(30) DEF Frame
  <2>2. QED
    BY <1>0, <2>1 DEF Frame, Down
<1>3. /\ q.pc = r.pc /\ q.cur = i /\ q.puts = <<r.cur>> /\ q.ip = r.ip
      /\ q.ret = r.ret /\ q.freeing = r.freeing
  BY <1>0, <1>2 DEF Frame, Down
<1>4. Place(q) /\ LockOf(q) = LockOf(r)
  BY <1>1, <1>3, SMTT(30) DEF Place, NoCur, HasCur, HasIp, Rets, WantsParent, LockOf
<1>5. Put(q.puts, 1) = r.cur /\ Put(q.puts, 2) = 0 /\ Put(r.puts, 1) = 0 /\ Put(r.puts, 2) = 0
  BY <1>3, SMTT(30) DEF Put
<1>6. \A j \in Inum : Ptrs(q, j) = Ptrs(r, j) + One(i, j)
  BY <1>1, <1>3, <1>5, Numbers, SMTT(30) DEF Ptrs, One
<1>7. QED
  BY <1>0, <1>2, <1>4, <1>6 DEF Moves

\* namex has no path left, and returns to its caller.
LEMMA namexEndRefs ==
  ASSUME RefInv, NEW p \in Proc, namexEnd(p)
  PROVE  RefInv'
<1>1. PICK r : r = th[p]
  OBVIOUS
<1>2. r \in Frame /\ Place(r) /\ r.pc = "namex" /\ r.puts = <<>> /\ r.path = <<>>
  BY <1>1, Types DEF namexEnd, At
<1>3. Effect(icache, icache', 0, p, LockOf(r))
  BY <1>1, EffectNone DEF namexEnd
<1>4. UNCHANGED <<dinode, dir>> /\ OnlyInodes
  BY DEF namexEnd
<1>5. PICK q : q = IF r.ret \in WantsParent THEN Fail(r) ELSE Found(r)
  OBVIOUS
<1>6. Moves(r, q, 0, LockOf(r))
  BY <1>2, <1>5, FailFrame, FoundFrame
<1>7. th' = [th EXCEPT ![p] = q]
  BY <1>1, <1>5 DEF namexEnd, Fail, Found
<1>8. QED
  BY <1>1, <1>3, <1>4, <1>6, <1>7, MemoryStep

\* namex takes one step down the path: it refers to the next inode before it
\* drops the last.
LEMMA namexRefs ==
  ASSUME RefInv, NEW p \in Proc, namex(p)
  PROVE  RefInv'
<1>1. PICK r : r = th[p]
  OBVIOUS
<1>2. r \in Frame /\ Place(r) /\ r.pc = "namex" /\ r.puts = <<>> /\ r.path # <<>>
  BY <1>1, Types DEF namex, At
<1>3. r.cur \in Inum /\ mayLock(r.cur)
  BY <1>1, <1>2, Numbers DEF namex, Frame, Place, HasCur
<1>4. UNCHANGED <<dinode, dir>> /\ OnlyInodes
  BY DEF namex
<1>5. Effect(icache, Visit(r.cur), 0, p, LockOf(r))
  BY <1>1, <1>3, EffectVisit
<1>6. CASE /\ icache' = Visit(r.cur)
           /\ th' = [th EXCEPT ![p] = Fail(r)] \/ th' = [th EXCEPT ![p] = Found(r)]
  <2>1. PICK q : th' = [th EXCEPT ![p] = q] /\ q \in {Fail(r), Found(r)}
    BY <1>6
  <2>2. Moves(r, q, 0, LockOf(r))
    BY <1>2, <2>1, FailFrame, FoundFrame
  <2>3. QED
    BY <1>1, <1>4, <1>5, <1>6, <2>1, <2>2, MemoryStep
<1>7. ASSUME NEW i, i = dirlookup(r.cur, Head(r.path)), i # 0,
             icache' = iget(Visit(r.cur), i), th' = [th EXCEPT ![p] = Down(r, i)]
      PROVE  RefInv'
  <2>1. i \in Inum
    <3>1. Head(r.path) \in Name \cup Dots
      BY <1>2, SMTT(30) DEF Frame
    <3>2. QED
      BY <1>3, <1>7, <3>1, EntryIs
  <2>2. Moves(r, Down(r, i), i, LockOf(r))
    BY <1>2, <2>1, DownFrame
  <2>3. LockOf(r) = i => icache[i].ref >= 1
    BY <1>2, <2>1, Numbers DEF LockOf
  <2>4. Effect(icache, icache', i, p, LockOf(r))
    BY <1>5, <1>7, <2>1, <2>3, EffectGet
  <2>5. QED
    BY <1>1, <1>4, <1>7, <2>2, <2>4, MemoryStep
<1>8. QED
  BY <1>1, <1>6, <1>7 DEF namex, Fail, Found, Down
-----------------------------------------------------------------------------
(* iput.                                                                   *)

\* iput has dropped a reference.
Popped(r) == [r EXCEPT !.puts = Tail(@), !.freeing = "no"]

LEMMA PoppedFrame ==
  ASSUME NEW r \in Frame, Place(r), r.puts # <<>>
  PROVE  /\ Popped(r) \in Frame /\ Place(Popped(r)) /\ LockOf(Popped(r)) = LockOf(r)
         /\ Head(r.puts) \in Inum /\ Put(r.puts, 1) = Head(r.puts)
         /\ \A j \in Inum : Ptrs(r, j) = Ptrs(Popped(r), j) + One(Head(r.puts), j)
<1>0. PICK q : q = Popped(r)
  OBVIOUS
<1>1. /\ Head(r.puts) \in Inum /\ Put(r.puts, 1) = Head(r.puts)
      /\ Tail(r.puts) \in Seq(Inum) /\ Len(Tail(r.puts)) <= 2
      /\ Put(Tail(r.puts), 1) = Put(r.puts, 2) /\ Put(Tail(r.puts), 2) = 0
  <2>1. r.puts \in Seq(Inum) /\ Len(r.puts) <= 2
    BY DEF Frame, Place
  <2>2. QED
    BY <2>1, PutTail
<1>2. q \in Frame
  BY <1>0, <1>1 DEF Frame, Popped
<1>3. /\ q.pc = r.pc /\ q.cur = r.cur /\ q.puts = Tail(r.puts) /\ q.ip = r.ip
      /\ q.ret = r.ret /\ q.freeing = "no" /\ q.path = r.path
  BY <1>0, <1>2 DEF Frame, Popped
<1>4. Place(q)
  BY <1>1, <1>3 DEF Place
<1>5. LockOf(q) = LockOf(r)
  BY <1>3 DEF LockOf
<1>6. ASSUME NEW j \in Inum
      PROVE  Ptrs(r, j) = Ptrs(q, j) + One(Head(r.puts), j)
  BY <1>1, <1>3, Numbers, SMTT(30) DEF Ptrs, One
<1>7. QED
  BY <1>0, <1>1, <1>2, <1>4, <1>5, <1>6

\* iput drops one reference of its call.
LEMMA DropStep ==
  ASSUME RefInv, NEW p \in Proc, th[p].puts # <<>>, NEW i, i = Head(th[p].puts),
         th' = [th EXCEPT ![p] = Popped(th[p])],
         UNCHANGED <<dinode, dir>>, OnlyInodes, icache' \in Cache,
         \A j \in Inum \ {i} : icache'[j] = icache[j],
         icache'[i].ref = icache[i].ref - 1,
         \/ icache'[i].lock = icache[i].lock
         \/ icache[i].ref = 1 /\ icache'[i].lock = None
  PROVE  RefInv'
<1>1. PICK r : r = th[p]
  OBVIOUS
<1>2. r \in Frame /\ Place(r) /\ r.puts # <<>>
  BY <1>1, Types
<1>3. PICK q : q = Popped(r)
  OBVIOUS
<1>4. /\ q \in Frame /\ Place(q) /\ LockOf(q) = LockOf(r)
      /\ i \in Inum /\ Put(r.puts, 1) = i
      /\ \A j \in Inum : Ptrs(r, j) = Ptrs(q, j) + One(i, j)
  BY <1>1, <1>2, <1>3, PoppedFrame
<1>5. /\ dinode' \in [Inum -> [type : Type, nlink : Int]]
      /\ dir' \in [Inum -> [Name \cup Dots -> 0..NInodes]]
      /\ UNCHANGED <<file, ofile, cwd>>
  BY Types DEF TypeOK, OnlyInodes
<1>6. th' = [th EXCEPT ![p] = q]
  BY <1>1, <1>3
<1>7. ASSUME NEW j \in Inum, NEW s \in Proc
      PROVE  icache'[j].lock = s <=> icache[j].lock = s
  <2>1. CASE j # i \/ icache'[i].lock = icache[i].lock
    BY <2>1
  <2>2. CASE j = i /\ icache[i].ref = 1 /\ icache'[i].lock = None
    <3>1. icache[i].lock # s
      <4>1. SUFFICES ASSUME icache[i].lock = s PROVE FALSE
        OBVIOUS
      <4>2. icache[i].ref >= 2
        BY <1>1, <1>4, <4>1, LockedRef
      <4>3. QED
        BY <2>2, <4>2, SMTT(30)
    <3>2. QED
      BY <2>2, <3>1, FSAssumption
  <2>3. QED
    BY <2>1, <2>2
<1>8. ASSUME NEW j \in Inum
      PROVE  icache'[j].ref + Ptrs(r, j) = icache[j].ref + Ptrs(q, j)
  <2>0. Ptrs(q, j) \in Nat
    BY SMTT(30) DEF Ptrs, One
  <2>1. icache[j].ref \in Nat /\ icache'[j].ref \in Nat /\ Ptrs(q, j) \in Nat
    BY <2>0, Types DEF Cache, CacheRec
  <2>2. PICK a \in Nat, b \in Nat : a = Ptrs(q, j) /\ b = One(i, j) /\ Ptrs(r, j) = a + b
    BY <1>4, <2>1 DEF One
  <2>3. icache'[j].ref = icache[j].ref - b
    BY <2>1, <2>2, SMTT(30) DEF One
  <2>4. QED
    BY <2>1, <2>2, <2>3, SMTT(30)
<1>9. ASSUME NEW j \in Inum
      PROVE  /\ icache'[j].ref + Ptrs(th[p], j) = icache[j].ref + Ptrs(q, j)
             /\ icache'[j].lock = p <=> LockOf(q) = j
             /\ \A s \in Proc \ {p} : icache'[j].lock = s <=> icache[j].lock = s
  <2>1. icache[j].lock = p <=> LockOf(q) = j
    BY <1>1, <1>4 DEF RefInv, LocksHeld
  <2>2. QED
    BY <1>1, <1>7, <1>8, <2>1
<1>10. QED
  BY <1>4, <1>5, <1>6, <1>9, CallStep

LEMMA DropCache ==
  ASSUME NEW ic \in Cache, NEW i \in Inum, ic[i].ref >= 1, NEW jc,
         \/ ic[i].ref = 1 /\ jc = [ic EXCEPT ![i] = Unused]
         \/ ic[i].ref # 1 /\ jc = [ic EXCEPT ![i].ref = @ - 1]
         \/ ic[i].ref # 1 /\ jc = [ic EXCEPT ![i].ref = @ - 1, ![i].valid = FALSE]
  PROVE  /\ jc \in Cache /\ jc[i].ref = ic[i].ref - 1
         /\ \A j \in Inum \ {i} : jc[j] = ic[j]
         /\ \/ jc[i].lock = ic[i].lock
            \/ ic[i].ref = 1 /\ jc[i].lock = None
<1>1. ic[i] \in CacheRec /\ ic[i].ref - 1 \in Nat
  BY SMTT(30) DEF Cache, CacheRec
<1>2. CASE ic[i].ref = 1
  <2>1. Unused \in CacheRec /\ Unused.ref = 0 /\ Unused.lock = None
    BY SMTT(30) DEF Unused, CacheRec, Type
  <2>2. QED
    BY <1>1, <1>2, <2>1, SMTT(30) DEF Cache
<1>3. CASE ic[i].ref # 1 /\ jc = [ic EXCEPT ![i].ref = @ - 1]
  <2>1. PICK c : c = [ic[i] EXCEPT !.ref = @ - 1]
    OBVIOUS
  <2>2. c \in CacheRec
    BY <1>1, <2>1 DEF CacheRec
  <2>3. c.ref = ic[i].ref - 1 /\ c.lock = ic[i].lock
    BY <1>1, <2>1, <2>2 DEF CacheRec
  <2>4. jc = [ic EXCEPT ![i] = c]
    BY <1>3, <2>1
  <2>5. QED
    BY <2>2, <2>3, <2>4 DEF Cache
<1>4. CASE ic[i].ref # 1 /\ jc = [ic EXCEPT ![i].ref = @ - 1, ![i].valid = FALSE]
  <2>1. PICK c : c = [ic[i] EXCEPT !.ref = @ - 1, !.valid = FALSE]
    OBVIOUS
  <2>2. c \in CacheRec
    BY <1>1, <2>1 DEF CacheRec
  <2>3. c.ref = ic[i].ref - 1 /\ c.lock = ic[i].lock
    BY <1>1, <2>1, <2>2 DEF CacheRec
  <2>4. jc = [ic EXCEPT ![i] = c]
    BY <1>4, <2>1
  <2>5. QED
    BY <2>2, <2>3, <2>4 DEF Cache
<1>5. QED
  BY <1>2, <1>3, <1>4

Marked(r, f) == [r EXCEPT !.freeing = f]

LEMMA MarkedFrame ==
  ASSUME NEW r \in Frame, Place(r), r.puts # <<>>, NEW f \in {"no", "itrunc", "flags"}
  PROVE  Moves(r, Marked(r, f), 0, LockOf(r))
<1>0. PICK q : q = Marked(r, f)
  OBVIOUS
<1>2. q \in Frame
  BY <1>0 DEF Frame, Marked
<1>3. /\ q.pc = r.pc /\ q.cur = r.cur /\ q.puts = r.puts /\ q.ip = r.ip
      /\ q.ret = r.ret /\ q.freeing = f /\ q.path = r.path
  BY <1>0, <1>2 DEF Frame, Marked
<1>4. Place(q) /\ LockOf(q) = LockOf(r)
  BY <1>3 DEF Place, LockOf
<1>5. \A j \in Inum : Ptrs(q, j) = Ptrs(r, j) + One(0, j)
  BY <1>3, Numbers, SMTT(30) DEF Ptrs, One
<1>6. QED
  BY <1>0, <1>2, <1>4, <1>5 DEF Moves

\* iput sees the last reference to an inode without links.
LEMMA iputTestRefs ==
  ASSUME RefInv, NEW p \in Proc, iputTest(p)
  PROVE  RefInv'
<1>1. PICK r : r = th[p]
  OBVIOUS
<1>2. r \in Frame /\ Place(r) /\ r.puts # <<>> /\ r.freeing = "no"
  BY <1>1, Types DEF iputTest, iputTestAs
<1>3. UNCHANGED <<dinode, dir>> /\ OnlyInodes
  BY DEF iputTest, iputTestAs
<1>4. PICK i : i = Head(r.puts)
  OBVIOUS
<1>5. i \in Inum /\ icache \in Cache /\ icache[i].ref >= 1
  <2>1. i \in Inum /\ Put(r.puts, 1) = i
    BY <1>2, <1>4, PoppedFrame
  <2>2. QED
    BY <1>1, <2>1, Types, PointedRef
<1>6. CASE th' = [th EXCEPT ![p] = Marked(r, "itrunc")] /\ icache' = icache
  <2>2. Moves(r, Marked(r, "itrunc"), 0, LockOf(r))
    BY <1>2, MarkedFrame
  <2>5. QED
    BY <1>1, <1>3, <1>6, <2>2, EffectNone, MemoryStep
<1>7. CASE /\ \/ icache[i].ref = 1 /\ icache' = [icache EXCEPT ![i] = Unused]
              \/ icache[i].ref # 1 /\ icache' = [icache EXCEPT ![i].ref = @ - 1]
           /\ th' = [th EXCEPT ![p].puts = Tail(@)]
  <2>0. \/ icache[i].ref = 1 /\ icache' = [icache EXCEPT ![i] = Unused]
        \/ icache[i].ref # 1 /\ icache' = [icache EXCEPT ![i].ref = @ - 1]
        \/ /\ icache[i].ref # 1
           /\ icache' = [icache EXCEPT ![i].ref = @ - 1, ![i].valid = FALSE]
    BY <1>7
  <2>1. /\ icache' \in Cache /\ icache'[i].ref = icache[i].ref - 1
        /\ \A j \in Inum \ {i} : icache'[j] = icache[j]
        /\ \/ icache'[i].lock = icache[i].lock
           \/ icache[i].ref = 1 /\ icache'[i].lock = None
    BY <1>5, <2>0, DropCache, SMTT(30)
  <2>2. Popped(r) = [r EXCEPT !.puts = Tail(@)]
    BY <1>2 DEF Popped, Frame
  <2>3. th' = [th EXCEPT ![p] = Popped(th[p])]
    BY <1>1, <1>7, <2>2
  <2>4. QED
    BY <1>1, <1>2, <1>3, <1>4, <2>1, <2>3, DropStep
<1>8. QED
  BY <1>1, <1>4, <1>6, <1>7 DEF iputTest, iputTestAs, Marked

\* iput drops its reference.
LEMMA iputDoneRefs ==
  ASSUME RefInv, NEW p \in Proc, iputDone(p)
  PROVE  RefInv'
<1>1. PICK r : r = th[p]
  OBVIOUS
<1>2. r \in Frame /\ Place(r) /\ r.puts # <<>>
  BY <1>1, Types DEF iputDone, Place
<1>3. UNCHANGED <<dinode, dir>> /\ OnlyInodes
  BY DEF iputDone
<1>4. PICK i : i = Head(r.puts)
  OBVIOUS
<1>5. i \in Inum /\ icache \in Cache /\ icache[i].ref >= 1
  <2>1. i \in Inum /\ Put(r.puts, 1) = i
    BY <1>2, <1>4, PoppedFrame
  <2>2. QED
    BY <1>1, <2>1, Types, PointedRef
<1>6. \/ icache[i].ref = 1 /\ icache' = [icache EXCEPT ![i] = Unused]
      \/ /\ icache[i].ref # 1
         /\ icache' = [icache EXCEPT ![i].ref = @ - 1, ![i].valid = FALSE]
  BY <1>1, <1>4 DEF iputDone
<1>7. /\ icache' \in Cache /\ icache'[i].ref = icache[i].ref - 1
      /\ \A j \in Inum \ {i} : icache'[j] = icache[j]
      /\ \/ icache'[i].lock = icache[i].lock
         \/ icache[i].ref = 1 /\ icache'[i].lock = None
  BY <1>5, <1>6, DropCache, SMTT(30)
<1>8. th' = [th EXCEPT ![p] = Popped(th[p])]
  BY DEF iputDone, Popped
<1>9. QED
  BY <1>1, <1>2, <1>3, <1>4, <1>7, <1>8, DropStep
-----------------------------------------------------------------------------
(* iput frees the inode: it writes to the disk.                            *)

LEMMA IupdateDinodes ==
  ASSUME NEW di \in Dinodes, NEW ic \in Cache, NEW i \in Inum
  PROVE  /\ iupdate(di, ic, i) \in Dinodes
         /\ \A j \in Inum \ {i} : iupdate(di, ic, i)[j] = di[j]
         /\ iupdate(di, ic, i)[i].type = ic[i].type
         /\ iupdate(di, ic, i)[i].nlink = ic[i].nlink
<1>1. PICK c : c = [type |-> ic[i].type, nlink |-> ic[i].nlink]
  OBVIOUS
<1>2. c \in [type : Type, nlink : Int] /\ c.type = ic[i].type /\ c.nlink = ic[i].nlink
  BY <1>1 DEF Cache, CacheRec
<1>3. iupdate(di, ic, i) = [di EXCEPT ![i] = c]
  BY <1>1 DEF iupdate
<1>4. QED
  BY <1>2, <1>3 DEF Dinodes

LEMMA DirTypes ==
  ASSUME NEW d \in Dirs, NEW i \in Inum, NEW n \in Name \cup Dots, NEW j \in 0..NInodes
  PROVE  /\ [d EXCEPT ![i][n] = j] \in Dirs
         /\ [d EXCEPT ![i] = NoEntries] \in Dirs
BY Numbers DEF Dirs, NoEntries

\* iput frees the inode, in two steps of its own.
LEMMA iputFreeRefs ==
  ASSUME RefInv, NEW p \in Proc, iputFree(p)
  PROVE  RefInv'
<1>1. PICK r : r = th[p]
  OBVIOUS
<1>2. r \in Frame /\ Place(r) /\ r.puts # <<>>
  BY <1>1, Types DEF iputFree, Place
<1>3. OnlyInodes
  BY DEF iputFree
<1>4. PICK i : i = Head(r.puts)
  OBVIOUS
<1>5. i \in Inum /\ icache \in Cache /\ "none" \in Type
  BY <1>2, <1>4, Types, PoppedFrame DEF Type
<1>6. /\ icache' = [icache EXCEPT ![i].type = "none"]
      /\ dinode' = iupdate(dinode, icache', i) /\ dir' = [dir EXCEPT ![i] = NoEntries]
  BY <1>1, <1>4 DEF iputFree
<1>7. /\ icache' \in Cache
      /\ \A j \in Inum : icache'[j].ref = icache[j].ref /\ icache'[j].lock = icache[j].lock
  <2>1. PICK ic : ic = WithType(icache, i, "none")
    OBVIOUS
  <2>2. /\ ic \in Cache /\ \A j \in Inum \ {i} : ic[j] = icache[j]
        /\ ic[i].ref = icache[i].ref /\ ic[i].lock = icache[i].lock
    BY <1>5, <2>1, FieldCache DEF Changed
  <2>3. icache' = ic
    BY <1>6, <2>1 DEF WithType
  <2>4. QED
    BY <2>2, <2>3
<1>8. dinode' \in Dinodes /\ dir' \in Dirs
  <2>1. dinode \in Dinodes /\ dir \in Dirs
    BY DiskTypes
  <2>2. dinode' \in Dinodes
    BY <1>5, <1>6, <1>7, <2>1, IupdateDinodes
  <2>3. dir' \in Dirs
    BY <1>5, <1>6, <2>1, Numbers DEF Dirs, NoEntries
  <2>4. QED
    BY <2>2, <2>3
<1>9. Moves(r, Marked(r, "flags"), 0, LockOf(r))
  BY <1>2, MarkedFrame
<1>10. Effect(icache, icache', 0, p, LockOf(r))
  BY <1>1, <1>7, EffectNone, EffectWrite
<1>11. th' = [th EXCEPT ![p] = Marked(r, "flags")]
  BY <1>1 DEF iputFree, Marked
<1>12. QED
  BY <1>1, <1>3, <1>8, <1>9, <1>10, <1>11, DiskStep
-----------------------------------------------------------------------------
(* sys_link.                                                               *)

\* The variables of a call before namex: the new name of sys_link, the type that
\* create is asked for.
Fresh(new, t) == [pc |-> "idle", path |-> <<>>, ret |-> "idle", cur |-> 0, ip |-> 0,
                  new |-> new, type |-> t, puts |-> <<>>, freeing |-> "no"]

LEMMA FreshFrame ==
  ASSUME NEW new \in PathName, NEW t \in Type
  PROVE  /\ Fresh(new, t) \in Frame /\ Fresh(new, t).puts = <<>>
         /\ Fresh(new, t).freeing = "no" /\ Fresh(new, t).ip = 0
<1>1. /\ "idle" \in PC /\ <<>> \in Seq(Name \cup Dots) /\ "idle" \in Rets \cup {"idle"}
      /\ 0 \in 0..NInodes /\ <<>> \in Seq(Inum) /\ "no" \in {"no", "itrunc", "flags"}
  BY Numbers, SMTT(30) DEF PC
<1>2. Fresh(new, t) \in Frame
  BY <1>1, IsFrame DEF Fresh
<1>3. QED
  BY <1>2 DEF Fresh

LEMMA FreshIs ==
  /\ Idle = Fresh(NoPath, "none")
  /\ \A new : [Idle EXCEPT !.new = new] = Fresh(new, "none")
  /\ \A t : [Idle EXCEPT !.type = t] = Fresh(NoPath, t)
  /\ NoPath \in PathName
  /\ {"none", "dir", "file", "dev"} = Type
  /\ Path \subseteq PathName
<1>1. Idle = Fresh(NoPath, "none")
  BY DEF Idle, Fresh
<1>2. ASSUME NEW new PROVE [Idle EXCEPT !.new = new] = Fresh(new, "none")
  BY SMTT(30) DEF Idle, Fresh
<1>3. ASSUME NEW t PROVE [Idle EXCEPT !.type = t] = Fresh(NoPath, t)
  BY SMTT(30) DEF Idle, Fresh
<1>4. NoPath \in PathName
  BY SMTT(30) DEF NoPath, PathName
<1>5. {"none", "dir", "file", "dev"} = Type
  BY DEF Type
<1>6. Path \subseteq PathName
  BY FSAssumption DEF PathName, Dots
<1>7. QED
  BY <1>1, <1>2, <1>3, <1>4, <1>5, <1>6

LEMMA createRefs ==
  ASSUME RefInv, NEW p \in Proc, NEW path \in PathName, NEW t \in Type,
         create(p, path, t)
  PROVE  RefInv'
<1>1. /\ At(p, "idle") /\ UNCHANGED <<dinode, dir>> /\ OnlyInodes
      /\ namexStart(p, path, Fresh(NoPath, t), "create1")
  BY FreshIs DEF create
<1>2. PICK r : r = Fresh(NoPath, t)
  OBVIOUS
<1>3. r \in Frame /\ r.puts = <<>> /\ r.freeing = "no" /\ r.ip = 0
  BY <1>2, FreshFrame, FreshIs
<1>4. namexStart(p, path, r, "create1") /\ "create1" \in Rets \ {"link2"}
  BY <1>1, <1>2 DEF Rets
<1>5. QED
  BY <1>1, <1>3, <1>4, startRefs

LEMMA sys_linkRefs ==
  ASSUME RefInv, NEW p \in Proc, NEW path \in PathName, NEW new \in PathName,
         sys_link(p, path, new)
  PROVE  RefInv'
<1>1. /\ At(p, "idle") /\ UNCHANGED <<dinode, dir>> /\ OnlyInodes
      /\ namexStart(p, path, Fresh(new, "none"), "link1")
  BY FreshIs DEF sys_link
<1>2. PICK r : r = Fresh(new, "none")
  OBVIOUS
<1>3. r \in Frame /\ r.puts = <<>> /\ r.freeing = "no" /\ r.ip = 0
  BY <1>2, FreshFrame, FreshIs
<1>4. namexStart(p, path, r, "link1") /\ "link1" \in Rets \ {"link2"}
  BY <1>1, <1>2 DEF Rets
<1>5. QED
  BY <1>1, <1>3, <1>4, startRefs

\* sys_unlink, sys_open without O_CREATE, and sys_chdir.
LEMMA lookupRefs ==
  ASSUME RefInv, NEW p \in Proc, NEW path \in PathName, At(p, "idle"),
         UNCHANGED <<dinode, dir>>, OnlyInodes,
         NEW label \in {"unlink1", "open1", "chdir1"}, namexStart(p, path, Idle, label)
  PROVE  RefInv'
<1>1. namexStart(p, path, Fresh(NoPath, "none"), label)
  BY FreshIs
<1>2. PICK r : r = Fresh(NoPath, "none")
  OBVIOUS
<1>3. r \in Frame /\ r.puts = <<>> /\ r.freeing = "no" /\ r.ip = 0
  BY <1>2, FreshFrame, FreshIs
<1>4. namexStart(p, path, r, label) /\ label \in Rets \ {"link2"}
  BY <1>1, <1>2 DEF Rets
<1>5. QED
  BY <1>3, <1>4, startRefs

LEMMA EffectNlink ==
  ASSUME NEW p, NEW l, NEW g, NEW ic, Effect(icache, ic, g, p, l),
         NEW i \in Inum, NEW n \in Int
  PROVE  /\ WithNlink(ic, i, n) \in Cache
         /\ Effect(icache, WithNlink(ic, i, n), g, p, l)
<1>1. PICK jc : jc = WithNlink(ic, i, n)
  OBVIOUS
<1>2. ic \in Cache
  BY DEF Effect
<1>3. /\ jc \in Cache /\ \A j \in Inum \ {i} : jc[j] = ic[j]
      /\ jc[i].ref = ic[i].ref /\ jc[i].lock = ic[i].lock
  BY <1>1, <1>2, FieldCache DEF Changed
<1>4. \A j \in Inum : jc[j].ref = ic[j].ref /\ jc[j].lock = ic[j].lock
  BY <1>3
<1>5. QED
  BY <1>1, <1>3, <1>4, EffectWrite

\* sys_link goes on with the new path.
ToNew(r, i) == [r EXCEPT !.pc = "namex", !.ret = "link2", !.path = r.new.elems,
                         !.ip = r.cur, !.cur = i]

LEMMA ToNewFrame ==
  ASSUME NEW r \in Frame, Place(r), r.pc = "link1", r.puts = <<>>, r.cur # 0,
         NEW i \in Inum
  PROVE  Moves(r, ToNew(r, i), i, 0)
<1>0. PICK q : q = ToNew(r, i)
  OBVIOUS
<1>1. /\ r.cur \in 0..NInodes /\ i \in 0..NInodes /\ i # 0 /\ r.ip = 0
      /\ r.new.elems \in Seq(Name \cup Dots) /\ r.ret = "link1" /\ r.freeing = "no"
  BY Numbers DEF Place, Frame, HasIp, PathName, Rets
<1>2. q \in Frame
  BY <1>0, <1>1 DEF Frame, ToNew, PC, Rets
<1>3. /\ q.pc = "namex" /\ q.cur = i /\ q.puts = <<>> /\ q.ip = r.cur
      /\ q.ret = "link2" /\ q.freeing = "no"
  BY <1>0, <1>1, <1>2 DEF Frame, ToNew
<1>4. Place(q) /\ LockOf(q) = 0
  BY <1>1, <1>3 DEF Place, NoCur, HasCur, HasIp, Rets, WantsParent, LockOf
<1>5. \A j \in Inum : Ptrs(q, j) = Ptrs(r, j) + One(i, j)
  BY <1>1, <1>3, Numbers, SMTT(30) DEF Ptrs, One
<1>6. QED
  BY <1>0, <1>2, <1>4, <1>5 DEF Moves

LEMMA link1Refs ==
  ASSUME RefInv, NEW p \in Proc, link1(p)
  PROVE  RefInv'
<1>1. PICK r : r = th[p]
  OBVIOUS
<1>2. /\ r \in Frame /\ Place(r) /\ r.pc = "link1" /\ r.puts = <<>>
      /\ r.ip = 0 /\ LockOf(r) = 0 /\ r.cur \in Inum \cup {0}
  <2>1. r \in Frame /\ Place(r) /\ r.pc = "link1" /\ r.puts = <<>>
    BY <1>1, Types DEF link1, At
  <2>2. QED
    BY <2>1, Numbers DEF Frame, Place, HasIp, LockOf
<1>3. OnlyInodes /\ dir' = dir /\ dinode \in Dinodes /\ dir \in Dirs
  BY DiskTypes DEF link1
<1>4. CASE r.cur = 0 /\ Return(p, <<>>) /\ UNCHANGED <<icache, dinode>>
  <2>1. Drops(r, <<>>)
    BY <1>2, <1>4 DEF Drops
  <2>2. Effect(icache, icache', 0, p, 0)
    BY <1>1, <1>2, <1>4, EffectNone
  <2>3. QED
    BY <1>1, <1>2, <1>3, <1>4, <2>1, <2>2, CallEnds
<1>5. CASE /\ r.cur # 0 /\ mayLock(r.cur)
           /\ Return(p, <<r.cur>>) /\ icache' = Visit(r.cur) /\ UNCHANGED dinode
  <2>1. Drops(r, <<r.cur>>)
    BY <1>2, <1>5 DEF Drops
  <2>2. Effect(icache, icache', 0, p, 0)
    BY <1>1, <1>2, <1>5, EffectVisit
  <2>3. QED
    BY <1>1, <1>2, <1>3, <1>5, <2>1, <2>2, CallEnds
<1>6. ASSUME NEW ic, ic = Visit(r.cur),
             NEW up, up = WithNlink(ic, r.cur, ic[r.cur].nlink + 1),
             NEW i, i = IF r.new.abs THEN ROOTINO ELSE cwd[p],
             r.cur # 0, mayLock(r.cur), icache' = iget(up, i),
             dinode' = iupdate(dinode, up, r.cur),
             th' = [th EXCEPT ![p] = ToNew(r, i)]
      PROVE  RefInv'
  <2>1. r.cur \in Inum /\ i \in Inum /\ 0 # i
    BY <1>2, <1>6, Types, Numbers
  <2>2. Effect(icache, ic, 0, p, 0)
    BY <1>1, <1>2, <1>6, <2>1, EffectVisit
  <2>3. PICK n \in Int : n = ic[r.cur].nlink + 1
    BY <2>1, <2>2, SMTT(30) DEF Effect, Cache, CacheRec
  <2>4. up = WithNlink(ic, r.cur, n)
    BY <1>6, <2>3
  <2>5. up \in Cache /\ Effect(icache, up, 0, p, 0)
    BY <2>1, <2>2, <2>4, EffectNlink
  <2>6. Effect(icache, icache', i, p, 0)
    BY <1>6, <2>1, <2>5, EffectGet
  <2>7. dinode' \in Dinodes /\ dir' \in Dirs
    BY <1>3, <1>6, <2>1, <2>5, IupdateDinodes
  <2>9. Moves(r, ToNew(r, i), i, 0)
    BY <1>2, <1>6, <2>1, ToNewFrame
  <2>12. QED
    BY <1>1, <1>3, <1>6, <2>6, <2>7, <2>9, DiskStep
<1>7. QED
  BY <1>1, <1>4, <1>5, <1>6 DEF link1, ToNew, WithNlink

\* sys_link at "bad", with what it drops first.
Bad(i, s) == [pc |-> "linkbad", path |-> <<>>, ret |-> "idle", cur |-> 0, ip |-> i,
              new |-> NoPath, type |-> "none", puts |-> s, freeing |-> "no"]

LEMMA BadFrame ==
  ASSUME NEW i \in Inum, NEW s \in Seq(Inum), Len(s) <= 2
  PROVE  /\ Bad(i, s) \in Frame /\ Place(Bad(i, s)) /\ LockOf(Bad(i, s)) = 0
         /\ Bad(i, s).cur = 0 /\ Bad(i, s).ip = i /\ Bad(i, s).puts = s
<1>1. PICK q : q = Bad(i, s)
  OBVIOUS
<1>2. /\ "linkbad" \in PC /\ <<>> \in Seq(Name \cup Dots) /\ "idle" \in Rets \cup {"idle"}
      /\ 0 \in 0..NInodes /\ i \in 0..NInodes /\ "no" \in {"no", "itrunc", "flags"}
      /\ NoPath \in PathName /\ "none" \in Type /\ i # 0
  BY Numbers, FreshIs, SMTT(30) DEF PC
<1>3. q \in Frame
  BY <1>1, <1>2, IsFrame DEF Bad
<1>4. /\ q.pc = "linkbad" /\ q.ret = "idle" /\ q.cur = 0 /\ q.ip = i /\ q.puts = s
      /\ q.freeing = "no" /\ q.path = <<>>
  BY <1>1 DEF Bad
<1>5. Place(q) /\ LockOf(q) = 0
  BY <1>2, <1>4 DEF Place, LockOf, NoCur, HasCur, HasIp, Rets, WantsParent
<1>6. QED
  BY <1>1, <1>3, <1>4, <1>5

LEMMA BadIs ==
  ASSUME NEW i, NEW c
  PROVE  /\ [Idle EXCEPT !.pc = "linkbad", !.ip = i] = Bad(i, <<>>)
         /\ [Bad(i, <<>>) EXCEPT !.puts = <<c>>] = Bad(i, <<c>>)
<1>1. [Idle EXCEPT !.pc = "linkbad", !.ip = i] = Bad(i, <<>>)
  <2>1. [Idle EXCEPT !.pc = "linkbad"] = Bad(0, <<>>)
    BY SMTT(30) DEF Idle, Bad
  <2>2. [Bad(0, <<>>) EXCEPT !.ip = i] = Bad(i, <<>>)
    BY SMTT(30) DEF Bad
  <2>3. [Idle EXCEPT !.pc = "linkbad", !.ip = i] = [[Idle EXCEPT !.pc = "linkbad"] EXCEPT !.ip = i]
    OBVIOUS
  <2>4. QED
    BY <2>1, <2>2, <2>3
<1>2. [Bad(i, <<>>) EXCEPT !.puts = <<c>>] = Bad(i, <<c>>)
  BY SMTT(30) DEF Bad
<1>3. QED
  BY <1>1, <1>2

LEMMA link2Refs ==
  ASSUME RefInv, NEW p \in Proc, link2(p)
  PROVE  RefInv'
<1>1. PICK r : r = th[p]
  OBVIOUS
<1>2. /\ r \in Frame /\ Place(r) /\ r.pc = "link2" /\ r.puts = <<>>
      /\ r.ip \in Inum /\ r.ip # 0 /\ LockOf(r) = 0 /\ r.cur \in Inum \cup {0}
      /\ r.cur # 0 => Head(r.path) \in Name \cup Dots
  <2>1. r \in Frame /\ Place(r) /\ r.pc = "link2" /\ r.puts = <<>>
    BY <1>1, Types DEF link2, At
  <2>2. QED
    BY <2>1, FrameOf DEF Frame, Place, HasIp, LockOf, WantsParent
<1>3. OnlyInodes /\ dinode' = dinode /\ dinode \in Dinodes /\ dir \in Dirs
  BY DiskTypes DEF link2
<1>4. Effect(icache, icache, 0, p, 0)
  BY <1>1, <1>2, EffectNone
<1>5. r.cur # 0 /\ mayLock(r.cur) => Effect(icache, Visit(r.cur), 0, p, 0)
  BY <1>1, <1>2, EffectVisit
<1>6. ASSUME NEW s, \/ s = <<>> /\ r.cur = 0 /\ icache' = icache
                    \/ s = <<r.cur>> /\ r.cur # 0 /\ mayLock(r.cur)
                       /\ icache' = Visit(r.cur),
             dir' = dir, th' = [th EXCEPT ![p] = Bad(r.ip, s)]
      PROVE  RefInv'
  <2>1. s \in Seq(Inum) /\ Len(s) <= 2
    <3>1. <<>> \in Seq(Inum) /\ Len(<<>>) <= 2
          /\ (r.cur # 0 => <<r.cur>> \in Seq(Inum) /\ Len(<<r.cur>>) <= 2)
      BY <1>2, SMTT(30)
    <3>2. QED
      BY <1>6, <3>1
  <2>2. PICK q : q = Bad(r.ip, s)
    OBVIOUS
  <2>3. /\ q \in Frame /\ Place(q) /\ LockOf(q) = 0
        /\ q.cur = 0 /\ q.ip = r.ip /\ q.puts = s
    BY <1>2, <2>1, <2>2, BadFrame
  <2>4. ASSUME NEW j \in Inum
        PROVE  Ptrs(q, j) = Ptrs(r, j) + One(0, j)
    <3>1. Put(r.puts, 1) = 0 /\ Put(r.puts, 2) = 0
      BY <1>2, PutOf
    <3>2. Put(q.puts, 1) = r.cur /\ Put(q.puts, 2) = 0
      BY <1>6, <2>3, PutOf, ZenonT(30)
    <3>3. QED
      BY <2>3, <3>1, <3>2, Numbers, SMTT(30) DEF Ptrs, One
  <2>5. Moves(th[p], q, 0, 0)
    BY <1>1, <2>3, <2>4 DEF Moves
  <2>6. Effect(icache, icache', 0, p, 0)
    BY <1>4, <1>5, <1>6
  <2>7. dinode' \in Dinodes /\ dir' \in Dirs /\ OnlyInodes
    BY <1>3, <1>6
  <2>8. th' = [th EXCEPT ![p] = q]
    BY <1>6, <2>2
  <2>9. QED
    BY <2>5, <2>6, <2>7, <2>8, DiskStep
<1>7. CASE /\ r.cur # 0 /\ mayLock(r.cur) /\ icache' = Visit(r.cur)
           /\ dir' = dirlink(r.cur, Head(r.path), r.ip) /\ Return(p, <<r.cur, r.ip>>)
  <2>1. Drops(r, <<r.cur, r.ip>>)
    BY <1>2, <1>7 DEF Drops
  <2>2. Effect(icache, icache', 0, p, 0)
    BY <1>5, <1>7
  <2>3. dinode' \in Dinodes /\ dir' \in Dirs
    BY <1>2, <1>3, <1>7, Numbers, DirTypes DEF dirlink
  <2>4. QED
    BY <1>1, <1>2, <1>3, <1>7, <2>1, <2>2, <2>3, CallEnds
<1>8. /\ [Idle EXCEPT !.pc = "linkbad", !.ip = r.ip] = Bad(r.ip, <<>>)
      /\ [Bad(r.ip, <<>>) EXCEPT !.puts = <<r.cur>>] = Bad(r.ip, <<r.cur>>)
  BY BadIs
<1>9. \/ /\ r.cur = 0 /\ icache' = icache /\ dir' = dir
         /\ th' = [th EXCEPT ![p] = Bad(r.ip, <<>>)]
      \/ /\ r.cur # 0 /\ mayLock(r.cur) /\ icache' = Visit(r.cur) /\ dir' = dir
         /\ th' = [th EXCEPT ![p] = Bad(r.ip, <<r.cur>>)]
      \/ /\ r.cur # 0 /\ mayLock(r.cur) /\ icache' = Visit(r.cur)
         /\ dir' = dirlink(r.cur, Head(r.path), r.ip) /\ Return(p, <<r.cur, r.ip>>)
  BY <1>1, <1>8 DEF link2
<1>10. QED
  BY <1>6, <1>7, <1>9

LEMMA linkbadRefs ==
  ASSUME RefInv, NEW p \in Proc, linkbad(p)
  PROVE  RefInv'
<1>1. PICK r : r = th[p]
  OBVIOUS
<1>2. /\ r \in Frame /\ Place(r) /\ r.pc = "linkbad" /\ r.puts = <<>>
      /\ r.ip \in Inum /\ r.ip # 0 /\ LockOf(r) = 0 /\ r.cur = 0
  <2>1. r \in Frame /\ Place(r) /\ r.pc = "linkbad" /\ r.puts = <<>>
    BY <1>1, Types DEF linkbad, At
  <2>2. QED
    BY <2>1, Numbers DEF Frame, Place, HasIp, LockOf, NoCur
<1>3. OnlyInodes /\ dir' = dir /\ dinode \in Dinodes /\ dir \in Dirs
  BY DiskTypes DEF linkbad
<1>4. PICK ic : ic = Visit(r.ip)
  OBVIOUS
<1>5. Effect(icache, ic, 0, p, 0)
  BY <1>1, <1>2, <1>4, EffectVisit DEF linkbad
<1>6. PICK n \in Int : n = ic[r.ip].nlink - 1
  BY <1>2, <1>5, SMTT(30) DEF Effect, Cache, CacheRec
<1>7. /\ icache' = WithNlink(ic, r.ip, n)
      /\ dinode' = iupdate(dinode, icache', r.ip) /\ Return(p, <<r.ip>>)
  BY <1>1, <1>4, <1>6 DEF linkbad, WithNlink
<1>8. icache' \in Cache /\ Effect(icache, icache', 0, p, 0)
  BY <1>2, <1>5, <1>7, EffectNlink
<1>9. dinode' \in Dinodes /\ dir' \in Dirs
  BY <1>2, <1>3, <1>7, <1>8, IupdateDinodes
<1>10. Drops(r, <<r.ip>>)
  BY <1>2 DEF Drops
<1>11. QED
  BY <1>1, <1>2, <1>3, <1>7, <1>8, <1>9, <1>10, CallEnds
-----------------------------------------------------------------------------
(* sys_unlink.                                                             *)

\* The frame of sys_unlink with both inodes, and when it has emptied the entry.
ToUnlink(r, i) == [r EXCEPT !.pc = "unlink2", !.ip = i]
NotEmpty(r) == [r EXCEPT !.pc = "unlinkbad", !.puts = <<r.ip>>, !.ip = 0]
Emptied(r) == [r EXCEPT !.pc = "unlink3", !.puts = <<r.cur>>, !.cur = 0]

LEMMA ToUnlinkFrame ==
  ASSUME NEW r \in Frame, Place(r), r.pc = "unlink1", r.puts = <<>>, r.cur # 0,
         NEW i \in Inum
  PROVE  Moves(r, ToUnlink(r, i), i, r.cur)
<1>0. PICK q : q = ToUnlink(r, i)
  OBVIOUS
<1>1. /\ i \in 0..NInodes /\ i # 0 /\ r.ip = 0
      /\ r.ret = "unlink1" /\ r.freeing = "no" /\ r.path # <<>>
  BY Numbers DEF Place, Frame, HasIp, Rets, WantsParent
<1>2. q \in Frame
  BY <1>0, <1>1 DEF Frame, ToUnlink, PC
<1>3. /\ q.pc = "unlink2" /\ q.cur = r.cur /\ q.puts = <<>> /\ q.ip = i
      /\ q.ret = "unlink1" /\ q.freeing = "no" /\ q.path = r.path
  BY <1>0, <1>1, <1>2 DEF Frame, ToUnlink
<1>4. Place(q) /\ LockOf(q) = r.cur
  BY <1>1, <1>3 DEF Place, NoCur, HasCur, HasIp, Rets, WantsParent, LockOf
<1>5. \A j \in Inum : Ptrs(q, j) = Ptrs(r, j) + One(i, j)
  BY <1>1, <1>3, Numbers, SMTT(30) DEF Ptrs, One
<1>6. QED
  BY <1>0, <1>2, <1>4, <1>5 DEF Moves

LEMMA NotEmptyFrame ==
  ASSUME NEW r \in Frame, Place(r), r.pc = "unlink2", r.puts = <<>>
  PROVE  Moves(r, NotEmpty(r), 0, LockOf(r))
<1>0. PICK q : q = NotEmpty(r)
  OBVIOUS
<1>1. /\ r.ip \in Inum /\ 0 \in 0..NInodes /\ <<r.ip>> \in Seq(Inum)
      /\ r.ret # "link2" /\ r.freeing = "no" /\ r.cur # 0
  BY Numbers, SMTT(30) DEF Place, Frame, HasIp, HasCur
<1>2. q \in Frame
  BY <1>0, <1>1 DEF Frame, NotEmpty, PC
<1>3. /\ q.pc = "unlinkbad" /\ q.cur = r.cur /\ q.puts = <<r.ip>> /\ q.ip = 0
      /\ q.ret = r.ret /\ q.freeing = "no"
  BY <1>0, <1>1, <1>2 DEF Frame, NotEmpty
<1>4. Place(q) /\ LockOf(q) = LockOf(r)
  BY <1>1, <1>3, SMTT(30) DEF Place, NoCur, HasCur, HasIp, Rets, WantsParent, LockOf
<1>5. Put(q.puts, 1) = r.ip /\ Put(q.puts, 2) = 0 /\ Put(r.puts, 1) = 0 /\ Put(r.puts, 2) = 0
  BY <1>3, SMTT(30) DEF Put
<1>6. \A j \in Inum : Ptrs(q, j) = Ptrs(r, j) + One(0, j)
  BY <1>1, <1>3, <1>5, Numbers, SMTT(30) DEF Ptrs, One
<1>7. QED
  BY <1>0, <1>2, <1>4, <1>6 DEF Moves

LEMMA EmptiedFrame ==
  ASSUME NEW r \in Frame, Place(r), r.pc = "unlink2", r.puts = <<>>
  PROVE  Moves(r, Emptied(r), 0, r.ip)
<1>0. PICK q : q = Emptied(r)
  OBVIOUS
<1>1. /\ r.cur \in Inum /\ 0 \in 0..NInodes /\ <<r.cur>> \in Seq(Inum)
      /\ r.ret # "link2" /\ r.freeing = "no" /\ r.ip # 0
  BY Numbers, SMTT(30) DEF Place, Frame, HasIp, HasCur
<1>2. q \in Frame
  BY <1>0, <1>1 DEF Frame, Emptied, PC
<1>3. /\ q.pc = "unlink3" /\ q.cur = 0 /\ q.puts = <<r.cur>> /\ q.ip = r.ip
      /\ q.ret = r.ret /\ q.freeing = "no"
  BY <1>0, <1>1, <1>2 DEF Frame, Emptied
<1>4. Place(q) /\ LockOf(q) = r.ip
  BY <1>1, <1>3, SMTT(30) DEF Place, NoCur, HasCur, HasIp, Rets, WantsParent, LockOf
<1>5. Put(q.puts, 1) = r.cur /\ Put(q.puts, 2) = 0 /\ Put(r.puts, 1) = 0 /\ Put(r.puts, 2) = 0
  BY <1>3, SMTT(30) DEF Put
<1>6. \A j \in Inum : Ptrs(q, j) = Ptrs(r, j) + One(0, j)
  BY <1>1, <1>3, <1>5, Numbers, SMTT(30) DEF Ptrs, One
<1>7. QED
  BY <1>0, <1>2, <1>4, <1>6 DEF Moves

LEMMA unlink1Refs ==
  ASSUME RefInv, NEW p \in Proc, unlink1(p)
  PROVE  RefInv'
<1>1. PICK r : r = th[p]
  OBVIOUS
<1>2. /\ r \in Frame /\ Place(r) /\ r.pc = "unlink1" /\ r.puts = <<>>
      /\ r.ip = 0 /\ LockOf(r) = 0 /\ r.cur \in Inum \cup {0}
      /\ r.cur # 0 => Head(r.path) \in Name \cup Dots
  <2>1. r \in Frame /\ Place(r) /\ r.pc = "unlink1" /\ r.puts = <<>>
    BY <1>1, Types DEF unlink1, At
  <2>2. QED
    BY <2>1, FrameOf DEF Frame, Place, HasIp, LockOf, WantsParent
<1>3. /\ UNCHANGED <<dinode, dir>> /\ OnlyInodes
      /\ dinode' \in Dinodes /\ dir' \in Dirs
  BY DiskTypes DEF unlink1
<1>4. CASE r.cur = 0 /\ Return(p, <<>>) /\ UNCHANGED icache
  <2>1. Drops(r, <<>>)
    BY <1>2, <1>4 DEF Drops
  <2>2. Effect(icache, icache', 0, p, 0)
    BY <1>1, <1>2, <1>4, EffectNone
  <2>3. QED
    BY <1>1, <1>2, <1>3, <1>4, <2>1, <2>2, CallEnds
<1>5. CASE /\ r.cur # 0 /\ mayLock(r.cur) /\ Return(p, <<r.cur>>)
           /\ icache' = iunlock(ilock(icache, r.cur, p), r.cur)
  <2>1. Drops(r, <<r.cur>>)
    BY <1>2, <1>5 DEF Drops
  <2>2. Effect(icache, icache', 0, p, 0)
    BY <1>1, <1>2, <1>5, EffectRelock
  <2>3. QED
    BY <1>1, <1>2, <1>3, <1>5, <2>1, <2>2, CallEnds
<1>6. ASSUME NEW i, i = dirlookup(r.cur, Head(r.path)), i # 0,
             r.cur # 0, mayLock(r.cur), icache' = iget(ilock(icache, r.cur, p), i),
             th' = [th EXCEPT ![p] = ToUnlink(r, i)]
      PROVE  RefInv'
  <2>1. r.cur \in Inum /\ i \in Inum
    BY <1>2, <1>6, EntryIs
  <2>2. Effect(icache, ilock(icache, r.cur, p), 0, p, r.cur)
    BY <1>1, <1>2, <1>6, <2>1, EffectLock
  <2>3. r.cur = i => icache[i].ref >= 1
    BY <1>1, <2>1, PointedRef
  <2>4. Effect(icache, icache', i, p, r.cur)
    BY <1>6, <2>1, <2>2, <2>3, EffectGet
  <2>6. Moves(r, ToUnlink(r, i), i, r.cur)
    BY <1>2, <1>6, <2>1, ToUnlinkFrame
  <2>9. QED
    BY <1>1, <1>3, <1>6, <2>4, <2>6, MemoryStep
<1>7. QED
  BY <1>1, <1>4, <1>5, <1>6 DEF unlink1, ToUnlink

\* A panic, which changes nothing else.
LEMMA StillRefs ==
  ASSUME RefInv, UNCHANGED <<dinode, dir, icache, file, ofile, cwd, th>>
  PROVE  RefInv'
<1>1. \A i : Holders(i)' = Holders(i)
  BY DEF Holders
<1>2. TypeOK'
  BY DEF RefInv, RefsAreCounted, TypeOK
<1>3. RefsAreCounted'
  BY <1>1, <1>2 DEF RefInv, RefsAreCounted
<1>4. FramesOK' /\ FilesOpen' /\ LocksHeld'
  BY SMTT(30) DEF RefInv, FramesOK, FilesOpen, LocksHeld
<1>5. QED
  BY <1>3, <1>4 DEF RefInv

LEMMA unlink2Refs ==
  ASSUME RefInv, NEW p \in Proc, unlink2(p)
  PROVE  RefInv'
<1>1. PICK r : r = th[p]
  OBVIOUS
<1>2. /\ r \in Frame /\ Place(r) /\ r.pc = "unlink2" /\ r.puts = <<>>
      /\ r.ip \in Inum /\ r.cur \in Inum /\ LockOf(r) = r.cur
      /\ Head(r.path) \in Name \cup Dots
  <2>1. r \in Frame /\ Place(r) /\ r.pc = "unlink2" /\ r.puts = <<>>
    BY <1>1, Types DEF unlink2, At
  <2>2. QED
    BY <2>1, FrameOf DEF Frame, Place, HasIp, HasCur, LockOf, WantsParent
<1>3. mayLock(r.ip) /\ dinode \in Dinodes /\ dir \in Dirs
  BY <1>1, DiskTypes DEF unlink2
<1>5. CASE /\ icache' = iunlock(ilock(icache, r.ip, p), r.ip)
           /\ th' = [th EXCEPT ![p] = NotEmpty(r)]
           /\ UNCHANGED <<dinode, dir>> /\ OnlyInodes
  <2>1. Effect(icache, icache', 0, p, LockOf(r))
    BY <1>1, <1>2, <1>3, <1>5, EffectRelock
  <2>3. Moves(r, NotEmpty(r), 0, LockOf(r))
    BY <1>2, NotEmptyFrame
  <2>6. QED
    BY <1>1, <1>5, <2>1, <2>3, MemoryStep
<1>6. ASSUME NEW ic, ic = iunlock(ilock(icache, r.ip, p), r.cur),
             NEW n \in Int, icache' = WithNlink(ic, r.cur, n),
             dinode' = dinode \/ dinode' = iupdate(dinode, icache', r.cur),
             dir' = [dir EXCEPT ![r.cur][Head(r.path)] = 0],
             th' = [th EXCEPT ![p] = Emptied(r)], OnlyInodes
      PROVE  RefInv'
  <2>1. Effect(icache, ic, 0, p, r.ip)
    BY <1>1, <1>2, <1>3, <1>6, EffectExchange
  <2>2. icache' \in Cache /\ Effect(icache, icache', 0, p, r.ip)
    BY <1>2, <1>6, <2>1, EffectNlink
  <2>3. dinode' \in Dinodes
    BY <1>2, <1>3, <1>6, <2>2, IupdateDinodes, SMTT(30)
  <2>4. dir' \in Dirs
    BY <1>2, <1>3, <1>6, Numbers, DirTypes
  <2>6. Moves(r, Emptied(r), 0, r.ip)
    BY <1>2, EmptiedFrame
  <2>9. QED
    BY <1>1, <1>6, <2>2, <2>3, <2>4, <2>6, DiskStep
<1>7. PICK ic : ic = iunlock(ilock(icache, r.ip, p), r.cur)
  OBVIOUS
<1>8. PICK n \in Int : n = IF ilock(icache, r.ip, p)[r.ip].type = "dir"
                           THEN ic[r.cur].nlink - 1 ELSE ic[r.cur].nlink
  <2>1. Effect(icache, ic, 0, p, r.ip)
    BY <1>1, <1>2, <1>3, <1>7, EffectExchange
  <2>2. ic[r.cur].nlink \in Int
    BY <1>2, <2>1 DEF Effect, Cache, CacheRec
  <2>3. QED
    BY <2>2, SMTT(30)
<1>9. \/ panic("unlink: nlink < 1")
      \/ /\ icache' = iunlock(ilock(icache, r.ip, p), r.ip)
         /\ th' = [th EXCEPT ![p] = NotEmpty(r)]
         /\ UNCHANGED <<dinode, dir>> /\ OnlyInodes
      \/ /\ icache' = WithNlink(ic, r.cur, n)
         /\ dinode' = dinode \/ dinode' = iupdate(dinode, icache', r.cur)
         /\ dir' = [dir EXCEPT ![r.cur][Head(r.path)] = 0]
         /\ th' = [th EXCEPT ![p] = Emptied(r)] /\ OnlyInodes
  BY <1>1, <1>7, <1>8, ZenonT(30) DEF unlink2, WithNlink, NotEmpty, Emptied
<1>10. panic("unlink: nlink < 1") => RefInv'
  BY StillRefs DEF panic
<1>11. QED
  BY <1>5, <1>6, <1>7, <1>9, <1>10

LEMMA unlinkbadRefs ==
  ASSUME RefInv, NEW p \in Proc, unlinkbad(p)
  PROVE  RefInv'
<1>1. PICK r : r = th[p]
  OBVIOUS
<1>2. /\ r \in Frame /\ Place(r) /\ r.pc = "unlinkbad" /\ r.puts = <<>>
      /\ r.ip = 0 /\ r.cur \in Inum /\ r.cur # 0 /\ LockOf(r) = r.cur
  <2>1. r \in Frame /\ Place(r) /\ r.pc = "unlinkbad" /\ r.puts = <<>>
    BY <1>1, Types DEF unlinkbad, At
  <2>2. QED
    BY <2>1, Numbers DEF Frame, Place, HasIp, HasCur, LockOf
<1>3. /\ OnlyInodes /\ dinode' \in Dinodes /\ dir' \in Dirs
      /\ icache' = iunlock(icache, r.cur) /\ Return(p, <<r.cur>>)
  BY <1>1, DiskTypes DEF unlinkbad
<1>4. Effect(icache, icache', 0, p, 0)
  BY <1>1, <1>2, <1>3, EffectUnlock
<1>5. Drops(r, <<r.cur>>)
  BY <1>2 DEF Drops
<1>6. QED
  BY <1>1, <1>2, <1>3, <1>4, <1>5, CallEnds

LEMMA unlink3Refs ==
  ASSUME RefInv, NEW p \in Proc, unlink3(p)
  PROVE  RefInv'
<1>1. PICK r : r = th[p]
  OBVIOUS
<1>2. /\ r \in Frame /\ Place(r) /\ r.pc = "unlink3" /\ r.puts = <<>>
      /\ r.ip \in Inum /\ r.ip # 0 /\ r.cur = 0 /\ LockOf(r) = r.ip
  <2>1. r \in Frame /\ Place(r) /\ r.pc = "unlink3" /\ r.puts = <<>>
    BY <1>1, Types DEF unlink3, At
  <2>2. QED
    BY <2>1, Numbers DEF Frame, Place, HasIp, NoCur, LockOf
<1>3. OnlyInodes /\ dir' = dir /\ dinode \in Dinodes /\ dir \in Dirs
  BY DiskTypes DEF unlink3
<1>4. PICK ic : ic = iunlock(icache, r.ip)
  OBVIOUS
<1>5. Effect(icache, ic, 0, p, 0)
  BY <1>1, <1>2, <1>4, EffectUnlock
<1>6. PICK n \in Int : n = ic[r.ip].nlink - 1
  BY <1>2, <1>5, SMTT(30) DEF Effect, Cache, CacheRec
<1>7. /\ icache' = WithNlink(ic, r.ip, n)
      /\ dinode' = iupdate(dinode, icache', r.ip) /\ Return(p, <<r.ip>>)
  BY <1>1, <1>4, <1>6 DEF unlink3, WithNlink
<1>8. icache' \in Cache /\ Effect(icache, icache', 0, p, 0)
  BY <1>2, <1>5, <1>7, EffectNlink
<1>9. dinode' \in Dinodes /\ dir' \in Dirs
  BY <1>2, <1>3, <1>7, <1>8, IupdateDinodes
<1>10. Drops(r, <<r.ip>>)
  BY <1>2 DEF Drops
<1>11. QED
  BY <1>1, <1>2, <1>3, <1>7, <1>8, <1>9, <1>10, CallEnds
-----------------------------------------------------------------------------
(* create.                                                                 *)

\* The frames of create: with the inode that has the name, with the new one, and
\* at the end.
Existing(r, i) == [r EXCEPT !.pc = "create2", !.ip = i, !.cur = 0, !.puts = <<r.cur>>]
ToCreate(r, i) == [r EXCEPT !.pc = "create3", !.ip = i]
Made(r) == [r EXCEPT !.pc = IF r.type = "file" THEN "open2" ELSE "made",
                     !.cur = 0, !.puts = <<r.cur>>]

LEMMA ExistingFrame ==
  ASSUME NEW r \in Frame, Place(r), r.pc = "create1", r.puts = <<>>, r.cur # 0,
         NEW i \in Inum
  PROVE  Moves(r, Existing(r, i), i, 0)
<1>0. PICK q : q = Existing(r, i)
  OBVIOUS
<1>1. /\ i \in 0..NInodes /\ i # 0 /\ r.ip = 0 /\ 0 \in 0..NInodes
      /\ r.ret = "create1" /\ r.freeing = "no" /\ <<r.cur>> \in Seq(Inum)
  BY Numbers, SMTT(30) DEF Place, Frame, HasIp, Rets
<1>2. q \in Frame
  BY <1>0, <1>1 DEF Frame, Existing, PC
<1>3. /\ q.pc = "create2" /\ q.cur = 0 /\ q.puts = <<r.cur>> /\ q.ip = i
      /\ q.ret = "create1" /\ q.freeing = "no"
  BY <1>0, <1>1, <1>2 DEF Frame, Existing
<1>4. Place(q) /\ LockOf(q) = 0
  BY <1>1, <1>3, SMTT(30) DEF Place, NoCur, HasCur, HasIp, Rets, WantsParent, LockOf
<1>5. Put(q.puts, 1) = r.cur /\ Put(q.puts, 2) = 0 /\ Put(r.puts, 1) = 0 /\ Put(r.puts, 2) = 0
  BY <1>3, SMTT(30) DEF Put
<1>6. \A j \in Inum : Ptrs(q, j) = Ptrs(r, j) + One(i, j)
  BY <1>1, <1>3, <1>5, Numbers, SMTT(30) DEF Ptrs, One
<1>7. QED
  BY <1>0, <1>2, <1>4, <1>6 DEF Moves

LEMMA ToCreateFrame ==
  ASSUME NEW r \in Frame, Place(r), r.pc = "create1", r.puts = <<>>, r.cur # 0,
         NEW i \in Inum
  PROVE  Moves(r, ToCreate(r, i), i, r.cur)
<1>0. PICK q : q = ToCreate(r, i)
  OBVIOUS
<1>1. /\ i \in 0..NInodes /\ i # 0 /\ r.ip = 0
      /\ r.ret = "create1" /\ r.freeing = "no" /\ r.path # <<>>
  BY Numbers DEF Place, Frame, HasIp, Rets, WantsParent
<1>2. q \in Frame
  BY <1>0, <1>1 DEF Frame, ToCreate, PC
<1>3. /\ q.pc = "create3" /\ q.cur = r.cur /\ q.puts = <<>> /\ q.ip = i
      /\ q.ret = "create1" /\ q.freeing = "no" /\ q.path = r.path
  BY <1>0, <1>1, <1>2 DEF Frame, ToCreate
<1>4. Place(q) /\ LockOf(q) = r.cur
  BY <1>1, <1>3 DEF Place, NoCur, HasCur, HasIp, Rets, WantsParent, LockOf
<1>5. \A j \in Inum : Ptrs(q, j) = Ptrs(r, j) + One(i, j)
  BY <1>1, <1>3, Numbers, SMTT(30) DEF Ptrs, One
<1>6. QED
  BY <1>0, <1>2, <1>4, <1>5 DEF Moves

LEMMA MadeFrame ==
  ASSUME NEW r \in Frame, Place(r), r.pc = "create3", r.puts = <<>>
  PROVE  Moves(r, Made(r), 0, r.ip)
<1>0. PICK q : q = Made(r)
  OBVIOUS
<1>1. /\ r.cur \in Inum /\ 0 \in 0..NInodes /\ <<r.cur>> \in Seq(Inum)
      /\ r.ret # "link2" /\ r.freeing = "no" /\ r.ip # 0
  BY Numbers, SMTT(30) DEF Place, Frame, HasIp, HasCur
<1>2. q \in Frame
  BY <1>0, <1>1 DEF Frame, Made, PC
<1>3. /\ q.pc \in {"made", "open2"} /\ q.cur = 0 /\ q.puts = <<r.cur>> /\ q.ip = r.ip
      /\ q.ret = r.ret /\ q.freeing = "no"
  BY <1>0, <1>1, <1>2 DEF Frame, Made
<1>4. Place(q) /\ LockOf(q) = r.ip
  BY <1>1, <1>3, SMTT(30) DEF Place, NoCur, HasCur, HasIp, Rets, WantsParent, LockOf
<1>5. Put(q.puts, 1) = r.cur /\ Put(q.puts, 2) = 0 /\ Put(r.puts, 1) = 0 /\ Put(r.puts, 2) = 0
  BY <1>3, SMTT(30) DEF Put
<1>6. \A j \in Inum : Ptrs(q, j) = Ptrs(r, j) + One(0, j)
  BY <1>1, <1>3, <1>5, Numbers, SMTT(30) DEF Ptrs, One
<1>7. QED
  BY <1>0, <1>2, <1>4, <1>6 DEF Moves

LEMMA create1Refs ==
  ASSUME RefInv, NEW p \in Proc, create1(p)
  PROVE  RefInv'
<1>1. PICK r : r = th[p]
  OBVIOUS
<1>2. /\ r \in Frame /\ Place(r) /\ r.pc = "create1" /\ r.puts = <<>>
      /\ r.ip = 0 /\ LockOf(r) = 0 /\ r.cur \in Inum \cup {0} /\ r.type \in Type
      /\ r.cur # 0 => Head(r.path) \in Name \cup Dots
  <2>1. r \in Frame /\ Place(r) /\ r.pc = "create1" /\ r.puts = <<>>
    BY <1>1, Types DEF create1, At
  <2>2. QED
    BY <2>1, FrameOf DEF Frame, Place, HasIp, LockOf, WantsParent
<1>3. dinode \in Dinodes /\ dir \in Dirs
  BY DiskTypes
<1>4. CASE r.cur = 0 /\ Return(p, <<>>) /\ UNCHANGED <<dinode, dir, icache>> /\ OnlyInodes
  <2>1. Drops(r, <<>>)
    BY <1>2, <1>4 DEF Drops
  <2>2. Effect(icache, icache', 0, p, 0)
    BY <1>1, <1>2, <1>4, EffectNone
  <2>3. dinode' \in Dinodes /\ dir' \in Dirs
    BY <1>3, <1>4
  <2>4. QED
    BY <1>1, <1>2, <1>4, <2>1, <2>2, <2>3, CallEnds
<1>5. ASSUME NEW i, i = dirlookup(r.cur, Head(r.path)), i # 0,
             r.cur # 0, mayLock(r.cur), icache' = iget(Visit(r.cur), i),
             th' = [th EXCEPT ![p] = Existing(r, i)],
             UNCHANGED <<dinode, dir>>, OnlyInodes
      PROVE  RefInv'
  <2>1. r.cur \in Inum /\ i \in Inum /\ 0 # i
    BY <1>2, <1>5, EntryIs
  <2>2. Effect(icache, Visit(r.cur), 0, p, 0)
    BY <1>1, <1>2, <1>5, <2>1, EffectVisit
  <2>3. Effect(icache, icache', i, p, 0)
    BY <1>5, <2>1, <2>2, EffectGet
  <2>5. Moves(r, Existing(r, i), i, 0)
    BY <1>2, <1>5, <2>1, ExistingFrame
  <2>8. QED
    BY <1>1, <1>5, <2>3, <2>5, MemoryStep
<1>6. ASSUME NEW i \in Inum, r.cur # 0, mayLock(r.cur),
             ialloc(ilock(icache, r.cur, p), i, r.type),
             th' = [th EXCEPT ![p] = ToCreate(r, i)], OnlyInodes
      PROVE  RefInv'
  <2>1. r.cur \in Inum /\ icache' = iget(ilock(icache, r.cur, p), i)
    BY <1>2, <1>6 DEF ialloc
  <2>2. Effect(icache, ilock(icache, r.cur, p), 0, p, r.cur)
    BY <1>1, <1>2, <1>6, <2>1, EffectLock
  <2>3. r.cur = i => icache[i].ref >= 1
    BY <1>1, <2>1, PointedRef
  <2>4. Effect(icache, icache', i, p, r.cur)
    BY <2>1, <2>2, <2>3, EffectGet
  <2>5. dinode' \in Dinodes
    <3>1. [type |-> r.type, nlink |-> 0] \in [type : Type, nlink : Int]
      BY <1>2, SMTT(30)
    <3>2. QED
      BY <1>3, <1>6, <3>1 DEF ialloc, Dinodes
  <2>6. dir' \in Dirs
    BY <1>3, <1>6, Numbers DEF ialloc, Dirs, NoEntries
  <2>8. Moves(r, ToCreate(r, i), i, r.cur)
    BY <1>2, <1>6, ToCreateFrame
  <2>11. QED
    BY <1>1, <1>6, <2>4, <2>5, <2>6, <2>8, DiskStep
<1>7. panic("ialloc: no inodes") => RefInv'
  BY StillRefs DEF panic
<1>8. QED
  BY <1>1, <1>4, <1>5, <1>6, <1>7, ZenonT(30) DEF create1, Existing, ToCreate

ToOpen2(r) == [r EXCEPT !.pc = "open2"]

LEMMA ToOpen2Frame ==
  ASSUME NEW r \in Frame, Place(r), r.pc = "create2", r.puts = <<>>
  PROVE  Moves(r, ToOpen2(r), 0, r.ip)
<1>0. PICK q : q = ToOpen2(r)
  OBVIOUS
<1>1. r.ret # "link2" /\ r.freeing = "no" /\ r.ip # 0 /\ r.cur = 0
  BY DEF Place, Frame, HasIp, NoCur
<1>2. q \in Frame
  BY <1>0, <1>1 DEF Frame, ToOpen2, PC
<1>3. /\ q.pc = "open2" /\ q.cur = r.cur /\ q.puts = r.puts /\ q.ip = r.ip
      /\ q.ret = r.ret /\ q.freeing = "no"
  BY <1>0, <1>1, <1>2 DEF Frame, ToOpen2
<1>4. Place(q) /\ LockOf(q) = r.ip
  BY <1>1, <1>3 DEF Place, NoCur, HasCur, HasIp, Rets, WantsParent, LockOf
<1>5. \A j \in Inum : Ptrs(q, j) = Ptrs(r, j) + One(0, j)
  BY <1>3, Numbers, SMTT(30) DEF Ptrs, One
<1>6. QED
  BY <1>0, <1>2, <1>4, <1>5 DEF Moves

LEMMA create2Refs ==
  ASSUME RefInv, NEW p \in Proc, create2(p)
  PROVE  RefInv'
<1>1. PICK r : r = th[p]
  OBVIOUS
<1>2. /\ r \in Frame /\ Place(r) /\ r.pc = "create2" /\ r.puts = <<>>
      /\ r.ip \in Inum /\ r.ip # 0 /\ r.cur = 0 /\ LockOf(r) = 0
  <2>1. r \in Frame /\ Place(r) /\ r.pc = "create2" /\ r.puts = <<>>
    BY <1>1, Types DEF create2, At
  <2>2. QED
    BY <2>1, Numbers DEF Frame, Place, HasIp, NoCur, LockOf
<1>3. /\ mayLock(r.ip) /\ UNCHANGED <<dinode, dir>> /\ OnlyInodes
      /\ dinode' \in Dinodes /\ dir' \in Dirs
  BY <1>1, DiskTypes DEF create2
<1>4. CASE icache' = ilock(icache, r.ip, p) /\ th' = [th EXCEPT ![p] = ToOpen2(r)]
  <2>1. Effect(icache, icache', 0, p, r.ip)
    BY <1>1, <1>2, <1>3, <1>4, EffectLock
  <2>3. Moves(r, ToOpen2(r), 0, r.ip)
    BY <1>2, ToOpen2Frame
  <2>6. QED
    BY <1>1, <1>3, <1>4, <2>1, <2>3, MemoryStep
<1>5. CASE icache' = iunlock(ilock(icache, r.ip, p), r.ip) /\ Return(p, <<r.ip>>)
  <2>1. Effect(icache, icache', 0, p, 0)
    BY <1>1, <1>2, <1>3, <1>5, EffectRelock
  <2>2. Drops(r, <<r.ip>>)
    BY <1>2 DEF Drops
  <2>3. QED
    BY <1>1, <1>2, <1>3, <1>5, <2>1, <2>2, CallEnds
<1>6. QED
  BY <1>1, <1>4, <1>5 DEF create2, ToOpen2

LEMMA create3Refs ==
  ASSUME RefInv, NEW p \in Proc, create3(p)
  PROVE  RefInv'
<1>1. PICK r : r = th[p]
  OBVIOUS
<1>2. /\ r \in Frame /\ Place(r) /\ r.pc = "create3" /\ r.puts = <<>>
      /\ r.ip \in Inum /\ r.cur \in Inum /\ LockOf(r) = r.cur
      /\ Head(r.path) \in Name \cup Dots
  <2>1. r \in Frame /\ Place(r) /\ r.pc = "create3" /\ r.puts = <<>>
    BY <1>1, Types DEF create3, At
  <2>2. QED
    BY <2>1, FrameOf DEF Frame, Place, HasIp, HasCur, LockOf, WantsParent
<1>3. mayLock(r.ip) /\ dinode \in Dinodes /\ dir \in Dirs
  BY <1>1, DiskTypes DEF create3
<1>4. PICK ic : ic = iunlock(ilock(icache, r.ip, p), r.cur)
  OBVIOUS
<1>5. Effect(icache, ic, 0, p, r.ip)
  BY <1>1, <1>2, <1>3, <1>4, EffectExchange
<1>6. PICK jc : jc = WithNlink(ic, r.ip, 1)
  OBVIOUS
<1>7. jc \in Cache /\ Effect(icache, jc, 0, p, r.ip)
  <2>1. 1 \in Int
    BY SMTT(30)
  <2>2. QED
    BY <1>2, <1>5, <1>6, <2>1, EffectNlink
<1>8. PICK n \in Int : n = jc[r.cur].nlink + 1
  <2>1. jc[r.cur].nlink \in Int
    BY <1>2, <1>7 DEF Cache, CacheRec
  <2>2. QED
    BY <2>1, SMTT(30)
<1>9. CASE /\ icache' = WithNlink(jc, r.cur, n) \/ icache' = jc
           /\ \/ dinode' = iupdate(dinode, icache', r.ip)
              \/ dinode' = iupdate(iupdate(dinode, icache', r.ip), icache', r.cur)
           /\ \/ dir' = dirlink(r.cur, Head(r.path), r.ip)
              \/ dir' = [dirlink(r.cur, Head(r.path), r.ip) EXCEPT ![r.ip] =
                           [NoEntries EXCEPT !["."] = r.ip, ![".."] = r.cur]]
           /\ th' = [th EXCEPT ![p] = Made(r)] /\ OnlyInodes
  <2>1. icache' \in Cache /\ Effect(icache, icache', 0, p, r.ip)
    BY <1>2, <1>7, <1>9, EffectNlink, SMTT(30)
  <2>2. dinode' \in Dinodes
    <3>1. iupdate(dinode, icache', r.ip) \in Dinodes
      BY <1>2, <1>3, <2>1, IupdateDinodes
    <3>2. iupdate(iupdate(dinode, icache', r.ip), icache', r.cur) \in Dinodes
      BY <1>2, <2>1, <3>1, IupdateDinodes
    <3>3. QED
      BY <1>9, <3>1, <3>2
  <2>3. dir' \in Dirs
    <3>1. PICK d : d = dirlink(r.cur, Head(r.path), r.ip)
      OBVIOUS
    <3>2. d \in Dirs
      BY <1>2, <1>3, <3>1, Numbers, DirTypes DEF dirlink
    <3>3. PICK e : e = [NoEntries EXCEPT !["."] = r.ip, ![".."] = r.cur]
      OBVIOUS
    <3>4. e \in [Name \cup Dots -> 0..NInodes]
      BY <1>2, <3>3, Numbers DEF NoEntries, Dots
    <3>5. [d EXCEPT ![r.ip] = e] \in Dirs
      BY <1>2, <3>2, <3>4 DEF Dirs
    <3>6. QED
      BY <1>9, <3>1, <3>2, <3>3, <3>5
  <2>5. Moves(r, Made(r), 0, r.ip)
    BY <1>2, MadeFrame
  <2>8. QED
    BY <1>1, <1>9, <2>1, <2>2, <2>3, <2>5, DiskStep
<1>10. CASE panic("create: dirlink")
  BY <1>10, StillRefs DEF panic
<1>11. CASE dirlookup(r.cur, Head(r.path)) = 0
  <2>0. jc = [iunlock(ilock(icache, r.ip, p), r.cur) EXCEPT ![r.ip].nlink = 1]
    BY <1>4, <1>6 DEF WithNlink
  <2>1. /\ icache' = IF r.type = "dir" THEN [jc EXCEPT ![r.cur].nlink = @ + 1] ELSE jc
        /\ dinode' = IF r.type = "dir"
                     THEN iupdate(iupdate(dinode, icache', r.ip), icache', r.cur)
                     ELSE iupdate(dinode, icache', r.ip)
        /\ dir' = [dirlink(r.cur, Head(r.path), r.ip) EXCEPT ![r.ip] =
                     IF r.type = "dir" THEN [NoEntries EXCEPT !["."] = r.ip, ![".."] = r.cur]
                                       ELSE @]
        /\ OnlyInodes
    <3>1. icache' = IF r.type = "dir" THEN [jc EXCEPT ![r.cur].nlink = @ + 1] ELSE jc
      BY <1>1, <1>11, <2>0 DEF create3
    <3>2. dinode' = IF r.type = "dir"
                     THEN iupdate(iupdate(dinode, icache', r.ip), icache', r.cur)
                     ELSE iupdate(dinode, icache', r.ip)
      BY <1>1, <1>11 DEF create3
    <3>3. dir' = [dirlink(r.cur, Head(r.path), r.ip) EXCEPT ![r.ip] =
                     IF r.type = "dir" THEN [NoEntries EXCEPT !["."] = r.ip, ![".."] = r.cur]
                                       ELSE @]
      BY <1>1, <1>11 DEF create3
    <3>4. OnlyInodes
      BY <1>1, <1>11 DEF create3
    <3>5. QED
      BY <3>1, <3>2, <3>3, <3>4
  <2>5. th' = [th EXCEPT ![p] = Made(r)]
    BY <1>1, <1>11, ZenonT(30) DEF create3, Made
  <2>2. icache' = WithNlink(jc, r.cur, n) \/ icache' = jc
    BY <1>8, <2>1 DEF WithNlink
  <2>3. r.type # "dir" => dir' = dirlink(r.cur, Head(r.path), r.ip)
    BY <1>2, <1>3, <2>1 DEF dirlink, Dirs
  <2>4. QED
    BY <1>9, <2>1, <2>2, <2>3, <2>5
<1>12. QED
  BY <1>1, <1>10, <1>11 DEF create3

LEMMA madeRefs ==
  ASSUME RefInv, NEW p \in Proc, made(p)
  PROVE  RefInv'
<1>1. PICK r : r = th[p]
  OBVIOUS
<1>2. /\ r \in Frame /\ Place(r) /\ r.pc = "made" /\ r.puts = <<>>
      /\ r.ip \in Inum /\ r.ip # 0 /\ r.cur = 0 /\ LockOf(r) = r.ip
  <2>1. r \in Frame /\ Place(r) /\ r.pc = "made" /\ r.puts = <<>>
    BY <1>1, Types DEF made, At
  <2>2. QED
    BY <2>1, Numbers DEF Frame, Place, HasIp, NoCur, LockOf
<1>3. /\ OnlyInodes /\ dinode' \in Dinodes /\ dir' \in Dirs
      /\ icache' = iunlock(icache, r.ip) /\ Return(p, <<r.ip>>)
  BY <1>1, DiskTypes DEF made
<1>4. Effect(icache, icache', 0, p, 0)
  BY <1>1, <1>2, <1>3, EffectUnlock
<1>5. Drops(r, <<r.ip>>)
  BY <1>2 DEF Drops
<1>6. QED
  BY <1>1, <1>2, <1>3, <1>4, <1>5, CallEnds
-----------------------------------------------------------------------------
(* sys_open of what exists.                                                *)

Opened(r) == [r EXCEPT !.pc = "open2", !.ip = r.cur, !.cur = 0]

LEMMA OpenedFrame ==
  ASSUME NEW r \in Frame, Place(r), r.pc = "open1", r.puts = <<>>, r.cur # 0
  PROVE  Moves(r, Opened(r), 0, r.cur)
<1>0. PICK q : q = Opened(r)
  OBVIOUS
<1>1. /\ r.cur \in Inum /\ 0 \in 0..NInodes /\ r.ret = "open1" /\ r.freeing = "no"
      /\ r.ip = 0
  BY Numbers DEF Place, Frame, HasIp, Rets
<1>2. q \in Frame
  BY <1>0, <1>1 DEF Frame, Opened, PC
<1>3. /\ q.pc = "open2" /\ q.cur = 0 /\ q.puts = <<>> /\ q.ip = r.cur
      /\ q.ret = r.ret /\ q.freeing = "no"
  BY <1>0, <1>1, <1>2 DEF Frame, Opened
<1>4. Place(q) /\ LockOf(q) = r.cur
  BY <1>1, <1>3 DEF Place, NoCur, HasCur, HasIp, Rets, WantsParent, LockOf
<1>5. \A j \in Inum : Ptrs(q, j) = Ptrs(r, j) + One(0, j)
  BY <1>1, <1>3, Numbers, SMTT(30) DEF Ptrs, One
<1>6. QED
  BY <1>0, <1>2, <1>4, <1>5 DEF Moves

LEMMA open1Refs ==
  ASSUME RefInv, NEW p \in Proc, open1(p)
  PROVE  RefInv'
<1>1. PICK r : r = th[p]
  OBVIOUS
<1>2. /\ r \in Frame /\ Place(r) /\ r.pc = "open1" /\ r.puts = <<>>
      /\ r.ip = 0 /\ LockOf(r) = 0 /\ r.cur \in Inum \cup {0}
  <2>1. r \in Frame /\ Place(r) /\ r.pc = "open1" /\ r.puts = <<>>
    BY <1>1, Types DEF open1, At
  <2>2. QED
    BY <2>1, Numbers DEF Frame, Place, HasIp, LockOf
<1>3. /\ UNCHANGED <<dinode, dir>> /\ OnlyInodes
      /\ dinode' \in Dinodes /\ dir' \in Dirs
  BY DiskTypes DEF open1
<1>4. CASE r.cur = 0 /\ Return(p, <<>>) /\ UNCHANGED icache
  <2>1. Drops(r, <<>>)
    BY <1>2, <1>4 DEF Drops
  <2>2. Effect(icache, icache', 0, p, 0)
    BY <1>1, <1>2, <1>4, EffectNone
  <2>3. QED
    BY <1>1, <1>2, <1>3, <1>4, <2>1, <2>2, CallEnds
<1>5. CASE /\ r.cur # 0 /\ mayLock(r.cur) /\ Return(p, <<r.cur>>)
           /\ icache' = iunlock(ilock(icache, r.cur, p), r.cur)
  <2>1. Drops(r, <<r.cur>>)
    BY <1>2, <1>5 DEF Drops
  <2>2. Effect(icache, icache', 0, p, 0)
    BY <1>1, <1>2, <1>5, EffectRelock
  <2>3. QED
    BY <1>1, <1>2, <1>3, <1>5, <2>1, <2>2, CallEnds
<1>6. CASE /\ r.cur # 0 /\ mayLock(r.cur) /\ icache' = ilock(icache, r.cur, p)
           /\ th' = [th EXCEPT ![p] = Opened(r)]
  <2>1. Effect(icache, icache', 0, p, r.cur)
    BY <1>1, <1>2, <1>6, EffectLock
  <2>3. Moves(r, Opened(r), 0, r.cur)
    BY <1>2, <1>6, OpenedFrame
  <2>6. QED
    BY <1>1, <1>3, <1>6, <2>1, <2>3, MemoryStep
<1>7. QED
  BY <1>1, <1>4, <1>5, <1>6 DEF open1, Opened

-----------------------------------------------------------------------------
(* All steps.                                                              *)

LEMMA startRefInv ==
  ASSUME RefInv, NEW p \in Proc, start(p)
  PROVE  RefInv'
<1>1. ASSUME NEW path \in Path, \/ sys_unlink(p, path)
                                \/ sys_chdir(p, path)
                                \/ /\ path \in Calls["open"] /\ At(p, "idle")
                                   /\ namexStart(p, path, Idle, "open1")
                                   /\ UNCHANGED <<dinode, dir>> /\ OnlyInodes
      PROVE  RefInv'
  <2>1. path \in PathName
    BY FreshIs
  <2>2. PICK label \in {"unlink1", "open1", "chdir1"} :
          /\ namexStart(p, path, Idle, label)
          /\ At(p, "idle") /\ UNCHANGED <<dinode, dir>> /\ OnlyInodes
    BY <1>1 DEF sys_unlink, sys_chdir
  <2>3. QED
    BY <2>1, <2>2, lookupRefs
<1>2. ASSUME NEW path \in Path, NEW t \in {"dir", "dev", "file"}, create(p, path, t)
      PROVE  RefInv'
  BY <1>2, FreshIs, createRefs
<1>3. ASSUME NEW path \in Path, NEW new \in Path, sys_link(p, path, new)
      PROVE  RefInv'
  BY <1>3, FreshIs, sys_linkRefs
<1>4. ASSUME NEW d \in 1..NOFILE, sys_close(p, d)
      PROVE  RefInv'
  BY <1>4, sys_closeRefs
<1>5. QED
  BY <1>1, <1>2, <1>3, <1>4 DEF start, sys_open, sys_mkdir, sys_mknod

\* Every step of a system call keeps the invariant.
LEMMA stepRefInv ==
  ASSUME RefInv, NEW p \in Proc, step(p)
  PROVE  RefInv'
BY namexRefs, namexEndRefs, iputTestRefs, iputFreeRefs, iputDoneRefs, link1Refs,
   link2Refs, linkbadRefs, unlink1Refs, unlink2Refs, unlinkbadRefs, unlink3Refs,
   create1Refs, create2Refs, create3Refs, madeRefs, open1Refs, open2Refs, chdir1Refs
   DEF step, iput

\* Every step of the file system does.
LEMMA NextRefInv ==
  ASSUME RefInv, [Next]_vars
  PROVE  RefInv'
<1>1. CASE UNCHANGED vars
  BY <1>1, StillRefs DEF vars
<1>2. CASE halted
  BY <1>2, StillRefs DEF halted, vars
<1>3. QED
  BY <1>1, <1>2, startRefInv, stepRefInv DEF Next

\* ip->ref is the number of pointers to the inode, whatever the processes do, in
\* every call and on every error path: a reference that iget or idup gives is held
\* in one place until one iput drops it.
THEOREM RefsAlwaysCounted == Spec => []RefsAreCounted
<1>1. Init => RefInv
  BY InitRefs
<1>2. RefInv /\ [Next]_vars => RefInv'
  BY NextRefInv
<1>3. RefInv => RefsAreCounted
  BY DEF RefInv
<1>4. QED
  BY <1>1, <1>2, <1>3, PTL DEF Spec
=============================================================================
