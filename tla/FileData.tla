------------------------------ MODULE FileData ------------------------------
(***************************************************************************)
(* What a file contains (fs.c): the bitmap of blocks, the direct and       *)
(* indirect addresses of an inode, reading, writing and truncating; and    *)
(* fileread and filewrite (file.c), which write a piece per transaction.   *)
(*                                                                         *)
(* The inode is locked, so that a piece is one step.  The functions of     *)
(* fs.c are operators on a record s: the blocks, the bitmap and the inode  *)
(* they work on, the value returned, and the panic if there was one.        *)
(***************************************************************************)
EXTENDS Naturals, SequencesExt

CONSTANTS File,        \* inode numbers of files
          NBlocks,     \* data blocks
          NDIRECT, BSIZE,
          MaxPiece,    \* "max" of filewrite
          MaxWrite     \* bound: the most bytes of one call of filewrite

Block == 1..NBlocks
NINDIRECT == BSIZE          \* one address takes the room of one byte
MAXFILE == NDIRECT + NINDIRECT
Cell == 0..(BSIZE - 1)

VARIABLES blk,    \* the content of the blocks; block 0 is no data block
          bitmap, \* the blocks in use
          ip,     \* the inodes in memory: addrs and size
          dip,    \* the inodes on the disk
          off,    \* f->off
          todo,   \* what filewrite has still to write
          panicked \* the panic that stopped the machine

vars == <<blk, bitmap, ip, dip, off, todo, panicked>>

NewInode == [addrs |-> [k \in 0..NDIRECT |-> 0], size |-> 0]
Init ==
  /\ blk = [b \in 0..NBlocks |-> [k \in Cell |-> 0]]
  /\ bitmap = {} /\ panicked = "no"
  /\ ip = [f \in File |-> NewInode] /\ dip = ip
  /\ off = [f \in File |-> 0]
  /\ todo = [f \in File |-> <<>>]

State(f) == [blk |-> blk, bitmap |-> bitmap, ip |-> ip[f], dip |-> dip[f],
             ret |-> 0, panic |-> "no"]
-----------------------------------------------------------------------------
\* The first block that is free, zeroed.
balloc(s) ==
  LET free == Block \ s.bitmap
      b == CHOOSE x \in free : \A y \in free : x <= y
  IN IF free = {} THEN [s EXCEPT !.panic = "out of blocks", !.ret = 0]
     ELSE [s EXCEPT !.bitmap = @ \cup {b}, !.ret = b, !.blk[b] = [k \in Cell |-> 0]]

bfree(s, b) ==
  [s EXCEPT !.bitmap = @ \ {b},
            !.panic = IF b \in s.bitmap THEN @ ELSE "freeing free block"]

\* The block of ip->addrs[k], allocated if there is none.
address(s, k) ==
  IF s.ip.addrs[k] # 0 THEN [s EXCEPT !.ret = s.ip.addrs[k]]
  ELSE LET t == balloc(s) IN [t EXCEPT !.ip.addrs[k] = t.ret]
\* Faulty variant: a new block is not entered in the indirect block.
bmapUnlisted(s, bn) ==
  IF bn < NDIRECT THEN address(s, bn)
  ELSE LET t == address(s, NDIRECT)
           a == t.blk[t.ret][bn - NDIRECT]
       IN IF a # 0 THEN [t EXCEPT !.ret = a] ELSE balloc(t)

bmap(s, bn) ==
  IF bn < NDIRECT THEN address(s, bn)
  ELSE LET t == address(s, NDIRECT)
           a == t.blk[t.ret][bn - NDIRECT]
           u == balloc(t)
       IN IF a # 0 THEN [t EXCEPT !.ret = a]
          ELSE [u EXCEPT !.blk[t.ret][bn - NDIRECT] = u.ret]

iupdate(s) == [s EXCEPT !.dip = s.ip]

\* Faulty variant: the blocks that the indirect block lists are not freed.
itruncDirect(s) ==
  LET addrs == {s.ip.addrs[k] : k \in 0..NDIRECT} \ {0}
  IN iupdate([FoldLeft(bfree, s, SetToSeq(addrs)) EXCEPT !.ip = NewInode])

itrunc(s) ==
  LET addrs == {s.ip.addrs[k] : k \in 0..NDIRECT} \ {0}
      i == s.ip.addrs[NDIRECT]
      listed == {s.blk[i][k] : k \in Cell} \ {0}
      all == addrs \cup IF i # 0 THEN listed ELSE {}
  IN iupdate([FoldLeft(bfree, s, SetToSeq(all)) EXCEPT !.ip = NewInode])
-----------------------------------------------------------------------------
minimum(m, n) == IF m < n THEN m ELSE n

\* The loop of readi: the n bytes from o on, appended to those read before.
RECURSIVE readLoop(_, _, _, _)
readLoop(s, o, n, dst) ==
  IF n = 0 THEN [s EXCEPT !.ret = dst]
  ELSE LET t == bmap(s, o \div BSIZE)
           m == minimum(n, BSIZE - (o % BSIZE))
       IN readLoop(t, o + m, n - m,
                   dst \o [k \in 1..m |-> t.blk[t.ret][(o % BSIZE) + k - 1]])
readi(s, o, n) ==
  IF o > s.ip.size THEN [s EXCEPT !.ret = <<>>]
  ELSE readLoop(s, o, minimum(n, s.ip.size - o), <<>>)

\* The loop of writei: src from o on.
RECURSIVE writeLoop(_, _, _)
writeLoop(s, o, src) ==
  IF src = <<>> THEN s
  ELSE LET t == bmap(s, o \div BSIZE)
           c == o % BSIZE
           m == minimum(Len(src), BSIZE - c)
           new == [k \in Cell |-> IF k \in c..(c + m - 1) THEN src[k - c + 1]
                                  ELSE t.blk[t.ret][k]]
       IN writeLoop([t EXCEPT !.blk[t.ret] = new], o + m,
                    SubSeq(src, m + 1, Len(src)))

\* It fails past the end of the file, and past the largest file.
CanWrite(s, o, n) == o <= s.ip.size /\ o + n <= MAXFILE * BSIZE
writei(s, o, src) ==
  LET t == writeLoop(s, o, src)
      end == o + Len(src)
  IN IF src # <<>> /\ end > t.ip.size
     THEN iupdate([t EXCEPT !.ip.size = end]) ELSE t
-----------------------------------------------------------------------------
\* What a transaction has done; nothing comes after a panic.
Commit(f, s) ==
  /\ panicked = "no" /\ panicked' = s.panic
  /\ IF s.panic # "no" THEN UNCHANGED <<blk, bitmap, ip, dip>>
     ELSE /\ blk' = s.blk /\ bitmap' = s.bitmap
          /\ ip' = [ip EXCEPT ![f] = s.ip] /\ dip' = [dip EXCEPT ![f] = s.dip]

\* What is written tells the file and the place in it, and is never 0.
Byte(f, o) == f * MAXFILE * BSIZE + o
Bytes(f, o, n) == [k \in 1..n |-> Byte(f, o + k)]

sys_open(f) ==
  /\ todo[f] = <<>> /\ off[f] # 0 /\ panicked = "no"
  /\ off' = [off EXCEPT ![f] = 0]
  /\ UNCHANGED <<blk, bitmap, ip, dip, todo, panicked>>

fileread(f, n) ==
  LET s == readi(State(f), off[f], n)
  IN /\ todo[f] = <<>>
     /\ Commit(f, s)
     /\ off' = [off EXCEPT ![f] = @ + Len(s.ret)]
     /\ UNCHANGED todo

sys_write(f, n) ==
  /\ todo[f] = <<>> /\ panicked = "no"
  /\ todo' = [todo EXCEPT ![f] = Bytes(f, off[f], n)]
  /\ UNCHANGED <<blk, bitmap, ip, dip, off, panicked>>

\* One round of the loop of filewrite: a piece is written, or the call fails.
filewrite(f) ==
  LET n1 == minimum(Len(todo[f]), MaxPiece)
      piece == SubSeq(todo[f], 1, n1)
  IN /\ todo[f] # <<>> /\ panicked = "no"
     /\ IF CanWrite(State(f), off[f], n1)
        THEN /\ Commit(f, writei(State(f), off[f], piece))
             /\ off' = [off EXCEPT ![f] = @ + n1]
             /\ todo' = [todo EXCEPT ![f] = SubSeq(@, n1 + 1, Len(@))]
        ELSE /\ todo' = [todo EXCEPT ![f] = <<>>]
             /\ UNCHANGED <<blk, bitmap, ip, dip, off, panicked>>

\* iput, of a file without links that nobody has open; the inode is used anew.
iput(f) ==
  /\ todo[f] = <<>> /\ ip[f].size > 0
  /\ Commit(f, itrunc(State(f)))
  /\ off' = [off EXCEPT ![f] = 0]
  /\ UNCHANGED todo

Next ==
  \/ \E f \in File : sys_open(f) \/ filewrite(f) \/ iput(f)
  \/ \E f \in File, n \in 1..MaxWrite : fileread(f, n) \/ sys_write(f, n)
  \/ panicked # "no" /\ UNCHANGED vars

Spec == Init /\ [][Next]_vars
-----------------------------------------------------------------------------
\* readi returns exactly what was written, at every offset, across the border
\* between direct and indirect blocks and whatever the blocks contained before;
\* and reading allocates no block.
ReadsWhatWasWritten ==
  panicked = "no" =>
  \A f \in File : \A o \in 0..ip[f].size :
    LET n == ip[f].size - o
        s == readi(State(f), o, n)
    IN s = [State(f) EXCEPT !.ret = Bytes(f, o, n)]

\* The blocks of a file, with the places that name them.
Uses(f) ==
       {<<f, k, ip[f].addrs[k]>> : k \in 0..NDIRECT}
  \cup {<<f, NDIRECT + 1 + k, blk[ip[f].addrs[NDIRECT]][k]>> : k \in Cell}
\* The bitmap says in use exactly of the blocks that some file uses, each of them
\* has one use, and the inode on the disk is the one in memory, although not
\* every change of it is followed by iupdate.
BlocksAreOwned ==
  LET uses == {u \in UNION {Uses(f) : f \in File} : u[3] # 0}
  IN /\ panicked = "no" => /\ bitmap = {u[3] : u \in uses}
                    /\ \A u, v \in uses : u[3] = v[3] => u = v
     /\ dip = ip /\ panicked # "freeing free block"
=============================================================================
