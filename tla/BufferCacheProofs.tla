------------------------- MODULE BufferCacheProofs --------------------------
(***************************************************************************)
(* Proofs about the buffer cache and the disk driver, for every number of  *)
(* threads, blocks and buffers: whoever holds a buffer sees the latest     *)
(* content of its block, no request of iderw is forgotten, and bget always *)
(* finds a buffer when there are enough of them.                           *)
(***************************************************************************)
EXTENDS BufferCache, FiniteSetTheorems, TLAPS

\* Time enough for every leaf, whatever else the machine does.
USE SMTT(15), ZenonT(20)

Record == [blockno : Block \cup {Nil}, valid : BOOLEAN, dirty : BOOLEAN,
           refcnt : Nat, latest : BOOLEAN, holder : Thread \cup {Nil}]
Label == {"idle", "lock", "use", "put", "iderw", "asleep", "woken", "panic"}
Waiting == {"asleep", "woken"}
Holding == {"use", "iderw"} \cup Waiting
Users(i) == {t \in Thread : b[t] = i}
Busy(i) == ~buf[i].valid \/ buf[i].dirty

\* The types, with the references not yet bounded.
Types ==
  /\ buf \in [Buf -> Record]
  /\ mru \in [1..Cardinality(Buf) -> Buf]
  /\ \A i \in Buf : \E n \in 1..Cardinality(Buf) : mru[n] = i
  /\ idequeue \in Seq(Buf) /\ cmd \in {"idle", "busy", "done"}
  /\ disk \in [Block -> BOOLEAN] /\ damaged \subseteq Block
  /\ pc \in [Thread -> Label]
  /\ b \in [Thread -> Buf \cup {Nil}]

\* References and sleep locks: who has a buffer, and that a block has only one.
HoldInv ==
  /\ \A t \in Thread : b[t] = Nil <=> pc[t] \in {"idle", "panic"}
  /\ \A t \in Thread : pc[t] \in Holding => buf[b[t]].holder = t
  /\ \A i \in Buf : buf[i].refcnt = Cardinality(Users(i))
  /\ \A t \in Thread : b[t] # Nil => buf[b[t]].blockno # Nil
  /\ \A i, j \in Buf : i # j /\ buf[i].blockno = buf[j].blockno
                       => buf[i].blockno = Nil

\* B_VALID and B_DIRTY, as the holder of a buffer relies on them.
FlagInv ==
  /\ \A t \in Thread : pc[t] = "use" => buf[b[t]].valid
  /\ \A t \in Thread : pc[t] = "iderw" => Busy(b[t])
  /\ \A i \in Buf : buf[i].dirty => buf[i].valid /\ buf[i].blockno # Nil

\* The requests are those of the threads that wait in iderw, one each.
QueueInv ==
  /\ \A n \in 1..Len(idequeue) :
       /\ Busy(idequeue[n])
       /\ \E t \in Thread : pc[t] \in Waiting /\ b[t] = idequeue[n]
  /\ \A t \in Thread : pc[t] = "asleep" \/ (pc[t] = "woken" /\ Busy(b[t])) =>
       \E n \in 1..Len(idequeue) : idequeue[n] = b[t]
  /\ \A m, n \in 1..Len(idequeue) : idequeue[m] = idequeue[n] => m = n
  /\ idequeue = <<>> <=> cmd = "idle"

\* Where the latest content of a block is: in its valid buffer, and on the disk
\* unless that buffer is dirty; the request that the controller has finished is
\* on the disk already.
LatestInv ==
  /\ \A i \in Buf : buf[i].valid /\ buf[i].blockno \notin damaged => buf[i].latest
  /\ \A k \in Block \ damaged :
       disk[k] \/ \E i \in Buf : buf[i].blockno = k /\ buf[i].dirty
  /\ cmd = "done" /\ buf[idequeue[1]].dirty /\ buf[idequeue[1]].blockno \notin damaged
       => disk[buf[idequeue[1]].blockno]

PinInv == Cardinality(Pinned) <= Pins

BInv == Types /\ HoldInv /\ FlagInv /\ QueueInv /\ LatestInv /\ PinInv
-----------------------------------------------------------------------------
\* A set of numbers up to n that is not empty has a largest one.
LEMMA Largest ==
  ASSUME NEW n \in Nat, NEW S \in SUBSET (1..n), S # {}
  PROVE  \E m \in S : \A l \in S : l <= m
<1>1. DEFINE T == {n - m : m \in S}
<1>2. T \subseteq Nat /\ T # {}
  <2>1. \A m \in S : n - m \in Nat
    OBVIOUS
  <2>2. PICK m : m \in S
    OBVIOUS
  <2>3. n - m \in T
    BY <2>2
  <2> QED BY <2>1, <2>3
<1>3. PICK x \in T : \A y \in T : ~(<<y, x>> \in OpToRel(<, Nat))
  BY <1>2, WFMin, NatLessThanWellFounded
<1>4. \A y \in T : ~(y < x)
  BY <1>2, <1>3 DEF OpToRel
<1>5. PICK m \in S : x = n - m
  OBVIOUS
<1>6. ASSUME NEW l \in S
      PROVE  l <= m
  <2>1. ~(n - l < n - m)
    BY <1>4, <1>5
  <2> QED BY <2>1
<1> QED BY <1>6

\* The buffer that bget recycles is one of those given to it.
LEMMA LastIsIn ==
  ASSUME Types, NEW S \in SUBSET Buf, S # {}
  PROVE  LastOf(S) \in S
<1>1. DEFINE N == {n \in DOMAIN mru : mru[n] \in S}
<1>2. Cardinality(Buf) \in Nat /\ DOMAIN mru = 1..Cardinality(Buf)
  BY BufferCacheAssumption, FS_CardinalityType DEF Types
<1>3. N \in SUBSET (1..Cardinality(Buf)) /\ N # {}
  <2>1. PICK i \in Buf : i \in S
    OBVIOUS
  <2>2. PICK n \in 1..Cardinality(Buf) : mru[n] = i
    BY DEF Types
  <2>3. n \in N
    BY <1>2, <2>1, <2>2
  <2> QED BY <1>2, <2>3
<1>4. PICK n \in N : \A m \in N : m <= n
  BY <1>2, <1>3, Largest
<1>5. \E x \in DOMAIN mru : mru[x] \in S /\ \A m \in DOMAIN mru : mru[m] \in S => m <= x
  BY <1>4
<1> QED BY <1>5 DEF LastOf

\* Threads and buffers are finite, so their subsets can be counted.
LEMMA UsersFinite ==
  ASSUME NEW i
  PROVE  IsFiniteSet(Users(i)) /\ Cardinality(Users(i)) \in Nat
<1>1. Users(i) \in SUBSET Thread
  BY DEF Users
<1> QED BY <1>1, BufferCacheAssumption, FS_Subset, FS_CardinalityType

\* A step that pins no buffer keeps the pinned ones within Pins.
LEMMA PinsKeep ==
  ASSUME PinInv, \A i \in Buf : i \in Pinned' => i \in Pinned
  PROVE  PinInv'
<1>1. Pinned \in SUBSET Buf /\ IsFiniteSet(Buf)
  BY BufferCacheAssumption DEF Pinned
<1>2. IsFiniteSet(Pinned)
  BY <1>1, FS_Subset
<1>3. Pinned' \in SUBSET Pinned
  BY DEF Pinned
<1>4. Cardinality(Pinned') <= Cardinality(Pinned) /\ IsFiniteSet(Pinned')
  BY <1>2, <1>3, FS_Subset
<1> QED BY <1>2, <1>4, BufferCacheAssumption, FS_CardinalityType DEF PinInv
-----------------------------------------------------------------------------
\* binit establishes the invariant: no block is cached.
LEMMA InitBInv == Init => BInv
<1> SUFFICES ASSUME Init PROVE BInv
  OBVIOUS
<1>1. Types
  BY BufferCacheAssumption DEF Init, Types, Record, Label
<1>2. \A i \in Buf : Users(i) = {}
  BY BufferCacheAssumption DEF Init, Users
<1>3. HoldInv
  BY <1>2, FS_EmptySet DEF Init, HoldInv, Holding, Waiting
<1>4. FlagInv /\ QueueInv /\ LatestInv
  BY DEF Init, FlagInv, QueueInv, LatestInv, Waiting
<1>5. Pinned = {}
  BY DEF Init, Pinned
<1>6. PinInv
  BY <1>5, FS_EmptySet, BufferCacheAssumption DEF PinInv
<1> QED BY <1>1, <1>3, <1>4, <1>6 DEF BInv

\* Between bget and the end of brelse a thread has a buffer.
LEMMA HasBuf ==
  ASSUME BInv, NEW t \in Thread, pc[t] \notin {"idle", "panic"}
  PROVE  b[t] \in Buf /\ buf[b[t]].blockno \in Block
<1>1. b[t] # Nil
  BY DEF BInv, HoldInv
<1>2. b[t] \in Buf
  BY <1>1 DEF BInv, Types
<1>3. buf[b[t]].blockno # Nil
  BY <1>1 DEF BInv, HoldInv
<1> QED BY <1>2, <1>3 DEF BInv, Types, Record

\* A thread that has the sleep lock of a buffer is the only one.
LEMMA HolderAlone ==
  ASSUME HoldInv, NEW t \in Thread, NEW u \in Thread,
         pc[t] \in Holding, pc[u] \in Holding, b[t] = b[u]
  PROVE  t = u
BY DEF HoldInv

\* The requests stay what they are in a step that moves no thread into or out of
\* its wait in iderw and leaves the buffers waited for as busy as they were.
LEMMA QueueKeeps ==
  ASSUME QueueInv, UNCHANGED <<idequeue, cmd>>,
         \A u \in Thread : pc[u] \in Waiting \/ pc'[u] \in Waiting =>
           /\ pc'[u] = pc[u] /\ b'[u] = b[u]
           /\ buf'[b[u]].valid = buf[b[u]].valid
           /\ buf'[b[u]].dirty = buf[b[u]].dirty
  PROVE  QueueInv'
<1>1. ASSUME NEW n \in 1..Len(idequeue)
      PROVE  /\ Busy(idequeue[n])'
             /\ \E u \in Thread : pc'[u] \in Waiting /\ b'[u] = idequeue[n]
  <2>1. PICK u \in Thread : pc[u] \in Waiting /\ b[u] = idequeue[n]
    BY DEF QueueInv
  <2> QED BY <2>1 DEF QueueInv, Busy
<1>2. ASSUME NEW u \in Thread,
             pc'[u] = "asleep" \/ (pc'[u] = "woken" /\ Busy(b[u])')
      PROVE  \E n \in 1..Len(idequeue) : idequeue[n] = b'[u]
  BY <1>2 DEF QueueInv, Busy, Waiting
<1> QED BY <1>1, <1>2 DEF QueueInv

\* What is latest stays so in a step that leaves the contents alone.
LEMMA LatestKeeps ==
  ASSUME Types, QueueInv, LatestInv, UNCHANGED <<idequeue, cmd, disk, damaged>>,
         \A i \in Buf : /\ buf'[i].blockno = buf[i].blockno
                        /\ buf'[i].valid = buf[i].valid
                        /\ buf'[i].dirty = buf[i].dirty
                        /\ buf'[i].latest = buf[i].latest
  PROVE  LatestInv'
<1>1. cmd = "done" => idequeue[1] \in Buf
  BY DEF Types, QueueInv
<1>2. \A k \in Block \ damaged :
        disk[k] \/ \E i \in Buf : buf'[i].blockno = k /\ buf'[i].dirty
  BY DEF LatestInv
<1> QED BY <1>1, <1>2 DEF LatestInv

\* bget finds the block in the cache.
LEMMA HitKeeps ==
  ASSUME BInv, NEW t \in Thread, NEW i \in Buf, buf[i].blockno # Nil,
         Goto(t, "idle", "lock"),
         buf' = [buf EXCEPT ![i].refcnt = @ + 1],
         b' = [b EXCEPT ![t] = i],
         UNCHANGED <<mru, idequeue, cmd, disk, damaged>>
  PROVE  BInv'
<1> USE DEF BInv
<1>1. /\ pc[t] = "idle" /\ pc'[t] = "lock" /\ b[t] = Nil /\ b'[t] = i
      /\ \A u \in Thread : u # t => pc'[u] = pc[u] /\ b'[u] = b[u]
  BY DEF Goto, Types, HoldInv
<1>2. /\ buf' \in [Buf -> Record] /\ buf'[i].refcnt = buf[i].refcnt + 1
      /\ \A j \in Buf : /\ buf'[j].blockno = buf[j].blockno
                        /\ buf'[j].valid = buf[j].valid
                        /\ buf'[j].dirty = buf[j].dirty
                        /\ buf'[j].latest = buf[j].latest
                        /\ buf'[j].holder = buf[j].holder
                        /\ j # i => buf'[j].refcnt = buf[j].refcnt
  <2>1. PICK r : r = [buf[i] EXCEPT !.refcnt = @ + 1]
    OBVIOUS
  <2>2. buf' = [buf EXCEPT ![i] = r]
    BY <2>1
  <2>3. buf[i] \in Record
    BY DEF Types
  <2>4. /\ r \in Record /\ r.refcnt = buf[i].refcnt + 1
        /\ r.blockno = buf[i].blockno /\ r.valid = buf[i].valid
        /\ r.dirty = buf[i].dirty /\ r.latest = buf[i].latest
        /\ r.holder = buf[i].holder
    BY <2>1, <2>3 DEF Record
  <2> QED BY <2>2, <2>4 DEF Types
<1>3. Types'
  BY <1>2 DEF Types, Goto, Label
<1>4. \A j \in Buf : j # i => Users(j)' = Users(j)
  BY <1>1, BufferCacheAssumption DEF Users
<1>5. Users(i)' = Users(i) \cup {t} /\ t \notin Users(i)
  BY <1>1, BufferCacheAssumption DEF Users
<1>6. Cardinality(Users(i)') = Cardinality(Users(i)) + 1
  BY <1>5, UsersFinite, FS_AddElement
<1>7. \A j \in Buf : buf'[j].refcnt = Cardinality(Users(j)')
  BY <1>2, <1>4, <1>6 DEF HoldInv
<1>8. HoldInv'
  <2>1. \A u \in Thread : b'[u] = Nil <=> pc'[u] \in {"idle", "panic"}
    BY <1>1, BufferCacheAssumption DEF HoldInv
  <2>2. \A u \in Thread : pc'[u] \in Holding => buf'[b'[u]].holder = u
    BY <1>1, <1>2, BufferCacheAssumption DEF HoldInv, Types, Holding, Waiting
  <2>3. \A u \in Thread : b'[u] # Nil => buf'[b'[u]].blockno # Nil
    BY <1>1, <1>2 DEF HoldInv, Types
  <2>4. \A j, l \in Buf : j # l /\ buf'[j].blockno = buf'[l].blockno
                          => buf'[j].blockno = Nil
    BY <1>2 DEF HoldInv
  <2> QED BY <1>7, <2>1, <2>2, <2>3, <2>4 DEF HoldInv
<1>9. FlagInv'
  BY <1>1, <1>2, BufferCacheAssumption DEF FlagInv, HoldInv, Types, Busy
<1>10. QueueInv'
  <2>1. \A u \in Thread : pc[u] \in Waiting \/ pc'[u] \in Waiting => u # t /\ b[u] \in Buf
    BY <1>1 DEF Waiting, HoldInv, Types
  <2> QED BY <1>1, <1>2, <2>1, QueueKeeps
<1>11. LatestInv'
  BY <1>2, LatestKeeps
<1>12. PinInv'
  <2>1. Writing' = Writing
    BY <1>1 DEF Writing
  <2> QED BY <1>2, <2>1, PinsKeep DEF Pinned
<1> QED BY <1>3, <1>8, <1>9, <1>10, <1>11, <1>12

\* bget recycles a buffer that nobody refers to and that is clean, for a block
\* that is not cached.
LEMMA RecycleKeeps ==
  ASSUME BInv, NEW t \in Thread, NEW k \in Block, NEW i \in Buf, Free(i),
         \A j \in Buf : buf[j].blockno # k,
         Goto(t, "idle", "lock"),
         buf' = [buf EXCEPT ![i] = [@ EXCEPT !.blockno = k, !.valid = FALSE,
                   !.dirty = FALSE, !.refcnt = 1, !.latest = FALSE]],
         b' = [b EXCEPT ![t] = i],
         UNCHANGED <<mru, idequeue, cmd, disk, damaged>>
  PROVE  BInv'
<1> USE DEF BInv
<1>1. /\ pc[t] = "idle" /\ pc'[t] = "lock" /\ b[t] = Nil /\ b'[t] = i
      /\ \A u \in Thread : u # t => pc'[u] = pc[u] /\ b'[u] = b[u]
  BY DEF Goto, Types, HoldInv
<1>2. /\ buf' \in [Buf -> Record] /\ buf'[i].refcnt = 1 /\ buf'[i].blockno = k
      /\ ~buf'[i].valid /\ ~buf'[i].dirty
      /\ \A j \in Buf : j # i => buf'[j] = buf[j]
  <2>1. PICK r : r = [buf[i] EXCEPT !.blockno = k, !.valid = FALSE,
                        !.dirty = FALSE, !.refcnt = 1, !.latest = FALSE]
    OBVIOUS
  <2>2. buf' = [buf EXCEPT ![i] = r]
    BY <2>1
  <2>3. buf[i] \in Record
    BY DEF Types
  <2>4. r \in Record /\ r.refcnt = 1 /\ r.blockno = k /\ ~r.valid /\ ~r.dirty
    BY <2>1, <2>3 DEF Record
  <2> QED BY <2>2, <2>4 DEF Types
<1>3. Types'
  BY <1>2 DEF Types, Goto, Label
<1>4. Users(i) = {}
  BY UsersFinite, FS_EmptySet DEF HoldInv, Free
<1>5. \A u \in Thread : b[u] # i
  BY <1>4 DEF Users
<1>6. \A j \in Buf : buf'[j].refcnt = Cardinality(Users(j)')
  <2>1. \A j \in Buf : j # i => Users(j)' = Users(j)
    BY <1>1, BufferCacheAssumption DEF Users
  <2>2. Users(i)' = {t}
    BY <1>1, <1>5 DEF Users
  <2>3. Cardinality({t}) = 1
    BY FS_Singleton
  <2> QED BY <1>2, <2>1, <2>2, <2>3 DEF HoldInv
<1>7. HoldInv'
  <2>1. \A u \in Thread : b'[u] = Nil <=> pc'[u] \in {"idle", "panic"}
    BY <1>1, BufferCacheAssumption DEF HoldInv
  <2>2. \A u \in Thread : pc'[u] \in Holding => buf'[b'[u]].holder = u
    BY <1>1, <1>2, <1>5, BufferCacheAssumption DEF HoldInv, Types, Holding, Waiting
  <2>3. \A u \in Thread : b'[u] # Nil => buf'[b'[u]].blockno # Nil
    BY <1>1, <1>2, <1>5, BufferCacheAssumption DEF HoldInv, Types
  <2>4. \A j, l \in Buf : j # l /\ buf'[j].blockno = buf'[l].blockno
                          => buf'[j].blockno = Nil
    BY <1>2 DEF HoldInv
  <2> QED BY <1>6, <2>1, <2>2, <2>3, <2>4 DEF HoldInv
<1>8. FlagInv'
  BY <1>1, <1>2, <1>5, BufferCacheAssumption DEF FlagInv, HoldInv, Types, Busy
<1>9. QueueInv'
  <2>1. \A u \in Thread : pc[u] \in Waiting \/ pc'[u] \in Waiting => u # t /\ b[u] \in Buf
    BY <1>1 DEF Waiting, HoldInv, Types
  <2> QED BY <1>1, <1>2, <1>5, <2>1, QueueKeeps
<1>10. LatestInv'
  <2>1. \A j \in Buf : buf'[j].valid /\ buf'[j].blockno \notin damaged => buf'[j].latest
    BY <1>2 DEF LatestInv
  <2>2. ASSUME NEW l \in Block \ damaged
        PROVE  disk[l] \/ \E j \in Buf : buf'[j].blockno = l /\ buf'[j].dirty
    BY <1>2 DEF LatestInv, Free
  <2>3. ASSUME cmd = "done"
        PROVE  buf'[idequeue[1]] = buf[idequeue[1]]
    <3>1. 1 \in 1..Len(idequeue) /\ idequeue[1] \in Buf
      BY <2>3 DEF Types, QueueInv
    <3> QED BY <1>2, <1>5, <3>1 DEF QueueInv
  <2> QED BY <2>1, <2>2, <2>3 DEF LatestInv
<1>11. PinInv'
  <2>1. Writing' = Writing
    BY <1>1 DEF Writing
  <2> QED BY <1>2, <2>1, PinsKeep DEF Pinned
<1> QED BY <1>3, <1>7, <1>8, <1>9, <1>10, <1>11

\* bget as a whole; without a buffer it panics and changes nothing else.
LEMMA BgetKeeps ==
  ASSUME BInv, NEW t \in Thread, NEW k \in Block, bget(t, k)
  PROVE  BInv'
<1>1. DEFINE hits == {i \in Buf : buf[i].blockno = k}
             unused == {i \in Buf : Free(i)}
<1>2. CASE \E i \in hits : /\ Goto(t, "idle", "lock")
                           /\ buf' = [buf EXCEPT ![i].refcnt = @ + 1]
                           /\ b' = [b EXCEPT ![t] = i]
  BY <1>2, HitKeeps, BufferCacheAssumption DEF bget
<1>3. CASE /\ hits = {} /\ unused # {}
           /\ Goto(t, "idle", "lock")
           /\ buf' = [buf EXCEPT ![LastOf(unused)] = [@ EXCEPT !.blockno = k,
                        !.valid = FALSE, !.dirty = FALSE, !.refcnt = 1,
                        !.latest = FALSE]]
           /\ b' = [b EXCEPT ![t] = LastOf(unused)]
  <2>1. PICK i : i = LastOf(unused)
    OBVIOUS
  <2>2. i \in Buf /\ Free(i)
    BY <1>3, <2>1, LastIsIn DEF BInv
  <2>3. \A j \in Buf : buf[j].blockno # k
    BY <1>3
  <2>4. /\ buf' = [buf EXCEPT ![i] = [@ EXCEPT !.blockno = k, !.valid = FALSE,
                     !.dirty = FALSE, !.refcnt = 1, !.latest = FALSE]]
        /\ b' = [b EXCEPT ![t] = i]
    BY <1>3, <2>1
  <2> QED BY <1>3, <2>2, <2>3, <2>4, RecycleKeeps DEF bget
<1>4. CASE Goto(t, "idle", "panic") /\ UNCHANGED <<buf, b>>
  <2> USE <1>4 DEF BInv
  <2>1. /\ pc[t] = "idle" /\ pc'[t] = "panic"
        /\ \A u \in Thread : u # t => pc'[u] = pc[u]
    BY DEF Goto, Types
  <2>2. UNCHANGED <<buf, mru, idequeue, cmd, disk, damaged, b>>
    BY DEF bget
  <2>3. Types'
    BY <2>2 DEF Types, Goto, Label
  <2>4. HoldInv' /\ FlagInv'
    BY <2>1, <2>2 DEF HoldInv, FlagInv, Holding, Waiting, Users, Busy
  <2>5. QueueInv' /\ LatestInv'
    BY <2>1, <2>2, QueueKeeps, LatestKeeps DEF Waiting
  <2>6. Writing' = Writing
    BY <2>1, <2>2 DEF Writing
  <2>7. PinInv'
    BY <2>2, <2>6, PinsKeep DEF Pinned
  <2> QED BY <2>3, <2>4, <2>5, <2>7
<1> QED BY <1>2, <1>3, <1>4 DEF bget, bgetAs

\* The steps of a thread that has a buffer and is not asleep in iderw: they touch
\* only that buffer, and no thread waits for it in iderw.
LEMMA OthersWait ==
  ASSUME BInv, NEW t \in Thread, pc[t] \in {"use", "iderw"},
         NEW u \in Thread, pc[u] \in Waiting
  PROVE  u # t /\ b[u] # b[t] /\ b[u] \in Buf
<1>1. pc[t] \in Holding /\ pc[u] \in Holding /\ u # t
  BY DEF Holding, Waiting
<1> QED BY <1>1, HolderAlone DEF BInv, HoldInv, Types, Waiting

\* bread: the lock of the buffer is free and the thread takes it.
LEMMA BreadKeeps ==
  ASSUME BInv, NEW t \in Thread, bread(t)
  PROVE  BInv'
<1> USE DEF BInv
<1>1. /\ pc[t] = "lock" /\ pc'[t] \in {"use", "iderw"}
      /\ \A u \in Thread : u # t => pc'[u] = pc[u]
      /\ buf[b[t]].holder = Nil
      /\ UNCHANGED <<mru, idequeue, cmd, disk, damaged, b>>
  BY DEF bread, Goto, Types
<1>2. PICK i \in Buf : i = b[t]
  BY <1>1, HasBuf
<1>3. /\ buf' \in [Buf -> Record] /\ buf'[i].holder = t
      /\ \A j \in Buf : /\ buf'[j].blockno = buf[j].blockno
                        /\ buf'[j].valid = buf[j].valid
                        /\ buf'[j].dirty = buf[j].dirty
                        /\ buf'[j].latest = buf[j].latest
                        /\ buf'[j].refcnt = buf[j].refcnt
                        /\ j # i => buf'[j].holder = buf[j].holder
  <2>1. PICK r : r = [buf[i] EXCEPT !.holder = t]
    OBVIOUS
  <2>2. buf' = [buf EXCEPT ![i] = r]
    BY <1>2, <2>1 DEF bread
  <2>3. buf[i] \in Record
    BY DEF Types
  <2>4. /\ r \in Record /\ r.refcnt = buf[i].refcnt
        /\ r.blockno = buf[i].blockno /\ r.valid = buf[i].valid
        /\ r.dirty = buf[i].dirty /\ r.latest = buf[i].latest
        /\ r.holder = t
    BY <2>1, <2>3 DEF Record
  <2> QED BY <2>2, <2>4 DEF Types
<1>4. Types'
  BY <1>1, <1>3 DEF Types, bread, Goto, Label
<1>5. HoldInv'
  <2>1. \A u \in Thread : b'[u] = Nil <=> pc'[u] \in {"idle", "panic"}
    BY <1>1 DEF HoldInv
  <2>2. \A u \in Thread : u # t /\ pc[u] \in Holding => b[u] # i
    BY <1>1, <1>2, BufferCacheAssumption DEF HoldInv
  <2>3. \A u \in Thread : pc'[u] \in Holding => buf'[b'[u]].holder = u
    BY <1>1, <1>2, <1>3, <2>2 DEF HoldInv, Types, Holding, Waiting
  <2>4. \A u \in Thread : b'[u] # Nil => buf'[b'[u]].blockno # Nil
    <3>1. \A u \in Thread : b[u] # Nil => b[u] \in Buf
      BY DEF Types
    <3> QED BY <1>1, <1>3, <3>1 DEF HoldInv
  <2>5. \A j, l \in Buf : j # l /\ buf'[j].blockno = buf'[l].blockno
                          => buf'[j].blockno = Nil
    BY <1>3 DEF HoldInv
  <2>6. \A j \in Buf : buf'[j].refcnt = Cardinality(Users(j)')
    <3>1. \A j \in Buf : Users(j)' = Users(j)
      BY <1>1 DEF Users
    <3> QED BY <1>3, <3>1 DEF HoldInv
  <2> QED BY <2>1, <2>3, <2>4, <2>5, <2>6 DEF HoldInv
<1>6. FlagInv'
  <2>1. pc'[t] = "use" <=> buf[i].valid
    BY <1>2 DEF bread, Goto, Types
  <2>2. \A u \in Thread : pc'[u] \in {"use", "iderw"} => b[u] \in Buf
    BY <1>1, <1>2 DEF HoldInv, Types
  <2>3. \A u \in Thread : pc'[u] = "use" => buf'[b'[u]].valid
    BY <1>1, <1>2, <1>3, <2>1, <2>2 DEF FlagInv
  <2>4. \A u \in Thread : pc'[u] = "iderw" => Busy(b[u])'
    BY <1>1, <1>2, <1>3, <2>1, <2>2 DEF FlagInv, Busy
  <2> QED BY <1>3, <2>3, <2>4 DEF FlagInv
<1>7. QueueInv'
  <2>1. \A u \in Thread : pc[u] \in Waiting \/ pc'[u] \in Waiting => u # t /\ b[u] \in Buf
    BY <1>1 DEF Waiting, HoldInv, Types
  <2> QED BY <1>1, <1>3, <2>1, QueueKeeps
<1>8. LatestInv'
  BY <1>1, <1>3, LatestKeeps
<1>9. PinInv'
  <2>1. Writing \subseteq Writing'
    BY <1>1 DEF Writing
  <2> QED BY <1>3, <2>1, PinsKeep DEF Pinned
<1> QED BY <1>4, <1>5, <1>6, <1>7, <1>8, <1>9

\* A holder marks its buffer dirty, to pin it or to write it: what log_write and
\* bwrite have in common.  The disk loses the latest, or the buffer was dirty.
LEMMA DirtyKeeps ==
  ASSUME BInv, NEW t \in Thread, NEW to \in {"use", "iderw"}, Goto(t, "use", to),
         buf' = [buf EXCEPT ![b[t]].dirty = TRUE],
         \/ disk' = [disk EXCEPT ![buf[b[t]].blockno] = FALSE]
         \/ UNCHANGED disk,
         UNCHANGED <<mru, idequeue, cmd, damaged, b>>
  PROVE  Types' /\ HoldInv' /\ FlagInv' /\ QueueInv' /\ LatestInv'
<1> USE DEF BInv
<1>1. /\ pc[t] = "use" /\ pc'[t] = to
      /\ \A u \in Thread : u # t => pc'[u] = pc[u]
      /\ UNCHANGED <<mru, idequeue, cmd, damaged, b>>
  BY DEF Goto, Types
<1>2. PICK i \in Buf : i = b[t] /\ buf[i].valid /\ buf[i].blockno \in Block
  <2>1. b[t] \in Buf /\ buf[b[t]].blockno \in Block
    BY <1>1, HasBuf
  <2> QED BY <1>1, <2>1 DEF FlagInv
<1>3. /\ buf' \in [Buf -> Record] /\ buf'[i].dirty
      /\ \A j \in Buf : /\ buf'[j].blockno = buf[j].blockno
                        /\ buf'[j].valid = buf[j].valid
                        /\ buf'[j].latest = buf[j].latest
                        /\ buf'[j].refcnt = buf[j].refcnt
                        /\ buf'[j].holder = buf[j].holder
                        /\ j # i => buf'[j].dirty = buf[j].dirty
  <2>1. PICK r : r = [buf[i] EXCEPT !.dirty = TRUE]
    OBVIOUS
  <2>2. buf' = [buf EXCEPT ![i] = r]
    BY <1>2, <2>1
  <2>3. buf[i] \in Record
    BY DEF Types
  <2>4. /\ r \in Record /\ r.refcnt = buf[i].refcnt
        /\ r.blockno = buf[i].blockno /\ r.valid = buf[i].valid
        /\ r.dirty /\ r.latest = buf[i].latest /\ r.holder = buf[i].holder
    BY <2>1, <2>3 DEF Record
  <2>5. buf' \in [Buf -> Record]
    BY <2>2, <2>4 DEF Types
  <2>6. buf'[i] = r /\ \A j \in Buf : j # i => buf'[j] = buf[j]
    BY <2>2 DEF Types
  <2> QED BY <2>4, <2>5, <2>6
<1>4. /\ disk' \in [Block -> BOOLEAN]
      /\ \A k \in Block : k # buf[i].blockno => disk'[k] = disk[k]
  BY <1>2 DEF Types
<1>5. Types'
  BY <1>1, <1>3, <1>4 DEF Types, Goto, Label
<1>6. HoldInv'
  <2>1. \A u \in Thread : b'[u] = Nil <=> pc'[u] \in {"idle", "panic"}
    BY <1>1 DEF HoldInv
  <2>2. \A u \in Thread : pc'[u] \in Holding => pc[u] \in Holding /\ b[u] \in Buf
    BY <1>1 DEF HoldInv, Types, Holding, Waiting
  <2>3. \A u \in Thread : pc'[u] \in Holding => buf'[b'[u]].holder = u
    BY <1>1, <1>3, <2>2 DEF HoldInv
  <2>4. \A u \in Thread : b'[u] # Nil => buf'[b'[u]].blockno # Nil
    BY <1>1, <1>3 DEF HoldInv, Types
  <2>5. \A j, l \in Buf : j # l /\ buf'[j].blockno = buf'[l].blockno
                          => buf'[j].blockno = Nil
    BY <1>3 DEF HoldInv
  <2>6. \A j \in Buf : buf'[j].refcnt = Cardinality(Users(j)')
    BY <1>1, <1>3 DEF HoldInv, Users
  <2> QED BY <2>1, <2>3, <2>4, <2>5, <2>6 DEF HoldInv
<1>7. FlagInv'
  <2>1. \A u \in Thread : pc'[u] = "use" => buf'[b'[u]].valid
    BY <1>1, <1>2, <1>3 DEF FlagInv, HoldInv, Types
  <2>2. \A u \in Thread : pc'[u] = "iderw" => Busy(b[u])'
    BY <1>1, <1>2, <1>3 DEF FlagInv, HoldInv, Types, Busy
  <2>3. \A j \in Buf : buf'[j].dirty => buf'[j].valid /\ buf'[j].blockno # Nil
    BY <1>2, <1>3, BufferCacheAssumption DEF FlagInv
  <2> QED BY <2>1, <2>2, <2>3 DEF FlagInv
<1>8. QueueInv'
  <2>1. \A u \in Thread : pc[u] \in Waiting \/ pc'[u] \in Waiting => u # t /\ pc[u] \in Waiting
    BY <1>1 DEF Waiting
  <2>2. \A u \in Thread : pc[u] \in Waiting \/ pc'[u] \in Waiting =>
          u # t /\ b[u] # i /\ b[u] \in Buf
    BY <1>1, <1>2, <2>1, OthersWait
  <2> QED BY <1>1, <1>3, <2>2, QueueKeeps
<1>9. LatestInv'
  <2>1. \A j \in Buf : buf'[j].valid /\ buf'[j].blockno \notin damaged => buf'[j].latest
    BY <1>3 DEF LatestInv
  <2>2. ASSUME NEW k \in Block \ damaged
        PROVE  disk'[k] \/ \E j \in Buf : buf'[j].blockno = k /\ buf'[j].dirty
    <3>1. CASE k = buf[i].blockno
      BY <1>3, <3>1
    <3>2. CASE k # buf[i].blockno
      BY <1>3, <1>4, <3>2 DEF LatestInv
    <3> QED BY <3>1, <3>2
  <2>3. ASSUME cmd = "done", buf'[idequeue[1]].dirty,
               buf'[idequeue[1]].blockno \notin damaged
        PROVE  disk'[buf'[idequeue[1]].blockno]
    <3>1. 1 \in 1..Len(idequeue) /\ idequeue[1] \in Buf
      BY <2>3 DEF Types, QueueInv
    <3>2. idequeue[1] # i
      BY <1>1, <1>2, <3>1, OthersWait DEF QueueInv
    <3>3. /\ buf[idequeue[1]].dirty
          /\ buf[idequeue[1]].blockno # buf[i].blockno
          /\ buf[idequeue[1]].blockno \in Block
      BY <1>2, <1>3, <2>3, <3>1, <3>2, BufferCacheAssumption
      DEF HoldInv, FlagInv, Types, Record
    <3> QED BY <1>3, <1>4, <2>3, <3>1, <3>3 DEF LatestInv
  <2> QED BY <1>1, <2>1, <2>2, <2>3 DEF LatestInv
<1> QED BY <1>5, <1>6, <1>7, <1>8, <1>9

\* log_write pins the buffer within the bound of log.c.
LEMMA LogWriteKeeps ==
  ASSUME BInv, NEW t \in Thread, log_write(t)
  PROVE  BInv'
<1>1. /\ Goto(t, "use", "use")
      /\ buf' = [buf EXCEPT ![b[t]].dirty = TRUE]
      /\ disk' = [disk EXCEPT ![buf[b[t]].blockno] = FALSE]
      /\ UNCHANGED <<mru, idequeue, cmd, damaged, b>>
  BY DEF log_write
<1>2. Types' /\ HoldInv' /\ FlagInv' /\ QueueInv' /\ LatestInv'
  BY <1>1, DirtyKeeps
<1>3. Writing' = Writing
  <2>1. pc' = pc
    BY <1>1 DEF Goto, BInv, Types
  <2> QED BY <1>1, <2>1 DEF Writing
<1>4. \A i \in Buf : i # b[t] => buf'[i] = buf[i]
  BY <1>1 DEF BInv, Types
<1>5. PinInv'
  <2>1. CASE buf[b[t]].dirty
    BY <1>3, <1>4, <2>1, PinsKeep DEF BInv, Pinned
  <2>2. CASE Cardinality(Pinned) < Pins
    <3>1. IsFiniteSet(Pinned)
      BY BufferCacheAssumption, FS_Subset DEF Pinned
    <3>2. Pinned' \in SUBSET (Pinned \cup {b[t]})
      BY <1>3, <1>4 DEF Pinned
    <3>3. /\ IsFiniteSet(Pinned \cup {b[t]})
          /\ Cardinality(Pinned \cup {b[t]}) <= Cardinality(Pinned) + 1
          /\ Cardinality(Pinned) \in Nat
      BY <3>1, FS_AddElement, FS_CardinalityType
    <3>4. IsFiniteSet(Pinned') /\ Cardinality(Pinned') <= Cardinality(Pinned \cup {b[t]})
      BY <3>2, <3>3, FS_Subset
    <3>5. Cardinality(Pinned') \in Nat /\ Cardinality(Pinned \cup {b[t]}) \in Nat
      BY <3>3, <3>4, FS_CardinalityType
    <3> QED BY <2>2, <3>3, <3>4, <3>5, BufferCacheAssumption DEF PinInv
  <2> QED BY <2>1, <2>2 DEF log_write
<1> QED BY <1>2, <1>5 DEF BInv

\* bwrite marks the buffer and goes on to iderw.
LEMMA BwriteKeeps ==
  ASSUME BInv, NEW t \in Thread, bwrite(t)
  PROVE  BInv'
<1>1. /\ Goto(t, "use", "iderw")
      /\ buf' = [buf EXCEPT ![b[t]].dirty = TRUE]
      /\ \/ disk' = [disk EXCEPT ![buf[b[t]].blockno] = FALSE]
         \/ UNCHANGED disk
      /\ UNCHANGED <<mru, idequeue, cmd, damaged, b>>
  BY DEF bwrite
<1>2. Types' /\ HoldInv' /\ FlagInv' /\ QueueInv' /\ LatestInv'
  BY <1>1, DirtyKeeps
<1>3. Writing \subseteq Writing' /\ b[t] \in Writing'
  <2>1. pc'[t] = "iderw" /\ pc[t] = "use" /\ \A u \in Thread : u # t => pc'[u] = pc[u]
    BY <1>1 DEF Goto, BInv, Types
  <2> QED BY <1>1, <2>1 DEF Writing
<1>4. \A i \in Buf : i # b[t] => buf'[i] = buf[i]
  BY <1>1 DEF BInv, Types
<1>5. PinInv'
  BY <1>3, <1>4, PinsKeep DEF BInv, Pinned
<1> QED BY <1>2, <1>5 DEF BInv

\* The first half of brelse gives up the lock.
LEMMA BrelseLockKeeps ==
  ASSUME BInv, NEW t \in Thread, brelseLock(t)
  PROVE  BInv'
<1> USE DEF BInv
<1>1. /\ pc[t] = "use" /\ pc'[t] = "put"
      /\ \A u \in Thread : u # t => pc'[u] = pc[u]
      /\ UNCHANGED <<mru, idequeue, cmd, disk, damaged, b>>
  BY DEF brelseLock, Goto, Types
<1>2. PICK i \in Buf : i = b[t]
  BY <1>1, HasBuf
<1>3. /\ buf' \in [Buf -> Record]
      /\ \A j \in Buf : /\ buf'[j].blockno = buf[j].blockno
                        /\ buf'[j].valid = buf[j].valid
                        /\ buf'[j].dirty = buf[j].dirty
                        /\ buf'[j].latest = buf[j].latest
                        /\ buf'[j].refcnt = buf[j].refcnt
                        /\ j # i => buf'[j].holder = buf[j].holder
  <2>1. PICK r : r = [buf[i] EXCEPT !.holder = Nil]
    OBVIOUS
  <2>2. buf' = [buf EXCEPT ![i] = r]
    BY <1>2, <2>1 DEF brelseLock
  <2>3. buf[i] \in Record
    BY DEF Types
  <2>4. /\ r \in Record /\ r.refcnt = buf[i].refcnt
        /\ r.blockno = buf[i].blockno /\ r.valid = buf[i].valid
        /\ r.dirty = buf[i].dirty /\ r.latest = buf[i].latest
    BY <2>1, <2>3 DEF Record
  <2>5. buf' \in [Buf -> Record]
    BY <2>2, <2>4 DEF Types
  <2>6. buf'[i] = r /\ \A j \in Buf : j # i => buf'[j] = buf[j]
    BY <2>2 DEF Types
  <2> QED BY <2>4, <2>5, <2>6
<1>4. Types'
  BY <1>1, <1>3 DEF Types, brelseLock, Goto, Label
<1>5. HoldInv'
  <2>1. \A u \in Thread : b'[u] = Nil <=> pc'[u] \in {"idle", "panic"}
    BY <1>1 DEF HoldInv
  <2>2. \A u \in Thread : pc'[u] \in Holding => u # t /\ pc[u] \in Holding /\ b[u] \in Buf
    BY <1>1 DEF HoldInv, Types, Holding, Waiting
  <2>3. \A u \in Thread : pc'[u] \in Holding => b[u] # i
    BY <1>1, <1>2, <2>2, HolderAlone DEF Holding
  <2>4. \A u \in Thread : pc'[u] \in Holding => buf'[b'[u]].holder = u
    BY <1>1, <1>3, <2>2, <2>3 DEF HoldInv
  <2>5. \A u \in Thread : b'[u] # Nil => buf'[b'[u]].blockno # Nil
    <3>1. \A u \in Thread : b[u] # Nil => b[u] \in Buf
      BY DEF Types
    <3> QED BY <1>1, <1>3, <3>1 DEF HoldInv
  <2>6. \A j, l \in Buf : j # l /\ buf'[j].blockno = buf'[l].blockno
                          => buf'[j].blockno = Nil
    BY <1>3 DEF HoldInv
  <2>7. \A j \in Buf : Users(j)' = Users(j)
    BY <1>1 DEF Users
  <2>8. \A j \in Buf : buf'[j].refcnt = Cardinality(Users(j)')
    BY <1>3, <2>7 DEF HoldInv
  <2> QED BY <2>1, <2>4, <2>5, <2>6, <2>8 DEF HoldInv
<1>6. FlagInv'
  <2>1. \A u \in Thread : pc'[u] \in {"use", "iderw"} => u # t /\ b[u] \in Buf
    BY <1>1 DEF HoldInv, Types
  <2> QED BY <1>1, <1>3, <2>1 DEF FlagInv, Busy
<1>7. QueueInv'
  <2>1. \A u \in Thread : pc[u] \in Waiting \/ pc'[u] \in Waiting => u # t /\ b[u] \in Buf
    BY <1>1 DEF Waiting, HoldInv, Types
  <2> QED BY <1>1, <1>3, <2>1, QueueKeeps
<1>8. LatestInv'
  BY <1>1, <1>3, LatestKeeps
<1>9. PinInv'
  <2>1. Writing' = Writing
    BY <1>1 DEF Writing
  <2> QED BY <1>3, <2>1, PinsKeep DEF Pinned
<1> QED BY <1>4, <1>5, <1>6, <1>7, <1>8, <1>9

\* The list still has every buffer after one was moved to its front.
LEMMA MoveKeeps ==
  ASSUME Types, NEW n \in DOMAIN mru
  PROVE  /\ MoveToFront(n) \in [1..Cardinality(Buf) -> Buf]
         /\ \A i \in Buf : \E m \in 1..Cardinality(Buf) : MoveToFront(n)[m] = i
<1>1. Cardinality(Buf) \in Nat /\ DOMAIN mru = 1..Cardinality(Buf)
  BY BufferCacheAssumption, FS_CardinalityType DEF Types
<1>2. \A m \in 1..Cardinality(Buf) : m # 1 => m - 1 \in 1..Cardinality(Buf)
  BY <1>1
<1>3. MoveToFront(n) \in [1..Cardinality(Buf) -> Buf]
  BY <1>1, <1>2 DEF MoveToFront, Types
<1>4. ASSUME NEW i \in Buf
      PROVE  \E m \in 1..Cardinality(Buf) : MoveToFront(n)[m] = i
  <2>1. PICK m \in 1..Cardinality(Buf) : mru[m] = i
    BY DEF Types
  <2>2. CASE m = n
    <3>1. 1 \in 1..Cardinality(Buf) /\ MoveToFront(n)[1] = i
      BY <1>1, <2>1, <2>2 DEF MoveToFront
    <3> QED BY <3>1
  <2>3. CASE m < n
    <3>1. m + 1 \in 1..Cardinality(Buf) /\ m + 1 <= n /\ m + 1 # 1
      BY <1>1, <2>3
    <3>2. MoveToFront(n)[m + 1] = mru[(m + 1) - 1]
      BY <1>1, <3>1 DEF MoveToFront
    <3> QED BY <2>1, <3>1, <3>2
  <2>4. CASE m > n
    <3>1. MoveToFront(n)[m] = i
      BY <1>1, <2>1, <2>4 DEF MoveToFront
    <3> QED BY <3>1
  <2> QED BY <1>1, <2>2, <2>3, <2>4
<1> QED BY <1>3, <1>4

\* The second half of brelse gives up the reference.
LEMMA BrelseKeeps ==
  ASSUME BInv, NEW t \in Thread, brelse(t)
  PROVE  BInv'
<1> USE DEF BInv
<1>1. /\ pc[t] = "put" /\ pc'[t] = "idle" /\ b'[t] = Nil
      /\ \A u \in Thread : u # t => pc'[u] = pc[u] /\ b'[u] = b[u]
      /\ UNCHANGED <<idequeue, cmd, disk, damaged>>
  BY DEF brelse, Goto, Types
<1>2. PICK i \in Buf : i = b[t]
  BY <1>1, HasBuf
<1>3. t \in Users(i) /\ buf[i].refcnt = Cardinality(Users(i)) /\ buf[i].refcnt \in Nat \ {0}
  <2>1. t \in Users(i)
    BY <1>2 DEF Users
  <2>2. Cardinality(Users(i)) # 0
    BY <2>1, UsersFinite, FS_EmptySet
  <2> QED BY <2>1, <2>2, UsersFinite DEF HoldInv
<1>4. /\ buf' \in [Buf -> Record] /\ buf'[i].refcnt = buf[i].refcnt - 1
      /\ \A j \in Buf : /\ buf'[j].blockno = buf[j].blockno
                        /\ buf'[j].valid = buf[j].valid
                        /\ buf'[j].dirty = buf[j].dirty
                        /\ buf'[j].latest = buf[j].latest
                        /\ buf'[j].holder = buf[j].holder
                        /\ j # i => buf'[j].refcnt = buf[j].refcnt
  <2>1. PICK r : r = [buf[i] EXCEPT !.refcnt = @ - 1]
    OBVIOUS
  <2>2. buf' = [buf EXCEPT ![i] = r]
    BY <1>2, <2>1 DEF brelse
  <2>3. buf[i] \in Record
    BY DEF Types
  <2>4. /\ r \in Record /\ r.refcnt = buf[i].refcnt - 1
        /\ r.blockno = buf[i].blockno /\ r.valid = buf[i].valid
        /\ r.dirty = buf[i].dirty /\ r.latest = buf[i].latest
        /\ r.holder = buf[i].holder
    BY <1>3, <2>1, <2>3 DEF Record
  <2>5. buf' \in [Buf -> Record]
    BY <2>2, <2>4 DEF Types
  <2>6. buf'[i] = r /\ \A j \in Buf : j # i => buf'[j] = buf[j]
    BY <2>2 DEF Types
  <2> QED BY <2>4, <2>5, <2>6
<1>5. Types'
  <2>1. /\ mru' \in [1..Cardinality(Buf) -> Buf]
        /\ \A j \in Buf : \E n \in 1..Cardinality(Buf) : mru'[n] = j
    <3>1. PICK n \in DOMAIN mru : mru' = MoveToFront(n) \/ mru' = mru
      BY DEF brelse
    <3>2. CASE mru' = MoveToFront(n)
      BY <3>2, MoveKeeps
    <3>3. CASE mru' = mru
      BY <3>3 DEF Types
    <3> QED BY <3>1, <3>2, <3>3
  <2> QED BY <1>1, <1>4, <2>1 DEF Types, brelse, Goto, Label
<1>6. \A j \in Buf : buf'[j].refcnt = Cardinality(Users(j)')
  <2>1. \A j \in Buf : j # i => Users(j)' = Users(j)
    BY <1>1, <1>2, BufferCacheAssumption DEF Users
  <2>2. Users(i)' = Users(i) \ {t}
    BY <1>1, BufferCacheAssumption DEF Users
  <2>3. Cardinality(Users(i)') = Cardinality(Users(i)) - 1
    BY <1>3, <2>2, UsersFinite, FS_RemoveElement
  <2> QED BY <1>3, <1>4, <2>1, <2>3 DEF HoldInv
<1>7. HoldInv'
  <2>1. \A u \in Thread : b'[u] = Nil <=> pc'[u] \in {"idle", "panic"}
    BY <1>1 DEF HoldInv
  <2>2. \A u \in Thread : pc'[u] \in Holding => u # t /\ pc[u] \in Holding /\ b[u] \in Buf
    BY <1>1 DEF HoldInv, Types, Holding, Waiting
  <2>3. \A u \in Thread : pc'[u] \in Holding => buf'[b'[u]].holder = u
    BY <1>1, <1>4, <2>2 DEF HoldInv
  <2>4. \A u \in Thread : b'[u] # Nil => buf'[b'[u]].blockno # Nil
    <3>1. \A u \in Thread : b'[u] # Nil => u # t /\ b[u] \in Buf /\ b[u] # Nil
      BY <1>1, BufferCacheAssumption DEF Types
    <3> QED BY <1>1, <1>4, <3>1 DEF HoldInv
  <2>5. \A j, l \in Buf : j # l /\ buf'[j].blockno = buf'[l].blockno
                          => buf'[j].blockno = Nil
    BY <1>4 DEF HoldInv
  <2> QED BY <1>6, <2>1, <2>3, <2>4, <2>5 DEF HoldInv
<1>8. FlagInv'
  <2>1. \A u \in Thread : pc'[u] \in {"use", "iderw"} => u # t /\ b[u] \in Buf
    BY <1>1 DEF HoldInv, Types
  <2> QED BY <1>1, <1>4, <2>1 DEF FlagInv, Busy
<1>9. QueueInv'
  <2>1. \A u \in Thread : pc[u] \in Waiting \/ pc'[u] \in Waiting => u # t /\ b[u] \in Buf
    BY <1>1 DEF Waiting, HoldInv, Types
  <2> QED BY <1>1, <1>4, <2>1, QueueKeeps
<1>10. LatestInv'
  BY <1>1, <1>4, LatestKeeps
<1>11. PinInv'
  <2>1. Writing' = Writing
    BY <1>1 DEF Writing
  <2> QED BY <1>4, <2>1, PinsKeep DEF Pinned
<1> QED BY <1>5, <1>7, <1>8, <1>9, <1>10, <1>11
-----------------------------------------------------------------------------
\* A step that moves threads between the two ways to wait in iderw, or out of it
\* once the request was served, and changes nothing else.
LEMMA WaitKeeps ==
  ASSUME BInv, NEW t \in Thread, NEW to \in {"use"} \cup Waiting,
         pc[t] \in Waiting, pc' = [pc EXCEPT ![t] = to],
         to = "use" => buf[b[t]].valid /\ ~buf[b[t]].dirty,
         to = "asleep" => Busy(b[t]),
         pc[t] = "asleep" => to = "woken",
         UNCHANGED <<buf, mru, idequeue, cmd, disk, damaged, b>>
  PROVE  BInv'
<1> USE DEF BInv
<1>1. pc'[t] = to /\ \A u \in Thread : u # t => pc'[u] = pc[u]
  BY DEF Types
<1>2. Types'
  BY DEF Types, Label, Waiting
<1>3. HoldInv'
  <2>1. \A u \in Thread : pc'[u] \in Holding <=> pc[u] \in Holding
    BY <1>1 DEF Holding, Waiting
  <2>2. \A u \in Thread : pc'[u] \in {"idle", "panic"} <=> pc[u] \in {"idle", "panic"}
    BY <1>1 DEF Waiting
  <2>3. \A i \in Buf : Users(i)' = Users(i)
    BY DEF Users
  <2> QED BY <2>1, <2>2, <2>3 DEF HoldInv
<1>4. FlagInv'
  BY <1>1 DEF FlagInv, Busy, Waiting
<1>5. QueueInv'
  <2>1. ASSUME NEW n \in 1..Len(idequeue)
        PROVE  \E u \in Thread : pc'[u] \in Waiting /\ b[u] = idequeue[n]
    <3>1. PICK u \in Thread : pc[u] \in Waiting /\ b[u] = idequeue[n]
      BY DEF QueueInv
    <3>2. u = t => to \in Waiting
      BY <3>1 DEF QueueInv, Busy
    <3> QED BY <1>1, <3>1, <3>2
  <2>2. ASSUME NEW u \in Thread, pc'[u] = "asleep" \/ (pc'[u] = "woken" /\ Busy(b[u]))
        PROVE  \E n \in 1..Len(idequeue) : idequeue[n] = b[u]
    BY <1>1, <2>2 DEF QueueInv, Waiting
  <2> QED BY <2>1, <2>2 DEF QueueInv, Busy
<1>6. LatestInv'
  BY LatestKeeps
<1>7. PinInv'
  <2>1. \A i \in Buf : i \in Writing /\ buf[i].dirty => i \in Writing'
    BY <1>1 DEF Writing, Waiting
  <2> QED BY <2>1, PinsKeep DEF Pinned
<1> QED BY <1>2, <1>3, <1>4, <1>5, <1>6, <1>7

\* The loop of iderw and kill are such steps.
LEMMA LoopKeeps ==
  ASSUME BInv, NEW t \in Thread, iderwLoop(t) \/ kill(t)
  PROVE  BInv'
<1>1. CASE iderwLoop(t)
  <2>1. DEFINE to == IF buf[b[t]].valid /\ ~buf[b[t]].dirty THEN "use" ELSE "asleep"
  <2>2. /\ pc[t] = "woken" /\ pc' = [pc EXCEPT ![t] = to]
        /\ UNCHANGED <<buf, mru, idequeue, cmd, disk, damaged, b>>
    BY <1>1 DEF iderwLoop, Goto
  <2>3. to \in {"use"} \cup Waiting /\ (to = "asleep" => Busy(b[t]))
        /\ (to = "use" => buf[b[t]].valid /\ ~buf[b[t]].dirty)
    BY DEF Waiting, Busy
  <2>4. pc[t] \in Waiting /\ pc[t] # "asleep"
    BY <2>2 DEF Waiting
  <2> HIDE DEF to
  <2> QED BY <2>2, <2>3, <2>4, WaitKeeps
<1>2. CASE kill(t)
  BY <1>2, WaitKeeps DEF kill, Goto, Waiting
<1> QED BY <1>1, <1>2

\* iderw appends the request of a buffer that is not in the queue.
LEMMA IderwKeeps ==
  ASSUME BInv, NEW t \in Thread, iderw(t)
  PROVE  BInv'
<1> USE DEF BInv
<1>1. /\ pc[t] = "iderw" /\ pc'[t] = "asleep"
      /\ \A u \in Thread : u # t => pc'[u] = pc[u]
      /\ UNCHANGED <<buf, mru, disk, damaged, b>>
  BY DEF iderw, Goto, Types
<1>2. b[t] \in Buf /\ Busy(b[t])
  BY <1>1 DEF HoldInv, Types, FlagInv
<1>3. /\ idequeue' \in Seq(Buf) /\ Len(idequeue') = Len(idequeue) + 1
      /\ idequeue'[Len(idequeue) + 1] = b[t]
      /\ \A n \in 1..Len(idequeue) : idequeue'[n] = idequeue[n]
      /\ Len(idequeue) \in Nat /\ idequeue' # <<>>
  BY <1>2 DEF iderw, Types
<1>4. cmd' = IF idequeue = <<>> THEN "busy" ELSE cmd
  BY <1>3 DEF iderw, idestart
<1>5. Types'
  BY <1>1, <1>3, <1>4 DEF Types, iderw, Goto, Label
<1>6. HoldInv'
  <2>1. \A u \in Thread : pc'[u] \in Holding <=> pc[u] \in Holding
    BY <1>1 DEF Holding, Waiting
  <2>2. \A u \in Thread : pc'[u] \in {"idle", "panic"} <=> pc[u] \in {"idle", "panic"}
    BY <1>1
  <2>3. \A i \in Buf : Users(i)' = Users(i)
    BY <1>1 DEF Users
  <2> QED BY <1>1, <2>1, <2>2, <2>3 DEF HoldInv
<1>7. FlagInv'
  BY <1>1 DEF FlagInv, Busy
<1>8. QueueInv'
  <2>1. \A n \in 1..Len(idequeue) : idequeue[n] # b[t]
    BY <1>1, OthersWait DEF QueueInv
  <2>2. ASSUME NEW n \in 1..Len(idequeue')
        PROVE  /\ Busy(idequeue'[n])
               /\ \E u \in Thread : pc'[u] \in Waiting /\ b[u] = idequeue'[n]
    <3>1. CASE n = Len(idequeue) + 1
      BY <1>1, <1>2, <1>3, <3>1 DEF Waiting
    <3>2. CASE n \in 1..Len(idequeue)
      <4>1. PICK u \in Thread : pc[u] \in Waiting /\ b[u] = idequeue[n]
        BY <3>2 DEF QueueInv
      <4>2. u # t
        BY <2>1, <3>2, <4>1
      <4> QED BY <1>1, <1>3, <3>2, <4>1, <4>2 DEF QueueInv
    <3> QED BY <1>3, <3>1, <3>2
  <2>3. ASSUME NEW u \in Thread, pc'[u] = "asleep" \/ (pc'[u] = "woken" /\ Busy(b[u]))
        PROVE  \E n \in 1..Len(idequeue') : idequeue'[n] = b[u]
    <3>1. CASE u = t
      BY <1>3, <3>1
    <3>2. CASE u # t
      <4>1. PICK n \in 1..Len(idequeue) : idequeue[n] = b[u]
        BY <1>1, <2>3, <3>2 DEF QueueInv
      <4> QED BY <1>3, <4>1
    <3> QED BY <3>1, <3>2
  <2>4. \A m, n \in 1..Len(idequeue') : idequeue'[m] = idequeue'[n] => m = n
    BY <1>3, <2>1 DEF QueueInv
  <2>5. idequeue' = <<>> <=> cmd' = "idle"
    BY <1>3, <1>4 DEF QueueInv
  <2>6. \A n \in 1..Len(idequeue') :
          /\ Busy(idequeue[n])'
          /\ \E u \in Thread : pc'[u] \in Waiting /\ b'[u] = idequeue'[n]
    BY <2>2, <1>1 DEF Busy
  <2>7. \A u \in Thread : pc'[u] = "asleep" \/ (pc'[u] = "woken" /\ Busy(b[u])') =>
          \E n \in 1..Len(idequeue') : idequeue'[n] = b'[u]
    BY <2>3, <1>1 DEF Busy
  <2> QED BY <2>4, <2>5, <2>6, <2>7 DEF QueueInv
<1>9. LatestInv'
  <2>1. cmd' = "done" => cmd = "done" /\ 1 \in 1..Len(idequeue)
    BY <1>4 DEF Types, QueueInv
  <2>2. cmd' = "done" => cmd = "done" /\ idequeue'[1] = idequeue[1]
    BY <1>3, <2>1
  <2> QED BY <1>1, <2>2 DEF LatestInv
<1>10. PinInv'
  <2>1. Writing' = Writing
    BY <1>1 DEF Writing
  <2> QED BY <1>1, <2>1, PinsKeep DEF Pinned
<1> QED BY <1>5, <1>6, <1>7, <1>8, <1>9, <1>10

\* What the controller works on: the first request, whose buffer a thread holds.
LEMMA AtWork ==
  ASSUME BInv, cmd # "idle"
  PROVE  /\ idequeue # <<>> /\ Len(idequeue) \in Nat \ {0}
         /\ Head(idequeue) = idequeue[1] /\ idequeue[1] \in Buf
         /\ Busy(idequeue[1]) /\ buf[idequeue[1]].blockno \in Block
<1>1. idequeue # <<>> /\ idequeue \in Seq(Buf)
  BY DEF BInv, QueueInv, Types
<1>2. Len(idequeue) \in Nat \ {0} /\ Head(idequeue) = idequeue[1] /\ idequeue[1] \in Buf
  BY <1>1
<1>3. Busy(idequeue[1]) /\ \E t \in Thread : pc[t] \in Waiting /\ b[t] = idequeue[1]
  BY <1>2 DEF BInv, QueueInv
<1>4. buf[idequeue[1]].blockno # Nil
  BY <1>3, <1>2, BufferCacheAssumption DEF BInv, HoldInv
<1> QED BY <1>1, <1>2, <1>3, <1>4 DEF BInv, Types, Record

\* The controller has written the block, or read it.
LEMMA DiskKeeps ==
  ASSUME BInv, diskDone
  PROVE  BInv'
<1> USE DEF BInv
<1>1. PICK i \in Buf : i = idequeue[1] /\ i = Head(idequeue) /\ buf[i].blockno \in Block
  BY AtWork DEF diskDone
<1>2. /\ cmd = "busy" /\ cmd' = "done"
      /\ disk' = IF buf[i].dirty THEN [disk EXCEPT ![buf[i].blockno] = buf[i].latest]
                                 ELSE disk
      /\ UNCHANGED <<buf, mru, idequeue, damaged, pc, b>>
  BY <1>1 DEF diskDone
<1>3. /\ disk' \in [Block -> BOOLEAN]
      /\ \A k \in Block : k # buf[i].blockno => disk'[k] = disk[k]
      /\ buf[i].dirty => disk'[buf[i].blockno] = buf[i].latest
      /\ ~buf[i].dirty => disk' = disk
  <2>1. buf[i].latest \in BOOLEAN
    BY DEF Types, Record
  <2> QED BY <1>1, <1>2, <2>1 DEF Types
<1>4. Types'
  BY <1>2, <1>3 DEF Types
<1>5. HoldInv' /\ FlagInv'
  BY <1>2 DEF HoldInv, FlagInv, Users, Busy
<1>6. QueueInv'
  BY <1>2 DEF QueueInv, Busy
<1>7. LatestInv'
  <2>1. buf[i].dirty /\ buf[i].blockno \notin damaged => disk'[buf[i].blockno]
    BY <1>3 DEF LatestInv, FlagInv
  <2>2. ASSUME NEW k \in Block \ damaged
        PROVE  disk'[k] \/ \E j \in Buf : buf[j].blockno = k /\ buf[j].dirty
    BY <1>3, <2>1 DEF LatestInv
  <2> QED BY <1>1, <1>2, <2>1, <2>2 DEF LatestInv
<1>8. PinInv'
  BY <1>2 DEF PinInv, Pinned, Writing
<1> QED BY <1>4, <1>5, <1>6, <1>7, <1>8

\* ideintr: the buffer of the first request is valid and clean, and whoever slept
\* for it is awake; the others go on waiting for theirs.
LEMMA IdeintrKeeps ==
  ASSUME BInv, NEW ok \in BOOLEAN, ideintr(ok)
  PROVE  BInv'
<1> USE DEF BInv
<1>1. PICK i \in Buf : i = idequeue[1] /\ i = Head(idequeue) /\ buf[i].blockno \in Block
  BY AtWork DEF ideintr
<1>2. /\ cmd = "done" /\ idequeue' = Tail(idequeue)
      /\ cmd' = IF idequeue' = <<>> THEN "idle" ELSE "busy"
      /\ ok \/ ~buf[i].dirty
      /\ damaged' = IF ok THEN damaged ELSE damaged \cup {buf[i].blockno}
      /\ pc' = [t \in Thread |-> IF pc[t] = "asleep" /\ b[t] = i THEN "woken" ELSE pc[t]]
      /\ UNCHANGED <<mru, disk, b>>
  BY <1>1 DEF ideintr, idestart
<1>3. /\ buf' \in [Buf -> Record] /\ buf'[i].valid /\ ~buf'[i].dirty
      /\ buf'[i].latest = IF ~buf[i].dirty /\ ok THEN disk[buf[i].blockno]
                                                 ELSE buf[i].latest
      /\ \A j \in Buf : /\ buf'[j].blockno = buf[j].blockno
                        /\ buf'[j].refcnt = buf[j].refcnt
                        /\ buf'[j].holder = buf[j].holder
                        /\ j # i => buf'[j] = buf[j]
  <2>1. PICK new : new = IF ~buf[i].dirty /\ ok THEN disk[buf[i].blockno]
                                                ELSE buf[i].latest
    OBVIOUS
  <2>2. buf[i] \in Record
    BY DEF Types
  <2>3. new \in BOOLEAN
    BY <1>1, <2>1, <2>2 DEF Types, Record
  <2>4. PICK r : r = [buf[i] EXCEPT !.valid = TRUE, !.dirty = FALSE, !.latest = new]
    OBVIOUS
  <2>5. buf' = [buf EXCEPT ![i].valid = TRUE, ![i].dirty = FALSE, ![i].latest = new]
    BY <1>1, <2>1 DEF ideintr
  <2>6. buf' = [buf EXCEPT ![i] = r]
    BY <2>2, <2>4, <2>5 DEF Types, Record
  <2>7. /\ r \in Record /\ r.valid /\ ~r.dirty /\ r.latest = new
        /\ r.refcnt = buf[i].refcnt /\ r.holder = buf[i].holder
        /\ r.blockno = buf[i].blockno
    BY <2>2, <2>3, <2>4 DEF Record
  <2>8. buf' \in [Buf -> Record]
    BY <2>6, <2>7 DEF Types
  <2>9. buf'[i] = r /\ \A j \in Buf : j # i => buf'[j] = buf[j]
    BY <2>6 DEF Types
  <2> QED BY <2>1, <2>7, <2>8, <2>9
<1>4. /\ idequeue' \in Seq(Buf) /\ Len(idequeue') = Len(idequeue) - 1
      /\ Len(idequeue) \in Nat \ {0}
      /\ \A n \in 1..Len(idequeue') : idequeue'[n] = idequeue[n + 1]
  <2>1. idequeue \in Seq(Buf) /\ idequeue # <<>> /\ Len(idequeue) \in Nat \ {0}
    BY <1>2, AtWork DEF Types
  <2> QED BY <1>2, <2>1
<1>5. \A n \in 1..Len(idequeue') : idequeue'[n] # i /\ idequeue'[n] \in Buf
  BY <1>1, <1>4 DEF QueueInv
<1>6. \A t \in Thread : /\ pc'[t] = IF pc[t] = "asleep" /\ b[t] = i THEN "woken" ELSE pc[t]
                        /\ pc'[t] \in Waiting <=> pc[t] \in Waiting
                        /\ pc'[t] \in Holding <=> pc[t] \in Holding
                        /\ pc[t] \notin Waiting => pc'[t] = pc[t]
  BY <1>2 DEF Holding, Waiting
<1>7. Types'
  <2>1. pc' \in [Thread -> Label]
    BY <1>2 DEF Types, Label
  <2>2. damaged' \subseteq Block
    BY <1>1, <1>2 DEF Types
  <2>3. cmd' \in {"idle", "busy", "done"}
    BY <1>2
  <2> QED BY <1>2, <1>3, <1>4, <2>1, <2>2, <2>3 DEF Types
<1>8. \A u \in Thread : b[u] # Nil => b[u] \in Buf
  BY DEF Types
<1>9. HoldInv'
  <2>1. \A u \in Thread : pc'[u] \in {"idle", "panic"} <=> pc[u] \in {"idle", "panic"}
    BY <1>6 DEF Waiting
  <2>2. \A j \in Buf : Users(j)' = Users(j)
    BY <1>2 DEF Users
  <2>3. \A u \in Thread : pc[u] \in Holding => b[u] \in Buf
    BY <1>8 DEF HoldInv, Holding, Waiting
  <2>4. \A u \in Thread : pc'[u] \in Holding => buf'[b'[u]].holder = u
    BY <1>2, <1>3, <1>6, <2>3 DEF HoldInv
  <2>5. \A u \in Thread : b'[u] # Nil => buf'[b'[u]].blockno # Nil
    BY <1>2, <1>3, <1>8 DEF HoldInv
  <2>6. \A j, l \in Buf : j # l /\ buf'[j].blockno = buf'[l].blockno
                          => buf'[j].blockno = Nil
    BY <1>3 DEF HoldInv
  <2>7. \A j \in Buf : buf'[j].refcnt = Cardinality(Users(j)')
    BY <1>3, <2>2 DEF HoldInv
  <2>8. \A u \in Thread : b'[u] = Nil <=> pc'[u] \in {"idle", "panic"}
    BY <1>2, <2>1 DEF HoldInv
  <2> QED BY <2>4, <2>5, <2>6, <2>7, <2>8 DEF HoldInv
<1>10. \A u \in Thread : pc[u] \in {"use", "iderw"} => b[u] # i /\ b[u] \in Buf
  <2>1. PICK t \in Thread : pc[t] \in Waiting /\ b[t] = i
    BY <1>1, <1>4 DEF QueueInv
  <2>2. \A u \in Thread : pc[u] \in {"use", "iderw"} => b[u] # i
    BY <2>1, OthersWait
  <2> QED BY <1>8, <2>2 DEF HoldInv
<1>11. FlagInv'
  <2>1. \A u \in Thread : pc'[u] \in {"use", "iderw"} => pc'[u] = pc[u]
    BY <1>6 DEF Waiting
  <2>2. \A u \in Thread : pc'[u] = "use" => buf'[b'[u]].valid
    BY <1>2, <1>3, <1>10, <2>1 DEF FlagInv
  <2>3. \A u \in Thread : pc'[u] = "iderw" => Busy(b[u])'
    BY <1>2, <1>3, <1>10, <2>1 DEF FlagInv, Busy
  <2>4. \A j \in Buf : buf'[j].dirty => buf'[j].valid /\ buf'[j].blockno # Nil
    BY <1>3 DEF FlagInv
  <2> QED BY <2>2, <2>3, <2>4 DEF FlagInv
<1>12. QueueInv'
  <2>1. ASSUME NEW n \in 1..Len(idequeue')
        PROVE  /\ Busy(idequeue[n + 1]) /\ n + 1 \in 1..Len(idequeue)
               /\ \E u \in Thread : pc'[u] \in Waiting /\ b[u] = idequeue[n + 1]
    <3>1. n + 1 \in 1..Len(idequeue)
      BY <1>4
    <3> QED BY <1>6, <3>1 DEF QueueInv
  <2>2. \A n \in 1..Len(idequeue') :
          /\ Busy(idequeue[n])'
          /\ \E u \in Thread : pc'[u] \in Waiting /\ b'[u] = idequeue'[n]
    BY <1>2, <1>3, <1>4, <1>5, <2>1 DEF Busy
  <2>3. ASSUME NEW u \in Thread,
               pc'[u] = "asleep" \/ (pc'[u] = "woken" /\ Busy(b[u])')
        PROVE  \E n \in 1..Len(idequeue') : idequeue'[n] = b'[u]
    <3>1. b[u] # i
      BY <1>2, <1>3, <1>6, <2>3 DEF Busy
    <3>2. b[u] \in Buf /\ pc'[u] = pc[u]
      BY <1>6, <1>8, <2>3, <3>1 DEF HoldInv
    <3>3. buf'[b[u]] = buf[b[u]]
      BY <1>3, <3>1, <3>2
    <3>4. PICK n \in 1..Len(idequeue) : idequeue[n] = b[u]
      BY <1>2, <2>3, <3>2, <3>3 DEF QueueInv, Busy
    <3>5. n - 1 \in 1..Len(idequeue') /\ (n - 1) + 1 = n
      BY <1>1, <1>4, <3>1, <3>4
    <3>6. idequeue'[n - 1] = b[u]
      BY <1>4, <3>4, <3>5
    <3> QED BY <1>2, <3>5, <3>6
  <2>4. \A m, n \in 1..Len(idequeue') : idequeue'[m] = idequeue'[n] => m = n
    BY <1>4, <2>1 DEF QueueInv
  <2>5. idequeue' = <<>> <=> cmd' = "idle"
    BY <1>2
  <2> QED BY <2>2, <2>3, <2>4, <2>5 DEF QueueInv
<1>13. LatestInv'
  <2>1. ~buf[i].dirty /\ buf[i].blockno \notin damaged => disk[buf[i].blockno]
    <3>1. \A j \in Buf : buf[j].blockno = buf[i].blockno => j = i
      BY <1>1, BufferCacheAssumption DEF HoldInv
    <3> QED BY <1>1, <3>1 DEF LatestInv
  <2>2. buf[i].dirty /\ buf[i].blockno \notin damaged =>
          buf[i].latest /\ disk[buf[i].blockno]
    BY <1>1, <1>2 DEF LatestInv, FlagInv
  <2>3. damaged \subseteq damaged' /\ (~ok => buf[i].blockno \in damaged')
    BY <1>2
  <2>4. buf[i].blockno \notin damaged' => buf'[i].latest /\ disk[buf[i].blockno]
    BY <1>2, <1>3, <2>1, <2>2, <2>3
  <2>5. \A j \in Buf : buf'[j].valid /\ buf'[j].blockno \notin damaged' => buf'[j].latest
    BY <1>3, <2>3, <2>4 DEF LatestInv
  <2>6. ASSUME NEW k \in Block \ damaged'
        PROVE  disk'[k] \/ \E j \in Buf : buf'[j].blockno = k /\ buf'[j].dirty
    BY <1>2, <1>3, <2>3, <2>4 DEF LatestInv
  <2>7. cmd' # "done"
    BY <1>2
  <2> QED BY <2>5, <2>6, <2>7 DEF LatestInv
<1>14. PinInv'
  <2>1. Writing' = Writing
    BY <1>2, <1>6 DEF Writing, Waiting
  <2> QED BY <1>3, <2>1, PinsKeep DEF Pinned
<1> QED BY <1>7, <1>9, <1>11, <1>12, <1>13, <1>14
-----------------------------------------------------------------------------
\* BInv is an inductive invariant of the buffer cache and the disk driver.
LEMMA BInvInductive == Spec => []BInv
<1>1. ASSUME BInv, [Next]_vars
      PROVE  BInv'
  <2>1. ASSUME NEW t \in Thread, Step(t)
        PROVE  BInv'
    BY <1>1, <2>1, BgetKeeps, BreadKeeps, LogWriteKeeps, BwriteKeeps,
       BrelseLockKeeps, BrelseKeeps, IderwKeeps, LoopKeeps DEF Step
  <2>2. ASSUME NEW t \in Thread, kill(t)
        PROVE  BInv'
    BY <1>1, <2>2, LoopKeeps
  <2>3. CASE diskDone
    BY <1>1, <2>3, DiskKeeps
  <2>4. ASSUME NEW ok \in idewait, ideintr(ok)
        PROVE  BInv'
    BY <1>1, <2>4, IdeintrKeeps DEF idewait
  <2>5. CASE UNCHANGED vars
    <3>1. UNCHANGED <<buf, mru, idequeue, cmd, disk, damaged, pc, b>>
      BY <2>5 DEF vars
    <3>2. Types' /\ FlagInv' /\ QueueInv' /\ LatestInv'
      <4>1. Types'
        BY <1>1, <3>1 DEF BInv, Types
      <4>2. FlagInv'
        BY <1>1, <3>1 DEF BInv, FlagInv, Busy
      <4>3. QueueInv'
        BY <1>1, <3>1 DEF BInv, QueueInv, Busy
      <4>4. LatestInv'
        BY <1>1, <3>1 DEF BInv, LatestInv
      <4> QED BY <4>1, <4>2, <4>3, <4>4
    <3>3. HoldInv'
      <4>1. \A i \in Buf : Users(i)' = Users(i)
        BY <3>1 DEF Users
      <4> QED BY <1>1, <3>1, <4>1 DEF BInv, HoldInv
    <3>4. PinInv'
      <4>1. Writing' = Writing
        BY <3>1 DEF Writing
      <4> QED BY <1>1, <3>1, <4>1, PinsKeep DEF BInv, Pinned
    <3> QED BY <3>2, <3>3, <3>4 DEF BInv
  <2> QED BY <1>1, <2>1, <2>2, <2>3, <2>4, <2>5 DEF Next
<1> QED BY InitBInv, <1>1, PTL DEF Spec

\* The references to a buffer are no more than the threads.
LEMMA BInvTypes == BInv => TypeOK
<1> SUFFICES ASSUME BInv PROVE TypeOK
  OBVIOUS
<1>1. ASSUME NEW i \in Buf
      PROVE  buf[i].refcnt \in 0..Cardinality(Thread)
  <2>1. Users(i) \in SUBSET Thread
    BY DEF Users
  <2>2. Cardinality(Users(i)) <= Cardinality(Thread) /\ Cardinality(Thread) \in Nat
    BY <2>1, BufferCacheAssumption, FS_Subset, FS_CardinalityType
  <2> QED BY <2>2, UsersFinite DEF BInv, HoldInv
<1>2. buf \in [Buf -> [blockno : Block \cup {Nil}, valid : BOOLEAN,
                       dirty : BOOLEAN, refcnt : 0..Cardinality(Thread),
                       latest : BOOLEAN, holder : Thread \cup {Nil}]]
  BY <1>1 DEF BInv, Types, Record
<1>3. DOMAIN mru = 1..Cardinality(Buf)
  BY DEF BInv, Types
<1> QED BY <1>2, <1>3 DEF TypeOK, BInv, Types, Label

\* No block has two buffers, bget recycles no buffer that a thread refers to,
\* and whoever has a buffer from bread sees what was last written to the block,
\* unless ideintr met a read error on it.
THEOREM LatestCorrect == Spec => []HolderSeesLatest
<1>1. BInv => HolderSeesLatest
  <2> SUFFICES ASSUME BInv PROVE HolderSeesLatest
    OBVIOUS
  <2>1. TypeOK
    BY BInvTypes
  <2>2. \A i \in Buf : buf[i].refcnt = Cardinality({t \in Thread : b[t] = i})
    BY DEF BInv, HoldInv, Users
  <2>3. ASSUME NEW t \in Thread, pc[t] = "use", buf[b[t]].blockno \notin damaged
        PROVE  buf[b[t]].latest
    <3>1. b[t] \in Buf
      BY <2>3 DEF BInv, HoldInv, Types
    <3> QED BY <2>3, <3>1 DEF BInv, FlagInv, LatestInv
  <2> QED BY <2>1, <2>2, <2>3 DEF HolderSeesLatest, BInv, HoldInv
<1> QED BY <1>1, BInvInductive, PTL

\* Nobody waits in iderw for a request that is not in the queue, the queue holds
\* every buffer once, and the disk works as long as it is not empty.
THEOREM RequestsCorrect == Spec => []RequestsAreServed
<1>1. BInv => RequestsAreServed
  <2> SUFFICES ASSUME BInv PROVE RequestsAreServed
    OBVIOUS
  <2>1. DOMAIN idequeue = 1..Len(idequeue)
    BY DEF BInv, Types
  <2> QED BY <2>1 DEF RequestsAreServed, BInv, FlagInv, QueueInv, Busy
<1> QED BY <1>1, BInvInductive, PTL

\* With a buffer for every block that log.c may pin and one for every thread,
\* bget never panics: what is neither pinned nor in use can be recycled.
THEOREM BuffersCorrect ==
  ASSUME Cardinality(Buf) >= Pins + Cardinality(Thread)
  PROVE  Spec => []BuffersSuffice
<1>1. ASSUME BInv, NEW t \in Thread, pc[t] = "idle"
      PROVE  \E i \in Buf : Free(i)
  <2> SUFFICES ASSUME \A i \in Buf : ~Free(i) PROVE FALSE
    OBVIOUS
  <2>1. DEFINE S == {u \in Thread : b[u] # Nil}
               InUse == {b[u] : u \in S}
  <2>2. S \in SUBSET (Thread \ {t})
    BY <1>1 DEF BInv, HoldInv
  <2>3. /\ IsFiniteSet(Thread \ {t}) /\ Cardinality(Thread) \in Nat
        /\ Cardinality(Thread \ {t}) = Cardinality(Thread) - 1
    BY BufferCacheAssumption, FS_RemoveElement, FS_CardinalityType
  <2>4. /\ IsFiniteSet(S) /\ Cardinality(S) \in Nat
        /\ Cardinality(S) <= Cardinality(Thread) - 1
    BY <2>2, <2>3, FS_Subset, FS_CardinalityType
  <2>5. /\ IsFiniteSet(InUse) /\ Cardinality(InUse) \in Nat
        /\ Cardinality(InUse) <= Cardinality(S)
    <3>1. [u \in S |-> b[u]] \in Surjection(S, InUse)
      BY DEF Surjection
    <3> HIDE DEF S, InUse
    <3> QED BY <2>4, <3>1, FS_Surjection, FS_CardinalityType
  <2>6. /\ IsFiniteSet(Pinned) /\ Cardinality(Pinned) \in Nat
        /\ Cardinality(Pinned) <= Pins
    <3>1. Pinned \in SUBSET Buf
      BY DEF Pinned
    <3> QED BY <1>1, <3>1, BufferCacheAssumption, FS_Subset, FS_CardinalityType
            DEF BInv, PinInv
  <2>7. ASSUME NEW i \in Buf
        PROVE  i \in InUse \cup Pinned
    <3>1. CASE buf[i].refcnt # 0
      <4>1. Users(i) # {}
        BY <1>1, <3>1, FS_EmptySet DEF BInv, HoldInv
      <4>2. PICK u \in Thread : b[u] = i
        BY <4>1 DEF Users
      <4> QED BY <4>2, BufferCacheAssumption
    <3>2. CASE buf[i].dirty
      <4>1. i \in Writing => \E u \in Thread : b[u] = i
        BY DEF Writing
      <4>2. i \in Writing => i \in InUse
        BY <4>1, BufferCacheAssumption
      <4> QED BY <3>2, <4>2 DEF Pinned
    <3> QED BY <3>1, <3>2 DEF Free
  <2> HIDE DEF S, InUse
  <2>8. /\ IsFiniteSet(InUse \cup Pinned)
        /\ Cardinality(InUse \cup Pinned) <= Cardinality(InUse) + Cardinality(Pinned)
        /\ Cardinality(InUse \cup Pinned) \in Nat
    <3>1. IsFiniteSet(InUse \cap Pinned) /\ Cardinality(InUse \cap Pinned) \in Nat
      BY <2>5, FS_Intersection, FS_CardinalityType
    <3>2. /\ IsFiniteSet(InUse \cup Pinned)
          /\ Cardinality(InUse \cup Pinned) =
               Cardinality(InUse) + Cardinality(Pinned) - Cardinality(InUse \cap Pinned)
      BY <2>5, <2>6, FS_Union
    <3>3. Cardinality(InUse \cup Pinned) \in Nat
      BY <3>2, FS_CardinalityType
    <3> QED BY <2>5, <2>6, <3>1, <3>2, <3>3
  <2>9. Cardinality(Buf) <= Cardinality(InUse \cup Pinned) /\ Cardinality(Buf) \in Nat
    BY <2>7, <2>8, BufferCacheAssumption, FS_Subset, FS_CardinalityType
  <2> QED BY <2>3, <2>4, <2>5, <2>6, <2>8, <2>9, BufferCacheAssumption
<1>2. Init => BuffersSuffice
  BY DEF Init, BuffersSuffice, Panicked
<1>3. ASSUME BInv, BuffersSuffice, [Next]_vars
      PROVE  BuffersSuffice'
  <2> SUFFICES ASSUME NEW u \in Thread
               PROVE  pc'[u] # "panic"
    BY DEF BuffersSuffice, Panicked
  <2> USE <1>3 DEF BInv, Types
  <2>1. pc[u] # "panic"
    BY DEF BuffersSuffice, Panicked
  <2>2. ASSUME NEW t \in Thread, NEW k \in Block, bget(t, k)
        PROVE  pc'[u] # "panic"
    <3>1. CASE Goto(t, "idle", "lock")
      BY <2>1, <3>1 DEF Goto
    <3>2. CASE Goto(t, "idle", "panic") /\ {i \in Buf : Free(i)} = {}
      BY <1>1, <3>2 DEF Goto
    <3> QED BY <2>2, <3>1, <3>2 DEF bget, bgetAs
  <2>3. ASSUME NEW t \in Thread, NEW from, NEW to, to # "panic", Goto(t, from, to)
        PROVE  pc'[u] # "panic"
    BY <2>1, <2>3 DEF Goto
  <2>4. ASSUME NEW t \in Thread, Step(t)
        PROVE  pc'[u] # "panic"
    <3>1. CASE bread(t)
      BY <2>3, <3>1 DEF bread
    <3>2. CASE log_write(t) \/ bwrite(t) \/ brelseLock(t) \/ brelse(t) \/ iderw(t)
      BY <2>3, <3>2 DEF log_write, bwrite, brelseLock, brelse, iderw
    <3>3. CASE iderwLoop(t)
      BY <2>3, <3>3 DEF iderwLoop
    <3> QED BY <2>2, <2>4, <3>1, <3>2, <3>3 DEF Step
  <2>5. ASSUME NEW t \in Thread, kill(t)
        PROVE  pc'[u] # "panic"
    BY <2>3, <2>5 DEF kill
  <2>6. CASE diskDone
    BY <2>1, <2>6 DEF diskDone
  <2>7. ASSUME NEW ok \in idewait, ideintr(ok)
        PROVE  pc'[u] # "panic"
    BY <2>1, <2>7 DEF ideintr
  <2>8. CASE UNCHANGED vars
    BY <2>1, <2>8 DEF vars
  <2> QED BY <2>4, <2>5, <2>6, <2>7, <2>8 DEF Next
<1> QED BY <1>2, <1>3, BInvInductive, PTL DEF Spec
=============================================================================
