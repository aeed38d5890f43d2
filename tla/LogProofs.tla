----------------------------- MODULE LogProofs ------------------------------
(***************************************************************************)
(* The inductive invariant of the log, for any number of system calls and  *)
(* blocks, and the steps of system calls: what begin_op reserves is enough *)
(* for what they record.  It follows that the log implements AtomicDisk.   *)
(***************************************************************************)
EXTENDS Log, FiniteSetTheorems, TLAPS

\* Time enough for every leaf, whatever else the machine does.
USE SMTT(15), ZenonT(20)

Types ==
  /\ home \in [Block -> Value] /\ cache \in [Block -> Value]
  /\ logged \in [1..LOGSIZE -> Value]
  /\ head \in Seq(Block) /\ lh \in Seq(Block)
  /\ dirty \subseteq Block
  /\ outstanding \in Nat /\ committing \in BOOLEAN
  /\ boot \in {"read_head", "install", "up", "panic"}
  /\ pc \in [Thread -> {"idle", "begin", "asleep", "op", "check", "record",
                        "write_log", "install", "done"}]
  /\ buf \in [Thread -> Block \cup {NoBlock}]
  /\ wrote \in [Thread -> SUBSET Block]
  /\ tail \in 1..Len(lh)+1

\* Until recovery is over nothing runs, and the buffers are the disk's content.
BootInv ==
  boot \in {"read_head", "install"} =>
    /\ outstanding = 0 /\ ~committing /\ dirty = {} /\ cache = home
    /\ \A t \in Thread : pc[t] = "idle" /\ buf[t] = NoBlock
    /\ boot = "read_head" => lh = <<>> /\ tail = 1
    /\ boot = "install" =>
         lh = head /\ \A i \in 1..Len(lh) : i < tail => home[lh[i]] = logged[i]

Commits(t) == pc[t] \in {"write_log", "install", "done"}

\* The counters agree with the threads; one thread commits, when no other is in
\* a system call; and without either the log is empty.
OpInv ==
  /\ outstanding = Cardinality(InOp)
  /\ committing <=> \E t \in Thread : Commits(t)
  /\ committing => InOp = {}
  /\ \A t, u \in Thread : Commits(t) /\ Commits(u) => t = u
  /\ boot \in {"up", "panic"} /\ ~committing /\ InOp = {} => lh = <<>>

\* A thread that modifies a buffer has it for itself.
BufInv ==
  /\ \A t \in Thread : buf[t] # NoBlock <=> pc[t] \in {"check", "record"}
  /\ \A t \in Thread : buf[t] # NoBlock => buf[t] \in wrote[t]
  /\ \A t, u \in Thread : buf[t] # NoBlock /\ buf[t] = buf[u] => t = u

\* The entries of the log that system call t has used up, and the entries that
\* the running calls may still use.
Spent(t) == Cardinality({b \in wrote[t] : Listed(lh, b)})
Credits == {x \in InOp \X (1..MAXOPBLOCKS) : Spent(x[1]) < x[2]}

\* There is room in the log for all of them.
RoomInv ==
  /\ \A t \in InOp : IsFiniteSet(wrote[t]) /\ Cardinality(wrote[t]) <= MAXOPBLOCKS
  /\ InOp # {} => Len(lh) + Cardinality(Credits) <= LOGSIZE

\* A header names no block twice, and fits.
Fits(h) ==
  /\ Len(h) <= LOGSIZE
  /\ \A i, j \in 1..Len(h) : h[i] = h[j] => i = j

\* What the committer has done so far.
CommitInv ==
  /\ Fits(lh) /\ Fits(head)
  /\ boot \in {"up", "panic"} /\ (\A t \in Thread : pc[t] # "install") => head = <<>>
  /\ \A t \in Thread : pc[t] = "write_log" =>
       \A i \in 1..Len(lh) : i < tail => logged[i] = cache[lh[i]]
  /\ \A t \in Thread : pc[t] = "install" =>
       /\ head = lh
       /\ \A i \in 1..Len(lh) : logged[i] = cache[lh[i]]
       /\ \A b \in dirty : \E i \in 1..Len(lh) : tail <= i /\ lh[i] = b
  /\ \A t \in Thread : pc[t] = "done" => lh = <<>>

\* A block that differs from the disk is in the log or in the hands of a thread.
CacheInv ==
  /\ \A b \in dirty : Listed(lh, b)
  /\ \A b \in Block :
       b \notin dirty /\ (\A t \in Thread : buf[t] # b) => cache[b] = home[b]

LInv == Types /\ BootInv /\ OpInv /\ BufInv /\ RoomInv /\ CommitInv /\ CacheInv
-----------------------------------------------------------------------------
Places == {"idle", "begin", "asleep", "op", "check", "record",
           "write_log", "install", "done"}

LEMMA EmptyLog ==
  /\ <<>> \in Seq(Block) /\ Len(<<>>) = 0 /\ Fits(<<>>)
  /\ \A b : ~Listed(<<>>, b)
  BY LogAssumption DEF Fits, Listed

\* The threads in system calls are finitely many, and so are their credits.
LEMMA Finite ==
  /\ IsFiniteSet(InOp) /\ Cardinality(InOp) \in Nat
  /\ IsFiniteSet(Credits) /\ Cardinality(Credits) \in Nat
<1>1. IsFiniteSet(InOp)
  BY LogAssumption, FS_Subset DEF InOp
<1>2. IsFiniteSet(1..MAXOPBLOCKS)
  BY LogAssumption, FS_Interval
<1>3. IsFiniteSet(InOp \X (1..MAXOPBLOCKS))
  BY <1>1, <1>2, FS_Product
<1>4. IsFiniteSet(Credits)
  BY <1>3, FS_Subset DEF Credits
<1> QED BY <1>1, <1>4, FS_CardinalityType

-----------------------------------------------------------------------------
\* A step that only moves threads within the same part of the code.
LEMMA MoveKeeps ==
  ASSUME LInv, boot = "up", boot' \in {"up", "panic"}, pc' \in [Thread -> Places],
         UNCHANGED <<home, logged, head, cache, dirty, lh, outstanding, committing,
                     buf, wrote, tail>>,
         \A t \in Thread : \/ pc'[t] = pc[t]
                           \/ {pc[t], pc'[t]} \subseteq {"idle", "begin", "asleep"}
                           \/ {pc[t], pc'[t]} \subseteq {"check", "record"}
  PROVE  LInv'
<1>1. InOp' = InOp
  BY DEF InOp
<1>2. \A t \in Thread : Commits(t)' <=> Commits(t)
  BY DEF Commits
<1>3. Credits' = Credits
  BY <1>1 DEF Credits, Spent
<1>4. Types' /\ BootInv'
  BY DEF LInv, Types, BootInv, Places
<1>5. OpInv'
  BY <1>1, <1>2 DEF LInv, OpInv
<1>6. BufInv' /\ CacheInv'
  BY DEF LInv, BufInv, CacheInv
<1>7. RoomInv'
  BY <1>1, <1>3 DEF LInv, RoomInv
<1>8. CommitInv'
  BY DEF LInv, CommitInv, Fits
<1> QED BY <1>4, <1>5, <1>6, <1>7, <1>8 DEF LInv

\* begin_op lets a call in only if there is room for all it may write.
LEMMA BeginKeeps ==
  ASSUME LInv, NEW t \in Thread, begin_op(t)
  PROVE  LInv'
<1> USE LogAssumption
<1>1. /\ boot = "up" /\ boot' = "up" /\ pc[t] \in {"idle", "begin"}
      /\ UNCHANGED <<home, logged, head, cache, dirty, lh, committing, buf, tail>>
  BY DEF begin_op, stable
<1>2. pc \in [Thread -> Places] /\ outstanding = Cardinality(InOp) /\ Len(lh) \in Nat
  BY DEF LInv, Types, OpInv, Places
<1>3. CASE pc' = [pc EXCEPT ![t] = "asleep"] /\ UNCHANGED <<outstanding, wrote>>
  BY <1>1, <1>2, <1>3, MoveKeeps DEF Places
<1>4. CASE /\ ~committing /\ ~(Len(lh) + (outstanding + 1) * MAXOPBLOCKS > LOGSIZE)
           /\ outstanding' = outstanding + 1
           /\ wrote' = [wrote EXCEPT ![t] = {}]
           /\ pc' = [pc EXCEPT ![t] = "op"]
  <2>1. InOp' = InOp \cup {t} /\ t \notin InOp
    BY <1>1, <1>2, <1>4 DEF InOp
  <2>2. outstanding' = Cardinality(InOp')
    BY <1>2, <1>4, <2>1, Finite, FS_AddElement
  <2>3. \A u \in Thread : ~Commits(u) /\ ~Commits(u)'
    BY <1>2, <1>4 DEF Commits, LInv, OpInv
  <2>4. Types' /\ BootInv'
    BY <1>1, <1>2, <1>4 DEF LInv, Types, BootInv
  <2>5. OpInv'
    BY <1>1, <1>4, <2>1, <2>2, <2>3 DEF OpInv
  <2>6. BufInv' /\ CacheInv'
    BY <1>1, <1>2, <1>4 DEF LInv, BufInv, CacheInv
  <2>7. RoomInv'
    <3>1. ASSUME NEW u \in InOp'
          PROVE  IsFiniteSet(wrote'[u]) /\ Cardinality(wrote'[u]) <= MAXOPBLOCKS
      <4>1. u \in Thread /\ wrote \in [Thread -> SUBSET Block]
        BY DEF InOp, LInv, Types
      <4>2. CASE u = t
        <5>1. wrote'[u] = {}
          BY <1>4, <4>1, <4>2
        <5> QED BY <5>1, FS_EmptySet
      <4>3. CASE u # t
        BY <1>4, <2>1, <4>1, <4>3 DEF LInv, RoomInv
      <4> QED BY <4>2, <4>3
    <3> DEFINE all == InOp' \X (1..MAXOPBLOCKS)
    <3>2. IsFiniteSet(InOp')
      BY <2>1, Finite, FS_AddElement
    <3>3. IsFiniteSet(1..MAXOPBLOCKS) /\ Cardinality(1..MAXOPBLOCKS) = MAXOPBLOCKS
      BY FS_Interval
    <3>4. IsFiniteSet(all) /\ Cardinality(all) = (outstanding + 1) * MAXOPBLOCKS
      <4>1. /\ IsFiniteSet(all)
            /\ Cardinality(all) = Cardinality(InOp') * Cardinality(1..MAXOPBLOCKS)
        BY <3>2, <3>3, FS_Product
      <4>2. Cardinality(InOp') = outstanding + 1
        BY <1>4, <2>2
      <4> QED BY <3>3, <4>1, <4>2
    <3>5. Cardinality(Credits') <= Cardinality(all)
      BY <3>4, FS_Subset DEF Credits
    <3>6. IsFiniteSet(Credits') /\ Cardinality(Credits') \in Nat /\ Cardinality(all) \in Nat
      BY <3>4, FS_Subset, FS_CardinalityType DEF Credits
    <3> HIDE DEF all
    <3>7. Len(lh) + Cardinality(all) <= LOGSIZE
      BY <1>2, <1>4, <3>4, <3>6
    <3>8. Len(lh') + Cardinality(Credits') <= LOGSIZE
      BY <1>1, <1>2, <3>5, <3>6, <3>7
    <3> QED BY <3>1, <3>8 DEF RoomInv
  <2>8. CommitInv'
    BY <1>1, <1>2, <1>4, <2>3 DEF LInv, CommitInv, Commits, Fits
  <2> QED BY <2>4, <2>5, <2>6, <2>7, <2>8 DEF LInv
<1> QED BY <1>3, <1>4 DEF begin_op, Goto

LEMMA ChecksKeep ==
  ASSUME LInv, NEW t \in Thread, log_writeChecks(t)
  PROVE  LInv'
<1>1. /\ boot = "up" /\ boot' \in {"up", "panic"} /\ pc[t] = "check"
      /\ UNCHANGED <<home, logged, head, cache, dirty, lh, outstanding, committing,
                     buf, wrote, tail>>
      /\ pc' = pc \/ pc' = [pc EXCEPT ![t] = "record"]
  BY DEF log_writeChecks, Goto, stable, memory
<1>2. pc \in [Thread -> Places]
  BY DEF LInv, Types, Places
<1> QED BY <1>1, <1>2, MoveKeeps DEF Places

\* A call that modifies a buffer does not do so during a commit.
LEMMA ModifyKeeps ==
  ASSUME LInv, NEW t \in Thread, NEW b \in Block, NEW v \in Value, modify(t, b, v)
  PROVE  LInv'
<1> USE LogAssumption
<1>1. /\ boot = "up" /\ boot' = "up" /\ pc[t] = "op"
      /\ Cardinality(wrote[t] \cup {b}) <= MAXOPBLOCKS
      /\ \A u \in Thread : buf[u] # b
      /\ buf' = [buf EXCEPT ![t] = b]
      /\ wrote' = [wrote EXCEPT ![t] = wrote[t] \cup {b}]
      /\ cache' = [cache EXCEPT ![b] = v]
      /\ pc' = [pc EXCEPT ![t] = "check"]
      /\ UNCHANGED <<home, logged, head, dirty, lh, outstanding, committing, tail>>
  BY DEF modify, Goto, stable
<1>2. Types
  BY DEF LInv
<1>3. InOp' = InOp /\ t \in InOp
  BY <1>1, <1>2 DEF InOp, Types
<1>4. \A u \in Thread : ~Commits(u) /\ ~Commits(u)'
  BY <1>1, <1>2, <1>3 DEF Commits, LInv, OpInv, Types
<1>5. Types' /\ BootInv'
  BY <1>1, <1>2 DEF Types, BootInv
<1>6. OpInv'
  BY <1>1, <1>3, <1>4 DEF LInv, OpInv
<1>7. BufInv'
  BY <1>1, <1>2 DEF LInv, BufInv, Types
<1>8. RoomInv'
  <2>1. \A u \in InOp : IsFiniteSet(wrote'[u]) /\ Cardinality(wrote'[u]) <= MAXOPBLOCKS
    <3>1. IsFiniteSet(wrote[t] \cup {b})
      BY <1>3, FS_AddElement DEF LInv, RoomInv
    <3>2. \A u \in InOp : u \in Thread
      BY DEF InOp
    <3> QED BY <1>1, <1>2, <3>1, <3>2 DEF LInv, RoomInv, Types
  <2>2. \A u \in InOp : Spent(u) <= Spent(u)' /\ Spent(u) \in Nat
    <3> SUFFICES ASSUME NEW u \in InOp PROVE Spent(u) <= Spent(u)' /\ Spent(u) \in Nat
      OBVIOUS
    <3> DEFINE S == {x \in wrote[u] : Listed(lh, x)}
               T == {x \in wrote'[u] : Listed(lh, x)}
    <3>1. S \subseteq T
      BY <1>1, <1>2 DEF InOp, Types
    <3>2. IsFiniteSet(T)
      BY <2>1, FS_Subset
    <3>3. Cardinality(S) <= Cardinality(T) /\ Cardinality(S) \in Nat
      BY <3>1, <3>2, FS_Subset, FS_CardinalityType
    <3>4. Spent(u) = Cardinality(S) /\ Spent(u)' = Cardinality(T)
      BY <1>1 DEF Spent
    <3> QED BY <3>3, <3>4
  <2>3. Credits' \subseteq Credits
    <3> SUFFICES ASSUME NEW u \in InOp, NEW i \in 1..MAXOPBLOCKS, Spent(u)' < i
                 PROVE  Spent(u) < i
      BY <1>3 DEF Credits
    <3>1. Spent(u)' \in Nat
      <4>1. IsFiniteSet({x \in wrote'[u] : Listed(lh', x)})
        BY <2>1, FS_Subset
      <4> QED BY <4>1, FS_CardinalityType DEF Spent
    <3> QED BY <2>2, <3>1
  <2>4. Cardinality(Credits') <= Cardinality(Credits) /\ Cardinality(Credits') \in Nat
    BY <2>3, Finite, FS_Subset, FS_CardinalityType
  <2>5. Len(lh) + Cardinality(Credits) <= LOGSIZE /\ Len(lh) \in Nat
    BY <1>2, <1>3 DEF LInv, RoomInv, Types
  <2>6. Len(lh') + Cardinality(Credits') <= LOGSIZE
    BY <1>1, <2>4, <2>5, Finite
  <2> QED BY <1>3, <2>1, <2>6 DEF RoomInv
<1>9. CommitInv'
  BY <1>1, <1>2, <1>4 DEF LInv, CommitInv, Commits, Fits, Types
<1>10. CacheInv'
  BY <1>1, <1>2 DEF LInv, CacheInv, BufInv, Types
<1> QED BY <1>5, <1>6, <1>7, <1>8, <1>9, <1>10 DEF LInv

\* log_write uses up a credit of its call when it uses an entry of the log.
LEMMA LogWriteKeeps ==
  ASSUME LInv, NEW t \in Thread, log_write(t)
  PROVE  LInv'
<1> USE LogAssumption
<1> DEFINE b == buf[t]
<1>1. /\ boot = "up" /\ boot' = "up" /\ pc[t] = "record"
      /\ lh' = IF Listed(lh, b) THEN lh ELSE Append(lh, b)
      /\ dirty' = dirty \cup {b}
      /\ buf' = [buf EXCEPT ![t] = NoBlock]
      /\ pc' = [pc EXCEPT ![t] = "op"]
      /\ UNCHANGED <<home, logged, head, cache, outstanding, committing, wrote, tail>>
  BY DEF log_write, Goto, stable
<1>2. Types /\ BufInv /\ b \in Block /\ b \in wrote[t]
  BY <1>1 DEF LInv, BufInv, Types
<1> HIDE DEF b
<1>3. InOp' = InOp /\ t \in InOp
  BY <1>1, <1>2 DEF InOp, Types
<1>4. \A u \in Thread : ~Commits(u) /\ ~Commits(u)'
  BY <1>1, <1>2, <1>3 DEF Commits, LInv, OpInv, Types
<1>5. /\ lh' \in Seq(Block) /\ Len(lh) \in Nat /\ Len(lh) <= Len(lh')
      /\ \A x : Listed(lh', x) <=> Listed(lh, x) \/ x = b
  <2>1. CASE Listed(lh, b)
    BY <1>1, <1>2, <2>1 DEF Types, Listed
  <2>2. CASE ~Listed(lh, b)
    <3>1. lh' = Append(lh, b) /\ lh \in Seq(Block)
      BY <1>1, <1>2, <2>2 DEF Types
    <3>2. /\ lh' \in Seq(Block) /\ Len(lh') = Len(lh) + 1 /\ lh'[Len(lh) + 1] = b
          /\ Len(lh) \in Nat /\ \A i \in 1..Len(lh) : lh'[i] = lh[i]
      BY <1>2, <3>1
    <3> QED BY <3>2 DEF Listed
  <2> QED BY <2>1, <2>2
<1>6. Len(lh') <= LOGSIZE /\ RoomInv'
  <2>1. /\ \A u \in InOp : IsFiniteSet(wrote[u]) /\ Cardinality(wrote[u]) <= MAXOPBLOCKS
        /\ Len(lh) + Cardinality(Credits) <= LOGSIZE
    BY <1>3 DEF LInv, RoomInv
  <2>2. CASE Listed(lh, b)
    <3>1. lh' = lh
      BY <1>1, <2>2
    <3>2. Credits' = Credits
      <4>1. wrote' = wrote
        BY <1>1
      <4> QED BY <1>3, <3>1, <4>1 DEF Credits, Spent
    <3> QED BY <1>1, <1>3, <1>5, <2>1, <3>1, <3>2, Finite DEF RoomInv
  <2>3. CASE ~Listed(lh, b)
    <3>1. Len(lh') = Len(lh) + 1
      BY <1>1, <1>2, <2>3 DEF Types
    <3>2. \A u \in InOp : Spent(u) \in Nat /\ Spent(u)' \in Nat /\ Spent(u) <= Spent(u)'
      <4> SUFFICES ASSUME NEW u \in InOp
                   PROVE  Spent(u) \in Nat /\ Spent(u)' \in Nat /\ Spent(u) <= Spent(u)'
        OBVIOUS
      <4> DEFINE S == {x \in wrote[u] : Listed(lh, x)}
                 T == {x \in wrote[u] : Listed(lh', x)}
      <4>1. S \subseteq T /\ IsFiniteSet(T)
        BY <1>5, <2>1, FS_Subset
      <4>2. IsFiniteSet(S) /\ Cardinality(S) <= Cardinality(T)
        BY <4>1, FS_Subset
      <4>3. Cardinality(S) \in Nat /\ Cardinality(T) \in Nat
        BY <4>1, <4>2, FS_CardinalityType
      <4>4. Spent(u) = Cardinality(S) /\ Spent(u)' = Cardinality(T)
        BY <1>1 DEF Spent
      <4> QED BY <4>2, <4>3, <4>4
    <3>3. Spent(t)' = Spent(t) + 1 /\ Spent(t) < MAXOPBLOCKS
      <4> DEFINE S == {x \in wrote[t] : Listed(lh, x)}
      <4>1. {x \in wrote[t] : Listed(lh', x)} = S \cup {b} /\ b \notin S
        BY <1>2, <1>5, <2>3
      <4>2. IsFiniteSet(S) /\ IsFiniteSet(wrote[t]) /\ S \cup {b} \subseteq wrote[t]
        BY <1>2, <1>3, <2>1, FS_Subset
      <4>3. Cardinality(S \cup {b}) = Cardinality(S) + 1
        BY <4>1, <4>2, FS_AddElement
      <4>4. Cardinality(S \cup {b}) <= Cardinality(wrote[t]) /\ Cardinality(wrote[t]) \in Nat
        BY <4>2, FS_Subset, FS_CardinalityType
      <4>5. Spent(t) = Cardinality(S) /\ Spent(t)' = Cardinality(S \cup {b})
        BY <1>1, <4>1 DEF Spent
      <4> QED BY <1>3, <2>1, <3>2, <4>3, <4>4, <4>5
    <3> DEFINE x == <<t, Spent(t) + 1>>
    <3>4. x \in Credits /\ x \notin Credits'
      BY <1>3, <3>2, <3>3 DEF Credits
    <3>5. Credits' \subseteq Credits \ {x}
      <4>1. Credits' \subseteq Credits
        BY <1>3, <3>2 DEF Credits
      <4> QED BY <3>4, <4>1
    <3> HIDE DEF x
    <3>6. /\ IsFiniteSet(Credits \ {x})
          /\ Cardinality(Credits \ {x}) = Cardinality(Credits) - 1
      BY <3>4, Finite, FS_RemoveElement
    <3>7. Cardinality(Credits') <= Cardinality(Credits \ {x}) /\ Cardinality(Credits') \in Nat
      BY <3>5, <3>6, FS_Subset, FS_CardinalityType
    <3>8. Len(lh') + Cardinality(Credits') <= LOGSIZE /\ Len(lh') <= LOGSIZE
      BY <1>5, <2>1, <3>1, <3>6, <3>7, Finite
    <3> QED BY <1>1, <1>3, <2>1, <3>8 DEF RoomInv
  <2> QED BY <2>2, <2>3
<1>7. Types' /\ BootInv'
  <2>1. tail' \in 1..Len(lh')+1
    BY <1>1, <1>2, <1>5 DEF Types
  <2> QED BY <1>1, <1>2, <1>5, <2>1 DEF Types, BootInv
<1>8. OpInv'
  BY <1>1, <1>3, <1>4 DEF LInv, OpInv
<1>9. BufInv'
  BY <1>1, <1>2 DEF BufInv, Types
<1>10. CommitInv'
  <2>1. Fits(lh)'
    <3>1. CASE Listed(lh, b)
      BY <1>1, <3>1 DEF LInv, CommitInv, Fits
    <3>2. CASE ~Listed(lh, b)
      <4>1. /\ Len(lh') = Len(lh) + 1 /\ lh'[Len(lh) + 1] = b
            /\ \A i \in 1..Len(lh) : lh'[i] = lh[i] /\ lh[i] # b
        BY <1>1, <1>2, <3>2 DEF Types, Listed
      <4> QED BY <1>5, <1>6, <4>1 DEF LInv, CommitInv, Fits
    <3> QED BY <3>1, <3>2
  <2> QED BY <1>1, <1>2, <1>4, <2>1 DEF LInv, CommitInv, Commits, Fits, Types
<1>11. CacheInv'
  BY <1>1, <1>2, <1>5 DEF LInv, CacheInv, Types, b
<1> QED BY <1>6, <1>7, <1>8, <1>9, <1>10, <1>11 DEF LInv

\* The last call out becomes the committer.
LEMMA EndKeeps ==
  ASSUME LInv, NEW t \in Thread, end_op(t)
  PROVE  LInv'
<1> USE LogAssumption
<1>1. /\ boot = "up" /\ boot' \in {"up", "panic"} /\ pc[t] = "op"
      /\ outstanding' = outstanding - 1
      /\ UNCHANGED <<home, logged, head, cache, dirty, lh, buf, wrote>>
  BY DEF end_op, stable
<1>2. Types /\ BufInv /\ outstanding = Cardinality(InOp) /\ t \in InOp
  BY <1>1 DEF LInv, OpInv, InOp
<1>3. ~committing /\ \A u \in Thread : ~Commits(u)
  BY <1>2 DEF LInv, OpInv
<1>4. IsFiniteSet(InOp \ {t}) /\ Cardinality(InOp \ {t}) = outstanding - 1
  BY <1>2, Finite, FS_RemoveElement
<1>5. CASE /\ outstanding = 1 /\ committing' = TRUE /\ tail' = 1
           /\ pc' = [pc EXCEPT ![t] = IF lh = <<>> THEN "done" ELSE "write_log"]
  <2>1. InOp' = InOp \ {t}
    BY <1>2, <1>5 DEF InOp, Types
  <2>2. InOp' = {}
    BY <1>4, <1>5, <2>1, FS_EmptySet
  <2>3. Types' /\ BootInv'
    <3>1. tail' \in 1..Len(lh')+1
      BY <1>1, <1>2, <1>5 DEF Types
    <3> QED BY <1>1, <1>2, <1>5, <3>1 DEF Types, BootInv
  <2>4. OpInv'
    <3>1. \A u \in Thread : Commits(u)' <=> u = t
      BY <1>2, <1>3, <1>5 DEF Commits, Types
    <3>2. outstanding' = Cardinality(InOp')
      BY <1>1, <1>4, <2>1
    <3> QED BY <1>5, <2>2, <3>1, <3>2 DEF OpInv
  <2>5. BufInv' /\ CacheInv'
    BY <1>1, <1>2, <1>5 DEF LInv, BufInv, CacheInv, Types
  <2>6. RoomInv'
    BY <2>2 DEF RoomInv
  <2>7. CommitInv'
    BY <1>1, <1>2, <1>3, <1>5 DEF LInv, CommitInv, Commits, Fits, Types
  <2> QED BY <2>3, <2>4, <2>5, <2>6, <2>7 DEF LInv
<1>6. CASE /\ outstanding > 1 /\ pc' = [Woken EXCEPT ![t] = "idle"]
           /\ UNCHANGED <<committing, tail>>
  <2>1. /\ pc' \in [Thread -> Places] /\ pc'[t] = "idle"
        /\ \A u \in Thread \ {t} :
             pc'[u] = pc[u] \/ (pc[u] = "asleep" /\ pc'[u] = "begin")
    <3>1. Woken \in [Thread -> Places]
      BY <1>2 DEF Woken, Types, Places
    <3>2. \A u \in Thread : Woken[u] = pc[u] \/ (pc[u] = "asleep" /\ Woken[u] = "begin")
      BY DEF Woken
    <3> QED BY <1>6, <3>1, <3>2 DEF Places
  <2>2. InOp' = InOp \ {t} /\ \A u \in Thread : ~Commits(u)'
    BY <1>3, <2>1 DEF InOp, Commits
  <2>3. Types' /\ BootInv'
    <3>1. outstanding' \in Nat
      BY <1>1, <1>2, <1>6 DEF Types
    <3> QED BY <1>1, <1>2, <1>6, <2>1, <3>1 DEF Types, BootInv, Places
  <2>4. InOp' # {}
    BY <1>2, <1>4, <1>6, <2>2, FS_EmptySet DEF Types
  <2>5. OpInv'
    BY <1>1, <1>3, <1>4, <1>6, <2>2, <2>4 DEF OpInv
  <2>6. BufInv' /\ CacheInv'
    BY <1>1, <1>2, <2>1 DEF LInv, BufInv, CacheInv
  <2>7. RoomInv'
    <3>1. Credits' \subseteq Credits
      BY <1>1, <2>2 DEF Credits, Spent
    <3>2. Cardinality(Credits') <= Cardinality(Credits) /\ Cardinality(Credits') \in Nat
      BY <3>1, Finite, FS_Subset, FS_CardinalityType
    <3>3. Len(lh) + Cardinality(Credits) <= LOGSIZE /\ Len(lh) \in Nat
      BY <1>2 DEF LInv, RoomInv, Types
    <3>4. Len(lh') + Cardinality(Credits') <= LOGSIZE
      BY <1>1, <3>2, <3>3, Finite
    <3> QED BY <1>1, <2>2, <3>4 DEF LInv, RoomInv
  <2>8. CommitInv'
    BY <1>1, <1>3, <2>2 DEF LInv, CommitInv, Commits, Fits
  <2> QED BY <2>3, <2>5, <2>6, <2>7, <2>8 DEF LInv
<1> QED BY <1>5, <1>6 DEF end_op, Goto

-----------------------------------------------------------------------------
(***************************************************************************)
(* The steps of commits, crashes and recovery keep the invariant of the    *)
(* log: commits run alone, and within the log's region of the disk.        *)
(***************************************************************************)

\* When nothing runs, as after a crash, the invariant is about the disk only.
Rest == Types /\ BootInv /\ Fits(head) /\ Fits(lh) /\ boot \in {"read_head", "install"}
LEMMA RestKeeps == Rest => LInv
<1> SUFFICES ASSUME Rest PROVE LInv
  OBVIOUS
<1> USE DEF Rest
<1>1. InOp = {} /\ \A t \in Thread : ~Commits(t)
  BY DEF BootInv, InOp, Commits
<1>2. OpInv
  BY <1>1, FS_EmptySet DEF OpInv, BootInv
<1>3. BufInv
  BY DEF BufInv, BootInv
<1>4. RoomInv
  BY <1>1 DEF RoomInv
<1>5. CommitInv
  BY DEF CommitInv, BootInv
<1>6. CacheInv
  BY DEF CacheInv, BootInv
<1> QED BY <1>2, <1>3, <1>4, <1>5, <1>6 DEF LInv

LEMMA RestKeepsNext == Rest' => LInv'
  BY RestKeeps, PTL

LEMMA InitLInv == Init => LInv
<1> SUFFICES ASSUME Init PROVE LInv
  OBVIOUS
<1> USE LogAssumption, EmptyLog
<1>1. Types
  <2>1. tail \in 1..Len(lh)+1
    BY DEF Init
  <2>2. /\ home \in [Block -> Value] /\ cache \in [Block -> Value]
        /\ logged \in [1..LOGSIZE -> Value]
    BY DEF Init
  <2> QED BY <2>1, <2>2 DEF Init, Types
<1>2. BootInv
  BY DEF Init, BootInv
<1> QED BY <1>1, <1>2, RestKeeps DEF Init, Rest

\* A crash leaves the header of a commit that is complete, or none.
LEMMA CrashKeeps ==
  ASSUME LInv, Crash
  PROVE  LInv'
<1> USE LogAssumption, EmptyLog
<1>1. Types'
  <2>1. tail' \in 1..Len(lh')+1
    BY DEF Crash
  <2> QED BY <2>1 DEF LInv, Crash, Types, stable
<1>2. BootInv'
  BY DEF Crash, BootInv, stable
<1>3. Fits(head)' /\ Fits(lh)' /\ boot' = "read_head"
  BY DEF LInv, CommitInv, Crash, stable, Fits
<1> QED BY <1>1, <1>2, <1>3, RestKeepsNext DEF Rest

\* Recovery installs what the header says, and then clears it.
LEMMA RecoveryKeeps ==
  ASSUME LInv, Recovery
  PROVE  LInv'
<1> USE LogAssumption, EmptyLog
<1>1. CASE read_head
  <2>1. Types'
    <3>1. tail' \in 1..Len(lh')+1
      BY <1>1 DEF read_head, LInv, BootInv, Types
    <3> QED BY <1>1, <3>1 DEF read_head, LInv, Types, stable, threads
  <2>2. BootInv'
    BY <1>1 DEF read_head, LInv, BootInv, Types, stable, threads
  <2>3. Fits(head)' /\ Fits(lh)' /\ boot' = "install"
    BY <1>1 DEF read_head, LInv, CommitInv, stable, Fits
  <2> QED BY <2>1, <2>2, <2>3, RestKeepsNext DEF Rest
<1>2. CASE recover_install
  <2>1. /\ boot = "install" /\ boot' = boot /\ tail <= Len(lh)
        /\ cache' = [cache EXCEPT ![lh[tail]] = logged[tail]]
        /\ home' = [home EXCEPT ![lh[tail]] = logged[tail]]
        /\ dirty' = dirty \ {lh[tail]} /\ tail' = tail + 1
        /\ UNCHANGED <<logged, head, lh, outstanding, committing, pc, buf, wrote>>
    BY <1>2 DEF recover_install, InstallBlock, threads
  <2>2. /\ tail \in 1..Len(lh) /\ lh[tail] \in Block /\ tail \in 1..LOGSIZE
        /\ logged[tail] \in Value /\ Len(lh) \in Nat
    BY <2>1 DEF LInv, Types, CommitInv, Fits
  <2>3. Types'
    <3>1. tail' \in 1..Len(lh')+1
      BY <2>1, <2>2
    <3> QED BY <2>1, <2>2, <3>1 DEF LInv, Types
  <2>4. \A i \in 1..Len(lh) : i < tail' => home'[lh[i]] = logged[i]
    <3> SUFFICES ASSUME NEW i \in 1..Len(lh), i < tail + 1
                 PROVE  home'[lh[i]] = logged[i]
      BY <2>1
    <3>1. lh[i] \in Block /\ home \in [Block -> Value]
      BY DEF LInv, Types
    <3>2. CASE i = tail
      BY <2>1, <3>1, <3>2
    <3>3. CASE i < tail
      <4>1. lh[i] # lh[tail] /\ home[lh[i]] = logged[i]
        BY <2>1, <2>2, <3>3 DEF LInv, CommitInv, Fits, BootInv
      <4> QED BY <2>1, <3>1, <4>1
    <3> QED BY <2>2, <3>2, <3>3
  <2>5. BootInv'
    BY <2>1, <2>4 DEF LInv, BootInv
  <2>6. Fits(head)' /\ Fits(lh)' /\ boot' = "install"
    BY <2>1 DEF LInv, CommitInv, Fits
  <2> QED BY <2>3, <2>5, <2>6, RestKeepsNext DEF Rest
<1>3. CASE recover_clear
  <2>1. /\ boot = "install" /\ boot' = "up" /\ lh' = <<>> /\ head' = <<>> /\ tail' = 1
        /\ UNCHANGED <<home, logged, cache, dirty, outstanding, committing, pc, buf, wrote>>
    BY <1>3 DEF recover_clear, threads
  <2>2. Types'
    <3>1. tail' \in 1..Len(lh')+1
      BY <2>1
    <3> QED BY <2>1, <3>1 DEF LInv, Types
  <2>3. BootInv'
    BY <2>1 DEF BootInv
  <2>4. InOp' = {} /\ InOp = {} /\ \A t \in Thread : ~Commits(t)'
    BY <2>1 DEF LInv, BootInv, InOp, Commits
  <2>5. OpInv'
    BY <2>1, <2>4, FS_EmptySet DEF LInv, OpInv, BootInv
  <2>6. BufInv'
    BY <2>1 DEF LInv, BufInv
  <2>7. RoomInv'
    BY <2>4 DEF RoomInv
  <2>8. CommitInv'
    BY <2>1, <2>4 DEF CommitInv, Commits, Fits
  <2>9. CacheInv'
    BY <2>1 DEF LInv, BootInv, CacheInv
  <2> QED BY <2>2, <2>3, <2>5, <2>6, <2>7, <2>8, <2>9 DEF LInv
<1> QED BY <1>1, <1>2, <1>3 DEF Recovery
-----------------------------------------------------------------------------
\* While one thread commits no other changes the log or the buffers.
LEMMA CommitKeeps ==
  ASSUME LInv, NEW t \in Thread, CommitStep(t)
  PROVE  LInv'
<1>1. /\ Types /\ boot = "up" /\ Commits(t) /\ committing /\ InOp = {} /\ outstanding = 0
      /\ \A u \in Thread \ {t} : ~Commits(u)
      /\ \A u \in Thread : buf[u] = NoBlock
      /\ Len(lh) \in Nat /\ Len(lh) <= LOGSIZE
  <2>1. Types /\ boot = "up" /\ Commits(t)
    BY DEF CommitStep, write_log, write_head, install_trans, clear_log, end_commit,
           Commits, LInv
  <2>2. committing /\ InOp = {} /\ \A u \in Thread \ {t} : ~Commits(u)
    BY <2>1 DEF LInv, OpInv
  <2>3. outstanding = 0
    BY <2>2, FS_EmptySet DEF LInv, OpInv
  <2>4. \A u \in Thread : buf[u] = NoBlock
    BY <2>2 DEF LInv, BufInv, InOp
  <2> QED BY <2>1, <2>2, <2>3, <2>4 DEF LInv, Types, CommitInv, Fits
<1>2. ASSUME boot' = "up", InOp' = InOp
      PROVE  BootInv' /\ RoomInv'
  BY <1>1, <1>2 DEF BootInv, RoomInv
<1>3. ASSUME InOp' = InOp, \A u \in Thread : Commits(u)' <=> Commits(u),
             UNCHANGED <<outstanding, committing>>
      PROVE  OpInv'
  BY <1>1, <1>3 DEF LInv, OpInv
<1>4. CASE write_log(t)
  <2>1. /\ pc[t] = "write_log" /\ tail <= Len(lh)
        /\ logged' = [logged EXCEPT ![tail] = cache[lh[tail]]] /\ tail' = tail + 1
        /\ UNCHANGED <<home, head, cache, dirty, lh, outstanding, committing, boot, pc,
                       buf, wrote>>
    BY <1>4 DEF write_log, memory, threads
  <2>2. tail \in 1..Len(lh) /\ tail \in 1..LOGSIZE /\ lh[tail] \in Block
    BY <1>1, <2>1, LogAssumption DEF Types
  <2>3. Types'
    <3>1. tail' \in 1..Len(lh')+1 /\ logged' \in [1..LOGSIZE -> Value]
      BY <1>1, <2>1, <2>2 DEF Types
    <3> QED BY <1>1, <2>1, <3>1 DEF Types
  <2>4. InOp' = InOp /\ \A u \in Thread : Commits(u)' <=> Commits(u)
    BY <2>1 DEF InOp, Commits
  <2>5. BufInv' /\ CacheInv'
    BY <2>1 DEF LInv, BufInv, CacheInv
  <2>6. \A i \in 1..Len(lh) : i < tail + 1 => logged'[i] = cache[lh[i]]
    <3>1. \A i \in 1..Len(lh) : i < tail => logged[i] = cache[lh[i]]
      BY <2>1 DEF LInv, CommitInv
    <3>2. logged \in [1..LOGSIZE -> Value] /\ LOGSIZE \in Nat
      BY <1>1, LogAssumption DEF Types
    <3> QED BY <1>1, <2>1, <2>2, <3>1, <3>2
  <2>7. CommitInv'
    <3>1. \A u \in Thread : pc[u] = "install" \/ pc[u] = "done" => FALSE
      BY <1>1, <2>1 DEF Commits
    <3>2. Fits(lh) /\ Fits(head) /\ head = <<>>
      BY <1>1, <3>1 DEF LInv, CommitInv
    <3> QED BY <2>1, <2>6, <3>1, <3>2 DEF CommitInv, Fits
  <2> QED BY <1>1, <1>2, <1>3, <2>1, <2>3, <2>4, <2>5, <2>7 DEF LInv
<1>5. CASE write_head(t)
  <2>1. /\ pc[t] = "write_log" /\ tail > Len(lh) /\ head' = lh /\ tail' = 1
        /\ pc' = [pc EXCEPT ![t] = "install"]
        /\ UNCHANGED <<home, logged, cache, dirty, lh, outstanding, committing, boot,
                       buf, wrote>>
    BY <1>5 DEF write_head, Goto, memory
  <2>2. Types'
    <3>1. tail' \in 1..Len(lh')+1
      BY <1>1, <2>1
    <3> QED BY <1>1, <2>1, <3>1 DEF Types
  <2>3. InOp' = InOp /\ \A u \in Thread : Commits(u)' <=> Commits(u)
    BY <1>1, <2>1 DEF InOp, Commits, Types
  <2>4. BufInv' /\ CacheInv'
    BY <1>1, <2>1 DEF LInv, BufInv, CacheInv, Types
  <2>5. /\ \A i \in 1..Len(lh) : logged[i] = cache[lh[i]]
        /\ \A b \in dirty : \E i \in 1..Len(lh) : 1 <= i /\ lh[i] = b
    <3>1. \A i \in 1..Len(lh) : i < tail => logged[i] = cache[lh[i]]
      BY <2>1 DEF LInv, CommitInv
    <3>2. tail \in Nat
      BY <1>1 DEF Types
    <3>3. \A b \in dirty : Listed(lh, b)
      BY DEF LInv, CacheInv
    <3>4. \A i \in 1..Len(lh) : logged[i] = cache[lh[i]]
      BY <1>1, <2>1, <3>1, <3>2
    <3>5. \A b \in dirty : \E i \in 1..Len(lh) : 1 <= i /\ lh[i] = b
      BY <1>1, <3>3 DEF Listed
    <3> QED BY <3>4, <3>5
  <2>6. CommitInv'
    <3>1. \A u \in Thread : pc'[u] # "write_log" /\ pc'[u] # "done"
      BY <1>1, <2>1 DEF Commits, Types
    <3>2. \E u \in Thread : pc'[u] = "install"
      BY <1>1, <2>1 DEF Types
    <3>3. Fits(lh)
      BY DEF LInv, CommitInv
    <3> QED BY <2>1, <2>5, <3>1, <3>2, <3>3 DEF CommitInv, Fits
  <2> QED BY <1>1, <1>2, <1>3, <2>1, <2>2, <2>3, <2>4, <2>6 DEF LInv
<1>6. CASE install_trans(t)
  <2>1. /\ pc[t] = "install" /\ tail <= Len(lh)
        /\ cache' = [cache EXCEPT ![lh[tail]] = logged[tail]]
        /\ home' = [home EXCEPT ![lh[tail]] = logged[tail]]
        /\ dirty' = dirty \ {lh[tail]} /\ tail' = tail + 1
        /\ UNCHANGED <<logged, head, lh, outstanding, committing, boot, pc, buf, wrote>>
    BY <1>6 DEF install_trans, InstallBlock, threads
  <2>2. /\ tail \in 1..Len(lh) /\ lh[tail] \in Block /\ tail \in 1..LOGSIZE
        /\ logged[tail] \in Value /\ logged[tail] = cache[lh[tail]]
    BY <1>1, <2>1, LogAssumption DEF LInv, Types, CommitInv
  <2>3. cache' = cache
    BY <1>1, <2>1, <2>2 DEF Types
  <2>4. Types'
    <3>1. tail' \in 1..Len(lh')+1 /\ home' \in [Block -> Value]
      BY <1>1, <2>1, <2>2 DEF Types
    <3> QED BY <1>1, <2>1, <2>3, <3>1 DEF Types
  <2>5. InOp' = InOp /\ \A u \in Thread : Commits(u)' <=> Commits(u)
    BY <2>1 DEF InOp, Commits
  <2>6. BufInv'
    BY <2>1 DEF LInv, BufInv
  <2>7. \A b \in dirty' : \E i \in 1..Len(lh) : tail' <= i /\ lh[i] = b
    <3> SUFFICES ASSUME NEW b \in dirty, b # lh[tail]
                 PROVE  \E i \in 1..Len(lh) : tail + 1 <= i /\ lh[i] = b
      BY <2>1
    <3>1. PICK i \in 1..Len(lh) : tail <= i /\ lh[i] = b
      BY <2>1 DEF LInv, CommitInv
    <3> QED BY <2>2, <3>1
  <2>8. CommitInv'
    <3>1. \A u \in Thread : pc[u] # "write_log" /\ pc[u] # "done"
      BY <1>1, <2>1 DEF Commits
    <3>2. Fits(lh) /\ head = lh /\ \A i \in 1..Len(lh) : logged[i] = cache[lh[i]]
      BY <2>1 DEF LInv, CommitInv
    <3> QED BY <2>1, <2>3, <2>7, <3>1, <3>2 DEF CommitInv, Fits
  <2>9. CacheInv'
    <3>1. \A b \in Block : b \notin dirty' /\ (\A u \in Thread : buf'[u] # b)
                             => cache'[b] = home'[b]
      <4> SUFFICES ASSUME NEW b \in Block, b \notin dirty \/ b = lh[tail]
                   PROVE  cache[b] = home'[b]
        BY <2>1, <2>3
      <4>1. home \in [Block -> Value]
        BY <1>1 DEF Types
      <4>2. CASE b = lh[tail]
        BY <2>1, <2>2, <4>1, <4>2
      <4>3. CASE b # lh[tail]
        <5>1. cache[b] = home[b]
          BY <1>1, <4>3, LogAssumption DEF LInv, CacheInv
        <5> QED BY <2>1, <4>1, <4>3, <5>1
      <4> QED BY <4>2, <4>3
    <3>2. \A b \in dirty' : Listed(lh', b)
      BY <2>1 DEF LInv, CacheInv
    <3> QED BY <3>1, <3>2 DEF CacheInv
  <2> QED BY <1>1, <1>2, <1>3, <2>1, <2>4, <2>5, <2>6, <2>8, <2>9 DEF LInv
<1>7. CASE clear_log(t)
  <2>1. /\ pc[t] = "install" /\ tail > Len(lh)
        /\ lh' = <<>> /\ head' = <<>> /\ tail' = 1
        /\ pc' = [pc EXCEPT ![t] = "done"]
        /\ UNCHANGED <<home, logged, cache, dirty, outstanding, committing, boot, buf,
                       wrote>>
    BY <1>7 DEF clear_log, Goto
  <2>2. dirty = {}
    BY <1>1, <2>1 DEF LInv, CommitInv, Types
  <2>3. Types'
    <3>1. tail' \in 1..Len(lh')+1 /\ lh' \in Seq(Block) /\ head' \in Seq(Block)
      BY <2>1, EmptyLog
    <3> QED BY <1>1, <2>1, <3>1 DEF Types
  <2>4. InOp' = InOp /\ \A u \in Thread : Commits(u)' <=> Commits(u)
    BY <1>1, <2>1 DEF InOp, Commits, Types
  <2>5. BufInv'
    BY <1>1, <2>1 DEF LInv, BufInv, Types
  <2>6. CommitInv'
    <3>1. \A u \in Thread : pc'[u] \notin {"write_log", "install"}
      BY <1>1, <2>1 DEF Commits, Types
    <3>2. Fits(lh)' /\ Fits(head)'
      BY <2>1, EmptyLog DEF Fits
    <3> QED BY <2>1, <3>1, <3>2 DEF CommitInv
  <2>7. CacheInv'
    BY <2>1, <2>2 DEF LInv, CacheInv
  <2> QED BY <1>1, <1>2, <1>3, <2>1, <2>3, <2>4, <2>5, <2>6, <2>7 DEF LInv
<1>8. CASE end_commit(t)
  <2>1. /\ pc[t] = "done" /\ committing' = FALSE /\ pc' = [Woken EXCEPT ![t] = "idle"]
        /\ UNCHANGED <<home, logged, head, cache, dirty, lh, outstanding, boot, buf, wrote,
                       tail>>
    BY <1>8 DEF end_commit, stable
  <2>2. /\ pc' \in [Thread -> Places] /\ pc'[t] = "idle"
        /\ \A u \in Thread \ {t} :
             pc'[u] = pc[u] \/ (pc[u] = "asleep" /\ pc'[u] = "begin")
    <3>1. Woken \in [Thread -> Places]
      BY <1>1 DEF Woken, Types, Places
    <3>2. \A u \in Thread : Woken[u] = pc[u] \/ (pc[u] = "asleep" /\ Woken[u] = "begin")
      BY DEF Woken
    <3> QED BY <2>1, <3>1, <3>2 DEF Places
  <2>3. InOp' = {} /\ \A u \in Thread : ~Commits(u)'
    BY <1>1, <2>2 DEF InOp, Commits
  <2>4. lh = <<>> /\ \A u \in Thread : pc[u] # "install"
    BY <1>1, <2>1 DEF LInv, CommitInv, Commits
  <2>5. Types'
    BY <1>1, <2>1, <2>2 DEF Types, Places
  <2>6. OpInv'
    BY <1>1, <2>1, <2>3, <2>4 DEF LInv, OpInv
  <2>7. BufInv' /\ CacheInv'
    BY <1>1, <2>1, <2>2 DEF LInv, BufInv, CacheInv
  <2>8. CommitInv'
    <3>1. \A u \in Thread : pc'[u] \notin {"write_log", "install", "done"}
      BY <2>3 DEF Commits
    <3>2. head = <<>>
      BY <1>1, <2>4 DEF LInv, CommitInv
    <3> QED BY <2>1, <2>4, <3>1, <3>2, EmptyLog DEF CommitInv, Fits
  <2> QED BY <1>1, <1>2, <2>1, <2>3, <2>5, <2>6, <2>7, <2>8 DEF LInv
<1> QED BY <1>4, <1>5, <1>6, <1>7, <1>8 DEF CommitStep

LEMMA LInvInductive == LInv /\ [Next]_vars => LInv'
<1> SUFFICES ASSUME LInv, [Next]_vars PROVE LInv'
  OBVIOUS
<1>1. CASE UNCHANGED vars
  <2>1. UNCHANGED <<home, logged, head, cache, dirty, lh, outstanding, committing, boot,
                    pc, buf, wrote, tail>>
    BY <1>1 DEF vars, stable, memory, threads
  <2>2. InOp' = InOp /\ Credits' = Credits /\ \A t \in Thread : Commits(t)' <=> Commits(t)
    BY <2>1 DEF InOp, Credits, Spent, Commits
  <2>3. Types' /\ BootInv'
    <3>1. Types'
      BY <2>1 DEF LInv, Types
    <3>2. BootInv'
      BY <2>1 DEF LInv, BootInv
    <3> QED BY <3>1, <3>2
  <2>4. OpInv' /\ RoomInv'
    BY <2>1, <2>2 DEF LInv, OpInv, RoomInv
  <2>5. BufInv' /\ CacheInv'
    BY <2>1 DEF LInv, BufInv, CacheInv
  <2>6. CommitInv'
    BY <2>1 DEF LInv, CommitInv, Fits
  <2> QED BY <2>3, <2>4, <2>5, <2>6 DEF LInv
<1>2. CASE Crash \/ Recovery
  BY <1>2, CrashKeeps, RecoveryKeeps
<1>3. ASSUME NEW t \in Thread,
             begin_op(t) \/ log_writeChecks(t) \/ log_write(t) \/ end_op(t) \/ CommitStep(t)
      PROVE  LInv'
  BY <1>3, BeginKeeps, ChecksKeep, LogWriteKeeps, EndKeeps, CommitKeeps
<1>4. ASSUME NEW t \in Thread, NEW b \in Block, NEW v \in Value, modify(t, b, v)
      PROVE  LInv'
  BY <1>4, ModifyKeeps
<1> QED BY <1>1, <1>2, <1>3, <1>4 DEF Next

\* For any system calls that keep to MAXOPBLOCKS, only one thread commits, no call
\* runs meanwhile, and the log stays within its region of the disk, as long as
\* that has a block for each entry of the header and one for the header itself
\* (mkfs makes it one block smaller).
THEOREM CommitCorrect ==
  ASSUME LOGSIZE < LogBlocks
  PROVE  Spec => []CommitIsAlone
<1>1. LInv => CommitIsAlone
  <2> SUFFICES ASSUME LInv PROVE CommitIsAlone
    OBVIOUS
  <2>1. Len(lh) <= LogBlocks - 1
    BY LogAssumption DEF LInv, CommitInv, Fits, Types
  <2>2. committing => outstanding = 0
    BY FS_EmptySet DEF LInv, OpInv
  <2> QED BY <2>1, <2>2 DEF LInv, OpInv, Commits, CommitIsAlone
<1> QED BY <1>1, InitLInv, LInvInductive, PTL DEF Spec
-----------------------------------------------------------------------------
(* The log implements AtomicDisk over crashes: what recovery would make of *)
(* the disk changes in one step of a commit only, and then completely.     *)

\* What recovery makes of a header that names no block twice.
LEMMA RecoveredEntry ==
  ASSUME NEW h \in Seq(Block), Fits(h), NEW data, NEW old, NEW i \in 1..Len(h)
  PROVE  Recovered(h, data, old)[h[i]] = data[i]
<1>1. DOMAIN h = 1..Len(h) /\ h[i] \in Block
  OBVIOUS
<1>2. (CHOOSE j \in DOMAIN h : h[j] = h[i]) = i
  BY <1>1 DEF Fits
<1> QED BY <1>1, <1>2 DEF Recovered

LEMMA RecoveredOther ==
  ASSUME NEW h \in Seq(Block), NEW data, NEW old, NEW b \in Block, ~Listed(h, b)
  PROVE  Recovered(h, data, old)[b] = old[b]
<1>1. DOMAIN h = 1..Len(h)
  OBVIOUS
<1> QED BY <1>1 DEF Recovered, Listed

\* An empty header leaves the disk alone.
LEMMA RecoveredNothing ==
  ASSUME NEW data, NEW old \in [Block -> Value]
  PROVE  Recovered(<<>>, data, old) = old
  BY DEF Recovered

\* When a commit is being installed, and when nothing is going on, recovery would
\* produce the contents of the buffers.
LEMMA DiskIsCache ==
  ASSUME LInv, NEW h \in Seq(Block), Fits(h),
         \A i \in 1..Len(h) : logged[i] = cache[h[i]],
         \A b \in dirty : Listed(h, b),
         \A t \in Thread : buf[t] = NoBlock
  PROVE  Recovered(h, logged, home) = cache
<1>1. cache \in [Block -> Value]
  BY DEF LInv, Types
<1>2. ASSUME NEW b \in Block
      PROVE  Recovered(h, logged, home)[b] = cache[b]
  <2>1. CASE Listed(h, b)
    <3>1. PICK j \in 1..Len(h) : h[j] = b
      BY <2>1 DEF Listed
    <3> QED BY <3>1, RecoveredEntry
  <2>2. CASE ~Listed(h, b)
    <3>1. cache[b] = home[b]
      BY <2>2, LogAssumption DEF LInv, CacheInv
    <3> QED BY <2>2, <3>1, RecoveredOther
  <2> QED BY <2>1, <2>2
<1>3. Recovered(h, logged, home) = [b \in Block |-> Recovered(h, logged, home)[b]]
  BY DEF Recovered
<1> QED BY <1>1, <1>2, <1>3

\* A block that is copied from the log to its home changes nothing for recovery.
LEMMA InstallHidden ==
  ASSUME NEW h \in Seq(Block), Fits(h), NEW i \in 1..Len(h), NEW data,
         NEW old, NEW new, \A b \in Block \ {h[i]} : new[b] = old[b]
  PROVE  Recovered(h, data, new) = Recovered(h, data, old)
<1>1. ASSUME NEW b \in Block
      PROVE  Recovered(h, data, new)[b] = Recovered(h, data, old)[b]
  <2>1. CASE Listed(h, b)
    <3>1. PICK j \in 1..Len(h) : h[j] = b
      BY <2>1 DEF Listed
    <3> QED BY <3>1, RecoveredEntry
  <2>2. CASE ~Listed(h, b)
    <3>1. h[i] # b
      BY <2>2 DEF Listed
    <3>2. new[b] = old[b]
      BY <3>1
    <3>3. Recovered(h, data, new)[b] = new[b]
      BY <2>2, RecoveredOther
    <3>4. Recovered(h, data, old)[b] = old[b]
      BY <2>2, RecoveredOther
    <3> QED BY <3>2, <3>3, <3>4
  <2> QED BY <2>1, <2>2
<1> QED BY <1>1 DEF Recovered

\* No call runs and nothing commits: what was written is on the disk; and what
\* bget may recycle is there at any time.
THEOREM DurableCorrect == Spec => []QuietIsDurable
<1>1. LInv => QuietIsDurable
  <2> SUFFICES ASSUME LInv PROVE QuietIsDurable
    OBVIOUS
  <2>1. TypeOK
    <3>1. outstanding \in 0..Cardinality(Thread)
      <4>1. InOp \subseteq Thread /\ IsFiniteSet(Thread)
        BY LogAssumption DEF InOp
      <4>2. /\ Cardinality(InOp) <= Cardinality(Thread)
            /\ Cardinality(InOp) \in Nat /\ Cardinality(Thread) \in Nat
        BY <4>1, Finite, FS_Subset, FS_CardinalityType
      <4> QED BY <4>2 DEF LInv, OpInv
    <3> QED BY <3>1 DEF LInv, Types, TypeOK
  <2>2. ASSUME boot = "up", InOp = {}, ~committing
        PROVE  OnDisk = cache
    <3>1. lh = <<>> /\ \A t \in Thread : ~Commits(t)
      BY <2>2 DEF LInv, OpInv
    <3>2. head = <<>>
      BY <2>2, <3>1 DEF LInv, CommitInv, Commits
    <3>3. dirty = {} /\ \A t \in Thread : buf[t] = NoBlock
      BY <2>2, <3>1, EmptyLog DEF LInv, CacheInv, BufInv, InOp
    <3>4. cache = home /\ home \in [Block -> Value]
      BY <3>3, LogAssumption DEF LInv, CacheInv, Types
    <3> QED BY <3>2, <3>4, RecoveredNothing DEF OnDisk
  <2> QED BY <2>1, <2>2 DEF QuietIsDurable, LInv, CacheInv
<1> QED BY <1>1, InitLInv, LInvInductive, PTL DEF Spec
-----------------------------------------------------------------------------
\* The contents that system calls see, as the refinement maps them.
Seen == IF boot \in {"up", "panic"} THEN cache ELSE OnDisk

\* The first boot starts from the new file system.
LEMMA InitImplements == Init => Atomic!Init
<1> SUFFICES ASSUME Init PROVE Atomic!Init
  OBVIOUS
<1>1. OnDisk = [b \in Block |-> InitValue]
  BY LogAssumption, RecoveredNothing DEF OnDisk, Init
<1>2. InOp = {}
  BY DEF InOp, Init
<1> QED BY <1>1, <1>2 DEF Init, Atomic!Init

\* A step that a user of the log does not notice.
LEMMA Unnoticed ==
  ASSUME Seen' = Seen, OnDisk' = OnDisk, InOp' = InOp
  PROVE  UNCHANGED Atomic!vars
  BY DEF Seen, Atomic!vars

LEMMA RecoveryImplements ==
  ASSUME LInv, Recovery
  PROVE  UNCHANGED Atomic!vars
<1>1. InOp = {} /\ cache = home /\ boot \in {"read_head", "install"}
  BY DEF LInv, BootInv, InOp, Recovery, read_head, recover_install, recover_clear
<1>2. CASE read_head
  <2>1. OnDisk' = OnDisk /\ InOp' = InOp /\ boot' = "install"
    BY <1>2 DEF read_head, stable, threads, OnDisk, InOp
  <2> QED BY <1>1, <2>1, Unnoticed DEF Seen
<1>3. CASE recover_install
  <2>1. /\ boot = "install" /\ boot' = boot /\ tail \in 1..Len(lh) /\ lh = head
        /\ home' = [home EXCEPT ![head[tail]] = logged[tail]]
        /\ UNCHANGED <<logged, head, pc>>
    BY <1>3 DEF recover_install, InstallBlock, threads, LInv, Types, BootInv
  <2>2. OnDisk' = OnDisk
    <3>1. /\ head \in Seq(Block) /\ Fits(head) /\ home \in [Block -> Value]
          /\ tail \in 1..Len(head)
      BY <2>1 DEF LInv, Types, CommitInv
    <3>2. /\ \A b \in Block \ {head[tail]} : home'[b] = home[b]
          /\ UNCHANGED <<logged, head>>
      BY <2>1, <3>1
    <3>3. Recovered(head, logged, home') = Recovered(head, logged, home)
      BY <3>1, <3>2, InstallHidden
    <3> QED BY <3>2, <3>3 DEF OnDisk
  <2>3. InOp' = InOp
    BY <2>1 DEF InOp
  <2> QED BY <1>1, <2>1, <2>2, <2>3, Unnoticed DEF Seen
<1>4. CASE recover_clear
  <2>1. /\ boot = "install" /\ boot' = "up" /\ lh = head /\ tail > Len(lh) /\ head' = <<>>
        /\ UNCHANGED <<home, logged, cache, pc>>
        /\ \A i \in 1..Len(head) : home[head[i]] = logged[i]
    BY <1>4 DEF recover_clear, threads, LInv, Types, BootInv
  <2>2. OnDisk' = home
    BY <2>1, RecoveredNothing DEF OnDisk, LInv, Types
  <2>3. OnDisk = home
    <3>1. dirty = {} /\ \A t \in Thread : buf[t] = NoBlock
      BY <1>1 DEF LInv, BootInv
    <3>2. Recovered(head, logged, home) = cache
      BY <1>1, <2>1, <3>1, DiskIsCache DEF LInv, Types, CommitInv
    <3> QED BY <1>1, <3>2 DEF OnDisk
  <2>4. InOp' = InOp
    BY <2>1 DEF InOp
  <2> QED BY <1>1, <2>1, <2>2, <2>3, <2>4, Unnoticed DEF Seen
<1> QED BY <1>2, <1>3, <1>4 DEF Recovery

\* The steps of a commit do not show, but for the one that writes the header,
\* which puts everything that was written on the disk at once.
LEMMA CommitImplements ==
  ASSUME LInv, NEW t \in Thread, CommitStep(t)
  PROVE  Atomic!Commit \/ UNCHANGED Atomic!vars
<1> USE LogAssumption
<1>1. Types /\ boot = "up" /\ Commits(t)
  BY DEF CommitStep, write_log, write_head, install_trans, clear_log, end_commit,
         Commits, LInv
<1>2. InOp = {} /\ \A u \in Thread \ {t} : ~Commits(u)
  BY <1>1 DEF LInv, OpInv
<1>3. \A u \in Thread : buf[u] = NoBlock
  BY <1>2 DEF LInv, BufInv, InOp
<1>4. CASE write_log(t)
  <2>1. pc[t] = "write_log" /\ UNCHANGED <<home, head, cache, boot, pc>>
    BY <1>4 DEF write_log, memory, threads
  <2>2. head = <<>>
    BY <1>1, <1>2, <2>1 DEF LInv, CommitInv, Commits
  <2>3. OnDisk = home /\ OnDisk' = home
    BY <1>1, <2>1, <2>2, RecoveredNothing DEF OnDisk, Types
  <2>4. InOp' = InOp
    BY <2>1 DEF InOp
  <2> QED BY <1>1, <2>1, <2>3, <2>4, Unnoticed DEF Seen
<1>5. CASE write_head(t)
  <2>1. /\ pc[t] = "write_log" /\ tail > Len(lh) /\ head' = lh
        /\ pc' = [pc EXCEPT ![t] = "install"]
        /\ UNCHANGED <<home, logged, cache, boot>>
    BY <1>5 DEF write_head, Goto, memory
  <2>2. Recovered(lh, logged, home) = cache
    <3>1. \A i \in 1..Len(lh) : logged[i] = cache[lh[i]]
      BY <1>1, <2>1 DEF LInv, CommitInv, Types
    <3> QED BY <1>1, <1>3, <3>1, DiskIsCache DEF LInv, CommitInv, CacheInv, Types
  <2>3. OnDisk' = cache
    BY <2>1, <2>2 DEF OnDisk
  <2>4. InOp' = InOp
    BY <1>1, <2>1 DEF InOp, Types
  <2> QED BY <1>1, <1>2, <2>1, <2>3, <2>4 DEF Atomic!Commit
<1>6. CASE install_trans(t)
  <2>1. /\ pc[t] = "install" /\ tail <= Len(lh)
        /\ cache' = [cache EXCEPT ![lh[tail]] = logged[tail]]
        /\ home' = [home EXCEPT ![lh[tail]] = logged[tail]]
        /\ UNCHANGED <<logged, head, boot, pc>>
    BY <1>6 DEF install_trans, InstallBlock, threads
  <2>2. tail \in 1..Len(lh) /\ head = lh /\ logged[tail] = cache[lh[tail]]
    BY <1>1, <2>1 DEF LInv, CommitInv, Types
  <2>3. cache' = cache
    BY <1>1, <2>1, <2>2 DEF Types
  <2>4. OnDisk' = OnDisk
    <3>1. /\ head \in Seq(Block) /\ Fits(head) /\ home \in [Block -> Value]
          /\ tail \in 1..Len(head)
      BY <2>2 DEF LInv, Types, CommitInv
    <3>2. /\ \A b \in Block \ {head[tail]} : home'[b] = home[b]
          /\ UNCHANGED <<logged, head>>
      BY <2>1, <2>2, <3>1
    <3>3. Recovered(head, logged, home') = Recovered(head, logged, home)
      BY <3>1, <3>2, InstallHidden
    <3> QED BY <3>2, <3>3 DEF OnDisk
  <2>5. InOp' = InOp
    BY <2>1 DEF InOp
  <2> QED BY <1>1, <2>1, <2>3, <2>4, <2>5, Unnoticed DEF Seen
<1>7. CASE clear_log(t)
  <2>1. /\ pc[t] = "install" /\ tail > Len(lh) /\ head' = <<>>
        /\ pc' = [pc EXCEPT ![t] = "done"]
        /\ UNCHANGED <<home, logged, cache, boot>>
    BY <1>7 DEF clear_log, Goto
  <2>2. head = lh /\ dirty = {} /\ \A i \in 1..Len(lh) : logged[i] = cache[lh[i]]
    BY <1>1, <2>1 DEF LInv, CommitInv, Types
  <2>3. OnDisk = cache
    BY <1>1, <1>3, <2>2, DiskIsCache DEF OnDisk, LInv, CommitInv, Types
  <2>4. cache = home
    <3>1. \A b \in Block : cache[b] = home[b]
      BY <1>3, <2>2 DEF LInv, CacheInv
    <3> QED BY <1>1, <3>1 DEF Types
  <2>5. OnDisk' = OnDisk
    BY <1>1, <2>1, <2>3, <2>4, RecoveredNothing DEF OnDisk, Types
  <2>6. InOp' = InOp
    BY <1>1, <2>1 DEF InOp, Types
  <2> QED BY <1>1, <2>1, <2>5, <2>6, Unnoticed DEF Seen
<1>8. CASE end_commit(t)
  <2>1. /\ pc' = [Woken EXCEPT ![t] = "idle"]
        /\ UNCHANGED <<home, logged, head, cache, boot>>
    BY <1>8 DEF end_commit, stable
  <2>2. OnDisk' = OnDisk
    BY <2>1 DEF OnDisk
  <2>3. \A u \in Thread : Woken[u] = pc[u] \/ Woken[u] = "begin"
    BY DEF Woken
  <2>4. \A u \in Thread : pc'[u] \in {pc[u], "begin", "idle"}
    BY <2>1, <2>3 DEF Woken
  <2>5. InOp' = InOp
    BY <1>2, <2>4 DEF InOp
  <2> QED BY <1>1, <2>1, <2>2, <2>5, Unnoticed DEF Seen
<1> QED BY <1>4, <1>5, <1>6, <1>7, <1>8 DEF CommitStep

\* The steps of system calls are those of AtomicDisk.
LEMMA CallImplements ==
  ASSUME LInv, NEW t \in Thread,
         begin_op(t) \/ log_writeChecks(t) \/ log_write(t) \/ end_op(t)
  PROVE  Atomic!Begin(t) \/ Atomic!End(t) \/ UNCHANGED Atomic!vars
<1>1. /\ Types /\ boot = "up" /\ boot' \in {"up", "panic"}
      /\ UNCHANGED <<home, logged, head, cache>>
  BY DEF begin_op, log_writeChecks, log_write, end_op, LInv, stable, memory
<1>2. OnDisk' = OnDisk
  BY <1>1 DEF OnDisk
<1>3. Seen' = cache /\ Seen = cache
  BY <1>1 DEF Seen
<1>4. CASE begin_op(t)
  <2>1. pc[t] \in {"idle", "begin"} /\ pc' \in {[pc EXCEPT ![t] = "asleep"], [pc EXCEPT ![t] = "op"]}
    BY <1>4 DEF begin_op, Goto
  <2>2. t \notin InOp /\ (InOp' = InOp \/ InOp' = InOp \cup {t})
    BY <1>1, <2>1 DEF InOp, Types
  <2> QED BY <1>1, <1>2, <1>3, <2>2, Unnoticed DEF Atomic!Begin
<1>5. CASE log_writeChecks(t) \/ log_write(t)
  <2>1. \/ pc' = pc
        \/ pc[t] \in {"check", "record"} /\ pc' \in {[pc EXCEPT ![t] = "record"], [pc EXCEPT ![t] = "op"]}
    BY <1>5 DEF log_writeChecks, log_write, Goto
  <2>2. InOp' = InOp
    BY <1>1, <2>1 DEF InOp, Types
  <2> QED BY <1>2, <1>3, <2>2, Unnoticed
<1>6. CASE end_op(t)
  <2>1. pc[t] = "op" /\ pc'[t] \notin {"op", "check", "record"}
        /\ \A u \in Thread \ {t} : pc'[u] = pc[u] \/ (pc[u] = "asleep" /\ pc'[u] = "begin")
    <3>1. pc[t] = "op"
      BY <1>6 DEF end_op
    <3>2. CASE pc' = [pc EXCEPT ![t] = IF lh = <<>> THEN "done" ELSE "write_log"]
      BY <1>1, <3>1, <3>2 DEF Types
    <3>3. CASE pc' = [Woken EXCEPT ![t] = "idle"]
      BY <1>1, <3>1, <3>3 DEF Woken
    <3> QED BY <1>6, <3>2, <3>3 DEF end_op, Goto
  <2>2. t \in InOp /\ InOp' = InOp \ {t}
    BY <2>1 DEF InOp
  <2> QED BY <1>1, <1>2, <2>2 DEF Atomic!End
<1> QED BY <1>4, <1>5, <1>6

LEMMA ModifyImplements ==
  ASSUME LInv, NEW t \in Thread, NEW b \in Block, NEW v \in Value, modify(t, b, v)
  PROVE  Atomic!Write(t, b, v)
<1>1. /\ Types /\ boot = "up" /\ boot' = "up" /\ pc[t] = "op"
      /\ pc' = [pc EXCEPT ![t] = "check"] /\ cache' = [cache EXCEPT ![b] = v]
      /\ UNCHANGED <<home, logged, head>>
  BY DEF modify, Goto, LInv, stable
<1>2. OnDisk' = OnDisk
  BY <1>1 DEF OnDisk
<1>3. t \in InOp /\ InOp' = InOp
  BY <1>1 DEF InOp, Types
<1> QED BY <1>1, <1>2, <1>3 DEF Atomic!Write

LEMMA StepImplements == LInv /\ [Next]_vars => [Atomic!Next]_(Atomic!vars)
<1> SUFFICES ASSUME LInv, [Next]_vars PROVE Atomic!Next \/ UNCHANGED Atomic!vars
  OBVIOUS
<1>1. CASE UNCHANGED vars
  BY <1>1 DEF vars, stable, memory, threads, Atomic!vars, OnDisk, InOp
<1>2. CASE Crash
  <2>1. boot' = "read_head" /\ InOp' = {} /\ OnDisk' = OnDisk
    BY <1>2 DEF Crash, stable, InOp, OnDisk
  <2>2. Atomic!Crash
    BY <2>1 DEF Atomic!Crash
  <2> QED BY <2>2 DEF Atomic!Next
<1>3. CASE Recovery
  BY <1>3, RecoveryImplements
<1>4. ASSUME NEW t \in Thread,
             begin_op(t) \/ log_writeChecks(t) \/ log_write(t) \/ end_op(t)
      PROVE  Atomic!Next \/ UNCHANGED Atomic!vars
  BY <1>4, CallImplements DEF Atomic!Next
<1>5. ASSUME NEW t \in Thread, CommitStep(t)
      PROVE  Atomic!Next \/ UNCHANGED Atomic!vars
  BY <1>5, CommitImplements DEF Atomic!Next
<1>6. ASSUME NEW t \in Thread, NEW b \in Block, NEW v \in Value, modify(t, b, v)
      PROVE  Atomic!Next \/ UNCHANGED Atomic!vars
  BY <1>6, ModifyImplements DEF Atomic!Next
<1> QED BY <1>1, <1>2, <1>3, <1>4, <1>5, <1>6 DEF Next

\* The log implements AtomicDisk for any number of threads, blocks and log
\* entries: wherever the machine stops, in a commit, during recovery or between,
\* the next boot finds the writes of whole groups of system calls.
THEOREM LogIsAtomic == Spec => ImplementsAtomicDisk
<1> QED BY InitLInv, LInvInductive, InitImplements, StepImplements, PTL
        DEF Spec, ImplementsAtomicDisk, Atomic!Spec
=============================================================================
