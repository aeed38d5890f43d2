----------------------------- MODULE PipeProofs -----------------------------
(***************************************************************************)
(* Nobody sleeps on a pipe without a reason, the page of a pipe is not     *)
(* used after it is freed, and bytes pass through in order, for any set of *)
(* processes, any size of the ring and any width of the counters.          *)
(***************************************************************************)
EXTENDS Pipe, WellFoundedInduction, TLAPS

\* Time enough for every leaf, whatever else the machine does.
USE SMTT(15), ZenonT(20)

Reading == {"read", "read_sleep"}
Writing == {"write", "write_sleep"}

Types ==
  /\ lock \in Process \cup {Nobody}
  /\ nread \in 0 .. UintMod - 1 /\ nwrite \in 0 .. UintMod - 1 /\ Stored <= PIPESIZE
  /\ readopen \in BOOLEAN /\ writeopen \in BOOLEAN /\ allocated \in BOOLEAN
  /\ fds \in [Process -> SUBSET End] /\ pc \in [Process -> Label]
  /\ n \in [Process -> 0 .. MaxCount] /\ chan \in [Process -> {"none", "nread", "nwrite"}]
  /\ killed \in [Process -> BOOLEAN]

\* A process is in a call only on an end that it has open, and asleep only in one.
CallInv ==
  \A p \in Process :
    /\ lock = p <=> pc[p] \in {"read_sleep", "write_sleep"}
    /\ pc[p] \in Reading => "r" \in fds[p]
    /\ pc[p] \in Writing => "w" \in fds[p] /\ n[p] > 0
    /\ pc[p] = "unborn" => fds[p] = {}
    /\ chan[p] = "nread" => pc[p] = "read"
    /\ chan[p] = "nwrite" => pc[p] = "write"

\* An end is open as long as someone has it or is closing it; its last holder
\* closes it alone.  The page is there as long as one end is open.
Closing(e) == IF e = "r" THEN "close_r" ELSE "close_w"
Open(e) == IF e = "r" THEN readopen ELSE writeopen
EndInv ==
  /\ \A e \in End : \A p \in Process :
       /\ e \in fds[p] => Open(e)
       /\ pc[p] = Closing(e) =>
            Open(e) /\ \A q \in Process : e \notin fds[q] /\ (pc[q] = Closing(e) => q = p)
  /\ allocated <=> readopen \/ writeopen

\* Whoever is about to sleep still has the reason: it keeps p->lock until then.
DozeInv ==
  \A p \in Process :
    /\ pc[p] = "read_sleep" => Stored = 0 /\ writeopen
    /\ pc[p] = "write_sleep" => Stored = PIPESIZE /\ readopen

PInv == Types /\ CallInv /\ EndInv /\ DozeInv /\ SleepersHaveReason
-----------------------------------------------------------------------------
LEMMA MinOfTwo ==
  ASSUME NEW a \in Nat, NEW b \in Nat
  PROVE  Min({a, b}) = IF a <= b THEN a ELSE b
<1> DEFINE m == IF a <= b THEN a ELSE b
<1>1. m \in {a, b} /\ (\A y \in {a, b} : m <= y)
  OBVIOUS
<1>2. \A x \in {a, b} : (\A y \in {a, b} : x <= y) => x = m
  OBVIOUS
<1> QED BY <1>1, <1>2 DEF Min

\* The number of bytes stored, without the modulus.
LEMMA StoredCases ==
  ASSUME NEW r \in 0 .. UintMod - 1, NEW w \in 0 .. UintMod - 1
  PROVE  (w + UintMod - r) % UintMod = IF w >= r THEN w - r ELSE w - r + UintMod
  BY PipeAssumption

LEMMA WrapCases ==
  ASSUME NEW i \in 0 .. UintMod - 1, NEW k \in 0 .. PIPESIZE
  PROVE  /\ Wrap(i + k) \in 0 .. UintMod - 1
         /\ Wrap(i + k) = IF i + k < UintMod THEN i + k ELSE i + k - UintMod
  BY PipeAssumption DEF Wrap

\* Storing k bytes that fit adds k; taking k bytes that are there takes k away.
LEMMA StoreAdds ==
  ASSUME Types, NEW k \in 0 .. PIPESIZE - Stored, nwrite' = Wrap(nwrite + k), nread' = nread
  PROVE  nwrite' \in 0 .. UintMod - 1 /\ Stored' = Stored + k
<1>1. Stored = IF nwrite >= nread THEN nwrite - nread ELSE nwrite - nread + UintMod
  BY StoredCases DEF Types, Stored
<1>2. Stored \in Nat /\ k \in 0 .. PIPESIZE
  BY <1>1, PipeAssumption DEF Types
<1>3. /\ nwrite' \in 0 .. UintMod - 1
      /\ nwrite' = IF nwrite + k < UintMod THEN nwrite + k ELSE nwrite + k - UintMod
  BY <1>2, WrapCases DEF Types
<1>4. Stored' = IF nwrite' >= nread THEN nwrite' - nread ELSE nwrite' - nread + UintMod
  BY <1>3, StoredCases DEF Types, Stored
<1> QED BY <1>1, <1>2, <1>3, <1>4, PipeAssumption DEF Types

LEMMA ReadTakes ==
  ASSUME Types, NEW k \in 0 .. Stored, nread' = Wrap(nread + k), nwrite' = nwrite
  PROVE  nread' \in 0 .. UintMod - 1 /\ Stored' = Stored - k
<1>1. Stored = IF nwrite >= nread THEN nwrite - nread ELSE nwrite - nread + UintMod
  BY StoredCases DEF Types, Stored
<1>2. Stored \in Nat /\ k \in 0 .. PIPESIZE
  BY <1>1, PipeAssumption DEF Types
<1>3. /\ nread' \in 0 .. UintMod - 1
      /\ nread' = IF nread + k < UintMod THEN nread + k ELSE nread + k - UintMod
  BY <1>2, WrapCases DEF Types
<1>4. Stored' = IF nwrite >= nread' THEN nwrite - nread' ELSE nwrite - nread' + UintMod
  BY <1>3, StoredCases DEF Types, Stored
<1> QED BY <1>1, <1>2, <1>3, <1>4, PipeAssumption DEF Types
-----------------------------------------------------------------------------
LEMMA InitPInv == Init => PInv
<1> SUFFICES ASSUME Init PROVE PInv
  OBVIOUS
<1> USE PipeAssumption DEF Init
<1>1. Stored = 0
  BY StoredCases DEF Stored
<1>2. Types
  BY <1>1 DEF Types, Nobody, Label, End
<1>3. CallInv /\ EndInv /\ DozeInv
  BY DEF CallInv, EndInv, DozeInv, Reading, Writing, Nobody, End, Closing, Open
<1>4. SleepersHaveReason
  BY DEF SleepersHaveReason
<1> QED BY <1>2, <1>3, <1>4 DEF PInv

\* Steps that leave the ring and the ends alone: entering a call, and kill.
LEMMA EnterKeeps ==
  ASSUME PInv, NEW p \in Process, fileread(p) \/ filewrite(p) \/ kill(p)
  PROVE  PInv'
<1> USE PipeAssumption DEF PInv
<1>1. Stored' = Stored
  BY DEF fileread, filewrite, kill, ring, Stored
<1>2. CASE fileread(p)
  <2>1. Types'
    BY <1>1, <1>2 DEF Types, fileread, Goto, ring, ends, Label
  <2>2. CallInv' /\ DozeInv'
    BY <1>1, <1>2 DEF CallInv, DozeInv, Types, fileread, Goto, ring, ends, Reading, Writing, Nobody
  <2>3. EndInv'
    BY <1>2 DEF EndInv, Types, fileread, Goto, ends, Closing, Open, End
  <2>4. SleepersHaveReason'
    BY <1>1, <1>2 DEF SleepersHaveReason, fileread, ends
  <2> QED BY <2>1, <2>2, <2>3, <2>4
<1>3. CASE filewrite(p)
  <2>1. Types'
    BY <1>1, <1>3 DEF Types, filewrite, Goto, ring, ends, Label
  <2>2. CallInv' /\ DozeInv'
    BY <1>1, <1>3 DEF CallInv, DozeInv, Types, filewrite, Goto, ring, ends, Reading, Writing, Nobody
  <2>3. EndInv'
    BY <1>3 DEF EndInv, Types, filewrite, Goto, ends, Closing, Open, End
  <2>4. SleepersHaveReason'
    BY <1>1, <1>3 DEF SleepersHaveReason, filewrite, ends
  <2> QED BY <2>1, <2>2, <2>3, <2>4
<1>4. CASE kill(p)
  <2>1. Types' /\ CallInv' /\ DozeInv'
    BY <1>1, <1>4 DEF Types, CallInv, DozeInv, kill, ring, ends
  <2>2. EndInv'
    BY <1>4 DEF EndInv, kill, ends, Open
  <2>3. SleepersHaveReason'
    BY <1>1, <1>4 DEF SleepersHaveReason, Types, kill, ends
  <2> QED BY <2>1, <2>2, <2>3
<1> QED BY <1>2, <1>3, <1>4

\* Going to sleep: the reason is still there, because p->lock was kept.
LEMMA SleepKeeps ==
  ASSUME PInv, NEW p \in Process, sleep(p)
  PROVE  PInv'
<1> USE PipeAssumption DEF PInv
<1>1. Stored' = Stored
  BY DEF sleep, ring, Stored
<1>2. Types'
  BY <1>1 DEF Types, sleep, Goto, ring, ends, Label
<1>3. CallInv' /\ DozeInv'
  BY <1>1 DEF CallInv, DozeInv, Types, sleep, Goto, ring, ends, Reading, Writing, Nobody
<1>4. EndInv'
  BY DEF EndInv, Types, sleep, Goto, ends, Closing, Open, End
<1>5. SleepersHaveReason'
  BY <1>1 DEF SleepersHaveReason, DozeInv, Types, sleep, ends
<1> QED BY <1>2, <1>3, <1>4, <1>5

\* Storing bytes: a writer that sleeps has filled the pipe, and readers are woken
\* unless the writer gives up.
LEMMA WriteKeeps ==
  ASSUME PInv, NEW p \in Process, pipewrite(p)
  PROVE  PInv'
<1> USE PipeAssumption DEF PInv
<1>1. Stored \in Nat /\ Stored <= PIPESIZE
  BY StoredCases DEF Types, Stored
<1>2. PICK k : k = Min({n[p], PIPESIZE - Stored})
  OBVIOUS
<1>3. /\ k = IF n[p] <= PIPESIZE - Stored THEN n[p] ELSE PIPESIZE - Stored
      /\ k \in 0 .. PIPESIZE - Stored /\ n[p] \in Nat
  BY <1>1, <1>2, MinOfTwo DEF Types
<1>4. /\ pc[p] = "write" /\ chan[p] = "none" /\ lock = Nobody
      /\ nwrite' = Wrap(nwrite + k) /\ nread' = nread
      /\ UNCHANGED <<readopen, writeopen, allocated, fds, killed>>
      /\ \/ k = n[p] /\ Return(p) /\ chan' = Woken("nread")
         \/ k < n[p] /\ (~readopen \/ killed[p]) /\ Return(p) /\ UNCHANGED chan
         \/ /\ k < n[p] /\ readopen /\ ~killed[p]
            /\ Goto(p, "write_sleep") /\ lock' = p /\ chan' = Woken("nread")
            /\ n' = [n EXCEPT ![p] = @ - k]
  BY <1>2 DEF pipewrite, pipewriteAs, Ready, Store, ends
<1>5. nwrite' \in 0 .. UintMod - 1 /\ Stored' = Stored + k
  BY <1>3, <1>4, StoreAdds
<1>6. n[p] > 0
  BY <1>4 DEF CallInv, Writing
<1>7. Types'
  BY <1>1, <1>3, <1>4, <1>5 DEF Types, Return, Goto, Woken, Label
<1>8. CallInv'
  BY <1>3, <1>4 DEF CallInv, Types, Return, Goto, Woken, Reading, Writing, Nobody
<1>9. EndInv'
  BY <1>4 DEF EndInv, Types, Return, Goto, Closing, Open, End
<1>10. DozeInv'
  BY <1>1, <1>3, <1>4, <1>5 DEF DozeInv, CallInv, Types, Return, Goto, Nobody
\* A writer asleep means a full pipe, to which nothing is added.
<1>11. \A q \in Process : chan'[q] = "nwrite" => Stored' = PIPESIZE /\ readopen'
  BY <1>1, <1>3, <1>4, <1>5, <1>6 DEF SleepersHaveReason, Woken, Types
<1>12. ASSUME \A q \in Process : ~killed'[q], NEW q \in Process, chan'[q] = "nread"
       PROVE  FALSE
  <2>1. ~readopen /\ chan[q] = "nread"
    BY <1>4, <1>12 DEF Woken, Types
  <2> QED BY <2>1 DEF CallInv, EndInv, Reading, Open, End
<1>13. SleepersHaveReason'
  BY <1>11, <1>12 DEF SleepersHaveReason
<1> QED BY <1>7, <1>8, <1>9, <1>10, <1>13

\* Taking bytes: a reader goes to sleep on an empty pipe, or wakes the writers.
LEMMA ReadKeeps ==
  ASSUME PInv, NEW p \in Process, piperead(p)
  PROVE  PInv'
<1> USE PipeAssumption DEF PInv
<1>1. Stored \in Nat /\ Stored <= PIPESIZE
  BY StoredCases DEF Types, Stored
<1>2. /\ pc[p] = "read" /\ chan[p] = "none" /\ lock = Nobody /\ nwrite' = nwrite
      /\ UNCHANGED <<readopen, writeopen, allocated, fds, killed>>
  BY DEF piperead, pipereadAs, Ready, ends
<1>3. CASE /\ Stored = 0 /\ writeopen /\ UNCHANGED <<nread, chan>>
           /\ \/ Return(p)
              \/ Goto(p, "read_sleep") /\ lock' = p /\ UNCHANGED n
  <2>1. Stored' = Stored
    BY <1>2, <1>3 DEF Stored
  <2>2. Types'
    BY <1>2, <1>3, <2>1 DEF Types, Return, Goto, Label
  <2>3. CallInv' /\ DozeInv'
    BY <1>2, <1>3, <2>1 DEF CallInv, DozeInv, Types, Return, Goto, Reading, Writing, Nobody
  <2>4. EndInv'
    BY <1>2, <1>3 DEF EndInv, Types, Return, Goto, Closing, Open, End
  <2>5. SleepersHaveReason'
    BY <1>2, <1>3, <2>1 DEF SleepersHaveReason
  <2> QED BY <2>2, <2>3, <2>4, <2>5
<1>4. CASE /\ Stored > 0 \/ ~writeopen
           /\ nread' = Wrap(nread + Min({n[p], Stored}))
           /\ Return(p) /\ chan' = Woken("nwrite")
  <2>1. PICK k : k = Min({n[p], Stored})
    OBVIOUS
  <2>2. k \in 0 .. Stored
    BY <1>1, <2>1, MinOfTwo DEF Types
  <2>3. nread' \in 0 .. UintMod - 1 /\ Stored' = Stored - k
    BY <1>2, <1>4, <2>1, <2>2, ReadTakes
  <2>4. Types'
    BY <1>1, <1>2, <1>4, <2>2, <2>3 DEF Types, Return, Goto, Woken, Label
  <2>5. CallInv'
    BY <1>2, <1>4 DEF CallInv, Types, Return, Goto, Woken, Reading, Writing, Nobody
  <2>6. EndInv'
    BY <1>2, <1>4 DEF EndInv, Types, Return, Goto, Closing, Open, End
  <2>7. DozeInv'
    BY <1>2, <1>4 DEF DozeInv, CallInv, Types, Return, Goto, Nobody
  <2>8. SleepersHaveReason'
    BY <1>1, <1>2, <1>4, <2>2, <2>3 DEF SleepersHaveReason, Woken, Types
  <2> QED BY <2>4, <2>5, <2>6, <2>7, <2>8
<1> QED BY <1>3, <1>4 DEF piperead, pipereadAs

\* The ends: fork copies them, the last close of an end wakes the other side.
LEMMA ForkKeeps ==
  ASSUME PInv, NEW p \in Process, NEW q \in Process, fork(p, q)
  PROVE  PInv'
<1> USE PipeAssumption DEF PInv
<1>1. Stored' = Stored
  BY DEF fork, ring, Stored
<1>2. Types'
  BY <1>1 DEF Types, fork, Goto, ring, Label
<1>3. CallInv' /\ DozeInv'
  BY <1>1 DEF CallInv, DozeInv, Types, fork, Goto, ring, Reading, Writing, Nobody
<1>4. EndInv'
  BY DEF EndInv, Types, fork, Goto, Closing, Open, End
<1>5. SleepersHaveReason'
  BY <1>1 DEF SleepersHaveReason, fork
<1> QED BY <1>2, <1>3, <1>4, <1>5

LEMMA FilecloseKeeps ==
  ASSUME PInv, NEW p \in Process, NEW e \in End, fileclose(p, e)
  PROVE  PInv'
<1> USE PipeAssumption DEF PInv
<1>1. Stored' = Stored
  BY DEF fileclose, ring, Stored
<1>2. Types'
  BY <1>1 DEF Types, fileclose, Goto, ring, Label
<1>3. CallInv' /\ DozeInv'
  BY <1>1 DEF CallInv, DozeInv, Types, fileclose, Goto, ring, Reading, Writing, Nobody
<1>4. EndInv'
  BY DEF EndInv, Types, fileclose, Goto, Closing, Open, End
<1>5. SleepersHaveReason'
  BY <1>1 DEF SleepersHaveReason, fileclose
<1> QED BY <1>2, <1>3, <1>4, <1>5

LEMMA PipecloseKeeps ==
  ASSUME PInv, NEW p \in Process, pipeclose(p)
  PROVE  PInv'
<1> USE PipeAssumption DEF PInv
<1>1. Stored' = Stored
  BY DEF pipeclose, pipecloseAs, ring, Stored
<1>2. Types'
  BY <1>1 DEF Types, pipeclose, pipecloseAs, Goto, Woken, ring, Label
<1>3. CallInv' /\ DozeInv'
  BY <1>1 DEF CallInv, DozeInv, Types, pipeclose, pipecloseAs, Goto, Woken, ring, Reading,
              Writing, Nobody
<1>4. EndInv'
  BY DEF EndInv, Types, pipeclose, pipecloseAs, Goto, Closing, Open, End
<1>5. SleepersHaveReason'
  BY <1>1 DEF SleepersHaveReason, Types, pipeclose, pipecloseAs, Woken
<1> QED BY <1>2, <1>3, <1>4, <1>5
-----------------------------------------------------------------------------
LEMMA PInvInductive == Spec => []PInv
<1>1. ASSUME PInv, [Next]_vars PROVE PInv'
  <2>1. CASE Next
    BY <1>1, <2>1, EnterKeeps, SleepKeeps, WriteKeeps, ReadKeeps, ForkKeeps, FilecloseKeeps,
       PipecloseKeeps DEF Next, inside
  <2>2. CASE UNCHANGED vars
    BY <1>1, <2>2 DEF vars, ring, ends, PInv, Types, CallInv, EndInv, DozeInv,
                      SleepersHaveReason, Stored, Open
  <2> QED BY <1>1, <2>1, <2>2
<1> QED BY <1>1, InitPInv, PTL DEF Spec

\* For every number of processes and every size of the pipe: pipewrite sleeps only on
\* a full pipe with a reader, and piperead, as long as nobody is killed, only on an
\* empty one with a writer; no wakeup is missed.
THEOREM SleepersCorrect == Spec => []SleepersHaveReason
<1>1. PInv => SleepersHaveReason
  BY DEF PInv
<1> QED BY <1>1, PInvInductive, PTL

\* For every number of processes: pipeclose frees the page only when nobody has an
\* end of the pipe, is in a call on it, or is closing it.
THEOREM FreeCorrect == Spec => []NoUseAfterFree
<1>1. PInv => NoUseAfterFree
  BY DEF PInv, Types, CallInv, EndInv, NoUseAfterFree, Reading, Writing, Closing, Open, End,
         Label
<1> QED BY <1>1, PInvInductive, PTL
-----------------------------------------------------------------------------
(* The bytes in the ring.                                                  *)

\* Two places less than a lap apart are different slots of the ring.
LEMMA LapDistinct ==
  ASSUME NEW a \in Nat, NEW d \in 1 .. PIPESIZE - 1
  PROVE  (a + d) % PIPESIZE # a % PIPESIZE
<1> DEFINE q == a \div PIPESIZE  r == a % PIPESIZE
           s == (a + d) \div PIPESIZE  u == (a + d) % PIPESIZE
<1>1. q \in Int /\ s \in Int /\ a = PIPESIZE * q + r /\ a + d = PIPESIZE * s + u
  BY PipeAssumption
<1>2. SUFFICES ASSUME r = u PROVE FALSE
  OBVIOUS
<1>3. d = PIPESIZE * (s - q)
  BY <1>1, <1>2, PipeAssumption
<1>4. CASE s - q <= 0
  BY <1>1, <1>3, <1>4, PipeAssumption
<1>5. CASE s - q >= 1
  BY <1>1, <1>3, <1>5, PipeAssumption
<1> QED BY <1>1, <1>4, <1>5

\* The counters wrap after a whole number of laps, so a byte keeps its slot.
LEMMA SlotShift ==
  ASSUME NEW a \in Nat
  PROVE  (a + UintMod) % PIPESIZE = a % PIPESIZE
<1> DEFINE k == UintMod \div PIPESIZE
           q == a \div PIPESIZE  r == a % PIPESIZE
           s == (a + UintMod) \div PIPESIZE  u == (a + UintMod) % PIPESIZE
<1>1. k \in Int /\ UintMod = PIPESIZE * k
  BY PipeAssumption
<1>2. q \in Int /\ a = PIPESIZE * q + r /\ r \in 0 .. PIPESIZE - 1
  BY PipeAssumption
<1>3. s \in Int /\ a + UintMod = PIPESIZE * s + u /\ u \in 0 .. PIPESIZE - 1
  BY PipeAssumption
<1> HIDE DEF k, q, r, s, u
<1> DEFINE x == q + k - s
<1>4. x \in Int /\ u - r = PIPESIZE * x
  BY <1>1, <1>2, <1>3, PipeAssumption
<1> HIDE DEF x
<1>5. CASE x <= -1
  <2>1. PIPESIZE * x <= PIPESIZE * (-1)
    BY <1>4, <1>5, PipeAssumption
  <2> QED BY <1>2, <1>3, <1>4, <2>1, PipeAssumption
<1>6. CASE x >= 1
  <2>1. PIPESIZE * x >= PIPESIZE
    BY <1>4, <1>6, PipeAssumption
  <2> QED BY <1>2, <1>3, <1>4, <2>1, PipeAssumption
<1>7. CASE x = 0
  BY <1>2, <1>3, <1>4, <1>7, PipeAssumption DEF u, r
<1> QED BY <1>2, <1>3, <1>4, <1>5, <1>6, <1>7, PipeAssumption DEF u, r

LEMMA SlotOfWrap ==
  ASSUME NEW a \in 0 .. 2 * UintMod - 1
  PROVE  /\ Wrap(a) % PIPESIZE = a % PIPESIZE
         /\ a % PIPESIZE \in 0 .. PIPESIZE - 1
<1>1. a % PIPESIZE \in 0 .. PIPESIZE - 1
  BY PipeAssumption
<1>2. CASE a < UintMod
  BY <1>1, <1>2, PipeAssumption DEF Wrap
<1>3. CASE a >= UintMod
  <2>1. a - UintMod \in Nat /\ Wrap(a) = a - UintMod
    BY <1>3, PipeAssumption DEF Wrap
  <2>2. ((a - UintMod) + UintMod) % PIPESIZE = (a - UintMod) % PIPESIZE
    BY <2>1, SlotShift
  <2>3. (a - UintMod) + UintMod = a
    BY PipeAssumption
  <2> QED BY <1>1, <2>1, <2>2, <2>3
<1> QED BY <1>2, <1>3, PipeAssumption

\* The largest element of a set of places.
LEMMA MaxOfPlaces ==
  ASSUME NEW b \in Nat, NEW S \in SUBSET (0 .. b), S # {}
  PROVE  Max(S) \in S /\ \A y \in S : Max(S) >= y
<1> DEFINE D == {b - y : y \in S}
<1>1. D \in SUBSET Nat /\ D # {}
  <2>1. \A y \in S : b - y \in Nat
    OBVIOUS
  <2>2. PICK y : y \in S
    OBVIOUS
  <2>3. b - y \in D
    BY <2>2
  <2> QED BY <2>1, <2>3
<1>2. PICK d \in D : \A e \in D : ~(<<e, d>> \in OpToRel(<, Nat))
  BY <1>1, NatLessThanWellFounded, WFMin
<1>3. \A e \in D : ~(e < d)
  BY <1>1, <1>2 DEF OpToRel
<1>4. PICK x \in S : d = b - x
  BY <1>2
<1>5. ASSUME NEW y \in S PROVE x >= y
  <2>1. ~(b - y < b - x)
    BY <1>3, <1>4
  <2> QED BY <2>1
<1> QED BY <1>5 DEF Max

\* The slot of place j of what the ring holds and the byte there, and the invariant
\* about these bytes.
Place(j) == Wrap(nread + j - 1) % PIPESIZE
At(j) == data[Place(j)]
RingTypes ==
  /\ data \in [0 .. PIPESIZE - 1 -> Byte]
  /\ sent \in [Process -> Nat] /\ seen \in [Process -> Nat]
InStream ==
  /\ \A w \in Process : seen[w] <= sent[w]
  /\ \A j \in 1 .. Stored : At(j)[2] \in seen[At(j)[1]] + 1 .. sent[At(j)[1]]
InOrder == \A i, j \in 1 .. Stored : i < j /\ At(i)[1] = At(j)[1] => At(i)[2] < At(j)[2]
NoneLost ==
  \A w \in Process : \A k \in seen[w] + 1 .. sent[w] : \E j \in 1 .. Stored : At(j) = <<w, k>>
RInv == RingTypes /\ InStream /\ InOrder /\ NoneLost
-----------------------------------------------------------------------------
\* The slots of the next PIPESIZE places are all different.
LEMMA PlacesDiffer ==
  ASSUME Types, NEW i \in 1 .. PIPESIZE, NEW j \in 1 .. PIPESIZE, i < j
  PROVE  Place(i) # Place(j)
<1>1. nread + i - 1 \in 0 .. 2 * UintMod - 1 /\ nread + j - 1 \in 0 .. 2 * UintMod - 1
  BY PipeAssumption DEF Types
<1>2. Place(i) = (nread + i - 1) % PIPESIZE /\ Place(j) = (nread + j - 1) % PIPESIZE
  BY <1>1, SlotOfWrap DEF Place
<1>3. nread + i - 1 \in Nat /\ j - i \in 1 .. PIPESIZE - 1
  BY <1>1, PipeAssumption
<1>4. ((nread + i - 1) + (j - i)) % PIPESIZE # (nread + i - 1) % PIPESIZE
  BY <1>3, LapDistinct
<1>5. (nread + i - 1) + (j - i) = nread + j - 1
  BY PipeAssumption DEF Types
<1> QED BY <1>2, <1>4, <1>5

LEMMA PlaceInRing ==
  ASSUME Types, NEW j \in 1 .. PIPESIZE
  PROVE  Place(j) \in 0 .. PIPESIZE - 1
<1>1. nread + j - 1 \in 0 .. 2 * UintMod - 1
  BY PipeAssumption DEF Types
<1> QED BY <1>1, SlotOfWrap DEF Place

\* pipewrite goes on where the bytes in the ring end.
LEMMA PlaceToStore ==
  ASSUME Types, NEW m \in 0 .. PIPESIZE - 1 - Stored
  PROVE  Wrap(nwrite + m) % PIPESIZE = Place(Stored + 1 + m)
<1>1. Stored = IF nwrite >= nread THEN nwrite - nread ELSE nwrite - nread + UintMod
  BY StoredCases DEF Types, Stored
<1>2. Stored \in Nat
  BY <1>1, PipeAssumption DEF Types
<1>3. nwrite + m \in 0 .. 2 * UintMod - 1 /\ nread + (Stored + m) \in 0 .. 2 * UintMod - 1
  BY <1>1, <1>2, PipeAssumption DEF Types
<1>4. /\ Wrap(nwrite + m) % PIPESIZE = (nwrite + m) % PIPESIZE
      /\ Wrap(nread + (Stored + m)) % PIPESIZE = (nread + (Stored + m)) % PIPESIZE
  BY <1>3, SlotOfWrap
<1>5. nread + (Stored + 1 + m) - 1 = nread + (Stored + m)
  BY <1>2, PipeAssumption DEF Types
<1>6. nread + (Stored + m) = nwrite + m \/ nread + (Stored + m) = (nwrite + m) + UintMod
  BY <1>1, PipeAssumption DEF Types
<1>7. (nread + (Stored + m)) % PIPESIZE = (nwrite + m) % PIPESIZE
  BY <1>3, <1>6, SlotShift
<1> QED BY <1>4, <1>5, <1>7 DEF Place

\* piperead shifts the places.
LEMMA PlaceAfterRead ==
  ASSUME Types, NEW k \in 0 .. Stored, nread' = Wrap(nread + k), NEW j \in 1 .. Stored - k
  PROVE  Place(j)' = Place(j + k)
<1>1. Stored \in Nat /\ k \in 0 .. PIPESIZE
  BY StoredCases, PipeAssumption DEF Types, Stored
<1>2. /\ nread' \in 0 .. UintMod - 1
      /\ nread' = IF nread + k < UintMod THEN nread + k ELSE nread + k - UintMod
  BY <1>1, WrapCases DEF Types
<1>3. nread' + j - 1 \in 0 .. 2 * UintMod - 1 /\ nread + (j + k) - 1 \in 0 .. 2 * UintMod - 1
  BY <1>1, <1>2, PipeAssumption DEF Types
<1>4. /\ Wrap(nread' + j - 1) % PIPESIZE = (nread' + j - 1) % PIPESIZE
      /\ Wrap(nread + (j + k) - 1) % PIPESIZE = (nread + (j + k) - 1) % PIPESIZE
  BY <1>3, SlotOfWrap
<1>5. \/ nread + (j + k) - 1 = nread' + j - 1
      \/ nread + (j + k) - 1 = (nread' + j - 1) + UintMod
  BY <1>2, PipeAssumption DEF Types
<1>6. (nread + (j + k) - 1) % PIPESIZE = (nread' + j - 1) % PIPESIZE
  BY <1>3, <1>5, SlotShift
<1> QED BY <1>4, <1>6 DEF Place
-----------------------------------------------------------------------------
\* Storing k bytes that fit leaves the ones in the ring and adds the next k of p.
LEMMA StoredBytes ==
  ASSUME Types, RingTypes, NEW p \in Process, NEW k \in 0 .. PIPESIZE - Stored, Store(p, k)
  PROVE  /\ Stored' = Stored + k /\ RingTypes'
         /\ \A j \in 1 .. Stored : At(j)' = At(j)
         /\ \A j \in Stored + 1 .. Stored + k : At(j)' = <<p, sent[p] + (j - Stored)>>
<1> USE PipeAssumption
<1>1. Stored' = Stored + k /\ nread' = nread
  BY StoreAdds DEF Store
<1>2. Stored \in Nat /\ Stored <= PIPESIZE
  BY StoredCases DEF Types, Stored
<1>3. \A j : Place(j)' = Place(j)
  BY <1>1 DEF Place
<1> DEFINE at(i) == {j \in 0 .. k - 1 : Wrap(nwrite + j) % PIPESIZE = i}
<1>4. /\ DOMAIN data' = 0 .. PIPESIZE - 1
      /\ \A i \in 0 .. PIPESIZE - 1 :
           data'[i] = IF at(i) = {} THEN data[i] ELSE <<p, sent[p] + 1 + Max(at(i))>>
      /\ data' = [i \in 0 .. PIPESIZE - 1 |-> data'[i]]
  BY DEF Store, RingTypes
<1>5. \A m \in 0 .. k - 1 : Wrap(nwrite + m) % PIPESIZE = Place(Stored + 1 + m)
  BY <1>2, PlaceToStore
<1>6. ASSUME NEW j \in 1 .. Stored PROVE At(j)' = At(j)
  <2>1. Place(j) \in 0 .. PIPESIZE - 1
    BY <1>2, PlaceInRing
  <2>2. ASSUME NEW m \in 0 .. k - 1 PROVE m \notin at(Place(j))
    <3>1. j \in 1 .. PIPESIZE /\ Stored + 1 + m \in 1 .. PIPESIZE /\ j < Stored + 1 + m
      BY <1>2
    <3>2. Place(j) # Place(Stored + 1 + m)
      BY <3>1, PlacesDiffer
    <3> QED BY <1>5, <3>2
  <2>3. at(Place(j)) = {}
    BY <2>2
  <2> HIDE DEF at
  <2> QED BY <1>3, <1>4, <2>1, <2>3 DEF At
<1>7. ASSUME NEW j \in Stored + 1 .. Stored + k
      PROVE  At(j)' = <<p, sent[p] + (j - Stored)>>
  <2>1. PICK m \in 0 .. k - 1 : m = j - Stored - 1 /\ j = Stored + 1 + m /\ j \in 1 .. PIPESIZE
    BY <1>2
  <2>2. Place(j) \in 0 .. PIPESIZE - 1
    BY <2>1, PlaceInRing
  <2>3. ASSUME NEW l \in 0 .. k - 1, l # m PROVE l \notin at(Place(j))
    <3>1. Stored + 1 + l \in 1 .. PIPESIZE
      BY <1>2
    <3>2. Stored + 1 + l < j \/ j < Stored + 1 + l
      BY <1>2, <2>1, <2>3
    <3>3. Place(Stored + 1 + l) # Place(j)
      BY <2>1, <3>1, <3>2, PlacesDiffer
    <3> QED BY <1>5, <3>3
  <2>4. at(Place(j)) = {m}
    BY <1>5, <2>1, <2>3
  <2>5. Max({m}) = m
    BY DEF Max
  <2> HIDE DEF at
  <2>6. data'[Place(j)] = <<p, sent[p] + 1 + m>>
    BY <1>4, <2>2, <2>4, <2>5
  <2>7. sent[p] + 1 + m = sent[p] + (j - Stored)
    BY <1>2, <2>1 DEF RingTypes
  <2> QED BY <1>3, <2>6, <2>7 DEF At
<1>8. RingTypes'
  <2>1. ASSUME NEW i \in 0 .. PIPESIZE - 1 PROVE data'[i] \in Byte
    <3>1. CASE at(i) = {}
      BY <1>4, <3>1 DEF RingTypes
    <3>2. CASE at(i) # {}
      <4>1. at(i) \in SUBSET (0 .. PIPESIZE) /\ PIPESIZE \in Nat
        BY <1>2
      <4> HIDE DEF at
      <4>2. Max(at(i)) \in at(i)
        BY <3>2, <4>1, MaxOfPlaces
      <4>3. sent[p] + 1 + Max(at(i)) \in Nat
        BY <4>1, <4>2 DEF RingTypes
      <4>4. data'[i] = <<p, sent[p] + 1 + Max(at(i))>>
        BY <1>4, <3>2
      <4> QED BY <4>3, <4>4 DEF Byte
    <3> QED BY <3>1, <3>2
  <2>2. data' \in [0 .. PIPESIZE - 1 -> Byte]
    BY <1>4, <2>1
  <2>3. sent' \in [Process -> Nat] /\ seen' \in [Process -> Nat]
    BY <1>2 DEF Store, RingTypes
  <2> QED BY <2>2, <2>3 DEF RingTypes
<1> QED BY <1>1, <1>6, <1>7, <1>8
LEMMA BytesInRing ==
  ASSUME Types, RingTypes, NEW j \in 1 .. Stored
  PROVE  At(j) \in Byte /\ At(j)[1] \in Process /\ At(j)[2] \in Nat
<1>1. j \in 1 .. PIPESIZE
  BY StoredCases, PipeAssumption DEF Types, Stored
<1>2. At(j) \in Byte
  BY <1>1, PlaceInRing DEF At, RingTypes
<1> QED BY <1>2 DEF Byte

LEMMA WriteKeepsRing ==
  ASSUME PInv, RInv, NEW p \in Process, pipewrite(p)
  PROVE  RInv'
<1> USE PipeAssumption DEF PInv, RInv
<1>1. Stored \in Nat /\ Stored <= PIPESIZE
  BY StoredCases DEF Types, Stored
<1>2. PICK k : k = Min({n[p], PIPESIZE - Stored})
  OBVIOUS
<1>3. k \in 0 .. PIPESIZE - Stored
  BY <1>1, <1>2, MinOfTwo DEF Types
<1>4. Store(p, k)
  BY <1>2 DEF pipewrite, pipewriteAs
<1>5. /\ Stored' = Stored + k /\ RingTypes'
      /\ \A j \in 1 .. Stored : At(j)' = At(j)
      /\ \A j \in Stored + 1 .. Stored + k : At(j)' = <<p, sent[p] + (j - Stored)>>
  BY <1>3, <1>4, StoredBytes
<1>6. /\ seen' = seen /\ sent'[p] = sent[p] + k
      /\ \A w \in Process \ {p} : sent'[w] = sent[w]
      /\ \A w \in Process : sent[w] \in Nat /\ seen[w] \in Nat
  BY <1>4 DEF Store, RingTypes
<1>7. \A j \in 1 .. Stored : At(j) \in Byte /\ At(j)[1] \in Process /\ At(j)[2] \in Nat
  BY BytesInRing
<1>8. \A j \in 1 .. Stored' : j \in 1 .. Stored \/ j \in Stored + 1 .. Stored + k
  BY <1>1, <1>3, <1>5
<1>9. \A j \in Stored + 1 .. Stored + k :
        At(j)'[1] = p /\ At(j)'[2] = sent[p] + (j - Stored)
  BY <1>5
<1>10. \A w \in Process : sent[w] <= sent'[w] /\ seen[w] <= sent[w]
  BY <1>3, <1>6 DEF InStream
<1>11. InStream'
  <2>1. ASSUME NEW j \in 1 .. Stored
        PROVE  At(j)'[2] \in seen'[At(j)'[1]] + 1 .. sent'[At(j)'[1]]
    <3>1. At(j)[2] \in seen[At(j)[1]] + 1 .. sent[At(j)[1]]
      BY DEF InStream
    <3>2. At(j)' = At(j)
      BY <1>5
    <3>3. sent'[At(j)[1]] \in Nat
      BY <1>5, <1>7 DEF RingTypes
    <3> QED BY <1>6, <1>7, <1>10, <3>1, <3>2, <3>3
  <2>2. ASSUME NEW j \in Stored + 1 .. Stored + k
        PROVE  At(j)'[2] \in seen'[At(j)'[1]] + 1 .. sent'[At(j)'[1]]
    <3>1. At(j)'[1] = p /\ At(j)'[2] = sent[p] + (j - Stored)
      BY <1>9
    <3>2. sent[p] + (j - Stored) \in seen[p] + 1 .. sent[p] + k
      BY <1>1, <1>3, <1>6, <1>10
    <3> QED BY <1>6, <3>1, <3>2
  <2>3. \A w \in Process : seen'[w] <= sent'[w]
    BY <1>3, <1>6, <1>10
  <2> QED BY <1>8, <2>1, <2>2, <2>3 DEF InStream
<1>12. InOrder'
  <2>1. ASSUME NEW i \in 1 .. Stored', NEW j \in 1 .. Stored', i < j, At(i)'[1] = At(j)'[1]
        PROVE  At(i)'[2] < At(j)'[2]
    <3>1. CASE j \in 1 .. Stored
      <4>1. i \in 1 .. Stored
        BY <1>1, <1>3, <1>5, <2>1, <3>1
      <4> QED BY <1>5, <2>1, <3>1, <4>1 DEF InOrder
    <3>2. CASE i \in 1 .. Stored /\ j \in Stored + 1 .. Stored + k
      <4>1. At(i)' = At(i) /\ At(i)[1] = p /\ At(j)'[2] = sent[p] + (j - Stored)
        BY <1>5, <1>9, <2>1, <3>2
      <4>2. At(i)[2] <= sent[p] /\ At(i)[2] \in Nat
        BY <1>7, <3>2, <4>1 DEF InStream
      <4> QED BY <1>1, <1>6, <3>2, <4>1, <4>2
    <3>3. CASE i \in Stored + 1 .. Stored + k /\ j \in Stored + 1 .. Stored + k
      BY <1>1, <1>6, <1>9, <2>1, <3>3
    <3> QED BY <1>8, <2>1, <3>1, <3>2, <3>3
  <2> QED BY <2>1 DEF InOrder
<1>13. NoneLost'
  <2>1. ASSUME NEW w \in Process, NEW l \in seen'[w] + 1 .. sent'[w]
        PROVE  \E j \in 1 .. Stored' : At(j)' = <<w, l>>
    <3>1. CASE l <= sent[w]
      <4>1. PICK j \in 1 .. Stored : At(j) = <<w, l>>
        BY <1>6, <3>1 DEF NoneLost
      <4>2. j \in 1 .. Stored'
        BY <1>1, <1>3, <1>5
      <4> QED BY <1>5, <4>1, <4>2
    <3>2. CASE l > sent[w]
      <4>1. w = p
        BY <1>6, <3>2
      <4>2. PICK j \in Stored + 1 .. Stored + k : j = Stored + (l - sent[p])
        BY <1>1, <1>3, <1>6, <3>2, <4>1
      <4>3. j \in 1 .. Stored' /\ sent[p] + (j - Stored) = l
        BY <1>1, <1>3, <1>5, <1>6, <4>1, <4>2
      <4> QED BY <1>5, <4>1, <4>3
    <3> QED BY <1>6, <3>1, <3>2
  <2> QED BY <2>1 DEF NoneLost
<1> QED BY <1>5, <1>11, <1>12, <1>13
\* Taking the k oldest bytes: those of a writer end with the byte that is seen now.
LEMMA TakeKeepsRing ==
  ASSUME Types, RInv, NEW k \in 0 .. Stored, nread' = Wrap(nread + k), nwrite' = nwrite,
         data' = data, sent' = sent, seen' = Seen(Oldest(k))
  PROVE  RInv'
<1> USE PipeAssumption DEF RInv
<1>1. Stored \in Nat /\ Stored <= PIPESIZE
  BY StoredCases DEF Types, Stored
<1>2. Stored' = Stored - k
  BY ReadTakes
<1>3. ASSUME NEW j \in 1 .. Stored'
      PROVE  At(j)' = At(j + k) /\ j + k \in 1 .. Stored /\ j + k > k
  <2>1. j \in 1 .. Stored - k
    BY <1>2
  <2>2. Place(j)' = Place(j + k)
    BY <2>1, PlaceAfterRead
  <2>3. j + k \in 1 .. Stored /\ j + k > k
    BY <1>1, <2>1
  <2> QED BY <2>2, <2>3 DEF At
<1>4. \A j \in 1 .. Stored : At(j) \in Byte /\ At(j)[1] \in Process /\ At(j)[2] \in Nat
  BY BytesInRing
<1>5. DOMAIN Oldest(k) = 1 .. k /\ \A j \in 1 .. k : Oldest(k)[j] = At(j) /\ j \in 1 .. Stored
  BY <1>1 DEF Oldest, At, Place
<1>6. ASSUME NEW w \in Process
      PROVE  \/ /\ seen'[w] = seen[w]
                /\ \A j \in 1 .. k : At(j)[1] # w
             \/ \E m \in 1 .. k :
                  /\ seen'[w] = At(m)[2] /\ At(m)[1] = w
                  /\ \A j \in 1 .. k : At(j)[1] = w => j <= m
  <2>1. PICK mine : mine = {j \in 1 .. k : At(j)[1] = w}
    OBVIOUS
  <2>2. mine = {j \in DOMAIN Oldest(k) : Oldest(k)[j][1] = w}
    BY <1>5, <2>1
  <2>3. seen'[w] = IF mine = {} THEN seen[w] ELSE Oldest(k)[Max(mine)][2]
    BY <2>2 DEF Seen
  <2>4. CASE mine = {}
    BY <2>1, <2>3, <2>4
  <2>5. CASE mine # {}
    <3>a. mine \in SUBSET (0 .. k) /\ k \in Nat
      BY <1>1, <2>1
    <3>1. Max(mine) \in mine /\ \A j \in mine : Max(mine) >= j
      BY <2>5, <3>a, MaxOfPlaces
    <3>2. PICK m \in 1 .. k : m = Max(mine) /\ At(m)[1] = w
      BY <2>1, <3>1
    <3>3. seen'[w] = At(m)[2]
      BY <1>5, <2>3, <2>5, <3>2
    <3>4. \A j \in 1 .. k : At(j)[1] = w => j <= m
      BY <2>1, <3>1, <3>2
    <3> QED BY <3>2, <3>3, <3>4
  <2> QED BY <2>4, <2>5
<1>7. \A w \in Process : sent[w] \in Nat /\ seen[w] \in Nat
  BY DEF RingTypes
<1>8. ASSUME NEW w \in Process PROVE seen'[w] \in Nat /\ seen'[w] <= sent'[w]
  <2>1. CASE seen'[w] = seen[w]
    BY <1>7, <2>1 DEF InStream
  <2>2. CASE \E m \in 1 .. k : seen'[w] = At(m)[2] /\ At(m)[1] = w
    BY <1>4, <1>5, <1>7, <2>2 DEF InStream
  <2> QED BY <1>6, <2>1, <2>2
<1>9. RingTypes'
  <2>1. seen' = [w \in Process |-> seen'[w]]
    BY DEF Seen
  <2>2. seen' \in [Process -> Nat]
    BY <1>8, <2>1
  <2> QED BY <2>2 DEF RingTypes
\* What stays is newer than what was taken.
<1>10. ASSUME NEW j \in 1 .. Stored, j > k
       PROVE  At(j)[2] \in seen'[At(j)[1]] + 1 .. sent[At(j)[1]]
  <2>1. PICK w \in Process : w = At(j)[1]
    BY <1>4
  <2>2. At(j)[2] \in seen[w] + 1 .. sent[w] /\ At(j)[2] \in Nat
    BY <1>4, <2>1 DEF InStream
  <2>3. CASE seen'[w] = seen[w]
    BY <2>1, <2>2, <2>3
  <2>4. ASSUME NEW m \in 1 .. k, seen'[w] = At(m)[2], At(m)[1] = w
        PROVE  At(j)[2] \in seen'[w] + 1 .. sent[w]
    <3>1. m < j /\ m \in 1 .. Stored
      BY <1>1, <1>10
    <3>2. At(m)[2] < At(j)[2] /\ At(m)[2] \in Nat
      BY <1>4, <2>1, <2>4, <3>1 DEF InOrder
    <3> QED BY <1>7, <2>2, <2>4, <3>2
  <2> QED BY <1>6, <2>1, <2>3, <2>4
<1>11. InStream'
  BY <1>3, <1>8, <1>10 DEF InStream
<1>12. InOrder'
  <2>1. ASSUME NEW i \in 1 .. Stored', NEW j \in 1 .. Stored', i < j, At(i)'[1] = At(j)'[1]
        PROVE  At(i)'[2] < At(j)'[2]
    <3>1. i + k < j + k
      BY <2>1
    <3> QED BY <1>3, <2>1, <3>1 DEF InOrder
  <2> QED BY <2>1 DEF InOrder
<1>13. NoneLost'
  <2>1. ASSUME NEW w \in Process, NEW l \in seen'[w] + 1 .. sent'[w]
        PROVE  \E j \in 1 .. Stored' : At(j)' = <<w, l>>
    <3>1. seen[w] <= seen'[w]
      <4>1. CASE \E m \in 1 .. k : seen'[w] = At(m)[2] /\ At(m)[1] = w
        BY <1>4, <1>5, <1>7, <4>1 DEF InStream
      <4>2. CASE seen'[w] = seen[w]
        BY <1>7, <4>2
      <4> QED BY <1>6, <4>1, <4>2
    <3>2. l \in seen[w] + 1 .. sent[w]
      BY <1>7, <1>8, <3>1
    <3>3. PICK j \in 1 .. Stored : At(j) = <<w, l>>
      BY <3>2 DEF NoneLost
    <3>4. At(j)[1] = w /\ At(j)[2] = l
      BY <3>3
    <3>5. ASSUME j \in 1 .. k PROVE FALSE
      <4>1. PICK m \in 1 .. k : /\ seen'[w] = At(m)[2] /\ At(m)[1] = w
                                /\ j <= m
        BY <1>6, <3>4, <3>5
      <4>2. At(j)[2] <= At(m)[2]
        <5>1. CASE j = m
          BY <1>4, <5>1
        <5>2. CASE j < m
          <6>1. m \in 1 .. Stored
            BY <1>5
          <6>2. At(j)[2] < At(m)[2]
            BY <3>4, <4>1, <5>2, <6>1 DEF InOrder
          <6> QED BY <1>4, <6>1, <6>2
        <5> QED BY <4>1, <5>1, <5>2
      <4> QED BY <1>8, <3>4, <4>1, <4>2
    <3>6. PICK i \in 1 .. Stored' : i + k = j
      <4>1. j - k \in 1 .. Stored' /\ (j - k) + k = j
        BY <1>1, <1>2, <3>5
      <4> QED BY <4>1
    <3> QED BY <1>3, <3>3, <3>6
  <2> QED BY <2>1 DEF NoneLost
<1> QED BY <1>9, <1>11, <1>12, <1>13
LEMMA ReadKeepsRing ==
  ASSUME PInv, RInv, NEW p \in Process, piperead(p)
  PROVE  RInv'
<1>1. data' = data /\ nwrite' = nwrite /\ sent' = sent
  BY DEF piperead, pipereadAs
<1>2. CASE UNCHANGED <<nread, seen>>
  BY <1>1, <1>2 DEF RInv, RingTypes, InStream, InOrder, NoneLost, At, Place, Stored
<1>3. CASE \E k : /\ k = Min({n[p], Stored})
                  /\ nread' = Wrap(nread + k) /\ seen' = Seen(Oldest(k))
  <2>1. PICK k : k = Min({n[p], Stored}) /\ nread' = Wrap(nread + k) /\ seen' = Seen(Oldest(k))
    BY <1>3
  <2>2. Stored \in Nat
    BY StoredCases, PipeAssumption DEF PInv, Types, Stored
  <2>3. k \in 0 .. Stored
    BY <2>1, <2>2, MinOfTwo, PipeAssumption DEF PInv, Types
  <2> QED BY <1>1, <2>1, <2>3, TakeKeepsRing DEF PInv
<1> QED BY <1>2, <1>3 DEF piperead, pipereadAs

LEMMA RInvInductive == Spec => []RInv
<1>1. Init => RInv
  <2> SUFFICES ASSUME Init PROVE RInv
    OBVIOUS
  <2>1. Stored = 0
    BY StoredCases, PipeAssumption DEF Init, Stored
  <2>2. RingTypes
    BY PipeAssumption DEF Init, RingTypes, Byte
  <2>3. InStream /\ InOrder /\ NoneLost
    BY <2>1 DEF Init, InStream, InOrder, NoneLost
  <2> QED BY <2>2, <2>3 DEF RInv
<1>2. ASSUME PInv, RInv, [Next]_vars PROVE RInv'
  <2>1. CASE UNCHANGED <<ring, history>>
    BY <1>2, <2>1 DEF ring, history, RInv, RingTypes, InStream, InOrder, NoneLost, At, Place, Stored
  <2>2. ASSUME NEW p \in Process, pipewrite(p) PROVE RInv'
    BY <1>2, <2>2, WriteKeepsRing
  <2>3. ASSUME NEW p \in Process, piperead(p) PROVE RInv'
    BY <1>2, <2>3, ReadKeepsRing
  <2>4. ASSUME NEW p \in Process, fileread(p) \/ filewrite(p) \/ sleep(p) \/ kill(p)
        PROVE  UNCHANGED <<ring, history>>
    BY <2>4 DEF fileread, filewrite, sleep, kill
  <2>5. ASSUME NEW p \in Process, pipeclose(p) PROVE UNCHANGED <<ring, history>>
    BY <2>5 DEF pipeclose, pipecloseAs
  <2>6. ASSUME NEW p \in Process, NEW q \in Process, fork(p, q) PROVE UNCHANGED <<ring, history>>
    BY <2>6 DEF fork
  <2>7. ASSUME NEW p \in Process, NEW e \in End, fileclose(p, e) PROVE UNCHANGED <<ring, history>>
    BY <2>7 DEF fileclose
  <2>8. CASE Next
    BY <2>1, <2>2, <2>3, <2>4, <2>5, <2>6, <2>7, <2>8 DEF Next, inside
  <2>9. CASE UNCHANGED vars
    BY <2>1, <2>9 DEF vars
  <2> QED BY <1>2, <2>8, <2>9
<1> QED BY <1>1, <1>2, PInvInductive, PTL DEF Spec

\* For every number of writers and readers, every size of the ring and every width of
\* the counters: pipewrite and piperead pass the bytes of each writer on in order, each
\* once and none lost.
THEOREM StreamCorrect == Spec => []StreamInOrder
<1>1. ASSUME PInv, RInv PROVE StreamInOrder
  <2>1. Stored \in Nat /\ Stored <= PIPESIZE
    BY <1>1, StoredCases, PipeAssumption DEF PInv, Types, Stored
  <2>2. Full <=> Stored = PIPESIZE
    <3>a. nread \in 0 .. UintMod - 1 /\ PIPESIZE \in 0 .. PIPESIZE
      BY <1>1, PipeAssumption DEF PInv, Types
    <3>1. Wrap(nread + PIPESIZE) = IF nread + PIPESIZE < UintMod THEN nread + PIPESIZE
                                   ELSE nread + PIPESIZE - UintMod
      BY <3>a, WrapCases
    <3>2. Stored = IF nwrite >= nread THEN nwrite - nread ELSE nwrite - nread + UintMod
      BY <1>1, StoredCases DEF PInv, Types, Stored
    <3> QED BY <1>1, <3>1, <3>2, PipeAssumption DEF PInv, Types, Full
  <2>3. TypeOK
    BY <1>1, <2>1, <2>2 DEF PInv, Types, RInv, RingTypes, TypeOK
  <2>4. /\ DOMAIN Oldest(Stored) = 1 .. Stored
        /\ \A j \in 1 .. Stored : Oldest(Stored)[j] = At(j)
    BY DEF Oldest, At, Place
  <2>5. \A j \in DOMAIN Oldest(Stored) :
          Oldest(Stored)[j][2] \in
            seen[Oldest(Stored)[j][1]] + 1 .. sent[Oldest(Stored)[j][1]]
    BY <1>1, <2>4 DEF RInv, InStream
  <2>6. \A i, j \in DOMAIN Oldest(Stored) :
          i < j /\ Oldest(Stored)[i][1] = Oldest(Stored)[j][1]
            => Oldest(Stored)[i][2] < Oldest(Stored)[j][2]
    BY <1>1, <2>4 DEF RInv, InOrder
  <2>7. \A w \in Process : \A k \in seen[w] + 1 .. sent[w] :
          \E j \in DOMAIN Oldest(Stored) : Oldest(Stored)[j] = <<w, k>>
    BY <1>1, <2>4 DEF RInv, NoneLost
  <2> QED BY <2>3, <2>5, <2>6, <2>7 DEF StreamInOrder
<1> QED BY <1>1, PInvInductive, RInvInductive, PTL
=============================================================================
