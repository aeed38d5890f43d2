-------------------------- MODULE DashboardProofs ---------------------------
(***************************************************************************)
(* The board of trace, for every size of the kernel's buffer, of the       *)
(* window and of the graph: every event is counted (CountInv), and the     *)
(* window and the graph agree with what was captured (BoardInv).           *)
(***************************************************************************)
EXTENDS Dashboard, FiniteSetTheorems, WellFoundedInduction, NaturalsInduction, TLAPS

\* Time enough for every leaf, whatever else the machine does.
USE SMTT(30), ZenonT(20)
-----------------------------------------------------------------------------
(* The sum of a function, which the library defines by recursion over the  *)
(* subsets of its domain.  Induction is on the least counterexample.       *)

\* Induction, for a set of numbers instead of a predicate.
LEMMA Induction ==
  ASSUME NEW T \in SUBSET Nat, 0 \in T, \A n \in T : n + 1 \in T
  PROVE  \A n \in Nat : n \in T
<1>1. SUFFICES ASSUME Nat \ T # {} PROVE FALSE
  OBVIOUS
<1>2. PICK m : /\ m \in Nat \ T
               /\ \A y \in Nat \ T : ~(<<y, m>> \in OpToRel(<, Nat))
  BY <1>1, WFMin, NatLessThanWellFounded, ZenonT(30)
<1>3. m \in Nat /\ m \notin T
  BY <1>2, Zenon
<1>4. m # 0 /\ m - 1 \in Nat /\ m - 1 < m /\ (m - 1) + 1 = m
  BY <1>3
<1>5. m - 1 \in T
  BY <1>2, <1>4, ZenonT(30) DEF OpToRel
<1>6. QED
  BY <1>3, <1>4, <1>5

Pick(s) == CHOOSE x \in s : TRUE
Body(f, g, s) == IF s = {} THEN 0 ELSE f[Pick(s)] + g[s \ {Pick(s)}]
Iter(f) == CHOOSE g : g = [s \in SUBSET (DOMAIN f) |-> Body(f, g, s)]

LEMMA SumIs ==
  ASSUME NEW f
  PROVE  SumFunction(f) = Iter(f)[DOMAIN f]
BY DEF SumFunction, SumFunctionOnSet, FoldFunctionOnSet, MapThenFoldSet, Iter, Body, Pick

\* There is such a function, when the domain is finite.
LEMMA IterExists ==
  ASSUME NEW f, IsFiniteSet(DOMAIN f)
  PROVE  Iter(f) = [s \in SUBSET (DOMAIN f) |-> Body(f, Iter(f), s)]
<1> DEFINE S == DOMAIN f
           D(n) == {s \in SUBSET S : Cardinality(s) <= n}
           Has(n) == \E g : g = [s \in D(n) |-> Body(f, g, s)]
<1>1. \A s \in SUBSET S : /\ IsFiniteSet(s) /\ Cardinality(s) \in Nat
                          /\ Cardinality(s) <= Cardinality(S) /\ Cardinality(S) \in Nat
                          /\ Cardinality(s) = 0 <=> s = {}
  BY FS_Subset, FS_CardinalityType, FS_EmptySet
<1>2. \A s \in SUBSET S : s # {} => /\ Pick(s) \in s /\ s \ {Pick(s)} \in SUBSET S
                                    /\ Cardinality(s \ {Pick(s)}) = Cardinality(s) - 1
  <2>1. ASSUME NEW s \in SUBSET S, s # {}
        PROVE  /\ Pick(s) \in s
               /\ Cardinality(s \ {Pick(s)}) = Cardinality(s) - 1
    <3>1. Pick(s) \in s
      BY <2>1 DEF Pick
    <3>2. QED
      BY <1>1, <3>1, FS_RemoveElement
  <2>2. QED
    BY <2>1
<1>3. Has(0)
  <2>1. PICK g : g = [s \in D(0) |-> 0]
    BY ZenonT(30)
  <2>2. \A s \in D(0) : s = {}
    BY <1>1
  <2>3. g = [s \in D(0) |-> Body(f, g, s)]
    BY <2>1, <2>2 DEF Body
  <2>4. QED
    BY <2>3
<1>4. ASSUME NEW n \in Nat, Has(n)
      PROVE  Has(n + 1)
  <2>1. PICK g : g = [s \in D(n) |-> Body(f, g, s)]
    BY <1>4, ZenonT(30)
  <2>2. PICK h : h = [s \in D(n + 1) |-> Body(f, g, s)]
    BY ZenonT(30)
  <2>3. ASSUME NEW s \in D(n)
        PROVE  h[s] = g[s] /\ s \in D(n + 1)
    <3>1. s \in D(n + 1)
      BY <1>1
    <3>2. h[s] = Body(f, g, s) /\ g[s] = Body(f, g, s)
      BY <2>1, <2>2, <3>1
    <3>3. QED
      BY <3>1, <3>2
  <2>4. ASSUME NEW s \in D(n + 1)
        PROVE  Body(f, g, s) = Body(f, h, s)
    <3>1. CASE s = {}
      BY <3>1 DEF Body
    <3>2. CASE s # {}
      <4>1. s \ {Pick(s)} \in D(n)
        BY <1>1, <1>2, <3>2
      <4>2. QED
        BY <2>3, <3>2, <4>1 DEF Body
    <3>3. QED
      BY <3>1, <3>2
  <2>5. h = [s \in D(n + 1) |-> Body(f, h, s)]
    BY <2>2, <2>4
  <2>6. QED
    BY <2>5
<1>5. \A n \in Nat : Has(n)
  <2> DEFINE T == {n \in Nat : Has(n)}
  <2> HIDE DEF Has
  <2>1. 0 \in T /\ \A n \in T : n + 1 \in T
    BY <1>3, <1>4
  <2>2. T \in SUBSET Nat
    OBVIOUS
  <2> HIDE DEF T
  <2>3. \A n \in Nat : n \in T
    BY <2>1, <2>2, Induction
  <2> QED
    BY <2>3 DEF T
<1>6. D(Cardinality(S)) = SUBSET S
  BY <1>1
<1>7. Has(Cardinality(S))
  BY <1>1, <1>5
<1>8. \E g : g = [s \in SUBSET S |-> Body(f, g, s)]
  BY <1>6, <1>7, ZenonT(30)
<1>9. QED
  BY <1>8 DEF Iter

\* What is summed for a subset of the domain: nothing for the empty one, and for
\* any other the value of any element and the sum of the rest.
LEMMA IterSums ==
  ASSUME NEW f, IsFiniteSet(DOMAIN f), \A x \in DOMAIN f : f[x] \in Nat
  PROVE  /\ \A s \in SUBSET (DOMAIN f) : Iter(f)[s] \in Nat
         /\ Iter(f)[{}] = 0
         /\ \A s \in SUBSET (DOMAIN f) : \A x \in s :
               Iter(f)[s] = f[x] + Iter(f)[s \ {x}]
<1> DEFINE S == DOMAIN f
           Good(s) == /\ Iter(f)[s] \in Nat
                      /\ \A x \in s : Iter(f)[s] = f[x] + Iter(f)[s \ {x}]
           D(n) == {s \in SUBSET S : Cardinality(s) <= n}
<1>1. \A s \in SUBSET S : /\ IsFiniteSet(s) /\ Cardinality(s) \in Nat
                          /\ Cardinality(s) = 0 <=> s = {}
  BY FS_Subset, FS_CardinalityType, FS_EmptySet
<1>2. \A s \in SUBSET S : \A x \in s : /\ s \ {x} \in SUBSET S
                                       /\ Cardinality(s \ {x}) = Cardinality(s) - 1
  BY <1>1, FS_RemoveElement, ZenonT(30)
<1>3. Iter(f)[{}] = 0
  BY IterExists, ZenonT(30) DEF Body
<1>4. ASSUME NEW s \in SUBSET S, s # {}
      PROVE  Pick(s) \in s /\ Iter(f)[s] = f[Pick(s)] + Iter(f)[s \ {Pick(s)}]
  BY <1>4, IterExists, ZenonT(30) DEF Body, Pick
<1>5. ASSUME NEW n \in Nat, \A s \in D(n) : Good(s)
      PROVE  \A s \in D(n + 1) : Good(s)
  <2>0. Good({})
    BY <1>3
  <2>1. SUFFICES ASSUME NEW s \in SUBSET S, Cardinality(s) <= n + 1, s # {}
                 PROVE  Good(s)
    <3> HIDE DEF Good
    <3> QED
      BY <2>0
  <2>2. PICK y : y = Pick(s)
    OBVIOUS
  <2>3. y \in s /\ Iter(f)[s] = f[y] + Iter(f)[s \ {y}]
    BY <1>4, <2>1, <2>2, ZenonT(30)
  <2>4. \A x \in s : s \ {x} \in D(n)
    BY <1>1, <1>2, <2>1
  <2>5. \A x \in s : Iter(f)[s \ {x}] \in Nat /\ f[x] \in Nat
    BY <1>5, <2>4
  <2>6. ASSUME NEW x \in s
        PROVE  Iter(f)[s] = f[x] + Iter(f)[s \ {x}]
    <3>1. CASE x = y
      BY <2>3, <3>1
    <3>2. CASE x # y
      <4>1. PICK t : t = (s \ {x}) \ {y}
        BY ZenonT(30)
      <4>2. t = (s \ {y}) \ {x}
        BY <4>1
      <4>3. Iter(f)[s \ {y}] = f[x] + Iter(f)[t]
        BY <1>5, <2>3, <2>4, <3>2, <4>2
      <4>4. Iter(f)[s \ {x}] = f[y] + Iter(f)[t]
        BY <1>5, <2>3, <2>4, <3>2, <4>1
      <4>5. Iter(f)[t] \in Nat
        <5>1. t \in D(n)
          BY <1>1, <1>2, <2>3, <2>4, <3>2, <4>1
        <5>2. QED
          BY <1>5, <5>1
      <4>6. QED
        BY <2>3, <2>5, <4>3, <4>4, <4>5
    <3>3. QED
      BY <3>1, <3>2
  <2>7. Iter(f)[s] \in Nat
    BY <2>3, <2>5
  <2>8. QED
    BY <2>6, <2>7
<1>6. \A s \in D(0) : Good(s)
  BY <1>1, <1>3
<1>7. \A n \in Nat : \A s \in D(n) : Good(s)
  <2> DEFINE T == {n \in Nat : \A s \in D(n) : Good(s)}
  <2> HIDE DEF Good, D
  <2>1. 0 \in T /\ \A n \in T : n + 1 \in T
    BY <1>5, <1>6
  <2>2. T \in SUBSET Nat
    OBVIOUS
  <2> HIDE DEF T
  <2>3. \A n \in Nat : n \in T
    BY <2>1, <2>2, Induction
  <2> QED
    BY <2>3 DEF T
<1>8. \A s \in SUBSET S : Good(s)
  BY <1>1, <1>7
<1>9. QED
  BY <1>3, <1>8

\* The sums of two functions that agree on a subset.
LEMMA IterAgree ==
  ASSUME NEW f, IsFiniteSet(DOMAIN f), \A x \in DOMAIN f : f[x] \in Nat,
         NEW g, DOMAIN g = DOMAIN f, \A x \in DOMAIN g : g[x] \in Nat,
         NEW r \in SUBSET (DOMAIN f), \A x \in r : f[x] = g[x]
  PROVE  Iter(f)[r] = Iter(g)[r]
<1> DEFINE D(n) == {s \in SUBSET r : Cardinality(s) <= n}
<1>1. \A s \in SUBSET r : /\ IsFiniteSet(s) /\ Cardinality(s) \in Nat
                          /\ Cardinality(s) = 0 <=> s = {}
                          /\ s \in SUBSET (DOMAIN f)
  BY FS_Subset, FS_CardinalityType, FS_EmptySet
<1>2. \A s \in SUBSET r : \A x \in s : /\ s \ {x} \in SUBSET r
                                       /\ Cardinality(s \ {x}) = Cardinality(s) - 1
  BY <1>1, FS_RemoveElement, ZenonT(30)
<1>3. Iter(f)[{}] = Iter(g)[{}]
  BY IterSums
<1>4. ASSUME NEW n \in Nat, \A s \in D(n) : Iter(f)[s] = Iter(g)[s]
      PROVE  \A s \in D(n + 1) : Iter(f)[s] = Iter(g)[s]
  <2>1. SUFFICES ASSUME NEW s \in SUBSET r, Cardinality(s) <= n + 1, s # {}
                 PROVE  Iter(f)[s] = Iter(g)[s]
    BY <1>3
  <2>2. PICK x : x \in s
    BY <2>1
  <2>3. s \ {x} \in D(n)
    BY <1>1, <1>2, <2>1, <2>2
  <2>4. Iter(f)[s] = f[x] + Iter(f)[s \ {x}]
    BY <1>1, <2>2, IterSums
  <2>5. Iter(g)[s] = g[x] + Iter(g)[s \ {x}]
    BY <1>1, <2>2, IterSums
  <2>6. QED
    BY <1>4, <2>2, <2>3, <2>4, <2>5
<1>5. \A s \in D(0) : Iter(f)[s] = Iter(g)[s]
  BY <1>1, <1>3
<1>6. \A n \in Nat : \A s \in D(n) : Iter(f)[s] = Iter(g)[s]
  <2> DEFINE T == {n \in Nat : \A s \in D(n) : Iter(f)[s] = Iter(g)[s]}
  <2> HIDE DEF D
  <2>1. 0 \in T /\ \A n \in T : n + 1 \in T
    BY <1>4, <1>5
  <2>2. T \in SUBSET Nat
    OBVIOUS
  <2> HIDE DEF T
  <2>3. \A n \in Nat : n \in T
    BY <2>1, <2>2, Induction
  <2> QED
    BY <2>3 DEF T
<1>7. QED
  BY <1>1, <1>6

\* Counting one more of some type adds one to the sum.
LEMMA SumInc ==
  ASSUME NEW S, IsFiniteSet(S), NEW f \in [S -> Nat], NEW x \in S
  PROVE  /\ SumFunction(f) \in Nat
         /\ SumFunction([f EXCEPT ![x] = @ + 1]) = SumFunction(f) + 1
<1>1. PICK g : g = [f EXCEPT ![x] = @ + 1]
  BY ZenonT(30)
<1>2. /\ DOMAIN f = S /\ DOMAIN g = S /\ g[x] = f[x] + 1
      /\ \A y \in S : f[y] \in Nat /\ g[y] \in Nat
      /\ \A y \in S \ {x} : f[y] = g[y]
  BY <1>1
<1>3. S \ {x} \in SUBSET (DOMAIN f) /\ S \in SUBSET (DOMAIN f)
  BY <1>2
<1>4. Iter(f)[S \ {x}] = Iter(g)[S \ {x}]
  BY <1>2, <1>3, IterAgree
<1>5. Iter(f)[S] = f[x] + Iter(f)[S \ {x}] /\ Iter(f)[S \ {x}] \in Nat
      /\ Iter(f)[S] \in Nat
  BY <1>2, <1>3, IterSums
<1>6. Iter(g)[S] = g[x] + Iter(g)[S \ {x}]
  BY <1>2, <1>3, IterSums
<1>7. Iter(g)[S] = Iter(f)[S] + 1
  BY <1>2, <1>4, <1>5, <1>6
<1>8. SumFunction(f) = Iter(f)[S] /\ SumFunction(g) = Iter(g)[S]
  BY <1>2, SumIs
<1>9. QED
  BY <1>1, <1>5, <1>7, <1>8

LEMMA SumZero ==
  ASSUME NEW S, IsFiniteSet(S)
  PROVE  SumFunction([x \in S |-> 0]) = 0
<1>1. PICK f : f = [x \in S |-> 0]
  BY ZenonT(30)
<1>2. DOMAIN f = S /\ \A x \in DOMAIN f : f[x] \in Nat /\ f[x] = 0
  BY <1>1
<1> DEFINE D(n) == {s \in SUBSET S : Cardinality(s) <= n}
<1>3. \A s \in SUBSET S : /\ IsFiniteSet(s) /\ Cardinality(s) \in Nat
                          /\ Cardinality(s) = 0 <=> s = {}
  BY FS_Subset, FS_CardinalityType, FS_EmptySet
<1>4. ASSUME NEW n \in Nat, \A s \in D(n) : Iter(f)[s] = 0
      PROVE  \A s \in D(n + 1) : Iter(f)[s] = 0
  <2>1. SUFFICES ASSUME NEW s \in SUBSET S, Cardinality(s) <= n + 1, s # {}
                 PROVE  Iter(f)[s] = 0
    BY <1>2, IterSums, ZenonT(30)
  <2>2. PICK x : x \in s
    BY <2>1
  <2>3. s \ {x} \in D(n)
    BY <1>3, <2>1, <2>2, FS_RemoveElement
  <2>4. Iter(f)[s] = f[x] + Iter(f)[s \ {x}]
    BY <1>2, <2>2, IterSums
  <2>5. QED
    BY <1>2, <1>4, <2>2, <2>3, <2>4
<1>5. \A s \in D(0) : Iter(f)[s] = 0
  <2>1. Iter(f)[{}] = 0
    BY <1>2, IterSums
  <2>2. QED
    BY <1>3, <2>1
<1>6. \A n \in Nat : \A s \in D(n) : Iter(f)[s] = 0
  <2> DEFINE T == {n \in Nat : \A s \in D(n) : Iter(f)[s] = 0}
  <2> HIDE DEF D
  <2>1. 0 \in T /\ \A n \in T : n + 1 \in T
    BY <1>4, <1>5
  <2>2. T \in SUBSET Nat
    OBVIOUS
  <2> HIDE DEF T
  <2>3. \A n \in Nat : n \in T
    BY <2>1, <2>2, Induction
  <2> QED
    BY <2>3 DEF T
<1>7. Iter(f)[S] = 0
  BY <1>3, <1>6
<1>8. QED
  BY <1>1, <1>2, <1>7, SumIs

LEMMA SumBound ==
  ASSUME NEW S, IsFiniteSet(S), NEW f \in [S -> Nat]
  PROVE  SumFunction(f) \in Nat /\ \A x \in S : f[x] <= SumFunction(f)
<1>1. /\ Iter(f)[S] \in Nat
      /\ \A x \in S : /\ Iter(f)[S] = f[x] + Iter(f)[S \ {x}]
                      /\ Iter(f)[S \ {x}] \in Nat
  BY IterSums
<1>2. SumFunction(f) = Iter(f)[S]
  BY SumIs
<1>3. ASSUME NEW x \in S PROVE f[x] <= Iter(f)[S]
  <2>1. PICK a \in Nat, b \in Nat : a = f[x] /\ Iter(f)[S] = a + b
    BY <1>1, ZenonT(30)
  <2>2. QED
    BY <2>1
<1>4. QED
  BY <1>1, <1>2, <1>3
-----------------------------------------------------------------------------
(* The kernel's queue, the event in the hands of the program, and the      *)
(* counts.                                                                 *)

Ev == Queue!Event
PCs == {"exec", "flush", "loop", "event", "empty", "idle", "sleep", "exit"}
Loss == {lost - 1, lost}

\* The program holds an event between traceread and the end of the loop's body,
\* and no event is younger than the clock.
KernelOK ==
  /\ ticks \in 0..MaxTicks /\ pc \in PCs /\ args \in Args
  /\ queue \in Seq(Ev) /\ Len(queue) <= BufSize
  /\ dst \in [{Self} -> Seq(Ev)] /\ Len(dst[Self]) = IF pc = "event" THEN 1 ELSE 0
  /\ next \in 0..MaxEvents /\ lost \in Nat
  /\ \A j \in DOMAIN queue : queue[j].ticks <= ticks
  /\ \A j \in DOMAIN dst[Self] : dst[Self][j].ticks <= ticks

\* The latest event carries the count of losses, less the one it may have caused
\* itself, wherever it is: in the queue, in hand, or handled.
LossOK ==
  IF queue # <<>> THEN queue[Len(queue)].overwritten \in Loss
  ELSE IF pc = "event" THEN dst[Self][1].overwritten \in Loss
  ELSE overwritten \in Loss

CountsOK ==
  /\ total \in [Type -> Nat] /\ shown \in [Type -> Nat] /\ seen \in Nat
  /\ overwritten \in 0..MaxEvents
  /\ SumFunction(total) + Len(dst[Self]) + Len(queue) + lost = next
  /\ seen <= SumFunction(total) /\ \A t \in Type : shown[t] <= total[t]

CountInv == KernelOK /\ LossOK /\ CountsOK

LEMMA Constants ==
  /\ BufSize \in Nat /\ BufSize >= 1 /\ ROWS \in Nat /\ ROWS >= 1
  /\ WIDTH \in Nat /\ WIDTH >= 1 /\ MaxEvents \in Nat /\ MaxTicks \in Nat
  /\ IsFiniteSet(Type)
<1>1. IsFiniteSet(Type)
  BY DashAssumption, FS_AddElement DEF Type
<1>2. QED
  BY <1>1, DashAssumption

LEMMA NoWrap ==
  ASSUME NEW m \in Nat, NEW a \in 0..m
  PROVE  a % (m + 1) = a
OBVIOUS

LEMMA EventFields ==
  ASSUME NEW e \in Ev
  PROVE  /\ e.ticks \in 0..MaxTicks /\ e.overwritten \in 0..MaxEvents
         /\ e.payload.type \in Type
<1>1. /\ e.ticks \in 0..MaxTicks /\ e.overwritten \in 0..MaxEvents
      /\ e.payload \in Payload \cup {SelfWrite}
  BY Constants DEF Ev, Queue!Event
<1>2. QED
  BY <1>1 DEF Type, SelfWrite

LEMMA InitCount ==
  ASSUME Init
  PROVE  CountInv
<1>1. KernelOK /\ LossOK
  BY Constants DEF Init, Queue!Init, KernelOK, LossOK, Loss, PCs
<1>2. SumFunction(total) = 0
  BY SumZero, Constants DEF Init
<1>3. /\ total \in [Type -> Nat] /\ shown \in [Type -> Nat]
      /\ \A t \in Type : shown[t] <= total[t]
  BY DEF Init
<1>4. QED
  BY <1>1, <1>2, <1>3, Constants DEF Init, Queue!Init, CountInv, CountsOK

\* The steps that neither record, read nor handle an event.
LEMMA StillCount ==
  ASSUME CountInv, UNCHANGED <<kernel, counts, seen, shown, args>>,
         ticks' \in 0..MaxTicks, ticks <= ticks', pc' \in PCs,
         pc = "event" <=> pc' = "event"
  PROVE  CountInv'
<1>1. KernelOK /\ LossOK /\ CountsOK
  BY DEF CountInv
<1>2. /\ UNCHANGED <<queue, dst, next, lost, total, overwritten, seen, shown, args>>
  BY DEF kernel, counts
<1>3. KernelOK'
  <2>1. \A e \in Ev : e.ticks <= ticks => e.ticks <= ticks'
    BY <1>1, EventFields, Constants DEF KernelOK
  <2>2. /\ \A j \in DOMAIN queue : queue[j] \in Ev
        /\ \A j \in DOMAIN dst[Self] : dst[Self][j] \in Ev
    BY <1>1 DEF KernelOK
  <2>3. QED
    BY <1>1, <1>2, <2>1, <2>2 DEF KernelOK
<1>4. LossOK' /\ CountsOK'
  BY <1>1, <1>2 DEF LossOK, CountsOK, Loss
<1>5. QED
  BY <1>3, <1>4 DEF CountInv

\* traceevent.
LEMMA RecordCount ==
  ASSUME CountInv, NEW p \in Payload \cup {SelfWrite}, traceevent(p),
         UNCHANGED <<ticks, pc, args, counts, seen, shown>>
  PROVE  CountInv'
<1>1. KernelOK /\ LossOK /\ CountsOK /\ UNCHANGED <<total, overwritten, dst>>
  BY DEF CountInv, counts, traceevent, Queue!Record
<1>2. PICK e : e = Queue!NewEvent(p, ticks)
  OBVIOUS
<1>3. SumFunction(total) \in Nat
  BY <1>1, SumBound, Constants DEF CountsOK
<1>4. lost <= next /\ lost \in 0..MaxEvents /\ next < MaxEvents /\ Len(queue) \in Nat
  BY <1>1, <1>3, Constants DEF CountsOK, KernelOK, traceevent
<1>5. e \in Ev /\ e.ticks = ticks /\ e.overwritten = lost
  BY <1>1, <1>2, <1>4, Constants DEF KernelOK, Ev, Queue!Event, Queue!NewEvent
<1>6. /\ queue' = IF Len(queue) = BufSize THEN Append(Tail(queue), e) ELSE Append(queue, e)
      /\ lost' = IF Len(queue) = BufSize THEN lost + 1 ELSE lost
      /\ next' = next + 1
  <2>1. /\ (lost + 1) % (MaxEvents + 1) = lost + 1 /\ (next + 1) % (MaxEvents + 1) = next + 1
    <3>1. lost + 1 \in 0..MaxEvents /\ next + 1 \in 0..MaxEvents
      BY <1>1, <1>4, Constants DEF KernelOK
    <3>2. QED
      BY <3>1, NoWrap, Constants
  <2>2. QED
    BY <1>2, <2>1 DEF traceevent, Queue!Record
<1>7. /\ queue' \in Seq(Ev) /\ Len(queue') <= BufSize /\ queue' # <<>>
      /\ queue'[Len(queue')] = e
      /\ \A j \in DOMAIN queue' : queue'[j].ticks <= ticks
      /\ Len(queue') + lost' = Len(queue) + lost + 1
  <2>1. queue \in Seq(Ev) /\ ticks \in Nat /\ lost \in Nat /\ Len(queue) <= BufSize
    BY <1>1, Constants DEF KernelOK
  <2>2. PICK s \in Seq(Ev) : /\ queue' = Append(s, e) /\ Len(s) < BufSize
                             /\ \A j \in DOMAIN s : s[j].ticks <= ticks
                             /\ Len(s) + lost' = Len(queue) + lost
    <3>1. CASE Len(queue) = BufSize
      <4>1. /\ Tail(queue) \in Seq(Ev) /\ Len(Tail(queue)) = Len(queue) - 1
            /\ \A j \in 1..Len(queue) - 1 : Tail(queue)[j] = queue[j + 1]
        BY <2>1, <3>1, Constants
      <4>2. \A j \in DOMAIN Tail(queue) : Tail(queue)[j].ticks <= ticks
        BY <1>1, <2>1, <4>1 DEF KernelOK
      <4>3. queue' = Append(Tail(queue), e) /\ lost' = lost + 1
        BY <1>6, <3>1
      <4>4. /\ Len(Tail(queue)) < BufSize
            /\ Len(Tail(queue)) + lost' = Len(queue) + lost
        <5>1. PICK m \in Nat : m = Len(Tail(queue)) /\ m + 1 = BufSize
          BY <3>1, <4>1, Constants
        <5>2. Len(queue) = m + 1 /\ lost' = lost + 1 /\ lost \in Nat
          BY <2>1, <3>1, <4>3, <5>1
        <5>3. m < m + 1 /\ \A k \in Nat : m + (k + 1) = (m + 1) + k
          OBVIOUS
        <5>4. QED
          BY <5>1, <5>2, <5>3, ZenonT(30)
      <4>5. QED
        BY <4>1, <4>2, <4>3, <4>4, ZenonT(30)
    <3>2. CASE Len(queue) # BufSize
      BY <1>1, <1>6, <2>1, <3>2, Constants DEF KernelOK
    <3>3. QED
      BY <3>1, <3>2
  <2>3. /\ Len(Append(s, e)) = Len(s) + 1 /\ Append(s, e)[Len(s) + 1] = e
        /\ \A j \in 1..Len(s) : Append(s, e)[j] = s[j]
        /\ Append(s, e) \in Seq(Ev) /\ Append(s, e) # <<>>
    BY <1>5
  <2>4. \A j \in DOMAIN queue' : queue'[j].ticks <= ticks
    BY <1>5, <2>1, <2>2, <2>3
  <2>5. lost' \in Nat /\ Len(s) \in Nat
    BY <1>6, <2>1
  <2>6. /\ Len(queue') <= BufSize /\ Len(queue') + lost' = Len(queue) + lost + 1
    <3>1. PICK m \in Nat : m = Len(s) /\ m < BufSize /\ m + lost' = Len(queue) + lost
      BY <2>2, <2>5
    <3>2. Len(queue') = m + 1
      BY <2>2, <2>3, <3>1
    <3>3. Len(queue) \in Nat /\ lost \in Nat /\ lost' \in Nat /\ BufSize \in Nat
      BY <2>1, <2>5, Constants
    <3>4. m + 1 <= BufSize /\ (m + 1) + lost' = Len(queue) + lost + 1
      BY <3>1, <3>3
    <3>5. QED
      BY <3>2, <3>4
  <2>7. QED
    BY <2>2, <2>3, <2>4, <2>6
<1>8. KernelOK'
  BY <1>1, <1>4, <1>6, <1>7, Constants DEF KernelOK
<1>9. LossOK'
  BY <1>4, <1>5, <1>6, <1>7 DEF LossOK, Loss
<1>10. CountsOK'
  <2>1. SumFunction(total) + Len(dst[Self]) + Len(queue') + lost' = next'
    <3>1. Len(queue') \in Nat /\ lost' \in Nat /\ Len(dst[Self]) \in Nat
      BY <1>1, <1>7, <1>8 DEF KernelOK
    <3>2. QED
      <4>1. /\ SumFunction(total) + Len(dst[Self]) + Len(queue) + lost = next
            /\ next \in Nat /\ lost \in Nat
        BY <1>1 DEF CountsOK, KernelOK
      <4>2. Len(queue') + lost' = Len(queue) + lost + 1 /\ next' = next + 1
        BY <1>6, <1>7
      <4>3. QED
        BY <1>3, <1>4, <3>1, <4>1, <4>2
  <2>2. QED
    BY <1>1, <2>1 DEF CountsOK
<1>11. QED
  BY <1>8, <1>9, <1>10 DEF CountInv

\* traceread, when there is an event.
LEMMA DeliverCount ==
  ASSUME CountInv, Queue!Deliver(Self), pc = "loop", pc' = "event",
         UNCHANGED <<ticks, args, counts, seen, shown>>
  PROVE  CountInv'
<1>1. /\ KernelOK /\ LossOK /\ CountsOK /\ UNCHANGED <<total, overwritten, next, lost>>
      /\ queue # <<>> /\ queue' = Tail(queue)
      /\ dst' = [dst EXCEPT ![Self] = Append(@, Head(queue))]
  BY DEF CountInv, counts, Queue!Deliver
<1>2. /\ queue \in Seq(Ev) /\ Len(dst[Self]) = 0 /\ dst[Self] \in Seq(Ev)
      /\ Len(queue) \in Nat /\ Len(queue) >= 1 /\ Len(queue) <= BufSize
  BY <1>1 DEF KernelOK
<1>3. PICK e \in Ev : e = Head(queue) /\ e = queue[1]
  BY <1>1, <1>2
<1>4. dst[Self] = <<>> /\ Append(<<>>, e) = <<e>>
  BY <1>2
<1>5. dst' = [dst EXCEPT ![Self] = <<e>>]
  BY <1>1, <1>3, <1>4
<1>6. dst' \in [{Self} -> Seq(Ev)] /\ dst'[Self] = <<e>>
  <2>1. <<e>> \in Seq(Ev) /\ dst \in [{Self} -> Seq(Ev)]
    BY <1>1 DEF KernelOK
  <2>2. QED
    BY <1>5, <2>1
<1>7. /\ queue' \in Seq(Ev) /\ Len(queue') = Len(queue) - 1
      /\ \A j \in 1..Len(queue) - 1 : queue'[j] = queue[j + 1]
  BY <1>1, <1>2
<1>8. KernelOK'
  <2>1. e.ticks <= ticks
    BY <1>1, <1>2, <1>3 DEF KernelOK
  <2>2. \A j \in DOMAIN queue' : queue'[j].ticks <= ticks
    BY <1>1, <1>2, <1>7 DEF KernelOK
  <2>3. /\ Len(dst'[Self]) = 1
        /\ \A j \in DOMAIN dst'[Self] : dst'[Self][j].ticks <= ticks
    BY <1>6, <2>1
  <2>4. Len(queue') <= BufSize
    BY <1>2, <1>7, Constants
  <2>5. QED
    BY <1>1, <1>6, <1>7, <2>2, <2>3, <2>4 DEF KernelOK, PCs
<1>9. LossOK'
  <2>1. queue[Len(queue)].overwritten \in Loss
    BY <1>1 DEF LossOK
  <2>2. CASE Len(queue) = 1
    <3>1. queue' = <<>> /\ dst'[Self][1].overwritten \in Loss
      BY <1>3, <1>6, <1>7, <2>1, <2>2
    <3>2. QED
      BY <1>1, <3>1 DEF LossOK, Loss
  <2>3. CASE Len(queue) # 1
    <3>1. queue' # <<>> /\ queue'[Len(queue')] = queue[Len(queue)]
      BY <1>2, <1>7, <2>3
    <3>2. QED
      BY <1>1, <2>1, <3>1 DEF LossOK, Loss
  <2>4. QED
    BY <2>2, <2>3
<1>10. CountsOK'
  <2>1. Len(dst'[Self]) = 1
    BY <1>6
  <2>2. SumFunction(total) \in Nat
    BY <1>1, SumBound, Constants DEF CountsOK
  <2>3. SumFunction(total) + Len(dst'[Self]) + Len(queue') + lost = next
    BY <1>1, <1>2, <1>7, <2>1, <2>2 DEF CountsOK, KernelOK
  <2>4. QED
    BY <1>1, <2>3 DEF CountsOK
<1>11. QED
  BY <1>8, <1>9, <1>10 DEF CountInv

\* The body of the loop.
LEMMA HandleCount ==
  ASSUME CountInv, handle
  PROVE  CountInv'
<1>1. /\ KernelOK /\ LossOK /\ CountsOK /\ UNCHANGED <<ticks, args, queue, next, lost>>
      /\ pc = "event" /\ pc' = "loop" /\ dst' = [dst EXCEPT ![Self] = <<>>]
  BY DEF CountInv, handle, main, Queue!EndRead
<1>2. PICK e : e = dst[Self][1]
  OBVIOUS
<1>3. e \in Ev /\ Len(dst[Self]) = 1
  BY <1>1, <1>2 DEF KernelOK
<1>4. PICK t \in Type : t = e.payload.type
  BY <1>3, EventFields
<1>5. /\ total' = [total EXCEPT ![t] = @ + 1] /\ overwritten' = e.overwritten
      /\ \/ shown' = [shown EXCEPT ![t] = @ + 1] /\ seen' = seen + 1
         \/ shown' = shown /\ seen' = seen
  BY <1>2, <1>4, ZenonT(30) DEF handle, output
<1>6. dst' \in [{Self} -> Seq(Ev)] /\ dst'[Self] = <<>> /\ Len(dst'[Self]) = 0
  BY <1>1 DEF KernelOK
<1>7. KernelOK'
  BY <1>1, <1>6 DEF KernelOK, PCs
<1>8. LossOK'
  BY <1>1, <1>2, <1>5 DEF LossOK, Loss
<1>9. SumFunction(total) \in Nat /\ SumFunction(total') = SumFunction(total) + 1
  BY <1>1, <1>5, SumInc, Constants, ZenonT(30) DEF CountsOK
<1>10. /\ total' \in [Type -> Nat] /\ shown' \in [Type -> Nat] /\ seen' \in Nat
       /\ seen' <= SumFunction(total')
       /\ \A u \in Type : shown'[u] <= total'[u]
  <2>1. /\ total \in [Type -> Nat] /\ shown \in [Type -> Nat] /\ seen \in Nat
        /\ seen <= SumFunction(total) /\ \A u \in Type : shown[u] <= total[u]
    BY <1>1 DEF CountsOK
  <2>2. /\ total' \in [Type -> Nat] /\ total'[t] = total[t] + 1
        /\ \A u \in Type \ {t} : total'[u] = total[u]
    BY <1>5, <2>1
  <2>3. /\ shown' \in [Type -> Nat] /\ shown'[t] <= shown[t] + 1
        /\ \A u \in Type \ {t} : shown'[u] = shown[u]
    BY <1>5, <2>1
  <2>4. seen' \in Nat /\ seen' <= seen + 1
    BY <1>5, <2>1
  <2>5. \A u \in Type : shown'[u] <= total'[u]
    BY <2>1, <2>2, <2>3
  <2>6. QED
    BY <1>9, <2>1, <2>2, <2>3, <2>4, <2>5
<1>11. overwritten' \in 0..MaxEvents
  BY <1>3, <1>5, EventFields
<1>12. SumFunction(total') + Len(dst'[Self]) + Len(queue') + lost' = next'
  <2>1. Len(queue) \in Nat /\ lost \in Nat
    BY <1>1 DEF KernelOK
  <2>2. QED
    BY <1>1, <1>3, <1>6, <1>9, <2>1 DEF CountsOK
<1>13. QED
  BY <1>7, <1>8, <1>10, <1>11, <1>12 DEF CountInv, CountsOK

\* Every step keeps the invariant of the counts.
LEMMA NextCount ==
  ASSUME CountInv, [Next]_vars
  PROVE  CountInv'
<1> USE DEF kernel, counts, main, output
<1>1. ticks \in 0..MaxTicks /\ pc \in PCs
  BY DEF CountInv, KernelOK
<1>2. ASSUME UNCHANGED <<kernel, counts, seen, shown, args>>,
             ticks' \in 0..MaxTicks, ticks <= ticks', pc' \in PCs,
             pc = "event" <=> pc' = "event"
      PROVE  CountInv'
  BY <1>2, StillCount
<1>3. CASE Tick
  BY <1>1, <1>2, <1>3, Constants DEF Tick
<1>4. CASE exec \/ oneShot \/ idle \/ wake
  BY <1>1, <1>2, <1>4 DEF exec, oneShot, idle, wake, PCs
<1>5. CASE flush
  <2>1. CASE traceevent(SelfWrite) /\ UNCHANGED pc
    BY <1>5, <2>1, RecordCount DEF flush
  <2>2. CASE pc' = "loop" /\ UNCHANGED kernel
    BY <1>1, <1>2, <1>5, <2>2 DEF flush, PCs
  <2>3. QED
    BY <1>5, <2>1, <2>2 DEF flush
<1>6. CASE traceread
  <2>1. CASE Queue!Deliver(Self) /\ pc' = "event"
    BY <1>6, <2>1, DeliverCount DEF traceread
  <2>2. CASE pc' \in {"exit", "empty"} /\ UNCHANGED kernel
    BY <1>1, <1>2, <1>6, <2>2 DEF traceread, PCs
  <2>3. QED
    BY <1>6, <2>1, <2>2 DEF traceread
<1>7. CASE handle
  BY <1>7, HandleCount
<1>8. ASSUME NEW p \in Payload, Others(p)
      PROVE  CountInv'
  BY <1>8, RecordCount DEF Others
<1>9. CASE UNCHANGED vars
  BY <1>1, <1>2, <1>9 DEF vars
<1>10. QED
  BY <1>3, <1>4, <1>5, <1>6, <1>7, <1>8, <1>9 DEF Next, trace

\* The kernel's queue, the event in hand and the totals of the program add up, and
\* the loss that the latest event carries is at most one behind, in every state.
THEOREM CountAlways == Spec => []CountInv
<1>1. Init => CountInv
  BY InitCount
<1>2. CountInv /\ [Next]_vars => CountInv'
  BY NextCount
<1>3. QED
  BY <1>1, <1>2, PTL DEF Spec

\* Every event that the kernel ever recorded is in the totals of the program, in
\* its hands, unread or overwritten, and the loss it reports is at most one event
\* behind, for every size of the kernel's buffer and whatever other processes do.
THEOREM EveryEventCounted == Spec => []EveryEventIsCounted
<1>1. CountInv => EveryEventIsCounted
  BY DEF CountInv, CountsOK, KernelOK, LossOK, Loss, EveryEventIsCounted
<1>2. QED
  BY <1>1, CountAlways, PTL
-----------------------------------------------------------------------------
(* The window and the graph.                                               *)

\* The captured events that are counted at the tick x.
AtTick(w, x) == {j \in DOMAIN w : w[j].at = x}

\* The captured events are counted at a tick that the graph has reached.
HistoryOK ==
  /\ wanted \in Seq([event : Ev, at : 0..MaxTicks]) /\ Len(wanted) = seen
  /\ last_tick \in -1..MaxTicks /\ last_tick <= ticks
  /\ \A j \in DOMAIN wanted : wanted[j].at <= last_tick

\* The ring of rows starts at 0 until it is full, and holds the latest events.
WindowOK ==
  /\ recent \in [0..ROWS-1 -> Ev \cup {NoEvent}]
  /\ recent_start \in 0..ROWS-1
  /\ recent_count = IF Len(wanted) < ROWS THEN Len(wanted) ELSE ROWS
  /\ recent_count < ROWS => recent_start = 0
  /\ \A i \in 1..recent_count : recent[(recent_start + i - 1) % ROWS]
                                  = wanted[Len(wanted) - recent_count + i].event
  /\ args.rows >= ROWS => \A i \in DOMAIN wanted : wanted[i].event.seq \in drawn

\* The bar i places behind the position is that of the tick last_tick - i.
GraphOK ==
  /\ activity \in [0..WIDTH-1 -> Nat] /\ activity_pos \in 0..WIDTH-1
  /\ \A i \in 0..WIDTH-1 : activity[(activity_pos - i) % WIDTH]
                             = Cardinality(AtTick(wanted, last_tick - i))

\* The inductive invariant of the board, beside CountInv.
BoardInv == HistoryOK /\ WindowOK /\ GraphOK

Wrap(n, N) == IF n < 0 THEN n + N ELSE IF n < N THEN n ELSE n - N

\* Positions in a ring, without the modulus.
LEMMA Modulo ==
  ASSUME NEW N \in Nat, N >= 1, NEW a \in 0..N-1, NEW b \in 0..N
  PROVE  /\ (a + b) % N = Wrap(a + b, N) /\ Wrap(a + b, N) \in 0..N-1
         /\ b < N => (a - b) % N = Wrap(a - b, N) /\ Wrap(a - b, N) \in 0..N-1
BY DEF Wrap

LEMMA MinTwo ==
  ASSUME NEW a \in Int, NEW b \in Int
  PROVE  /\ Min({a, b}) = IF a <= b THEN a ELSE b
         /\ Max({a, b}) = IF a >= b THEN a ELSE b
BY DEF Min, Max

LEMMA MinThree ==
  ASSUME NEW a \in Int, NEW b \in Int, NEW c \in Int, a <= b, a <= c
  PROVE  Min({a, b, c}) = a
BY DEF Min

\* What is where in the graph after it was moved by d.
LEMMA ShiftedGraph ==
  ASSUME GraphOK, NEW d \in Nat, NEW i \in 0..WIDTH-1
  PROVE  /\ Shifted(d) \in [0..WIDTH-1 -> Nat] /\ ShiftedPos(d) \in 0..WIDTH-1
         /\ i < d => Shifted(d)[(ShiftedPos(d) - i) % WIDTH] = 0
         /\ i >= d => Shifted(d)[(ShiftedPos(d) - i) % WIDTH]
                        = activity[(activity_pos - (i - d)) % WIDTH]
<1>1. PICK m \in 0..WIDTH : m = Min({d, WIDTH}) /\ m = IF d <= WIDTH THEN d ELSE WIDTH
  BY MinTwo, Constants
<1>2. PICK a \in 0..WIDTH-1 : a = activity_pos
  BY DEF GraphOK
<1>3. PICK b \in 0..WIDTH-1 : b = ShiftedPos(d) /\ b = Wrap(a + m, WIDTH)
  <2>1. ShiftedPos(d) = (a + m) % WIDTH
    BY <1>1, <1>2 DEF ShiftedPos
  <2>2. QED
    BY <2>1, Modulo, Constants, ZenonT(30)
<1>4. PICK c \in 0..WIDTH-1 : c = (b - i) % WIDTH /\ c = Wrap(b - i, WIDTH)
  <2>1. i \in 0..WIDTH /\ i < WIDTH
    BY Constants
  <2>2. QED
    BY <2>1, Modulo, Constants, ZenonT(30)
<1>5. WIDTH \in Nat /\ WIDTH >= 1
  BY Constants
<1>6. PICK gone : gone = {(a + k) % WIDTH : k \in 1..m}
  BY ZenonT(30)
<1>7. Shifted(d) = [j \in 0..WIDTH-1 |-> IF j \in gone THEN 0 ELSE activity[j]]
  BY <1>1, <1>2, <1>6 DEF Shifted
<1>8. Shifted(d) \in [0..WIDTH-1 -> Nat]
  BY <1>7 DEF GraphOK
<1>9. ASSUME i < d PROVE c \in gone
  <2>1. PICK k \in 1..m : k = m - i
    BY <1>1, <1>5, <1>9
  <2>2. (a + k) % WIDTH = Wrap(a + k, WIDTH)
    <3>1. k \in 0..WIDTH
      BY <1>1, <1>5, <2>1
    <3>2. QED
      BY <1>5, <3>1, Modulo, ZenonT(30)
  <2>3. Wrap(a + k, WIDTH) = c
    <3>1. b = Wrap(a + m, WIDTH) /\ c = Wrap(b - i, WIDTH)
      BY <1>3, <1>4
    <3>2. QED
      BY <1>5, <2>1, <3>1 DEF Wrap
  <2>4. QED
    BY <1>6, <2>2, <2>3
<1>10. ASSUME i >= d
       PROVE  c \notin gone /\ c = (a - (i - d)) % WIDTH
  <2>1. PICK h \in 0..WIDTH : h = i - d /\ h < WIDTH
    BY <1>5, <1>10
  <2>2. (a - h) % WIDTH = Wrap(a - h, WIDTH)
    BY <1>5, <2>1, Modulo, ZenonT(30)
  <2>3. Wrap(a - h, WIDTH) = c /\ m = d
    BY <1>1, <1>3, <1>4, <1>5, <1>10, <2>1 DEF Wrap
  <2>4. ASSUME NEW k \in 1..m PROVE (a + k) % WIDTH # c
    <3>1. k \in 0..WIDTH
      BY <1>1, <1>5
    <3>2. (a + k) % WIDTH = Wrap(a + k, WIDTH)
      BY <1>5, <3>1, Modulo, ZenonT(30)
    <3>3. Wrap(a + k, WIDTH) # Wrap(a - h, WIDTH)
      BY <1>5, <1>10, <2>1, <2>3 DEF Wrap
    <3>4. QED
      BY <2>3, <3>2, <3>3
  <2>5. QED
    BY <1>6, <2>1, <2>2, <2>3, <2>4
<1>11. QED
  BY <1>2, <1>3, <1>4, <1>7, <1>8, <1>9, <1>10

LEMMA AtTickFinite ==
  ASSUME NEW w, NEW n \in Nat, DOMAIN w = 1..n, NEW x
  PROVE  /\ IsFiniteSet(AtTick(w, x)) /\ Cardinality(AtTick(w, x)) \in Nat
         /\ Cardinality(AtTick(w, x)) <= n
         /\ (\A j \in 1..n : w[j].at # x) => Cardinality(AtTick(w, x)) = 0
<1>1. IsFiniteSet(1..n) /\ Cardinality(1..n) = n
  BY FS_Interval
<1>2. AtTick(w, x) \subseteq 1..n
  BY DEF AtTick
<1>3. /\ IsFiniteSet(AtTick(w, x)) /\ Cardinality(AtTick(w, x)) <= n
  BY <1>1, <1>2, FS_Subset
<1>4. ASSUME \A j \in 1..n : w[j].at # x
      PROVE  Cardinality(AtTick(w, x)) = 0
  <2>1. AtTick(w, x) = {}
    BY <1>4 DEF AtTick
  <2>2. QED
    BY <2>1, FS_EmptySet
<1>5. QED
  BY <1>3, <1>4, FS_CardinalityType

\* A captured event is one more of its tick.
LEMMA AtTickAppend ==
  ASSUME NEW R, NEW w \in Seq(R), NEW r \in R, NEW x
  PROVE  Cardinality(AtTick(Append(w, r), x))
           = Cardinality(AtTick(w, x)) + (IF r.at = x THEN 1 ELSE 0)
<1>1. PICK n \in Nat : n = Len(w)
  OBVIOUS
<1>2. PICK v : v = Append(w, r)
  BY ZenonT(30)
<1>3. DOMAIN w = 1..n /\ DOMAIN v = 1..n+1 /\ v[n + 1] = r /\ \A j \in 1..n : v[j] = w[j]
  BY <1>1, <1>2
<1>4. AtTick(v, x) = IF r.at = x THEN AtTick(w, x) \cup {n + 1} ELSE AtTick(w, x)
  <2>1. ASSUME NEW j
        PROVE  j \in AtTick(v, x) <=> j \in AtTick(w, x) \/ (j = n + 1 /\ r.at = x)
    <3>1. j \in 1..n+1 <=> j \in 1..n \/ j = n + 1
      BY <1>1
    <3>2. QED
      BY <1>3, <3>1 DEF AtTick
  <2>2. QED
    BY <2>1, ZenonT(30)
<1>5. n + 1 \notin AtTick(w, x)
  BY <1>1, <1>3 DEF AtTick
<1>6. IsFiniteSet(AtTick(w, x)) /\ Cardinality(AtTick(w, x)) \in Nat
  BY <1>3, AtTickFinite
<1>7. Cardinality(AtTick(w, x) \cup {n + 1}) = Cardinality(AtTick(w, x)) + 1
  BY <1>5, <1>6, FS_AddElement, ZenonT(30)
<1>8. QED
  BY <1>2, <1>4, <1>6, <1>7

\* The graph moves on with the clock, to the tick l: the bars that stay are those of
\* the ticks that it still shows, and the new ones are empty.
LEMMA GraphMoves ==
  ASSUME HistoryOK, GraphOK, NEW d \in Nat, NEW l \in Int,
         \/ l = last_tick + d
         \/ last_tick = -1 /\ d = 0,
         NEW i \in 0..WIDTH-1
  PROVE  Shifted(d)[(ShiftedPos(d) - i) % WIDTH] = Cardinality(AtTick(wanted, l - i))
<1>1. PICK n \in Nat : DOMAIN wanted = 1..n /\ \A j \in 1..n : wanted[j].at \in 0..MaxTicks
  <2>1. PICK R : R = [event : Ev, at : 0..MaxTicks]
    BY ZenonT(30)
  <2>2. wanted \in Seq(R) /\ \A r \in R : r.at \in 0..MaxTicks
    BY <2>1 DEF HistoryOK
  <2>3. QED
    BY <2>2
<1>2. last_tick \in Int /\ \A j \in 1..n : wanted[j].at <= last_tick
  BY <1>1 DEF HistoryOK
<1>3. CASE last_tick = -1 /\ d = 0
  <2>1. n = 0
    BY <1>1, <1>2, <1>3, Constants
  <2>2. \A x : Cardinality(AtTick(wanted, x)) = 0
    BY <1>1, <2>1, AtTickFinite
  <2>3. Shifted(d)[(ShiftedPos(d) - i) % WIDTH] = activity[(activity_pos - (i - d)) % WIDTH]
    BY <1>3, ShiftedGraph
  <2>4. activity[(activity_pos - i) % WIDTH] = 0
    BY <2>2 DEF GraphOK
  <2>5. i - d = i
    BY <1>3
  <2>6. QED
    BY <2>2, <2>3, <2>4, <2>5
<1>4. CASE l = last_tick + d /\ i < d
  <2>1. \A j \in 1..n : wanted[j].at # l - i
    BY <1>1, <1>2, <1>4, Constants
  <2>2. Cardinality(AtTick(wanted, l - i)) = 0
    BY <1>1, <2>1, AtTickFinite
  <2>3. QED
    BY <1>4, <2>2, ShiftedGraph, ZenonT(30)
<1>5. CASE l = last_tick + d /\ i >= d
  <2>1. Shifted(d)[(ShiftedPos(d) - i) % WIDTH] = activity[(activity_pos - (i - d)) % WIDTH]
    BY <1>5, ShiftedGraph
  <2>2. PICK h \in 0..WIDTH-1 : h = i - d
    BY <1>5, Constants
  <2>3. activity[(activity_pos - h) % WIDTH] = Cardinality(AtTick(wanted, last_tick - h))
    BY DEF GraphOK
  <2>4. last_tick - h = l - i
    BY <1>2, <1>5, <2>2, Constants
  <2>5. QED
    BY <2>1, <2>2, <2>3, <2>4
<1>6. QED
  BY <1>3, <1>4, <1>5, Constants

LEMMA InitBoard ==
  ASSUME Init
  PROVE  BoardInv
<1>1. wanted = <<>> /\ Len(wanted) = 0 /\ DOMAIN wanted = {}
  BY DEF Init
<1>2. HistoryOK
  BY <1>1, Constants DEF Init, HistoryOK
<1>3. WindowOK
  BY <1>1, Constants DEF Init, WindowOK
<1>4. GraphOK
  <2>1. \A x : Cardinality(AtTick(wanted, x)) = 0
    <3>1. \A x : AtTick(wanted, x) = {}
      BY <1>1 DEF AtTick
    <3>2. QED
      BY <3>1, FS_EmptySet
  <2>2. ASSUME NEW i \in 0..WIDTH-1
        PROVE  activity[(activity_pos - i) % WIDTH] = 0
    <3>1. activity = [j \in 0..WIDTH-1 |-> 0] /\ activity_pos \in 0..WIDTH-1
      BY Constants DEF Init
    <3>2. (activity_pos - i) % WIDTH \in 0..WIDTH-1
      <4>1. i \in 0..WIDTH /\ i < WIDTH
        BY Constants
      <4>2. QED
        BY <3>1, <4>1, Modulo, Constants
    <3>3. QED
      BY <3>1, <3>2
  <2>3. QED
    BY <2>1, <2>2, Constants DEF Init, GraphOK
<1>5. QED
  BY <1>2, <1>3, <1>4 DEF BoardInv

\* The steps that leave the board alone.
LEMMA StillBoard ==
  ASSUME BoardInv, UNCHANGED <<output, args>>, ticks \in Int, ticks' \in Int, ticks <= ticks'
  PROVE  BoardInv'
<1>1. /\ UNCHANGED <<recent, recent_count, recent_start, seen, activity, activity_pos,
                     last_tick, wanted, drawn, args>>
  BY DEF output, window, graph
<1>2. HistoryOK'
  BY <1>1, Constants DEF BoardInv, HistoryOK
<1>3. WindowOK' /\ GraphOK'
  BY <1>1 DEF BoardInv, WindowOK, GraphOK
<1>4. QED
  BY <1>2, <1>3 DEF BoardInv

\* The history takes in one more event.
Captures(r) == wanted' = Append(wanted, r)

\* A row enters the window.
LEMMA KeepRowWindow ==
  ASSUME HistoryOK, WindowOK, NEW e \in Ev, KeepRow(e), UNCHANGED args, args.rows \in Int,
         NEW r \in [event : Ev, at : 0..MaxTicks], r.event = e, Captures(r)
  PROVE  WindowOK'
<1>1. PICK n \in Nat : /\ n = Len(wanted) /\ wanted \in Seq([event : Ev, at : 0..MaxTicks])
                       /\ DOMAIN wanted = 1..n
  BY DEF HistoryOK
<1>2. /\ Len(wanted') = n + 1 /\ DOMAIN wanted' = 1..n+1 /\ wanted'[n + 1] = r
      /\ \A j \in 1..n : wanted'[j] = wanted[j]
  BY <1>1 DEF Captures
<1>3. /\ recent \in [0..ROWS-1 -> Ev \cup {NoEvent}] /\ recent_start \in 0..ROWS-1
      /\ recent_count = IF n < ROWS THEN n ELSE ROWS
      /\ recent_count < ROWS => recent_start = 0
      /\ \A i \in 1..recent_count : recent[(recent_start + i - 1) % ROWS]
                                      = wanted[n - recent_count + i].event
      /\ args.rows >= ROWS => \A i \in DOMAIN wanted : wanted[i].event.seq \in drawn
  BY <1>1 DEF WindowOK
<1>4. PICK c, s, f :
        /\ c = IF recent_count = ROWS THEN ROWS ELSE recent_count + 1
        /\ s = IF recent_count = ROWS THEN recent_start ELSE recent_count
        /\ f = IF recent_count = ROWS THEN (recent_start + 1) % ROWS ELSE recent_start
  OBVIOUS
<1>5. /\ recent' = [recent EXCEPT ![s] = e] /\ recent_count' = c /\ recent_start' = f
      /\ drawBoard(recent', c, f)
  BY <1>4 DEF KeepRow
<1>6. /\ s \in 0..ROWS-1 /\ f \in 0..ROWS-1 /\ c \in 1..ROWS
      /\ c = IF n + 1 < ROWS THEN n + 1 ELSE ROWS
      /\ c < ROWS => f = 0
      /\ (f + c - 1) % ROWS = s
      /\ \A i \in 1..c-1 : (f + i - 1) % ROWS # s
  <2>1. CASE recent_count = ROWS
    <3>1. /\ c = ROWS /\ s = recent_start /\ n >= ROWS /\ ROWS \in 0..ROWS /\ 1 \in 0..ROWS
      BY <1>1, <1>3, <1>4, <2>1, Constants
    <3>2. f = Wrap(s + 1, ROWS) /\ f \in 0..ROWS-1
      <4>1. f = (s + 1) % ROWS /\ s \in 0..ROWS-1
        BY <1>3, <1>4, <2>1, <3>1
      <4>2. QED
        BY <3>1, <4>1, Modulo, Constants, ZenonT(30)
    <3>3. ASSUME NEW i \in 1..ROWS
          PROVE  (f + i - 1) % ROWS = Wrap(f + (i - 1), ROWS)
      <4>1. i - 1 \in 0..ROWS /\ f + i - 1 = f + (i - 1)
        BY <3>2, Constants
      <4>2. QED
        BY <3>2, <4>1, Modulo, Constants, ZenonT(30)
    <3>4. Wrap(f + (ROWS - 1), ROWS) = s
      BY <1>3, <3>1, <3>2, Constants DEF Wrap
    <3>5. \A i \in 1..ROWS-1 : Wrap(f + (i - 1), ROWS) # s
      BY <1>3, <3>1, <3>2, Constants DEF Wrap
    <3>6. /\ (f + ROWS - 1) % ROWS = s
          /\ \A i \in 1..ROWS-1 : (f + i - 1) % ROWS # s
      <4>1. ROWS \in 1..ROWS /\ \A i \in 1..ROWS-1 : i \in 1..ROWS
        BY Constants
      <4>2. QED
        BY <3>3, <3>4, <3>5, <4>1
    <3>7. c = IF n + 1 < ROWS THEN n + 1 ELSE ROWS
      BY <1>1, <3>1, Constants
    <3>8. QED
      BY <1>3, <3>1, <3>2, <3>6, <3>7, Constants
  <2>2. CASE recent_count # ROWS
    <3>1. n < ROWS /\ recent_count = n /\ c = n + 1 /\ s = n /\ f = 0
      BY <1>1, <1>3, <1>4, <2>2, Constants
    <3>2. ASSUME NEW i \in 1..n+1 PROVE (f + i - 1) % ROWS = i - 1
      <4>1. PICK k \in 0..ROWS-1 : k = i - 1 /\ f + i - 1 = k
        BY <1>1, <3>1, Constants
      <4>2. k % ROWS = k
        BY Constants
      <4>3. QED
        BY <4>1, <4>2
    <3>3. /\ (f + c - 1) % ROWS = s
          /\ \A i \in 1..c-1 : (f + i - 1) % ROWS # s
      <4>1. c \in 1..n+1 /\ \A i \in 1..c-1 : i \in 1..n+1 /\ i - 1 # n
        BY <1>1, <3>1
      <4>2. (f + c - 1) % ROWS = c - 1 /\ \A i \in 1..c-1 : (f + i - 1) % ROWS = i - 1
        BY <3>2, <4>1
      <4>3. c - 1 = s /\ s = n
        BY <1>1, <3>1
      <4>4. QED
        BY <4>1, <4>2, <4>3
    <3>4. /\ s \in 0..ROWS-1 /\ f \in 0..ROWS-1 /\ c \in 1..ROWS
          /\ c = IF n + 1 < ROWS THEN n + 1 ELSE ROWS
      BY <1>1, <3>1, Constants
    <3>5. QED
      BY <3>1, <3>3, <3>4, ZenonT(30)
  <2>3. QED
    BY <2>1, <2>2
<1>7. recent' \in [0..ROWS-1 -> Ev \cup {NoEvent}] /\ recent'[s] = e
      /\ \A j \in 0..ROWS-1 : j # s => recent'[j] = recent[j]
  BY <1>3, <1>5, <1>6
<1>8. ASSUME NEW i \in 1..c
      PROVE  recent'[(f + i - 1) % ROWS] = wanted'[n + 1 - c + i].event
  <2>1. CASE i = c
    BY <1>2, <1>6, <1>7, <2>1, Constants
  <2>2. CASE i < c
    <3>1. (f + i - 1) % ROWS \in 0..ROWS-1 /\ (f + i - 1) % ROWS # s
      <4>1. (f + i - 1) % ROWS # s
        BY <1>6, <2>2, Constants
      <4>2. i - 1 \in 0..ROWS /\ f + i - 1 = f + (i - 1)
        BY <1>6, Constants
      <4>3. (f + (i - 1)) % ROWS \in 0..ROWS-1
        BY <1>6, <4>2, Modulo, Constants
      <4>4. QED
        BY <4>1, <4>2, <4>3
    <3>2. recent'[(f + i - 1) % ROWS] = recent[(f + i - 1) % ROWS]
      BY <1>7, <3>1
    <3>3. PICK k \in 1..recent_count :
            /\ (f + i - 1) % ROWS = (recent_start + k - 1) % ROWS
            /\ n - recent_count + k = n + 1 - c + i
      <4>1. CASE recent_count = ROWS
        <5>1. c = ROWS /\ i + 1 \in 1..ROWS /\ i \in 0..ROWS /\ i - 1 \in 0..ROWS /\ 1 \in 0..ROWS
          BY <1>4, <2>2, <4>1, Constants
        <5>2. f = Wrap(recent_start + 1, ROWS) /\ f \in 0..ROWS-1
          <6>1. f = (recent_start + 1) % ROWS /\ recent_start \in 0..ROWS-1 /\ 1 \in 0..ROWS
            BY <1>3, <1>4, <4>1, <5>1
          <6>2. QED
            BY <6>1, Modulo, Constants, ZenonT(30)
        <5>3. (f + (i - 1)) % ROWS = Wrap(f + (i - 1), ROWS)
          BY <5>1, <5>2, Modulo, Constants, ZenonT(30)
        <5>4. (recent_start + i) % ROWS = Wrap(recent_start + i, ROWS)
          BY <1>3, <5>1, Modulo, Constants, ZenonT(30)
        <5>5. Wrap(f + (i - 1), ROWS) = Wrap(recent_start + i, ROWS)
          BY <1>3, <2>2, <5>1, <5>2, Constants DEF Wrap
        <5>6. f + i - 1 = f + (i - 1) /\ recent_start + (i + 1) - 1 = recent_start + i
          BY <1>3, <5>2
        <5>7. n - ROWS + (i + 1) = n + 1 - ROWS + i
          BY Constants
        <5>8. QED
          BY <4>1, <5>1, <5>3, <5>4, <5>5, <5>6, <5>7
      <4>2. CASE recent_count # ROWS
        <5>1. n < ROWS /\ recent_count = n /\ c = n + 1 /\ f = 0 /\ recent_start = 0
          BY <1>1, <1>3, <1>4, <4>2, Constants
        <5>2. i \in 1..n /\ n - n + i = n + 1 - (n + 1) + i
          BY <2>2, <5>1
        <5>3. QED
          BY <5>1, <5>2
      <4>3. QED
        BY <4>1, <4>2
    <3>4. recent[(recent_start + k - 1) % ROWS] = wanted[n - recent_count + k].event
      BY <1>3
    <3>5. n + 1 - c + i \in 1..n
      BY <1>6, <2>2, Constants
    <3>6. QED
      BY <1>2, <3>2, <3>3, <3>4, <3>5
  <2>3. i = c \/ i < c
    BY <1>6, Constants
  <2>4. QED
    BY <2>1, <2>2, <2>3
<1>9. ASSUME args.rows >= ROWS
      PROVE  \A i \in DOMAIN wanted' : wanted'[i].event.seq \in drawn'
  <2>1. Min({c, args.rows, ROWS}) = c
    BY <1>6, <1>9, MinThree, Constants
  <2>2. PICK w : w = [i \in 1..c |-> recent'[(f + i - 1) % ROWS]]
    BY ZenonT(30)
  <2>3. drawn' = drawn \cup {w[i].seq : i \in 1..c}
    BY <1>5, <2>1, <2>2, ZenonT(30) DEF drawBoard
  <2>4. c \in 1..c /\ w[c] = e
    BY <1>6, <1>7, <2>2, Constants
  <2>5. e.seq \in drawn'
    BY <2>3, <2>4
  <2>6. ASSUME NEW i \in DOMAIN wanted' PROVE wanted'[i].event.seq \in drawn'
    <3>1. CASE i = n + 1
      BY <1>2, <2>5, <3>1
    <3>2. CASE i \in 1..n
      BY <1>1, <1>2, <1>3, <1>9, <2>3, <3>2
    <3>3. QED
      BY <1>1, <1>2, <3>1, <3>2
  <2>7. QED
    BY <2>6
<1>10. recent_count' = c /\ recent_start' = f /\ Len(wanted') = n + 1 /\ args' = args
  BY <1>2, <1>5
<1>11. \A i \in 1..recent_count' : recent'[(recent_start' + i - 1) % ROWS]
                                     = wanted'[Len(wanted') - recent_count' + i].event
  <2>1. SUFFICES ASSUME NEW i \in 1..c
                 PROVE  recent'[(recent_start' + i - 1) % ROWS]
                          = wanted'[Len(wanted') - recent_count' + i].event
    BY <1>10, Zenon
  <2>2. /\ recent_start' + i - 1 = f + i - 1
        /\ Len(wanted') - recent_count' + i = n + 1 - c + i
    BY <1>6, <1>10, Constants
  <2>3. QED
    BY <1>8, <2>2
<1>12. /\ recent_start' \in 0..ROWS-1
       /\ recent_count' < ROWS => recent_start' = 0
       /\ recent_count' = IF Len(wanted') < ROWS THEN Len(wanted') ELSE ROWS
  BY <1>6, <1>10
<1>13. args'.rows >= ROWS => \A i \in DOMAIN wanted' : wanted'[i].event.seq \in drawn'
  BY <1>9, <1>10, Zenon
<1>14. QED
  BY <1>7, <1>11, <1>12, <1>13, Zenon DEF WindowOK

\* The tick that an event is counted at.
LEMMA LatestTick ==
  ASSUME HistoryOK, ticks \in 0..MaxTicks, NEW e \in Ev, e.ticks <= ticks, CountActivity(e)
  PROVE  /\ last_tick' \in 0..MaxTicks /\ last_tick <= last_tick' /\ last_tick' <= ticks
         /\ \E d \in Nat :
              /\ last_tick' = last_tick + d \/ (last_tick = -1 /\ d = 0)
              /\ activity' = [Shifted(d) EXCEPT ![ShiftedPos(d)] = @ + 1]
              /\ activity_pos' = ShiftedPos(d)
<1>1. PICK t \in 0..MaxTicks : t = e.ticks /\ t <= ticks
  BY EventFields
<1>2. PICK l \in -1..MaxTicks : l = last_tick /\ l <= ticks
  BY DEF HistoryOK
<1>3. PICK d : d = IF l = -1 \/ t <= l THEN 0 ELSE t - l
  OBVIOUS
<1>4. /\ activity' = [Shifted(d) EXCEPT ![ShiftedPos(d)] = @ + 1]
      /\ activity_pos' = ShiftedPos(d)
      /\ last_tick' = Max({l, t})
  BY <1>1, <1>2, <1>3 DEF CountActivity
<1>5. Max({l, t}) = IF l >= t THEN l ELSE t
  BY MinTwo, Constants
<1>6. d \in Nat /\ (last_tick' = l + d \/ (l = -1 /\ d = 0))
  BY <1>3, <1>4, <1>5, Constants
<1>7. last_tick' \in 0..MaxTicks /\ l <= last_tick' /\ last_tick' <= ticks
  BY <1>1, <1>2, <1>4, <1>5, Constants
<1>8. QED
  BY <1>2, <1>4, <1>6, <1>7, ZenonT(30)

\* The bar of the latest tick grows by the event.
LEMMA CountGraph ==
  ASSUME HistoryOK, GraphOK, NEW d \in Nat, last_tick' \in 0..MaxTicks,
         last_tick' = last_tick + d \/ (last_tick = -1 /\ d = 0),
         activity' = [Shifted(d) EXCEPT ![ShiftedPos(d)] = @ + 1],
         activity_pos' = ShiftedPos(d),
         NEW r \in [event : Ev, at : 0..MaxTicks], r.at = last_tick', Captures(r)
  PROVE  GraphOK'
<1>1. PICK g, p : g = Shifted(d) /\ p = ShiftedPos(d)
  OBVIOUS
<1>2. PICK l \in 0..MaxTicks : l = last_tick'
  OBVIOUS
<1>3. g \in [0..WIDTH-1 -> Nat] /\ p \in 0..WIDTH-1
  <2>1. 0 \in 0..WIDTH-1
    BY Constants
  <2>2. QED
    BY <1>1, <2>1, ShiftedGraph
<1>4. /\ activity' \in [0..WIDTH-1 -> Nat] /\ activity_pos' = p
      /\ activity'[p] = g[p] + 1
      /\ \A j \in 0..WIDTH-1 : j # p => activity'[j] = g[j]
  BY <1>1, <1>3
<1>5. ASSUME NEW i \in 0..WIDTH-1
      PROVE  activity'[(p - i) % WIDTH] = Cardinality(AtTick(wanted', l - i))
  <2>1. g[(p - i) % WIDTH] = Cardinality(AtTick(wanted, l - i))
    <3>1. l \in Int /\ (l = last_tick + d \/ (last_tick = -1 /\ d = 0))
      BY <1>2, Constants
    <3>2. QED
      BY <1>1, <3>1, GraphMoves
  <2>2. PICK j \in 0..WIDTH-1 : j = (p - i) % WIDTH /\ j = Wrap(p - i, WIDTH)
    <3>1. i \in 0..WIDTH /\ i < WIDTH
      BY Constants
    <3>2. QED
      BY <1>3, <3>1, Modulo, Constants, ZenonT(30)
  <2>3. j = p <=> i = 0
    BY <1>3, <2>2, Constants DEF Wrap
  <2>4. Cardinality(AtTick(wanted', l - i))
          = Cardinality(AtTick(wanted, l - i)) + (IF r.at = l - i THEN 1 ELSE 0)
    <3>1. PICK R : R = [event : Ev, at : 0..MaxTicks] /\ wanted \in Seq(R) /\ r \in R
      BY ZenonT(30) DEF HistoryOK
    <3>2. QED
      BY <3>1, AtTickAppend, ZenonT(30) DEF Captures
  <2>5. r.at = l - i <=> i = 0
    <3>1. l = l - i <=> i = 0
      BY Constants
    <3>2. QED
      BY <1>2, <3>1, ZenonT(30)
  <2>6. g[j] \in Nat
    BY <1>3
  <2>7. QED
    BY <1>4, <2>1, <2>2, <2>3, <2>4, <2>5, <2>6
<1>6. QED
  BY <1>2, <1>3, <1>4, <1>5 DEF GraphOK

\* The loop's body: an event that passes the filter enters the window and the graph.
LEMMA HandleBoard ==
  ASSUME CountInv, BoardInv, handle
  PROVE  BoardInv'
<1>1. /\ HistoryOK /\ WindowOK /\ GraphOK /\ KernelOK /\ pc = "event" /\ args.rows \in Int
      /\ ticks \in 0..MaxTicks /\ UNCHANGED <<ticks, args>>
  BY DashAssumption, ZenonT(30) DEF CountInv, BoardInv, KernelOK, handle, main
<1>2. PICK e : e = dst[Self][1]
  OBVIOUS
<1>3. e \in Ev /\ e.ticks <= ticks
  <2>1. dst[Self] \in Seq(Ev) /\ Len(dst[Self]) = 1
    BY <1>1 DEF KernelOK
  <2>2. 1 \in DOMAIN dst[Self] /\ dst[Self][1] \in Ev
    BY <2>1
  <2>3. QED
    BY <1>1, <1>2, <2>2 DEF KernelOK
<1>4. CASE UNCHANGED output
  BY <1>1, <1>4, StillBoard, Constants
<1>5. CASE /\ CountActivity(e) /\ KeepRow(e) /\ seen' = seen + 1
           /\ wanted' = Append(wanted, [event |-> e, at |-> last_tick'])
  <2>1. /\ last_tick' \in 0..MaxTicks /\ last_tick <= last_tick' /\ last_tick' <= ticks
    BY <1>1, <1>3, <1>5, LatestTick
  <2>2. PICK r \in [event : Ev, at : 0..MaxTicks] :
          r.event = e /\ r.at = last_tick' /\ Captures(r)
    <3>1. PICK r : r = [event |-> e, at |-> last_tick']
      BY ZenonT(30)
    <3>2. r \in [event : Ev, at : 0..MaxTicks] /\ r.event = e /\ r.at = last_tick'
      BY <1>3, <2>1, <3>1
    <3>3. Captures(r)
      BY <1>5, <3>1 DEF Captures
    <3>4. QED
      BY <3>2, <3>3
  <2>3. WindowOK'
    BY <1>1, <1>3, <1>5, <2>2, KeepRowWindow
  <2>4. GraphOK'
    <3>1. PICK d \in Nat :
            /\ last_tick' = last_tick + d \/ (last_tick = -1 /\ d = 0)
            /\ activity' = [Shifted(d) EXCEPT ![ShiftedPos(d)] = @ + 1]
            /\ activity_pos' = ShiftedPos(d)
      BY <1>1, <1>3, <1>5, LatestTick
    <3>2. QED
      BY <1>1, <2>1, <2>2, <3>1, CountGraph, ZenonT(30)
  <2>5. HistoryOK'
    <3>1. PICK R : R = [event : Ev, at : 0..MaxTicks] /\ r \in R
      BY ZenonT(30)
    <3>2. PICK n \in Nat : n = Len(wanted) /\ n = seen /\ wanted \in Seq(R)
      BY <1>1, <3>1 DEF HistoryOK
    <3>3. /\ wanted' \in Seq(R) /\ Len(wanted') = n + 1 /\ wanted'[n + 1] = r
          /\ DOMAIN wanted = 1..n /\ DOMAIN wanted' = 1..n+1
          /\ \A j \in 1..n : wanted'[j] = wanted[j]
      <4>1. r \in R /\ wanted' = Append(wanted, r)
        BY <2>2, <3>1 DEF Captures
      <4>2. n = Len(wanted) /\ wanted \in Seq(R)
        BY <3>2
      <4>3. QED
        BY <4>1, <4>2
    <3>4. ASSUME NEW j \in DOMAIN wanted' PROVE wanted'[j].at <= last_tick'
      <4>1. CASE j = n + 1
        BY <2>1, <2>2, <3>3, <4>1, Constants
      <4>2. CASE j \in 1..n
        <5>1. wanted[j] \in R /\ wanted[j].at <= last_tick /\ wanted'[j] = wanted[j]
          BY <1>1, <3>2, <3>3, <4>2 DEF HistoryOK
        <5>2. wanted[j].at \in Int /\ last_tick \in Int /\ last_tick' \in Int
          BY <1>1, <2>1, <3>1, <5>1, Constants DEF HistoryOK
        <5>3. QED
          BY <2>1, <5>1, <5>2
      <4>3. QED
        BY <3>2, <3>3, <4>1, <4>2
    <3>5. last_tick' \in -1..MaxTicks /\ last_tick' <= ticks' /\ Len(wanted') = seen'
      BY <1>1, <1>5, <2>1, <3>2, <3>3, Constants
    <3>6. QED
      BY <3>1, <3>3, <3>4, <3>5 DEF HistoryOK
  <2>6. QED
    BY <2>3, <2>4, <2>5 DEF BoardInv
<1>6. QED
  BY <1>2, <1>4, <1>5, ZenonT(30) DEF handle

\* The idle loop: the graph moves on to now.
LEMMA IdleBoard ==
  ASSUME BoardInv, idle, ticks \in 0..MaxTicks
  PROVE  BoardInv'
<1>1. /\ HistoryOK /\ WindowOK /\ GraphOK
      /\ UNCHANGED <<ticks, args, recent, recent_count, recent_start, seen, wanted>>
      /\ last_tick' = ticks
  BY DEF BoardInv, idle, window
<1>2. PICK l \in -1..MaxTicks : l = last_tick /\ l <= ticks
  BY <1>1 DEF HistoryOK
<1>3. PICK d \in Nat : d = IF l = -1 THEN 0 ELSE ticks - l
  <2>1. l \in Int /\ ticks \in Int /\ ticks - l \in Nat
    BY <1>2, Constants
  <2>2. QED
    BY <2>1, ZenonT(30)
<1>4. activity' = Shifted(d) /\ activity_pos' = ShiftedPos(d) /\ drawn \subseteq drawn'
  BY <1>2, <1>3 DEF idle, drawBoard
<1>5. HistoryOK'
  <2>1. ASSUME NEW j \in DOMAIN wanted PROVE wanted[j].at <= ticks
    <3>1. wanted[j].at \in 0..MaxTicks /\ wanted[j].at <= l
      <4>1. PICK R : R = [event : Ev, at : 0..MaxTicks]
        BY ZenonT(30)
      <4>2. \A r \in R : r.at \in 0..MaxTicks
        BY <4>1
      <4>3. wanted \in Seq(R) /\ wanted[j].at <= l
        BY <1>1, <1>2, <4>1 DEF HistoryOK
      <4>4. QED
        BY <4>2, <4>3
    <3>2. QED
      BY <1>2, <3>1, Constants
  <2>2. ticks \in -1..MaxTicks /\ ticks <= ticks
    BY Constants
  <2>3. QED
    BY <1>1, <2>1, <2>2 DEF HistoryOK
<1>6. WindowOK'
  BY <1>1, <1>4 DEF WindowOK
<1>7. GraphOK'
  <2>1. /\ ticks \in Int
        /\ ticks = last_tick + d \/ (last_tick = -1 /\ d = 0)
    BY <1>2, <1>3, Constants
  <2>2. Shifted(d) \in [0..WIDTH-1 -> Nat] /\ ShiftedPos(d) \in 0..WIDTH-1
    <3>1. 0 \in 0..WIDTH-1
      BY Constants
    <3>2. QED
      BY <1>1, <3>1, ShiftedGraph, ZenonT(30)
  <2>3. \A i \in 0..WIDTH-1 : Shifted(d)[(ShiftedPos(d) - i) % WIDTH]
                                = Cardinality(AtTick(wanted, ticks - i))
    BY <1>1, <2>1, GraphMoves
  <2>4. QED
    BY <1>1, <1>4, <2>2, <2>3 DEF GraphOK
<1>8. QED
  BY <1>5, <1>6, <1>7 DEF BoardInv

\* Every step keeps the invariant of the board.
LEMMA NextBoard ==
  ASSUME CountInv, BoardInv, [Next]_vars
  PROVE  BoardInv'
<1>1. ticks \in 0..MaxTicks /\ ticks \in Int
  BY Constants DEF CountInv, KernelOK
<1>2. CASE handle
  BY <1>2, HandleBoard
<1>3. CASE idle
  BY <1>1, <1>3, IdleBoard
<1>4. CASE Tick
  BY <1>1, <1>4, StillBoard DEF Tick, main
<1>5. CASE exec \/ flush \/ traceread \/ oneShot \/ wake
  BY <1>1, <1>5, StillBoard DEF exec, flush, traceread, oneShot, wake, main
<1>6. CASE \E p \in Payload : Others(p)
  BY <1>1, <1>6, StillBoard DEF Others, main
<1>7. CASE UNCHANGED vars
  BY <1>1, <1>7, StillBoard DEF vars, main
<1>8. QED
  BY <1>2, <1>3, <1>4, <1>5, <1>6, <1>7 DEF Next, trace

\* The bounds of TypeOK: nothing on the board is larger than the events recorded.
LEMMA BoardTypes ==
  ASSUME CountInv, BoardInv
  PROVE  TypeOK
<1>1. KernelOK /\ CountsOK /\ HistoryOK /\ WindowOK /\ GraphOK
  BY DEF CountInv, BoardInv
<1>2. /\ ticks \in 0..MaxTicks /\ pc \in PCs /\ queue \in Seq(Ev) /\ dst[Self] \in Seq(Ev)
      /\ overwritten \in 0..MaxEvents
  BY <1>1 DEF KernelOK, CountsOK
<1>3. /\ SumFunction(total) \in 0..MaxEvents
      /\ total \in [Type -> Nat] /\ \A t \in Type : total[t] <= SumFunction(total)
  <2>1. /\ SumFunction(total) \in Nat /\ total \in [Type -> Nat]
        /\ \A t \in Type : total[t] <= SumFunction(total)
    BY <1>1, SumBound, Constants DEF CountsOK
  <2>2. Len(dst[Self]) \in Nat /\ Len(queue) \in Nat /\ lost \in Nat /\ next \in 0..MaxEvents
    BY <1>1, <1>2 DEF KernelOK
  <2>3. QED
    BY <1>1, <2>1, <2>2, Constants DEF CountsOK
<1>4. seen \in 0..MaxEvents /\ total \in [Type -> 0..MaxEvents] /\ shown \in [Type -> 0..MaxEvents]
  <2>1. /\ shown \in [Type -> Nat] /\ \A t \in Type : shown[t] <= total[t]
        /\ seen \in Nat /\ seen <= SumFunction(total)
    BY <1>1 DEF CountsOK
  <2>2. \A t \in Type : total[t] \in 0..MaxEvents /\ shown[t] \in 0..MaxEvents
    BY <1>3, <2>1, Constants
  <2>3. QED
    BY <1>3, <2>1, <2>2, Constants
<1>5. /\ recent \in [0..ROWS-1 -> Ev \cup {NoEvent}] /\ recent_start \in 0..ROWS-1
      /\ recent_count \in 0..ROWS
  <2>1. Len(wanted) \in Nat
    BY <1>1 DEF HistoryOK
  <2>2. QED
    BY <1>1, <2>1, Constants DEF WindowOK
<1>6. activity \in [0..WIDTH-1 -> 0..MaxEvents] /\ activity_pos \in 0..WIDTH-1
  <2>1. activity \in [0..WIDTH-1 -> Nat] /\ activity_pos \in 0..WIDTH-1
    BY <1>1 DEF GraphOK
  <2>2. ASSUME NEW j \in 0..WIDTH-1 PROVE activity[j] \in 0..MaxEvents
    <3>1. PICK i \in 0..WIDTH-1 : i = Wrap(activity_pos - j, WIDTH)
      <4>1. Wrap(activity_pos - j, WIDTH) \in 0..WIDTH-1
        BY <2>1, Constants DEF Wrap
      <4>2. QED
        BY <4>1
    <3>2. (activity_pos - i) % WIDTH = Wrap(activity_pos - i, WIDTH)
      <4>1. i \in 0..WIDTH /\ i < WIDTH
        BY Constants
      <4>2. QED
        BY <2>1, <4>1, Modulo, Constants, ZenonT(30)
    <3>3. Wrap(activity_pos - i, WIDTH) = j
      BY <2>1, <3>1, Constants DEF Wrap
    <3>4. activity[j] = Cardinality(AtTick(wanted, last_tick - i))
      BY <1>1, <3>2, <3>3 DEF GraphOK
    <3>5. DOMAIN wanted = 1..seen /\ seen \in Nat
      BY <1>1 DEF HistoryOK
    <3>6. activity[j] \in Nat /\ activity[j] <= seen
      BY <3>4, <3>5, AtTickFinite
    <3>7. QED
      BY <1>4, <3>6, Constants
  <2>3. QED
    BY <2>1, <2>2
<1>7. last_tick \in -1..MaxTicks
  BY <1>1 DEF HistoryOK
<1>8. QED
  BY <1>2, <1>4, <1>5, <1>6, <1>7 DEF TypeOK, PCs, Ev

\* The board agrees with what was captured: the window holds the latest events, in
\* order; each bar of the graph is the number of events of its tick; and every
\* captured event was on the screen if all rows are drawn.  This holds for every
\* size of the window and of the graph, however the events, the clock and the idle
\* loop interleave.
THEOREM BoardAlwaysMatches == Spec => []BoardMatchesHistory
<1>1. Init => BoardInv
  BY InitBoard
<1>2. CountInv /\ BoardInv /\ [Next]_vars => BoardInv'
  BY NextBoard
<1>3. CountInv /\ BoardInv => BoardMatchesHistory
  <2>1. SUFFICES ASSUME CountInv, BoardInv PROVE BoardMatchesHistory
    OBVIOUS
  <2>2. TypeOK
    BY <2>1, BoardTypes
  <2>3. HistoryOK /\ WindowOK /\ GraphOK
    BY <2>1 DEF BoardInv
  <2>4. PICK k : k = Min({ROWS, Len(wanted)}) /\ k = recent_count
    <3>1. Len(wanted) \in Nat
      BY <2>3 DEF HistoryOK
    <3>2. Min({ROWS, Len(wanted)}) = IF ROWS <= Len(wanted) THEN ROWS ELSE Len(wanted)
      BY <3>1, MinTwo, Constants
    <3>3. recent_count = IF Len(wanted) < ROWS THEN Len(wanted) ELSE ROWS
      BY <2>3 DEF WindowOK
    <3>4. QED
      BY <3>1, <3>2, <3>3, Constants
  <2>5. /\ \A i \in 1..k : recent[(recent_start + i - 1) % ROWS]
                             = wanted[Len(wanted) - k + i].event
        /\ args.rows >= ROWS => \A i \in DOMAIN wanted : wanted[i].event.seq \in drawn
    BY <2>3, <2>4 DEF WindowOK
  <2>6. \A i \in 0..WIDTH-1 :
          activity[(activity_pos - i) % WIDTH]
            = Cardinality({j \in DOMAIN wanted : wanted[j].at = last_tick - i})
    BY <2>3 DEF GraphOK, AtTick
  <2>7. QED
    BY <2>2, <2>4, <2>5, <2>6, ZenonT(30) DEF BoardMatchesHistory
<1>4. QED
  BY <1>1, <1>2, <1>3, CountAlways, PTL DEF Spec
=============================================================================
