------------------------------- MODULE Memory -------------------------------
(***************************************************************************)
(* Physical pages (kalloc.c), the page tables of processes (vm.c), and the *)
(* calls that build, resize, copy, replace and free an address space:      *)
(* userinit, growproc, fork, wait (proc.c) and exec (exec.c).              *)
(*                                                                         *)
(* Only a process, or its parent, touches its page table, and the free     *)
(* list has a lock: a call is one step.  Addresses are counted in units of *)
(* which a page has PGSIZE.  Page v of an address space is [v * PGSIZE,    *)
(* (v + 1) * PGSIZE); one page table reaches all of them, so that an       *)
(* address space with a page has three tables below its pml4.  The         *)
(* functions of vm.c are operators on a record m: the free pages, the      *)
(* address space pg that they change, a value returned and the panic.      *)
(***************************************************************************)
EXTENDS Integers, SequencesExt

CONSTANTS Slot,      \* of ptable.proc; 1 is init
          NPages,
          PGSIZE,
          KERNBASE,  \* user addresses are below
          Program,   \* the ends of the segments of the programs, as sequences
          Growth     \* the arguments of sbrk

Page == 1..NPages
VPage == 0..(KERNBASE \div PGSIZE)
Unsigned(a) == IF a < 0 THEN 2 * KERNBASE + a ELSE a    \* above any address
PGROUNDUP(a) == (a + PGSIZE - 1) \div PGSIZE     \* as a page number

VARIABLES kfreelist,  \* how often each page is on the free list
          space,      \* the processes: state, size, kstack and page table
          crash       \* the panic that stopped the machine

vars == <<kfreelist, space, crash>>

Absent == [page |-> 0, user |-> FALSE]
NoSpace == [pml4 |-> 0, tables |-> <<>>, map |-> [v \in VPage |-> Absent]]
Unused == [state |-> "unused", sz |-> 0, kstack |-> 0, pgdir |-> NoSpace]
State(pg) == [free |-> kfreelist, pg |-> pg, ret |-> 0, panic |-> "no"]
-----------------------------------------------------------------------------
\* The free list is a bag: which of its pages kalloc takes makes no difference.
kfree(m, x) == [m EXCEPT !.free[x] = @ + 1]
kalloc(m) ==
  LET free == {x \in Page : m.free[x] > 0}
      x == CHOOSE y \in free : \A z \in free : y <= z
  IN IF free = {} THEN [m EXCEPT !.panic = "Out of memory!", !.ret = 0]
     ELSE [m EXCEPT !.free[x] = @ - 1, !.ret = x]

setupkvm(m) ==
  LET k == kalloc(m) IN [k EXCEPT !.pg = [NoSpace EXCEPT !.pml4 = k.ret]]

\* With alloc: the page directory pointers, the page directory, the page table.
walkpgdir(m) ==
  LET pdp == kalloc(m)
      pd == kalloc(pdp)
      pgtab == kalloc(pd)
  IN IF m.pg.tables # <<>> THEN m
     ELSE [pgtab EXCEPT !.pg.tables = <<pdp.ret, pd.ret, pgtab.ret>>]

mappages(m, v, pte) ==
  LET w == walkpgdir(m)
  IN [w EXCEPT !.pg.map[v] = pte,
               !.panic = IF w.pg.map[v] # Absent THEN "remap" ELSE @]
newPage(m, v, user) ==
  LET k == kalloc(m) IN mappages(k, v, [page |-> k.ret, user |-> user])

inituvm(m) == newPage(m, 1, TRUE)

allocuvm(m, oldsz, newsz) ==
  IF newsz >= KERNBASE THEN [m EXCEPT !.ret = 0]
  ELSE IF newsz < oldsz THEN [m EXCEPT !.ret = oldsz]
  ELSE [FoldLeft(LAMBDA a, v : newPage(a, v, TRUE), m,
                 [k \in 1..(PGROUNDUP(newsz) - PGROUNDUP(oldsz)) |->
                    PGROUNDUP(oldsz) + k - 1])
          EXCEPT !.ret = newsz]

\* Free the pages of S that are mapped.
unmap(m, S) ==
  LET gone == {v \in S : m.pg.map[v] # Absent}
      free(a, v) == [kfree(a, a.pg.map[v].page) EXCEPT !.pg.map[v] = Absent]
  IN FoldLeft(free, m, SetToSeq(gone))

\* Faulty variant: the page that the new end is in goes as well.
deallocuvmDown(m, oldsz, newsz) ==
  IF newsz >= oldsz THEN [m EXCEPT !.ret = oldsz]
  ELSE [unmap(m, (newsz \div PGSIZE)..(PGROUNDUP(oldsz) - 1)) EXCEPT !.ret = newsz]

deallocuvm(m, oldsz, newsz) ==
  IF newsz >= oldsz THEN [m EXCEPT !.ret = oldsz]
  ELSE [unmap(m, PGROUNDUP(newsz)..(PGROUNDUP(oldsz) - 1)) EXCEPT !.ret = newsz]

freeTables(m) == FoldLeft(kfree, kfree(m, m.pg.pml4), m.pg.tables)
\* Faulty variant: the page below the stack, which is not PTE_U, is left.
freevmUser(m) == freeTables(unmap(m, {v \in VPage : m.pg.map[v].user}))

freevm(m) == freeTables(unmap(m, VPage))

clearpteu(m, v) == [m EXCEPT !.pg.map[v].user = FALSE]

\* The copy of an address space of size sz, page by page with its flags.
copyuvm(m, pg, sz) ==
  LET copy(a, v) ==
        [newPage(a, v, pg.map[v].user) EXCEPT !.panic =
           IF pg.map[v] = Absent THEN "copyuvm: page not present" ELSE @]
  IN FoldLeft(copy, setupkvm(m), [k \in 1..(PGROUNDUP(sz) - 1) |-> k])
-----------------------------------------------------------------------------
Running(p) == space[p].state = "used" /\ crash = "no"
\* The outcome of a call of p: the free pages, and what becomes of slot q.
Outcome(m, q, new) ==
  IF m.panic # "no" THEN crash' = m.panic /\ UNCHANGED <<kfreelist, space>>
  ELSE kfreelist' = m.free /\ space' = [space EXCEPT ![q] = new] /\ UNCHANGED crash

\* kinit1 frees every page; userinit makes the first process.
Init ==
  LET all == [free |-> [x \in 0..NPages |-> IF x = 0 THEN 0 ELSE 1],
              pg |-> NoSpace, ret |-> 0, panic |-> "no"]
      stack == kalloc(all)
      m == inituvm(setupkvm(stack))
  IN /\ kfreelist = m.free /\ crash = "no"
     /\ space = [p \in Slot |->
          IF p = 1 THEN [state |-> "used", sz |-> 2 * PGSIZE,
                         kstack |-> stack.ret, pgdir |-> m.pg]
          ELSE Unused]

\* A size of 0 is taken for a failure: the pages are gone, proc->sz is as it was,
\* and the process will fault.
growproc(p, n) ==
  LET s == space[p]
      m == IF n > 0 THEN allocuvm(State(s.pgdir), s.sz, s.sz + n)
                    ELSE deallocuvm(State(s.pgdir), s.sz, Unsigned(s.sz + n))
  IN /\ Running(p)
     /\ Outcome(m, p, IF m.ret # 0 THEN [s EXCEPT !.sz = m.ret, !.pgdir = m.pg]
                      ELSE [s EXCEPT !.pgdir = m.pg,
                                     !.state = IF n < 0 THEN "faulty" ELSE @])

fork(p, q) ==
  LET stack == kalloc(State(NoSpace))
      m == copyuvm(stack, space[p].pgdir, space[p].sz)
  IN /\ Running(p) /\ space[q] = Unused
     /\ Outcome(m, q, [state |-> "used", sz |-> space[p].sz,
                       kstack |-> stack.ret, pgdir |-> m.pg])

\* exec builds the new image beside the old one.  It fails before it has a page
\* table, at a segment (one that ends too high, or that it cannot load), or at the
\* stack (one that ends too high, or whose arguments do not fit).
exec(p, segments, fail) ==
  LET s == space[p]
      segment(m, end) == IF m.ret = 0 THEN m ELSE allocuvm(m, m.ret, end)
      load(k) == FoldLeft(segment, [setupkvm(State(NoSpace)) EXCEPT !.ret = PGSIZE],
                          SubSeq(segments, 1, k))
      loaded == load(Len(segments))
      top == PGROUNDUP(loaded.ret) + 2
      stack == allocuvm(loaded, (top - 2) * PGSIZE, top * PGSIZE)
      new == clearpteu(stack, top - 2)
  IN /\ Running(p)
     /\ IF fail = "header" THEN UNCHANGED vars
        ELSE IF fail = "segment"
          THEN \E k \in 0..Len(segments) : Outcome(freevm(load(k)), p, s)
        ELSE IF loaded.ret = 0 THEN Outcome(freevm(loaded), p, s)
        ELSE IF stack.ret = 0 THEN Outcome(freevm(stack), p, s)
        ELSE IF fail = "args" THEN Outcome(freevm(new), p, s)
        ELSE Outcome(freevm([new EXCEPT !.pg = s.pgdir]), p,
                     [s EXCEPT !.sz = new.ret, !.pgdir = new.pg])

\* exit, of any process but init (which only a fault can end).
exit(p) ==
  /\ space[p].state \in {"used", "faulty"} /\ crash = "no"
  /\ \/ /\ p # 1
        /\ space' = [space EXCEPT ![p].state = "zombie"]
        /\ UNCHANGED <<kfreelist, crash>>
     \/ /\ p = 1 /\ space[p].state = "faulty"
        /\ crash' = "init exiting" /\ UNCHANGED <<kfreelist, space>>

\* The part of wait that frees a zombie.
wait(p) ==
  /\ space[p].state = "zombie" /\ crash = "no"
  /\ Outcome(freevm(kfree(State(space[p].pgdir), space[p].kstack)), p, Unused)

halted == crash # "no" /\ UNCHANGED vars

Next ==
  \/ \E p \in Slot : \/ exit(p) \/ wait(p)
                     \/ \E n \in Growth : growproc(p, n)
                     \/ \E q \in Slot : fork(p, q)
                     \/ \E e \in Program, f \in {"no", "header", "segment", "args"} :
                          exec(p, e, f)
  \/ halted

Spec == Init /\ [][Next]_vars
-----------------------------------------------------------------------------
\* What a process uses a page for: its kernel stack, a table, or page v.
Uses(x) ==
  {<<p, u>> \in Slot \X {"kstack", "pml4"} :
     x = IF u = "kstack" THEN space[p].kstack ELSE space[p].pgdir.pml4}
  \cup {<<p, k>> \in Slot \X (1..3) : /\ k \in DOMAIN space[p].pgdir.tables
                                      /\ space[p].pgdir.tables[k] = x}
  \cup {<<p, -v>> : <<p, v>> \in {<<q, w>> \in Slot \X VPage :
                                   space[q].pgdir.map[w].page = x}}

\* Every page is in one place: once on the free list, or in use by one process
\* for one purpose.  So no call leaks a page or frees one that is in use, also
\* not when it fails halfway, and no two processes share one.
PagesOwnedOnce == \A x \in Page : kfreelist[x] + Cardinality(Uses(x)) = 1

\* A process has exactly the pages from PGSIZE up to its size, through every
\* sequence of sbrk, exec and fork, so that copyuvm and mappages never panic.
ImageIsWhole ==
  /\ crash \in {"no", "Out of memory!", "init exiting"}
  /\ \A p \in Slot :
       space[p].state = "used" =>
         {v \in VPage : space[p].pgdir.map[v] # Absent} =
         1..(PGROUNDUP(space[p].sz) - 1)
=============================================================================
