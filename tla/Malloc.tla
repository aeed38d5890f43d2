------------------------------- MODULE Malloc -------------------------------
(***************************************************************************)
(* The allocator of user programs (umalloc.c): a circular list of free     *)
(* blocks in the order of their addresses, searched from where the last    *)
(* search ended.  Addresses and sizes count headers; base, the block that  *)
(* is always on the list, is at 0 and the heap begins at 1.  Only the      *)
(* headers, and the fields of them, that the code may still read are kept. *)
(***************************************************************************)
EXTENDS Integers, SequencesExt

CONSTANTS Units,     \* the sizes asked for, in units (nunits)
          NALLOC,    \* the least that morecore asks sbrk for
          MaxBrk     \* where sbrk fails

base == 0
null == -1

VARIABLES hdr,     \* the headers: address -> size, and next on the free list
          freep,
          brk,     \* the end of the heap
          live     \* history: the blocks that the program has, with their sizes

vars == <<hdr, freep, brk, live>>

Init == hdr = <<>> /\ freep = null /\ brk = 1 /\ live = {}

Set(f, a, x) == [b \in DOMAIN f \cup {a} |-> IF b = a THEN x ELSE f[b]]
Drop(f, a) == [b \in DOMAIN f \ {a} |-> f[b]]
-----------------------------------------------------------------------------
\* The loop of free: the free block after which bp belongs.
RECURSIVE spot(_, _, _)
spot(h, bp, p) ==
  LET q == h.hdr[p].ptr
  IN IF \/ bp > p /\ bp < q
        \/ p >= q /\ (bp > p \/ bp < q)
     THEN p ELSE spot(h, bp, q)

\* Put the block bp on the list that follows p, and join it with its neighbours:
\* with the one above if up, with the one below if down.
insert(h, bp, p, up, down) ==
  LET q == h.hdr[p].ptr
      new == IF up THEN [size |-> h.hdr[bp].size + h.hdr[q].size, ptr |-> h.hdr[q].ptr]
                   ELSE [size |-> h.hdr[bp].size, ptr |-> q]
      rest == IF up THEN Drop(h.hdr, q) ELSE h.hdr
  IN [h EXCEPT !.freep = p, !.hdr =
        IF down THEN Set(Drop(rest, bp), p, [size |-> h.hdr[p].size + new.size,
                                             ptr |-> new.ptr])
        ELSE Set(Set(rest, bp, new), p, [h.hdr[p] EXCEPT !.ptr = bp])]

\* Faulty variant: a block is not joined with the one below it.
freeUp(h, bp) ==
  LET p == spot(h, bp, h.freep)
  IN insert(h, bp, p, bp + h.hdr[bp].size = h.hdr[p].ptr, FALSE)

free(h, bp) ==
  LET p == spot(h, bp, h.freep)
  IN insert(h, bp, p, bp + h.hdr[bp].size = h.hdr[p].ptr, p + h.hdr[p].size = bp)

morecore(h, nu) ==
  LET n == IF nu < NALLOC THEN NALLOC ELSE nu
  IN IF h.brk + n > MaxBrk THEN [h EXCEPT !.ret = null]
     ELSE [free([h EXCEPT !.hdr = Set(@, h.brk, [size |-> n, ptr |-> null]),
                          !.brk = @ + n], h.brk) EXCEPT !.ret = 0]

\* The loop of malloc: the first block that is large enough, of which the upper
\* end is taken; once around the list, the heap is extended.
RECURSIVE search(_, _, _, _)
search(h, prevp, p, nunits) ==
  LET s == h.hdr[p].size
      tail == p + s - nunits
      more == morecore(h, nunits)
      q == more.freep
  IN IF s = nunits
     THEN [h EXCEPT !.freep = prevp, !.ret = p,
                    !.hdr = Set(Set(@, prevp, [@[prevp] EXCEPT !.ptr = h.hdr[p].ptr]),
                                p, [size |-> s, ptr |-> null])]
     ELSE IF s > nunits
     THEN [h EXCEPT !.freep = prevp, !.ret = tail,
                    !.hdr = Set(Set(@, p, [@[p] EXCEPT !.size = s - nunits]),
                                tail, [size |-> nunits, ptr |-> null])]
     ELSE IF p # h.freep THEN search(h, p, h.hdr[p].ptr, nunits)
     ELSE IF more.ret = null THEN more
     ELSE search(more, q, more.hdr[q].ptr, nunits)

State == [hdr |-> hdr, freep |-> freep, brk |-> brk, ret |-> null]
malloc(h, nunits) ==
  LET h1 == IF h.freep # null THEN h
            ELSE [h EXCEPT !.freep = base,
                           !.hdr = Set(@, base, [size |-> 0, ptr |-> base])]
  IN search(h1, h1.freep, h1.hdr[h1.freep].ptr, nunits)
-----------------------------------------------------------------------------
Becomes(h) == hdr' = h.hdr /\ freep' = h.freep /\ brk' = h.brk

callMalloc(n) ==
  LET h == malloc(State, n)
  IN /\ Becomes(h)
     /\ live' = IF h.ret = null THEN live ELSE live \cup {<<h.ret, n>>}
\* The program frees a block that it has.
callFree(b) ==
  /\ Becomes(free(State, b[1]))
  /\ live' = live \ {b}

Next == (\E n \in Units : callMalloc(n)) \/ (\E b \in live : callFree(b))
Spec == Init /\ [][Next]_vars
-----------------------------------------------------------------------------
\* The list from p on, until it comes back to base.
RECURSIVE listFrom(_)
listFrom(p) == IF p = base THEN <<base>> ELSE <<p>> \o listFrom(hdr[p].ptr)

\* The free list is in the order of addresses and holds exactly what the program
\* does not have: the blocks of both make up the heap without gap or overlap;
\* two free blocks are never neighbours; and the header of a block in use still
\* has its size.
HeapIsWhole ==
  freep # null =>
    LET free_ == listFrom(hdr[base].ptr)
        blocks == {<<a, hdr[a].size>> : a \in ToSet(free_) \ {base}} \cup live
    IN /\ \A k \in 1..(Len(free_) - 2) : free_[k] + hdr[free_[k]].size < free_[k + 1]
       /\ freep \in ToSet(free_)
       /\ \A a \in 1..(brk - 1) :
            Cardinality({b \in blocks : a \in b[1]..(b[1] + b[2] - 1)}) = 1
       /\ \A b \in live : hdr[b[1]].size = b[2]
=============================================================================
