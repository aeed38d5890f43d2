--------------------------- MODULE MCBufferCache ----------------------------
(***************************************************************************)
(* A small instance of BufferCache.  Threads, blocks and buffers may each  *)
(* be exchanged: the list of buffers starts in any order.                  *)
(***************************************************************************)
EXTENDS BufferCache, TLC

Symmetry == Permutations(Thread) \cup Permutations(Block) \cup Permutations(Buf)
=============================================================================
