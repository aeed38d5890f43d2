------------------------------- MODULE MCLog --------------------------------
(***************************************************************************)
(* Small instances of Log.                                                 *)
(***************************************************************************)
EXTENDS Log, TLC

Symmetry == Permutations(Thread) \cup Permutations(Block)
=============================================================================
