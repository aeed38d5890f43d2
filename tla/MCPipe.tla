------------------------------- MODULE MCPipe -------------------------------
(***************************************************************************)
(* Small instances of Pipe.                                                *)
(***************************************************************************)
EXTENDS Pipe, TLC

\* The processes other than the first are alike when neither may be killed.
Symmetry == Permutations(Process \ {First})
=============================================================================
