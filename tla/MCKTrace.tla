------------------------------ MODULE MCKTrace ------------------------------
(***************************************************************************)
(* A small instance of KTrace: the ring has two slots and the counters     *)
(* wrap after two laps of it.                                              *)
(***************************************************************************)
EXTENDS KTrace
=============================================================================
