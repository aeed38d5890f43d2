---------------------------- MODULE MCSleepLock -----------------------------
(***************************************************************************)
(* A small instance of SleepLock.                                          *)
(***************************************************************************)
EXTENDS SleepLock
=============================================================================
