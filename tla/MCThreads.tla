----------------------------- MODULE MCThreads -----------------------------
(* The instances of Threads that TLC checks. *)
EXTENDS Threads
=============================================================================
