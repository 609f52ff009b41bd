----------------------------- MODULE MCSheduler -----------------------------
(* A small instance of Sheduler.                                           *)
EXTENDS Sheduler
=============================================================================
