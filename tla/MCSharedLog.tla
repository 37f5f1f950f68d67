------------------------------ MODULE MCSharedLog ------------------------------
(* Small instances of SharedLog for TLC. *)
EXTENDS SharedLogInv, SharedLogStore

Two == 0 .. 1
==============================================================================
