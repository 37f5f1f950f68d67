--------------------------- MODULE MCSharedLogFaults ---------------------------
(* Small instances of SharedLogFaults for TLC. *)
EXTENDS SharedLogFaults

Two == 0 .. 1
==============================================================================
