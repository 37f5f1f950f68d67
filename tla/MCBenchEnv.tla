------------------------------ MODULE MCBenchEnv ------------------------------
(* A small instance of BenchEnv for TLC. *)
EXTENDS BenchEnv

Three == [f \in Files |-> IF f = "log" THEN 3 ELSE 1]
Some == [f \in Files |-> IF f = "log" THEN {"reopen", "append", "flush", "close"}
                          ELSE {"create", "append", "sync", "remove", "close"}]

Cue(e, n, after) == [event |-> e, n |-> n, after |-> after]

\* A cue before an append of the main thread, one after an append of the worker.
SomeCues == {Cue("log_append", 2, FALSE), Cue("table_append", 1, TRUE)}
==============================================================================
