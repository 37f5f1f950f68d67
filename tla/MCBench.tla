-------------------------------- MODULE MCBench --------------------------------
(* Small instances of the benchmark's workloads for TLC. *)
EXTENDS BenchRunner, Permutation, TLC

Base == [dist |-> "uniform", load |-> 0, insert |-> 0, hot |-> 0, updates |-> 0,
         deletes |-> 0, mixed |-> 0, mixedNew |-> 0, window |-> 0, lag |-> 0,
         batch |-> 2, burst |-> 0, dels |-> FALSE, snapshots |-> FALSE,
         scattered |-> {}, perm |-> <<>>, reopenAt |-> 0,
         maxBatches |-> 12]

Work(f) == LET u == f @@ Base IN u @@ [universe |-> Universe(u)]

\* Two round functions; with the first the walk leaves the range.
Mixes == <<[i \in 1 .. 4 |-> [r \in 0 .. 1 |-> (i * r) % 2]],
           [i \in 1 .. 4 |-> [r \in 0 .. 1 |-> 1 - r]]>>

MixedWork(mix, f) ==
  Work(f @@ [dist |-> "mixed", load |-> 1, insert |-> 2, hot |-> 1, updates |-> 1,
             deletes |-> 1, mixed |-> 1, mixedNew |-> 1, batch |-> 1,
             perm |-> [i \in 0 .. 1 |-> Permute(i, 2, mix)]])

\* Each phase of `mixed` long enough in one of them.
Mixed ==
  {MixedWork(Mixes[1], [updates |-> 2, reopenAt |-> 4]), MixedWork(Mixes[2], [updates |-> 2]),
   MixedWork(Mixes[1], [deletes |-> 2, batch |-> 2, maxBatches |-> 5]), MixedWork(Mixes[2], [mixed |-> 2])}

Others ==
  {Work([dist |-> "append", updates |-> 4, window |-> 2, lag |-> 3, maxBatches |-> 4]),
   Work([dist |-> "hot", load |-> 2, hot |-> 1, updates |-> 3, snapshots |-> TRUE,
         dels |-> TRUE, scattered |-> {1}]),
   Work([dist |-> "bimodal", load |-> 2, hot |-> 1, updates |-> 3, dels |-> TRUE]),
   Work([dist |-> "uniform", load |-> 2, updates |-> 3, dels |-> TRUE, burst |-> 2]),
   Work([dist |-> "rolling", load |-> 2, updates |-> 3, dels |-> TRUE]),
   Work([dist |-> "sparse", load |-> 1, updates |-> 1])}

SomeWorkloads == Mixed \cup Others
================================================================================
