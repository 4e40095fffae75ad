---------------------------- MODULE MCWorkerPool ----------------------------
(***************************************************************************)
(* Small instances of WorkerPool for TLC: two pool threads over three      *)
(* files and the four pids they can hold at once (a respawning thread owns *)
(* two).                                                                   *)
(***************************************************************************)
EXTENDS WorkerPool, TLC

ThreadsAndPids == Permutations(Threads) \cup Permutations(Pids)
=============================================================================
