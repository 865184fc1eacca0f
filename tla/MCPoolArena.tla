----------------------------- MODULE MCPoolArena -----------------------------
(* PoolArena with small classes, chunks of eight pages and a few threads. *)
EXTENDS PoolArena, TLC

Symmetry == Permutations(Bufs) \cup Permutations(Threads)
=============================================================================
