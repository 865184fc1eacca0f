----------------------------- MODULE MCPoolChunk -----------------------------
(* PoolChunk with the code's size classes and a chunk of a few pages. *)
EXTENDS PoolChunk
=============================================================================
