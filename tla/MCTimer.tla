------------------------------- MODULE MCTimer -------------------------------
(* Timer with two wheels of three buckets and two tasks. *)
EXTENDS Timer
=============================================================================
