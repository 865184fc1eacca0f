---------------------------- MODULE MCThreadPool ----------------------------
(* The pool with two workers and one client; the workers add tasks too. *)
EXTENDS ThreadPool, TLC

WorkerSymmetry == Permutations(Workers)
=============================================================================
