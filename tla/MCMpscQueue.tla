----------------------------- MODULE MCMpscQueue -----------------------------
(* MpscQueue with two producers and four addresses. *)
EXTENDS MpscQueue
=============================================================================
