------------------------- MODULE MCEventLoopThread -------------------------
(* EventLoopThread with an owner and one other thread. *)
EXTENDS EventLoopThread
=============================================================================
