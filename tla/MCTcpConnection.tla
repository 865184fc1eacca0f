--------------------------- MODULE MCTcpConnection ---------------------------
(* One or two connections of a server and a user thread. *)
EXTENDS TcpConnection
=============================================================================
