----------------------------- MODULE MCConnector -----------------------------
(* Connector with three calls of start(). *)
EXTENDS Connector
=============================================================================
