-------------------------- MODULE MCSocketConnector --------------------------
(* Instances of SocketConnector for TLC; the constants are in the .cfg files. *)
EXTENDS SocketConnector
=============================================================================
