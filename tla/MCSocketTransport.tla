--------------------------- MODULE MCSocketTransport ---------------------------
(* SocketTransport with small constants for TLC. *)
EXTENDS SocketTransport
=============================================================================
