---------------------------- MODULE MCRpcConnection ----------------------------
(* RpcConnection with small constants for TLC. *)
EXTENDS RpcConnection

=============================================================================
