--------------------------- MODULE MCProxyConnection ---------------------------
(* ProxyConnection with small constants for TLC, which the configuration gives. *)
EXTENDS ProxyConnection
=============================================================================
