---------------------------- MODULE MCSharedClient ----------------------------
(* SharedClient over Profiles with small constants for TLC. *)
EXTENDS SharedClient
=============================================================================
