----------------------------- MODULE MCThreadWatch -----------------------------
(* ThreadWatch with small constants for TLC. *)
EXTENDS ThreadWatch

OffOrOne == {Off, 1}   \* a watch from a snapshot, or from a receipt
FromZero == {0}
=============================================================================
