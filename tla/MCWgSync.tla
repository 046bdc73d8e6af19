------------------------------ MODULE MCWgSync ------------------------------
(* Bounds for the WireGuard sync engine; the values are in the cfg files. *)
EXTENDS WgSync
==============================================================================
