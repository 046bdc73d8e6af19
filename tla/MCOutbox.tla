------------------------------ MODULE MCOutbox ------------------------------
EXTENDS Outbox, TLC

(* API threads are interchangeable. *)
Symmetry == Permutations(Handler)
=============================================================================
