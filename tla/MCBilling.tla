----------------------------- MODULE MCBilling ------------------------------
(* An amount an operator debits by hand.  Configuration files cannot write *)
(* negative numbers.  Sessions differ only in name.                        *)
EXTENDS Billing, TLC

Debit == {-1}
Symmetry == Permutations(Session)
=============================================================================
