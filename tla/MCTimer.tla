------------------------------ MODULE MCTimer ------------------------------
EXTENDS Timer

(* Budgets from nothing to the largest of 7 bits; 11 and more overflow. *)
MCTimeouts == {0, 1, 2, 5, 11, 22, 43, 63}
=============================================================================
