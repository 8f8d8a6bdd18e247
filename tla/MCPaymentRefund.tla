-------------------------- MODULE MCPaymentRefund --------------------------
(* Model values for PaymentRefund. *)
EXTENDS PaymentRefund, TLC

CONSTANTS a1, a2

OneAdmin   == {a1}
TwoAdmins  == {a1, a2}
Symmetry   == Permutations(TwoAdmins)
Overdraft  == -1

=============================================================================
