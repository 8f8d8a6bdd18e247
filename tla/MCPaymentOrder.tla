--------------------------- MODULE MCPaymentOrder ---------------------------
(* Model values for PaymentOrder. *)
EXTENDS PaymentOrder, TLC

CONSTANTS p1, p2

TwoProcs   == {p1, p2}
Symmetry   == Permutations(TwoProcs)

(* The entry points that redelivery and the expiry sweep use. *)
CallbackKinds == {"create", "webhook", "expire"}

=============================================================================
