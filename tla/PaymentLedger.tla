--------------------------- MODULE PaymentLedger ---------------------------
(***************************************************************************)
(* What a payment order promises to the user and to the operator, without  *)
(* processes, leases, redeem codes or faults: the provider's payment, one  *)
(* credit for it, one decision about the affiliate rebate, and only then   *)
(* the order is settled.                                                   *)
(***************************************************************************)
EXTENDS Naturals

VARIABLES paid, grants, rebated, settled

ledger == <<paid, grants, rebated, settled>>

Init == paid = FALSE /\ grants = 0 /\ rebated = "no" /\ settled = FALSE

Pay    == ~paid /\ paid' = TRUE /\ UNCHANGED <<grants, rebated, settled>>
Grant  == paid /\ grants = 0 /\ grants' = 1 /\ UNCHANGED <<paid, rebated, settled>>
Rebate == grants = 1 /\ rebated = "no" /\ rebated' = "yes" /\ UNCHANGED <<paid, grants, settled>>
Settle == rebated = "yes" /\ ~settled /\ settled' = TRUE /\ UNCHANGED <<paid, grants, rebated>>

Next == Pay \/ Grant \/ Rebate \/ Settle

Spec == Init /\ [][Next]_ledger

=============================================================================
