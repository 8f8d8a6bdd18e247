---------------------- MODULE MCIdempotencyCoordinator ----------------------
(* Small instances of IdempotencyCoordinator. *)
EXTENDS IdempotencyCoordinator, TLC

CONSTANTS r1, r2

TwoRequests == {r1, r2}
Symmetry    == Permutations({r1, r2})
TwoPayloads == {"f", "g"}
=============================================================================
