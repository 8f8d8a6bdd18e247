---------------------------- MODULE MCBatchImage ----------------------------
(* Model values for BatchImage. *)
EXTENDS BatchImage

CONSTANTS b1, w1, w2

OneBatch   == {b1}
TwoWorkers == {w1, w2}
NoCost     == [u \in {} |-> 1]

=============================================================================
