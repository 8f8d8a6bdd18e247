-------------------------- MODULE MCTokenProvider --------------------------
(* Model values for TokenProvider: a background service and a request, on  *)
(* two instances.  On one they would also share its mutex, which takes     *)
(* interleavings away and adds none.                                       *)
EXTENDS TokenProvider

CONSTANTS f1, q1, i1, i2

TwoInstances == {i1, i2}
OneRefresher == {f1}
OneRequest   == {q1}
Apart        == {[p \in {f1, q1} |-> IF p = f1 THEN i1 ELSE i2]}

=============================================================================
