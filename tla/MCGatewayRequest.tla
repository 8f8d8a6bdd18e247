-------------------------- MODULE MCGatewayRequest --------------------------
(* Model values for GatewayRequest: two requests on two instances. *)
EXTENDS GatewayRequest

CONSTANTS u1, u2, i1, i2

TwoUsages    == {u1, u2}
TwoInstances == {i1, i2}
Hosts        == [u \in TwoUsages |-> IF u = u1 THEN i1 ELSE i2]
TwoAndOne    == [u \in TwoUsages |-> IF u = u1 THEN 2 ELSE 1]
OneAndTwo    == [u \in TwoUsages |-> IF u = u1 THEN 1 ELSE 2]
NoneAndOne   == [u \in TwoUsages |-> IF u = u1 THEN 0 ELSE 1]
Guesses      == {OneAndTwo, NoneAndOne}

=============================================================================
