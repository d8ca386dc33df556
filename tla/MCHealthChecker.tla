-------------------------- MODULE MCHealthChecker --------------------------
(* Two nodes, and a third with the endpoint of the first to replace one.   *)
EXTENDS HealthChecker

CONSTANTS n1, n2, n3, e1, e2

MCEndpoint == [n \in Nodes |-> IF n = n2 THEN e2 ELSE e1]
MCConfigured == {<<n1, n2>>}
=============================================================================
