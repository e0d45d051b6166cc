--------------------------- MODULE MCStegerWormald ---------------------------
(* Requests for the exact-degree generator that pass validExactDeg and    *)
(* validConnected (pkg/api/validate.go).                                  *)
EXTENDS StegerWormald

Req(n, d, c) == [nodes |-> n, deg |-> d, connected |-> c]

(* Below half the nodes (with restarts for 4..6 nodes and degree 2, two  *)
(* components to merge for 6 nodes), and above half (inversion).         *)
MCCases ==
  {Req(4, 2, TRUE), Req(5, 2, TRUE), Req(6, 2, TRUE), Req(6, 3, TRUE),
   Req(6, 4, TRUE), Req(6, 4, FALSE), Req(5, 4, FALSE)}

(* Degree 4 on 7 nodes: inverted to 2, whose drawing can get stuck.     *)
MCCasesInverted == {Req(7, 4, FALSE)}
====
