---------------------------- MODULE MCGenerators ----------------------------
(* GraphRequests for GenerateGraphFromRequest.  Valid drops the ones     *)
(* GraphRequest.Valid rejects, so the sets may be generous.              *)
EXTENDS Generators

R(t, n, d, dm, a2, c, w, lo, hi) ==
  [type |-> t, nodes |-> n, deg |-> d, degMax |-> dm, avg2 |-> a2,
   connected |-> c, weighted |-> w, wmin |-> lo, wmax |-> hi]

(* The exact-degree cases of MCStegerWormald: restarts, a repair of two *)
(* components, inversion.                                                *)
ExactReqs ==
  {R("exact", n, d, 0, 0, c, FALSE, 0, 0) :
     <<n, d, c>> \in {<<4, 2, TRUE>>, <<5, 2, TRUE>>, <<6, 2, TRUE>>, <<6, 3, TRUE>>,
                      <<6, 4, TRUE>>, <<6, 4, FALSE>>, <<5, 4, FALSE>>}}

(* Every bounded- and at-least-degree request on up to 4 nodes, with and *)
(* without the spanning tree, and degree 2..3 on 6 nodes, whose phase 1 *)
(* can leave two adjacent pointsMin points and nothing else.            *)
BetweenReqs ==
  {R(t, n, d, dm, 0, c, FALSE, 0, 0) :
     t \in {"between", "atleast"}, n \in 1 .. 4, d \in 0 .. 3, dm \in 0 .. 3, c \in BOOLEAN}
  \cup {R("between", 6, 2, 3, 0, FALSE, FALSE, 0, 0)}

(* Average degree 0 .. 3 in halves on up to 5 nodes.                     *)
AverageReqs ==
  {R("average", n, 0, 0, a2, c, FALSE, 0, 0) : n \in 1 .. 5, a2 \in 0 .. 6, c \in BOOLEAN}

(* Complete graphs with the weight ranges that matter to valueGen: a    *)
(* range holding 0, min = max, and [0, 1].                               *)
WeightedReqs ==
  {R("complete", n, 0, 0, 0, FALSE, TRUE, lo, hi) :
     n \in 2 .. 3, <<lo, hi>> \in {<<-1, 1>>, <<1, 3>>, <<2, 2>>, <<0, 1>>}}
  \cup {R("between", 4, 1, 2, 0, TRUE, TRUE, -1, 1), R("average", 4, 0, 0, 4, FALSE, TRUE, 1, 2)}

MCRequests == ExactReqs \cup BetweenReqs \cup AverageReqs \cup WeightedReqs

(* A bounded-degree request that passes Valid and whose phase 1 can     *)
(* stall on two adjacent pointsMin points.                             *)
MCRequestsHang == {R("between", 6, 2, 3, 0, FALSE, FALSE, 0, 0)}
====
