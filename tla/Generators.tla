----------------------------- MODULE Generators -----------------------------
(***************************************************************************)
(* One call of GenerateGraphFromRequest (pkg/generator/decision/           *)
(* executor.go) on a request that passed GraphRequest.Valid               *)
(* (pkg/api/validate.go): the generator its type selects, then            *)
(* GenerateWeights when the request is weighted.                          *)
(*   - ExactDeg: StegerWormald, instantiated on the same variables;       *)
(*   - BetweenDeg / AtLeastDeg: GenerateRandomBetween (between.go), with  *)
(*     GenerateSpanningBoruvka (spanning_tree.go) when connected;         *)
(*   - AverageDeg: GenerateRandomAverage (average.go);                    *)
(*   - Complete: GenerateRandomComplete (complete.go).                    *)
(* The points trees are their residual widths (see OrderStatTree); every  *)
(* rand draw is \E.  A retry loop whose state no draw can change loops    *)
(* for ever: that is the outcome "hang".  rand.Intn(k) with k <= 0 and    *)
(* any other run-time panic is the outcome "panic"; the runner's          *)
(* StopProcessOnUnhandledPanic then ends the process.                     *)
(***************************************************************************)
EXTENDS Integers, FiniteSetsExt, Functions, TLC

CONSTANTS
  Requests,     \* candidate GraphRequests (records), filtered by Valid
  MaxNodes,     \* configuration.Default().MaxNodes
  MaxRestarts   \* bound on GenerateStegerWormald's restarts

VARIABLES
  req, pc, adj,                              \* shared with StegerWormald
  deg, inverted, width, edges, comps, restarts,  \* StegerWormald's frame
  forest,     \* GenerateSpanningBoruvka's components
  cap,        \* its maxDegree argument
  wMin, wMax, \* residual widths of pointsMin and pointsMax
  filled,     \* filledNodes
  numEdges,   \* numOfEdges
  expected,   \* expectedEdges (Between) or targetEdges (Average)
  wpc,        \* GenerateWeights: "idle", "weigh", "done" or "hang"
  pending,    \* edges GenerateWeights has still to weigh
  weight      \* WeightsMap: edge -> weight

vars == <<req, pc, adj, deg, inverted, width, edges, comps, restarts,
          forest, cap, wMin, wMax, filled, numEdges, expected, wpc, pending, weight>>
swVars == <<deg, inverted, width, edges, comps, restarts>>
rgVars == <<forest, cap, wMin, wMax, filled, numEdges, expected>>
wVars == <<wpc, pending, weight>>

-----------------------------------------------------------------------------
(* GraphRequest.Valid.  avg2 is NodeDegreeAverage in halves, so          *)
(* int(NodeDegreeAverage) is avg2 \div 2.                                 *)
Valid(g) ==
  LET n == g.nodes
      kind ==
        CASE g.type = "exact"    -> (n * g.deg) % 2 = 0 /\ g.deg > 0 /\ g.deg < n
          [] g.type = "average"  -> g.avg2 \div 2 < n - 1 /\ g.avg2 >= 0
          [] g.type = "between"  -> g.deg < g.degMax /\ g.degMax < n /\ g.deg >= 0
          [] g.type = "atleast"  -> g.deg < n /\ g.deg >= 0
          [] OTHER -> TRUE
      conn ==
        CASE g.type = "exact"   -> g.deg >= 2
          [] g.type = "average" -> g.avg2 \div 2 >= 2 \/ (n <= 2 /\ g.avg2 = 2)
                                   \/ (n = 1 /\ g.avg2 = 0)
          [] g.type = "between" -> g.deg >= 0 /\ (g.degMax >= 2 \/ (g.degMax = 1 /\ n = 2))
          [] OTHER -> TRUE
  IN /\ n <= MaxNodes /\ n > 0
     /\ kind
     /\ g.weighted => g.wmin <= g.wmax /\ ~(g.wmin = 0 /\ g.wmax = 0)
     /\ g.connected => conn

ValidRequests == {g \in Requests : Valid(g)}

SW == INSTANCE StegerWormald WITH Cases <- {g \in ValidRequests : g.type = "exact"}

Nodes == SW!Nodes
Degree(v) == SW!Degree(v)
LenMin == SumFunctionOnSet(wMin, Nodes)
LenMax == SumFunctionOnSet(wMax, Nodes)
Pairs == {{u, v} : u, v \in Nodes} \ {{v} : v \in Nodes}

(* GenerateRandomAtLeast is GenerateRandomBetween with maxDegree nodes-1. *)
Lo == req.deg
Hi == IF req.type = "atleast" THEN req.nodes - 1 ELSE req.degMax

Zero == [v \in Nodes |-> 0]

(* The generator call the request's type selects, up to its first loop.  *)
Dispatch ==
  CASE req.type \in {"between", "atleast"} ->
         IF req.nodes = 0 \/ Lo > Hi \/ Hi >= req.nodes \/ (req.connected /\ Hi < 2)
         THEN [pc |-> "error", adj |-> {}, cap |-> 0]
         ELSE IF req.connected
         THEN [pc |-> "span", adj |-> {}, cap |-> IF Lo < 2 THEN 2 ELSE Lo]
         ELSE [pc |-> "bsetup", adj |-> {}, cap |-> 0]
    [] req.type = "average" ->
         IF req.nodes = 0 \/ (req.nodes > 2 /\ req.avg2 < 4) \/ req.avg2 \div 2 >= req.nodes - 1
         THEN [pc |-> "error", adj |-> {}, cap |-> 0]
         ELSE IF req.connected
         THEN [pc |-> "span", adj |-> {}, cap |-> req.nodes - 1]
         ELSE [pc |-> "avg", adj |-> {}, cap |-> 0]
    [] req.type = "complete" ->
         [pc |-> "done", adj |-> Pairs, cap |-> 0]

Init ==
  /\ req \in ValidRequests
  /\ \/ /\ req.type = "exact"
        /\ SW!Init
        /\ forest = {} /\ cap = 0
     \/ /\ req.type # "exact"
        /\ pc = Dispatch.pc /\ adj = Dispatch.adj /\ cap = Dispatch.cap
        /\ forest = {{v} : v \in Nodes}
        /\ deg = 0 /\ inverted = FALSE /\ width = Zero /\ edges = 0
        /\ comps = <<>> /\ restarts = 0
  /\ wMin = Zero /\ wMax = Zero /\ filled = {} /\ numEdges = 0
  /\ expected = (req.nodes * req.avg2) \div 4
  /\ wpc = "idle" /\ pending = {} /\ weight = <<>>

-----------------------------------------------------------------------------
(* GenerateSpanningBoruvka, one iteration: two distinct components, a    *)
(* node of each below maxDegree (the inner loop redraws until it finds   *)
(* them), an edge between them, the components merged.  Every tree      *)
(* component has a node of degree below 2 <= cap, so the inner loop ends.*)
(* Mutant of SpanLink: the components are merged without the edge.     *)
SpanLinkNoEdge(A, B, a, b) ==
  /\ pc = "span"
  /\ A \in forest /\ B \in forest /\ A # B
  /\ a \in A /\ b \in B /\ Degree(a) < cap /\ Degree(b) < cap
  /\ forest' = (forest \ {A, B}) \cup {A \cup B}
  /\ UNCHANGED <<req, pc, adj, cap, wMin, wMax, filled, numEdges, expected>>
  /\ UNCHANGED <<swVars, wVars>>

SpanLink(A, B, a, b) ==
  /\ pc = "span"
  /\ A \in forest /\ B \in forest /\ A # B
  /\ a \in A /\ b \in B /\ Degree(a) < cap /\ Degree(b) < cap
  /\ adj' = adj \cup {{a, b}}
  /\ forest' = (forest \ {A, B}) \cup {A \cup B}
  /\ UNCHANGED <<req, pc, cap, wMin, wMax, filled, numEdges, expected>>
  /\ UNCHANGED <<swVars, wVars>>

(* The tree is built: the caller sets numOfEdges = nodes - 1.            *)
SpanDone ==
  /\ pc = "span" /\ Cardinality(forest) = 1
  /\ numEdges' = req.nodes - 1
  /\ pc' = IF req.type = "average" THEN "avg" ELSE "bsetup"
  /\ UNCHANGED <<req, adj, forest, cap, wMin, wMax, filled, expected>>
  /\ UNCHANGED <<swVars, wVars>>

-----------------------------------------------------------------------------
(* GenerateRandomBetween after the optional tree: the edge bounds, the   *)
(* target rand.Intn(maxEdges-minEdges)+minEdges, and the two trees.      *)
(* pointsMin holds min - currentDeg, pointsMax max - min less the tree   *)
(* degree above min.  A pointsMin width is negative only when the tree   *)
(* has every node at degree >= 1 >= min, so then no width is positive.   *)
(* Go's / truncates toward zero: (0*0-1)/2 is 0, not -1.                 *)
GoDiv(a, b) == IF a >= 0 THEN a \div b ELSE -((-a) \div b)

MinEdges == GoDiv(req.nodes * Lo + 1, 2)
MaxEdges == GoDiv(req.nodes * Hi - 1, 2)

BSetup ==
  /\ pc = "bsetup"
  /\ MaxEdges - MinEdges > 0
  /\ expected' \in MinEdges .. MaxEdges - 1
  /\ wMin' = [v \in Nodes |-> Lo - Degree(v)]
  /\ wMax' = [v \in Nodes |-> (Hi - Lo) - (IF Degree(v) >= Lo THEN Degree(v) - Lo ELSE 0)]
  /\ filled' = {v \in Nodes : Degree(v) >= Lo}
  /\ pc' = "p1"
  /\ UNCHANGED <<req, adj, forest, cap, numEdges, swVars, wVars>>

(* rand.Intn(maxEdges-minEdges) with an empty range panics.              *)
BSetupPanic ==
  /\ pc = "bsetup"
  /\ MaxEdges - MinEdges <= 0
  /\ pc' = "panic"
  /\ UNCHANGED <<req, adj, rgVars, swVars, wVars>>

(* Adds the edge {l, r}, taking one unit from each end's tree.           *)
AddEdge(l, r, fromMaxR) ==
  /\ adj' = adj \cup {{l, r}}
  /\ numEdges' = numEdges + 1
  /\ wMin' = IF fromMaxR THEN [wMin EXCEPT ![l] = @ - 1]
                         ELSE [wMin EXCEPT ![l] = @ - 1, ![r] = @ - 1]
  /\ wMax' = IF fromMaxR THEN [wMax EXCEPT ![r] = @ - 1] ELSE wMax
  /\ filled' = filled \cup {x \in {l, r} : Degree(x) + 1 >= Lo}

(* Phase 1: two pointsMin points that form a new edge.                   *)
P1Draw(l, r) ==
  /\ pc = "p1" /\ LenMin > 0
  /\ wMin[l] > 0 /\ wMin[r] > 0 /\ l # r /\ {l, r} \notin adj
  /\ AddEdge(l, r, FALSE)
  /\ UNCHANGED <<req, pc, forest, cap, expected, swVars, wVars>>

(* Phase 1 after a collision (left drawn twice is always one): right is  *)
(* redrawn from pointsMax and used if it is already filled and forms a  *)
(* new edge with left.                                                   *)
P1MaxDraw(l, r) ==
  /\ pc = "p1" /\ LenMin > 0
  /\ wMin[l] > 0
  /\ LenMax > 0 /\ wMax[r] > 0 /\ r \in filled
  /\ l # r /\ {l, r} \notin adj
  /\ AddEdge(l, r, TRUE)
  /\ UNCHANGED <<req, pc, forest, cap, expected, swVars, wVars>>

P1Progress ==
  \E l, r \in Nodes : ENABLED P1Draw(l, r) \/ ENABLED P1MaxDraw(l, r)

(* Phase 1 stops without filling pointsMin: a collision with pointsMax   *)
(* empty calls rand.Intn(0), which panics; with no draw that can add an  *)
(* edge the loop repeats for ever (counter is never read).               *)
P1Stuck ==
  /\ pc = "p1" /\ LenMin > 0
  /\ LenMax <= 0 \/ ~P1Progress
  /\ pc' = IF LenMax <= 0 THEN "panic" ELSE "hang"
  /\ UNCHANGED <<req, adj, rgVars, swVars, wVars>>

(* Mutant of P1End: the loop condition is pointsMin.Length() > 1.       *)
P1EndOffByOne ==
  /\ pc = "p1" /\ LenMin <= 1
  /\ pc' = "p2"
  /\ UNCHANGED <<req, adj, rgVars, swVars, wVars>>

P1End ==
  /\ pc = "p1" /\ LenMin <= 0
  /\ pc' = "p2"
  /\ UNCHANGED <<req, adj, rgVars, swVars, wVars>>

(* Phase 2: while numOfEdges < expectedEdges and pointsMax.Length() > 1, *)
(* two pointsMax points below maxDegree that form a new edge.            *)
P2Loop == pc = "p2" /\ numEdges < expected /\ LenMax > 1

P2Draw(l, r) ==
  /\ P2Loop
  /\ wMax[l] > 0 /\ wMax[r] > 0 /\ l # r /\ {l, r} \notin adj
  /\ Degree(l) < Hi /\ Degree(r) < Hi
  /\ adj' = adj \cup {{l, r}}
  /\ numEdges' = numEdges + 1
  /\ wMax' = [wMax EXCEPT ![l] = @ - 1, ![r] = @ - 1]
  /\ UNCHANGED <<req, pc, forest, cap, wMin, filled, expected, swVars, wVars>>

(* The loop stops adding edges: its condition is false, or no pair can   *)
(* be added and then counter stays 0 < expectedEdges, the break is never *)
(* taken and the loop repeats for ever.                                   *)
P2Stop ==
  /\ pc = "p2"
  /\ ~\E l, r \in Nodes : ENABLED P2Draw(l, r)
  /\ pc' = IF P2Loop THEN "hang" ELSE "done"
  /\ UNCHANGED <<req, adj, rgVars, swVars, wVars>>

-----------------------------------------------------------------------------
(* GenerateRandomAverage: while numOfEdges < targetEdges, a new edge     *)
(* between two distinct nodes.  targetEdges < nodes(nodes-1)/2 when the  *)
(* request passed the check, so a new edge always exists.                *)
(* Mutant of AvgDraw: the edges[leftInd][rightInd] check is dropped.    *)
AvgDrawNoCheck(l, r) ==
  /\ pc = "avg" /\ numEdges < expected
  /\ l # r
  /\ adj' = adj \cup {{l, r}}
  /\ numEdges' = numEdges + 1
  /\ UNCHANGED <<req, pc, forest, cap, wMin, wMax, filled, expected, swVars, wVars>>

AvgDraw(l, r) ==
  /\ pc = "avg" /\ numEdges < expected
  /\ l # r /\ {l, r} \notin adj
  /\ adj' = adj \cup {{l, r}}
  /\ numEdges' = numEdges + 1
  /\ UNCHANGED <<req, pc, forest, cap, wMin, wMax, filled, expected, swVars, wVars>>

AvgEnd ==
  /\ pc = "avg" /\ numEdges >= expected
  /\ pc' = "done"
  /\ UNCHANGED <<req, adj, rgVars, swVars, wVars>>

-----------------------------------------------------------------------------
(* GenerateWeights, entered when the generator returned without error    *)
(* and the request is weighted.  Valid rules out max < min and           *)
(* min = max = 0, the early returns whose error the executor discards.   *)
WStart ==
  /\ pc = "done" /\ req.weighted /\ wpc = "idle"
  /\ wpc' = "weigh"
  /\ pending' = adj
  /\ UNCHANGED <<req, pc, adj, rgVars, swVars, weight>>

(* Mutant of ValueGen: a drawn 0 is kept.                                *)
ValueGenNoRetry(lo, hi) == IF lo = hi THEN {lo} ELSE lo .. hi - 1

(* valueGen: min when min = max, else rand.Intn(max-min)+min redrawn     *)
(* while 0.  The set of values it can return (empty: it never returns).  *)
ValueGen(lo, hi) == IF lo = hi THEN {lo} ELSE {v \in lo .. hi - 1 : v # 0}

(* The loop over i < j visits the edges in lexicographic order.          *)
NextEdge == CHOOSE e \in pending :
              \A f \in pending : Min(e) < Min(f) \/ (Min(e) = Min(f) /\ Max(e) <= Max(f))

WeighEdge ==
  /\ wpc = "weigh" /\ pending # {}
  /\ \E v \in ValueGen(req.wmin, req.wmax) :
       weight' = weight @@ (NextEdge :> v)
  /\ pending' = pending \ {NextEdge}
  /\ UNCHANGED <<req, pc, adj, rgVars, swVars, wpc>>

(* valueGen(0, 1) draws rand.Intn(1) + 0 = 0 for ever.                   *)
WeighHang ==
  /\ wpc = "weigh" /\ pending # {}
  /\ ValueGen(req.wmin, req.wmax) = {}
  /\ wpc' = "hang"
  /\ UNCHANGED <<req, pc, adj, rgVars, swVars, pending, weight>>

WEnd ==
  /\ wpc = "weigh" /\ pending = {}
  /\ wpc' = "done"
  /\ UNCHANGED <<req, pc, adj, rgVars, swVars, pending, weight>>

-----------------------------------------------------------------------------
Next ==
  \/ SW!Next /\ UNCHANGED <<rgVars, wVars>>
  \/ \E A, B \in forest, a, b \in Nodes : SpanLink(A, B, a, b)
  \/ SpanDone \/ BSetup \/ BSetupPanic
  \/ \E l, r \in Nodes : P1Draw(l, r) \/ P1MaxDraw(l, r) \/ P2Draw(l, r) \/ AvgDraw(l, r)
  \/ P1Stuck \/ P1End \/ P2Stop \/ AvgEnd
  \/ WStart \/ WeighEdge \/ WeighHang \/ WEnd

Spec == Init /\ [][Next]_vars

-----------------------------------------------------------------------------
TypeOK ==
  /\ req \in ValidRequests
  /\ pc \in {"span", "bsetup", "p1", "p2", "avg", "draw", "connect",
             "done", "error", "panic", "hang"}
  /\ adj \subseteq Pairs
  /\ wMin \in [Nodes -> Int] /\ wMax \in [Nodes -> Int]
  /\ filled \subseteq Nodes /\ numEdges \in Nat /\ expected \in Nat
  /\ wpc \in {"idle", "weigh", "done", "hang"}
  /\ pending \subseteq adj
  /\ DOMAIN weight \subseteq adj

Connected == \A v \in Nodes : SW!Reached({v}, adj) = Nodes

(* Spec: a bounded-degree (and at-least) graph has every node's degree   *)
(* in [min, max]: phase 1 fills pointsMin, falling back to filled        *)
(* pointsMax points, phase 2 draws from pointsMax under maxDegree, and   *)
(* the spanning tree starts some nodes above min.                        *)
BetweenDegrees ==
  pc = "done" /\ req.type \in {"between", "atleast"} =>
    \A v \in Nodes : Lo <= Degree(v) /\ Degree(v) <= Hi

(* Spec: an average-degree graph has exactly targetEdges edges (the      *)
(* count numOfEdges the loop relies on is the true edge count).          *)
AverageEdges ==
  pc = "done" /\ req.type = "average" => Cardinality(adj) = expected

(* Spec: when connectivity is requested, a traversal of the result      *)
(* reaches every node, whatever generator the request selects.          *)
ResultConnected == pc = "done" /\ req.connected => Connected

(* Spec: once GenerateWeights returns, exactly the edges carry a weight, *)
(* every weight is nonzero and within [min, max].                        *)
WeightsValid ==
  wpc = "done" =>
    /\ DOMAIN weight = adj
    /\ \A e \in adj : weight[e] # 0 /\ req.wmin <= weight[e] /\ weight[e] <= req.wmax

(* The exact-degree generator's own invariants, on its requests.         *)
ExactDeficit == req.type = "exact" => SW!DeficitInvariant
ExactRegular == req.type = "exact" => SW!ResultRegular

(* Spec: for every validated request, GenerateGraphFromRequest returns a *)
(* graph or an error: the generator never panics (which ends the server  *)
(* through StopProcessOnUnhandledPanic) and never loops for ever (which  *)
(* blocks the runner, and with it every later Pause).                    *)
Returns == pc \notin {"panic", "hang"} /\ wpc # "hang"

====
