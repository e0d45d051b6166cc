---------------------------- MODULE StegerWormald ----------------------------
(***************************************************************************)
(* The exact-degree generator of pkg/generator/algorithms/regular.go       *)
(* (GenerateStegerWormald, fixStegerWormald, invertGraph) together with    *)
(* the connectivity repair of utils.go (makeRegularGraphConnected).        *)
(*                                                                         *)
(* The graph (tuples) is a set of 2-element edge sets.  The points tree   *)
(* is abstracted to the residual widths it holds: OrderStatTree checks     *)
(* that GetPoint(rand.Intn(Length())) returns exactly the points of        *)
(* positive residual width and that GetRank is that width, so one draw    *)
(* is a choice of two such points.  The random choices are \E.            *)
(*                                                                         *)
(* The counter of consecutive collisions is not kept: a collision that    *)
(* is drawn once can be drawn 2*edges+1 times in a row, so whenever a     *)
(* colliding pair exists, the repair step on that pair is reachable;      *)
(* collisions below the threshold change nothing else.                    *)
(***************************************************************************)
EXTENDS Naturals, Sequences, SequencesExt

CONSTANTS
  Cases,        \* the (nodes, deg, connected) requests passed to the generator
  MaxRestarts   \* bound on the restarts of GenerateStegerWormald

VARIABLES
  req,        \* the request of the outermost call
  deg,        \* the deg of the current call frame (after its inversion)
  inverted,   \* the current frame's inverted flag
  width,      \* residual width of every point in the points tree
  adj,        \* tuples, as a set of edges {u, v}
  edges,      \* the edges counter (endpoints still to place)
  comps,      \* makeRegularGraphConnected's components slice
  pc,         \* "draw", "connect", "done" or "error"
  restarts    \* how many times the generator has called itself again

vars == <<req, deg, inverted, width, adj, edges, comps, pc, restarts>>

Nodes == 0 .. req.nodes - 1
Nbrs(v) == {u \in Nodes : {u, v} \in adj}
Degree(v) == Cardinality(Nbrs(v))

TypeOK ==
  /\ req \in Cases
  /\ deg \in Nat /\ inverted \in BOOLEAN
  /\ width \in [Nodes -> Nat]
  /\ adj \subseteq {e \in SUBSET Nodes : Cardinality(e) = 2}
  /\ edges \in Nat
  /\ comps \in Seq(SUBSET Nodes)
  /\ pc \in {"draw", "connect", "done", "error"}
  /\ restarts \in 0 .. MaxRestarts

(* The breadth-first search of extractComponents: every node reached    *)
(* from S over the edges E.                                               *)
RECURSIVE Reached(_, _)
Reached(S, E) ==
  LET S1 == S \cup {u \in Nodes : \E v \in S : {u, v} \in E}
  IN IF S1 = S THEN S ELSE Reached(S1, E)

(* extractComponents: the components in the order of their smallest node *)
(* (each search starts from the first index not yet found).               *)
ExtractComponents(E) ==
  SetToSortSeq({Reached({v}, E) : v \in Nodes}, LAMBDA a, b : Min(a) < Min(b))

(* The state GenerateStegerWormald(req.nodes, d, req.connected) starts    *)
(* in: the validity check, the inversion, createPoints and the empty      *)
(* tuples.                                                                *)
Call(d) ==
  LET n == req.nodes
      invalid == n <= 0 \/ (n * d) % 2 # 0 \/ d >= n \/ (req.connected /\ d < 2 /\ n > 2)
      inv == d > n \div 2
      d1 == IF inv THEN (n - d) - 1 ELSE d
  IN [pc |-> IF invalid THEN "error" ELSE "draw",
      inverted |-> inv /\ ~invalid, deg |-> d1,
      width |-> [v \in Nodes |-> d1], edges |-> n * d1]

Init ==
  /\ req \in Cases
  /\ LET s == Call(req.deg)
     IN /\ pc = s.pc /\ inverted = s.inverted /\ deg = s.deg
        /\ width = s.width /\ edges = s.edges
  /\ adj = {} /\ comps = <<>> /\ restarts = 0

(* Mutant of Draw: the left == right check is dropped.                   *)
DrawSelfLoop(l, r) ==
  /\ pc = "draw" /\ edges # 0
  /\ width[l] > 0 /\ width[r] > 0
  /\ {l, r} \notin adj
  /\ adj' = adj \cup {{l, r}}
  /\ width' = [width EXCEPT ![l] = @ - 1, ![r] = @ - 1]
  /\ edges' = edges - 2
  /\ UNCHANGED <<req, deg, inverted, comps, pc, restarts>>

(* A successful draw: two distinct, non-adjacent points become an edge   *)
(* and both lose one unit of width.                                       *)
Draw(l, r) ==
  /\ pc = "draw" /\ edges # 0
  /\ width[l] > 0 /\ width[r] > 0
  /\ l # r /\ {l, r} \notin adj
  /\ adj' = adj \cup {{l, r}}
  /\ width' = [width EXCEPT ![l] = @ - 1, ![r] = @ - 1]
  /\ edges' = edges - 2
  /\ UNCHANGED <<req, deg, inverted, comps, pc, restarts>>

(* The drawn pair collides and the counter has passed 2*edges: the guard *)
(* of the call to fixStegerWormald.                                       *)
Stuck(l, r) ==
  /\ pc = "draw" /\ edges # 0
  /\ width[l] > 0 /\ width[r] > 0
  /\ l = r \/ {l, r} \in adj
  /\ l # r \/ width[l] > 1

(* fixStegerWormald's candidate edges: edges between two nodes adjacent  *)
(* to neither left nor right.                                             *)
CandidateEdges(l, r) ==
  LET cand == {k \in Nodes : {l, k} \notin adj /\ {r, k} \notin adj}
  IN {e \in adj : e \subseteq cand}

(* Mutant of Fix: the switched edge fst-snd is not deleted.              *)
FixKeepEdge(l, r) ==
  /\ Stuck(l, r)
  /\ \E e \in CandidateEdges(l, r) :
       adj' = adj \cup {{Min(e), l}, {Max(e), r}}
  /\ width' = [width EXCEPT ![l] = @ - 1, ![r] = @ - 1]
  /\ edges' = edges - 2
  /\ UNCHANGED <<req, deg, inverted, comps, pc, restarts>>

(* fixStegerWormald succeeds: the edge fst-snd (fst < snd) is replaced   *)
(* by fst-left and snd-right; left and right each lose one unit.         *)
Fix(l, r) ==
  /\ Stuck(l, r)
  /\ \E e \in CandidateEdges(l, r) :
       adj' = (adj \ {e}) \cup {{Min(e), l}, {Max(e), r}}
  /\ width' = [width EXCEPT ![l] = @ - 1, ![r] = @ - 1]
  /\ edges' = edges - 2
  /\ UNCHANGED <<req, deg, inverted, comps, pc, restarts>>

(* fixStegerWormald fails: GenerateStegerWormald calls itself with the   *)
(* frame's current deg and returns that call's result unchanged.         *)
Restart(l, r) ==
  /\ Stuck(l, r)
  /\ CandidateEdges(l, r) = {}
  /\ restarts < MaxRestarts
  /\ LET s == Call(deg)
     IN /\ pc' = s.pc /\ inverted' = s.inverted /\ deg' = s.deg
        /\ width' = s.width /\ edges' = s.edges
  /\ adj' = {}
  /\ restarts' = restarts + 1
  /\ UNCHANGED <<req, comps>>

(* invertGraph: every pair of distinct nodes not joined in b.            *)
Complement(E) == {{u, v} : u, v \in Nodes} \ (E \cup {{v} : v \in Nodes})

(* Mutant of Finish: the inverted graph is returned without invertGraph. *)
FinishNoInvert ==
  /\ pc = "draw" /\ edges = 0
  /\ pc' = IF req.connected /\ ~inverted THEN "connect" ELSE "done"
  /\ comps' = ExtractComponents(adj)
  /\ UNCHANGED <<req, deg, inverted, width, adj, edges, restarts>>

(* Mutant of Finish: the repair runs only when inversion was used.       *)
FinishSwapConnected ==
  /\ pc = "draw" /\ edges = 0
  /\ adj' = IF inverted THEN Complement(adj) ELSE adj
  /\ pc' = IF req.connected /\ inverted THEN "connect" ELSE "done"
  /\ comps' = ExtractComponents(adj')
  /\ UNCHANGED <<req, deg, inverted, width, edges, restarts>>

(* The loop ends: invert if the frame inverted, then enter the repair   *)
(* if connectivity was asked for and inversion was not used.            *)
Finish ==
  /\ pc = "draw" /\ edges = 0
  /\ adj' = IF inverted THEN Complement(adj) ELSE adj
  /\ pc' = IF req.connected /\ ~inverted THEN "connect" ELSE "done"
  /\ comps' = IF pc' = "connect" THEN ExtractComponents(adj') ELSE comps
  /\ UNCHANGED <<req, deg, inverted, width, edges, restarts>>

(* One iteration of the repair loop on the first two components: remove *)
(* firstNode-first2Node and secondNode-second2Node, add firstNode-       *)
(* second2Node and first2Node-secondNode, append the union.  Every node  *)
(* has a neighbour (deg >= 2 when connected), so rand.Intn never gets 0. *)
Merge(f, f2, s, s2) ==
  /\ pc = "connect" /\ Len(comps) > 1
  /\ f \in comps[1] /\ f2 \in Nbrs(f)
  /\ s \in comps[2] /\ s2 \in Nbrs(s)
  /\ adj' = (adj \ {{f, f2}, {s, s2}}) \cup {{f, s2}, {f2, s}}
  /\ comps' = Append(Tail(Tail(comps)), comps[1] \cup comps[2])
  /\ UNCHANGED <<req, deg, inverted, width, edges, pc, restarts>>

(* The loop has one component left: extractComponents again, return if  *)
(* the graph is connected, else repair again from the current graph.     *)
Recheck ==
  /\ pc = "connect" /\ Len(comps) = 1
  /\ LET cs == ExtractComponents(adj)
     IN IF Len(cs) = 1 THEN pc' = "done" /\ comps' = comps
        ELSE comps' = cs /\ pc' = pc
  /\ UNCHANGED <<req, deg, inverted, width, adj, edges, restarts>>

Next ==
  \/ \E l, r \in Nodes : Draw(l, r) \/ Fix(l, r) \/ Restart(l, r)
  \/ Finish
  \/ \E f, f2, s, s2 \in Nodes : Merge(f, f2, s, s2)
  \/ Recheck

Spec == Init /\ [][Next]_vars

-----------------------------------------------------------------------------
(* While edges are drawn, every node's degree plus its residual width in *)
(* the points tree is the frame's deg, and the edges counter is the sum  *)
(* of the widths: draws and the fix switching keep the degree sequence   *)
(* the tree promises.                                                     *)
DeficitInvariant ==
  pc = "draw" =>
    /\ \A v \in Nodes : Degree(v) + width[v] = deg
    /\ edges = SumFunctionOnSet(width, Nodes)

(* Spec: every generated exact-degree graph has every node of degree     *)
(* exactly the requested degree (GenerateStegerWormald's result).        *)
ResultRegular ==
  pc = "done" => \A v \in Nodes : Degree(v) = req.deg

(* Spec: when connectivity is requested, a traversal of the returned     *)
(* graph reaches every node.                                              *)
ResultConnected ==
  pc = "done" /\ req.connected => \A v \in Nodes : Reached({v}, adj) = Nodes

=============================================================================
