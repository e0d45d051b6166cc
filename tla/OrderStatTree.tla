---------------------------- MODULE OrderStatTree ----------------------------
(***************************************************************************)
(* The weighted order-statistic tree of                                   *)
(* pkg/generator/algorithms/bst.go (Tree / treeNode).  The pointer-linked *)
(* nodes are an arena indexed by point identity 0..N-1 (treeNode.val);    *)
(* Nil stands for a nil pointer.  Every helper that walks or rewires      *)
(* the tree is an operator that returns the whole new tree, so one TLA+   *)
(* step is one call of New's insertion loop or of Tree.RemovePoint.      *)
(* GetPoint, GetRank and Length do not change the tree; they are          *)
(* operators checked against a reference definition in every state.      *)
(***************************************************************************)
EXTENDS Naturals, Integers, TLC
LOCAL INSTANCE Functions

CONSTANTS
  N,         \* number of points passed to New
  MaxWidth   \* largest initial width (degree deficit) of a point

ASSUME N \in Nat \ {0} /\ MaxWidth \in Nat

Nodes == 0..N-1
Nil == -1

VARIABLES
  tree,   \* the fields of every treeNode
  root,   \* New's local root, then Tree.root
  built   \* points inserted so far by New (node 0 is the initial root)

vars == <<tree, root, built>>

TreeType ==
  [width: [Nodes -> Nat], subTree: [Nodes -> Nat], height: [Nodes -> Nat],
   balance: [Nodes -> Int], left: [Nodes -> Nodes \cup {Nil}],
   right: [Nodes -> Nodes \cup {Nil}], parent: [Nodes -> Nodes \cup {Nil}]]

TypeOK ==
  /\ tree \in TreeType
  /\ root \in Nodes
  /\ built \in 1..N

-----------------------------------------------------------------------------
(* treeNode.updateHeight: height, balance and subTree from the children.  *)
UpdateHeight(T, n) ==
  LET L == T.left[n]
      R == T.right[n]
      hl == IF L = Nil THEN 0 ELSE T.height[L] + 1
      hr == IF R = Nil THEN 0 ELSE T.height[R] + 1
      sl == IF L = Nil THEN 0 ELSE T.subTree[L]
      sr == IF R = Nil THEN 0 ELSE T.subTree[R]
  IN [T EXCEPT !.height[n] = IF hr > hl THEN hr ELSE hl,
               !.balance[n] = hl - hr,
               !.subTree[n] = T.width[n] + sl + sr]

(* Mutant of UpdateWidth: the new subTree is not propagated to ancestors. *)
UpdateWidthLocal(T, n) ==
  LET sl == IF T.left[n] = Nil THEN 0 ELSE T.subTree[T.left[n]]
      sr == IF T.right[n] = Nil THEN 0 ELSE T.subTree[T.right[n]]
  IN [T EXCEPT !.subTree[n] = sl + T.width[n] + sr]

(* treeNode.updateWidth: subTree of n and of every ancestor.              *)
RECURSIVE UpdateWidth(_, _)
UpdateWidth(T, n) ==
  LET sl == IF T.left[n] = Nil THEN 0 ELSE T.subTree[T.left[n]]
      sr == IF T.right[n] = Nil THEN 0 ELSE T.subTree[T.right[n]]
      T1 == [T EXCEPT !.subTree[n] = sl + T.width[n] + sr]
  IN IF T.parent[n] = Nil THEN T1 ELSE UpdateWidth(T1, T.parent[n])

(* treeNode.rebalance: updateHeight from n up to the root.                *)
RECURSIVE Rebalance(_, _)
Rebalance(T, n) ==
  LET T1 == UpdateHeight(T, n)
  IN IF T1.parent[n] = Nil THEN T1 ELSE Rebalance(T1, T1.parent[n])

(* treeNode.updateChild.                                                  *)
UpdateChild(T, n, old, new) ==
  IF old = T.left[n] THEN [T EXCEPT !.left[n] = new]
  ELSE IF old = T.right[n] THEN [T EXCEPT !.right[n] = new]
  ELSE T

RECURSIVE CheckUp(_, _, _), RRRotation(_, _)

(* treeNode.checkUp(child) on n: if n's parent g is out of balance,       *)
(* rotate at n according to the sides of child and n, else go up.        *)
(* New inserts 0..N-1 in ascending order, so child is always a right     *)
(* child of a right child: only the right-right case (rrRotation) is      *)
(* reachable, and reaching another case stops the model checker.         *)
CheckUp(T, n, child) ==
  IF T.parent[n] = Nil THEN T
  ELSE LET g == T.parent[n]
           leftGrand == T.left[n] = child
           leftCh == T.left[g] = n
       IN IF T.balance[g] > 1 \/ T.balance[g] < -1
          THEN IF ~leftGrand /\ ~leftCh
                 THEN RRRotation(T, n)
                 ELSE Assert(FALSE, "ll/lr/rl rotation reached")
          ELSE CheckUp(T, g, n)

(* Mutant of RRRotation: n's inner (left) subtree is not handed over to   *)
(* the old parent.                                                        *)
RRRotationDropInner(T, n) ==
  LET oldPar == T.parent[n]
      par == T.parent[oldPar]
      T1 == [T EXCEPT !.left[n] = oldPar, !.parent[n] = par,
                      !.right[oldPar] = Nil, !.parent[oldPar] = n]
      T3 == UpdateHeight(UpdateHeight(T1, oldPar), n)
  IN IF par # Nil THEN CheckUp(UpdateChild(T3, par, oldPar, n), par, n)
     ELSE T3

(* treeNode.rrRotation: n replaces its parent, which becomes n's left    *)
(* child; the check continues from the grandparent.                       *)
RRRotation(T, n) ==
  LET left == T.left[n]
      oldPar == T.parent[n]
      par == T.parent[oldPar]
      T1 == [T EXCEPT !.left[n] = oldPar, !.parent[n] = par,
                      !.right[oldPar] = left]
      T2 == IF left # Nil THEN [T1 EXCEPT !.parent[left] = oldPar] ELSE T1
      T3 == UpdateHeight(UpdateHeight([T2 EXCEPT !.parent[oldPar] = n], oldPar), n)
  IN IF par # Nil THEN CheckUp(UpdateChild(T3, par, oldPar, n), par, n)
     ELSE T3

(* insertNode: descend by val, hang v as a leaf, rebalance up, traverse. *)
RECURSIVE InsertNode(_, _, _)
InsertNode(T, n, v) ==
  LET side == IF n < v THEN "right" ELSE "left"
      child == T[side][n]
      T1 == [T EXCEPT ![side][n] = v, !.parent[v] = n]
      T2 == Rebalance(T1, n)
  IN IF child # Nil THEN InsertNode(T, child, v)
     ELSE IF T2.parent[n] = Nil THEN T2
     ELSE CheckUp(T2, T2.parent[n], n)

(* New's loop: for root.parent != nil { root = root.parent }.            *)
RECURSIVE Climb(_, _)
Climb(T, n) == IF T.parent[n] = Nil THEN n ELSE Climb(T, T.parent[n])

(* The search loop shared by RemovePoint and GetRank.                     *)
RECURSIVE Find(_, _, _)
Find(T, it, v) ==
  IF it = Nil \/ it = v THEN it
  ELSE Find(T, IF v < it THEN T.left[it] ELSE T.right[it], v)

(* Tree.Length.                                                           *)
Length == tree.subTree[root]

(* Tree.GetRank: residual width of a point, 0 when not found.             *)
GetRank(v) == LET it == Find(tree, root, v) IN IF it = Nil THEN 0 ELSE tree.width[it]

(* Tree.GetPoint: descend comparing n with the left aggregate and the    *)
(* node's own width; -1 is the error result.                              *)
RECURSIVE Select(_, _)
Select(it, n) ==
  IF it = Nil THEN -1
  ELSE LET leftBound == IF tree.left[it] = Nil THEN 0 ELSE tree.subTree[tree.left[it]]
           midBound == leftBound + tree.width[it]
       IN IF n < leftBound THEN Select(tree.left[it], n)
          ELSE IF n < midBound THEN it
          ELSE Select(tree.right[it], n - midBound)

GetPoint(n) == IF tree.subTree[root] <= n THEN -1 ELSE Select(root, n)

-----------------------------------------------------------------------------
(* New(number, width): every node starts with subTree = width, except the *)
(* first, taken as root, whose subTree is set to 0.                       *)
Init ==
  \E w \in [Nodes -> 0..MaxWidth] :
    /\ tree = [width |-> w,
               subTree |-> [n \in Nodes |-> IF n = 0 THEN 0 ELSE w[n]],
               height |-> [n \in Nodes |-> 0],
               balance |-> [n \in Nodes |-> 0],
               left |-> [n \in Nodes |-> Nil],
               right |-> [n \in Nodes |-> Nil],
               parent |-> [n \in Nodes |-> Nil]]
    /\ root = 0
    /\ built = 1

(* One iteration of New's loop: root.insertNode(nodes[built]), then move  *)
(* root up to the top.                                                    *)
Insert ==
  /\ built < N
  /\ LET T == InsertNode(tree, root, built)
     IN /\ tree' = T
        /\ root' = Climb(T, root)
  /\ built' = built + 1

(* Mutant of RemovePoint: the width > 0 check is dropped.                 *)
RemovePointNoGuard(v) ==
  /\ built = N
  /\ LET it == Find(tree, root, v)
     IN /\ it # Nil
        /\ tree' = UpdateWidth([tree EXCEPT !.width[it] = @ - 1], it)
  /\ UNCHANGED <<root, built>>

(* Tree.RemovePoint(v): find the node, and if its width is positive,     *)
(* decrement it and propagate subTree to the root.  The generators call   *)
(* it only on a built tree.                                               *)
RemovePoint(v) ==
  /\ built = N
  /\ LET it == Find(tree, root, v)
     IN /\ it # Nil
        /\ tree.width[it] > 0
        /\ tree' = UpdateWidth([tree EXCEPT !.width[it] = @ - 1], it)
  /\ UNCHANGED <<root, built>>

Next == Insert \/ \E v \in Nodes : RemovePoint(v)

Spec == Init /\ [][Next]_vars

-----------------------------------------------------------------------------
(* Reference: the points in ascending order, each repeated width times.  *)
Prefix(v) == SumFunctionOnSet(tree.width, {u \in Nodes : u < v})
SelectRef(n) == CHOOSE v \in Nodes : Prefix(v) <= n /\ n < Prefix(v) + tree.width[v]
TotalWidth == SumFunctionOnSet(tree.width, Nodes)

(* After New and any sequence of RemovePoint calls, Length() is the sum   *)
(* of the residual widths and GetPoint(k), for every k the generators may *)
(* draw with rand.Intn(Length()), returns the point owning position k of  *)
(* the weighted sequence, a point with positive residual width.           *)
SelectionCorrect ==
  built = N =>
    /\ Length = TotalWidth
    /\ \A k \in 0..TotalWidth - 1 : GetPoint(k) = SelectRef(k)

(* RemovePoint and GetRank find every point by its value: the rotations   *)
(* keep the search-tree order.                                            *)
EveryPointFound ==
  built = N => \A v \in Nodes : Find(tree, root, v) = v

=============================================================================
