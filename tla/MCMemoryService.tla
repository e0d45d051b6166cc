-------------------------- MODULE MCMemoryService --------------------------
(* Model values for MemoryService.                                        *)
EXTENDS MemoryService, TLC

CONSTANTS h1, h2, s1, s2, g1, g2, g3, b1

MCHandlers == {h1, h2}
MCSessions == {s1, s2}
MCGraphIds == {g1, g2, g3}
MCBatchIds == {b1}
AllOps == {"newReq", "newBatch", "getBatch"}

(* Each client's calls are sequential: one handler per session.           *)
OwnSession == (h1 :> s1) @@ (h2 :> s2)
(* Two browser tabs of one session calling at once.                       *)
SharedSession == (h1 :> s1) @@ (h2 :> s1)

\* Request ids are drawn at random, so any two are interchangeable.
Symmetry == Permutations(MCGraphIds)
=============================================================================
