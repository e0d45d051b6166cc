------------------------- MODULE MCPersistentService -------------------------
(* Model values for PersistentService.                                    *)
EXTENDS PersistentService, TLC

CONSTANTS h1, h2, h3, g1, g2, g3, b1, b2

MCHandlers2 == {h1, h2}
MCHandlers3 == {h1, h2, h3}
MCGraphIds == {g1, g2, g3}
MCBatchIds1 == {b1}
MCBatchIds2 == {b1, b2}
AllOps == {"newReq", "newBatch", "getBatch", "delGraph", "delBatch", "list"}
BatchOps == {"newBatch", "getBatch"}
CreateOps == {"newReq", "newBatch", "getBatch"}
CreateListOps == {"newReq", "newBatch", "getBatch", "list"}
LiveOps == {"newReq", "newBatch", "getBatch", "delGraph", "delBatch"}
DeleteOps == {"newReq", "delGraph"}
GraphDeleteOps == {"newBatch", "getBatch", "delGraph"}
BatchDeleteOps == {"newBatch", "getBatch", "delBatch"}

(* Two sessions, one the other's prefix: a client can send any cookie.   *)
MCSessions == {<<"a">>, <<"a", "b">>}

(* The same with a "-" inside the longer one: uuids contain "-".          *)
MCSessionsDash == {<<"a">>, <<"a", "-", "b">>}

Symmetry2 == Permutations(MCHandlers2) \cup Permutations(MCGraphIds)
Symmetry3 == Permutations(MCHandlers3) \cup Permutations(MCGraphIds)
=============================================================================
