-------------------------- MODULE PersistentService --------------------------
(***************************************************************************)
(* The persistent request service of                                      *)
(* pkg/requests/persistent/persistent_service.go, composed with the       *)
(* generation pool it drives (GenPool, implemented by GenService):        *)
(*   - HTTP handlers calling StoreNewRequest, StoreNewBatch, GetBatch,     *)
(*     DeleteGraph and DeleteBatch;                                        *)
(*   - the retrieveGraphs goroutine calling StoreGraph for every result;  *)
(*   - the cleanLoop goroutine running doMaintenance;                      *)
(*   - a restart of the process (New reopens the same database).          *)
(* The badger database is its key space: request-<id>, result-<id>,       *)
(* batch-<id> and batch-graph-<b>-<g> keys.  Owner keys, TTLs and the     *)
(* graph payload are left out.  Every badger Update or View is one        *)
(* atomic step (badger transactions are serializable); an operation that  *)
(* returns an error without writing is a stutter and is not written out.  *)
(* Ids drawn with rand.Uint32 are fresh model values: a collision with a  *)
(* deleted id has probability 2^-32 per draw.                             *)
(***************************************************************************)
EXTENDS Naturals, Sequences, FiniteSets
LOCAL INSTANCE SequencesExt

CONSTANTS
  Handlers,        \* concurrent HTTP handler goroutines
  GraphIds,        \* request ids
  BatchIds,        \* batch ids
  BatchSize,       \* request.Number of every batch
  NWorkers, QueueCap, OutCap,   \* of the generation service
  Ops,             \* the service calls the handlers make
  MaxMaintenance,  \* bound on maintenance windows
  MaxRestarts,     \* bound on process restarts
  Sessions,        \* session identifiers (the RNGRSESSION cookie), as character sequences
  NoBatch, NoId

ASSUME BatchSize \in Nat \ {0} /\ BatchSize <= QueueCap
ASSUME Ops \subseteq {"newReq", "newBatch", "getBatch", "delGraph", "delBatch", "list"}

VARIABLES
  req,         \* request-<g>: "absent" or its Status
  reqBatch,    \* BatchId field of request-<g>
  result,      \* ids with a result-<g> key
  batch,       \* batch-<b>: "absent" or its Status
  batchGraphs, \* GraphsIDs of the batch-<b> record
  bgKeys,      \* batch-graph-<b>-<g> keys
  ownerG,      \* graphowner-<s>-<g> keys, as pairs <<s, g>>
  ownerB,      \* batchowner-<s>-<b> keys, as pairs <<s, b>>
  dbOpen,      \* p.dbHandle is open
  epoch,       \* which handle p.dbHandle is (changes on every reopen)
  queued, busy, out, paused,   \* the generation pool
  maintenance, \* p.maintenance
  mpc,         \* the cleanLoop goroutine inside doMaintenance
  maints,      \* maintenance windows begun
  restarts,    \* restarts so far
  hpc,         \* each handler
  hid,         \* the id a handler works on
  hepoch,      \* the handle StoreNewBatch's transaction was opened on
  hpush,       \* requests StoreNewBatch has still to push
  usedG, usedB, \* ids drawn so far
  accepted,    \* request ids returned to a client by StoreNewRequest
  failed,      \* requests whose generation failed
  deletedG,    \* requests removed by DeleteGraph or DeleteBatch
  listedG,     \* <<s, g>>: ListRequests(s) has returned g
  listedB,     \* <<s, b>>: ListBatches(s) has returned b
  acceptedB,   \* batch ids handleBatchCreate answered 201 Created
  deletedB,    \* batches removed by DeleteBatch
  delOk        \* graphs a DELETE was answered with a 2xx status for

dbVars == <<req, reqBatch, result, batch, batchGraphs, bgKeys, ownerG, ownerB>>
poolVars == <<queued, busy, out, paused>>
handlerVars == <<hpc, hid, hepoch, hpush>>
histVars == <<usedG, usedB, accepted, failed, deletedG, listedG, listedB>>
apiVars == <<acceptedB, deletedB, delOk>>
vars == <<dbVars, dbOpen, epoch, poolVars, maintenance, mpc, maints, restarts,
          handlerVars, histVars, apiVars>>

Pool == INSTANCE GenPool WITH Requests <- GraphIds

Status == {"absent", "NotFinished", "Finished"}

TypeOK ==
  /\ req \in [GraphIds -> Status]
  /\ reqBatch \in [GraphIds -> BatchIds \cup {NoBatch}]
  /\ result \subseteq GraphIds
  /\ batch \in [BatchIds -> Status]
  /\ batchGraphs \in [BatchIds -> SUBSET GraphIds]
  /\ bgKeys \subseteq BatchIds \X GraphIds
  /\ dbOpen \in BOOLEAN /\ epoch \in Nat
  /\ Pool!PoolTypeOK
  /\ maintenance \in BOOLEAN
  /\ mpc \in {"idle", "paused", "closed", "resumed"}
  /\ maints \in 0..MaxMaintenance /\ restarts \in 0..MaxRestarts
  /\ hpc \in [Handlers -> {"idle", "nrUpdate", "nrPush", "nbCommit", "nbPush",
                           "nbPushFailed", "gbUpdate", "dgService"}]
  /\ hid \in [Handlers -> GraphIds \cup BatchIds \cup {NoId}]
  /\ hepoch \in [Handlers -> Nat]
  /\ hpush \in [Handlers -> SUBSET GraphIds]
  /\ usedG \subseteq GraphIds /\ usedB \subseteq BatchIds
  /\ accepted \subseteq GraphIds /\ failed \subseteq GraphIds
  /\ deletedG \subseteq GraphIds
  /\ ownerG \subseteq Sessions \X GraphIds /\ ownerB \subseteq Sessions \X BatchIds
  /\ listedG \subseteq Sessions \X GraphIds /\ listedB \subseteq Sessions \X BatchIds
  /\ acceptedB \subseteq BatchIds /\ deletedB \subseteq BatchIds
  /\ delOk \subseteq GraphIds

Init ==
  /\ req = [g \in GraphIds |-> "absent"]
  /\ reqBatch = [g \in GraphIds |-> NoBatch]
  /\ result = {}
  /\ batch = [b \in BatchIds |-> "absent"]
  /\ batchGraphs = [b \in BatchIds |-> {}]
  /\ bgKeys = {}
  /\ ownerG = {} /\ ownerB = {}
  /\ dbOpen = TRUE /\ epoch = 0
  /\ Pool!PoolInit
  /\ maintenance = FALSE /\ mpc = "idle" /\ maints = 0 /\ restarts = 0
  /\ hpc = [h \in Handlers |-> "idle"]
  /\ hid = [h \in Handlers |-> NoId]
  /\ hepoch = [h \in Handlers |-> 0]
  /\ hpush = [h \in Handlers |-> {}]
  /\ usedG = {} /\ usedB = {} /\ accepted = {} /\ failed = {}
  /\ deletedG = {}
  /\ listedG = {} /\ listedB = {}
  /\ acceptedB = {} /\ deletedB = {} /\ delOk = {}


-----------------------------------------------------------------------------
(* StoreNewRequest, first half: CheckMaintenance, then the Update.  When   *)
(* p.dbHandle is closed the Update fails with ErrDBClosed before its       *)
(* closure runs, so nothing is stored; the error is overwritten below.    *)
NRCheck(h) ==
  /\ hpc[h] = "idle" /\ "newReq" \in Ops
  /\ ~maintenance
  /\ hpc' = [hpc EXCEPT ![h] = "nrUpdate"]
  /\ UNCHANGED <<dbVars, dbOpen, epoch, poolVars, maintenance, mpc, maints,
                 restarts, hid, hepoch, hpush, histVars, apiVars>>

(* The Update: storeGraphRequest draws a fresh id and writes request-<id>  *)
(* as NotFinished; updateGraphOwner writes graphowner-<s>-<id> for the    *)
(* session s the handler took from the RNGRSESSION cookie.  On a closed   *)
(* handle the closure never runs and the request keeps the ID the client  *)
(* bound (json "id", 0 if absent); Update's ErrDBClosed is overwritten by *)
(* PushRequest's error.  The model gives that ID an id no other request   *)
(* carries: the pool keeps request identities distinct, so a client ID    *)
(* colliding with a stored or queued request is not modelled.            *)
NRUpdate(h) ==
  /\ hpc[h] = "nrUpdate"
  /\ \E g \in GraphIds \ usedG, s \in Sessions :
       /\ usedG' = usedG \cup {g}
       /\ hid' = [hid EXCEPT ![h] = g]
       /\ IF dbOpen
            THEN /\ req' = [req EXCEPT ![g] = "NotFinished"]
                 /\ ownerG' = ownerG \cup {<<s, g>>}
            ELSE UNCHANGED <<req, ownerG, apiVars>>
  /\ hpc' = [hpc EXCEPT ![h] = "nrPush"]
  /\ UNCHANGED <<reqBatch, result, batch, batchGraphs, bgKeys, ownerB, dbOpen,
                 epoch, poolVars, maintenance, mpc, maints, restarts, hepoch,
                 hpush, usedB, accepted, failed, deletedG, listedG, listedB, apiVars>>

(* err = p.generator.PushRequest(request); return request, err: the       *)
(* request is pushed and returned as created whatever the Update did.      *)
NRPush(h) ==
  /\ hpc[h] = "nrPush"
  /\ Pool!Push(hid[h])
  /\ accepted' = accepted \cup {hid[h]}
  /\ hpc' = [hpc EXCEPT ![h] = "idle"]
  /\ hid' = [hid EXCEPT ![h] = NoId]
  /\ UNCHANGED <<dbVars, dbOpen, epoch, maintenance, mpc, maints, restarts,
                 hepoch, hpush, usedG, usedB, failed, deletedG, listedG, listedB, apiVars>>

(* StoreNewBatch up to NewTransaction: CheckMaintenance and the FreeBand   *)
(* admission check; the transaction is opened on the current handle.      *)
NBBegin(h) ==
  /\ hpc[h] = "idle" /\ "newBatch" \in Ops
  /\ ~maintenance
  /\ Pool!FreeBand >= BatchSize
  /\ hpc' = [hpc EXCEPT ![h] = "nbCommit"]
  /\ hepoch' = [hepoch EXCEPT ![h] = epoch]
  /\ UNCHANGED <<dbVars, dbOpen, epoch, poolVars, maintenance, mpc, maints,
                 restarts, hid, hpush, histVars, apiVars>>

(* Mutant of NBCommit: StoreNewBatch returns nil after a failed Commit. *)
NBCommitIgnoreErr(h) ==
  /\ hpc[h] = "nbCommit"
  /\ \E b \in BatchIds \ usedB, gs \in SUBSET (GraphIds \ usedG), s \in Sessions :
       /\ Cardinality(gs) = BatchSize
       /\ usedB' = usedB \cup {b}
       /\ usedG' = usedG \cup gs
       /\ hid' = [hid EXCEPT ![h] = b]
       /\ IF dbOpen /\ hepoch[h] = epoch
            THEN /\ req' = [g \in GraphIds |-> IF g \in gs THEN "NotFinished" ELSE req[g]]
                 /\ reqBatch' = [g \in GraphIds |-> IF g \in gs THEN b ELSE reqBatch[g]]
                 /\ batch' = [batch EXCEPT ![b] = "NotFinished"]
                 /\ batchGraphs' = [batchGraphs EXCEPT ![b] = gs]
                 /\ ownerB' = ownerB \cup {<<s, b>>}
                 /\ hpc' = [hpc EXCEPT ![h] = "nbPush"]
                 /\ hpush' = [hpush EXCEPT ![h] = gs]
            ELSE /\ UNCHANGED <<req, reqBatch, batch, batchGraphs, ownerB>>
                 /\ \/ /\ hpc' = [hpc EXCEPT ![h] = "nbPush"]
                       /\ hpush' = [hpush EXCEPT ![h] = gs]
                    \/ /\ hpc' = [hpc EXCEPT ![h] = "idle"]
                       /\ UNCHANGED hpush
  /\ UNCHANGED <<result, bgKeys, dbOpen, epoch, poolVars, maintenance, mpc,
                 maints, restarts, hepoch, accepted, failed, deletedG, ownerG, listedG,
                 listedB, apiVars>>

(* The batch transaction: a fresh batch id, BatchSize fresh request ids    *)
(* with BatchId set, the batch record, updateBatchOwner's                  *)
(* batchowner-<s>-<b> key, then Commit, after which every     *)
(* request is pushed whatever Commit returned.  On a handle that was      *)
(* closed meanwhile, Commit fails (nothing is written, the requests are  *)
(* still pushed and the error returned) or the reads inside the         *)
(* transaction fail: a txn.Get that panics ends the handler (recovered by *)
(* gin) and one that keeps returning an error other than ErrKeyNotFound   *)
(* spins the id loop for ever; either way nothing is written or pushed    *)
(* and the handler takes no further part, which "idle" stands for.       *)
NBCommit(h) ==
  /\ hpc[h] = "nbCommit"
  /\ \E b \in BatchIds \ usedB, gs \in SUBSET (GraphIds \ usedG), s \in Sessions :
       /\ Cardinality(gs) = BatchSize
       /\ usedB' = usedB \cup {b}
       /\ usedG' = usedG \cup gs
       /\ hid' = [hid EXCEPT ![h] = b]
       /\ IF dbOpen /\ hepoch[h] = epoch
            THEN /\ req' = [g \in GraphIds |-> IF g \in gs THEN "NotFinished" ELSE req[g]]
                 /\ reqBatch' = [g \in GraphIds |-> IF g \in gs THEN b ELSE reqBatch[g]]
                 /\ batch' = [batch EXCEPT ![b] = "NotFinished"]
                 /\ batchGraphs' = [batchGraphs EXCEPT ![b] = gs]
                 /\ ownerB' = ownerB \cup {<<s, b>>}
                 /\ hpc' = [hpc EXCEPT ![h] = "nbPush"]
                 /\ hpush' = [hpush EXCEPT ![h] = gs]
            ELSE /\ UNCHANGED <<req, reqBatch, batch, batchGraphs, ownerB>>
                 /\ \/ /\ hpc' = [hpc EXCEPT ![h] = "nbPushFailed"]
                       /\ hpush' = [hpush EXCEPT ![h] = gs]
                    \/ /\ hpc' = [hpc EXCEPT ![h] = "idle"]
                       /\ UNCHANGED hpush
  /\ UNCHANGED <<result, bgKeys, dbOpen, epoch, poolVars, maintenance, mpc,
                 maints, restarts, hepoch, accepted, failed, deletedG, ownerG, listedG,
                 listedB, apiVars>>

(* handleBatchCreate once StoreNewBatch has returned: 500 "could not    *)
(* store batch" on an error, else 201 with the batch.                     *)
BatchCreateCode(failedErr) == IF failedErr THEN 500 ELSE 201

(* for _, v := range graphRequests { p.generator.PushRequest(v) }: one     *)
(* blocking push per step; after the last, StoreNewBatch returns Commit's *)
(* error and the route answers.                                          *)
NBPush(h) ==
  /\ hpc[h] \in {"nbPush", "nbPushFailed"}
  /\ LET g == CHOOSE x \in hpush[h] : TRUE
         last == hpush[h] = {g}
     IN /\ Pool!Push(g)
        /\ hpush' = [hpush EXCEPT ![h] = @ \ {g}]
        /\ hpc' = [hpc EXCEPT ![h] = IF last THEN "idle" ELSE @]
        /\ hid' = [hid EXCEPT ![h] = IF last THEN NoId ELSE @]
        /\ acceptedB' = IF last /\ BatchCreateCode(hpc[h] = "nbPushFailed") = 201
                           THEN acceptedB \cup {hid[h]} ELSE acceptedB
  /\ UNCHANGED <<dbVars, dbOpen, epoch, maintenance, mpc, maints, restarts,
                 hepoch, histVars, deletedB, delOk>>


(* batchFinished: the number of batch-graph-<b>- keys.                     *)
BatchFinished(b) == Cardinality({g \in GraphIds : <<b, g>> \in bgKeys})

(* GetBatch, first transaction: View reads the batch record; a           *)
(* NotFinished record leads to the second transaction.  A missing or      *)
(* Finished record, or a closed handle, returns without writing.          *)
GBView(h) ==
  /\ hpc[h] = "idle" /\ "getBatch" \in Ops
  /\ ~maintenance
  /\ \E b \in usedB :
       /\ dbOpen /\ batch[b] = "NotFinished"
       /\ hid' = [hid EXCEPT ![h] = b]
  /\ hpc' = [hpc EXCEPT ![h] = "gbUpdate"]
  /\ UNCHANGED <<dbVars, dbOpen, epoch, poolVars, maintenance, mpc, maints,
                 restarts, hepoch, hpush, histVars, apiVars>>

(* Mutant of GBUpdate: the count is compared with Number - 1.            *)
GBUpdateOffByOne(h) ==
  /\ hpc[h] = "gbUpdate"
  /\ LET b == hid[h]
     IN IF dbOpen /\ BatchFinished(b) >= BatchSize - 1
          THEN batch' = [batch EXCEPT ![b] = "Finished"]
          ELSE UNCHANGED batch
  /\ hpc' = [hpc EXCEPT ![h] = "idle"]
  /\ hid' = [hid EXCEPT ![h] = NoId]
  /\ UNCHANGED <<req, reqBatch, result, batchGraphs, bgKeys, dbOpen, epoch,
                 poolVars, maintenance, mpc, maints, restarts, hepoch, hpush,
                 ownerG, ownerB, histVars, apiVars>>

(* GetBatch, second transaction: count the batch-graph keys and, when      *)
(* count == result.Number, write back the record read by the View with    *)
(* Status Finished.                                                        *)
GBUpdate(h) ==
  /\ hpc[h] = "gbUpdate"
  /\ LET b == hid[h]
     IN IF dbOpen /\ BatchFinished(b) = BatchSize
          THEN batch' = [batch EXCEPT ![b] = "Finished"]
          ELSE UNCHANGED batch
  /\ hpc' = [hpc EXCEPT ![h] = "idle"]
  /\ hid' = [hid EXCEPT ![h] = NoId]
  /\ UNCHANGED <<req, reqBatch, result, batchGraphs, bgKeys, dbOpen, epoch,
                 poolVars, maintenance, mpc, maints, restarts, hepoch, hpush,
                 ownerG, ownerB, histVars, apiVars>>

(* handleDeleteGraph can delete g: request-<g> exists and is Finished.    *)
Deletable(g) == req[g] = "Finished"

(* SetUpRequestService lets a request through to its route only outside  *)
(* maintenance; during maintenance it answers 503 and aborts.            *)
MiddlewarePasses == ~maintenance

(* handleGraphDelete behind the middleware chain (a 503 is a stutter):   *)
(* the route parses any id a client can name and calls DeleteGraph.     *)
DGRoute(h) ==
  /\ hpc[h] = "idle" /\ "delGraph" \in Ops
  /\ MiddlewarePasses
  /\ \E g \in usedG : hid' = [hid EXCEPT ![h] = g]
  /\ hpc' = [hpc EXCEPT ![h] = "dgService"]
  /\ UNCHANGED <<dbVars, dbOpen, epoch, poolVars, maintenance, mpc, maints,
                 restarts, hepoch, hpush, histVars, apiVars>>

(* The error DeleteGraph(g) returns: its own CheckMaintenance, the        *)
(* Update on a closed handle, then handleDeleteGraph's reads.             *)
DeleteErr(g) ==
  CASE maintenance         -> "ErrServiceMaintenance"
    [] ~dbOpen             -> "ErrDBClosed"
    [] req[g] = "absent"   -> "ErrGraphNotFound"
    [] ~Deletable(g)       -> "ErrGraphNotGenerated"
    [] OTHER               -> "nil"

(* The Error middleware: after the handler, the first error of          *)
(* context.Errors it knows is answered; for any other error nothing is   *)
(* written and gin sends its default 200 with an empty body.             *)
ErrorCode(err) ==
  CASE err \in {"ErrGraphNotFound", "ErrGraphDeleted"}               -> 404
    [] err \in {"ErrUnfinishedGraphBatch", "ErrInvalidGraphFormat"}  -> 400
    [] err = "ErrGraphNotGenerated"                                 -> 405
    [] OTHER                                                        -> 200

(* handleGraphDelete: 204 No Content on success, else r.Error(err).       *)
GraphDeleteCode(err) == IF err = "nil" THEN 204 ELSE ErrorCode(err)

(* DeleteGraph: one Update running handleDeleteGraph, which deletes       *)
(* request-<g> and result-<g> of a Finished request; the route answers.  *)
DeleteGraph(h) ==
  /\ hpc[h] = "dgService"
  /\ LET g == hid[h]
         err == DeleteErr(g)
     IN /\ IF err = "nil"
             THEN /\ req' = [req EXCEPT ![g] = "absent"]
                  /\ result' = result \ {g}
                  /\ deletedG' = deletedG \cup {g}
             ELSE UNCHANGED <<req, result, deletedG>>
        /\ delOk' = IF GraphDeleteCode(err) \in 200 .. 299 THEN delOk \cup {g} ELSE delOk
  /\ hpc' = [hpc EXCEPT ![h] = "idle"]
  /\ hid' = [hid EXCEPT ![h] = NoId]
  /\ UNCHANGED <<reqBatch, batch, batchGraphs, bgKeys, dbOpen, epoch, poolVars,
                 maintenance, mpc, maints, restarts, hepoch, hpush, usedG, usedB,
                 accepted, failed, ownerG, ownerB, listedG, listedB, acceptedB,
                 deletedB>>

(* DeleteBatch: one Update; a Finished batch whose graphs can all be       *)
(* deleted loses them and its batch-<b> key (the batch-graph keys stay);  *)
(* any failing handleDeleteGraph aborts the whole transaction.            *)
DeleteBatch(h) ==
  /\ hpc[h] = "idle" /\ "delBatch" \in Ops
  /\ ~maintenance
  /\ \E b \in usedB :
       /\ dbOpen /\ batch[b] = "Finished"
       /\ \A g \in batchGraphs[b] : Deletable(g)
       /\ req' = [g \in GraphIds |-> IF g \in batchGraphs[b] THEN "absent" ELSE req[g]]
       /\ result' = result \ batchGraphs[b]
       /\ batch' = [batch EXCEPT ![b] = "absent"]
       /\ deletedG' = deletedG \cup batchGraphs[b]
       /\ deletedB' = deletedB \cup {b}
  /\ UNCHANGED <<reqBatch, batchGraphs, bgKeys, dbOpen, epoch, poolVars,
                 maintenance, mpc, maints, restarts, handlerVars, usedG, usedB,
                 accepted, failed, ownerG, ownerB, listedG, listedB, acceptedB,
                 delOk>>

(* The iterator of getUserGraphs / getUserBatches runs while the key has  *)
(* the prefix "graphowner-" s "-" (resp. "batchowner-"), and the key of   *)
(* session s2 and id i is "graphowner-" s2 "-" i with i in decimal: it    *)
(* is visited exactly when s "-" is a prefix of s2 "-".                   *)
PrefixScan(s, s2) == IsPrefix(s \o <<"-">>, s2 \o <<"-">>)

(* The ids a View over the owner keys K returns to session s.            *)
Scan(K, s) == {k[2] : k \in {x \in K : PrefixScan(s, x[1])}}

(* ListRequests(s): CheckMaintenance, a View running getUserGraphs, the    *)
(* ids sorted by their TTL (order is not kept).  A closed handle makes the *)
(* View fail with nothing returned.                                        *)
ListRequests(h) ==
  /\ hpc[h] = "idle" /\ "list" \in Ops
  /\ ~maintenance /\ dbOpen
  /\ \E s \in Sessions : listedG' = listedG \cup {<<s, g>> : g \in Scan(ownerG, s)}
  /\ UNCHANGED <<dbVars, dbOpen, epoch, poolVars, maintenance, mpc, maints,
                 restarts, handlerVars, usedG, usedB, accepted, failed, deletedG,
                 listedB, apiVars>>

(* ListBatches(s): the same over getUserBatches' batchowner keys.          *)
ListBatches(h) ==
  /\ hpc[h] = "idle" /\ "list" \in Ops
  /\ ~maintenance /\ dbOpen
  /\ \E s \in Sessions : listedB' = listedB \cup {<<s, b>> : b \in Scan(ownerB, s)}
  /\ UNCHANGED <<dbVars, dbOpen, epoch, poolVars, maintenance, mpc, maints,
                 restarts, handlerVars, usedG, usedB, accepted, failed, deletedG,
                 listedG, apiVars>>

-----------------------------------------------------------------------------
(* The runners of the generation service.                                 *)
Generate ==
  /\ \E g \in GraphIds :
       \/ Pool!Take(g) /\ UNCHANGED failed
       \/ Pool!Complete(g) /\ UNCHANGED failed
       \/ Pool!Fail(g) /\ failed' = failed \cup {g}
  /\ UNCHANGED <<dbVars, dbOpen, epoch, maintenance, mpc, maints, restarts,
                 handlerVars, usedG, usedB, accepted, deletedG, listedG, listedB, apiVars>>

(* Mutant of StoreGraph: the result is written but the request keeps its *)
(* NotFinished status.                                                     *)
StoreGraphKeepStatus ==
  /\ Pool!Receive
  /\ LET g == Head(out)
         b == reqBatch[g]
     IN IF dbOpen /\ req[g] # "absent" /\ (b = NoBatch \/ batch[b] # "absent")
          THEN /\ result' = result \cup {g}
               /\ bgKeys' = IF b = NoBatch THEN bgKeys ELSE bgKeys \cup {<<b, g>>}
               /\ UNCHANGED req
          ELSE UNCHANGED <<result, req, bgKeys, apiVars>>
  /\ UNCHANGED <<reqBatch, batch, batchGraphs, ownerG, ownerB, dbOpen, epoch,
                 maintenance, mpc, maints, restarts, handlerVars, histVars, apiVars>>

(* Mutant of StoreGraph: updateBatch runs for requests without a batch.   *)
StoreGraphAnyBatch ==
  /\ Pool!Receive
  /\ LET g == Head(out)
         b == reqBatch[g]
     IN IF dbOpen /\ req[g] # "absent" /\ (b = NoBatch \/ batch[b] # "absent")
          THEN /\ result' = result \cup {g}
               /\ req' = [req EXCEPT ![g] = "Finished"]
               /\ bgKeys' = bgKeys \cup {<<b, g>>}
          ELSE UNCHANGED <<result, req, bgKeys, apiVars>>
  /\ UNCHANGED <<reqBatch, batch, batchGraphs, ownerG, ownerB, dbOpen, epoch,
                 maintenance, mpc, maints, restarts, handlerVars, histVars, apiVars>>

(* retrieveGraphs receives a result and calls StoreGraph.  With           *)
(* maintenance on, StoreGraph waits on maintenanceStop, a WaitGroup       *)
(* nothing ever adds to, so it goes on at once.  Its Update reads         *)
(* request-<g> (ErrGraphDeleted if missing), writes result-<g>, marks the *)
(* request Finished and, for a batch member, runs updateBatch, which      *)
(* fails the whole transaction when batch-<b> is missing and otherwise    *)
(* writes batch-graph-<b>-<g>.  A failed Update is logged and the result  *)
(* is gone.                                                               *)
StoreGraph ==
  /\ Pool!Receive
  /\ LET g == Head(out)
         b == reqBatch[g]
     IN IF dbOpen /\ req[g] # "absent" /\ (b = NoBatch \/ batch[b] # "absent")
          THEN /\ result' = result \cup {g}
               /\ req' = [req EXCEPT ![g] = "Finished"]
               /\ bgKeys' = IF b = NoBatch THEN bgKeys ELSE bgKeys \cup {<<b, g>>}
          ELSE UNCHANGED <<result, req, bgKeys, apiVars>>
  /\ UNCHANGED <<reqBatch, batch, batchGraphs, ownerG, ownerB, dbOpen, epoch,
                 maintenance, mpc, maints, restarts, handlerVars, histVars, apiVars>>

-----------------------------------------------------------------------------
(* cleanLoop at a tick past nextMaintenance calls doMaintenance: Pause,   *)
(* which returns once every runner is parked, then maintenance = true.    *)
MaintBegin ==
  /\ mpc = "idle" /\ maints < MaxMaintenance
  /\ Pool!Pause
  /\ maintenance' = TRUE
  /\ mpc' = "paused"
  /\ maints' = maints + 1
  /\ UNCHANGED <<dbVars, dbOpen, epoch, restarts, handlerVars, histVars, apiVars>>

(* p.dbHandle.Close().                                                     *)
MaintClose ==
  /\ mpc = "paused"
  /\ dbOpen' = FALSE
  /\ mpc' = "closed"
  /\ UNCHANGED <<dbVars, epoch, poolVars, maintenance, maints, restarts,
                 handlerVars, histVars, apiVars>>

(* p.dbHandle, err = connectDB(), then p.generator.Resume().              *)
MaintReopen ==
  /\ mpc = "closed"
  /\ dbOpen' = TRUE
  /\ epoch' = epoch + 1
  /\ Pool!Resume
  /\ mpc' = "resumed"
  /\ UNCHANGED <<dbVars, maintenance, maints, restarts, handlerVars, histVars, apiVars>>

(* time.Sleep(5 * time.Second); p.maintenance.Store(false).               *)
MaintEnd ==
  /\ mpc = "resumed"
  /\ maintenance' = FALSE
  /\ mpc' = "idle"
  /\ UNCHANGED <<dbVars, dbOpen, epoch, poolVars, maints, restarts,
                 handlerVars, histVars, apiVars>>

(* The process ends (a panic sent through StopProcessOnUnhandledPanic, a  *)
(* kill) and is started again: main builds a new GenService and           *)
(* persistent.New reopens the database.  Committed keys survive; the      *)
(* channels, the handlers and the maintenance state do not.  New does not *)
(* push the stored NotFinished requests again.                            *)
Restart ==
  /\ restarts < MaxRestarts
  /\ restarts' = restarts + 1
  /\ queued' = {} /\ busy' = {} /\ out' = <<>> /\ paused' = FALSE
  /\ dbOpen' = TRUE /\ epoch' = epoch + 1
  /\ maintenance' = FALSE /\ mpc' = "idle"
  /\ hpc' = [h \in Handlers |-> "idle"]
  /\ hid' = [h \in Handlers |-> NoId]
  /\ hpush' = [h \in Handlers |-> {}]
  /\ UNCHANGED <<dbVars, maints, hepoch, histVars, apiVars>>

Next ==
  \/ \E h \in Handlers :
       \/ NRCheck(h) \/ NRUpdate(h) \/ NRPush(h)
       \/ NBBegin(h) \/ NBCommit(h) \/ NBPush(h)
       \/ GBView(h) \/ GBUpdate(h)
       \/ DGRoute(h) \/ DeleteGraph(h) \/ DeleteBatch(h)
       \/ ListRequests(h) \/ ListBatches(h)
  \/ Generate \/ StoreGraph
  \/ MaintBegin \/ MaintClose \/ MaintReopen \/ MaintEnd
  \/ Restart

Spec == Init /\ [][Next]_vars


-----------------------------------------------------------------------------
(* Requests some goroutine still carries towards StoreGraph: queued or    *)
(* in generation, on the result channel, or held by a handler that has    *)
(* yet to push it.                                                         *)
InFlight ==
  queued \cup busy \cup ToSet(out)
    \cup {hid[h] : h \in {x \in Handlers : hpc[x] = "nrPush"}}
    \cup UNION {hpush[h] : h \in Handlers}

(* A stored request that is not Finished is still on its way to          *)
(* StoreGraph, or its generation failed: no request is left NotFinished   *)
(* for ever while the client polls it.                                    *)
RequestTracked ==
  \A g \in GraphIds : req[g] = "NotFinished" => g \in InFlight \cup failed

(* A request id StoreNewRequest returned to a client as created names a   *)
(* stored request, until the client deletes it.                           *)
AcceptedStored == \A g \in accepted : req[g] # "absent" \/ g \in deletedG

(* A session lists only its own work: every id ListRequests(s) or        *)
(* ListBatches(s) returns was created by a handler of session s (its      *)
(* owner key is <<s, id>>), whatever the other sessions are called.       *)
ListedOwn == listedG \subseteq ownerG /\ listedB \subseteq ownerB

(* A batch GetBatch reports Finished can be downloaded: GetBatchResult   *)
(* finds the result of every one of its graphs.                          *)
FinishedBatchComplete ==
  \A b \in BatchIds : batch[b] = "Finished" => batchGraphs[b] \subseteq result


(* A batch handleBatchCreate answered 201 Created is stored until it is   *)
(* deleted: StoreNewBatch returns Commit's error, so a batch whose Commit *)
(* failed on a handle maintenance or a restart closed is answered 500.   *)
BatchCreatedStored ==
  \A b \in acceptedB : batch[b] # "absent" \/ b \in deletedB

(* A DELETE /graph/:id answered with a success status (2xx) removed the   *)
(* graph: handleGraphDelete and the Error middleware never report a      *)
(* delete that DeleteGraph refused as done.                               *)
DeleteAnswered == delOk \subseteq deletedG

=============================================================================
