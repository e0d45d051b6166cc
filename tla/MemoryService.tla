---------------------------- MODULE MemoryService ----------------------------
(***************************************************************************)
(* The in-memory request service of                                       *)
(* pkg/requests/memory/memory_service.go (InMemoryService):               *)
(*   - HTTP handlers calling StoreNewRequest, StoreNewBatch and GetBatch   *)
(*     under the read lock (rwLock.RLock);                                 *)
(*   - the caller of StoreGraph, handing over generated results, also     *)
(*     under the read lock;                                                *)
(*   - the loop goroutine running cleanUpDb under the write lock;         *)
(*   - the clock, which makes requests and batches expire.                *)
(* Each sync.Map operation is atomic; a handler's steps between RLock and *)
(* RUnlock are separate actions wherever another reader can observe the  *)
(* state in between.  cleanUpDb holds the write lock, so it is one step   *)
(* taken when no reader holds the lock.  getRandomId's empty placeholder *)
(* is overwritten by storeRequestUnsafe (or the batch Store) before the   *)
(* handler returns the id, and no actor that can run meanwhile knows the *)
(* id, so drawing the id and storing the value are one step.  Ids are    *)
(* fresh model values (rand.Uint32 repeats with probability 2^-32).       *)
(* The generator is abstracted to the set of pushed requests whose        *)
(* result may still arrive.                                                *)
(***************************************************************************)
EXTENDS Naturals, FiniteSets

CONSTANTS
  Handlers,        \* concurrent HTTP handler goroutines
  HandlerSession,  \* the RNGRSESSION cookie each handler's client sends
  Sessions,
  GraphIds, BatchIds,
  BatchSize,       \* request.Number of every batch
  TTL,             \* configuration.Default().RequestTTL, in clock ticks
  MaxTime,         \* bound on the clock
  Ops,             \* the calls the handlers make
  Consumer,        \* the goroutine calling StoreGraph
  NoOwner, NoMap

ASSUME HandlerSession \in [Handlers -> Sessions]
ASSUME BatchSize \in Nat /\ TTL \in Nat /\ MaxTime \in Nat
ASSUME Ops \subseteq {"newReq", "newBatch", "getBatch"}

(* An ownerReference value holds two Go maps; a map is named by the id    *)
(* addToOwner created it for, so MapIds names every map that can exist.  *)
MapIds == GraphIds \cup BatchIds
Status == {"absent", "NotFinished", "Finished"}

VARIABLES
  req, reqOwner, reqTimeout,     \* i.requests: Status, Owner, Timeout
  graphs,                        \* ids with an i.graphs entry
  batch, batchGraphs, batchTimeout, batchOwner,  \* i.batches
  owners,      \* i.owners: session -> the ownerReference's maps, or NoMap
  maps,        \* the contents of each ownerReference's graphs/batches maps
  now,         \* the clock
  rlocked,     \* the actors holding rwLock.RLock
  pushed,      \* pushed requests whose result has not been handed over
  hpc, hid, hmap, hmembers, hbt,  \* handler: step, id, map, batch members, batch Timeout
  cpc, cg,     \* the StoreGraph caller: step and id
  running,     \* the loop goroutine has not received from i.stop
  panicked,    \* an unrecovered panic ended the process
  usedG, usedB, returnedG, returnedB  \* ids drawn; ids returned to a client

storeVars == <<req, reqOwner, reqTimeout, graphs, batch, batchGraphs,
               batchTimeout, batchOwner, owners, maps>>
handlerVars == <<hpc, hid, hmap, hmembers, hbt>>
histVars == <<usedG, usedB, returnedG, returnedB>>
vars == <<storeVars, now, rlocked, pushed, handlerVars, cpc, cg, running,
          panicked, histVars>>

EmptyRef == [graphs |-> {}, batches |-> {}]

TypeOK ==
  /\ req \in [GraphIds -> Status]
  /\ reqOwner \in [GraphIds -> Sessions \cup {NoOwner}]
  /\ reqTimeout \in [GraphIds -> 0..(MaxTime + TTL)]
  /\ graphs \subseteq GraphIds
  /\ batch \in [BatchIds -> Status]
  /\ batchGraphs \in [BatchIds -> SUBSET GraphIds]
  /\ batchTimeout \in [BatchIds -> 0..(MaxTime + TTL)]
  /\ batchOwner \in [BatchIds -> Sessions \cup {NoOwner}]
  /\ owners \in [Sessions -> MapIds \cup {NoMap}]
  /\ maps \in [MapIds -> [graphs : SUBSET GraphIds, batches : SUBSET MapIds]]
  /\ now \in 0..MaxTime
  /\ rlocked \subseteq Handlers \cup {Consumer}
  /\ pushed \subseteq GraphIds
  /\ hpc \in [Handlers -> {"idle", "nbMember", "aoLoadG", "aoLoadB",
                           "aoWriteG", "aoWriteB", "aoStore"}]
  /\ hid \in [Handlers -> MapIds \cup {NoMap}]
  /\ hmap \in [Handlers -> MapIds \cup {NoMap}]
  /\ hmembers \in [Handlers -> SUBSET GraphIds]
  /\ hbt \in [Handlers -> 0..(MaxTime + TTL)]
  /\ cpc \in {"idle", "sgStatus"} /\ cg \in GraphIds \cup {NoMap}
  /\ running \in BOOLEAN /\ panicked \in BOOLEAN
  /\ usedG \subseteq GraphIds /\ usedB \subseteq BatchIds
  /\ returnedG \subseteq GraphIds /\ returnedB \subseteq BatchIds

Init ==
  /\ req = [g \in GraphIds |-> "absent"]
  /\ reqOwner = [g \in GraphIds |-> NoOwner]
  /\ reqTimeout = [g \in GraphIds |-> 0]
  /\ graphs = {}
  /\ batch = [b \in BatchIds |-> "absent"]
  /\ batchGraphs = [b \in BatchIds |-> {}]
  /\ batchTimeout = [b \in BatchIds |-> 0]
  /\ batchOwner = [b \in BatchIds |-> NoOwner]
  /\ owners = [s \in Sessions |-> NoMap]
  /\ maps = [m \in MapIds |-> EmptyRef]
  /\ now = 0 /\ rlocked = {} /\ pushed = {}
  /\ hpc = [h \in Handlers |-> "idle"]
  /\ hid = [h \in Handlers |-> NoMap]
  /\ hmap = [h \in Handlers |-> NoMap]
  /\ hmembers = [h \in Handlers |-> {}]
  /\ hbt = [h \in Handlers |-> 0]
  /\ cpc = "idle" /\ cg = NoMap
  /\ running = TRUE /\ panicked = FALSE
  /\ usedG = {} /\ usedB = {} /\ returnedG = {} /\ returnedB = {}

-----------------------------------------------------------------------------
(* StoreNewRequest: RLock, then storeRequestUnsafe draws a fresh id with  *)
(* getRandomId and stores the request NotFinished with its Owner and     *)
(* Timeout = now + RequestTTL, then PushRequest hands it to the           *)
(* generator.  No other actor can tell the store and the push apart, so  *)
(* they are one step; addToOwner follows.  The push is taken never to     *)
(* block: a full requests channel would hold the read lock while a        *)
(* pending cleanUpDb Lock keeps StoreGraph's RLock, and so the consumer,  *)
(* waiting; that deadlock is outside this model.                          *)
NRStore(h) ==
  /\ hpc[h] = "idle" /\ "newReq" \in Ops /\ ~panicked
  /\ \E g \in GraphIds \ usedG :
       /\ usedG' = usedG \cup {g}
       /\ req' = [req EXCEPT ![g] = "NotFinished"]
       /\ reqOwner' = [reqOwner EXCEPT ![g] = HandlerSession[h]]
       /\ reqTimeout' = [reqTimeout EXCEPT ![g] = now + TTL]
       /\ pushed' = pushed \cup {g}
       /\ hid' = [hid EXCEPT ![h] = g]
  /\ rlocked' = rlocked \cup {h}
  /\ hpc' = [hpc EXCEPT ![h] = "aoLoadG"]
  /\ UNCHANGED <<graphs, batch, batchGraphs, batchTimeout, batchOwner, owners,
                 maps, now, hmap, hmembers, hbt, cpc, cg, running, panicked,
                 usedB, returnedG, returnedB>>

(* addToOwner(owner, id, graph): owners.Load(owner).  With no entry it   *)
(* makes a new ownerReference and writes id into its fresh map, which no *)
(* other goroutine can reach yet; with an entry the two maps are shared  *)
(* and the write owners.graphs[id] = true (or batches) is the next step.  *)
AOLoad(h) ==
  /\ hpc[h] \in {"aoLoadG", "aoLoadB"} /\ ~panicked
  /\ LET id == hid[h]
         m == owners[HandlerSession[h]]
     IN IF m = NoMap
          THEN /\ maps' = [maps EXCEPT ![id] =
                             IF hpc[h] = "aoLoadG" THEN [graphs |-> {id}, batches |-> {}]
                             ELSE [graphs |-> {}, batches |-> {id}]]
               /\ hmap' = [hmap EXCEPT ![h] = id]
               /\ hpc' = [hpc EXCEPT ![h] = "aoStore"]
          ELSE /\ hmap' = [hmap EXCEPT ![h] = m]
               /\ hpc' = [hpc EXCEPT ![h] = IF hpc[h] = "aoLoadG" THEN "aoWriteG"
                                             ELSE "aoWriteB"]
               /\ UNCHANGED maps
  /\ UNCHANGED <<req, reqOwner, reqTimeout, graphs, batch, batchGraphs,
                 batchTimeout, batchOwner, owners, now, rlocked, pushed, hid,
                 hmembers, hbt, cpc, cg, running, panicked, histVars>>

(* Mutant of AOWrite: the graph flag is read the wrong way round.        *)
AOWriteSwapped(h) ==
  /\ hpc[h] \in {"aoWriteG", "aoWriteB"} /\ ~panicked
  /\ LET m == hmap[h] IN
       maps' = IF hpc[h] = "aoWriteB"
                 THEN [maps EXCEPT ![m].graphs = @ \cup {hid[h]}]
                 ELSE [maps EXCEPT ![m].batches = @ \cup {hid[h]}]
  /\ hpc' = [hpc EXCEPT ![h] = "aoStore"]
  /\ UNCHANGED <<req, reqOwner, reqTimeout, graphs, batch, batchGraphs,
                 batchTimeout, batchOwner, owners, now, rlocked, pushed, hid,
                 hmap, hmembers, hbt, cpc, cg, running, panicked, histVars>>

(* The write into the shared map of the loaded ownerReference.           *)
AOWrite(h) ==
  /\ hpc[h] \in {"aoWriteG", "aoWriteB"} /\ ~panicked
  /\ LET m == hmap[h] IN
       maps' = IF hpc[h] = "aoWriteG"
                 THEN [maps EXCEPT ![m].graphs = @ \cup {hid[h]}]
                 ELSE [maps EXCEPT ![m].batches = @ \cup {hid[h]}]
  /\ hpc' = [hpc EXCEPT ![h] = "aoStore"]
  /\ UNCHANGED <<req, reqOwner, reqTimeout, graphs, batch, batchGraphs,
                 batchTimeout, batchOwner, owners, now, rlocked, pushed, hid,
                 hmap, hmembers, hbt, cpc, cg, running, panicked, histVars>>

(* i.owners.Store(owner, owners); the handler returns the id (RUnlock).  *)
AOStore(h) ==
  /\ hpc[h] = "aoStore" /\ ~panicked
  /\ owners' = [owners EXCEPT ![HandlerSession[h]] = hmap[h]]
  /\ IF hid[h] \in GraphIds
       THEN returnedG' = returnedG \cup {hid[h]} /\ UNCHANGED returnedB
       ELSE returnedB' = returnedB \cup {hid[h]} /\ UNCHANGED returnedG
  /\ rlocked' = rlocked \ {h}
  /\ hpc' = [hpc EXCEPT ![h] = "idle"]
  /\ hid' = [hid EXCEPT ![h] = NoMap]
  /\ hmap' = [hmap EXCEPT ![h] = NoMap]
  /\ UNCHANGED <<req, reqOwner, reqTimeout, graphs, batch, batchGraphs,
                 batchTimeout, batchOwner, maps, now, pushed, hmembers, hbt,
                 cpc, cg, running, panicked, usedG, usedB>>

(* StoreNewBatch: RLock; the batch's Timeout is now + RequestTTL, taken   *)
(* before any member is stored.                                           *)
NBBegin(h) ==
  /\ hpc[h] = "idle" /\ "newBatch" \in Ops /\ ~panicked
  /\ rlocked' = rlocked \cup {h}
  /\ hbt' = [hbt EXCEPT ![h] = now + TTL]
  /\ hmembers' = [hmembers EXCEPT ![h] = {}]
  /\ hpc' = [hpc EXCEPT ![h] = "nbMember"]
  /\ UNCHANGED <<storeVars, now, pushed, hid, hmap, cpc, cg, running, panicked,
                 histVars>>

(* One iteration of the member loop: storeRequestUnsafe(BaseGraph,        *)
(* &batchId) stores a request with its own Timeout and the BaseGraph's   *)
(* Owner, which is nil (Owner is json:"-" and the handler sets only the  *)
(* batch's), then PushRequest.  BatchId is the caller's request.ID, not  *)
(* the id drawn below; nothing reads it (it is json:"-" as well).         *)
NBMember(h) ==
  /\ hpc[h] = "nbMember" /\ ~panicked
  /\ Cardinality(hmembers[h]) < BatchSize
  /\ \E g \in GraphIds \ usedG :
       /\ usedG' = usedG \cup {g}
       /\ req' = [req EXCEPT ![g] = "NotFinished"]
       /\ reqOwner' = [reqOwner EXCEPT ![g] = NoOwner]
       /\ reqTimeout' = [reqTimeout EXCEPT ![g] = now + TTL]
       /\ pushed' = pushed \cup {g}
       /\ hmembers' = [hmembers EXCEPT ![h] = @ \cup {g}]
  /\ UNCHANGED <<graphs, batch, batchGraphs, batchTimeout, batchOwner, owners,
                 maps, now, rlocked, hpc, hid, hmap, hbt, cpc, cg, running,
                 panicked, usedB, returnedG, returnedB>>

(* Mutant of NBBatch: the batch's Timeout is taken when it is stored.    *)
NBBatchLateTimeout(h) ==
  /\ hpc[h] = "nbMember" /\ ~panicked
  /\ Cardinality(hmembers[h]) = BatchSize
  /\ \E b \in BatchIds \ usedB :
       /\ usedB' = usedB \cup {b}
       /\ batch' = [batch EXCEPT ![b] = "NotFinished"]
       /\ batchGraphs' = [batchGraphs EXCEPT ![b] = hmembers[h]]
       /\ batchTimeout' = [batchTimeout EXCEPT ![b] = now + TTL]
       /\ batchOwner' = [batchOwner EXCEPT ![b] = HandlerSession[h]]
       /\ hid' = [hid EXCEPT ![h] = b]
  /\ hpc' = [hpc EXCEPT ![h] = "aoLoadB"]
  /\ UNCHANGED <<req, reqOwner, reqTimeout, graphs, owners, maps, now, rlocked,
                 pushed, hmap, hmembers, hbt, cpc, cg, running, panicked,
                 usedG, returnedG, returnedB>>

(* After the loop: getRandomId(&i.batches) and i.batches.Store of the     *)
(* record with GraphsIDs, then addToOwner for the batch.                  *)
NBBatch(h) ==
  /\ hpc[h] = "nbMember" /\ ~panicked
  /\ Cardinality(hmembers[h]) = BatchSize
  /\ \E b \in BatchIds \ usedB :
       /\ usedB' = usedB \cup {b}
       /\ batch' = [batch EXCEPT ![b] = "NotFinished"]
       /\ batchGraphs' = [batchGraphs EXCEPT ![b] = hmembers[h]]
       /\ batchTimeout' = [batchTimeout EXCEPT ![b] = hbt[h]]
       /\ batchOwner' = [batchOwner EXCEPT ![b] = HandlerSession[h]]
       /\ hid' = [hid EXCEPT ![h] = b]
  /\ hpc' = [hpc EXCEPT ![h] = "aoLoadB"]
  /\ UNCHANGED <<req, reqOwner, reqTimeout, graphs, owners, maps, now, rlocked,
                 pushed, hmap, hmembers, hbt, cpc, cg, running, panicked,
                 usedG, returnedG, returnedB>>

(* Mutant of GetBatch: the loop stops at the first graph that is found.  *)
GetBatchAny(h) ==
  /\ hpc[h] = "idle" /\ "getBatch" \in Ops /\ ~panicked
  /\ \E b \in usedB :
       /\ batch[b] = "NotFinished"
       /\ batchGraphs[b] \cap graphs # {}
       /\ batch' = [batch EXCEPT ![b] = "Finished"]
  /\ UNCHANGED <<req, reqOwner, reqTimeout, graphs, batchGraphs, batchTimeout,
                 batchOwner, owners, maps, now, rlocked, pushed, handlerVars,
                 cpc, cg, running, panicked, histVars>>

(* GetBatch under RLock: a NotFinished batch whose every graph has an    *)
(* i.graphs entry is stored back as Finished.  Entries are only added    *)
(* while the read lock is held, so the loop over GraphsIDs sees what one *)
(* atomic look sees; any other outcome writes nothing.                   *)
GetBatch(h) ==
  /\ hpc[h] = "idle" /\ "getBatch" \in Ops /\ ~panicked
  /\ \E b \in usedB :
       /\ batch[b] = "NotFinished"
       /\ batchGraphs[b] \subseteq graphs
       /\ batch' = [batch EXCEPT ![b] = "Finished"]
  /\ UNCHANGED <<req, reqOwner, reqTimeout, graphs, batchGraphs, batchTimeout,
                 batchOwner, owners, maps, now, rlocked, pushed, handlerVars,
                 cpc, cg, running, panicked, histVars>>
-----------------------------------------------------------------------------
(* Mutant of SGLoad: StoreGraph does not take the read lock.             *)
SGLoadNoLock ==
  /\ cpc = "idle" /\ ~panicked
  /\ \E g \in pushed :
       /\ pushed' = pushed \ {g}
       /\ IF req[g] = "absent"
            THEN UNCHANGED <<graphs, cpc, cg>>
            ELSE /\ graphs' = graphs \cup {g}
                 /\ cg' = g
                 /\ cpc' = "sgStatus"
  /\ UNCHANGED <<req, reqOwner, reqTimeout, batch, batchGraphs, batchTimeout,
                 batchOwner, owners, maps, now, rlocked, handlerVars, running,
                 panicked, histVars>>

(* StoreGraph(graph) for a result of a pushed request: RLock, then        *)
(* requests.Load(graph.ID); a missing request returns ErrGraphDeleted.    *)
(* Otherwise graphs.Store(graph.ID, graph) comes first ...                *)
SGLoad ==
  /\ cpc = "idle" /\ ~panicked
  /\ \E g \in pushed :
       /\ pushed' = pushed \ {g}
       /\ IF req[g] = "absent"
            THEN UNCHANGED <<graphs, cpc, cg, rlocked>>
            ELSE /\ graphs' = graphs \cup {g}
                 /\ cg' = g
                 /\ cpc' = "sgStatus"
                 /\ rlocked' = rlocked \cup {Consumer}
  /\ UNCHANGED <<req, reqOwner, reqTimeout, batch, batchGraphs, batchTimeout,
                 batchOwner, owners, maps, now, handlerVars, running, panicked,
                 histVars>>

(* ... then requests.Store(graph.ID, val) writes back the request read   *)
(* by the Load with Status Finished, and RUnlock.                         *)
SGStatus ==
  /\ cpc = "sgStatus" /\ ~panicked
  /\ req' = [req EXCEPT ![cg] = "Finished"]
  /\ rlocked' = rlocked \ {Consumer}
  /\ cpc' = "idle" /\ cg' = NoMap
  /\ UNCHANGED <<reqOwner, reqTimeout, graphs, batch, batchGraphs, batchTimeout,
                 batchOwner, owners, maps, now, pushed, handlerVars, running,
                 panicked, histVars>>

-----------------------------------------------------------------------------
(* cleanUpDb, at cleaningTime = now.  Expired batches go first, with      *)
(* their graphs and requests; each owned one adds to ownRs[owner].batches *)
(* its id and also its GraphsIDs (line 101 writes graph ids into the      *)
(* batches map).  The 100 zero ids the two slices start with delete id 0, *)
(* which no model id is.                                                  *)
ExpiredBatches == {b \in BatchIds : batch[b] # "absent" /\ batchTimeout[b] < now}
BatchDeleted == UNION {batchGraphs[b] : b \in ExpiredBatches}

(* Then the requests Range over what is left: every expired request is   *)
(* deleted and dereferences *graph.Owner.                                 *)
ExpiredRequests ==
  {g \in GraphIds \ BatchDeleted : req[g] # "absent" /\ reqTimeout[g] < now}

(* ownRs: the sessions with an expired batch or request, and what they    *)
(* lose from their owner maps.                                            *)
OwnRs == ({batchOwner[b] : b \in ExpiredBatches}
           \cup {reqOwner[g] : g \in ExpiredRequests}) \ {NoOwner}
LostBatches(s) ==
  UNION {{b} \cup batchGraphs[b] : b \in {x \in ExpiredBatches : batchOwner[x] = s}}
LostGraphs(s) == {g \in ExpiredRequests : reqOwner[g] = s}

(* For every k of ownRs with an i.owners entry: delete the lost ids from  *)
(* its maps, in place; an entry left with both maps empty is deleted.     *)
PrunedMaps ==
  [m \in MapIds |->
     IF \E s \in OwnRs : owners[s] = m
       THEN LET s == CHOOSE x \in OwnRs : owners[x] = m
            IN [graphs |-> maps[m].graphs \ LostGraphs(s),
                batches |-> maps[m].batches \ LostBatches(s)]
       ELSE maps[m]]
PrunedOwners ==
  [s \in Sessions |->
     IF s \in OwnRs /\ owners[s] # NoMap
          /\ PrunedMaps[owners[s]] = EmptyRef
       THEN NoMap ELSE owners[s]]

(* The loop's timer fires: cleanUpDb takes rwLock.Lock, so it runs when   *)
(* no reader holds the lock.  An expired request without an Owner makes   *)
(* the Range panic; loop has no recover, so the process ends.             *)
CleanUpDb ==
  /\ running /\ ~panicked /\ rlocked = {}
  /\ IF \E g \in ExpiredRequests : reqOwner[g] = NoOwner
       THEN /\ panicked' = TRUE
            /\ UNCHANGED storeVars
       ELSE /\ LET gone == BatchDeleted \cup ExpiredRequests IN
                 /\ req' = [g \in GraphIds |-> IF g \in gone THEN "absent" ELSE req[g]]
                 /\ graphs' = graphs \ gone
            /\ batch' = [b \in BatchIds |->
                           IF b \in ExpiredBatches THEN "absent" ELSE batch[b]]
            /\ maps' = PrunedMaps
            /\ owners' = PrunedOwners
            /\ UNCHANGED <<reqOwner, reqTimeout, batchGraphs, batchTimeout,
                           batchOwner, panicked>>
  /\ UNCHANGED <<now, rlocked, pushed, handlerVars, cpc, cg, running, histVars>>

(* Stop: i.stop <- true; the loop receives it between two clean-ups and   *)
(* calls waitGroup.Done, so Stop's Wait returns.                          *)
Stop ==
  /\ running /\ ~panicked
  /\ running' = FALSE
  /\ UNCHANGED <<storeVars, now, rlocked, pushed, handlerVars, cpc, cg,
                 panicked, histVars>>

(* time.Now() advances.                                                   *)
Tick ==
  /\ now < MaxTime
  /\ now' = now + 1
  /\ UNCHANGED <<storeVars, rlocked, pushed, handlerVars, cpc, cg, running,
                 panicked, histVars>>

Next ==
  \/ \E h \in Handlers :
       \/ NRStore(h) \/ AOLoad(h) \/ AOWrite(h) \/ AOStore(h)
       \/ NBBegin(h) \/ NBMember(h) \/ NBBatch(h)
       \/ GetBatch(h)
  \/ SGLoad \/ SGStatus
  \/ CleanUpDb \/ Stop \/ Tick

Spec == Init /\ [][Next]_vars

-----------------------------------------------------------------------------
(* ListRequests(s) / ListBatches(s): the ids of the session's owner maps  *)
(* whose value is true (every stored value is).                           *)
ListRequests(s) == IF owners[s] = NoMap THEN {} ELSE maps[owners[s]].graphs
ListBatches(s) == IF owners[s] = NoMap THEN {} ELSE maps[owners[s]].batches

(* A session's listings are exact: ListRequests(s) and ListBatches(s)     *)
(* return only stored requests and batches of s, and every id that        *)
(* StoreNewRequest or StoreNewBatch returned to s stays listed until      *)
(* cleanUpDb expires it (addToOwner against cleanUpDb's owner pruning).  *)
ListingExact ==
  \A s \in Sessions :
    /\ ListRequests(s) \subseteq {g \in GraphIds : req[g] # "absent" /\ reqOwner[g] = s}
    /\ ListBatches(s) \subseteq {b \in BatchIds : batch[b] # "absent" /\ batchOwner[b] = s}
    /\ \A g \in returnedG :
         req[g] # "absent" /\ reqOwner[g] = s => g \in ListRequests(s)
    /\ \A b \in returnedB :
         batch[b] # "absent" /\ batchOwner[b] = s => b \in ListBatches(s)

(* A Finished request has its result: GetGraph finds it, and              *)
(* GetBatchResult's panic("This shouldn't have happened") is unreachable  *)
(* (StoreGraph's two stores and cleanUpDb's deletes against each other).  *)
FinishedHasGraph == \A g \in GraphIds : req[g] = "Finished" => g \in graphs

(* A batch GetBatch reports Finished has every result, until cleanUpDb    *)
(* removes the batch with them (member and batch Timeouts).               *)
BatchComplete ==
  \A b \in BatchIds : batch[b] = "Finished" => batchGraphs[b] \subseteq graphs

(* cleanUpDb never dereferences the nil Owner of a batch member: a member *)
(* expires no earlier than its batch, whose clean-up deletes it first.   *)
NoCleanupPanic == ~panicked

=============================================================================
