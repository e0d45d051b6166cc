# TLA+ models of GraphGenerator

This directory holds TLA+ models of the graph-generation service in `src/`.
TLC checks them. This file describes the system's parts, the modules that
model them, what each run checks, and what is still left out.

## The system

| Part | Source | State | Operations |
|------|--------|-------|------------|
| Worker pool `GenService` | `pkg/generator/service/service.go` | `started`, `stopped`, the buffered `requests` and `retirever` channels, the unbuffered `pause` channel, the `resume` and `waitGroup` WaitGroups | `Start`, `runner` (one goroutine per worker), `Pause`, `Resume`, `PushRequest`, `Stop`, `FreeBand` |
| Persistent request service | `pkg/requests/persistent/persistent_service.go` | badger DB (requests, results, batches, batch→graph keys, owners), `maintenance` flag, `closer` channel, `wg`, `maintenanceStop` | `StoreNewRequest`, `StoreNewBatch`, `StoreGraph` (from the `retrieveGraphs` goroutine), `GetGraph*`, `GetBatch`, `DeleteGraph`, `DeleteBatch`, `cleanLoop`/`doMaintenance`, `Start`, `Stop` |
| Order-statistic tree | `pkg/generator/algorithms/bst.go` | nodes with `width`, `subTree`, `height`, `balance` and links | `New` (insert + `checkUp` rotations), `RemovePoint`, `GetPoint`, `GetRank`, `Length` |
| Generators | `pkg/generator/algorithms/*.go` | adjacency maps, point trees | Steger–Wormald (exact degree) with fix/restart, Between/AtLeast, Average, Complete, spanning tree, weights |
| Dispatch and validation | `pkg/generator/decision/executor.go`, `pkg/api/validate.go` | none | `GenerateGraphFromRequest`, `GraphRequest.Valid` |
| In-memory request service | `pkg/requests/memory/memory_service.go` | `sync.Map`s `requests`, `batches`, `owners` (session → `ownerReference` of two Go maps), an `RWMutex`, `stop` channel | `StoreNewRequest`, `StoreNewBatch`, `addToOwner`, `GetBatch`, `StoreGraph`, `ListRequests`/`ListBatches`, `cleanUpDb` from `loop`, `Start`, `Stop` (not used by main) |
| HTTP API | `pkg/routers/...` | none of its own | middleware chain (`Recover`, `Logger`, cookie, `SetUpRequestService`, `Error`), then a route handler calling the request service |
| main | `cmd/generator/main.go` | deferred shutdown | start pool, start persistence, start HTTP, then stop in reverse order |

How the parts interact:

- Each HTTP handler calls the persistent service, which stores the request
  and then calls `GenService.PushRequest`.
- Workers take requests from the buffered `requests` channel and generate.
  They send results on `retirever`. The `retrieveGraphs` goroutine reads
  each result and calls `StoreGraph`.
- Every maintenance interval, `cleanLoop` runs `doMaintenance`, which does
  the following in order:
  1. calls `Pause`, which sends one unbuffered signal per worker;
  2. closes and reopens the DB;
  3. calls `Resume` (`resume.Done`).
- At shutdown, main's deferred calls run last-in-first-out:
  1. the HTTP server stops;
  2. `PersistentService.Stop` ends `cleanLoop` and `retrieveGraphs`;
  3. `GenService.Stop` closes `requests` and waits for the workers.

What makes the system hard:

- Several goroutines interleave: handlers, workers, the maintenance loop,
  the consumer and main.
- Both channels are bounded.
- A send on a closed channel panics.
- The two WaitGroups are used as barriers, and the resume barrier is reused
  for every maintenance window.
- Reads and writes are split across separate DB transactions.
- On restart, requests that are still pending are not pushed again.
- Tree rotations happen on pointer structures.

## Modules

### `GenService.tla` (and `MCGenService.tla`)

This module models the worker pool together with the goroutines that drive it.

| Variable(s) | Models |
|---|---|
| `started`, `stopped` | the flags of the same name |
| `closed`, `queue` | the `requests` channel, as a sequence of at most `QueueCap` elements |
| `out` | the `retirever` channel, at most `OutCap` elements |
| `wpc`, `wreq` | each runner's position in the two nested selects, and the request it holds |
| `resumeCnt` | the resume WaitGroup counter |
| `sent` | how many of `Pause`'s unbuffered sends have been received |
| `mpc`, `pauses` | the maintenance goroutine, and how many windows it has begun |
| `cpc` | each handler in `PushRequest` |
| `mainPc` | main's shutdown sequence |
| `consumerUp`, `stored`, `dropped` | the consumer, and the history of what it stored and what generation dropped |

How the actions correspond to the code:

- `RunnerOuter` models the outer select. Its `default` branch is taken only
  when no pause sender is waiting.
- `RunnerInner` models the inner select: take a pause, dequeue, or return on
  a closed, empty channel.
- `TakePause` is the receive on `pause`, and `RunnerWait` is the
  `resume.Wait()` after it. `Wait` returns at once when the counter is
  zero, and otherwise blocks until `Resume` brings it to zero. The two
  are separate steps, because `Resume` and the next window's `Add(1)` can
  both fall between them.
- `Generate` models `GenerateGraphFromRequest`: it succeeds, fails, or
  (when `GenMayHang`) never returns. Some valid requests make the
  generators loop forever (`gen_between_hang`, `WeighHang`). A runner in
  that loop is `hung` and keeps its request.
- `Emit` models the blocking send on `retirever`.
- `PauseBegin`, `PauseReturn` and `Resume` model `Pause` and `Resume`.
- `PushCheck` and `PushSend` model the two steps of `PushRequest`: the
  unsynchronised read of `started`, then the send.
- `Consume` models `retrieveGraphs`.
- `StopRequestsService`, `StopGen` and `StopWait` model main's deferred calls,
  in the order main runs them.

Fairness: weak fairness for each runner, for the consumer, for
`PauseReturn`/`Resume`, and for main's `StopGen`/`StopWait`. Go schedules every
runnable goroutine, which justifies this. Beginning a maintenance window, a
handler's push, and the start of the shutdown are not forced. Fairness on a
runner does not make generation terminate: with `GenMayHang` its `Generate`
step may be the step into a loop that never returns.

### `OrderStatTree.tla`

This module models `bst.go`. The nodes are an arena `0..N-1` (the point ids),
and `Nil = -1` stands for a nil pointer. Each recursive helper of the code
(`updateHeight`, `updateWidth`, `rebalance`, `checkUp`, `rrRotation`,
`insertNode`) is an operator that returns the whole new tree.

- `Insert` is one iteration of `New`'s insertion loop.
- `RemovePoint` is `Tree.RemovePoint` on a built tree.

Points are inserted in ascending order, so the only rotation the code can
reach is `rrRotation`. `CheckUp` raises a TLC assertion if any other case is
reached. Every run passes that assertion.

### `GenPool.tla`

This module is the abstract specification of what the pool promises the
persistent service. Its state has four parts:

- `queued`: the set of requests waiting in the queue;
- `busy`: the requests a runner holds;
- `out`: the `retirever` channel;
- `paused`: whether `Pause` has returned and `Resume` has not yet been called.

`GenService` defines the mapping `queued <- ToSet(queue)`,
`busy <- InGeneration` (requests of runners in `gen`/`emit`),
`paused <- (mpc = "paused")`, and checks `PoolRefinement == Pool!PoolSpec`
as a `PROPERTY`. `PersistentService` uses `GenPool` as its model of the
generation service, so the refinement check is what justifies that
composition.

### `PersistentService.tla` (and `MCPersistentService.tla`)

This module models `pkg/requests/persistent/persistent_service.go`, composed
with `GenPool` (`Pool == INSTANCE GenPool`).

| Variable(s) | Models |
|---|---|
| `req`, `reqBatch`, `result`, `batch`, `batchGraphs`, `bgKeys` | badger keys `request-<id>` (status), its `BatchId`, `result-<id>`, `batch-<id>`, the batch's graph ids, `batch-graph-<b>-<g>` |
| `dbOpen`, `epoch` | whether `dbHandle` is open, and which handle it is (it changes on reopen and on restart) |
| `maintenance`, `mpc`, `maints`, `restarts` | the maintenance flag, the position in `doMaintenance`, the bounds |
| `hpc`, `hid`, `hepoch`, `hpush` | each handler: its step, the id it works on, the handle its transaction uses, and the requests still to push |
| `ownerG`, `ownerB` | owner keys `graphowner-<session>-<id>` and `batchowner-<session>-<id>`, as pairs of a session and an id |
| `usedG`, `accepted`, `failed`, `deletedG` | history: ids drawn, ids returned as created, ids whose generation failed, ids deleted |
| `listedG`, `listedB` | history: the pairs of a session and an id that a listing has returned to that session |

Actions follow the handlers step by step. Each badger `Update`/`View` is one
step:

- `NRCheck`/`NRUpdate`/`NRPush` model `StoreNewRequest`. The Update fails
  when the handle is closed, but the error is overwritten by `PushRequest`'s.
- `NBBegin`/`NBCommit`/`NBPush` model `StoreNewBatch`. The transaction
  commits only on the handle it started on. After a failed Commit the
  requests are pushed anyway, or the handler panics on the closed handle.
- `GBView`/`GBUpdate` model `GetBatch`'s two transactions.
- `DGRoute`/`DeleteGraph` model `DELETE /graph/:id`. `DGRoute` is
  `SetUpRequestService`'s maintenance check (`MiddlewarePasses`) and
  `handleGraphDelete` taking any id a client has seen. `DeleteGraph` runs the
  service call. Its error (`DeleteErr`) is one of these:
  - its own maintenance check;
  - the Update on a closed handle;
  - not found;
  - not generated;
  - none.

  The answer is `GraphDeleteCode`: 204, or the status the `Error`
  middleware maps the error to (`ErrorCode`). An error the middleware does
  not know is answered with gin's default 200 and an empty body. `delOk`
  records the graphs answered 2xx.
- `DeleteBatch` models the service's batch delete. No route calls it.
- `NBPush` ends with `handleBatchCreate`'s answer (`BatchCreateCode`):
  201 when `Commit` succeeded, else 500. A failed Commit goes through
  `nbPushFailed`. `acceptedB` records the batches answered 201.
- `Generate` is a pool step: `Take`, `Complete` or `Fail`.
- `StoreGraph` models `retrieveGraphs` plus `StoreGraph`.
- `ListRequests` and `ListBatches` model the two listings. Each is one View
  that scans the owner keys by the prefix `graphowner-<session>-` (or
  `batchowner-`). `PrefixScan` says which keys badger's `ValidForPrefix`
  accepts. A session is a sequence of characters, so the `-` delimiter is
  part of the comparison. Sessions come from the cookie (`MCSessions`).
- `MaintBegin`/`MaintClose`/`MaintReopen`/`MaintEnd` model `doMaintenance`.
- `Restart` models a new process: the DB is kept, and everything in memory
  is lost.

Two abstractions are worth naming:
- On a closed handle, `StoreNewRequest` returns the ID the client bound
  (JSON `id`, 0 if absent), not a drawn one. The model gives it an id that
  no other request carries, because the pool keeps request identities
  distinct. A client ID that collides with a stored request is not
  modelled.
- In `StoreNewBatch`, a `txn.Get` on a closed handle either panics or
  keeps failing, so the id loop spins forever. In both cases nothing is
  written or pushed, and the handler takes no further part. `NBCommit`'s
  branch to "idle" stands for both.

This module has no fairness. Its liveness questions (does every
NotFinished request resolve, does a batch handler blocked on a full
queue return) depend on every generation returning, which the code does
not guarantee.

### `MemoryService.tla` (and `MCMemoryService.tla`)

This module models `pkg/requests/memory/memory_service.go`, the
alternative request service that keeps everything in `sync.Map`s.
`cmd/generator/main.go` does not use it. It is modelled because its
locking is subtle: handlers and `StoreGraph` run under the read lock, and
only `cleanUpDb` takes the write lock.

| Variable(s) | Models |
|---|---|
| `req`, `reqOwner`, `reqTimeout`, `graphs` | `requests` entries: status, `Owner` (a session, or `NoOwner` for a batch member, whose `BaseGraph.Owner` is not set), `Timeout`, and whether `Graph` holds a result |
| `batch`, `batchGraphs`, `batchTimeout`, `batchOwner` | `batches` entries |
| `owners`, `maps` | `owners`: a session's `*ownerReference`. Its two Go maps are shared references. `maps[m]` is the reference created for id `m`, and `owners[s]` names it, so an in-place write is seen by every holder |
| `now` | the clock that `Timeout` and `time.Now().Before` compare against |
| `rlocked` | the goroutines holding the read lock. A write-locked `cleanUpDb` is one step, enabled when `rlocked` is empty |
| `pushed`, `cpc`, `cg` | requests sent to the generator, and the consumer running `StoreGraph` |
| `hpc`, `hid`, `hmap`, `hmembers`, `hbt` | each handler's step, its id, the reference it loaded in `addToOwner`, the batch members stored so far, and the batch timeout taken up front |
| `running`, `panicked` | `loop` runs until `Stop`. `panicked` records `cleanUpDb` dereferencing a nil `Owner` |

Actions:

- `NRStore` is `StoreNewRequest` up to `addToOwner`. Its push is taken never
  to block. With a full queue, the push would hold the read lock while a
  waiting `cleanUpDb` blocks `StoreGraph`'s `RLock`, and with it the
  consumer. That deadlock is outside the model and is listed as a hazard.
- `AOLoad`/`AOWrite`/`AOStore` are the three steps of `addToOwner`:
  `Load`, the map write, `Store`. If `Load` finds nothing, a fresh reference
  is made with the id in it, and the write step is skipped.
- `NBBegin`/`NBMember`/`NBBatch` are `StoreNewBatch`. The batch `Timeout` is
  taken before the members are stored.
- `GetBatch` marks a batch Finished when every member has its graph.
- `SGLoad`/`SGStatus` are `StoreGraph`: the `Load`, then storing the
  graph, then writing the request back Finished, all under the read lock.
- `CleanUpDb` is one write-locked `cleanUpDb`: the expired batches and
  their members, the expired requests, then the pruning of the owner maps.
- `Stop` ends `loop`. `Tick` advances the clock up to `MaxTime`.

`ListRequests`/`ListBatches` are operators over `owners`. The properties
constrain what they would return.

### `StegerWormald.tla` (and `MCStegerWormald.tla`)

This module models the exact-degree generator `regular.go` and the
connectivity repair in `utils.go`. The graph `tuples` is a set of 2-element
edges. The points tree is abstracted to the residual `width` of each point:
`OrderStatTree` checks that a draw with `GetPoint(rand.Intn(Length()))`
returns exactly a point of positive width. Random choices are `\E`.

How the actions correspond to the code:

- `Draw` is a successful draw.
- `Fix` is `fixStegerWormald` succeeding.
- `Restart` is the recursive call made when the fix finds no candidate edge.
- `Finish` runs `invertGraph` and enters the repair.
- `Merge` is one iteration of `makeRegularGraphConnected`.
- `Recheck` is the final `extractComponents`, with the repair's recursion.

The collision counter is not kept. A collision drawn once can be drawn
`2*edges+1` times in a row, so the fix on any colliding pair is reachable.

### `Generators.tla` (and `MCGenerators.tla`)

This module models one call of `GenerateGraphFromRequest` (`executor.go`) on
a request that passed `GraphRequest.Valid` (`validate.go`). `Valid` is
translated rule by rule, and `Init` starts from every request of
`Requests` that it accepts. The type selects the generator:

- `exact`: `StegerWormald`, instantiated as `SW` on the same variables
  (`req`, `pc`, `adj`, and its frame);
- `between`/`atleast` (`between.go`): `Dispatch` is the validity check.
  `SpanLink`/`SpanDone` are `GenerateSpanningBoruvka` when connected.
  `BSetup` computes the edge bounds, the target and the two point trees.
  `P1Draw`/`P1MaxDraw` are phase 1, and `P2Draw` is phase 2;
- `average` (`average.go`): the optional spanning tree with cap
  `nodes-1`, then `AvgDraw` until `targetEdges`;
- `complete`: all pairs at once.

After a successful call on a weighted request, `WStart`, `WeighEdge` and
`WEnd` run `GenerateWeights`. The edges are visited in the order of the
`i < j` loops, and `ValueGen` is the set of values `valueGen` can return.

The trees are abstracted, as in `StegerWormald`, to the residual widths
`wMin` and `wMax`. Go's truncating division is kept in `MaxEdges`. Two
outcomes are recorded in `pc`/`wpc`:

- `"panic"`: `rand.Intn` got a range of at most 0. The runner's
  `StopProcessOnUnhandledPanic` then ends the process.
- `"hang"`: a retry loop has reached a state that no draw can change
  (`P1Stuck`, `P2Stop`, `WeighHang`).

## Runs

| Run | cfg | Expect | Shows |
|-----|-----|--------|-------|
| gen_pool | `MCGenService.cfg` | pass | 2 runners, 3 handlers, `QueueCap` 2, `OutCap` 1, 2 maintenance windows, main's shutdown, and generations that may never return. It shows three things. `Pause` returns only once every runner has taken its pause signal (`PausedWorkersParked`). `Stop` returns only after every pushed request is generated (`StopDrains`). The pool implements `GenPool` (`PoolRefinement`). |
| gen_stop_hang | `MCGenServiceStopHang.cfg` | violation | `StopReturns` fails, even though every generation returns (`GenMayHang` is FALSE). main stops the consumer before the pool, so a runner blocked on a full `retirever` keeps `Stop` waiting. After 30 s, `processEndingTimeout` panics. The process is killed instead of shutting down cleanly, and the results left in the pool are lost. |
| ost_select | `MCOrderStatTree.cfg` | pass | N = 9 points with widths 0..1: every width vector, then any sequence of `RemovePoint`. `GetPoint` agrees with a prefix-sum reference, `Length` is the total width, and every point is found. |
| ps_tracked | `MCPersistentService.cfg` | pass | 3 handlers create, poll, and delete graphs and batches, with no maintenance or restart. A stored NotFinished request is always in the pipeline or has failed (`RequestTracked`), even as deletes race generation. |
| ps_batches | `MCPersistentBatch.cfg` | pass | Create and list calls, one maintenance window and one restart. `GetBatch` marks a batch Finished only when all its results are stored (`FinishedBatchComplete`). A batch answered 201 is stored, even when maintenance or a restart closed the handle its transaction began on (`BatchCreatedStored`). Listings race maintenance and restarts. |
| ps_maint_lost | `MCPersistentMaintLost.cfg` | violation | `RequestTracked` fails. A result received while maintenance has the DB closed is dropped, because `maintenanceStop` is never `Add`ed. |
| ps_restart_lost | `MCPersistentRestartLost.cfg` | violation | `RequestTracked` fails. After a restart, the stored NotFinished requests are never pushed again. |
| ps_unstored | `MCPersistentUnstored.cfg` | violation | `AcceptedStored` fails. `StoreNewRequest` overwrites the Update's error with the push's result. |
| gen_algorithms | `MCGenerators.cfg` | pass | The requests are every validated one of these: the seven exact-degree cases (4 to 6 nodes, with restarts, inversion and merges); every bounded and at-least request up to 4 nodes, plus Between(6,2,3); every average request up to 5 nodes; and weighted complete, bounded and average graphs. Checks: the exact generator keeps its degree sequence and returns a regular graph (`ExactDeficit`, `ExactRegular`); bounded degrees stay in `[min, max]` (`BetweenDegrees`); average graphs have `targetEdges` edges (`AverageEdges`); every graph asked to be connected is (`ResultConnected`); every returned weight is nonzero and in range (`WeightsValid`). The panic and hang outcomes are reached but are not violations of these properties, which constrain returned graphs only. |
| gen_between_hang | `MCGeneratorsHang.cfg` | violation | `Returns` fails. After 8 edges of Between(6,2,3), node 5 is the only point left in both `pointsMin` and `pointsMax`, and it is not filled. Phase 1 then redraws forever (`between.go:56`). |
| sw_inverted_restart | `MCStegerWormaldInverted.cfg` | violation | `ResultRegular` fails. On 7 nodes, degree 4 is inverted to 2. The fix fails, and the restart keeps degree 2 without inverting back, so a 2-regular graph is returned. |
| mem_service | `MCMemoryService.cfg` | pass | Two handlers of different sessions make requests and a batch, the consumer stores results, and `cleanUpDb` expires them. A Finished request has its graph (`FinishedHasGraph`), and a Finished batch has all its members' graphs (`BatchComplete`). `cleanUpDb` never reaches a batch member's nil `Owner` (`NoCleanupPanic`), because the batch `Timeout` is taken before its members'. |

Why these bounds are enough:

- GenService: `OutCap` = 1 lets one runner fill `retirever` while the other
  still holds a request, which is the state that blocks `Pause` and `Stop`.
  Three requests with `QueueCap` = 2 let a handler block on a full queue.
  Two maintenance windows exercise the reuse of the resume WaitGroup.
- OrderStatTree: N = 9 is the smallest size at which an `rrRotation` moves a
  non-empty inner subtree. At that size a rotation that drops the subtree is
  detected.

- PersistentService: `BatchSize` 2 is the smallest batch for which
  counting the graphs off by one matters. Three graph ids allow a request
  and a batch at once. One worker and `OutCap` 1 are enough, because the
  pool's own interleavings are checked in `GenService`. One maintenance
  window and one restart reach every handle-epoch case of a transaction.
  `ps_tracked` has 3 handlers, so a request and a batch of 2 can pass
  `FreeBand` together and overfill `QueueCap` 2, while the third deletes.
- MemoryService: two handlers with one session each, three graph ids, one
  batch of 2, TTL 1 and a clock up to 3. With these bounds a request
  expires before, with, or after a batch and its members. A cleanup can
  fall between a handler's `Load` and `Store`, and between `StoreGraph`'s
  steps.
- StegerWormald: from 4 to 6 nodes with degree 2, the drawing can get stuck
  with no candidate edge (restart), and 6 nodes with degree 2 can split
  into two triangles (merge). Degree 3 on 6 nodes exercises the fix with
  odd degree. Degree 4 on 6 nodes is inverted. Below 8 nodes every
  component of a regular graph of degree at least 2 is bridgeless, so a
  merge never fails and `Recheck`'s recursion branch is not reached.
- Generators: every bounded/at-least request up to 4 nodes includes the
  empty-range panic (Between(3,1,2), AtLeast(n, n-1)) and the spanning
  tree's cap of 2. Between(6,2,3) is the smallest request the
  simulation of the two phases found to stall phase 1. Up to 7 nodes no
  request emptied `pointsMax` before `pointsMin`, or left phase 2 without
  a valid pair, so those branches of `P1Stuck` and `P2Stop` are modelled
  but not reached. Weight ranges `[-1,1]`, `[1,3]`, `[2,2]` and `[0,1]`
  cover a range holding 0, `min = max`, and the endless redraw.

CHECK_DEADLOCK is FALSE in every cfg because the program does stop: after
shutdown nothing is enabled, the tree is finished once every width is
removed, and the persistent service's handlers and bounded maintenance
windows run out. A generator call that never returns is a state with no
successor for that runner, and it is meant to be one: it is what the code
does.

## Not modelled (yet) and the plan

These parts are planned, most important first:

1. In `PersistentService`:
   - TTL expiry. All keys of one request or batch share one TTL and
     expire together, so expiry behaves like a delete that is never
     answered;
   - the read-only getters `GetGraph` and `GetBatchResult`.
2. The batch delete race in `GetBatch` (a View, then a separate Update). It
   is unreachable today because `handleBatchDelete` is empty.

`DeleteGraph` on a member of a batch leaves a Finished batch that is
incomplete. `FinishedBatchComplete` catches this once Ops include
`delGraph` and `getBatch` (the `GraphDeleteOps` set of
`MCPersistentService`). It is listed as a hazard, not a run.

The owner keys outlive `DeleteGraph` and `DeleteBatch`, so a listing can
return deleted ids. No property covers that.

There are no liveness properties for the persistent service, and none of
the pool's (`PushedEventuallyHandled`) is a run. They would need fairness
that makes every generation return, which the code does not guarantee.
Without hangs, the pool is still not live: see `MCGenServicePauseGap.cfg`
below.

`valueGen` never draws `max`, and the spec says the weight is uniform in
`[min, max]`; `WeightsValid` checks only the range. `AVLBalanced` (the
spec's AVL height bound on the tree `New` builds) is not checked: balance
changes the cost of a lookup, not its result, which `ost_select` checks.

Six configs reproduce results that are not runs. The project is at its
limit of 12 runs. Each config checks one property, and TLC finds it
violated:

- `MCGenServicePauseGap.cfg`: `PushedEventuallyHandled` fails, with no
  generation hanging. A runner takes window 1's pause signal. `Resume`
  and window 2's `Add(1)` come before that runner's `resume.Wait()`, so
  it blocks in window 2 without taking window 2's signal. `Pause` then
  never returns, and every runner stays parked while requests wait.
- `MCPersistentListedOwn.cfg`: `ListedOwn` fails in 4 states with the
  sessions `a` and `a-b`. `a-b` stores a request, then
  `ListRequests("a")` returns it, because `graphowner-a-` is a prefix of
  `graphowner-a-b-<id>`. The cookie is chosen by the client, and
  server-issued uuids contain `-`.

- `MCPersistentDeleteAnswer.cfg`: `DeleteAnswered` fails in 6 states.
  `SetUpRequestService` lets a DELETE through, and maintenance begins.
  `DeleteGraph` then returns `ErrServiceMaintenance`, and a closed handle
  gives `ErrDBClosed`. The `Error` middleware maps neither, so the client
  gets 200 for a graph that still exists.

- `MCGenServicePushRace.cfg`: `NoSendOnClosed` fails. `PushRequest`
  passes its `started` check, `Stop` then closes the channel, and the send
  panics. gin's recovery turns the panic into a 500 during shutdown.
- `MCMemoryServiceShared.cfg`: two handlers of one session.
  `ListingExact` fails in 7 states. Both `addToOwner` calls find no
  reference and both `Store` a fresh one, so the first id is lost from
  the listing. Modelled writes are atomic, so this config does not show
  the Go runtime's fatal concurrent map write that the same overlap can
  cause.
- `MCPersistentBatchDelete.cfg`: `FinishedBatchComplete` fails in 16
  states. Two `GetBatch` calls View the batch, one marks it Finished,
  `DeleteBatch` removes it, and the other writes it back. No client can
  reach this today, because `handleBatchDelete` is empty.

The following are left out and not planned:

- HTTP parsing, including the `uint32` truncation of ids, which chooses
  the id a route acts on and nothing more (the model already takes any id);
- the routes other than `POST /graph`, `POST /batch` and `DELETE /graph/:id`:
  they read and format, and their service calls are already actions;
- serialization (JSON/dot/matrix), which is pure formatting;
- in `bst.go`, `removeNode`, `swap`, `findSuccessor`, `decreaseHeight`
  and the `ll`/`lr`/`rl` rotations. `RemovePoint`'s call to `removeNode`
  is commented out. `New` inserts keys in ascending order, so every new
  node is a right child and `checkUp` only ever takes the `rrRotation` case.
  This code cannot run;
- configuration;
- in the in-memory service, the read-only getters and the two deletes,
  which return `ErrFunctionNotImplemented`.
