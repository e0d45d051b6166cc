----------------------------- MODULE GenService -----------------------------
(***************************************************************************)
(* The generation worker pool of pkg/generator/service/service.go         *)
(* (GenService) and the goroutines that drive it in the program:          *)
(*   - one HTTP handler per request, calling PushRequest                  *)
(*     (PersistentService.StoreNewRequest);                               *)
(*   - the maintenance goroutine calling Pause and Resume                 *)
(*     (PersistentService.cleanLoop / doMaintenance);                     *)
(*   - the result consumer reading the retirever channel                  *)
(*     (PersistentService.retrieveGraphs);                                *)
(*   - main, which starts the pool and shuts the program down in the      *)
(*     order of its deferred calls (persistence first, then the pool).    *)
(* A request is a model value; a generated graph is abstracted to the id  *)
(* of its request, generation to "succeeds or fails".                     *)
(***************************************************************************)
EXTENDS Naturals, Sequences, FiniteSets
LOCAL INSTANCE SequencesExt

CONSTANTS
  Workers,    \* the runner goroutines (GenService.workers of them)
  Requests,   \* graph requests, each pushed by its own HTTP handler
  QueueCap,   \* cap(requests) = workers * MaxBatchSize * 2
  OutCap,     \* cap(retirever), same formula
  MaxPauses,  \* bound on the number of maintenance windows
  GenMayHang, \* some request makes GenerateGraphFromRequest loop for ever
  NoReq       \* a worker holding no request

ASSUME QueueCap \in Nat \ {0} /\ OutCap \in Nat \ {0} /\ MaxPauses \in Nat
ASSUME NoReq \notin Requests /\ GenMayHang \in BOOLEAN

VARIABLES
  started,    \* GenService.started
  stopped,    \* GenService.stopped
  closed,     \* close(service.requests) has happened
  queue,      \* buffered contents of the requests channel
  out,        \* buffered contents of the retirever channel
  wpc,        \* where each runner goroutine is
  wreq,       \* the request a runner is working on
  resumeCnt,  \* counter of the resume sync.WaitGroup
  sent,       \* pause signals delivered by the current Pause call
  mpc,        \* the maintenance goroutine
  pauses,     \* maintenance windows begun so far
  cpc,        \* the HTTP handler of each request
  mainPc,     \* the main goroutine
  consumerUp, \* retrieveGraphs has not returned
  stored,     \* requests whose result retrieveGraphs took (history)
  dropped     \* requests whose generation failed (history)

vars == <<started, stopped, closed, queue, out, wpc, wreq, resumeCnt, sent,
          mpc, pauses, cpc, mainPc, consumerUp, stored, dropped>>

\* runningWorkers, initialised to the number of workers and never changed.
NWorkers == Cardinality(Workers)

WorkerStates == {"none", "outer", "inner", "gen", "hung", "emit", "received",
                 "paused", "exited"}

TypeOK ==
  /\ started \in BOOLEAN /\ stopped \in BOOLEAN /\ closed \in BOOLEAN
  /\ queue \in Seq(Requests) /\ Len(queue) <= QueueCap
  /\ out \in Seq(Requests) /\ Len(out) <= OutCap
  /\ wpc \in [Workers -> WorkerStates]
  /\ wreq \in [Workers -> Requests \cup {NoReq}]
  /\ resumeCnt \in Nat
  /\ sent \in 0..NWorkers
  /\ mpc \in {"idle", "pausing", "paused", "exited"}
  /\ pauses \in 0..MaxPauses
  /\ cpc \in [Requests -> {"idle", "send", "pushed", "rejected", "panicked"}]
  /\ mainPc \in {"init", "running", "stopGen", "stopping", "stopped"}
  /\ consumerUp \in BOOLEAN
  /\ stored \subseteq Requests /\ dropped \subseteq Requests

Init ==
  /\ started = FALSE /\ stopped = FALSE /\ closed = FALSE
  /\ queue = <<>> /\ out = <<>>
  /\ wpc = [w \in Workers |-> "none"]
  /\ wreq = [w \in Workers |-> NoReq]
  /\ resumeCnt = 0 /\ sent = 0
  /\ mpc = "idle" /\ pauses = 0
  /\ cpc = [r \in Requests |-> "idle"]
  /\ mainPc = "init"
  /\ consumerUp = TRUE
  /\ stored = {} /\ dropped = {}

-----------------------------------------------------------------------------
(* GenService.Start: refuses when started or stopped, otherwise launches   *)
(* the runners.  main calls it once, before anything else runs.           *)
Start ==
  /\ mainPc = "init"
  /\ ~started /\ ~stopped
  /\ started' = TRUE
  /\ wpc' = [w \in Workers |-> "outer"]
  /\ mainPc' = "running"
  /\ UNCHANGED <<stopped, closed, queue, out, wreq, resumeCnt, sent, mpc,
                 pauses, cpc, consumerUp, stored, dropped>>

(* The unbuffered pause channel has a sender blocked in Pause.            *)
PauseOffered == mpc = "pausing" /\ sent < NWorkers

(* Runner receives from service.pause; resume.Wait() is its next step.    *)
TakePause(w) ==
  /\ PauseOffered
  /\ sent' = sent + 1
  /\ wpc' = [wpc EXCEPT ![w] = "received"]
  /\ UNCHANGED <<started, stopped, closed, queue, out, wreq, resumeCnt, mpc,
                 pauses, cpc, mainPc, consumerUp, stored, dropped>>

(* runner: the outer select takes a pending pause, else its default case  *)
(* falls through to the inner select.                                      *)
RunnerOuter(w) ==
  /\ wpc[w] = "outer"
  /\ \/ TakePause(w)
     \/ /\ ~PauseOffered
        /\ wpc' = [wpc EXCEPT ![w] = "inner"]
        /\ UNCHANGED <<started, stopped, closed, queue, out, wreq, resumeCnt,
                       sent, mpc, pauses, cpc, mainPc, consumerUp, stored,
                       dropped>>

(* runner: the inner select blocks until a pause, a request, or the close  *)
(* of an empty requests channel (cont = false) ends the goroutine.         *)
RunnerInner(w) ==
  /\ wpc[w] = "inner"
  /\ \/ TakePause(w)
     \/ /\ queue # <<>>
        /\ wreq' = [wreq EXCEPT ![w] = Head(queue)]
        /\ queue' = Tail(queue)
        /\ wpc' = [wpc EXCEPT ![w] = "gen"]
        /\ UNCHANGED <<started, stopped, closed, out, resumeCnt, sent, mpc,
                       pauses, cpc, mainPc, consumerUp, stored, dropped>>
     \/ /\ closed /\ queue = <<>>
        /\ wpc' = [wpc EXCEPT ![w] = "exited"]
        /\ UNCHANGED <<started, stopped, closed, queue, out, wreq, resumeCnt,
                       sent, mpc, pauses, cpc, mainPc, consumerUp, stored,
                       dropped>>

(* resume.Wait(): returns at once when the counter is zero (Resume came   *)
(* first, or a new Pause has not yet Added), else blocks until Resume.    *)
RunnerWait(w) ==
  /\ wpc[w] = "received"
  /\ wpc' = [wpc EXCEPT ![w] = IF resumeCnt = 0 THEN "outer" ELSE "paused"]
  /\ UNCHANGED <<started, stopped, closed, queue, out, wreq, resumeCnt, sent,
                 mpc, pauses, cpc, mainPc, consumerUp, stored, dropped>>

(* decision.GenerateGraphFromRequest: a failed or nil result is logged and *)
(* the request dropped (continue); a graph goes on to be sent.  Some      *)
(* valid requests make it loop for ever (Between's pairing loop,         *)
(* valueGen with weights [0, 1]): the runner is then "hung" for good.     *)
Generate(w) ==
  /\ wpc[w] = "gen"
  /\ \/ /\ wpc' = [wpc EXCEPT ![w] = "emit"]
        /\ UNCHANGED <<wreq, dropped>>
     \/ /\ dropped' = dropped \cup {wreq[w]}
        /\ wpc' = [wpc EXCEPT ![w] = "outer"]
        /\ wreq' = [wreq EXCEPT ![w] = NoReq]
     \/ /\ GenMayHang
        /\ wpc' = [wpc EXCEPT ![w] = "hung"]
        /\ UNCHANGED <<wreq, dropped>>
  /\ UNCHANGED <<started, stopped, closed, queue, out, resumeCnt, sent, mpc,
                 pauses, cpc, mainPc, consumerUp, stored>>

(* Mutant of Emit: the send does not block on a full channel.             *)
EmitUnbounded(w) ==
  /\ wpc[w] = "emit"
  /\ out' = Append(out, wreq[w])
  /\ wpc' = [wpc EXCEPT ![w] = "outer"]
  /\ wreq' = [wreq EXCEPT ![w] = NoReq]
  /\ UNCHANGED <<started, stopped, closed, queue, resumeCnt, sent, mpc,
                 pauses, cpc, mainPc, consumerUp, stored, dropped>>

(* service.retirever <- graph, blocking while the channel is full.         *)
Emit(w) ==
  /\ wpc[w] = "emit"
  /\ Len(out) < OutCap
  /\ out' = Append(out, wreq[w])
  /\ wpc' = [wpc EXCEPT ![w] = "outer"]
  /\ wreq' = [wreq EXCEPT ![w] = NoReq]
  /\ UNCHANGED <<started, stopped, closed, queue, resumeCnt, sent, mpc,
                 pauses, cpc, mainPc, consumerUp, stored, dropped>>

Runner(w) == RunnerOuter(w) \/ RunnerWait(w) \/ RunnerInner(w) \/ Generate(w) \/ Emit(w)

-----------------------------------------------------------------------------
(* doMaintenance calls Pause: resume.Add(1), then one blocking send on     *)
(* service.pause per running worker.  cleanLoop only begins a window while *)
(* main has not begun the shutdown (closer not yet received).             *)
PauseBegin ==
  /\ mpc = "idle" /\ mainPc = "running"
  /\ pauses < MaxPauses
  /\ resumeCnt' = resumeCnt + 1
  /\ sent' = 0
  /\ pauses' = pauses + 1
  /\ mpc' = "pausing"
  /\ UNCHANGED <<started, stopped, closed, queue, out, wpc, wreq, cpc, mainPc,
                 consumerUp, stored, dropped>>

(* Mutant of PauseReturn: the send loop stops one worker short.           *)
PauseReturnEarly ==
  /\ mpc = "pausing"
  /\ sent = NWorkers - 1
  /\ mpc' = "paused"
  /\ UNCHANGED <<started, stopped, closed, queue, out, wpc, wreq, resumeCnt,
                 sent, pauses, cpc, mainPc, consumerUp, stored, dropped>>

(* Pause returns once all runningWorkers sends have been received.        *)
PauseReturn ==
  /\ mpc = "pausing"
  /\ sent = NWorkers
  /\ mpc' = "paused"
  /\ UNCHANGED <<started, stopped, closed, queue, out, wpc, wreq, resumeCnt,
                 sent, pauses, cpc, mainPc, consumerUp, stored, dropped>>

(* Resume: resume.Done(); a WaitGroup reaching zero releases every         *)
(* goroutine blocked in Wait.                                             *)
Resume ==
  /\ mpc = "paused"
  /\ resumeCnt' = resumeCnt - 1
  /\ wpc' = IF resumeCnt' = 0
              THEN [w \in Workers |-> IF wpc[w] = "paused" THEN "outer" ELSE wpc[w]]
              ELSE wpc
  /\ mpc' = "idle"
  /\ UNCHANGED <<started, stopped, closed, queue, out, wreq, sent, pauses, cpc,
                 mainPc, consumerUp, stored, dropped>>

-----------------------------------------------------------------------------
(* PushRequest, first half: the unsynchronised read of service.started.    *)
(* The HTTP server only serves after main has started the pool.           *)
PushCheck(r) ==
  /\ cpc[r] = "idle" /\ mainPc # "init"
  /\ cpc' = [cpc EXCEPT ![r] = IF started THEN "send" ELSE "rejected"]
  /\ UNCHANGED <<started, stopped, closed, queue, out, wpc, wreq, resumeCnt,
                 sent, mpc, pauses, mainPc, consumerUp, stored, dropped>>

(* Mutant of PushSend: the send does not wait for room in the channel.    *)
PushSendNoBlock(r) ==
  /\ cpc[r] = "send"
  /\ \/ /\ ~closed
        /\ queue' = Append(queue, r)
        /\ cpc' = [cpc EXCEPT ![r] = "pushed"]
     \/ /\ closed
        /\ cpc' = [cpc EXCEPT ![r] = "panicked"]
        /\ UNCHANGED queue
  /\ UNCHANGED <<started, stopped, closed, out, wpc, wreq, resumeCnt, sent,
                 mpc, pauses, mainPc, consumerUp, stored, dropped>>

(* PushRequest, second half: service.requests <- req blocks while the     *)
(* channel is full; a send on (or blocked on) a closed channel panics.   *)
PushSend(r) ==
  /\ cpc[r] = "send"
  /\ \/ /\ ~closed /\ Len(queue) < QueueCap
        /\ queue' = Append(queue, r)
        /\ cpc' = [cpc EXCEPT ![r] = "pushed"]
     \/ /\ closed
        /\ cpc' = [cpc EXCEPT ![r] = "panicked"]
        /\ UNCHANGED queue
  /\ UNCHANGED <<started, stopped, closed, out, wpc, wreq, resumeCnt, sent,
                 mpc, pauses, mainPc, consumerUp, stored, dropped>>

(* retrieveGraphs takes a result and hands it to StoreGraph.               *)
Consume ==
  /\ consumerUp /\ out # <<>>
  /\ stored' = stored \cup {Head(out)}
  /\ out' = Tail(out)
  /\ UNCHANGED <<started, stopped, closed, queue, wpc, wreq, resumeCnt, sent,
                 mpc, pauses, cpc, mainPc, consumerUp, dropped>>

-----------------------------------------------------------------------------
(* main's deferred requestsService.Stop: p.closer is received by cleanLoop *)
(* only between maintenance windows and by retrieveGraphs at its select;  *)
(* both goroutines return.                                                *)
StopRequestsService ==
  /\ mainPc = "running" /\ mpc = "idle"
  /\ mpc' = "exited"
  /\ consumerUp' = FALSE
  /\ mainPc' = "stopGen"
  /\ UNCHANGED <<started, stopped, closed, queue, out, wpc, wreq, resumeCnt,
                 sent, pauses, cpc, stored, dropped>>

(* main's deferred grService.Stop: flags, close(service.requests).        *)
StopGen ==
  /\ mainPc = "stopGen"
  /\ started /\ ~stopped
  /\ started' = FALSE /\ stopped' = TRUE
  /\ closed' = TRUE
  /\ mainPc' = "stopping"
  /\ UNCHANGED <<queue, out, wpc, wreq, resumeCnt, sent, mpc, pauses, cpc,
                 consumerUp, stored, dropped>>

(* Mutant of StopWait: Stop returns without waitGroup.Wait().             *)
StopWaitNoWait ==
  /\ mainPc = "stopping"
  /\ mainPc' = "stopped"
  /\ UNCHANGED <<started, stopped, closed, queue, out, wpc, wreq, resumeCnt,
                 sent, mpc, pauses, cpc, consumerUp, stored, dropped>>

(* Stop returns from waitGroup.Wait() once every runner has returned.     *)
StopWait ==
  /\ mainPc = "stopping"
  /\ \A w \in Workers : wpc[w] = "exited"
  /\ mainPc' = "stopped"
  /\ UNCHANGED <<started, stopped, closed, queue, out, wpc, wreq, resumeCnt,
                 sent, mpc, pauses, cpc, consumerUp, stored, dropped>>

Next ==
  \/ Start
  \/ \E w \in Workers : Runner(w)
  \/ PauseBegin \/ PauseReturn \/ Resume
  \/ \E r \in Requests : PushCheck(r) \/ PushSend(r)
  \/ Consume
  \/ StopRequestsService \/ StopGen \/ StopWait

(* Go schedules every runnable goroutine: runners, the consumer, the       *)
(* maintenance goroutine once its sleep is over, and main once shutdown    *)
(* has begun.  Beginning a window or the shutdown is not forced.  A       *)
(* runner's Generate step may be the step into a loop that never returns *)
(* (GenMayHang), so fairness does not make generation terminate.          *)
Fairness ==
  /\ \A w \in Workers : WF_vars(Runner(w))
  /\ WF_vars(Consume)
  /\ WF_vars(PauseReturn) /\ WF_vars(Resume)
  /\ WF_vars(StopGen) /\ WF_vars(StopWait)

Spec == Init /\ [][Next]_vars /\ Fairness

-----------------------------------------------------------------------------
(* Requests whose generation has completed, successfully or not.          *)
Generated == ToSet(out) \cup stored \cup dropped

(* Once Pause has returned and until Resume, every runner has taken its    *)
(* pause signal and is in, or about to call, resume.Wait(): no request is *)
(* dequeued and no result is published while the database is being       *)
(* closed and reopened by doMaintenance.                                  *)
PausedWorkersParked ==
  mpc = "paused" => \A w \in Workers : wpc[w] \in {"received", "paused"}

(* Stop drains the queue: when waitGroup.Wait() returns, every request a  *)
(* handler managed to push has been generated (or failed).               *)
StopDrains ==
  mainPc = "stopped" => \A r \in Requests : cpc[r] = "pushed" => r \in Generated

(* While the program runs, a pushed request is eventually handed to the   *)
(* consumer or dropped by a failed generation, whatever maintenance      *)
(* windows happen in between.                                            *)
PushedEventuallyHandled ==
  \A r \in Requests :
    cpc[r] = "pushed" ~> (r \in stored \cup dropped \/ mainPc # "running")

(* A PushRequest that races Stop is refused with ErrPushStoppedSvc and    *)
(* never panics on the closed channel (spec: lifecycle errors are        *)
(* returned synchronously).                                               *)
NoSendOnClosed == \A r \in Requests : cpc[r] # "panicked"

(* grService.Stop, once called by main, returns.                          *)
StopReturns == mainPc = "stopping" ~> mainPc = "stopped"


(* The worker pool implements the abstract pool of GenPool: the requests  *)
(* channel is the queue, the requests held by runners past the dequeue    *)
(* are in generation, and the pool counts as paused exactly while Pause  *)
(* has returned and Resume has not been called.                           *)
InGeneration == {wreq[w] : w \in {v \in Workers : wpc[v] \in {"gen", "hung", "emit"}}}

Pool == INSTANCE GenPool WITH queued <- ToSet(queue), busy <- InGeneration,
                              paused <- (mpc = "paused")

(* Every step of the runners, handlers, maintenance goroutine, consumer   *)
(* and main is a step of GenPool or leaves its view unchanged: in         *)
(* particular no request is taken out of the queue, generated or          *)
(* published between Pause and Resume, and no push overfills the queue.   *)
PoolRefinement == Pool!PoolSpec

=============================================================================
