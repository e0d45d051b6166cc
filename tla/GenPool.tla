------------------------------ MODULE GenPool ------------------------------
(***************************************************************************)
(* What the generation service (pkg/generator/service/service.go) promises *)
(* its caller, the persistent request service:                            *)
(*   - PushRequest enqueues into a bounded queue (FreeBand is its room);  *)
(*   - at most one request per worker is taken out for generation at a    *)
(*     time;                                                              *)
(*   - a taken request either fails (it is dropped) or its result is      *)
(*     published on the bounded result channel;                           *)
(*   - the caller takes results from that channel;                        *)
(*   - between the return of Pause and the call of Resume, nothing is     *)
(*     taken, generated or published.                                     *)
(* Requests are distinct values, so the queue and the requests in         *)
(* generation are sets.  The result channel is a FIFO sequence.           *)
(***************************************************************************)
EXTENDS Naturals, Sequences, FiniteSets

CONSTANTS
  Requests,   \* request identities
  NWorkers,   \* runningWorkers
  QueueCap,   \* cap(requests)
  OutCap      \* cap(retirever)

VARIABLES
  queued,     \* requests in the requests channel
  busy,       \* requests held by a runner, being generated or emitted
  out,        \* the retirever channel
  paused      \* Pause has returned and Resume has not been called

poolVars == <<queued, busy, out, paused>>

PoolTypeOK ==
  /\ queued \subseteq Requests /\ Cardinality(queued) <= QueueCap
  /\ busy \subseteq Requests /\ Cardinality(busy) <= NWorkers
  /\ out \in Seq(Requests) /\ Len(out) <= OutCap
  /\ paused \in BOOLEAN

PoolInit ==
  /\ queued = {} /\ busy = {} /\ out = <<>> /\ paused = FALSE

(* GenService.FreeBand: cap(requests) - len(requests).                     *)
FreeBand == QueueCap - Cardinality(queued)

(* PushRequest on a started service: blocks while the queue is full.      *)
Push(r) ==
  /\ Cardinality(queued) < QueueCap
  /\ queued' = queued \cup {r}
  /\ UNCHANGED <<busy, out, paused>>

(* A free runner takes a request out of the queue.                        *)
Take(r) ==
  /\ ~paused
  /\ r \in queued
  /\ Cardinality(busy) < NWorkers
  /\ queued' = queued \ {r}
  /\ busy' = busy \cup {r}
  /\ UNCHANGED <<out, paused>>

(* Generation of r succeeded and its result is sent on retirever.          *)
Complete(r) ==
  /\ ~paused
  /\ r \in busy
  /\ Len(out) < OutCap
  /\ busy' = busy \ {r}
  /\ out' = Append(out, r)
  /\ UNCHANGED <<queued, paused>>

(* Generation of r failed: the runner logs the error and drops r.          *)
Fail(r) ==
  /\ ~paused
  /\ r \in busy
  /\ busy' = busy \ {r}
  /\ UNCHANGED <<queued, out, paused>>

(* The caller receives the oldest result.                                 *)
Receive ==
  /\ out # <<>>
  /\ out' = Tail(out)
  /\ UNCHANGED <<queued, busy, paused>>

(* Pause returns once every runner is parked, so none holds a request.   *)
Pause ==
  /\ ~paused
  /\ busy = {}
  /\ paused' = TRUE
  /\ UNCHANGED <<queued, busy, out>>

Resume ==
  /\ paused
  /\ paused' = FALSE
  /\ UNCHANGED <<queued, busy, out>>

PoolNext ==
  \/ \E r \in Requests : Push(r) \/ Take(r) \/ Complete(r) \/ Fail(r)
  \/ Receive \/ Pause \/ Resume

PoolSpec == PoolInit /\ [][PoolNext]_poolVars

=============================================================================
