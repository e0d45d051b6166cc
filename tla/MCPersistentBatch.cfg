\* Batches, single requests and listings across a maintenance window and a
\* restart.
CONSTANTS
  h1 = h1  h2 = h2  h3 = h3  g1 = g1  g2 = g2  g3 = g3  b1 = b1  b2 = b2
  NoBatch = NoBatch  NoId = NoId
  Sessions <- MCSessions
  Handlers <- MCHandlers2
  GraphIds <- MCGraphIds
  BatchIds <- MCBatchIds1
  Ops <- CreateListOps
  BatchSize = 2
  NWorkers = 1
  QueueCap = 2
  OutCap = 1
  MaxMaintenance = 1
  MaxRestarts = 1
SYMMETRY Symmetry2
SPECIFICATION Spec
\* Handlers stop creating once the id space is used up.
CHECK_DEADLOCK FALSE
INVARIANT FinishedBatchComplete
INVARIANT BatchCreatedStored
