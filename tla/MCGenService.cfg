\* The pool under main's start/shutdown order and two maintenance windows.
CONSTANTS
  w1 = w1  w2 = w2  r1 = r1  r2 = r2  r3 = r3
  Workers <- MCWorkers
  Requests <- MCRequests
  QueueCap = 2
  OutCap = 1
  MaxPauses = 2
  NoReq = NoReq
  GenMayHang = TRUE
SPECIFICATION Spec
\* The program ends at shutdown; the shutdown hang is the StopReturns run.
CHECK_DEADLOCK FALSE
INVARIANT TypeOK
INVARIANT PausedWorkersParked
INVARIANT StopDrains
PROPERTY PoolRefinement
