\* main's shutdown order: retrieveGraphs is gone before grService.Stop.
CONSTANTS
  w1 = w1  w2 = w2  r1 = r1  r2 = r2  r3 = r3
  Workers <- MCWorkers
  Requests <- MCRequests
  QueueCap = 2
  OutCap = 1
  MaxPauses = 0
  NoReq = NoReq
  GenMayHang = FALSE
SPECIFICATION Spec
CHECK_DEADLOCK FALSE
PROPERTY StopReturns
