\* Two handlers of one session: addToOwner racing itself.
CONSTANTS
  h1 = h1  h2 = h2  s1 = s1  s2 = s2  g1 = g1  g2 = g2  g3 = g3  b1 = b1
  Consumer = Consumer  NoOwner = NoOwner  NoMap = NoMap
  Handlers <- MCHandlers
  HandlerSession <- SharedSession
  Sessions <- MCSessions
  GraphIds <- MCGraphIds
  BatchIds <- MCBatchIds
  Ops <- AllOps
  BatchSize = 2
  TTL = 1
  MaxTime = 3
SYMMETRY Symmetry
SPECIFICATION Spec
\* Handlers stop once the id space is used up and the clock stops at MaxTime.
CHECK_DEADLOCK FALSE
INVARIANT ListingExact
