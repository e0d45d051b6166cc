CONSTANTS
  Requests <- MCRequests
  MaxNodes = 100
  MaxRestarts = 1
SPECIFICATION Spec
INVARIANT TypeOK ExactDeficit ExactRegular ResultConnected BetweenDegrees AverageEdges WeightsValid
CHECK_DEADLOCK FALSE
