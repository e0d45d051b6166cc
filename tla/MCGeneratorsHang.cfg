CONSTANTS
  Requests <- MCRequestsHang
  MaxNodes = 100
  MaxRestarts = 1
SPECIFICATION Spec
INVARIANT Returns
CHECK_DEADLOCK FALSE
