CONSTANTS
  Cases <- MCCasesInverted
  MaxRestarts = 1
SPECIFICATION Spec
INVARIANT ResultRegular
CHECK_DEADLOCK FALSE
