\* New over 9 points (the smallest size at which an rrRotation moves an
\* inner subtree), widths 0..1, then any sequence of RemovePoint.
CONSTANTS
  N = 9
  MaxWidth = 1
SPECIFICATION Spec
\* The generators stop drawing once every width is 0.
CHECK_DEADLOCK FALSE
INVARIANT TypeOK
INVARIANT SelectionCorrect
INVARIANT EveryPointFound
