CONSTANTS
  Process = {p1}
  Client = {c1, c2}
  MaxRequests = 2
  Period = 1
  Second = 2
  Horizon = 6

SPECIFICATION Spec

INVARIANTS
  IInv
  HeaderHonest
  RetryHonoured

PROPERTIES
  LimitSpec

\* The clock stops at its bound.
CHECK_DEADLOCK FALSE
