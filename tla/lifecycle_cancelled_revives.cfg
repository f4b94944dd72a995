CONSTANTS
  s1 = s1
  s2 = s2
  Scan = {s1}
  MaxRetries = 0
  MaxCrashes = 0
  Concurrency = 1
  Events <- OnlyCancel

SPECIFICATION Spec

PROPERTIES
  CancelledStays

\* Clients may submit nothing and executors may be gone: stopping is allowed.
CHECK_DEADLOCK FALSE
