CONSTANTS
  s1 = s1
  s2 = s2
  Scan = {s1}
  MaxRetries = 2
  MaxCrashes = 0
  Concurrency = 1
  Events <- OnlyRaise

SPECIFICATION FairSpec

PROPERTIES
  EveryScanEnds

\* Clients may submit nothing and executors may be gone: stopping is allowed.
CHECK_DEADLOCK FALSE
