CONSTANTS
  s1 = s1
  s2 = s2
  Scan = {s1, s2}
  MaxRetries = 1
  MaxCrashes = 1
  Concurrency = 1
  Events <- SafetyEvents

SPECIFICATION Spec

INVARIANTS
  IInv
  OneExecutor
PROPERTIES
  JobSpec
  RowsMove

\* Clients may submit nothing and executors may be gone: stopping is allowed.
CHECK_DEADLOCK FALSE
