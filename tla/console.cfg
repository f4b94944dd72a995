SPECIFICATION PFairSpec
CONSTANTS
  Client = {"client", "page"}
  Page = {"page"}
  MaxPolls = 2
  Address = {"host"}
  TargetId = {"t1", "t2"}
  Scan = {"s1", "s2"}
  ReportId = {"r1", "r2"}
  Format = {"pdf"}
  Workload <- Mixed
INVARIANTS
  Registered
  Whole
  ReportsWhole
  PInv
PROPERTIES
  Acknowledged
  PageEnds
CHECK_DEADLOCK FALSE
