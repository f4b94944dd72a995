SPECIFICATION PSpec
CONSTANTS
  Client = {"client", "page"}
  Page = {"page"}
  MaxPolls = 2
  Address = {"host"}
  TargetId = {"t1", "t2"}
  Scan = {"s1", "s2"}
  ReportId = {"r1", "r2"}
  Format = {"pdf"}
  Workload <- Reports
INVARIANT DownloadsOwn
CHECK_DEADLOCK FALSE
