CONSTANTS
  Port = {22, 8080}
  MaxRetries = 1
  Mode <- MCMode
  Dangerous = {8080}
  SshPort = 22
  TlsPort = 443
  HttpPort = {8080}
  HttpDetector = {"Headers"}

SPECIFICATION PFairSpec

INVARIANTS
  PInv
  ListedOnce
  EmptyMeansLooked
  PortsReportedOnce
PROPERTIES
  ResultIsFinal
  PipelineEnds

\* The pipeline ends.
CHECK_DEADLOCK FALSE
