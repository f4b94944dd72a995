CONSTANTS
  Params <- MCParams
  Payloads <- MCPayloads
  Required = {"csp", "referrer"}
  Disclosing = {"server", "poweredBy"}
  Major <- MCMajor
  Minor <- MCMinor
  HeaderRate <- MCHeaderRate
  MethodRate <- MCMethodRate
  PortRate <- MCPortRate
  PortScans <- MCPortScans
  Lowest = 1

SPECIFICATION ASpec

INVARIANTS
  AInv
  Thorough
  ReportedOnce
  Judged
  RiskSound
  ReportAgrees

PROPERTIES
  Economical
\* Nothing follows once the findings are lost.
CHECK_DEADLOCK FALSE
