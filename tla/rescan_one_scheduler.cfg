CONSTANTS
  Process = {p1}
  Target = {1, 2}
  Interval = 5
  TickPeriod = 2
  MaxManual = 1
  Events <- TwoTargets
  Faults <- Restarts

SPECIFICATION FairSpec

INVARIANTS
  IInv
  NeverDoubleFire

PROPERTIES
  TickApart
  ThreeSpanInterval
  RescannedForEver
