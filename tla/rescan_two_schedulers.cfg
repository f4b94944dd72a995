CONSTANTS
  Process = {p1, p2}
  Target = {1}
  Interval = 2
  TickPeriod = 1
  MaxManual = 0
  Events <- Undisturbed
  Faults <- Reliable

SPECIFICATION Spec

INVARIANTS
  NeverDoubleFire
