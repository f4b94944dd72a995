SPECIFICATION FairSpec
CONSTANTS
  Item = {1, 2, 3, 4}
  BatchOf <- InBatch
  Batches = 2
  Requested = 2
  Latency = {1, 9}
  MaxRetries = 2
  MinDelay = 2
  MaxDelay = 8
  DropRate = 50
  Reliable = 40
  SpikeFactor = 2
  MaxDrops = 2
INVARIANTS
  IInv
  Accounted
  
PROPERTIES
  Ends
CHECK_DEADLOCK FALSE
