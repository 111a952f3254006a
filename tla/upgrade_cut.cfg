\* Three blocks, one of them raw data; two power losses, blocks that may fail.
CONSTANTS
  Versions = {v1, v2}
  Shipped = v1
  Torn = Torn
  Units = 3
  Raw = {2}
  MaxRetry = 2
  BlockFaults = TRUE
  MaxPowerLosses = 2
SPECIFICATION FairSpec
INVARIANTS TypeOK Recoverable
PROPERTIES ClearedWhenInstalled InterruptedIsResumed UpgradeEnds WebIsAnswered
