\* As upgrade_cut, but nothing fails except the power.
CONSTANTS
  Versions = {v1, v2}
  Shipped = v1
  Torn = Torn
  Units = 3
  Raw = {2}
  MaxRetry = 2
  BlockFaults = FALSE
  MaxPowerLosses = 2
SPECIFICATION FairSpec
INVARIANTS CheckTellsFailure
