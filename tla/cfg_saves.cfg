\* Saves one after the other; power losses also lose directory entries.
CONSTANTS
  MaxVersion = 3
  MaxPowerLosses = 2
  Torn = Torn
  Missing = Missing
  PartialCrc = PartialCrc
  EntriesLost = TRUE
  SaveWhileSaving = FALSE
  Faults = {}
SPECIFICATION FairSpec
INVARIANTS OneCopyIsGood SettingsAreSaved
PROPERTIES SaveEnds BoardComesUp
