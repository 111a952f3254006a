\* Saves and boots cut short by power losses that damage files.
CONSTANTS
  MaxVersion = 3
  MaxPowerLosses = 3
  Torn = Torn
  Missing = Missing
  PartialCrc = PartialCrc
  EntriesLost = FALSE
  SaveWhileSaving = TRUE
  Faults = {"open"}
SPECIFICATION Spec
INVARIANTS TypeOK BootNeverGivesUp SavedIsRecoverable
