\* One SD socket and one USB slot compete for two letters, events and the probe task.
CONSTANTS
  FirstMsc = 7
  MSC_MAX_LUN = 1
  Sds = {0}
  Removable = {0, 7}
  Letters = {4, 5}
  MaxPartitions = 1
  QUEUE_LEN = 1
  NoLetter = NoLetter
SPECIFICATION FairSpec
INVARIANTS TypeOK LettersAreOwned MountedOnce CurrTypeHasLetter NoEventIsLost
PROPERTIES DrivesFollowCards StorageFollowsDrives
