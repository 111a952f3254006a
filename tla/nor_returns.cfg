\* Every request returns, with flushes beside writers and a device that fails.
CONSTANTS
  t1 = t1
  t2 = t2
  d1 = d1
  d2 = d2
  NoThread = NoThread
  CACHE_FREE = 99
  Data = {d1}
  Threads = {t1, t2}
  FlushCallers = {t2}
  NumberOfPages = 2
  SectorsPerPage = 1
  EndOfPartition = 2
  MaxRequest = 1
  Faults = {"read", "write"}
SPECIFICATION FairSpec
PROPERTY RequestsReturn
