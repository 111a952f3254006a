\* A task reads and writes while another one also flushes.
CONSTANTS
  t1 = t1
  t2 = t2
  d1 = d1
  d2 = d2
  NoThread = NoThread
  CACHE_FREE = 99
  Data = {d1, d2}
  Threads = {t1, t2}
  FlushCallers = {t2}
  NumberOfPages = 2
  SectorsPerPage = 1
  EndOfPartition = 2
  MaxRequest = 2
  Faults = {}
SPECIFICATION Spec
SYMMETRY DataSymmetry
INVARIANT VictimIsClean
PROPERTY FlashTakesContents
