\* One task reads, writes and flushes; two sectors a page, the last page short.
CONSTANTS
  t1 = t1
  t2 = t2
  d1 = d1
  d2 = d2
  NoThread = NoThread
  CACHE_FREE = 99
  Data = {d1, d2}
  Threads = {t1}
  FlushCallers = {t1}
  NumberOfPages = 2
  SectorsPerPage = 2
  EndOfPartition = 4
  MaxRequest = 2
  Faults = {}
SPECIFICATION Spec
SYMMETRY DataSymmetry
INVARIANTS TypeOK OnePagePerSector CleanMatchesFlash
PROPERTIES ImplementsStore FlushCoversAll FlushMakesDurable
