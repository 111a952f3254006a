\* Two places for threads; one of the threads may be detached by its user.
CONSTANTS
  Threads = {x1, x2}
  Values = {v1, v2}
  Nothing = Nothing
  Detachable = {x2}
SPECIFICATION FairSpec
INVARIANTS TypeOK BlockIsThere JoinGetsValue
PROPERTIES JoinReturns DetachedIsReclaimed
