\* As threads_end: a thread that has ended already may be detached.
CONSTANTS
  Threads = {x1, x2}
  Values = {v1, v2}
  Nothing = Nothing
  Detachable = {x2}
SPECIFICATION FairSpec
PROPERTIES DetachReclaims
