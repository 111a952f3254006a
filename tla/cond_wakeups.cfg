\* Four threads, two of which wait with a time-out.
CONSTANTS
  Threads = {t1, t2, t3, t4}
  Timed = {t3, t4}
  MaxTokens = 3
  NoThread = NoThread
SPECIFICATION FairSpec
INVARIANTS TypeOK WaitersCounted UntimedExclude
PROPERTIES NoWakeupIsLost SleepersWake BroadcastReturns
