SPECIFICATION FairWriterSpec
CONSTANTS
  Rooms = {r1, r2}
  Boards = {b1}
  MaxClock = 1
  Threads = {t1, t2}
  NoSnapshot = none
  KeepLatest = 1
  MaxPushed = 3
  MaxFailures = 2
CHECK_DEADLOCK FALSE
INVARIANTS WriterTypeOK PendingCounts QueueExact NoLostWakeup DestructorDrains RetentionBound LastRowsKept
PROPERTIES FlushMeansHandled EventuallyHandled ImplementsSink
