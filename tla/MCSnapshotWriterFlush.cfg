SPECIFICATION FairWriterSpec
CONSTANTS
  Rooms = {r1}
  Boards = {b1}
  MaxClock = 0
  Threads = {t1}
  NoSnapshot = none
  KeepLatest = 1
  MaxPushed = 1
  MaxFailures = 0
CHECK_DEADLOCK FALSE
PROPERTIES FlushReturns
