SPECIFICATION CoreSpec
CONSTANTS
  Rooms = {r1}
  Boards <- Versions
  MaxClock = 0
  Threads = {t1, t2, t3}
  NoSnapshot = none
  KeepLatest = 2
  MaxPushed = 0
  MaxFailures = 0
  IoThreads = 2
  Kinds = {"StrokeBegin", "Clear"}
  MaxSeq = 3
  MaxCrashes = 1
SYMMETRY CoreSymmetry
CHECK_DEADLOCK FALSE
INVARIANTS SnapshotsTrue NewestSurvives FinalBoardSaved
