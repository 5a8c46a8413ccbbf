SPECIFICATION BoardsSpec
CONSTANTS
  Rooms = {r1, r2}
  Boards <- Blobs
  MaxClock = 1
  Base = 4
  Size32 = 2
  Size64 = 2
  SizeFloat = 1
  Drawn <- SomeBoards
  Keeps = {0, 1}
  MaxSaves = 2
  MaxDamages = 1
SYMMETRY RoomSymmetry
INVARIANTS StoredTypeOK LoadReturnsSaved DamageRefused ListedIdsStable
PROPERTIES LatestIsLastSaved
