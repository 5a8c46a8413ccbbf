SPECIFICATION Spec
CONSTANTS
  Clients = {c1, c2}
  Fragile = {}
  NoRoom = none
  Requests = {"join_room", "event"}
  Kinds = {"Clear"}
  RoomsAtStart = 1
  MaxRooms = 1
  MaxLines = 3
CHECK_DEADLOCK FALSE
INVARIANTS SnapshotCurrent
