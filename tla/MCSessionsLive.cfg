SPECIFICATION FairSpec
CONSTANTS
  Clients = {c1, c2}
  Fragile = {c1}
  NoRoom = none
  Requests = {"ping", "invalid", "join_room", "event"}
  Kinds = {"Clear"}
  RoomsAtStart = 1
  MaxRooms = 1
  MaxLines = 3
CHECK_DEADLOCK FALSE
PROPERTIES EventuallyWritten
