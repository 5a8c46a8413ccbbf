SPECIFICATION FairSpec
CONSTANTS
  Clients = {c1}
  Fragile = {c1}
  NoRoom = none
  Requests = {"ping", "join_room"}
  Kinds = {}
  RoomsAtStart = 1
  MaxRooms = 1
  MaxLines = 2
CHECK_DEADLOCK FALSE
PROPERTIES DisconnectedLeaves
