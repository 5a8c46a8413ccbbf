SPECIFICATION Spec
CONSTANTS
  Clients = {c1, c2, c3}
  Fragile = {}
  NoRoom = none
  Requests = {"join_room", "event"}
  Kinds = {"Clear"}
  RoomsAtStart = 1
  MaxRooms = 1
  MaxLines = 5
SYMMETRY SessionsSymmetry
CHECK_DEADLOCK FALSE
INVARIANTS SeqOrder
