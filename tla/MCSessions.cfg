SPECIFICATION Spec
CONSTANTS
  Clients = {c1, c2}
  Fragile = {c1}
  NoRoom = none
  Requests = {"create_room", "join_room", "leave_room", "event"}
  Kinds = {"StrokeBegin"}
  RoomsAtStart = 1
  MaxRooms = 2
  MaxLines = 4
CHECK_DEADLOCK FALSE
INVARIANTS TypeOK RoomsAgree OneWrite AuthorOrder NoGap
