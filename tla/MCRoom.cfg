SPECIFICATION ClientsSpec
CONSTANTS
  Clients = {c1, c2, c3}
  Points = {p1, p2}
  Styles = {black}
  MinInterval = 2
  MaxSeq = 5
  MaxTime = 2
SYMMETRY RoomSymmetry
INVARIANTS TypeOK IndexExact ActiveIsOpen OpenIsActive BoardOrdered CursorsOfMembers ViewsAgree
PROPERTIES StrokesOnlyGrow SeqPerBroadcast CursorRate ImplementsProtocol
