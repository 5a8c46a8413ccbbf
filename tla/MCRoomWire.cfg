SPECIFICATION WireSpec
VIEW WireView
CONSTANTS
  Clients = {1, 2}
  Points <- WirePoints
  Styles <- WireStyles
  MinInterval = 1
  MaxSeq = 4
  MaxTime = 1
  ByteSize = 8
  WordSize = 16
  LongSize = 32
  FloatMax = 8
  Inf = inf
  NotJson = notJson
  Lines <- OddLines
  RoomNo = 1
  Nothing = nothing
INVARIANTS TypeOK WireViewsAgree
PROPERTIES RelayedAsSent
