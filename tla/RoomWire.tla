------------------------------ MODULE RoomWire ------------------------------
(***************************************************************************)
(* A room as its clients meet it on the wire: ClientSession::handleLine    *)
(* parses a line, maps it to a call on class Room (Room.tla), and answers  *)
(* and relays in JSON.  Clients know the board from JSON alone: from the   *)
(* snapshot they get when they join and the events after it, as in         *)
(* RoomClients.tla.  Delivery is immediate, there is one room, and no line *)
(* asks for another; what sessions do to the order of lines is the subject *)
(* of Sessions.tla.                                                        *)
(***************************************************************************)
EXTENDS Room, Transport

CONSTANTS
  Lines,   \* what clients send
  RoomNo,  \* the id of the room
  Nothing  \* no line, no reply

ASSUME WireAssumption ==
  /\ Clients \subseteq Nat
  /\ RoomNo \in 0 .. LongSize - 1
  /\ Styles = [color : Colors, thickness : Thicknesses]
  /\ Points = [x : Floats, y : Floats]

(* A line is JSON, down to the coordinates of a point, and asks for no     *)
(* other room.                                                             *)
ASSUME LinesAssumption ==
  \A line \in Lines \ {NotJson} :
    /\ IsJson(line)
    /\ Is("obj", line) => \A k \in DOMAIN line.obj :
         /\ IsJson(line.obj[k])
         /\ line.obj[k] # Str("create_room")
         /\ Is("obj", line.obj[k]) =>
              \A l \in DOMAIN line.obj[k].obj : IsJson(line.obj[k].obj[l])

VARIABLES
  input,  \* the last line, and who sent it
  reply,  \* what its sender was answered
  heard   \* the strokes and cursors of the others, as JSON, that a client knows

wireVars == <<vars, input, reply, heard>>

WireInit ==
  /\ Init
  /\ input = [from |-> Nothing, line |-> Nothing]
  /\ reply = Nothing
  /\ heard = [c \in Clients |-> [strokes |-> EmptyMap, cursors |-> EmptyMap]]

-----------------------------------------------------------------------------
(* The client's side, outside the program.                                 *)

(* What c keeps of a snapshot: all that is not its own.                    *)
ShowSnapshot(c, j) ==
  LET strokesOf == {s \in Range(j.obj.strokes.arr) : s.obj.author # Whole(c)}
      cursorsOf == {k \in Range(j.obj.cursors.arr) : k.obj.client # Whole(c)}
  IN  [strokes |-> [id \in {s.obj.id : s \in strokesOf} |->
                      CHOOSE s \in strokesOf : s.obj.id = id],
       cursors |-> [d \in {k.obj.client : k \in cursorsOf} |->
                      (CHOOSE k \in cursorsOf : k.obj.client = d).obj.point]]

ReplayJson(v, j) ==
  LET e == j.obj
      type == e.type.str
  IN  CASE type = "stroke_begin" ->
             [v EXCEPT !.strokes = Put(@, e.id,
                Obj([id |-> e.id, author |-> e.author, color |-> e.color,
                     thickness |-> e.thickness, stroke_order |-> e.stroke_order,
                     points |-> Arr(<<e.start>>), finished |-> Bool(FALSE)]))]
        [] type = "stroke_point" ->
             [v EXCEPT !.strokes[e.id].obj.points.arr = Append(@, e.point)]
        [] type = "stroke_end" -> [v EXCEPT !.strokes[e.id].obj.finished = Bool(TRUE)]
        [] type = "cursor_move" -> [v EXCEPT !.cursors = Put(@, e.author, e.point)]
        [] type = "clear" -> [v EXCEPT !.strokes = EmptyMap]
        [] type = "member_left" -> [v EXCEPT !.cursors = Erase(@, e.client)]

-----------------------------------------------------------------------------
(* The line an event is relayed as.                                        *)
Wire(e) == SerializeServerMessage(ToServerMessage(RoomNo, e.seq, e.payload))

(* A client replays what it is sent; one that clears the board clears its  *)
(* own view.                                                               *)
HearJson(d, v, e) ==
  IF d \in e.to \/ (e.payload.kind = "Clear" /\ e.payload.author = d)
  THEN ReplayJson(v, Wire(e)) ELSE v

(* The events the call returned reach their recipients.                    *)
Relayed(d, events) ==
  LET seen[k \in 0 .. Len(events)] ==
        IF k = 0 THEN heard[d] ELSE HearJson(d, seen[k - 1], events[k])
  IN  seen[Len(events)]

Relay(events) == heard' = [d \in Clients |-> Relayed(d, events)]

Replies(m) == reply' = SerializeServerMessage(m)

(* The line is answered with an error and the room is not called.          *)
Rejects(code) ==
  /\ Replies(ToErrorMessage(code))
  /\ Return(<<>>)
  /\ UNCHANGED <<state, heard>>

HandlePing ==
  /\ Replies([type |-> "pong"])
  /\ Return(<<>>)
  /\ UNCHANGED <<state, heard>>

HandleJoinRoom(c, m) ==
  \/ /\ m.room # RoomNo
     /\ Rejects(IF c \in members THEN "InvalidParams" ELSE "RoomNotFound")
  \/ /\ m.room = RoomNo
     /\ Join(c)
     /\ Replies(ToSnapshotMessage(RoomNo, Snapshot'))
     /\ heard' = [heard EXCEPT ![c] = ShowSnapshot(c, reply')]

HandleLeaveRoom(c, m) ==
  /\ m.room = RoomNo /\ c \in members
  /\ Leave(c)
  /\ Replies([type |-> "ok", request |-> "leave_room", room |-> RoomNo])
  /\ Relay(out')

(* Room::apply with the event that toCoreEvent made.                       *)
ApplyEvent(c, e) ==
  \/ e.kind = "StrokeBegin" /\ ApplyStrokeBegin(c, e.style, e.point)
  \/ e.kind = "StrokePoint" /\ ApplyStrokePoint(c, e.point)
  \/ e.kind = "StrokeEnd" /\ ApplyStrokeEnd(c)
  \/ e.kind = "CursorMove" /\ ApplyCursorMove(c, e.point)
  \/ e.kind = "Clear" /\ ApplyClear(c)

HandleEvent(c, m) ==
  LET event == ToCoreEvent(m)
  IN  /\ m.room = RoomNo /\ c \in members
      /\ \/ Failed(event) /\ Rejects(event.error)
         \/ /\ ~Failed(event)
            /\ ApplyEvent(c, event.value)
            /\ Relay(out')
            /\ IF err' = "none" THEN reply' = Nothing ELSE Replies(ToErrorMessage(err'))

(* A request for a room the client is not in.                              *)
HandleElsewhere(c, m) ==
  /\ ~(m.room = RoomNo /\ c \in members)
  /\ Rejects("NotInRoom")

HandleMessage(c, m) ==
  \/ m.type = "ping" /\ HandlePing
  \/ m.type = "join_room" /\ HandleJoinRoom(c, m)
  \/ m.type = "leave_room" /\ HandleLeaveRoom(c, m)
  \/ m.type \notin {"ping", "join_room", "leave_room"} /\ HandleEvent(c, m)
  \/ m.type \notin {"ping", "join_room"} /\ HandleElsewhere(c, m)

(* Every protocol error is answered as invalid parameters.                 *)
ProtocolToCoreError(code) == "InvalidParams"

HandleLine(c, line) ==
  /\ input' = [from |-> c, line |-> line]
  /\ \E msg \in ParseClientMessage(line) :
       \/ Failed(msg) /\ Rejects(ProtocolToCoreError(msg.error))
       \/ ~Failed(msg) /\ HandleMessage(c, msg.value)

WireNext ==
  \/ \E c \in Clients, line \in Lines : HandleLine(c, line)
  \/ Tick /\ UNCHANGED <<input, reply, heard>>

WireSpec == WireInit /\ [][WireNext]_wireVars

-----------------------------------------------------------------------------
(* The two ways to learn the board agree: what a member pieced together    *)
(* from the JSON of its snapshot and of the events after it is what the    *)
(* JSON of a new snapshot would tell it, so serializing strokes, events    *)
(* and cursors loses and changes nothing that the other way keeps.         *)
WireViewsAgree ==
  \A c \in members :
    heard[c] = ShowSnapshot(c, SerializeServerMessage(ToSnapshotMessage(RoomNo, Snapshot)))

(* Numbers of a request that its C++ types can hold.                       *)
Representable(object) ==
  /\ Is("int", object.room) /\ object.room.int \in 0 .. LongSize - 1
  /\ \A k \in {"color", "thickness"} \cap DOMAIN object :
       Is("int", object[k]) /\ object[k].int \in 0 .. WordSize - 1

(* A coordinate on the wire again: to the precision of a float.            *)
Rounded(j) == FloatJson(CHOOSE f \in ToFloat(j) : TRUE)

SameField(sent, relayed) ==
  IF Is("obj", sent)
  THEN relayed = Obj([x |-> Rounded(sent.obj.x), y |-> Rounded(sent.obj.y)])
  ELSE relayed = sent

(* What parseClientMessage() reads of a line.                              *)
RequestFields == {"type", "room", "color", "thickness", "start", "point"}

(* An event is relayed as it was sent: if a line of a client is broadcast, *)
(* then every field the server reads of it and that the relayed event has, *)
(* has the value the author wrote, through the parser, both mappers, class *)
(* Room and the serializer; coordinates as floats.                         *)
RelayedAsSent ==
  [][nextSeq' # nextSeq =>
       LET sent == input'.line.obj
           relayed == Wire(out'[1]).obj
       IN  sent.type # Str("leave_room") /\ Representable(sent) =>
             \A k \in RequestFields \cap DOMAIN sent \cap DOMAIN relayed :
               SameField(sent[k], relayed[k])]_wireVars

(* "color or thickness is out of range": a stroke is not begun with a      *)
(* colour or a thickness that is no byte.                                  *)
OutOfRangeRefused ==
  [][Len(strokes') > Len(strokes) =>
       LET sent == input'.line.obj
       IN  \A k \in {"color", "thickness"} :
             Is("int", sent[k]) => sent[k].int \in 0 .. ByteSize - 1]_wireVars

=============================================================================
