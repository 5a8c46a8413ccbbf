--------------------------- MODULE RoomWireProofs ---------------------------
(***************************************************************************)
(* Proofs about a room on the wire, in four parts: what a line says, and   *)
(* that only values of the room's types get through the parser and the     *)
(* mappers (WireTypeCorrect); the lines of events and snapshots field by   *)
(* field; that replaying lines on the JSON of a view is replaying events   *)
(* on the view, so that RoomProofs.tla, which shows what the events do to  *)
(* a view, applies (WireViewsCorrect); and that a field comes back as it   *)
(* was sent (RelayedCorrect).                                              *)
(***************************************************************************)
EXTENDS RoomWire, RoomProofs, FiniteSetTheorems, WellFoundedInduction, NaturalsInduction

-----------------------------------------------------------------------------
(* Conversions of numbers yield values of their types.                     *)
LEMMA RoundOk ==
  ASSUME NEW q \in Int
  PROVE  Round(q) \in Floats
<1> DEFINE r == 2 * ((q + 1) \div 2)
<1>1. (q + 1) \div 2 \in Int
  OBVIOUS
<1>2. r \in Int /\ r % 2 = 0
  BY <1>1
<1> HIDE DEF r
<1>3. r \in -FloatMax .. FloatMax => r \in Floats
  BY <1>2 DEF Floats
<1>4. Inf \in Floats
  BY DEF Floats
<1> QED
  BY <1>3, <1>4 DEF Round, r

(* What the parser keeps as an integer is one.                             *)
LEMMA JsonIntegers == JsonInt \subseteq Int
BY TransportAssumption DEF JsonInt

(* A JSON value becomes a float or nothing.                                *)
LEMMA ToFloatOk ==
  ASSUME NEW j, IsJson(j)
  PROVE  ToFloat(j) \subseteq Floats
<1>1. CASE Is("int", j)
  <2>1. j.int \in Int /\ ~Is("real", j)
    BY <1>1, JsonIntegers DEF IsJson, Is, Null, Str, Arr, Obj
  <2> DEFINE q == 4 * j.int
  <2>2. q \in Int
    BY <2>1
  <2>3. ToFloat(j) = {Round(q)}
    BY <1>1, <2>1 DEF ToFloat
  <2> HIDE DEF q
  <2> QED
    BY <2>2, <2>3, RoundOk
<1>2. CASE ~Is("int", j) /\ Is("real", j)
  <2>1. j.real \in Int
    BY <1>2 DEF IsJson, Is, Null, Str, Arr, Obj
  <2> QED
    BY <1>2, <2>1, RoundOk DEF ToFloat
<1>3. CASE ~Is("int", j) /\ ~Is("real", j)
  <2>1. ToFloat(j) = FromBool(j, 4)
    BY <1>3 DEF ToFloat
  <2>2. 4 \in Floats /\ 0 \in Floats
    BY TransportAssumption DEF Floats
  <2> QED
    BY <2>1, <2>2 DEF FromBool
<1> QED
  BY <1>1, <1>2, <1>3

(* An unsigned conversion yields naturals.                                 *)
LEMMA ToUnsignedOk ==
  ASSUME NEW j, IsJson(j), NEW size \in Nat \ {0}
  PROVE  ToUnsigned(j, size) \subseteq Nat
<1>1. CASE Is("int", j)
  <2>1. j.int \in Int /\ ~Is("real", j)
    BY <1>1, JsonIntegers DEF IsJson, Is, Null, Str, Arr, Obj
  <2>2. j.int % size \in Nat
    BY <2>1
  <2> QED
    BY <1>1, <2>2 DEF ToUnsigned
<1>2. CASE ~Is("int", j) /\ Is("real", j)
  <2>1. 0 .. size - 1 \subseteq Nat
    OBVIOUS
  <2> QED
    BY <1>2, <2>1 DEF ToUnsigned
<1>3. CASE ~Is("int", j) /\ ~Is("real", j)
  BY <1>3 DEF ToUnsigned
<1> QED
  BY <1>1, <1>2, <1>3

(* So does the one that also takes booleans.                               *)
LEMMA ToWordOk ==
  ASSUME NEW j, IsJson(j)
  PROVE  ToWord(j) \subseteq Nat
<1>1. WordSize \in Nat \ {0}
  BY TransportAssumption
<1>2. ToUnsigned(j, WordSize) \subseteq Nat
  BY <1>1, ToUnsignedOk
<1>3. FromBool(j, 1) \subseteq Nat
  BY DEF FromBool
<1> QED
  BY <1>2, <1>3 DEF ToWord

-----------------------------------------------------------------------------
(* Nonempty sets of numbers have a least element.                          *)
LEMMA LeastExists ==
  ASSUME NEW S, S \subseteq Nat, S # {}
  PROVE  Min(S) \in S /\ \A y \in S : Min(S) <= y
<1>1. PICK R : R = {ss \in Nat \X Nat : ss[1] < ss[2]}
  OBVIOUS
<1>2. IsWellFoundedOn(R, Nat)
  BY <1>1, NatLessThanWellFounded, Zenon DEF OpToRel
<1>3. PICK x \in S : \A y \in S : ~(<<y, x>> \in R)
  BY <1>2, WFMin
<1>4. ASSUME NEW y \in S PROVE x <= y
  <2>1. x \in Nat /\ y \in Nat
    OBVIOUS
  <2>2. y < x => <<y, x>> \in R
    BY <1>1, <2>1
  <2> QED
    BY <1>3, <2>1, <2>2
<1> QED
  BY <1>4 DEF Min

(* If the first error is none, no field failed.                            *)
LEMMA NoFirstError ==
  ASSUME NEW errors, DOMAIN errors \subseteq Nat, FirstError(errors) = "none"
  PROVE  \A i \in DOMAIN errors : errors[i] = "none"
<1> DEFINE failing == {i \in DOMAIN errors : errors[i] # "none"}
<1>1. CASE failing # {}
  <2>1. Min(failing) \in failing
    BY <1>1, LeastExists
  <2> QED
    BY <1>1, <2>1 DEF FirstError
<1> QED
  BY <1>1

-----------------------------------------------------------------------------
(* The parser: what a line says if it is not refused.                      *)
LEMMA Parsed ==
  ASSUME NEW line \in Lines, NEW msg \in ParseClientMessage(line), ~Failed(msg)
  PROVE  LET object == line.obj
             type == object.type.str
         IN  /\ \A k \in DOMAIN object : IsJson(object[k]) /\ object[k] # Str("create_room")
             /\ \A k \in DOMAIN object : Is("obj", object[k]) =>
                  \A l \in DOMAIN object[k].obj : IsJson(object[k].obj[l])
             /\ "type" \in DOMAIN object /\ object.type = Str(type)
             /\ \A i \in DOMAIN FieldErrors(type, object) :
                  FieldErrors(type, object)[i] = "none"
             /\ msg.value \in Messages(type, object)
<1> DEFINE object == line.obj
           type == object.type.str
<1>1. \A code : Failed(Error(code))
  BY DEF Failed, Error
<1>2. /\ line # NotJson /\ Is("obj", line) /\ "type" \in DOMAIN line.obj
      /\ Is("str", line.obj.type) /\ msg \in ParseObject(line.obj)
  BY <1>1 DEF ParseClientMessage
<1>3. /\ \A k \in DOMAIN object : IsJson(object[k]) /\ object[k] # Str("create_room")
      /\ \A k \in DOMAIN object : Is("obj", object[k]) =>
           \A l \in DOMAIN object[k].obj : IsJson(object[k].obj[l])
  BY <1>2, LinesAssumption
<1>4. "type" \in DOMAIN object /\ object.type = Str(type)
  BY <1>2, <1>3 DEF IsJson, Is, Null, Str, Arr, Obj
<1>5. FirstError(FieldErrors(type, object)) = "none"
  BY <1>1, <1>2 DEF ParseObject
<1>6. PICK m \in Messages(type, object) : msg = Narrow(m)
  BY <1>2, <1>5 DEF ParseObject
<1>7. msg.value = m
  BY <1>1, <1>6 DEF Narrow, Value
<1>8. DOMAIN FieldErrors(type, object) \subseteq Nat
  BY DEF FieldErrors
<1>9. \A i \in DOMAIN FieldErrors(type, object) : FieldErrors(type, object)[i] = "none"
  BY <1>5, <1>8, NoFirstError
<1> QED
  BY <1>3, <1>4, <1>6, <1>7, <1>9

(* A field that getRequired() accepts is there.                            *)
LEMMA RequiredPresent ==
  ASSUME NEW object, NEW key, NEW type, RequiredError(object, key, type) = "none"
  PROVE  key \in DOMAIN object
BY DEF RequiredError

(* So are both coordinates of a point that is accepted.                    *)
LEMMA PointPresent ==
  ASSUME NEW object, NEW key, PointError(object, key) = "none"
  PROVE  /\ key \in DOMAIN object /\ Is("obj", object[key])
         /\ "x" \in DOMAIN object[key].obj /\ "y" \in DOMAIN object[key].obj
<1>1. key \in DOMAIN object /\ Is("obj", object[key])
  BY DEF PointError
<1> DEFINE o == object[key].obj
           es == <<RequiredError(o, "x", "float"), RequiredError(o, "y", "float")>>
<1>2. FirstError(es) = "none"
  BY <1>1 DEF PointError
<1>3. DOMAIN es = {1, 2} /\ es[1] = RequiredError(o, "x", "float")
      /\ es[2] = RequiredError(o, "y", "float")
  OBVIOUS
<1> HIDE DEF es
<1>4. es[1] = "none" /\ es[2] = "none"
  BY <1>2, <1>3, NoFirstError
<1>5. "x" \in DOMAIN o /\ "y" \in DOMAIN o
  BY <1>3, <1>4, RequiredPresent
<1> QED
  BY <1>1, <1>5

(* The kinds of request, and what of a line becomes which field.           *)
Plain == {"join_room", "leave_room", "stroke_end", "clear"}

Pointed == {"stroke_point", "cursor_move"}

PlainMessages(type, object) ==
  [type : {type}, room : ToUnsigned(object.room, LongSize)]

WirePoint(j) == [x : ToFloat(j.obj.x), y : ToFloat(j.obj.y)]

PointMessages(type, object) ==
  [type : {type}, room : ToUnsigned(object.room, LongSize), point : WirePoint(object.point)]

BeginMessages(object) ==
  [type : {"stroke_begin"}, room : ToUnsigned(object.room, LongSize),
   color : ToWord(object.color), thickness : ToWord(object.thickness),
   start : WirePoint(object.start)]

HasPoint(object, key) ==
  /\ key \in DOMAIN object /\ Is("obj", object[key])
  /\ "x" \in DOMAIN object[key].obj /\ "y" \in DOMAIN object[key].obj
  /\ IsJson(object[key]) /\ IsJson(object[key].obj.x) /\ IsJson(object[key].obj.y)

Has(object, key) == key \in DOMAIN object /\ IsJson(object[key])

(* What a message m says, and of which line object it is made.             *)
Says(m, object) ==
  /\ Has(object, "type") /\ object.type = Str(m.type)
  /\ \/ m.type = "ping"
     \/ m.type \in Plain /\ Has(object, "room") /\ m \in PlainMessages(m.type, object)
     \/ /\ m.type \in Pointed /\ Has(object, "room") /\ HasPoint(object, "point")
        /\ m \in PointMessages(m.type, object)
     \/ /\ m.type = "stroke_begin" /\ Has(object, "room") /\ HasPoint(object, "start")
        /\ Has(object, "color") /\ Has(object, "thickness")
        /\ m \in BeginMessages(object)

(* A message that parseClientMessage() returns says what its line says.    *)
LEMMA Understood ==
  ASSUME NEW line \in Lines, NEW msg \in ParseClientMessage(line), ~Failed(msg)
  PROVE  Says(msg.value, line.obj)
<1> DEFINE object == line.obj
           type == object.type.str
           m == msg.value
<1>1. /\ \A k \in DOMAIN object : IsJson(object[k]) /\ object[k] # Str("create_room")
      /\ \A k \in DOMAIN object : Is("obj", object[k]) =>
           \A l \in DOMAIN object[k].obj : IsJson(object[k].obj[l])
      /\ "type" \in DOMAIN object /\ object.type = Str(type)
      /\ \A i \in DOMAIN FieldErrors(type, object) : FieldErrors(type, object)[i] = "none"
      /\ m \in Messages(type, object)
  BY Parsed
<1> HIDE DEF object, type, m
<1>2. \A key : PointError(object, key) = "none" => HasPoint(object, key)
  BY <1>1, PointPresent DEF HasPoint
<1>3. \A key, t : RequiredError(object, key, t) = "none" => Has(object, key)
  BY <1>1, RequiredPresent DEF Has
<1>4. \A j : /\ RoomIdOf(j) = ToUnsigned(j, LongSize) /\ ToPoint(j) = WirePoint(j)
             /\ Get("word", j) = ToWord(j)
  BY DEF RoomIdOf, ToPoint, WirePoint, Get
<1>5. Has(object, "type")
  BY <1>1 DEF Has
<1>6. CASE type \in {"ping", "create_room"}
  <2>1. type = "ping"
    BY <1>1, <1>6
  <2>2. m \in [type : {"ping"}]
    BY <1>1, <2>1 DEF Messages
  <2> QED
    BY <1>1, <1>5, <2>1, <2>2 DEF Says, object, m
<1>7. CASE type \in Plain
  <2>1. m \in PlainMessages(type, object)
    BY <1>1, <1>4, <1>7 DEF Messages, PlainMessages, Plain
  <2>2. FieldErrors(type, object) = <<RequiredError(object, "room", "long")>>
    BY <1>7 DEF FieldErrors, Plain
  <2>3. Has(object, "room")
    BY <1>1, <1>3, <2>2
  <2>4. m.type = type
    BY <2>1 DEF PlainMessages
  <2> QED
    BY <1>1, <1>5, <1>7, <2>1, <2>3, <2>4 DEF Says, object, m
<1>8. CASE type \in Pointed
  <2>1. m \in PointMessages(type, object)
    BY <1>1, <1>4, <1>8 DEF Messages, PointMessages, Pointed
  <2>2. FieldErrors(type, object)
          = <<RequiredError(object, "room", "long"), PointError(object, "point")>>
    BY <1>8 DEF FieldErrors, Pointed
  <2>3. Has(object, "room") /\ HasPoint(object, "point")
    BY <1>1, <1>2, <1>3, <2>2
  <2>4. m.type = type
    BY <2>1 DEF PointMessages
  <2> QED
    BY <1>1, <1>5, <1>8, <2>1, <2>3, <2>4 DEF Says, object, m
<1>9. CASE type = "stroke_begin"
  <2>1. m \in BeginMessages(object)
    BY <1>1, <1>4, <1>9 DEF Messages, BeginMessages
  <2>2. FieldErrors(type, object)
          = <<RequiredError(object, "room", "long"), RequiredError(object, "color", "word"),
              RequiredError(object, "thickness", "word"), PointError(object, "start")>>
    BY <1>9 DEF FieldErrors
  <2>3. /\ Has(object, "room") /\ HasPoint(object, "start")
        /\ Has(object, "color") /\ Has(object, "thickness")
    BY <1>1, <1>2, <1>3, <2>2
  <2>4. m.type = type
    BY <1>9, <2>1 DEF BeginMessages
  <2> QED
    BY <1>1, <1>5, <1>9, <2>1, <2>3, <2>4 DEF Says, object, m
<1>10. CASE /\ type \notin {"ping", "create_room"} /\ type \notin Plain
            /\ type \notin Pointed /\ type # "stroke_begin"
  <2>1. FieldErrors(type, object) = <<"UnknownMessageType">>
    BY <1>10 DEF FieldErrors, Plain, Pointed
  <2> QED
    BY <1>1, <2>1
<1> QED
  BY <1>6, <1>7, <1>8, <1>9, <1>10

-----------------------------------------------------------------------------
(* The mappers: an event that reaches the room has values of the room's    *)
(* types, whatever the line was.                                           *)
Style(m) == [color |-> m.color, thickness |-> m.thickness]

(* A point from a line is a point of the room.                             *)
LEMMA PointTyped ==
  ASSUME NEW object, NEW key, HasPoint(object, key), NEW p \in WirePoint(object[key])
  PROVE  p \in Points
<1>1. ToFloat(object[key].obj.x) \subseteq Floats /\ ToFloat(object[key].obj.y) \subseteq Floats
  BY ToFloatOk DEF HasPoint
<1> QED
  BY <1>1, WireAssumption DEF WirePoint

(* What a call on the room does for a message.                             *)
Applies(c, m) ==
  \/ /\ m.type = "stroke_begin" /\ m.start \in Points /\ Style(m) \in Styles
     /\ ApplyStrokeBegin(c, Style(m), m.start)
  \/ m.type = "stroke_point" /\ m.point \in Points /\ ApplyStrokePoint(c, m.point)
  \/ m.type = "stroke_end" /\ ApplyStrokeEnd(c)
  \/ m.type = "cursor_move" /\ m.point \in Points /\ ApplyCursorMove(c, m.point)
  \/ m.type = "clear" /\ ApplyClear(c)

(* An event is rejected or applied with what its message says.             *)
LEMMA EventCalls ==
  ASSUME NEW c, NEW m, NEW object, Says(m, object),
         m.type \notin {"ping", "join_room", "leave_room"}, HandleEvent(c, m)
  PROVE  \/ \E code : Rejects(code)
         \/ m.room = RoomNo /\ Applies(c, m) /\ Relay(out')
<1> DEFINE event == ToCoreEvent(m)
<1>1. m.room = RoomNo
  BY DEF HandleEvent
<1>2. CASE Failed(event)
  BY <1>2 DEF HandleEvent
<1>3. CASE ~Failed(event)
  <2>1. ApplyEvent(c, event.value) /\ Relay(out')
    BY <1>3 DEF HandleEvent
  <2>2. CASE m.type = "stroke_begin"
    <3>1. /\ HasPoint(object, "start") /\ Has(object, "color") /\ Has(object, "thickness")
          /\ m \in BeginMessages(object)
      BY <2>2 DEF Says, Plain, Pointed
    <3>2. m.start \in Points
      BY <3>1, PointTyped DEF BeginMessages
    <3>3. m.color \in Nat /\ m.thickness \in Nat
      BY <3>1, ToWordOk DEF BeginMessages, Has
    <3>4. ~Failed(ToColor(m.color)) /\ ~Failed(ToThickness(m.thickness))
      BY <1>3, <2>2 DEF ToCoreEvent
    <3>5. ToColor(m.color) = Value(m.color) /\ ToThickness(m.thickness) = Value(m.thickness)
          /\ m.color <= 3 /\ m.thickness <= 2
      BY <3>3, <3>4 DEF ToColor, ToThickness, Failed, Error
    <3>6. Style(m) \in Styles
      BY <3>3, <3>5, WireAssumption DEF Style, Colors, Thicknesses
    <3>7. event = Value([kind |-> "StrokeBegin", point |-> m.start, style |-> Style(m)])
      BY <2>2, <3>4, <3>5 DEF ToCoreEvent, Value, Style
    <3>8. ApplyStrokeBegin(c, Style(m), m.start)
      BY <2>1, <3>7 DEF ApplyEvent, Value
    <3> QED
      BY <1>1, <2>1, <2>2, <3>2, <3>6, <3>8 DEF Applies
  <2>3. CASE m.type \in Pointed
    <3>1. HasPoint(object, "point") /\ m \in PointMessages(m.type, object)
      BY <2>3 DEF Says, Plain, Pointed
    <3>2. m.point \in Points
      BY <3>1, PointTyped DEF PointMessages
    <3>3. CASE m.type = "stroke_point"
      <4>1. event = Value([kind |-> "StrokePoint", point |-> m.point])
        BY <3>3 DEF ToCoreEvent
      <4> QED
        BY <1>1, <2>1, <3>2, <3>3, <4>1 DEF ApplyEvent, Value, Applies
    <3>4. CASE m.type = "cursor_move"
      <4>1. event = Value([kind |-> "CursorMove", point |-> m.point])
        BY <3>4 DEF ToCoreEvent
      <4> QED
        BY <1>1, <2>1, <3>2, <3>4, <4>1 DEF ApplyEvent, Value, Applies
    <3> QED
      BY <2>3, <3>3, <3>4 DEF Pointed
  <2>4. CASE m.type = "stroke_end"
    <3>1. event = Value([kind |-> "StrokeEnd"])
      BY <2>4 DEF ToCoreEvent
    <3> QED
      BY <1>1, <2>1, <2>4, <3>1 DEF ApplyEvent, Value, Applies
  <2>5. CASE m.type = "clear"
    <3>1. event = Value([kind |-> "Clear"])
      BY <2>5 DEF ToCoreEvent
    <3> QED
      BY <1>1, <2>1, <2>5, <3>1 DEF ApplyEvent, Value, Applies
  <2>6. \/ m.type = "stroke_begin" \/ m.type \in Pointed
        \/ m.type = "stroke_end" \/ m.type = "clear"
    BY DEF Says, Plain
  <2> QED
    BY <2>2, <2>3, <2>4, <2>5, <2>6
<1> QED
  BY <1>2, <1>3

-----------------------------------------------------------------------------
(* What a step on the wire does: nothing to the room, or one of its calls. *)
Ignored == UNCHANGED <<state, heard>> /\ Return(<<>>)

(* A rejected line leaves the room and the views alone.                    *)
LEMMA RejectsIgnores == ASSUME NEW code, Rejects(code) PROVE Ignored
BY DEF Rejects, Ignored

Joined(c) ==
  /\ Join(c)
  /\ heard' = [heard EXCEPT ![c] =
       ShowSnapshot(c, SerializeServerMessage(ToSnapshotMessage(RoomNo, Snapshot')))]

(* A line is ignored, or it is a join, a leave or an event.                *)
LEMMA LineCalls ==
  ASSUME NEW c \in Clients, NEW line \in Lines, HandleLine(c, line)
  PROVE  \/ Ignored
         \/ Joined(c)
         \/ Leave(c) /\ Relay(out') /\ line.obj.type = Str("leave_room")
         \/ \E m : Says(m, line.obj) /\ m.room = RoomNo /\ Applies(c, m) /\ Relay(out')
<1>1. PICK msg \in ParseClientMessage(line) :
        \/ Failed(msg) /\ Rejects(ProtocolToCoreError(msg.error))
        \/ ~Failed(msg) /\ HandleMessage(c, msg.value)
  BY DEF HandleLine
<1>2. CASE Failed(msg)
  BY <1>1, <1>2, RejectsIgnores
<1>3. CASE ~Failed(msg)
  <2> DEFINE m == msg.value
  <2>1. Says(m, line.obj) /\ line.obj.type = Str(m.type) /\ HandleMessage(c, m)
    BY <1>1, <1>3, Understood DEF Says
  <2> HIDE DEF m
  <2>2. CASE HandlePing
    BY <2>2 DEF HandlePing, Ignored
  <2>3. CASE HandleJoinRoom(c, m)
    <3>1. CASE m.room # RoomNo
      BY <2>3, <3>1, RejectsIgnores DEF HandleJoinRoom
    <3>2. CASE m.room = RoomNo
      BY <2>3, <3>2 DEF HandleJoinRoom, Joined, Replies
    <3> QED
      BY <3>1, <3>2
  <2>4. CASE m.type = "leave_room" /\ HandleLeaveRoom(c, m)
    BY <2>1, <2>4 DEF HandleLeaveRoom
  <2>5. CASE m.type \notin {"ping", "join_room", "leave_room"} /\ HandleEvent(c, m)
    BY <2>1, <2>5, EventCalls, RejectsIgnores
  <2>6. CASE HandleElsewhere(c, m)
    BY <2>6, RejectsIgnores DEF HandleElsewhere
  <2> QED
    BY <2>1, <2>2, <2>3, <2>4, <2>5, <2>6 DEF HandleMessage
<1> QED
  BY <1>1, <1>2, <1>3

(* An applied message is a step of the room; nobody comes or goes.         *)
LEMMA AppliesCalls ==
  ASSUME NEW c \in Clients, NEW m, Applies(c, m)
  PROVE  Next /\ members' = members
<1>1. Apply(c)
  BY DEF Applies, Apply
<1>2. members' = members
  BY <1>1 DEF Apply, ApplyStrokeBegin, ApplyStrokePoint, ApplyStrokeEnd,
              ApplyCursorMove, ApplyClear, Refuse, state
<1> QED
  BY <1>1, <1>2 DEF Next, Call

(* The invariant of the room holds on the wire too: no line brings a value *)
(* on the board that is not one of its type.                               *)
LEMMA WireRoomInv == Inv /\ [WireNext]_wireVars => Inv'
<1> SUFFICES ASSUME Inv, [WireNext]_wireVars PROVE Inv'
  OBVIOUS
<1>1. ASSUME NEW c \in Clients, NEW line \in Lines, HandleLine(c, line) PROVE Inv'
  <2>1. CASE Ignored
    BY <2>1, QuietStep DEF Ignored, Return
  <2>2. CASE Joined(c) \/ Leave(c) \/ \E m : Applies(c, m)
    <3>1. Next
      BY <2>2, AppliesCalls DEF Joined, Next, Call
    <3> QED
      BY <3>1, NextInv
  <2> QED
    BY <1>1, <2>1, <2>2, LineCalls
<1>2. CASE Tick
  BY <1>2, TickInv
<1>3. CASE UNCHANGED wireVars
  BY <1>3, NextInv DEF wireVars
<1> QED
  BY <1>1, <1>2, <1>3 DEF WireNext

(* Whatever lines clients send, well formed or not, what the room holds    *)
(* has the types of the code: only colours, thicknesses and points that    *)
(* are values of their types come through the parser and the mappers.      *)
THEOREM WireTypeCorrect == WireSpec => []TypeOK
<1>1. WireInit => Inv
  BY InitInv DEF WireInit
<1>2. Inv => TypeOK
  BY DEF Inv
<1> QED
  BY <1>1, <1>2, WireRoomInv, PTL DEF WireSpec

-----------------------------------------------------------------------------
(* The serializer: every member of a message becomes one field.            *)
LEMMA Serialized ==
  ASSUME NEW m, "stroke_order" \notin DOMAIN m, "last_seq" \notin DOMAIN m
  PROVE  LET j == SerializeServerMessage(m)
         IN  /\ DOMAIN j.obj = {KeyOf(f) : f \in DOMAIN m}
             /\ \A f \in DOMAIN m : j.obj[KeyOf(f)] = FieldJson(f, m[f])
<1> DEFINE keys == {KeyOf(f) : f \in DOMAIN m}
           field(key) == CHOOSE f \in DOMAIN m : KeyOf(f) = key
           object == [key \in keys |-> FieldJson(field(key), m[field(key)])]
<1>1. \A f, g \in DOMAIN m : KeyOf(f) = KeyOf(g) => f = g
  BY DEF KeyOf
<1>2. SerializeServerMessage(m).obj = object
  BY DEF SerializeServerMessage, Obj
<1>3. ASSUME NEW f \in DOMAIN m PROVE object[KeyOf(f)] = FieldJson(f, m[f])
  <2>1. field(KeyOf(f)) = f
    BY <1>1
  <2>2. KeyOf(f) \in keys
    OBVIOUS
  <2> HIDE DEF field, keys
  <2> QED
    BY <2>1, <2>2
<1>4. DOMAIN object = keys
  OBVIOUS
<1> HIDE DEF object
<1> QED
  BY <1>2, <1>3, <1>4

(* The lines that events are relayed as.                                   *)
LEMMA BeginLine ==
  ASSUME NEW c, NEW n, NEW id, NEW order, NEW st, NEW p
  PROVE  LET j == Wire(Broadcast(c, n, StrokeBeginOut(c, id, order, st, p))).obj
         IN  /\ DOMAIN j = {"type", "room", "seq", "author", "id", "stroke_order",
                            "color", "thickness", "start"}
             /\ j.type = Str("stroke_begin") /\ j.room = Whole(RoomNo)
             /\ j.author = Whole(c) /\ j.id = Whole(id) /\ j.stroke_order = Whole(order)
             /\ j.color = Whole(st.color) /\ j.thickness = Whole(st.thickness)
             /\ j.start = MakePointJson(p)
<1> DEFINE e == Broadcast(c, n, StrokeBeginOut(c, id, order, st, p))
           m == [type |-> "stroke_begin", room |-> RoomNo, seq |-> n, author |-> c,
                 id |-> id, strokeOrder |-> order, color |-> st.color,
                 thickness |-> st.thickness, start |-> p]
           j == SerializeServerMessage(m).obj
<1>1. Wire(e) = SerializeServerMessage(m)
  BY DEF Wire, Broadcast, StrokeBeginOut, ToServerMessage, BeginMessage
<1>2. DOMAIN m = {"type", "room", "seq", "author", "id", "strokeOrder", "color",
                  "thickness", "start"}
  OBVIOUS
<1>3. /\ DOMAIN j = {KeyOf(f) : f \in DOMAIN m}
      /\ \A f \in DOMAIN m : j[KeyOf(f)] = FieldJson(f, m[f])
  <2> HIDE DEF m
  <2> QED
    BY <1>2, Serialized
<1>4. /\ KeyOf("type") = "type" /\ KeyOf("room") = "room" /\ KeyOf("seq") = "seq"
      /\ KeyOf("author") = "author" /\ KeyOf("id") = "id" /\ KeyOf("color") = "color"
      /\ KeyOf("strokeOrder") = "stroke_order" /\ KeyOf("thickness") = "thickness"
      /\ KeyOf("start") = "start"
  BY DEF KeyOf
<1>5. /\ FieldJson("type", m.type) = Str("stroke_begin")
      /\ FieldJson("room", m.room) = Whole(RoomNo)
      /\ FieldJson("author", m.author) = Whole(c)
      /\ FieldJson("id", m.id) = Whole(id)
      /\ FieldJson("strokeOrder", m.strokeOrder) = Whole(order)
      /\ FieldJson("color", m.color) = Whole(st.color)
      /\ FieldJson("thickness", m.thickness) = Whole(st.thickness)
      /\ FieldJson("start", m.start) = MakePointJson(p)
  BY DEF FieldJson
<1> HIDE DEF m, j
<1>6. DOMAIN j = {"type", "room", "seq", "author", "id", "stroke_order", "color",
                  "thickness", "start"}
  BY <1>2, <1>3, <1>4
<1>7. /\ j.type = Str("stroke_begin") /\ j.room = Whole(RoomNo)
      /\ j.author = Whole(c) /\ j.id = Whole(id) /\ j.stroke_order = Whole(order)
      /\ j.color = Whole(st.color) /\ j.thickness = Whole(st.thickness)
      /\ j.start = MakePointJson(p)
  BY <1>2, <1>3, <1>4, <1>5
<1> QED
  BY <1>1, <1>6, <1>7 DEF j

(* The line of a StrokePoint.                                              *)
LEMMA PointLine ==
  ASSUME NEW c, NEW n, NEW id, NEW p
  PROVE  LET j == Wire(Broadcast(c, n, StrokePointOut(c, id, p))).obj
         IN  /\ DOMAIN j = {"type", "room", "seq", "author", "id", "point"}
             /\ j.type = Str("stroke_point") /\ j.room = Whole(RoomNo)
             /\ j.author = Whole(c) /\ j.id = Whole(id) /\ j.point = MakePointJson(p)
<1> DEFINE e == Broadcast(c, n, StrokePointOut(c, id, p))
           m == [type |-> "stroke_point", room |-> RoomNo, seq |-> n, author |-> c,
                 id |-> id, point |-> p]
           j == SerializeServerMessage(m).obj
<1>1. Wire(e) = SerializeServerMessage(m)
  BY DEF Wire, Broadcast, StrokePointOut, ToServerMessage
<1>2. DOMAIN m = {"type", "room", "seq", "author", "id", "point"}
  OBVIOUS
<1>3. /\ DOMAIN j = {KeyOf(f) : f \in DOMAIN m}
      /\ \A f \in DOMAIN m : j[KeyOf(f)] = FieldJson(f, m[f])
  <2> HIDE DEF m
  <2> QED
    BY <1>2, Serialized
<1>4. \A f \in DOMAIN m : KeyOf(f) = f
  BY <1>2 DEF KeyOf
<1>5. /\ FieldJson("type", m.type) = Str("stroke_point")
      /\ FieldJson("room", m.room) = Whole(RoomNo)
      /\ FieldJson("author", m.author) = Whole(c)
      /\ FieldJson("id", m.id) = Whole(id)
      /\ FieldJson("point", m.point) = MakePointJson(p)
  BY DEF FieldJson
<1> HIDE DEF m, j
<1>6. DOMAIN j = {"type", "room", "seq", "author", "id", "point"}
  BY <1>2, <1>3, <1>4
<1>7. /\ j.type = Str("stroke_point") /\ j.room = Whole(RoomNo)
      /\ j.author = Whole(c) /\ j.id = Whole(id) /\ j.point = MakePointJson(p)
  BY <1>2, <1>3, <1>4, <1>5
<1> QED
  BY <1>1, <1>6, <1>7 DEF j

(* The line of a StrokeEnd.                                                *)
LEMMA EndLine ==
  ASSUME NEW c, NEW n, NEW id
  PROVE  LET j == Wire(Broadcast(c, n, StrokeEndOut(c, id))).obj
         IN  /\ DOMAIN j = {"type", "room", "seq", "author", "id"}
             /\ j.type = Str("stroke_end") /\ j.room = Whole(RoomNo)
             /\ j.author = Whole(c) /\ j.id = Whole(id)
<1> DEFINE e == Broadcast(c, n, StrokeEndOut(c, id))
           m == [type |-> "stroke_end", room |-> RoomNo, seq |-> n, author |-> c, id |-> id]
           j == SerializeServerMessage(m).obj
<1>1. Wire(e) = SerializeServerMessage(m)
  BY DEF Wire, Broadcast, StrokeEndOut, ToServerMessage
<1>2. DOMAIN m = {"type", "room", "seq", "author", "id"}
  OBVIOUS
<1>3. /\ DOMAIN j = {KeyOf(f) : f \in DOMAIN m}
      /\ \A f \in DOMAIN m : j[KeyOf(f)] = FieldJson(f, m[f])
  <2> HIDE DEF m
  <2> QED
    BY <1>2, Serialized
<1>4. \A f \in DOMAIN m : KeyOf(f) = f
  BY <1>2 DEF KeyOf
<1>5. /\ FieldJson("type", m.type) = Str("stroke_end")
      /\ FieldJson("room", m.room) = Whole(RoomNo)
      /\ FieldJson("author", m.author) = Whole(c)
      /\ FieldJson("id", m.id) = Whole(id)
  BY DEF FieldJson
<1> HIDE DEF m, j
<1>6. DOMAIN j = {"type", "room", "seq", "author", "id"}
  BY <1>2, <1>3, <1>4
<1>7. /\ j.type = Str("stroke_end") /\ j.room = Whole(RoomNo)
      /\ j.author = Whole(c) /\ j.id = Whole(id)
  BY <1>2, <1>3, <1>4, <1>5
<1> QED
  BY <1>1, <1>6, <1>7 DEF j

(* The line of a CursorMove.                                               *)
LEMMA CursorLine ==
  ASSUME NEW c, NEW n, NEW p
  PROVE  LET j == Wire(Broadcast(c, n, CursorMoveOut(c, p))).obj
         IN  /\ DOMAIN j = {"type", "room", "seq", "author", "point"}
             /\ j.type = Str("cursor_move") /\ j.room = Whole(RoomNo)
             /\ j.author = Whole(c) /\ j.point = MakePointJson(p)
<1> DEFINE e == Broadcast(c, n, CursorMoveOut(c, p))
           m == [type |-> "cursor_move", room |-> RoomNo, seq |-> n, author |-> c, point |-> p]
           j == SerializeServerMessage(m).obj
<1>1. Wire(e) = SerializeServerMessage(m)
  BY DEF Wire, Broadcast, CursorMoveOut, ToServerMessage
<1>2. DOMAIN m = {"type", "room", "seq", "author", "point"}
  OBVIOUS
<1>3. /\ DOMAIN j = {KeyOf(f) : f \in DOMAIN m}
      /\ \A f \in DOMAIN m : j[KeyOf(f)] = FieldJson(f, m[f])
  <2> HIDE DEF m
  <2> QED
    BY <1>2, Serialized
<1>4. \A f \in DOMAIN m : KeyOf(f) = f
  BY <1>2 DEF KeyOf
<1>5. /\ FieldJson("type", m.type) = Str("cursor_move")
      /\ FieldJson("room", m.room) = Whole(RoomNo)
      /\ FieldJson("author", m.author) = Whole(c)
      /\ FieldJson("point", m.point) = MakePointJson(p)
  BY DEF FieldJson
<1> HIDE DEF m, j
<1>6. DOMAIN j = {"type", "room", "seq", "author", "point"}
  BY <1>2, <1>3, <1>4
<1>7. /\ j.type = Str("cursor_move") /\ j.room = Whole(RoomNo)
      /\ j.author = Whole(c) /\ j.point = MakePointJson(p)
  BY <1>2, <1>3, <1>4, <1>5
<1> QED
  BY <1>1, <1>6, <1>7 DEF j

(* The line of a Clear.                                                    *)
LEMMA ClearLine ==
  ASSUME NEW c, NEW n
  PROVE  LET j == Wire(Broadcast(c, n, ClearOut(c))).obj
         IN  /\ DOMAIN j = {"type", "room", "seq", "author"}
             /\ j.type = Str("clear") /\ j.room = Whole(RoomNo)
             /\ j.author = Whole(c)
<1> DEFINE e == Broadcast(c, n, ClearOut(c))
           m == [type |-> "clear", room |-> RoomNo, seq |-> n, author |-> c]
           j == SerializeServerMessage(m).obj
<1>1. Wire(e) = SerializeServerMessage(m)
  BY DEF Wire, Broadcast, ClearOut, ToServerMessage
<1>2. DOMAIN m = {"type", "room", "seq", "author"}
  OBVIOUS
<1>3. /\ DOMAIN j = {KeyOf(f) : f \in DOMAIN m}
      /\ \A f \in DOMAIN m : j[KeyOf(f)] = FieldJson(f, m[f])
  <2> HIDE DEF m
  <2> QED
    BY <1>2, Serialized
<1>4. \A f \in DOMAIN m : KeyOf(f) = f
  BY <1>2 DEF KeyOf
<1>5. /\ FieldJson("type", m.type) = Str("clear")
      /\ FieldJson("room", m.room) = Whole(RoomNo)
      /\ FieldJson("author", m.author) = Whole(c)
  BY DEF FieldJson
<1> HIDE DEF m, j
<1>6. DOMAIN j = {"type", "room", "seq", "author"}
  BY <1>2, <1>3, <1>4
<1>7. /\ j.type = Str("clear") /\ j.room = Whole(RoomNo)
      /\ j.author = Whole(c)
  BY <1>2, <1>3, <1>4, <1>5
<1> QED
  BY <1>1, <1>6, <1>7 DEF j

(* The line of a MemberLeft.                                               *)
LEMMA LeftLine ==
  ASSUME NEW c, NEW n
  PROVE  LET j == Wire(Broadcast(c, n, MemberLeftOut(c))).obj
         IN  /\ DOMAIN j = {"type", "room", "seq", "client"}
             /\ j.type = Str("member_left") /\ j.room = Whole(RoomNo)
             /\ j.client = Whole(c)
<1> DEFINE e == Broadcast(c, n, MemberLeftOut(c))
           m == [type |-> "member_left", room |-> RoomNo, seq |-> n, client |-> c]
           j == SerializeServerMessage(m).obj
<1>1. Wire(e) = SerializeServerMessage(m)
  BY DEF Wire, Broadcast, MemberLeftOut, ToServerMessage
<1>2. DOMAIN m = {"type", "room", "seq", "client"}
  OBVIOUS
<1>3. /\ DOMAIN j = {KeyOf(f) : f \in DOMAIN m}
      /\ \A f \in DOMAIN m : j[KeyOf(f)] = FieldJson(f, m[f])
  <2> HIDE DEF m
  <2> QED
    BY <1>2, Serialized
<1>4. \A f \in DOMAIN m : KeyOf(f) = f
  BY <1>2 DEF KeyOf
<1>5. /\ FieldJson("type", m.type) = Str("member_left")
      /\ FieldJson("room", m.room) = Whole(RoomNo)
      /\ FieldJson("client", m.client) = Whole(c)
  BY DEF FieldJson
<1> HIDE DEF m, j
<1>6. DOMAIN j = {"type", "room", "seq", "client"}
  BY <1>2, <1>3, <1>4
<1>7. /\ j.type = Str("member_left") /\ j.room = Whole(RoomNo)
      /\ j.client = Whole(c)
  BY <1>2, <1>3, <1>4, <1>5
<1> QED
  BY <1>1, <1>6, <1>7 DEF j

-----------------------------------------------------------------------------
(* The JSON of a view: what RoomClients has a client see, as it is on the  *)
(* wire.  Replay and what is sent for it go together: replaying the JSON   *)
(* of an event on the JSON of a view is the JSON of the view after it.     *)
StrokeJson(s) == MakeStrokeJson(FromCoreStroke(s))

Wholes(S) == {Whole(x) : x \in S}

StrokesJson(m) ==
  [k \in Wholes(DOMAIN m) |-> StrokeJson(m[k.int])]

CursorsJson(n) ==
  [k \in Wholes(DOMAIN n) |-> MakePointJson(n[k.int])]

JsonView(v) ==
  [strokes |-> StrokesJson(v.strokes), cursors |-> CursorsJson(v.cursors)]

(* Different numbers have different JSON.                                  *)
LEMMA WholeOnce ==
  /\ \A a : Whole(a).int = a
  /\ \A a, b : Whole(a) = Whole(b) => a = b
BY DEF Whole

(* A set of numbers as JSON has the JSON of its elements.                  *)
LEMMA WholesOk ==
  ASSUME NEW S
  PROVE  /\ \A x : Whole(x) \in Wholes(S) <=> x \in S
         /\ \A j \in Wholes(S) : \E x \in S : j = Whole(x)
BY WholeOnce DEF Wholes

(* An element comes or goes in JSON as it does in the set.                 *)
LEMMA WholesChange ==
  ASSUME NEW S, NEW x
  PROVE  /\ Wholes(S \cup {x}) = Wholes(S) \cup {Whole(x)}
         /\ Wholes(S \ {x}) = Wholes(S) \ {Whole(x)}
<1>1. Wholes(S \cup {x}) = Wholes(S) \cup {Whole(x)}
  <2> HIDE DEF Wholes
  <2> QED
    BY WholesOk
<1>2. Wholes(S \ {x}) = Wholes(S) \ {Whole(x)}
  BY WholesOk, WholeOnce
<1> QED
  BY <1>1, <1>2

(* Strokes as JSON, by their ids as JSON.                                  *)
LEMMA StrokesJsonValues ==
  ASSUME NEW m
  PROVE  /\ DOMAIN StrokesJson(m) = Wholes(DOMAIN m)
         /\ \A id \in DOMAIN m : StrokesJson(m)[Whole(id)] = StrokeJson(m[id])
         /\ \A id : Whole(id) \in DOMAIN StrokesJson(m) <=> id \in DOMAIN m
BY WholesOk, WholeOnce DEF StrokesJson

(* Cursors as JSON, by their clients as JSON.                              *)
LEMMA CursorsJsonValues ==
  ASSUME NEW n
  PROVE  /\ DOMAIN CursorsJson(n) = Wholes(DOMAIN n)
         /\ \A c \in DOMAIN n : CursorsJson(n)[Whole(c)] = MakePointJson(n[c])
         /\ \A c : Whole(c) \in DOMAIN CursorsJson(n) <=> c \in DOMAIN n
BY WholesOk, WholeOnce DEF CursorsJson

(* A function on the numbers of m that has their JSON is the JSON of m.    *)
LEMMA StrokesJsonIs ==
  ASSUME NEW f, NEW m, f = [x \in DOMAIN f |-> f[x]],
         DOMAIN f = Wholes(DOMAIN m),
         \A id \in DOMAIN m : f[Whole(id)] = StrokeJson(m[id])
  PROVE  f = StrokesJson(m)
<1>1. StrokesJson(m) = [x \in DOMAIN StrokesJson(m) |-> StrokesJson(m)[x]]
  BY DEF StrokesJson
<1>2. ASSUME NEW x \in DOMAIN f PROVE f[x] = StrokesJson(m)[x]
  <2>1. PICK k \in DOMAIN m : x = Whole(k)
    BY WholesOk
  <2> QED
    BY <2>1, StrokesJsonValues
<1> QED
  BY <1>1, <1>2, StrokesJsonValues

(* The same for cursors.                                                   *)
LEMMA CursorsJsonIs ==
  ASSUME NEW f, NEW n, f = [x \in DOMAIN f |-> f[x]],
         DOMAIN f = Wholes(DOMAIN n),
         \A c \in DOMAIN n : f[Whole(c)] = MakePointJson(n[c])
  PROVE  f = CursorsJson(n)
<1>1. CursorsJson(n) = [x \in DOMAIN CursorsJson(n) |-> CursorsJson(n)[x]]
  BY DEF CursorsJson
<1>2. ASSUME NEW x \in DOMAIN f PROVE f[x] = CursorsJson(n)[x]
  <2>1. PICK k \in DOMAIN n : x = Whole(k)
    BY WholesOk
  <2> QED
    BY <2>1, CursorsJsonValues
<1> QED
  BY <1>1, <1>2, CursorsJsonValues

(* Adding a stroke commutes with the conversion to JSON, ...               *)
LEMMA PutStroke ==
  ASSUME NEW m, NEW id, NEW s
  PROVE  Put(StrokesJson(m), Whole(id), StrokeJson(s)) = StrokesJson(Put(m, id, s))
<1> DEFINE f == Put(StrokesJson(m), Whole(id), StrokeJson(s))
           t == Put(m, id, s)
<1>1. /\ DOMAIN t = DOMAIN m \cup {id} /\ t[id] = s
      /\ \A x \in DOMAIN m : x # id => t[x] = m[x]
  BY DEF Put
<1>2. /\ DOMAIN f = DOMAIN StrokesJson(m) \cup {Whole(id)} /\ f[Whole(id)] = StrokeJson(s)
      /\ \A x \in DOMAIN StrokesJson(m) : x # Whole(id) => f[x] = StrokesJson(m)[x]
      /\ f = [x \in DOMAIN f |-> f[x]]
  BY DEF Put
<1> HIDE DEF f, t
<1>3. DOMAIN f = Wholes(DOMAIN t)
  <2>1. Wholes(DOMAIN m \cup {id}) = Wholes(DOMAIN m) \cup {Whole(id)}
    BY WholesChange
  <2> QED
    BY <1>1, <1>2, <2>1, StrokesJsonValues
<1>4. \A x \in DOMAIN t : f[Whole(x)] = StrokeJson(t[x])
  BY <1>1, <1>2, StrokesJsonValues, WholeOnce
<1>5. f = StrokesJson(t)
  BY <1>2, <1>3, <1>4, StrokesJsonIs
<1> QED
  BY <1>5 DEF f, t

(* ... as does moving a cursor ...                                         *)
LEMMA PutCursor ==
  ASSUME NEW n, NEW c, NEW p
  PROVE  Put(CursorsJson(n), Whole(c), MakePointJson(p)) = CursorsJson(Put(n, c, p))
<1> DEFINE f == Put(CursorsJson(n), Whole(c), MakePointJson(p))
           t == Put(n, c, p)
<1>1. /\ DOMAIN t = DOMAIN n \cup {c} /\ t[c] = p
      /\ \A x \in DOMAIN n : x # c => t[x] = n[x]
  BY DEF Put
<1>2. /\ DOMAIN f = DOMAIN CursorsJson(n) \cup {Whole(c)} /\ f[Whole(c)] = MakePointJson(p)
      /\ \A x \in DOMAIN CursorsJson(n) : x # Whole(c) => f[x] = CursorsJson(n)[x]
      /\ f = [x \in DOMAIN f |-> f[x]]
  BY DEF Put
<1> HIDE DEF f, t
<1>3. DOMAIN f = Wholes(DOMAIN t)
  <2>1. Wholes(DOMAIN n \cup {c}) = Wholes(DOMAIN n) \cup {Whole(c)}
    BY WholesChange
  <2> QED
    BY <1>1, <1>2, <2>1, CursorsJsonValues
<1>4. \A x \in DOMAIN t : f[Whole(x)] = MakePointJson(t[x])
  BY <1>1, <1>2, CursorsJsonValues, WholeOnce
<1>5. f = CursorsJson(t)
  BY <1>2, <1>3, <1>4, CursorsJsonIs
<1> QED
  BY <1>5 DEF f, t

(* ... and removing one.                                                   *)
LEMMA EraseCursor ==
  ASSUME NEW n, NEW c
  PROVE  Erase(CursorsJson(n), Whole(c)) = CursorsJson(Erase(n, c))
<1> DEFINE f == Erase(CursorsJson(n), Whole(c))
           t == Erase(n, c)
<1>1. DOMAIN t = DOMAIN n \ {c} /\ \A x \in DOMAIN t : t[x] = n[x]
  BY DEF Erase, Restrict
<1>2. /\ DOMAIN f = DOMAIN CursorsJson(n) \ {Whole(c)}
      /\ \A x \in DOMAIN f : f[x] = CursorsJson(n)[x]
      /\ f = [x \in DOMAIN f |-> f[x]]
  BY DEF Erase, Restrict
<1> HIDE DEF f, t
<1>3. DOMAIN f = Wholes(DOMAIN t)
  <2>1. Wholes(DOMAIN n \ {c}) = Wholes(DOMAIN n) \ {Whole(c)}
    BY WholesChange
  <2> QED
    BY <1>1, <1>2, <2>1, CursorsJsonValues
<1>4. \A x \in DOMAIN t : f[Whole(x)] = MakePointJson(t[x])
  BY <1>1, <1>2, <1>3, CursorsJsonValues
<1>5. f = CursorsJson(t)
  BY <1>2, <1>3, <1>4, CursorsJsonIs
<1> QED
  BY <1>5 DEF f, t

(* No strokes are no strokes in JSON.                                      *)
LEMMA NoStrokesJson == StrokesJson(EmptyMap) = EmptyMap
BY WholesOk DEF StrokesJson, EmptyMap

(* A stroke in the JSON changes as it does in the view.                    *)
LEMMA ChangeStroke ==
  ASSUME NEW m, NEW id, NEW s, NEW J, id \in DOMAIN m => J = StrokeJson(s)
  PROVE  [StrokesJson(m) EXCEPT ![Whole(id)] = J] = StrokesJson([m EXCEPT ![id] = s])
<1> DEFINE f == [StrokesJson(m) EXCEPT ![Whole(id)] = J]
           t == [m EXCEPT ![id] = s]
<1>1. /\ DOMAIN t = DOMAIN m
      /\ id \in DOMAIN m => t[id] = s
      /\ \A x \in DOMAIN m : x # id => t[x] = m[x]
  OBVIOUS
<1>2. /\ DOMAIN f = DOMAIN StrokesJson(m)
      /\ Whole(id) \in DOMAIN StrokesJson(m) => f[Whole(id)] = J
      /\ \A x \in DOMAIN StrokesJson(m) : x # Whole(id) => f[x] = StrokesJson(m)[x]
      /\ f = [x \in DOMAIN f |-> f[x]]
  OBVIOUS
<1> HIDE DEF f, t
<1>3. DOMAIN f = Wholes(DOMAIN t)
  BY <1>1, <1>2, StrokesJsonValues
<1>4. ASSUME NEW x \in DOMAIN t PROVE f[Whole(x)] = StrokeJson(t[x])
  <2>1. Whole(x) \in DOMAIN StrokesJson(m) /\ StrokesJson(m)[Whole(x)] = StrokeJson(m[x])
    BY <1>1, StrokesJsonValues
  <2>2. CASE x = id
    BY <1>1, <1>2, <2>1, <2>2
  <2>3. CASE x # id
    BY <1>1, <1>2, <2>1, <2>3, WholeOnce
  <2> QED
    BY <2>2, <2>3
<1>5. f = StrokesJson(t)
  BY <1>2, <1>3, <1>4, StrokesJsonIs
<1> QED
  BY <1>5 DEF f, t

(* A stroke of the given fields, and what changes two of them.             *)
StrokeObject(id, c, color, thickness, order, points, finished) ==
  Obj([id |-> id, author |-> c, color |-> color, thickness |-> thickness,
       stroke_order |-> order, points |-> Arr(points), finished |-> finished])

(* The fields of a stroke in a snapshot.                                   *)
LEMMA StrokeJsonFields ==
  ASSUME NEW s
  PROVE  StrokeJson(s) =
           StrokeObject(Whole(s.id), Whole(s.author), Whole(s.style.color),
                        Whole(s.style.thickness), Whole(s.strokeOrder),
                        [i \in DOMAIN s.points |-> MakePointJson(s.points[i])],
                        Bool(s.finished))
BY DEF StrokeJson, MakeStrokeJson, FromCoreStroke, StrokeObject

FinishObject(J, x) == [J EXCEPT !.obj.finished = x]

ExtendObject(J, x) == [J EXCEPT !.obj.points.arr = Append(@, x)]

(* Finishing a stroke changes its last field only.                         *)
LEMMA FinishesObject ==
  ASSUME NEW a, NEW b, NEW c, NEW d, NEW e, NEW f, NEW g, NEW x
  PROVE  FinishObject(StrokeObject(a, b, c, d, e, f, g), x) = StrokeObject(a, b, c, d, e, f, x)
<1> DEFINE J == StrokeObject(a, b, c, d, e, f, g)
           fields == [id |-> a, author |-> b, color |-> c, thickness |-> d,
                      stroke_order |-> e, points |-> Arr(f), finished |-> g]
<1>1. J = [obj |-> fields] /\ J.obj = fields
  BY DEF StrokeObject, Obj
<1>2. FinishObject(J, x) = [obj |-> [fields EXCEPT !.finished = x]]
  BY <1>1 DEF FinishObject
<1>3. [obj |-> [fields EXCEPT !.finished = x]] = StrokeObject(a, b, c, d, e, f, x)
  BY DEF StrokeObject, Obj
<1> QED
  BY <1>2, <1>3

(* Extending a stroke changes its points only.                             *)
LEMMA ExtendsObject ==
  ASSUME NEW a, NEW b, NEW c, NEW d, NEW e, NEW f, NEW g, NEW x
  PROVE  ExtendObject(StrokeObject(a, b, c, d, e, f, g), x)
           = StrokeObject(a, b, c, d, e, Append(f, x), g)
<1> DEFINE J == StrokeObject(a, b, c, d, e, f, g)
           fields == [id |-> a, author |-> b, color |-> c, thickness |-> d,
                      stroke_order |-> e, points |-> Arr(f), finished |-> g]
<1>1. J = [obj |-> fields] /\ J.obj = fields
  BY DEF StrokeObject, Obj
<1>2. ExtendObject(J, x)
        = [obj |-> [fields EXCEPT !.points = [Arr(f) EXCEPT !.arr = Append(f, x)]]]
  <2>1. ExtendObject(J, x)
          = [J EXCEPT !.obj = [J.obj EXCEPT !.points =
               [J.obj.points EXCEPT !.arr = Append(J.obj.points.arr, x)]]]
    <3> HIDE DEF J, fields
    <3> QED
      BY DEF ExtendObject
  <2>2. J.obj.points = Arr(f) /\ J.obj.points.arr = f
    BY <1>1 DEF Arr
  <2>3. \A y : [J EXCEPT !.obj = y] = [obj |-> y]
    BY <1>1
  <2> HIDE DEF J, fields
  <2> QED
    BY <1>1, <2>1, <2>2, <2>3
<1>3. [Arr(f) EXCEPT !.arr = Append(f, x)] = Arr(Append(f, x))
  BY DEF Arr
<1>4. \A y : [obj |-> [fields EXCEPT !.points = y]]
               = Obj([id |-> a, author |-> b, color |-> c, thickness |-> d,
                      stroke_order |-> e, points |-> y, finished |-> g])
  BY DEF Obj
<1> QED
  BY <1>2, <1>3, <1>4 DEF StrokeObject

(* Finishing a stroke commutes with the conversion to JSON, ...            *)
LEMMA FinishJson ==
  ASSUME NEW s \in Stroke
  PROVE  FinishObject(StrokeJson(s), Bool(TRUE)) = StrokeJson([s EXCEPT !.finished = TRUE])
<1> DEFINE t == [s EXCEPT !.finished = TRUE]
           pts == [i \in DOMAIN s.points |-> MakePointJson(s.points[i])]
<1>1. /\ t.id = s.id /\ t.author = s.author /\ t.style = s.style
      /\ t.strokeOrder = s.strokeOrder /\ t.points = s.points /\ t.finished = TRUE
  BY DEF Stroke
<1>2. PICK open, done : open = Bool(s.finished) /\ done = Bool(TRUE)
  OBVIOUS
<1>3. /\ StrokeJson(s) = StrokeObject(Whole(s.id), Whole(s.author), Whole(s.style.color),
                                       Whole(s.style.thickness), Whole(s.strokeOrder), pts, open)
      /\ StrokeJson(t) = StrokeObject(Whole(s.id), Whole(s.author), Whole(s.style.color),
                                       Whole(s.style.thickness), Whole(s.strokeOrder), pts, done)
  <2> HIDE DEF t
  <2> QED
    BY <1>1, <1>2, StrokeJsonFields
<1> HIDE DEF t, pts
<1>4. FinishObject(StrokeJson(s), done) = StrokeJson(t)
  BY <1>3, FinishesObject
<1> QED
  BY <1>2, <1>4 DEF t

(* ... and so does extending it.                                           *)
LEMMA ExtendJson ==
  ASSUME NEW s \in Stroke, NEW p \in Points
  PROVE  ExtendObject(StrokeJson(s), MakePointJson(p))
           = StrokeJson([s EXCEPT !.points = Append(s.points, p)])
<1> DEFINE t == [s EXCEPT !.points = Append(s.points, p)]
           a == [i \in DOMAIN s.points |-> MakePointJson(s.points[i])]
           b == [i \in DOMAIN t.points |-> MakePointJson(t.points[i])]
<1>1. /\ t.id = s.id /\ t.author = s.author /\ t.style = s.style
      /\ t.strokeOrder = s.strokeOrder /\ t.points = Append(s.points, p)
      /\ t.finished = s.finished /\ s.points \in Seq(Points)
  BY DEF Stroke
<1> HIDE DEF t
<1>2. b = Append(a, MakePointJson(p))
  <2> DEFINE k == Len(s.points)
             S == {MakePointJson(q) : q \in Points}
  <2>1. DOMAIN s.points = 1 .. k /\ k \in Nat /\ \A i \in 1 .. k : s.points[i] \in Points
    BY <1>1
  <2>2. /\ DOMAIN Append(s.points, p) = 1 .. k + 1
        /\ Append(s.points, p)[k + 1] = p
        /\ \A i \in 1 .. k : Append(s.points, p)[i] = s.points[i]
    BY <1>1
  <2> HIDE DEF k
  <2>3. a \in [1 .. k -> S]
    BY <2>1
  <2>4. a \in Seq(S) /\ Len(a) = k
    BY <2>1, <2>3
  <2>5. \A i \in 1 .. k : a[i] = MakePointJson(s.points[i])
    BY <2>1
  <2>6. MakePointJson(p) \in S
    OBVIOUS
  <2>7. b = [i \in 1 .. k + 1 |-> MakePointJson(Append(s.points, p)[i])]
    BY <1>1, <2>2
  <2>8. b \in [1 .. k + 1 -> S]
    BY <2>1, <2>2, <2>7
  <2>9. b \in Seq(S) /\ Len(b) = k + 1
    <3> HIDE DEF b, S
    <3> QED
      BY <2>1, <2>8
  <2> DEFINE ap == Append(a, MakePointJson(p))
  <2> HIDE DEF a, b, S
  <2>10. /\ ap \in Seq(S) /\ Len(ap) = k + 1 /\ ap[k + 1] = MakePointJson(p)
         /\ \A i \in 1 .. k : ap[i] = a[i]
    BY <2>4, <2>6, AppendProperties
  <2>11. \A i \in 1 .. k + 1 : ap[i] = b[i]
    BY <2>1, <2>2, <2>5, <2>7, <2>10
  <2> HIDE DEF ap
  <2>12. ap = b
    BY <2>9, <2>10, <2>11, SeqEqual
  <2> QED
    BY <2>12 DEF ap
<1>3. /\ StrokeJson(t) = StrokeObject(Whole(s.id), Whole(s.author), Whole(s.style.color),
                                       Whole(s.style.thickness), Whole(s.strokeOrder), b,
                                       Bool(s.finished))
      /\ StrokeJson(s) = StrokeObject(Whole(s.id), Whole(s.author), Whole(s.style.color),
                                       Whole(s.style.thickness), Whole(s.strokeOrder), a,
                                       Bool(s.finished))
  BY <1>1, StrokeJsonFields
<1> HIDE DEF a, b
<1>4. ExtendObject(StrokeJson(s), MakePointJson(p)) = StrokeJson(t)
  BY <1>2, <1>3, ExtendsObject
<1> QED
  BY <1>4 DEF t

(* The JSON of a view is that of its two parts.                            *)
LEMMA JsonViewOf ==
  ASSUME NEW m, NEW n
  PROVE  JsonView(ViewOf(m, n)) = ViewOf(StrokesJson(m), CursorsJson(n))
BY DEF JsonView, ViewOf

(* The two fields of a view, read and changed.                             *)
LEMMA ViewFields ==
  ASSUME NEW a, NEW b
  PROVE  LET v == ViewOf(a, b)
         IN  /\ v.strokes = a /\ v.cursors = b
             /\ \A x : [v EXCEPT !.strokes = x] = ViewOf(x, b)
             /\ \A x : [v EXCEPT !.cursors = x] = ViewOf(a, x)
BY DEF ViewOf

(* What a client makes of the line of a StrokeBegin, ...                   *)
LEMMA ReplayBeginLine ==
  ASSUME NEW a, NEW b, NEW j, j.obj.type = Str("stroke_begin")
  PROVE  ReplayJson(ViewOf(a, b), j) =
           ViewOf(Put(a, j.obj.id,
                      StrokeObject(j.obj.id, j.obj.author, j.obj.color, j.obj.thickness,
                                   j.obj.stroke_order, <<j.obj.start>>, Bool(FALSE))), b)
<1> DEFINE v == ViewOf(a, b)
<1>1. j.obj.type.str = "stroke_begin"
  BY DEF Str
<1>2. v.strokes = a /\ \A x : [v EXCEPT !.strokes = x] = ViewOf(x, b)
  BY ViewFields
<1> HIDE DEF v
<1>3. ReplayJson(v, j) =
        ViewOf(Put(a, j.obj.id,
                   StrokeObject(j.obj.id, j.obj.author, j.obj.color, j.obj.thickness,
                                j.obj.stroke_order, <<j.obj.start>>, Bool(FALSE))), b)
  BY <1>1, <1>2 DEF ReplayJson, StrokeObject
<1> QED
  BY <1>3 DEF v

(* ... of a StrokePoint, ...                                               *)
LEMMA ReplayPointLine ==
  ASSUME NEW a, NEW b, NEW j, j.obj.type = Str("stroke_point")
  PROVE  ReplayJson(ViewOf(a, b), j) =
           ViewOf([a EXCEPT ![j.obj.id] = ExtendObject(a[j.obj.id], j.obj.point)], b)
<1> DEFINE v == ViewOf(a, b)
           e == j.obj
<1>1. e.type.str = "stroke_point"
  BY DEF Str
<1>2. v.strokes = a /\ \A x : [v EXCEPT !.strokes = x] = ViewOf(x, b)
  BY ViewFields
<1> HIDE DEF v
<1>3. ReplayJson(v, j) = [v EXCEPT !.strokes[e.id].obj.points.arr = Append(@, e.point)]
  BY <1>1 DEF ReplayJson
<1>4. [v EXCEPT !.strokes[e.id].obj.points.arr = Append(@, e.point)]
        = [v EXCEPT !.strokes =
             [v.strokes EXCEPT ![e.id] = ExtendObject(v.strokes[e.id], e.point)]]
  BY DEF ExtendObject
<1> QED
  BY <1>2, <1>3, <1>4 DEF v

(* ... of a StrokeEnd, ...                                                 *)
LEMMA ReplayEndLine ==
  ASSUME NEW a, NEW b, NEW j, j.obj.type = Str("stroke_end")
  PROVE  ReplayJson(ViewOf(a, b), j) =
           ViewOf([a EXCEPT ![j.obj.id] = FinishObject(a[j.obj.id], Bool(TRUE))], b)
<1> DEFINE v == ViewOf(a, b)
           e == j.obj
<1>1. e.type.str = "stroke_end"
  BY DEF Str
<1>2. v.strokes = a /\ \A x : [v EXCEPT !.strokes = x] = ViewOf(x, b)
  BY ViewFields
<1> HIDE DEF v
<1>3. ReplayJson(v, j) = [v EXCEPT !.strokes[e.id].obj.finished = Bool(TRUE)]
  BY <1>1 DEF ReplayJson
<1>4. [v EXCEPT !.strokes[e.id].obj.finished = Bool(TRUE)]
        = [v EXCEPT !.strokes =
             [v.strokes EXCEPT ![e.id] = FinishObject(v.strokes[e.id], Bool(TRUE))]]
  BY DEF FinishObject
<1> QED
  BY <1>2, <1>3, <1>4 DEF v

(* ... of a CursorMove, ...                                                *)
LEMMA ReplayCursorLine ==
  ASSUME NEW a, NEW b, NEW j, j.obj.type = Str("cursor_move")
  PROVE  ReplayJson(ViewOf(a, b), j) =
           ViewOf(a, Put(b, j.obj.author, j.obj.point))
<1>1. j.obj.type.str = "cursor_move"
  BY DEF Str
<1> QED
  BY <1>1, ViewFields DEF ReplayJson

(* ... of a Clear ...                                                      *)
LEMMA ReplayClearLine ==
  ASSUME NEW a, NEW b, NEW j, j.obj.type = Str("clear")
  PROVE  ReplayJson(ViewOf(a, b), j) =
           ViewOf(EmptyMap, b)
<1>1. j.obj.type.str = "clear"
  BY DEF Str
<1> QED
  BY <1>1, ViewFields DEF ReplayJson

(* ... and of a MemberLeft.                                                *)
LEMMA ReplayLeftLine ==
  ASSUME NEW a, NEW b, NEW j, j.obj.type = Str("member_left")
  PROVE  ReplayJson(ViewOf(a, b), j) =
           ViewOf(a, Erase(b, j.obj.client))
<1>1. j.obj.type.str = "member_left"
  BY DEF Str
<1> QED
  BY <1>1, ViewFields DEF ReplayJson

(* Replaying a line on the JSON of a view gives the JSON of the event      *)
(* replayed on the view: for StrokeBegin, ...                              *)
LEMMA JsonBegin ==
  ASSUME NEW m, NEW n, NEW c, NEW k, NEW id, NEW order, NEW st, NEW p
  PROVE  LET pl == StrokeBeginOut(c, id, order, st, p)
         IN  ReplayJson(JsonView(ViewOf(m, n)), Wire(Broadcast(c, k, pl)))
               = JsonView(Replay(ViewOf(m, n), pl))
<1> DEFINE pl == StrokeBeginOut(c, id, order, st, p)
           j == Wire(Broadcast(c, k, pl))
           new == [id |-> id, author |-> c, style |-> st, strokeOrder |-> order,
                   points |-> <<p>>, finished |-> FALSE]
<1>1. /\ j.obj.type = Str("stroke_begin")
      /\ j.obj.author = Whole(c) /\ j.obj.id = Whole(id) /\ j.obj.stroke_order = Whole(order)
      /\ j.obj.color = Whole(st.color) /\ j.obj.thickness = Whole(st.thickness)
      /\ j.obj.start = MakePointJson(p)
  BY BeginLine
<1>2. StrokeJson(new) = StrokeObject(Whole(id), Whole(c), Whole(st.color), Whole(st.thickness),
                                     Whole(order), <<MakePointJson(p)>>, Bool(FALSE))
  <2>1. [i \in DOMAIN <<p>> |-> MakePointJson(<<p>>[i])] = <<MakePointJson(p)>>
    OBVIOUS
  <2>2. /\ new.id = id /\ new.author = c /\ new.style = st /\ new.strokeOrder = order
        /\ new.points = <<p>> /\ new.finished = FALSE
    OBVIOUS
  <2> HIDE DEF new
  <2> QED
    BY <2>1, <2>2, StrokeJsonFields
<1> HIDE DEF j
<1>3. ReplayJson(ViewOf(StrokesJson(m), CursorsJson(n)), j)
        = ViewOf(Put(StrokesJson(m), Whole(id), StrokeJson(new)), CursorsJson(n))
  <2> HIDE DEF new
  <2> QED
    BY <1>1, <1>2, ReplayBeginLine
<1>4. Replay(ViewOf(m, n), pl) = ViewOf(Put(m, id, new), n)
  BY ReplayBegin
<1> HIDE DEF new, pl
<1>5. ReplayJson(JsonView(ViewOf(m, n)), j) = JsonView(Replay(ViewOf(m, n), pl))
  BY <1>3, <1>4, JsonViewOf, PutStroke
<1> QED
  BY <1>5 DEF j, pl

(* ... StrokePoint, ...                                                    *)
LEMMA JsonPoint ==
  ASSUME NEW m, NEW n, NEW c, NEW k, NEW id, NEW p \in Points,
         \A x \in DOMAIN m : m[x] \in Stroke
  PROVE  LET pl == StrokePointOut(c, id, p)
         IN  ReplayJson(JsonView(ViewOf(m, n)), Wire(Broadcast(c, k, pl)))
               = JsonView(Replay(ViewOf(m, n), pl))
<1> DEFINE pl == StrokePointOut(c, id, p)
           j == Wire(Broadcast(c, k, pl))
           s == [m[id] EXCEPT !.points = Append(m[id].points, p)]
           J == ExtendObject(StrokesJson(m)[Whole(id)], MakePointJson(p))
<1>1. /\ j.obj.type = Str("stroke_point") /\ j.obj.id = Whole(id)
      /\ j.obj.point = MakePointJson(p)
  BY PointLine
<1> HIDE DEF j
<1>2. ReplayJson(ViewOf(StrokesJson(m), CursorsJson(n)), j)
        = ViewOf([StrokesJson(m) EXCEPT ![Whole(id)] = J], CursorsJson(n))
  BY <1>1, ReplayPointLine
<1>3. id \in DOMAIN m => J = StrokeJson(s)
  BY StrokesJsonValues, ExtendJson
<1>4. Replay(ViewOf(m, n), pl) = ViewOf([m EXCEPT ![id] = s], n)
  <2>1. Replay(ViewOf(m, n), pl) = ViewOf([m EXCEPT ![id].points = Append(@, p)], n)
    BY ReplayPoint
  <2>2. [m EXCEPT ![id].points = Append(@, p)] = [m EXCEPT ![id] = s]
    OBVIOUS
  <2> QED
    BY <2>1, <2>2
<1> HIDE DEF s, J, pl
<1>5. [StrokesJson(m) EXCEPT ![Whole(id)] = J] = StrokesJson([m EXCEPT ![id] = s])
  BY <1>3, ChangeStroke
<1>6. ReplayJson(JsonView(ViewOf(m, n)), j) = JsonView(Replay(ViewOf(m, n), pl))
  BY <1>2, <1>4, <1>5, JsonViewOf
<1> QED
  BY <1>6 DEF j, pl

(* ... StrokeEnd, ...                                                      *)
LEMMA JsonEnd ==
  ASSUME NEW m, NEW n, NEW c, NEW k, NEW id, \A x \in DOMAIN m : m[x] \in Stroke
  PROVE  LET pl == StrokeEndOut(c, id)
         IN  ReplayJson(JsonView(ViewOf(m, n)), Wire(Broadcast(c, k, pl)))
               = JsonView(Replay(ViewOf(m, n), pl))
<1> DEFINE pl == StrokeEndOut(c, id)
           j == Wire(Broadcast(c, k, pl))
           s == [m[id] EXCEPT !.finished = TRUE]
           J == FinishObject(StrokesJson(m)[Whole(id)], Bool(TRUE))
<1>1. j.obj.type = Str("stroke_end") /\ j.obj.id = Whole(id)
  BY EndLine
<1> HIDE DEF j
<1>2. ReplayJson(ViewOf(StrokesJson(m), CursorsJson(n)), j)
        = ViewOf([StrokesJson(m) EXCEPT ![Whole(id)] = J], CursorsJson(n))
  BY <1>1, ReplayEndLine
<1>3. id \in DOMAIN m => J = StrokeJson(s)
  BY StrokesJsonValues, FinishJson
<1>4. Replay(ViewOf(m, n), pl) = ViewOf([m EXCEPT ![id] = s], n)
  <2>1. Replay(ViewOf(m, n), pl) = ViewOf(Ended(m, id), n)
    BY ReplayEnd
  <2>2. Ended(m, id) = [m EXCEPT ![id] = s]
    BY DEF Ended
  <2> QED
    BY <2>1, <2>2
<1> HIDE DEF s, J, pl
<1>5. [StrokesJson(m) EXCEPT ![Whole(id)] = J] = StrokesJson([m EXCEPT ![id] = s])
  BY <1>3, ChangeStroke
<1>6. ReplayJson(JsonView(ViewOf(m, n)), j) = JsonView(Replay(ViewOf(m, n), pl))
  BY <1>2, <1>4, <1>5, JsonViewOf
<1> QED
  BY <1>6 DEF j, pl

(* ... CursorMove, ...                                                     *)
LEMMA JsonCursor ==
  ASSUME NEW m, NEW n, NEW c, NEW k, NEW p
  PROVE  LET pl == CursorMoveOut(c, p)
         IN  ReplayJson(JsonView(ViewOf(m, n)), Wire(Broadcast(c, k, pl)))
               = JsonView(Replay(ViewOf(m, n), pl))
<1> DEFINE pl == CursorMoveOut(c, p)
           j == Wire(Broadcast(c, k, pl))
<1>1. /\ j.obj.type = Str("cursor_move") /\ j.obj.author = Whole(c)
      /\ j.obj.point = MakePointJson(p)
  BY CursorLine
<1> HIDE DEF j
<1>2. ReplayJson(ViewOf(StrokesJson(m), CursorsJson(n)), j)
        = ViewOf(StrokesJson(m), Put(CursorsJson(n), Whole(c), MakePointJson(p)))
  BY <1>1, ReplayCursorLine
<1>3. Replay(ViewOf(m, n), pl) = ViewOf(m, Put(n, c, p))
  BY ReplayCursor
<1> HIDE DEF pl
<1>4. ReplayJson(JsonView(ViewOf(m, n)), j) = JsonView(Replay(ViewOf(m, n), pl))
  BY <1>2, <1>3, JsonViewOf, PutCursor
<1> QED
  BY <1>4 DEF j, pl

(* ... Clear ...                                                           *)
LEMMA JsonClear ==
  ASSUME NEW m, NEW n, NEW c, NEW k
  PROVE  ReplayJson(JsonView(ViewOf(m, n)), Wire(Broadcast(c, k, ClearOut(c))))
           = JsonView(Replay(ViewOf(m, n), ClearOut(c)))
<1> DEFINE j == Wire(Broadcast(c, k, ClearOut(c)))
<1>1. j.obj.type = Str("clear")
  BY ClearLine
<1> HIDE DEF j
<1>2. ReplayJson(ViewOf(StrokesJson(m), CursorsJson(n)), j) = ViewOf(EmptyMap, CursorsJson(n))
  BY <1>1, ReplayClearLine
<1>3. ReplayJson(JsonView(ViewOf(m, n)), j) = JsonView(Replay(ViewOf(m, n), ClearOut(c)))
  BY <1>2, JsonViewOf, NoStrokesJson, ReplayClear
<1> QED
  BY <1>3 DEF j

(* ... and MemberLeft.                                                     *)
LEMMA JsonLeft ==
  ASSUME NEW m, NEW n, NEW c, NEW k
  PROVE  ReplayJson(JsonView(ViewOf(m, n)), Wire(Broadcast(c, k, MemberLeftOut(c))))
           = JsonView(Replay(ViewOf(m, n), MemberLeftOut(c)))
<1> DEFINE j == Wire(Broadcast(c, k, MemberLeftOut(c)))
<1>1. j.obj.type = Str("member_left") /\ j.obj.client = Whole(c)
  BY LeftLine
<1> HIDE DEF j
<1>2. ReplayJson(ViewOf(StrokesJson(m), CursorsJson(n)), j)
        = ViewOf(StrokesJson(m), Erase(CursorsJson(n), Whole(c)))
  BY <1>1, ReplayLeftLine
<1>3. ReplayJson(JsonView(ViewOf(m, n)), j) = JsonView(Replay(ViewOf(m, n), MemberLeftOut(c)))
  BY <1>2, JsonViewOf, EraseCursor, ReplayLeft
<1> QED
  BY <1>3 DEF j

-----------------------------------------------------------------------------
(* The ids of the members and of the cursors can be sorted, so that every  *)
(* one of them is in the snapshot.                                         *)

(* Induction up to a bound, for a set of numbers.                          *)
LEMMA CountUp ==
  ASSUME NEW n \in Nat, NEW S, 0 \in S, \A i \in 0 .. n - 1 : i \in S => i + 1 \in S
  PROVE  n \in S
<1> SUFFICES ASSUME n \notin S PROVE FALSE
  OBVIOUS
<1> DEFINE T == {i \in 0 .. n : i \notin S}
           m == Min(T)
<1>1. T \subseteq Nat /\ n \in T
  OBVIOUS
<1>2. m \in T /\ \A y \in T : m <= y
  <2> HIDE DEF T
  <2> QED
    BY <1>1, LeastExists
<1> HIDE DEF m
<1>3. m \in 0 .. n /\ m \notin S /\ m # 0
  BY <1>2
<1>4. m - 1 \in 0 .. n - 1 /\ m - 1 < m /\ (m - 1) + 1 = m
  BY <1>3
<1>5. m - 1 \in S
  BY <1>2, <1>4
<1> QED
  BY <1>3, <1>4, <1>5

Rising(s) == \A i, j \in DOMAIN s : i < j => s[i] < s[j]

(* A finite set of numbers can be sorted: by induction on its size, its    *)
(* least element goes before the rest.                                     *)
LEMMA SortedExists ==
  ASSUME NEW S, S \subseteq Nat, IsFiniteSet(S)
  PROVE  \E s \in SetToSeqs(S) : Rising(s)
<1> DEFINE K == {k \in Nat : \A T \in SUBSET Nat : IsFiniteSet(T) /\ Cardinality(T) = k =>
                    \E s \in [1 .. k -> T] : Rising(s)}
           n == Cardinality(S)
<1>1. n \in Nat
  BY FS_CardinalityType
<1>2. 0 \in K
  <2> SUFFICES ASSUME NEW T \in SUBSET Nat, IsFiniteSet(T), Cardinality(T) = 0
               PROVE  \E s \in [1 .. 0 -> T] : Rising(s)
    OBVIOUS
  <2> DEFINE s == [i \in 1 .. 0 |-> 0]
  <2>1. s \in [1 .. 0 -> T] /\ DOMAIN s = {}
    OBVIOUS
  <2> HIDE DEF s
  <2>2. Rising(s)
    BY <2>1 DEF Rising
  <2> QED
    BY <2>1, <2>2
<1>3. ASSUME NEW k \in 0 .. n - 1, k \in K PROVE k + 1 \in K
  <2> SUFFICES ASSUME NEW T \in SUBSET Nat, IsFiniteSet(T), Cardinality(T) = k + 1
               PROVE  \E s \in [1 .. k + 1 -> T] : Rising(s)
    BY <1>1, <1>3
  <2>1. k \in Nat
    BY <1>3
  <2>2. T # {}
    BY <2>1, FS_EmptySet
  <2> DEFINE x == Min(T)
             R == T \ {x}
  <2>3. x \in T /\ x \in Nat /\ \A y \in T : x <= y
    BY <2>2, LeastExists
  <2>4. IsFiniteSet(R) /\ Cardinality(R) = k /\ R \in SUBSET Nat
    <3> HIDE DEF x
    <3>1. /\ IsFiniteSet(T \ {x})
          /\ Cardinality(T \ {x}) = IF x \in T THEN Cardinality(T) - 1 ELSE Cardinality(T)
      BY FS_RemoveElement
    <3> QED
      BY <2>1, <2>3, <3>1
  <2>5. PICK r \in [1 .. k -> R] : Rising(r)
    <3> HIDE DEF R
    <3> QED
      BY <1>3, <2>4
  <2> DEFINE s == [i \in 1 .. k + 1 |-> IF i = 1 THEN x ELSE r[i - 1]]
  <2> HIDE DEF x
  <2>6. \A i \in 1 .. k + 1 : i # 1 => i - 1 \in 1 .. k
    BY <2>1
  <2>7. \A i \in 1 .. k : r[i] \in T /\ r[i] # x /\ r[i] \in Nat
    BY <2>5
  <2>8. s \in [1 .. k + 1 -> T]
    BY <2>3, <2>6, <2>7
  <2>9. ASSUME NEW i \in 1 .. k + 1, NEW j \in 1 .. k + 1, i < j PROVE s[i] < s[j]
    <3>1. j # 1 /\ j - 1 \in 1 .. k /\ s[j] = r[j - 1]
      BY <2>1, <2>6, <2>9
    <3>2. CASE i = 1
      <4>1. s[i] = x
        BY <3>2
      <4> QED
        BY <2>3, <2>7, <3>1, <4>1
    <3>3. CASE i # 1
      <4>1. i - 1 \in 1 .. k /\ s[i] = r[i - 1] /\ i - 1 < j - 1
        BY <2>1, <2>6, <2>9, <3>3
      <4>2. r[i - 1] < r[j - 1]
        BY <2>5, <3>1, <4>1 DEF Rising
      <4> QED
        BY <3>1, <4>1, <4>2
    <3> QED
      BY <3>2, <3>3
  <2>10. Rising(s)
    <3>1. DOMAIN s = 1 .. k + 1
      OBVIOUS
    <3> HIDE DEF s
    <3> QED
      BY <2>9, <3>1 DEF Rising
  <2> QED
    BY <2>8, <2>10
<1>4. n \in K
  <2> HIDE DEF K, n
  <2> QED
    BY <1>1, <1>2, <1>3, CountUp
<1>5. PICK s \in [1 .. n -> S] : Rising(s)
  BY <1>4
<1>6. ASSUME NEW i \in 1 .. n, NEW j \in 1 .. n, i # j PROVE s[i] # s[j]
  <2>1. s[i] \in Nat /\ s[j] \in Nat /\ (i < j \/ j < i) /\ DOMAIN s = 1 .. n
    <3>1. s[i] \in S /\ s[j] \in S
      BY <1>5
    <3>2. s[i] \in Nat /\ s[j] \in Nat /\ DOMAIN s = 1 .. n
      BY <1>5, <3>1
    <3>3. i \in Int /\ j \in Int
      OBVIOUS
    <3>4. i < j \/ j < i
      BY <1>6, <3>3
    <3> QED
      BY <3>2, <3>4
  <2>2. s[i] < s[j] \/ s[j] < s[i]
    BY <1>5, <2>1 DEF Rising
  <2> QED
    BY <2>1, <2>2
<1>7. s \in SetToSeqs(S)
  BY <1>5, <1>6 DEF SetToSeqs
<1> QED
  BY <1>5, <1>7

(* Sorting keeps every element and adds none.                              *)
LEMMA SortedOk ==
  ASSUME NEW S, S \subseteq Nat, IsFiniteSet(S)
  PROVE  /\ Sorted(S) \in [1 .. Cardinality(S) -> S]
         /\ \A x \in S : \E i \in DOMAIN Sorted(S) : Sorted(S)[i] = x
<1> DEFINE n == Cardinality(S)
           s == Sorted(S)
<1>1. s \in SetToSeqs(S)
  BY SortedExists DEF Sorted, Rising
<1> HIDE DEF s
<1>2. s \in [1 .. n -> S] /\ \A i, j \in 1 .. n : i # j => s[i] # s[j]
  BY <1>1 DEF SetToSeqs
<1>3. s \in Injection(1 .. n, S)
  BY <1>2 DEF Injection, IsInjective
<1>4. n \in Nat
  BY FS_CardinalityType
<1>5. IsFiniteSet(1 .. n) /\ Cardinality(1 .. n) = n
  BY <1>4, FS_Interval
<1>6. s \in Surjection(1 .. n, S)
  BY <1>3, <1>5, FS_Injection
<1> QED
  BY <1>2, <1>6 DEF Surjection, s

-----------------------------------------------------------------------------
(* What a client makes of a snapshot is the JSON of what it should see.    *)
CursorJson(c, p) == Obj([client |-> Whole(c), point |-> MakePointJson(p)])

(* The line of a snapshot.                                                 *)
LEMMA SnapshotLine ==
  ASSUME NEW s
  PROVE  LET j == SerializeServerMessage(ToSnapshotMessage(RoomNo, s)).obj
             ids == Sorted(DOMAIN s.cursors)
         IN  /\ j.strokes.arr = [i \in DOMAIN s.strokes |-> StrokeJson(s.strokes[i])]
             /\ j.cursors.arr = [i \in DOMAIN ids |-> CursorJson(ids[i], s.cursors[ids[i]])]
<1> DEFINE m == ToSnapshotMessage(RoomNo, s)
           j == SerializeServerMessage(m).obj
           ids == Sorted(DOMAIN s.cursors)
<1>1. /\ DOMAIN m = {"type", "room", "lastSeq", "members", "strokes", "cursors"}
      /\ m.strokes = [i \in DOMAIN s.strokes |-> FromCoreStroke(s.strokes[i])]
      /\ m.cursors = [i \in DOMAIN ids |-> [client |-> ids[i], point |-> s.cursors[ids[i]]]]
  BY DEF ToSnapshotMessage
<1> HIDE DEF m, ids
<1>2. \A f \in DOMAIN m : j[KeyOf(f)] = FieldJson(f, m[f])
  BY <1>1, Serialized
<1>3. KeyOf("strokes") = "strokes" /\ KeyOf("cursors") = "cursors"
  BY DEF KeyOf
<1> HIDE DEF j
<1>4. j.strokes = FieldJson("strokes", m.strokes) /\ j.cursors = FieldJson("cursors", m.cursors)
  BY <1>1, <1>2, <1>3
<1>5. j.strokes.arr = [i \in DOMAIN m.strokes |-> MakeStrokeJson(m.strokes[i])]
  BY <1>4 DEF FieldJson, ArrOf, Arr
<1>6. j.cursors.arr = [i \in DOMAIN m.cursors |-> MakeCursorJson(m.cursors[i])]
  BY <1>4 DEF FieldJson, ArrOf, Arr
<1>7. j.strokes.arr = [i \in DOMAIN s.strokes |-> StrokeJson(s.strokes[i])]
  BY <1>1, <1>5 DEF StrokeJson
<1>8. j.cursors.arr = [i \in DOMAIN ids |-> CursorJson(ids[i], s.cursors[ids[i]])]
  BY <1>1, <1>6 DEF MakeCursorJson, CursorJson
<1> QED
  BY <1>7, <1>8 DEF j, m, ids

(* What a client keeps of the strokes of a snapshot.                       *)
LEMMA SnapshotStrokes ==
  ASSUME NEW c, NEW ss, IdsDiffer(ss), NEW m, Shows(m, c, ss)
  PROVE  LET shown == {s \in Range([i \in DOMAIN ss |-> StrokeJson(ss[i])]) :
                         s.obj.author # Whole(c)}
         IN  [id \in {s.obj.id : s \in shown} |-> CHOOSE s \in shown : s.obj.id = id]
               = StrokesJson(m)
<1> DEFINE arr == [i \in DOMAIN ss |-> StrokeJson(ss[i])]
           shown == {s \in Range(arr) : s.obj.author # Whole(c)}
           f == [id \in {s.obj.id : s \in shown} |-> CHOOSE s \in shown : s.obj.id = id]
<1>1. \A s : StrokeJson(s).obj.author = Whole(s.author) /\ StrokeJson(s).obj.id = Whole(s.id)
  BY StrokeJsonFields DEF StrokeObject, Obj
<1>2. ASSUME NEW i \in Foreign(c, ss) PROVE StrokeJson(ss[i]) \in shown
  BY <1>1, <1>2, WholeOnce DEF Foreign, Range
<1>3. ASSUME NEW s \in shown PROVE \E i \in Foreign(c, ss) : s = StrokeJson(ss[i])
  <2>1. PICK i \in DOMAIN ss : s = StrokeJson(ss[i])
    BY DEF Range
  <2>2. ss[i].author # c
    BY <1>1, <2>1
  <2> QED
    BY <2>1, <2>2 DEF Foreign
<1> HIDE DEF shown
<1>4. DOMAIN f = {s.obj.id : s \in shown} /\ f = [x \in DOMAIN f |-> f[x]]
  OBVIOUS
<1>5. DOMAIN m = {ss[i].id : i \in Foreign(c, ss)}
  BY DEF Shows
<1>6. DOMAIN f = Wholes(DOMAIN m)
  <2>1. ASSUME NEW x \in DOMAIN f PROVE x \in Wholes(DOMAIN m)
    <3>1. PICK s \in shown : x = s.obj.id
      BY <1>4
    <3>2. PICK i \in Foreign(c, ss) : s = StrokeJson(ss[i])
      BY <1>3
    <3> QED
      BY <1>1, <1>5, <3>1, <3>2, WholesOk
  <2>2. ASSUME NEW x \in Wholes(DOMAIN m) PROVE x \in DOMAIN f
    <3>1. PICK i \in Foreign(c, ss) : x = Whole(ss[i].id)
      BY <1>5, WholesOk
    <3>2. StrokeJson(ss[i]) \in shown /\ StrokeJson(ss[i]).obj.id = x
      BY <1>1, <1>2, <3>1
    <3> QED
      BY <1>4, <3>2
  <2> HIDE DEF f
  <2> QED
    BY <2>1, <2>2
<1>7. ASSUME NEW id \in DOMAIN m PROVE f[Whole(id)] = StrokeJson(m[id])
  <2>1. PICK i \in Foreign(c, ss) : id = ss[i].id
    BY <1>5
  <2>2. m[id] = ss[i]
    BY <2>1 DEF Shows
  <2>3. StrokeJson(ss[i]) \in shown /\ StrokeJson(ss[i]).obj.id = Whole(id)
    BY <1>1, <1>2, <2>1
  <2>4. ASSUME NEW s \in shown, s.obj.id = Whole(id) PROVE s = StrokeJson(ss[i])
    <3>1. PICK k \in Foreign(c, ss) : s = StrokeJson(ss[k])
      BY <1>3
    <3>2. ss[k].id = id
      BY <1>1, <2>4, <3>1, WholeOnce
    <3>3. k = i
      BY <2>1, <3>2 DEF IdsDiffer, Foreign
    <3> QED
      BY <3>1, <3>3
  <2>5. Whole(id) \in DOMAIN f
    BY <1>6, WholesOk
  <2>6. f[Whole(id)] = CHOOSE s \in shown : s.obj.id = Whole(id)
    BY <1>4, <2>5
  <2> HIDE DEF f
  <2> QED
    BY <2>2, <2>3, <2>4, <2>6
<1> HIDE DEF f
<1>8. f = StrokesJson(m)
  BY <1>4, <1>6, <1>7, StrokesJsonIs
<1> QED
  BY <1>8 DEF f, shown

(* What a client keeps of the cursors of a snapshot.                       *)
LEMMA SnapshotCursors ==
  ASSUME NEW c, NEW cs, DOMAIN cs \subseteq Nat, IsFiniteSet(DOMAIN cs)
  PROVE  LET ids == Sorted(DOMAIN cs)
             shown == {k \in Range([i \in DOMAIN ids |-> CursorJson(ids[i], cs[ids[i]])]) :
                         k.obj.client # Whole(c)}
         IN  [d \in {k.obj.client : k \in shown} |->
                (CHOOSE k \in shown : k.obj.client = d).obj.point]
               = CursorsJson(Erase(cs, c))
<1> DEFINE ids == Sorted(DOMAIN cs)
           shown == {k \in Range([i \in DOMAIN ids |-> CursorJson(ids[i], cs[ids[i]])]) :
                       k.obj.client # Whole(c)}
           f == [d \in {k.obj.client : k \in shown} |->
                   (CHOOSE k \in shown : k.obj.client = d).obj.point]
           n == Erase(cs, c)
<1>1. \A d, p : /\ CursorJson(d, p).obj.client = Whole(d)
                /\ CursorJson(d, p).obj.point = MakePointJson(p)
  BY DEF CursorJson, Obj
<1>2. DOMAIN n = DOMAIN cs \ {c} /\ \A d \in DOMAIN n : n[d] = cs[d]
  BY DEF Erase, Restrict
<1>3. /\ \A i \in DOMAIN ids : ids[i] \in DOMAIN cs
      /\ \A d \in DOMAIN cs : \E i \in DOMAIN ids : ids[i] = d
  BY SortedOk
<1> HIDE DEF ids, n
<1>4. ASSUME NEW d \in DOMAIN n PROVE CursorJson(d, n[d]) \in shown
  <2>1. PICK i \in DOMAIN ids : ids[i] = d
    BY <1>2, <1>3
  <2> QED
    BY <1>1, <1>2, <2>1, WholeOnce DEF Range
<1>5. ASSUME NEW k \in shown PROVE \E d \in DOMAIN n : k = CursorJson(d, n[d])
  <2>1. PICK i \in DOMAIN ids : k = CursorJson(ids[i], cs[ids[i]])
    BY DEF Range
  <2>2. ids[i] # c
    BY <1>1, <2>1
  <2> QED
    BY <1>2, <1>3, <2>1, <2>2
<1> HIDE DEF shown
<1>6. DOMAIN f = {k.obj.client : k \in shown} /\ f = [x \in DOMAIN f |-> f[x]]
  OBVIOUS
<1>7. DOMAIN f = Wholes(DOMAIN n)
  <2>1. ASSUME NEW x \in DOMAIN f PROVE x \in Wholes(DOMAIN n)
    <3>1. PICK k \in shown : x = k.obj.client
      BY <1>6
    <3>2. PICK d \in DOMAIN n : k = CursorJson(d, n[d])
      BY <1>5
    <3> QED
      BY <1>1, <3>1, <3>2, WholesOk
  <2>2. ASSUME NEW x \in Wholes(DOMAIN n) PROVE x \in DOMAIN f
    <3>1. PICK d \in DOMAIN n : x = Whole(d)
      BY WholesOk
    <3>2. CursorJson(d, n[d]) \in shown /\ CursorJson(d, n[d]).obj.client = x
      BY <1>1, <1>4, <3>1
    <3> QED
      BY <1>6, <3>2
  <2> HIDE DEF f
  <2> QED
    BY <2>1, <2>2
<1>8. ASSUME NEW d \in DOMAIN n PROVE f[Whole(d)] = MakePointJson(n[d])
  <2>1. CursorJson(d, n[d]) \in shown /\ CursorJson(d, n[d]).obj.client = Whole(d)
    BY <1>1, <1>4
  <2>2. ASSUME NEW k \in shown, k.obj.client = Whole(d) PROVE k = CursorJson(d, n[d])
    <3>1. PICK e \in DOMAIN n : k = CursorJson(e, n[e])
      BY <1>5
    <3>2. e = d
      BY <1>1, <2>2, <3>1, WholeOnce
    <3> QED
      BY <3>1, <3>2
  <2>3. Whole(d) \in DOMAIN f
    BY <1>7, WholesOk
  <2>4. f[Whole(d)] = (CHOOSE k \in shown : k.obj.client = Whole(d)).obj.point
    BY <1>6, <2>3
  <2>5. (CHOOSE k \in shown : k.obj.client = Whole(d)) = CursorJson(d, n[d])
    BY <2>1, <2>2
  <2> HIDE DEF f
  <2> QED
    BY <1>1, <2>4, <2>5
<1> HIDE DEF f
<1>9. f = CursorsJson(n)
  BY <1>6, <1>7, <1>8, CursorsJsonIs
<1> QED
  BY <1>9 DEF f, shown, ids, n

KeptStrokes(c, arr) ==
  LET shown == {s \in Range(arr) : s.obj.author # Whole(c)}
  IN  [id \in {s.obj.id : s \in shown} |-> CHOOSE s \in shown : s.obj.id = id]

KeptCursors(c, arr) ==
  LET shown == {k \in Range(arr) : k.obj.client # Whole(c)}
  IN  [d \in {k.obj.client : k \in shown} |->
         (CHOOSE k \in shown : k.obj.client = d).obj.point]

(* A snapshot is shown as the strokes and cursors kept of it.              *)
LEMMA ShowSnapshotKeeps ==
  ASSUME NEW c, NEW j
  PROVE  ShowSnapshot(c, j) = ViewOf(KeptStrokes(c, j.obj.strokes.arr),
                                     KeptCursors(c, j.obj.cursors.arr))
BY DEF ShowSnapshot, ViewOf, KeptStrokes, KeptCursors

(* A snapshot shows a client the JSON of what it should see.               *)
LEMMA SnapshotShows ==
  ASSUME NEW c, NEW s, IdsDiffer(s.strokes), DOMAIN s.cursors \subseteq Nat,
         IsFiniteSet(DOMAIN s.cursors)
  PROVE  ShowSnapshot(c, SerializeServerMessage(ToSnapshotMessage(RoomNo, s)))
           = JsonView(Others(c, s.strokes, s.cursors))
<1> DEFINE j == SerializeServerMessage(ToSnapshotMessage(RoomNo, s))
           ids == Sorted(DOMAIN s.cursors)
           arr == [i \in DOMAIN s.strokes |-> StrokeJson(s.strokes[i])]
           crr == [i \in DOMAIN ids |-> CursorJson(ids[i], s.cursors[ids[i]])]
<1>1. j.obj.strokes.arr = arr /\ j.obj.cursors.arr = crr
  BY SnapshotLine
<1>2. PICK m : /\ Shows(m, c, s.strokes)
               /\ Others(c, s.strokes, s.cursors) = ViewOf(m, Erase(s.cursors, c))
  BY OthersShow
<1>3. KeptStrokes(c, arr) = StrokesJson(m)
  BY <1>2, SnapshotStrokes DEF KeptStrokes
<1>4. KeptCursors(c, crr) = CursorsJson(Erase(s.cursors, c))
  BY SnapshotCursors DEF KeptCursors
<1> HIDE DEF j, arr, crr
<1>5. ShowSnapshot(c, j) = ViewOf(StrokesJson(m), CursorsJson(Erase(s.cursors, c)))
  BY <1>1, <1>3, <1>4, ShowSnapshotKeeps
<1>6. ShowSnapshot(c, j) = JsonView(Others(c, s.strokes, s.cursors))
  BY <1>2, <1>5, JsonViewOf
<1> QED
  BY <1>6 DEF j

-----------------------------------------------------------------------------
(* A client that is sent the lines of no event, of one or of two replays   *)
(* them in turn ...                                                        *)
LEMMA RelayedNone ==
  ASSUME NEW d
  PROVE  Relayed(d, <<>>) = heard[d]
<1> DEFINE S == 0 .. Len(<<>>)
           v == heard[d]
           F(f) == [k \in S |-> IF k = 0 THEN v ELSE HearJson(d, f[k - 1], <<>>[k])]
           g == [k \in S |-> v]
           seen == CHOOSE f : f = F(f)
<1>1. S = {0} /\ Len(<<>>) = 0
  OBVIOUS
<1>2. g = F(g)
  BY <1>1
<1>3. seen = F(seen)
  <2> HIDE DEF F, g
  <2> QED
    BY <1>2
<1>4. seen[0] = v
  <2> HIDE DEF seen
  <2> QED
    BY <1>1, <1>3
<1> QED
  BY <1>1, <1>4 DEF Relayed

(* One line.                                                               *)
LEMMA RelayedOne ==
  ASSUME NEW d, NEW e
  PROVE  Relayed(d, <<e>>) = HearJson(d, heard[d], e)
<1> DEFINE S == 0 .. Len(<<e>>)
           v == heard[d]
           F(f) == [k \in S |-> IF k = 0 THEN v ELSE HearJson(d, f[k - 1], <<e>>[k])]
           g == [k \in S |-> IF k = 0 THEN v ELSE HearJson(d, v, e)]
           seen == CHOOSE f : f = F(f)
<1>1. S = {0, 1} /\ Len(<<e>>) = 1 /\ <<e>>[1] = e
  OBVIOUS
<1>2. g = F(g)
  BY <1>1
<1>3. seen = F(seen)
  <2> HIDE DEF F, g
  <2> QED
    BY <1>2
<1>4. seen[0] = v /\ seen[1] = HearJson(d, seen[0], e)
  <2> HIDE DEF seen
  <2> QED
    BY <1>1, <1>3
<1> QED
  BY <1>1, <1>4 DEF Relayed

(* Two lines.                                                              *)
LEMMA RelayedTwo ==
  ASSUME NEW d, NEW e, NEW f
  PROVE  Relayed(d, <<e, f>>) = HearJson(d, HearJson(d, heard[d], e), f)
<1> DEFINE S == 0 .. Len(<<e, f>>)
           v == heard[d]
           h == HearJson(d, v, e)
           F(s) == [k \in S |-> IF k = 0 THEN v ELSE HearJson(d, s[k - 1], <<e, f>>[k])]
           g == [k \in S |-> IF k = 0 THEN v ELSE IF k = 1 THEN h ELSE HearJson(d, h, f)]
           seen == CHOOSE s : s = F(s)
<1>1. S = {0, 1, 2} /\ Len(<<e, f>>) = 2 /\ <<e, f>>[1] = e /\ <<e, f>>[2] = f
  OBVIOUS
<1>2. g = F(g)
  BY <1>1
<1>3. seen = F(seen)
  <2> HIDE DEF F, g
  <2> QED
    BY <1>2
<1>4. seen[0] = v /\ seen[1] = HearJson(d, seen[0], e) /\ seen[2] = HearJson(d, seen[1], f)
  <2> HIDE DEF seen
  <2> QED
    BY <1>1, <1>3
<1> QED
  BY <1>1, <1>4 DEF Relayed

(* ... and so keeps the JSON of what it would have kept of the events, if  *)
(* each line, replayed on the JSON of a view, gives the JSON of the event  *)
(* replayed on the view.                                                   *)
Carries(v, e) == ReplayJson(JsonView(v), Wire(e)) = JsonView(Replay(v, e.payload))

(* One event, ...                                                          *)
LEMMA HearsLine ==
  ASSUME NEW d, NEW v, NEW e, Carries(v, e)
  PROVE  HearJson(d, JsonView(v), e) = JsonView(Hear(d, v, e))
BY DEF Carries, HearJson, Hear, Concerns

(* ... no event, ...                                                       *)
LEMMA HearsNone ==
  ASSUME NEW d, NEW v, heard[d] = JsonView(v)
  PROVE  Relayed(d, <<>>) = JsonView(Receive(d, v, <<>>))
BY RelayedNone, ReceiveNone

(* ... the only event ...                                                  *)
LEMMA HearsOne ==
  ASSUME NEW d, NEW v, NEW e, heard[d] = JsonView(v), Carries(v, e)
  PROVE  Relayed(d, <<e>>) = JsonView(Receive(d, v, <<e>>))
BY RelayedOne, ReceiveOne, HearsLine

(* ... and two events of a call.                                           *)
LEMMA HearsTwo ==
  ASSUME NEW d, NEW v, NEW e, NEW f, heard[d] = JsonView(v), Carries(v, e),
         Carries(Hear(d, v, e), f)
  PROVE  Relayed(d, <<e, f>>) = JsonView(Receive(d, v, <<e, f>>))
<1>1. HearJson(d, heard[d], e) = JsonView(Hear(d, v, e))
  BY HearsLine
<1>2. HearJson(d, JsonView(Hear(d, v, e)), f) = JsonView(Hear(d, Hear(d, v, e), f))
  BY HearsLine
<1> QED
  BY <1>1, <1>2, RelayedTwo, ReceiveTwo

(* What a client should see are strokes.                                   *)
LEMMA SeenStrokes ==
  ASSUME Inv, NEW d
  PROVE  \E m, n : Seen(d) = ViewOf(m, n) /\ \A x \in DOMAIN m : m[x] \in Stroke
<1>1. PICK m : Shows(m, d, strokes) /\ Seen(d) = ViewOf(m, Erase(cursors, d))
  BY SeesStrokes
<1>2. \A i \in DOMAIN strokes : strokes[i] \in Stroke
  BY StrokeFields
<1>3. \A x \in DOMAIN m : m[x] \in Stroke
  BY <1>1, <1>2 DEF Shows, Foreign
<1> QED
  BY <1>1, <1>3

(* A call with one broadcast.                                              *)
LEMMA HearsBroadcast ==
  ASSUME NEW d, NEW v, heard[d] = JsonView(v), NEW c, NEW k, NEW pl,
         ReplayJson(JsonView(v), Wire(Broadcast(c, k, pl))) = JsonView(Replay(v, pl)),
         out' = <<Broadcast(c, k, pl)>>
  PROVE  Relayed(d, out') = JsonView(Receive(d, v, out'))
<1> DEFINE e == Broadcast(c, k, pl)
<1>1. e.payload = pl
  BY DEF Broadcast
<1>2. Carries(v, e)
  BY <1>1 DEF Carries
<1> QED
  BY <1>2, HearsOne

(* The lines of a call take the JSON of a view to the JSON of what the     *)
(* events take the view to.                                                *)
LEMMA HearsApply ==
  ASSUME Inv, NEW c \in Clients, NEW d, heard[d] = JsonView(Seen(d)),
         NEW m, Applies(c, m)
  PROVE  Relayed(d, out') = JsonView(Receive(d, Seen(d), out'))
<1> DEFINE v == Seen(d)
           id == activeStrokeByClient[c]
<1>1. PICK s, n : v = ViewOf(s, n) /\ \A x \in DOMAIN s : s[x] \in Stroke
  BY SeenStrokes
<1> HIDE DEF v
<1>2. heard[d] = JsonView(v)
  BY DEF v
<1>3. CASE out' = <<>>
  BY <1>2, <1>3, HearsNone DEF v
<1>4. CASE out' # <<>>
  <2>1. CASE m.type = "stroke_begin"
    <3>1. out' = <<Broadcast(c, nextSeq, StrokeBeginOut(c, nextStrokeId, nextSeq,
                                                        Style(m), m.start))>>
      BY <1>4, <2>1 DEF Applies, ApplyStrokeBegin, Refuse, Return
    <3> QED
      BY <1>1, <1>2, <3>1, JsonBegin, HearsBroadcast DEF v
  <2>2. CASE m.type = "stroke_point"
    <3>1. /\ out' = <<Broadcast(c, nextSeq, StrokePointOut(c, id, m.point))>>
          /\ m.point \in Points
      BY <1>4, <2>2 DEF Applies, ApplyStrokePoint, Refuse, Return
    <3> QED
      BY <1>1, <1>2, <3>1, JsonPoint, HearsBroadcast DEF v
  <2>3. CASE m.type = "stroke_end"
    <3>1. out' = <<Broadcast(c, nextSeq, StrokeEndOut(c, id))>>
      BY <1>4, <2>3 DEF Applies, ApplyStrokeEnd, Refuse, Return
    <3> QED
      BY <1>1, <1>2, <3>1, JsonEnd, HearsBroadcast DEF v
  <2>4. CASE m.type = "cursor_move"
    <3>1. out' = <<Broadcast(c, nextSeq, CursorMoveOut(c, m.point))>>
      BY <1>4, <2>4 DEF Applies, ApplyCursorMove, Return
    <3> QED
      BY <1>1, <1>2, <3>1, JsonCursor, HearsBroadcast DEF v
  <2>5. CASE m.type = "clear"
    <3>1. out' = <<Broadcast(c, nextSeq, ClearOut(c))>>
      BY <2>5 DEF Applies, ApplyClear, Return
    <3> QED
      BY <1>1, <1>2, <3>1, JsonClear, HearsBroadcast DEF v
  <2> QED
    BY <2>1, <2>2, <2>3, <2>4, <2>5 DEF Applies
<1> QED
  BY <1>3, <1>4

(* The same for a client that leaves, in mid-stroke or not.                *)
LEMMA HearsLeave ==
  ASSUME Inv, NEW c \in Clients, NEW d, heard[d] = JsonView(Seen(d)), Leave(c)
  PROVE  Relayed(d, out') = JsonView(Receive(d, Seen(d), out'))
<1> DEFINE v == Seen(d)
           id == activeStrokeByClient[c]
           end == Broadcast(c, nextSeq, StrokeEndOut(c, id))
           left == Broadcast(c, nextSeq + 1, MemberLeftOut(c))
<1>1. PICK s, n : v = ViewOf(s, n) /\ \A x \in DOMAIN s : s[x] \in Stroke
  BY SeenStrokes
<1> HIDE DEF v
<1>2. heard[d] = JsonView(v)
  BY DEF v
<1>3. CASE LeaveIdle(c)
  <2>1. out' = <<Broadcast(c, nextSeq, MemberLeftOut(c))>>
    BY <1>3 DEF LeaveIdle, Return
  <2> QED
    BY <1>1, <1>2, <2>1, JsonLeft, HearsBroadcast DEF v
<1>4. CASE LeaveDrawing(c)
  <2>1. out' = <<end, left>>
    BY <1>4 DEF LeaveDrawing, Return
  <2>2. end.payload = StrokeEndOut(c, id) /\ left.payload = MemberLeftOut(c)
    BY DEF Broadcast
  <2>3. Carries(v, end)
    BY <1>1, <2>2, JsonEnd DEF Carries
  <2>4. Hear(d, v, end) \in {ViewOf(s, n), ViewOf(Ended(s, id), n)}
    BY <1>1, <2>2, ReplayEnd DEF Hear
  <2>5. Carries(Hear(d, v, end), left)
    BY <2>2, <2>4, JsonLeft DEF Carries
  <2> HIDE DEF end, left
  <2> QED
    BY <1>2, <2>1, <2>3, <2>5, HearsTwo DEF v
<1> QED
  BY <1>3, <1>4 DEF Leave

-----------------------------------------------------------------------------
(* The JSON that a member has heard is that of what it should see.         *)
HeardIsSeen == \A c \in members : heard[c] = JsonView(Others(c, strokes, cursors))

(* Members come one at a time, so there are finitely many; hence a sorted  *)
(* sequence of their cursors exists for the snapshot.                      *)
WireInv ==
  /\ Inv
  /\ IsFiniteSet(members)
  /\ DOMAIN heard = Clients
  /\ HeardIsSeen

(* The empty room.                                                         *)
LEMMA WireInitInv == WireInit => WireInv
<1> SUFFICES ASSUME WireInit PROVE WireInv
  OBVIOUS
<1>1. Init /\ members = {} /\ DOMAIN heard = Clients
  BY DEF WireInit, Init
<1>2. IsFiniteSet(members)
  BY <1>1, FS_EmptySet
<1> QED
  BY <1>1, <1>2, InitInv DEF WireInv, HeardIsSeen

(* The snapshot of a board that satisfies the invariant shows a client the *)
(* JSON of what it should see.                                             *)
LEMMA SnapshotSays ==
  ASSUME Inv, IsFiniteSet(members), NEW c, NEW s, s.strokes = strokes, s.cursors = cursors
  PROVE  ShowSnapshot(c, SerializeServerMessage(ToSnapshotMessage(RoomNo, s)))
           = JsonView(Others(c, strokes, cursors))
<1>1. DOMAIN cursors \subseteq members /\ members \subseteq Clients
  BY DEF Inv, RoomInv, CursorsOfMembers, TypeOK
<1>2. DOMAIN cursors \subseteq Nat /\ IsFiniteSet(DOMAIN cursors)
  BY <1>1, WireAssumption, FS_Subset
<1> QED
  BY <1>2, IdsOnBoard, SnapshotShows

(* A newcomer hears the board in its snapshot.                             *)
LEMMA JoinKeepsHeard ==
  ASSUME WireInv, Inv', NEW c \in Clients, Joined(c)
  PROVE  WireInv'
<1>1. /\ members' = members \cup {c} /\ strokes' = strokes /\ cursors' = cursors
      /\ heard' = [heard EXCEPT ![c] =
           ShowSnapshot(c, SerializeServerMessage(ToSnapshotMessage(RoomNo, Snapshot')))]
      /\ DOMAIN heard = Clients /\ members \subseteq Clients
  BY DEF Joined, Join, board, WireInv, Inv, TypeOK
<1>2. IsFiniteSet(members')
  BY <1>1, FS_AddElement DEF WireInv
<1>3. ShowSnapshot(c, SerializeServerMessage(ToSnapshotMessage(RoomNo, Snapshot')))
        = JsonView(Others(c, strokes, cursors))
  <2>1. Snapshot'.strokes = strokes /\ Snapshot'.cursors = cursors
    BY <1>1 DEF Snapshot
  <2> HIDE DEF Snapshot
  <2> QED
    BY <2>1, SnapshotSays DEF WireInv
<1>4. ASSUME NEW d \in members' PROVE heard'[d] = JsonView(Others(d, strokes', cursors'))
  <2>1. CASE d = c
    BY <1>1, <1>3, <2>1
  <2>2. CASE d # c
    BY <1>1, <1>4, <2>2 DEF WireInv, HeardIsSeen
  <2> QED
    BY <2>1, <2>2
<1> QED
  BY <1>1, <1>2, <1>4 DEF WireInv, HeardIsSeen

(* Those who stay hear that a client left.                                 *)
LEMMA LeaveKeepsHeard ==
  ASSUME WireInv, Inv', NEW c \in Clients, Leave(c), Relay(out')
  PROVE  WireInv'
<1>1. /\ members' = members \ {c}
      /\ heard' = [d \in Clients |-> Relayed(d, out')]
      /\ members \subseteq Clients /\ Inv
  BY DEF Leave, Relay, WireInv, Inv, TypeOK
<1>2. IsFiniteSet(members')
  BY <1>1, FS_Subset DEF WireInv
<1>3. ASSUME NEW d \in members' PROVE heard'[d] = JsonView(Others(d, strokes', cursors'))
  <2>1. d \in members /\ d # c /\ d \in Clients
    BY <1>1
  <2>2. heard[d] = JsonView(Seen(d))
    BY <2>1 DEF WireInv, HeardIsSeen, Seen
  <2>3. Relayed(d, out') = JsonView(Receive(d, Seen(d), out'))
    BY <1>1, <2>2, HearsLeave
  <2>4. Receive(d, Seen(d), out') = Others(d, strokes', cursors')
    BY <1>1, <2>1, SeesLeave
  <2> QED
    BY <1>1, <2>1, <2>3, <2>4
<1> QED
  BY <1>1, <1>2, <1>3 DEF WireInv, HeardIsSeen

(* All members hear what is drawn.                                         *)
LEMMA ApplyKeepsHeard ==
  ASSUME WireInv, Inv', NEW c \in Clients, NEW m, Applies(c, m), Relay(out')
  PROVE  WireInv'
<1>1. /\ members' = members
      /\ heard' = [d \in Clients |-> Relayed(d, out')]
      /\ members \subseteq Clients /\ Inv
  BY AppliesCalls DEF Relay, WireInv, Inv, TypeOK
<1>2. ASSUME NEW d \in members PROVE heard'[d] = JsonView(Others(d, strokes', cursors'))
  <2>1. heard[d] = JsonView(Seen(d))
    BY DEF WireInv, HeardIsSeen, Seen
  <2>2. Relayed(d, out') = JsonView(Receive(d, Seen(d), out'))
    BY <1>1, <2>1, HearsApply
  <2>3. Receive(d, Seen(d), out') = Others(d, strokes', cursors')
    BY <1>1, SeesBegin, SeesPoint, SeesEnd, SeesMove, SeesClear DEF Applies
  <2> QED
    BY <1>1, <2>2, <2>3
<1> QED
  BY <1>1, <1>2 DEF WireInv, HeardIsSeen

(* Every step keeps the invariant.                                         *)
LEMMA WireNextInv == WireInv /\ [WireNext]_wireVars => WireInv'
<1> SUFFICES ASSUME WireInv, [WireNext]_wireVars PROVE WireInv'
  OBVIOUS
<1>1. Inv'
  BY WireRoomInv DEF WireInv
<1>2. ASSUME UNCHANGED <<members, strokes, cursors, heard>> PROVE WireInv'
  BY <1>1, <1>2 DEF WireInv, HeardIsSeen
<1>3. ASSUME NEW c \in Clients, NEW line \in Lines, HandleLine(c, line) PROVE WireInv'
  <2>1. CASE Ignored
    BY <1>2, <2>1 DEF Ignored, state, board
  <2>2. CASE Joined(c)
    BY <1>1, <2>2, JoinKeepsHeard
  <2>3. CASE Leave(c) /\ Relay(out')
    BY <1>1, <2>3, LeaveKeepsHeard
  <2>4. CASE \E m : Applies(c, m) /\ Relay(out')
    BY <1>1, <2>4, ApplyKeepsHeard
  <2> QED
    BY <1>3, <2>1, <2>2, <2>3, <2>4, LineCalls
<1>4. CASE Tick /\ UNCHANGED <<input, reply, heard>>
  BY <1>2, <1>4 DEF Tick, board
<1>5. CASE UNCHANGED wireVars
  BY <1>2, <1>5 DEF wireVars, vars, state, board
<1> QED
  BY <1>3, <1>4, <1>5 DEF WireNext

(* What a member pieced together from the JSON of its snapshot and of the  *)
(* events after it is what the JSON of a new snapshot tells it, for any    *)
(* number of clients, any lines and any length of a session.               *)
THEOREM WireViewsCorrect == WireSpec => []WireViewsAgree
<1>1. WireInv => WireViewsAgree
  <2>1. Snapshot.strokes = strokes /\ Snapshot.cursors = cursors
    BY DEF Snapshot
  <2> QED
    BY <2>1, SnapshotSays DEF WireInv, HeardIsSeen, WireViewsAgree
<1> QED
  BY <1>1, WireInitInv, WireNextInv, PTL DEF WireSpec

-----------------------------------------------------------------------------
(* Fields come back as they were sent: numbers that fit their type, ...    *)
LEMMA IntegerIs ==
  ASSUME NEW j, IsJson(j), Is("int", j)
  PROVE  j = Whole(j.int) /\ j.int \in Int
BY JsonIntegers DEF IsJson, Is, Whole, Null, Str, Arr, Obj

(* A number that fits does not wrap.                                       *)
LEMMA Wraps ==
  ASSUME NEW size \in Nat, NEW n \in 0 .. size - 1
  PROVE  n % size = n
<1>1. n \in Nat /\ n < size
  OBVIOUS
<1> QED
  BY <1>1, Z3

(* An integer that fits its type is read as it is.                         *)
LEMMA NumberReturns ==
  ASSUME NEW j, IsJson(j), Is("int", j), NEW size \in Nat, j.int \in 0 .. size - 1,
         NEW n \in ToUnsigned(j, size)
  PROVE  Whole(n) = j /\ SameField(j, Whole(n))
<1>1. j = Whole(j.int) /\ j.int \in Int
  BY IntegerIs
<1>2. j.int % size = j.int
  BY Wraps
<1>3. ~Is("real", j) /\ ~Is("obj", j)
  BY <1>1 DEF Is, Whole
<1>4. ToUnsigned(j, size) = {j.int}
  BY <1>2, <1>3 DEF ToUnsigned
<1>5. Whole(n) = j
  BY <1>1, <1>4
<1> QED
  BY <1>3, <1>5 DEF SameField

(* The same for unsigned int.                                              *)
LEMMA WordReturns ==
  ASSUME NEW j, IsJson(j), Is("int", j), j.int \in 0 .. WordSize - 1, NEW n \in ToWord(j)
  PROVE  SameField(j, Whole(n))
<1>1. ~Is("bool", j)
  BY IntegerIs DEF Is, Whole
<1>2. n \in ToUnsigned(j, WordSize)
  BY <1>1 DEF ToWord, FromBool
<1> QED
  BY <1>2, NumberReturns, TransportAssumption

(* ... and points, to the precision of a float.                            *)
LEMMA FloatReturns ==
  ASSUME NEW j, NEW f \in ToFloat(j)
  PROVE  Rounded(j) = FloatJson(f)
<1>1. ToFloat(j) = {f}
  BY DEF ToFloat, FromBool
<1>2. (CHOOSE g \in ToFloat(j) : TRUE) = f
  BY <1>1
<1> QED
  BY <1>2 DEF Rounded

(* Both coordinates of a point.                                            *)
LEMMA PointReturns ==
  ASSUME NEW object, NEW key, HasPoint(object, key), NEW p \in WirePoint(object[key])
  PROVE  SameField(object[key], MakePointJson(p))
<1>1. p.x \in ToFloat(object[key].obj.x) /\ p.y \in ToFloat(object[key].obj.y)
  BY DEF WirePoint
<1>2. /\ Rounded(object[key].obj.x) = FloatJson(p.x)
      /\ Rounded(object[key].obj.y) = FloatJson(p.y)
  BY <1>1, FloatReturns
<1> QED
  BY <1>2 DEF SameField, HasPoint, MakePointJson

(* The type of a message.                                                  *)
LEMMA TypeReturns ==
  ASSUME NEW t
  PROVE  SameField(Str(t), Str(t))
BY DEF SameField, Is, Str

(* The id of the room.                                                     *)
LEMMA RoomReturns ==
  ASSUME NEW object, Has(object, "room"), Representable(object),
         RoomNo \in ToUnsigned(object.room, LongSize)
  PROVE  SameField(object.room, Whole(RoomNo))
BY NumberReturns, TransportAssumption DEF Has, Representable

(* The line of a request and that of the event it becomes.                 *)
Returned(sent, relayed) ==
  \A k \in RequestFields \cap DOMAIN sent \cap DOMAIN relayed : SameField(sent[k], relayed[k])

(* The line of an applied event says what its request said.                *)
LEMMA ApplyReturns ==
  ASSUME NEW c, NEW m, NEW sent, Says(m, sent), m.room = RoomNo, Applies(c, m),
         Representable(sent), nextSeq \in Nat, nextSeq' # nextSeq
  PROVE  Returned(sent, Wire(out'[1]).obj)
<1> DEFINE j == Wire(out'[1]).obj
           id == activeStrokeByClient[c]
<1>1. SameField(sent.type, Str(m.type))
  BY TypeReturns DEF Says
<1>2. CASE m.type = "stroke_begin"
  <2>1. out'[1] = Broadcast(c, nextSeq, StrokeBeginOut(c, nextStrokeId, nextSeq,
                                                       Style(m), m.start))
    BY <1>2 DEF Applies, ApplyStrokeBegin, Refuse, Return, state, counters
  <2>2. /\ Has(sent, "room") /\ HasPoint(sent, "start")
        /\ Has(sent, "color") /\ Has(sent, "thickness") /\ m \in BeginMessages(sent)
    BY <1>2 DEF Says, Plain, Pointed
  <2>3. /\ DOMAIN j = {"type", "room", "seq", "author", "id", "stroke_order",
                       "color", "thickness", "start"}
        /\ j.type = Str("stroke_begin") /\ j.room = Whole(RoomNo)
        /\ j.color = Whole(Style(m).color) /\ j.thickness = Whole(Style(m).thickness)
        /\ j.start = MakePointJson(m.start)
    BY <2>1, BeginLine
  <2> HIDE DEF j
  <2>4. SameField(sent.room, j.room)
    BY <2>2, <2>3, RoomReturns DEF BeginMessages
  <2>5. SameField(sent.start, j.start)
    BY <2>2, <2>3, PointReturns DEF BeginMessages
  <2>6. SameField(sent.color, j.color) /\ SameField(sent.thickness, j.thickness)
    BY <2>2, <2>3, WordReturns DEF BeginMessages, Style, Has, Representable
  <2>7. Returned(sent, j)
    BY <1>1, <1>2, <2>3, <2>4, <2>5, <2>6 DEF Returned, RequestFields
  <2> QED
    BY <2>7 DEF j
<1>3. CASE m.type = "stroke_point"
  <2>1. out'[1] = Broadcast(c, nextSeq, StrokePointOut(c, id, m.point))
    BY <1>3 DEF Applies, ApplyStrokePoint, Refuse, Return, state, counters
  <2>2. Has(sent, "room") /\ HasPoint(sent, "point") /\ m \in PointMessages(m.type, sent)
    BY <1>3 DEF Says, Plain
  <2>3. /\ DOMAIN j = {"type", "room", "seq", "author", "id", "point"}
        /\ j.type = Str("stroke_point") /\ j.room = Whole(RoomNo)
        /\ j.point = MakePointJson(m.point)
    BY <2>1, PointLine
  <2> HIDE DEF j
  <2>4. SameField(sent.room, j.room)
    BY <2>2, <2>3, RoomReturns DEF PointMessages
  <2>5. SameField(sent.point, j.point)
    BY <2>2, <2>3, PointReturns DEF PointMessages
  <2>6. Returned(sent, j)
    BY <1>1, <1>3, <2>3, <2>4, <2>5 DEF Returned, RequestFields
  <2> QED
    BY <2>6 DEF j
<1>4. CASE m.type = "cursor_move"
  <2>1. out'[1] = Broadcast(c, nextSeq, CursorMoveOut(c, m.point))
    BY <1>4 DEF Applies, ApplyCursorMove, Return, state, counters
  <2>2. Has(sent, "room") /\ HasPoint(sent, "point") /\ m \in PointMessages(m.type, sent)
    BY <1>4 DEF Says, Plain
  <2>3. /\ DOMAIN j = {"type", "room", "seq", "author", "point"}
        /\ j.type = Str("cursor_move") /\ j.room = Whole(RoomNo)
        /\ j.point = MakePointJson(m.point)
    BY <2>1, CursorLine
  <2> HIDE DEF j
  <2>4. SameField(sent.room, j.room)
    BY <2>2, <2>3, RoomReturns DEF PointMessages
  <2>5. SameField(sent.point, j.point)
    BY <2>2, <2>3, PointReturns DEF PointMessages
  <2>6. Returned(sent, j)
    BY <1>1, <1>4, <2>3, <2>4, <2>5 DEF Returned, RequestFields
  <2> QED
    BY <2>6 DEF j
<1>5. CASE m.type \in {"stroke_end", "clear"}
  <2>1. \/ /\ m.type = "stroke_end"
           /\ out'[1] = Broadcast(c, nextSeq, StrokeEndOut(c, id))
        \/ m.type = "clear" /\ out'[1] = Broadcast(c, nextSeq, ClearOut(c))
    BY <1>5 DEF Applies, ApplyStrokeEnd, ApplyClear, Refuse, Return, state, counters
  <2>2. Has(sent, "room") /\ m \in PlainMessages(m.type, sent)
    BY <1>5 DEF Says, Pointed
  <2>3. /\ DOMAIN j \subseteq {"type", "room", "seq", "author", "id"}
        /\ j.type = Str(m.type) /\ j.room = Whole(RoomNo)
    BY <2>1, EndLine, ClearLine
  <2> HIDE DEF j
  <2>4. SameField(sent.room, j.room)
    BY <2>2, <2>3, RoomReturns DEF PlainMessages
  <2>5. Returned(sent, j)
    BY <1>1, <2>3, <2>4 DEF Returned, RequestFields
  <2> QED
    BY <2>5 DEF j
<1> QED
  BY <1>2, <1>3, <1>4, <1>5 DEF Applies

(* Every event is relayed as its author sent it, whatever the line and     *)
(* whatever happened before.                                               *)
THEOREM RelayedCorrect == WireSpec => RelayedAsSent
<1> DEFINE asSent ==
             nextSeq' # nextSeq =>
               LET sent == input'.line.obj
                   relayed == Wire(out'[1]).obj
               IN  sent.type # Str("leave_room") /\ Representable(sent) =>
                     \A k \in RequestFields \cap DOMAIN sent \cap DOMAIN relayed :
                       SameField(sent[k], relayed[k])
<1>1. Inv /\ [WireNext]_wireVars => [asSent]_wireVars
  <2> SUFFICES ASSUME Inv, WireNext, nextSeq' # nextSeq,
                      input'.line.obj.type # Str("leave_room"),
                      Representable(input'.line.obj)
               PROVE  Returned(input'.line.obj, Wire(out'[1]).obj)
    BY DEF Returned
  <2>1. nextSeq \in Nat
    BY DEF Inv, TypeOK
  <2>2. ~Tick
    BY DEF Tick, counters
  <2>3. PICK c \in Clients, line \in Lines : HandleLine(c, line)
    BY <2>2 DEF WireNext
  <2>4. input'.line = line
    BY <2>3 DEF HandleLine
  <2>5. ~Ignored /\ ~Joined(c)
    BY DEF Ignored, Joined, Join, state, counters
  <2>6. PICK m : Says(m, line.obj) /\ m.room = RoomNo /\ Applies(c, m)
    BY <2>3, <2>4, <2>5, LineCalls
  <2> QED
    BY <2>1, <2>4, <2>6, ApplyReturns
<1>2. WireInit => Inv
  BY InitInv DEF WireInit
<1> QED
  BY <1>1, <1>2, WireRoomInv, PTL DEF WireSpec, RelayedAsSent

=============================================================================
