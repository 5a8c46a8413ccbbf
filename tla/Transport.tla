----------------------------- MODULE Transport -----------------------------
(***************************************************************************)
(* The transport layer: transport/src/json_protocol.cpp, which turns a     *)
(* line into a message and a message into a line, and mappers.cpp, which   *)
(* translates between messages and the types of the core.                  *)
(*                                                                         *)
(* A JSON value is a record with one field that is named for its type.     *)
(* Numbers keep what the conversions depend on: whether the parser has     *)
(* them as integers, and whether the C++ type can hold them.  A number it  *)
(* has as a double is given in quarters, and the model's float holds       *)
(* halves, so that a conversion to float may round.  A conversion yields   *)
(* the set of its outcomes: none if it throws, several if it is undefined. *)
(***************************************************************************)
EXTENDS Integers, SequencesExt

CONSTANTS
  ByteSize,  \* 2^8: values of std::uint8_t
  WordSize,  \* 2^32: values of unsigned int
  LongSize,  \* 2^64: values of std::uint64_t
  FloatMax,  \* the largest float, in quarters
  Inf,       \* a float that is not finite
  NotJson    \* a line that is no JSON text

ASSUME TransportAssumption ==
  /\ ByteSize \in Nat /\ WordSize \in Nat /\ LongSize \in Nat /\ FloatMax \in Nat
  /\ 4 <= ByteSize /\ ByteSize <= WordSize /\ WordSize <= LongSize
  /\ 4 <= FloatMax  \* a float can be 1
  /\ Inf \notin Int

Whole(n) == [int |-> n]
Real(q) == [real |-> q]
Str(s) == [str |-> s]
Bool(b) == [bool |-> b]
Arr(s) == [arr |-> s]
Obj(f) == [obj |-> f]
Null == [null |-> TRUE]

Is(type, j) == type \in DOMAIN j

(* The integers that the parser keeps as such, in std::int64_t or          *)
(* std::uint64_t.  It makes a double of any larger one, as of a number     *)
(* with a fraction.                                                        *)
JsonInt == -(LongSize \div 2) .. LongSize - 1

(* A JSON value has one type; what an object or an array holds is left     *)
(* open.                                                                   *)
IsJson(j) ==
  \/ j \in [int : JsonInt] \cup [real : Int] \cup [bool : BOOLEAN] \cup {Null}
  \/ Is("str", j) /\ j = Str(j.str)
  \/ Is("arr", j) /\ j = Arr(j.arr)
  \/ Is("obj", j) /\ j = Obj(j.obj)

(* Expected<T, E>: a value or an error.                                    *)
Value(v) == [value |-> v]
Error(code) == [error |-> code]
Failed(e) == "error" \in DOMAIN e

-----------------------------------------------------------------------------
(* The conversions of the JSON library, json::get<T>().                    *)

Trunc(q) == IF q >= 0 THEN q \div 4 ELSE -((-q) \div 4)

(* To an unsigned type: integers wrap; the fraction of a double is cut     *)
(* off, and it is undefined what becomes of one that is out of range.      *)
ToUnsigned(j, size) ==
  CASE Is("int", j) -> {j.int % size}
    [] Is("real", j) -> IF Trunc(j.real) \in 0 .. size - 1
                        THEN {Trunc(j.real)} ELSE 0 .. size - 1
    [] OTHER -> {}

FromBool(j, one) ==
  IF Is("bool", j) THEN {IF j.bool THEN one ELSE 0} ELSE {}

(* unsigned int and float also take a boolean; std::uint64_t does not.     *)
ToWord(j) == ToUnsigned(j, WordSize) \cup FromBool(j, 1)

Round(q) ==
  LET r == 2 * ((q + 1) \div 2)
  IN  IF r \in -FloatMax .. FloatMax THEN r ELSE Inf

ToFloat(j) ==
  CASE Is("int", j) -> {Round(4 * j.int)}
    [] Is("real", j) -> {Round(j.real)}
    [] OTHER -> FromBool(j, 4)

(* A float that is not finite is written as null.                          *)
FloatJson(f) == IF f = Inf THEN Null ELSE Real(f)

Floats == {q \in -FloatMax .. FloatMax : q % 2 = 0} \cup {Inf}

-----------------------------------------------------------------------------
(* parseClientMessage()                                                    *)

(* json::get<T>() of a field, by the type T.                               *)
Get(type, j) ==
  CASE type = "float" -> ToFloat(j)
    [] type = "word" -> ToWord(j)
    [] type = "long" -> ToUnsigned(j, LongSize)

(* getRequired<T>(): the error it returns, or "none".                      *)
RequiredError(object, key, type) ==
  IF key \notin DOMAIN object THEN "MissingField"
  ELSE IF Get(type, object[key]) = {} THEN "InvalidFieldType"
  ELSE "none"

(* The first error of a sequence of fields, in the order they are read.    *)
FirstError(errors) ==
  LET failing == {i \in DOMAIN errors : errors[i] # "none"}
  IN  IF failing = {} THEN "none" ELSE errors[Min(failing)]

PointError(object, key) ==
  IF key \notin DOMAIN object THEN "MissingField"
  ELSE IF ~Is("obj", object[key]) THEN "InvalidFieldType"
  ELSE FirstError(<<RequiredError(object[key].obj, "x", "float"),
                    RequiredError(object[key].obj, "y", "float")>>)

ToPoint(j) == [x : Get("float", j.obj.x), y : Get("float", j.obj.y)]

RoomIdOf(j) == Get("long", j)

(* What a message needs besides its type and room.                         *)
FieldErrors(type, object) ==
  CASE type \in {"ping", "create_room"} -> <<>>
    [] type \in {"join_room", "leave_room", "stroke_end", "clear"} ->
         <<RequiredError(object, "room", "long")>>
    [] type \in {"stroke_point", "cursor_move"} ->
         <<RequiredError(object, "room", "long"), PointError(object, "point")>>
    [] type = "stroke_begin" ->
         <<RequiredError(object, "room", "long"),
           RequiredError(object, "color", "word"),
           RequiredError(object, "thickness", "word"),
           PointError(object, "start")>>
    [] OTHER -> <<"UnknownMessageType">>

(* The messages that an object without such errors may become.             *)
Messages(type, object) ==
  CASE type \in {"ping", "create_room"} -> [type : {type}]
    [] type \in {"join_room", "leave_room", "stroke_end", "clear"} ->
         [type : {type}, room : RoomIdOf(object.room)]
    [] type \in {"stroke_point", "cursor_move"} ->
         [type : {type}, room : RoomIdOf(object.room), point : ToPoint(object.point)]
    [] type = "stroke_begin" ->
         [type : {type}, room : RoomIdOf(object.room), color : Get("word", object.color),
          thickness : Get("word", object.thickness), start : ToPoint(object.start)]

(* Colour and thickness are made std::uint8_t only if they fit.            *)
Narrow(m) ==
  IF m.type = "stroke_begin" /\ (m.color >= ByteSize \/ m.thickness >= ByteSize)
  THEN Error("InvalidFieldType") ELSE Value(m)

ParseObject(object) ==
  LET type == object.type.str
      error == FirstError(FieldErrors(type, object))
  IN  IF error # "none" THEN {Error(error)}
      ELSE {Narrow(m) : m \in Messages(type, object)}

ParseClientMessage(line) ==
  IF line = NotJson THEN {Error("InvalidJson")}
  ELSE IF ~Is("obj", line) THEN {Error("InvalidJson")}
  ELSE IF "type" \notin DOMAIN line.obj THEN {Error("MissingField")}
  ELSE IF ~Is("str", line.obj.type) THEN {Error("InvalidFieldType")}
  ELSE ParseObject(line.obj)

-----------------------------------------------------------------------------
(* mappers.cpp: from a message to an event of the core ...                 *)

Colors == 0 .. 3       \* Black, Red, Green, Blue
Thicknesses == 0 .. 2  \* Thin, Medium, Thick

(* Faulty variant: the first number that is no colour passes.              *)
ToColorOffByOne(n) == IF n > 4 THEN Error("InvalidParams") ELSE Value(n)

ToColor(n) == IF n > 3 THEN Error("InvalidParams") ELSE Value(n)

ToThickness(n) == IF n > 2 THEN Error("InvalidParams") ELSE Value(n)

ToCoreEvent(m) ==
  CASE m.type = "stroke_begin" ->
         IF Failed(ToColor(m.color)) THEN ToColor(m.color)
         ELSE IF Failed(ToThickness(m.thickness)) THEN ToThickness(m.thickness)
         ELSE Value([kind |-> "StrokeBegin", point |-> m.start,
                     style |-> [color |-> ToColor(m.color).value,
                                thickness |-> ToThickness(m.thickness).value]])
    [] m.type = "stroke_point" -> Value([kind |-> "StrokePoint", point |-> m.point])
    [] m.type = "stroke_end" -> Value([kind |-> "StrokeEnd"])
    [] m.type = "cursor_move" -> Value([kind |-> "CursorMove", point |-> m.point])
    [] m.type = "clear" -> Value([kind |-> "Clear"])

(* ... and back: errors, events, strokes and snapshots.                    *)
ErrorCodeToString(code) ==
  CASE code = "RoomNotFound" -> "room_not_found"
    [] code = "NotInRoom" -> "not_in_room"
    [] code = "ProtocolViolation" -> "protocol_violation"
    [] OTHER -> "invalid_params"

ToErrorMessage(code) == [type |-> "error", code |-> ErrorCodeToString(code)]

(* Faulty variant: colour and thickness change places.                     *)
BeginMessageSwapped(room, seq, e) ==
  [type |-> "stroke_begin", room |-> room, seq |-> seq, author |-> e.author,
   id |-> e.id, strokeOrder |-> e.strokeOrder, color |-> e.style.thickness,
   thickness |-> e.style.color, start |-> e.point]

BeginMessage(room, seq, e) ==
  [type |-> "stroke_begin", room |-> room, seq |-> seq, author |-> e.author,
   id |-> e.id, strokeOrder |-> e.strokeOrder, color |-> e.style.color,
   thickness |-> e.style.thickness, start |-> e.point]

ToServerMessage(room, seq, e) ==
  CASE e.kind = "StrokeBegin" -> BeginMessage(room, seq, e)
    [] e.kind = "StrokePoint" ->
         [type |-> "stroke_point", room |-> room, seq |-> seq, author |-> e.author,
          id |-> e.id, point |-> e.point]
    [] e.kind = "StrokeEnd" ->
         [type |-> "stroke_end", room |-> room, seq |-> seq, author |-> e.author,
          id |-> e.id]
    [] e.kind = "CursorMove" ->
         [type |-> "cursor_move", room |-> room, seq |-> seq, author |-> e.author,
          point |-> e.point]
    [] e.kind = "Clear" ->
         [type |-> "clear", room |-> room, seq |-> seq, author |-> e.author]
    [] e.kind = "MemberLeft" ->
         [type |-> "member_left", room |-> room, seq |-> seq, client |-> e.author]

(* Faulty variant: every stroke of a snapshot is shown as finished.        *)
FromCoreStrokeFinished(s) ==
  [id |-> s.id, author |-> s.author, color |-> s.style.color,
   thickness |-> s.style.thickness, strokeOrder |-> s.strokeOrder,
   points |-> s.points, finished |-> TRUE]

FromCoreStroke(s) ==
  [id |-> s.id, author |-> s.author, color |-> s.style.color,
   thickness |-> s.style.thickness, strokeOrder |-> s.strokeOrder,
   points |-> s.points, finished |-> s.finished]

(* std::sort of a set of client ids.                                       *)
Sorted(ids) ==
  CHOOSE s \in SetToSeqs(ids) : \A i, j \in DOMAIN s : i < j => s[i] < s[j]

(* Members and cursors are sorted by client id.                            *)
ToSnapshotMessage(room, s) ==
  LET byId == Sorted(DOMAIN s.cursors)
  IN  [type |-> "room_snapshot", room |-> room, lastSeq |-> s.lastSeq,
       members |-> Sorted(s.members),
       strokes |-> [i \in DOMAIN s.strokes |-> FromCoreStroke(s.strokes[i])],
       cursors |-> [i \in DOMAIN byId |->
                      [client |-> byId[i], point |-> s.cursors[byId[i]]]]]

-----------------------------------------------------------------------------
(* serializeServerMessage()                                                *)

MakePointJson(p) == Obj([x |-> FloatJson(p.x), y |-> FloatJson(p.y)])

MakeStrokeJson(s) ==
  Obj([id |-> Whole(s.id), author |-> Whole(s.author), color |-> Whole(s.color),
       thickness |-> Whole(s.thickness), stroke_order |-> Whole(s.strokeOrder),
       points |-> Arr([i \in DOMAIN s.points |-> MakePointJson(s.points[i])]),
       finished |-> Bool(s.finished)])

MakeCursorJson(c) == Obj([client |-> Whole(c.client), point |-> MakePointJson(c.point)])

ArrOf(s, Json(_)) == Arr([i \in DOMAIN s |-> Json(s[i])])

(* The name and the JSON value of a member of a message.                   *)
KeyOf(field) ==
  CASE field = "strokeOrder" -> "stroke_order"
    [] field = "lastSeq" -> "last_seq"
    [] OTHER -> field

FieldJson(field, v) ==
  CASE field \in {"type", "request", "code"} -> Str(v)
    [] field \in {"start", "point"} -> MakePointJson(v)
    [] field = "members" -> ArrOf(v, Whole)
    [] field = "strokes" -> ArrOf(v, MakeStrokeJson)
    [] field = "cursors" -> ArrOf(v, MakeCursorJson)
    [] OTHER -> Whole(v)

SerializeServerMessage(m) ==
  Obj([key \in {KeyOf(f) : f \in DOMAIN m} |->
         LET f == CHOOSE f \in DOMAIN m : KeyOf(f) = key IN FieldJson(f, m[f])])

=============================================================================
