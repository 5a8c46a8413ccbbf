----------------------------- MODULE MCRoomWire -----------------------------
(* Two clients that send well and badly formed lines to a room, for TLC.   *)
EXTENDS RoomWire

(* The last line, what it was answered and what the call returned decide   *)
(* nothing that comes after them.                                          *)
WireView == <<state, heard>>

WireStyles == [color : Colors, thickness : Thicknesses]

WirePoints == [x : Floats, y : Floats]

With(f, key, value) == [k \in DOMAIN f \cup {key} |-> IF k = key THEN value ELSE f[k]]

XY(x, y) == Obj([x |-> x, y |-> y])

InRoom(type) == [type |-> Str(type), room |-> Whole(1)]

Begin == [type |-> Str("stroke_begin"), room |-> Whole(1), color |-> Whole(1),
          thickness |-> Whole(2), start |-> XY(Whole(1), Real(5))]

Point == [type |-> Str("stroke_point"), room |-> Whole(1), point |-> XY(Real(3), Bool(TRUE))]

Cursor == [type |-> Str("cursor_move"), room |-> Whole(1), point |-> XY(Whole(0), Whole(2))]

(* Requests that are in order.                                             *)
GoodObjects ==
  {[type |-> Str("ping")], Begin, Point, Cursor}
  \cup {InRoom(t) : t \in {"join_room", "leave_room", "stroke_end", "clear"}}

(* Numbers at and beyond the limits of their types, other types, fields    *)
(* that are missing, and one that nobody reads.                            *)
OddObjects ==
  {With(Begin, "color", v) : v \in {Whole(3), Whole(4), Whole(ByteSize), Real(9),
                                       Real(4 * LongSize), Str("red")}}
  \cup {With(Begin, "thickness", v) : v \in {Whole(3), Whole(-1), Bool(FALSE)}}
  \cup {With(Begin, "start", v) : v \in {Null, Obj([x |-> Whole(1)]), XY(Whole(1), Str("2"))}}
  \cup {With(Point, "point", XY(Whole(FloatMax), Whole(0))), With(Point, "seq", Whole(0))}
  \cup {With(InRoom("clear"), "room", v) : v \in {Whole(0), Whole(-1), Bool(TRUE)}}
  \cup {With(InRoom("join_room"), "room", v) : v \in {Whole(2), Real(6)}}
  \cup {[type |-> Str("stroke_end")], [type |-> Str("dance")], [type |-> Whole(1)],
        [room |-> Whole(1)]}

OddLines == {Obj(o) : o \in GoodObjects \cup OddObjects} \cup {NotJson, Arr(<<>>)}

(* Colours that wrap around in unsigned int.                               *)
WideLines ==
  {Obj(o) : o \in GoodObjects}
  \cup {Obj(With(Begin, "color", Whole(n))) : n \in {ByteSize, WordSize - 1, WordSize + 1}}

=============================================================================
