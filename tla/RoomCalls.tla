------------------------------ MODULE RoomCalls ------------------------------
(***************************************************************************)
(* What a room promises to the server around it, without the board: who is *)
(* a member, who is drawing, and which events, numbered by one counter, a  *)
(* call broadcasts to whom.  A call is a function from the room to its     *)
(* outcome: the room afterwards, the events, and the error code.  Room.tla *)
(* is shown to implement this in RoomRefinement.tla; Sessions.tla builds   *)
(* on it.                                                                  *)
(***************************************************************************)
EXTENDS Integers, Sequences

(* The events a client may send; leave() broadcasts MemberLeft as well.    *)
EventKinds == {"StrokeBegin", "StrokePoint", "StrokeEnd", "CursorMove", "Clear"}

NewRoom == [members |-> {}, drawing |-> {}, nextSeq |-> 1]

Refused(rm, code) == [room |-> rm, events |-> <<>>, err |-> code]

(* The events of the given kinds, numbered in order, from c to the others. *)
Events(rm, c, kinds) ==
  [i \in DOMAIN kinds |->
     [seq |-> rm.nextSeq + i - 1, kind |-> kinds[i], author |-> c,
      to |-> rm.members \ {c}]]

Accepted(rm, c, kinds, members, drawing) ==
  [room |-> [members |-> members, drawing |-> drawing,
             nextSeq |-> rm.nextSeq + Len(kinds)],
   events |-> Events(rm, c, kinds), err |-> "none"]

JoinCall(rm, c) == Accepted(rm, c, <<>>, rm.members \cup {c}, rm.drawing)

(* Faulty variant: a client that left still counts as drawing.             *)
LeaveStillDrawing(rm, c) ==
  IF c \notin rm.members
  THEN Refused(rm, "NotInRoom")
  ELSE Accepted(rm, c, <<"MemberLeft">>, rm.members \ {c}, rm.drawing)

(* A client that leaves in mid-stroke has its stroke ended first.          *)
LeaveCall(rm, c) ==
  IF c \notin rm.members
  THEN Refused(rm, "NotInRoom")
  ELSE Accepted(rm, c,
                IF c \in rm.drawing THEN <<"StrokeEnd", "MemberLeft">>
                                    ELSE <<"MemberLeft">>,
                rm.members \ {c}, rm.drawing \ {c})

(* A stroke is begun, extended and ended, in this order.                   *)
InProtocol(rm, c, kind) ==
  CASE kind = "StrokeBegin" -> c \notin rm.drawing
    [] kind \in {"StrokePoint", "StrokeEnd"} -> c \in rm.drawing
    [] OTHER -> TRUE

DrawingAfter(rm, c, kind) ==
  CASE kind = "StrokeBegin" -> rm.drawing \cup {c}
    [] kind = "StrokeEnd" -> rm.drawing \ {c}
    [] kind = "Clear" -> {}
    [] OTHER -> rm.drawing

(* The outcomes of apply(): a cursor move may also be dropped.             *)
ApplyCall(rm, c, kind) ==
  IF c \notin rm.members THEN {Refused(rm, "NotInRoom")}
  ELSE IF ~InProtocol(rm, c, kind) THEN {Refused(rm, "ProtocolViolation")}
  ELSE {Accepted(rm, c, <<kind>>, rm.members, DrawingAfter(rm, c, kind))}
       \cup (IF kind = "CursorMove"
             THEN {Accepted(rm, c, <<>>, rm.members, rm.drawing)} ELSE {})

=============================================================================
