---------------------------- MODULE RoomProtocol ----------------------------
(***************************************************************************)
(* The abstract specification of a room: a sequence of calls, each with    *)
(* one of the outcomes RoomCalls allows.                                   *)
(***************************************************************************)
EXTENDS RoomCalls

CONSTANT Clients

VARIABLES
  room,    \* members, drawing and nextSeq
  events,  \* the events the last call broadcast
  err      \* the error it returned, or "none"

vars == <<room, events, err>>

Init == room = NewRoom /\ events = <<>> /\ err = "none"

Answer(o) == room' = o.room /\ events' = o.events /\ err' = o.err

Call(c) ==
  \/ Answer(JoinCall(room, c))
  \/ Answer(LeaveCall(room, c))
  \/ \E kind \in EventKinds : \E o \in ApplyCall(room, c, kind) : Answer(o)

(* Time passes without a call.                                             *)
Quiet == room' = room /\ events' = <<>> /\ err' = "none"

Next == Quiet \/ \E c \in Clients : Call(c)

Spec == Init /\ [][Next]_vars

=============================================================================
