-------------------------------- MODULE Room --------------------------------
(***************************************************************************)
(* One room of the ClearSpace core (core/src/room.cpp).  Every public      *)
(* method of class Room holds mutex_ from its first to its last line, so   *)
(* each call is one atomic step here.  The variables are the data members  *)
(* of the class; the unordered_maps are functions whose domain is the set  *)
(* of keys present.                                                        *)
(*                                                                         *)
(* `out' and `err' are what the last call returned: the broadcasts it made *)
(* (one record per broadcast_ call, `to' being the set of recipients, for  *)
(* the order within one broadcast is the iteration order of an             *)
(* unordered_set), or the code of the Error it returned.                   *)
(***************************************************************************)
EXTENDS Integers, Sequences, Functions

CONSTANTS
  Clients,            \* client ids
  Points,             \* board coordinates
  Styles,             \* a pair of Color and Thickness
  MinInterval,        \* config::kCursorMinInterval, in ticks of `now'
  MaxSeq,             \* bound: sequence numbers the room hands out
  MaxTime             \* bound: ticks of the clock

ASSUME RoomAssumption ==
  /\ MinInterval \in Nat
  /\ MaxSeq \in Nat
  /\ MaxTime \in Nat

VARIABLES
  members,               \* members_
  strokes,               \* board_.strokes
  cursors,               \* board_.cursors
  nextSeq,               \* nextSeq_
  nextStrokeId,          \* nextStrokeId_
  lastCursorUpdate,      \* lastCursorUpdate_
  activeStrokeByClient,  \* activeStrokeByClient_
  strokeIndexById,       \* strokeIndexById_
  now,                   \* what timeProvider_->now() reads
  out,                   \* events returned by the last call
  err                    \* error returned by the last call, or "none"

board == <<strokes, cursors>>
counters == <<nextSeq, nextStrokeId>>
maps == <<lastCursorUpdate, activeStrokeByClient, strokeIndexById>>
state == <<members, board, counters, maps, now>>
vars == <<state, out, err>>

-----------------------------------------------------------------------------
(* Map operations of std::unordered_map: m[k] = v and m.erase(k).          *)

Put(m, k, v) == [x \in DOMAIN m \cup {k} |-> IF x = k THEN v ELSE m[x]]

Erase(m, k) == Restrict(m, DOMAIN m \ {k})

EmptyMap == [x \in {} |-> 0]

(* The Seq numbers [nextSeq, nextSeq + n) are still within the bound.      *)
SeqsLeft(n) == nextSeq + n <= MaxSeq + 1

-----------------------------------------------------------------------------
(* The payloads of core/events.hpp.                                        *)

(* Faulty variant: the id is sent as the order.                            *)
BeginOutIdAsOrder(c, id, order, st, p) ==
  [kind |-> "StrokeBegin", author |-> c, id |-> id, strokeOrder |-> id,
   style |-> st, point |-> p]

StrokeBeginOut(c, id, order, st, p) ==
  [kind |-> "StrokeBegin", author |-> c, id |-> id, strokeOrder |-> order,
   style |-> st, point |-> p]

StrokePointOut(c, id, p) ==
  [kind |-> "StrokePoint", author |-> c, id |-> id, point |-> p]

StrokeEndOut(c, id) == [kind |-> "StrokeEnd", author |-> c, id |-> id]

CursorMoveOut(c, p) == [kind |-> "CursorMove", author |-> c, point |-> p]

ClearOut(c) == [kind |-> "Clear", author |-> c]

MemberLeftOut(c) == [kind |-> "MemberLeft", author |-> c]

(* broadcast_: everybody in the room except the client it comes from.      *)
Broadcast(from, seq, payload) ==
  [seq |-> seq, to |-> members \ {from}, payload |-> payload]

(* The call succeeded and returns the events `es'.                         *)
Return(es) == out' = es /\ err' = "none"

(* The call returned an Error before it changed anything.                  *)
Refuse(code) == out' = <<>> /\ err' = code /\ UNCHANGED state

-----------------------------------------------------------------------------
(* Faulty variant: numbering starts at zero.                               *)
InitFromZero ==
  /\ members = {} /\ strokes = <<>> /\ cursors = EmptyMap
  /\ nextSeq = 0 /\ nextStrokeId = 1
  /\ lastCursorUpdate = EmptyMap /\ activeStrokeByClient = EmptyMap
  /\ strokeIndexById = EmptyMap
  /\ now = 0 /\ out = <<>> /\ err = "none"

Init ==
  /\ members = {}
  /\ strokes = <<>>
  /\ cursors = EmptyMap
  /\ nextSeq = 1
  /\ nextStrokeId = 1
  /\ lastCursorUpdate = EmptyMap
  /\ activeStrokeByClient = EmptyMap
  /\ strokeIndexById = EmptyMap
  /\ now = 0
  /\ out = <<>>
  /\ err = "none"

(* The snapshot Room::join returns; a repeated join only re-reads it.      *)
LastSeq == nextSeq - 1

Snapshot ==
  [lastSeq |-> LastSeq, strokes |-> strokes, cursors |-> cursors,
   members |-> members]

Join(c) ==
  /\ members' = members \cup {c}
  /\ Return(<<>>)
  /\ UNCHANGED <<board, counters, maps, now>>

(* The client has a stroke in progress that the room can find.             *)
HasStroke(c) ==
  /\ c \in DOMAIN activeStrokeByClient
  /\ activeStrokeByClient[c] \in DOMAIN strokeIndexById

(* Index on the board of the client's stroke in progress.                  *)
ActiveIndex(c) == strokeIndexById[activeStrokeByClient[c]]

(* What leave() and apply() answer to a client that is not in the room.    *)
NotInRoom(c) ==
  /\ c \notin members
  /\ Refuse("NotInRoom")

(* leave() by a client with no stroke in progress.                         *)
LeaveIdle(c) ==
  /\ c \notin DOMAIN activeStrokeByClient
  /\ SeqsLeft(1)
  /\ nextSeq' = nextSeq + 1
  /\ Return(<<Broadcast(c, nextSeq, MemberLeftOut(c))>>)
  /\ UNCHANGED <<strokes, activeStrokeByClient>>

(* Faulty variant: the stroke is given up, but not marked finished.        *)
LeaveUnfinished(c) ==
  /\ c \in DOMAIN activeStrokeByClient
  /\ SeqsLeft(2)
  /\ activeStrokeByClient' = Erase(activeStrokeByClient, c)
  /\ nextSeq' = nextSeq + 2
  /\ Return(<<Broadcast(c, nextSeq, StrokeEndOut(c, activeStrokeByClient[c])),
              Broadcast(c, nextSeq + 1, MemberLeftOut(c))>>)
  /\ UNCHANGED strokes

(* Faulty variant: the departure is announced before the end of the stroke.*)
LeaveThenEnd(c) ==
  /\ c \in DOMAIN activeStrokeByClient
  /\ SeqsLeft(2)
  /\ strokes' = [strokes EXCEPT ![ActiveIndex(c)].finished = TRUE]
  /\ activeStrokeByClient' = Erase(activeStrokeByClient, c)
  /\ nextSeq' = nextSeq + 2
  /\ Return(<<Broadcast(c, nextSeq, MemberLeftOut(c)),
              Broadcast(c, nextSeq + 1, StrokeEndOut(c, activeStrokeByClient[c]))>>)

(* leave() in mid-stroke: the stroke is finished on the client's behalf,   *)
(* and the others are told so before they are told that it left.           *)
LeaveDrawing(c) ==
  /\ c \in DOMAIN activeStrokeByClient
  /\ SeqsLeft(2)
  /\ strokes' = IF HasStroke(c)
                THEN [strokes EXCEPT ![ActiveIndex(c)].finished = TRUE]
                ELSE strokes
  /\ activeStrokeByClient' = Erase(activeStrokeByClient, c)
  /\ nextSeq' = nextSeq + 2
  /\ Return(<<Broadcast(c, nextSeq, StrokeEndOut(c, activeStrokeByClient[c])),
              Broadcast(c, nextSeq + 1, MemberLeftOut(c))>>)

(* Faulty variant: the cursor stays on the board.                          *)
LeaveKeepsCursor(c) ==
  /\ c \in members
  /\ LeaveIdle(c) \/ LeaveDrawing(c)
  /\ members' = members \ {c}
  /\ UNCHANGED <<cursors, lastCursorUpdate, nextStrokeId, strokeIndexById, now>>

Leave(c) ==
  /\ c \in members
  /\ LeaveIdle(c) \/ LeaveDrawing(c)
  /\ members' = members \ {c}
  /\ cursors' = Erase(cursors, c)
  /\ lastCursorUpdate' = Erase(lastCursorUpdate, c)
  /\ UNCHANGED <<nextStrokeId, strokeIndexById, now>>

-----------------------------------------------------------------------------
(* The five cases of Room::apply.                                          *)

(* Faulty variant: the order of the stroke is read after the increment.    *)
BeginLateOrder(c, st, p) ==
  /\ c \in members
  /\ c \notin DOMAIN activeStrokeByClient
  /\ SeqsLeft(1)
  /\ nextSeq' = nextSeq + 1
  /\ nextStrokeId' = nextStrokeId + 1
  /\ strokes' = Append(strokes,
                       [id |-> nextStrokeId, author |-> c, style |-> st,
                        strokeOrder |-> nextSeq', points |-> <<p>>,
                        finished |-> FALSE])
  /\ strokeIndexById' = Put(strokeIndexById, nextStrokeId, Len(strokes) + 1)
  /\ activeStrokeByClient' = Put(activeStrokeByClient, c, nextStrokeId)
  /\ Return(<<Broadcast(c, nextSeq,
                        StrokeBeginOut(c, nextStrokeId, nextSeq', st, p))>>)
  /\ UNCHANGED <<members, cursors, lastCursorUpdate, now>>

ApplyStrokeBegin(c, st, p) ==
  /\ c \in members
  /\ \/ /\ c \in DOMAIN activeStrokeByClient
        /\ Refuse("ProtocolViolation")
     \/ /\ c \notin DOMAIN activeStrokeByClient
        /\ SeqsLeft(1)
        /\ nextSeq' = nextSeq + 1
        /\ nextStrokeId' = nextStrokeId + 1
        /\ strokes' = Append(strokes,
                             [id |-> nextStrokeId, author |-> c, style |-> st,
                              strokeOrder |-> nextSeq, points |-> <<p>>,
                              finished |-> FALSE])
        /\ strokeIndexById' = Put(strokeIndexById, nextStrokeId, Len(strokes) + 1)
        /\ activeStrokeByClient' = Put(activeStrokeByClient, c, nextStrokeId)
        /\ Return(<<Broadcast(c, nextSeq,
                              StrokeBeginOut(c, nextStrokeId, nextSeq, st, p))>>)
        /\ UNCHANGED <<members, cursors, lastCursorUpdate, now>>

ApplyStrokePoint(c, p) ==
  /\ c \in members
  /\ \/ ~HasStroke(c) /\ Refuse("ProtocolViolation")
     \/ /\ HasStroke(c)
        /\ SeqsLeft(1)
        /\ strokes' = [strokes EXCEPT ![ActiveIndex(c)].points = Append(@, p)]
        /\ nextSeq' = nextSeq + 1
        /\ Return(<<Broadcast(c, nextSeq,
                              StrokePointOut(c, activeStrokeByClient[c], p))>>)
        /\ UNCHANGED <<members, cursors, nextStrokeId, maps, now>>

(* Faulty variant: the client is still drawing the stroke that ended.      *)
EndKeepsDrawing(c) ==
  /\ c \in members
  /\ HasStroke(c)
  /\ SeqsLeft(1)
  /\ strokes' = [strokes EXCEPT ![ActiveIndex(c)].finished = TRUE]
  /\ nextSeq' = nextSeq + 1
  /\ Return(<<Broadcast(c, nextSeq, StrokeEndOut(c, activeStrokeByClient[c]))>>)
  /\ UNCHANGED <<members, cursors, nextStrokeId, maps, now>>

ApplyStrokeEnd(c) ==
  /\ c \in members
  /\ \/ ~HasStroke(c) /\ Refuse("ProtocolViolation")
     \/ /\ HasStroke(c)
        /\ SeqsLeft(1)
        /\ strokes' = [strokes EXCEPT ![ActiveIndex(c)].finished = TRUE]
        /\ activeStrokeByClient' = Erase(activeStrokeByClient, c)
        /\ nextSeq' = nextSeq + 1
        /\ Return(<<Broadcast(c, nextSeq, StrokeEndOut(c, activeStrokeByClient[c]))>>)
        /\ UNCHANGED <<members, cursors, nextStrokeId, lastCursorUpdate,
                       strokeIndexById, now>>

(* Faulty variant: a move at exactly the interval is dropped too.          *)
TooSoonAtInterval(c) ==
  /\ c \in DOMAIN lastCursorUpdate
  /\ now - lastCursorUpdate[c] <= MinInterval

(* A move that comes less than MinInterval after the previous one is       *)
(* dropped: no Seq is used and an empty vector is returned.                *)
TooSoon(c) ==
  /\ c \in DOMAIN lastCursorUpdate
  /\ now - lastCursorUpdate[c] < MinInterval

(* Faulty variant: a dropped move uses up a sequence number.               *)
CursorMoveCounted(c, p) ==
  /\ c \in members
  /\ SeqsLeft(1)
  /\ nextSeq' = nextSeq + 1
  /\ IF TooSoon(c)
     THEN Return(<<>>) /\ UNCHANGED <<lastCursorUpdate, cursors>>
     ELSE /\ lastCursorUpdate' = Put(lastCursorUpdate, c, now)
          /\ cursors' = Put(cursors, c, p)
          /\ Return(<<Broadcast(c, nextSeq, CursorMoveOut(c, p))>>)
  /\ UNCHANGED <<members, strokes, nextStrokeId, activeStrokeByClient,
                 strokeIndexById, now>>

ApplyCursorMove(c, p) ==
  /\ c \in members
  /\ \/ TooSoon(c) /\ Return(<<>>) /\ UNCHANGED state
     \/ /\ ~TooSoon(c)
        /\ SeqsLeft(1)
        /\ lastCursorUpdate' = Put(lastCursorUpdate, c, now)
        /\ cursors' = Put(cursors, c, p)
        /\ nextSeq' = nextSeq + 1
        /\ Return(<<Broadcast(c, nextSeq, CursorMoveOut(c, p))>>)
        /\ UNCHANGED <<members, strokes, nextStrokeId, activeStrokeByClient,
                       strokeIndexById, now>>

(* Faulty variants: the index, or the strokes in progress, survive.        *)
ClearKeepsIndex(c) ==
  /\ c \in members
  /\ SeqsLeft(1)
  /\ strokes' = <<>>
  /\ activeStrokeByClient' = EmptyMap
  /\ nextSeq' = nextSeq + 1
  /\ Return(<<Broadcast(c, nextSeq, ClearOut(c))>>)
  /\ UNCHANGED <<members, cursors, nextStrokeId, lastCursorUpdate,
                 strokeIndexById, now>>

ClearKeepsDrawing(c) ==
  /\ c \in members
  /\ SeqsLeft(1)
  /\ strokes' = <<>>
  /\ strokeIndexById' = EmptyMap
  /\ nextSeq' = nextSeq + 1
  /\ Return(<<Broadcast(c, nextSeq, ClearOut(c))>>)
  /\ UNCHANGED <<members, cursors, nextStrokeId, lastCursorUpdate,
                 activeStrokeByClient, now>>

ApplyClear(c) ==
  /\ c \in members
  /\ SeqsLeft(1)
  /\ strokes' = <<>>
  /\ activeStrokeByClient' = EmptyMap
  /\ strokeIndexById' = EmptyMap
  /\ nextSeq' = nextSeq + 1
  /\ Return(<<Broadcast(c, nextSeq, ClearOut(c))>>)
  /\ UNCHANGED <<members, cursors, nextStrokeId, lastCursorUpdate, now>>

(* The steady clock advances; no call returns anything.                    *)
Tick ==
  /\ now < MaxTime
  /\ now' = now + 1
  /\ Return(<<>>)
  /\ UNCHANGED <<members, board, counters, maps>>

Apply(c) ==
  \/ \E p \in Points, st \in Styles : ApplyStrokeBegin(c, st, p)
  \/ \E p \in Points : ApplyStrokePoint(c, p)
  \/ ApplyStrokeEnd(c)
  \/ \E p \in Points : ApplyCursorMove(c, p)
  \/ ApplyClear(c)

Call(c) == Join(c) \/ Leave(c) \/ NotInRoom(c) \/ Apply(c)

Next == Tick \/ \E c \in Clients : Call(c)

Spec == Init /\ [][Next]_vars

-----------------------------------------------------------------------------
(* Types.                                                                  *)

IsMap(m, D, R) ==
  /\ m = [x \in DOMAIN m |-> m[x]]
  /\ DOMAIN m \subseteq D
  /\ \A x \in DOMAIN m : m[x] \in R

Stroke ==
  [id : Nat, author : Clients, style : Styles, strokeOrder : Nat,
   points : Seq(Points), finished : BOOLEAN]

(* Every variable has the type of the data member it stands for.           *)
TypeOK ==
  /\ members \subseteq Clients
  /\ strokes \in Seq(Stroke)
  /\ IsMap(cursors, Clients, Points)
  /\ nextSeq \in Nat \ {0}
  /\ nextStrokeId \in Nat \ {0}
  /\ IsMap(lastCursorUpdate, Clients, Nat)
  /\ IsMap(activeStrokeByClient, Clients, Nat)
  /\ IsMap(strokeIndexById, Nat, Nat)
  /\ now \in Nat
  /\ err \in {"none", "NotInRoom", "ProtocolViolation"}

-----------------------------------------------------------------------------
(* Safety.                                                                 *)

(* strokeIndexById_ indexes exactly the strokes on the board: the lookups  *)
(* of room.cpp:79, 155 and 173 hit the stroke they mean, whatever sequence *)
(* of begins and clears came before.                                       *)
IndexExact ==
  /\ \A i \in DOMAIN strokes :
       /\ strokes[i].id \in DOMAIN strokeIndexById
       /\ strokeIndexById[strokes[i].id] = i
  /\ \A id \in DOMAIN strokeIndexById :
       /\ strokeIndexById[id] \in DOMAIN strokes
       /\ strokes[strokeIndexById[id]].id = id

(* A stroke in progress belongs to a member that drew it, is on the board  *)
(* and is not finished: "unknown stroke id" (room.cpp:157, 175) is never   *)
(* the answer, and no point is ever added to a finished stroke or to the   *)
(* stroke of somebody else.                                                *)
ActiveIsOpen ==
  \A c \in DOMAIN activeStrokeByClient :
    /\ c \in members
    /\ HasStroke(c)
    /\ strokes[ActiveIndex(c)].author = c
    /\ ~strokes[ActiveIndex(c)].finished

(* No stroke is left unfinished for ever by a client that disconnected:    *)
(* every unfinished stroke is the one its author, still in the room, is    *)
(* drawing.                                                                *)
OpenIsActive ==
  \A i \in DOMAIN strokes :
    ~strokes[i].finished =>
      /\ strokes[i].author \in DOMAIN activeStrokeByClient
      /\ activeStrokeByClient[strokes[i].author] = strokes[i].id

(* The board lists the strokes in the order in which they were begun, ids  *)
(* and orders both strictly increasing, also across clears.                *)
BoardOrdered ==
  /\ \A i, j \in DOMAIN strokes :
       i < j => /\ strokes[i].id < strokes[j].id
                /\ strokes[i].strokeOrder < strokes[j].strokeOrder
  /\ \A i \in DOMAIN strokes :
       /\ strokes[i].id < nextStrokeId
       /\ strokes[i].strokeOrder < nextSeq

(* "When a member disconnects its cursor disappears": a cursor on the      *)
(* board, and the rate limiter's memory of it, belong to a member.         *)
CursorsOfMembers ==
  /\ DOMAIN cursors \subseteq members
  /\ DOMAIN cursors = DOMAIN lastCursorUpdate

RoomInv ==
  /\ IndexExact
  /\ ActiveIsOpen
  /\ OpenIsActive
  /\ BoardOrdered
  /\ CursorsOfMembers

(* Drawn strokes do not change: as long as a stroke stays on the board its *)
(* identity, author, style and order are those it began with, points are   *)
(* only added at its end, and once finished it is frozen.                  *)
StrokesOnlyGrow ==
  [][\A i \in DOMAIN strokes, j \in DOMAIN strokes' :
       strokes[i].id = strokes'[j].id =>
         LET s == strokes[i]
             t == strokes'[j]
         IN  /\ s.author = t.author /\ s.style = t.style
             /\ s.strokeOrder = t.strokeOrder
             /\ Len(s.points) <= Len(t.points)
             /\ SubSeq(t.points, 1, Len(s.points)) = s.points
             /\ s.finished => t = s]_vars

(* A call uses up exactly as many sequence numbers as it makes broadcasts, *)
(* consecutive ones, and a refused or dropped call none: recipients see no *)
(* gap that stands for nothing.                                            *)
SeqPerBroadcast ==
  [][/\ nextSeq' = nextSeq + Len(out')
     /\ \A k \in DOMAIN out' : out'[k].seq = nextSeq + k - 1]_vars

=============================================================================
