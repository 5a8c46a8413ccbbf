----------------------------- MODULE RoomProofs -----------------------------
(***************************************************************************)
(* TLAPS proofs about Room: type correctness, the invariant that ties the  *)
(* board, its index, the strokes in progress and the membership, what a    *)
(* call may change, that the clients of RoomClients see the board, and     *)
(* that Room implements RoomProtocol.                                      *)
(***************************************************************************)
EXTENDS RoomClients, RoomRefinement, SequenceTheorems, TLAPS

(* A map just cleared is a map, with no keys.                              *)
LEMMA EmptyIsMap ==
  ASSUME NEW D, NEW R
  PROVE  IsMap(EmptyMap, D, R) /\ DOMAIN EmptyMap = {}
BY DEF IsMap, EmptyMap

(* Finishing a stroke, or adding a point to it, changes no other stroke    *)
(* and nothing else of it.                                                 *)
LEMMA FinishStroke ==
  ASSUME NEW s \in Seq(Stroke), NEW i \in DOMAIN s
  PROVE  LET t == [s EXCEPT ![i].finished = TRUE]
         IN  /\ t \in Seq(Stroke)
             /\ DOMAIN t = DOMAIN s
             /\ t[i] = [s[i] EXCEPT !.finished = TRUE]
             /\ \A j \in DOMAIN s : j # i => t[j] = s[j]
             /\ \A j \in DOMAIN s : /\ t[j].id = s[j].id
                                    /\ t[j].author = s[j].author
                                    /\ t[j].strokeOrder = s[j].strokeOrder
                                    /\ t[j].style = s[j].style
                                    /\ t[j].points = s[j].points
                                    /\ t[j].finished = (s[j].finished \/ j = i)
<1> DEFINE t == [s EXCEPT ![i].finished = TRUE]
<1>1. s[i] \in Stroke /\ \A j \in DOMAIN s : s[j] \in Stroke
  OBVIOUS
<1>2. [s[i] EXCEPT !.finished = TRUE] \in Stroke
  BY <1>1 DEF Stroke
<1>3. t \in Seq(Stroke) /\ Len(t) = Len(s)
  BY <1>2, ExceptSeq
<1>4. DOMAIN t = DOMAIN s
  OBVIOUS
<1>5. t[i] = [s[i] EXCEPT !.finished = TRUE]
  OBVIOUS
<1>6. \A j \in DOMAIN s : j # i => t[j] = s[j]
  OBVIOUS
<1>7. ASSUME NEW j \in DOMAIN s
      PROVE  /\ t[j].id = s[j].id
             /\ t[j].author = s[j].author
             /\ t[j].strokeOrder = s[j].strokeOrder
             /\ t[j].style = s[j].style
             /\ t[j].points = s[j].points
             /\ t[j].finished = (s[j].finished \/ j = i)
  BY <1>1, <1>5, <1>6 DEF Stroke
<1> QED
  BY <1>3, <1>4, <1>5, <1>6, <1>7

(* The same of a stroke that a point is added to.                          *)
LEMMA ExtendStroke ==
  ASSUME NEW s \in Seq(Stroke), NEW i \in DOMAIN s, NEW p \in Points
  PROVE  LET t == [s EXCEPT ![i].points = Append(@, p)]
         IN  /\ t \in Seq(Stroke)
             /\ DOMAIN t = DOMAIN s
             /\ t[i] = [s[i] EXCEPT !.points = Append(s[i].points, p)]
             /\ \A j \in DOMAIN s : j # i => t[j] = s[j]
             /\ \A j \in DOMAIN s : /\ t[j].id = s[j].id
                                    /\ t[j].author = s[j].author
                                    /\ t[j].strokeOrder = s[j].strokeOrder
                                    /\ t[j].style = s[j].style
                                    /\ t[j].finished = s[j].finished
<1> DEFINE t == [s EXCEPT ![i].points = Append(@, p)]
<1>1. s[i] \in Stroke /\ \A j \in DOMAIN s : s[j] \in Stroke
  OBVIOUS
<1> DEFINE q == Append(s[i].points, p)
<1>a. q \in Seq(Points)
  BY <1>1 DEF Stroke
<1>b. \A r \in Seq(Points) : [s[i] EXCEPT !.points = r] \in Stroke
  BY <1>1 DEF Stroke
<1>2. [s[i] EXCEPT !.points = q] \in Stroke
  BY <1>a, <1>b
<1>3. t \in Seq(Stroke) /\ Len(t) = Len(s)
  BY <1>2, ExceptSeq
<1>4. DOMAIN t = DOMAIN s
  OBVIOUS
<1>5. t[i] = [s[i] EXCEPT !.points = Append(s[i].points, p)]
  OBVIOUS
<1>6. \A j \in DOMAIN s : j # i => t[j] = s[j]
  OBVIOUS
<1>7. ASSUME NEW j \in DOMAIN s
      PROVE  /\ t[j].id = s[j].id
             /\ t[j].author = s[j].author
             /\ t[j].strokeOrder = s[j].strokeOrder
             /\ t[j].style = s[j].style
             /\ t[j].finished = s[j].finished
  BY <1>1, <1>5, <1>6 DEF Stroke
<1> QED
  BY <1>3, <1>4, <1>5, <1>6, <1>7

-----------------------------------------------------------------------------
(* The inductive invariant is RoomInv itself, with the types.              *)

Inv == TypeOK /\ RoomInv

(* The types of the fields of a stroke on the board.                       *)
LEMMA StrokeFields ==
  ASSUME Inv
  PROVE  \A i \in DOMAIN strokes :
           /\ i \in Nat
           /\ strokes[i] \in Stroke
           /\ strokes[i].id \in Nat
           /\ strokes[i].author \in Clients
           /\ strokes[i].strokeOrder \in Nat
           /\ strokes[i].finished \in BOOLEAN
<1> SUFFICES ASSUME NEW i \in DOMAIN strokes
             PROVE  /\ i \in Nat
                    /\ strokes[i] \in Stroke
                    /\ strokes[i].id \in Nat
                    /\ strokes[i].author \in Clients
                    /\ strokes[i].strokeOrder \in Nat
                    /\ strokes[i].finished \in BOOLEAN
  OBVIOUS
<1>1. strokes \in Seq(Stroke)
  BY DEF Inv, TypeOK
<1>2. i \in Nat /\ strokes[i] \in Stroke
  BY <1>1
<1> QED
  BY <1>2 DEF Stroke

(* A call that changes no state of the room keeps the invariant.           *)
LEMMA QuietStep ==
  ASSUME Inv, UNCHANGED state,
         err' \in {"none", "NotInRoom", "ProtocolViolation"}
  PROVE  Inv'
BY DEF Inv, TypeOK, RoomInv, IndexExact, ActiveIsOpen, OpenIsActive,
       BoardOrdered, CursorsOfMembers, HasStroke, ActiveIndex,
       state, board, counters, maps

(* The constructor establishes the invariant.                              *)
LEMMA InitInv == Init => Inv
<1> SUFFICES ASSUME Init PROVE Inv
  OBVIOUS
<1>1. strokes \in Seq(Stroke) /\ DOMAIN strokes = {}
  BY DEF Init
<1>2. TypeOK
  BY <1>1, EmptyIsMap DEF Init, TypeOK
<1>3. RoomInv
  BY <1>1, EmptyIsMap DEF Init, RoomInv, IndexExact, ActiveIsOpen,
     OpenIsActive, BoardOrdered, CursorsOfMembers
<1> QED
  BY <1>2, <1>3 DEF Inv

(* Time passes.                                                            *)
LEMMA TickInv == Inv /\ Tick => Inv'
BY DEF Tick, Return, Inv, TypeOK, RoomInv, IndexExact, ActiveIsOpen,
       OpenIsActive, BoardOrdered, CursorsOfMembers, HasStroke, ActiveIndex,
       board, counters, maps

(* A member more; the board stays.                                         *)
LEMMA JoinInv ==
  ASSUME Inv, NEW c \in Clients, Join(c)
  PROVE  Inv'
BY DEF Join, Return, Inv, TypeOK, RoomInv, IndexExact, ActiveIsOpen,
       OpenIsActive, BoardOrdered, CursorsOfMembers, HasStroke, ActiveIndex,
       board, counters, maps

(* A call refused to a client that is not in the room.                     *)
LEMMA NotInRoomInv ==
  ASSUME Inv, NEW c \in Clients, NotInRoom(c)
  PROVE  Inv'
BY QuietStep DEF NotInRoom, Refuse

(* A cursor move, dropped or accepted.                                     *)
LEMMA CursorMoveInv ==
  ASSUME Inv, NEW c \in Clients, NEW p \in Points, ApplyCursorMove(c, p)
  PROVE  Inv'
<1>1. CASE TooSoon(c) /\ Return(<<>>) /\ UNCHANGED state
  BY <1>1, QuietStep DEF Return
<1>2. CASE /\ ~TooSoon(c)
           /\ lastCursorUpdate' = Put(lastCursorUpdate, c, now)
           /\ cursors' = Put(cursors, c, p)
           /\ nextSeq' = nextSeq + 1
           /\ err' = "none"
           /\ UNCHANGED <<members, strokes, nextStrokeId, activeStrokeByClient,
                          strokeIndexById, now>>
  <2>a. /\ IsMap(lastCursorUpdate, Clients, Nat) /\ now \in Nat
        /\ IsMap(cursors, Clients, Points)
    BY DEF Inv, TypeOK
  <2>1. /\ IsMap(lastCursorUpdate', Clients, Nat)
        /\ DOMAIN lastCursorUpdate' = DOMAIN lastCursorUpdate \cup {c}
    BY <1>2, <2>a DEF Put, IsMap
  <2>2. /\ IsMap(cursors', Clients, Points)
        /\ DOMAIN cursors' = DOMAIN cursors \cup {c}
    BY <1>2, <2>a DEF Put, IsMap
  <2>3. TypeOK'
    BY <1>2, <2>1, <2>2 DEF Inv, TypeOK
  <2>4. IndexExact' /\ ActiveIsOpen' /\ OpenIsActive'
    BY <1>2 DEF Inv, RoomInv, IndexExact, ActiveIsOpen, OpenIsActive,
                HasStroke, ActiveIndex
  <2>5. BoardOrdered'
    BY <1>2, StrokeFields DEF Inv, TypeOK, RoomInv, BoardOrdered
  <2>6. CursorsOfMembers'
    BY <1>2, <2>1, <2>2 DEF Inv, RoomInv, CursorsOfMembers, ApplyCursorMove
  <2> QED
    BY <2>3, <2>4, <2>5, <2>6 DEF Inv, RoomInv
<1> QED
  BY <1>1, <1>2 DEF ApplyCursorMove, Return

(* Clearing resets the board, the index and the strokes in progress at once. *)
LEMMA ClearInv ==
  ASSUME Inv, NEW c \in Clients, ApplyClear(c)
  PROVE  Inv'
<1>1. strokes' \in Seq(Stroke) /\ DOMAIN strokes' = {}
  BY DEF ApplyClear
<1>2. TypeOK'
  BY <1>1, EmptyIsMap DEF Inv, TypeOK, ApplyClear, Return
<1>3. RoomInv'
  BY <1>1, EmptyIsMap DEF ApplyClear, Inv, RoomInv, IndexExact, ActiveIsOpen,
     OpenIsActive, BoardOrdered, CursorsOfMembers
<1> QED
  BY <1>2, <1>3 DEF Inv

(* A point is added to the stroke the index finds.                         *)
LEMMA StrokePointInv ==
  ASSUME Inv, NEW c \in Clients, NEW p \in Points, ApplyStrokePoint(c, p)
  PROVE  Inv'
<1>1. CASE ~HasStroke(c) /\ Refuse("ProtocolViolation")
  BY <1>1, QuietStep DEF Refuse
<1>2. CASE /\ HasStroke(c)
           /\ strokes' = [strokes EXCEPT ![ActiveIndex(c)].points = Append(@, p)]
           /\ nextSeq' = nextSeq + 1
           /\ err' = "none"
           /\ UNCHANGED <<members, cursors, nextStrokeId, maps, now>>
  <2>1. ActiveIndex(c) \in DOMAIN strokes /\ strokes \in Seq(Stroke)
    BY <1>2 DEF Inv, TypeOK, RoomInv, IndexExact, HasStroke, ActiveIndex
  <2>2. /\ strokes' \in Seq(Stroke)
        /\ DOMAIN strokes' = DOMAIN strokes
        /\ \A j \in DOMAIN strokes :
             /\ strokes'[j].id = strokes[j].id
             /\ strokes'[j].author = strokes[j].author
             /\ strokes'[j].strokeOrder = strokes[j].strokeOrder
             /\ strokes'[j].finished = strokes[j].finished
    BY <1>2, <2>1, ExtendStroke
  <2>3. TypeOK'
    BY <1>2, <2>2 DEF Inv, TypeOK, maps
  <2>4. IndexExact'
    BY <1>2, <2>2 DEF Inv, RoomInv, IndexExact, maps
  <2>5. ActiveIsOpen'
    BY <1>2, <2>2 DEF Inv, RoomInv, IndexExact, ActiveIsOpen, HasStroke,
                      ActiveIndex, maps
  <2>6. OpenIsActive'
    BY <1>2, <2>2 DEF Inv, RoomInv, OpenIsActive, maps
  <2>7. BoardOrdered'
    BY <1>2, <2>2, StrokeFields DEF Inv, TypeOK, RoomInv, BoardOrdered
  <2>8. CursorsOfMembers'
    BY <1>2 DEF Inv, RoomInv, CursorsOfMembers, maps
  <2> QED
    BY <2>3, <2>4, <2>5, <2>6, <2>7, <2>8 DEF Inv, RoomInv
<1> QED
  BY <1>1, <1>2 DEF ApplyStrokePoint, Return

(* The two ways a stroke is finished, by its author's StrokeEnd and by     *)
(* leave(), have this in common: the stroke found through the index is     *)
(* marked, and its author is no longer drawing.                            *)
LEMMA FinishInv ==
  ASSUME Inv, NEW c \in Clients, c \in DOMAIN activeStrokeByClient,
         strokes' = [strokes EXCEPT ![ActiveIndex(c)].finished = TRUE],
         activeStrokeByClient' = Erase(activeStrokeByClient, c),
         nextSeq' \in Nat \ {0}, nextSeq <= nextSeq',
         members' \in {members, members \ {c}},
         UNCHANGED <<nextStrokeId, strokeIndexById>>
  PROVE  /\ strokes' \in Seq(Stroke)
         /\ IsMap(activeStrokeByClient', Clients, Nat)
         /\ IndexExact' /\ ActiveIsOpen' /\ OpenIsActive' /\ BoardOrdered'
<1>1. /\ ActiveIndex(c) \in DOMAIN strokes
      /\ strokes[ActiveIndex(c)].author = c
      /\ strokes[ActiveIndex(c)].id = activeStrokeByClient[c]
      /\ strokes \in Seq(Stroke)
      /\ IsMap(activeStrokeByClient, Clients, Nat)
  BY DEF Inv, TypeOK, RoomInv, IndexExact, ActiveIsOpen, HasStroke, ActiveIndex
<1>2. /\ strokes' \in Seq(Stroke)
      /\ DOMAIN strokes' = DOMAIN strokes
      /\ \A j \in DOMAIN strokes :
           /\ strokes'[j].id = strokes[j].id
           /\ strokes'[j].author = strokes[j].author
           /\ strokes'[j].strokeOrder = strokes[j].strokeOrder
           /\ strokes'[j].finished = (strokes[j].finished \/ j = ActiveIndex(c))
  BY <1>1, FinishStroke
<1>3. /\ IsMap(activeStrokeByClient', Clients, Nat)
      /\ DOMAIN activeStrokeByClient' = DOMAIN activeStrokeByClient \ {c}
      /\ \A x \in DOMAIN activeStrokeByClient \ {c} :
           activeStrokeByClient'[x] = activeStrokeByClient[x]
  BY <1>1 DEF Erase, Restrict, IsMap
<1>4. IndexExact'
  BY <1>2 DEF Inv, RoomInv, IndexExact
<1>5. ActiveIsOpen'
  <2> SUFFICES ASSUME NEW d \in DOMAIN activeStrokeByClient \ {c}
               PROVE  /\ d \in members'
                      /\ HasStroke(d)'
                      /\ strokes'[ActiveIndex(d)'].author = d
                      /\ ~strokes'[ActiveIndex(d)'].finished
    BY <1>3 DEF ActiveIsOpen
  <2>1. /\ d \in members
        /\ HasStroke(d)
        /\ ActiveIndex(d) \in DOMAIN strokes
        /\ strokes[ActiveIndex(d)].author = d
        /\ ~strokes[ActiveIndex(d)].finished
    BY DEF Inv, RoomInv, IndexExact, ActiveIsOpen, HasStroke, ActiveIndex
  <2>2. HasStroke(d)' /\ ActiveIndex(d)' = ActiveIndex(d)
    BY <1>3, <2>1 DEF HasStroke, ActiveIndex
  <2>3. ActiveIndex(d) # ActiveIndex(c)
    BY <1>1, <2>1
  <2> QED
    BY <1>2, <2>1, <2>2, <2>3
<1>6. OpenIsActive'
  <2> SUFFICES ASSUME NEW i \in DOMAIN strokes, ~strokes'[i].finished
               PROVE  /\ strokes'[i].author \in DOMAIN activeStrokeByClient'
                      /\ activeStrokeByClient'[strokes'[i].author] = strokes'[i].id
    BY <1>2 DEF OpenIsActive
  <2>1. ~strokes[i].finished /\ i # ActiveIndex(c)
    BY <1>2
  <2>2. /\ strokes[i].author \in DOMAIN activeStrokeByClient
        /\ activeStrokeByClient[strokes[i].author] = strokes[i].id
    BY <2>1 DEF Inv, RoomInv, OpenIsActive
  <2>3. strokes[i].author # c
    BY <1>1, <2>1, <2>2 DEF Inv, RoomInv, IndexExact
  <2> QED
    BY <1>2, <1>3, <2>2, <2>3
<1>7. BoardOrdered'
  <2>1. /\ nextSeq \in Nat /\ nextSeq' \in Nat /\ nextSeq <= nextSeq'
        /\ nextStrokeId' = nextStrokeId
        /\ BoardOrdered
    BY DEF Inv, TypeOK, RoomInv
  <2> QED
    BY ONLY <1>2, <2>1, StrokeFields, Inv DEF BoardOrdered
<1> QED
  BY <1>2, <1>3, <1>4, <1>5, <1>6, <1>7

(* The end of a stroke sent by its author.                                 *)
LEMMA StrokeEndInv ==
  ASSUME Inv, NEW c \in Clients, ApplyStrokeEnd(c)
  PROVE  Inv'
<1>1. CASE ~HasStroke(c) /\ Refuse("ProtocolViolation")
  BY <1>1, QuietStep DEF Refuse
<1>2. CASE /\ HasStroke(c)
           /\ strokes' = [strokes EXCEPT ![ActiveIndex(c)].finished = TRUE]
           /\ activeStrokeByClient' = Erase(activeStrokeByClient, c)
           /\ nextSeq' = nextSeq + 1
           /\ err' = "none"
           /\ UNCHANGED <<members, cursors, nextStrokeId, lastCursorUpdate,
                          strokeIndexById, now>>
  <2>1. nextSeq' \in Nat \ {0} /\ nextSeq <= nextSeq'
    BY <1>2 DEF Inv, TypeOK
  <2>2. /\ strokes' \in Seq(Stroke)
        /\ IsMap(activeStrokeByClient', Clients, Nat)
        /\ IndexExact' /\ ActiveIsOpen' /\ OpenIsActive' /\ BoardOrdered'
    BY <1>2, <2>1, FinishInv DEF HasStroke
  <2>3. TypeOK'
    BY <1>2, <2>1, <2>2 DEF Inv, TypeOK
  <2>4. CursorsOfMembers'
    BY <1>2 DEF Inv, RoomInv, CursorsOfMembers
  <2> QED
    BY <2>2, <2>3, <2>4 DEF Inv, RoomInv
<1> QED
  BY <1>1, <1>2 DEF ApplyStrokeEnd, Return

(* A new stroke: new id, new order, last on the board.                     *)
LEMMA StrokeBeginInv ==
  ASSUME Inv, NEW c \in Clients, NEW st \in Styles, NEW p \in Points,
         ApplyStrokeBegin(c, st, p)
  PROVE  Inv'
<1> DEFINE new == [id |-> nextStrokeId, author |-> c, style |-> st,
                   strokeOrder |-> nextSeq, points |-> <<p>>,
                   finished |-> FALSE]
           n == Len(strokes) + 1
<1>1. CASE Refuse("ProtocolViolation")
  BY <1>1, QuietStep DEF Refuse
<1>2. CASE /\ c \notin DOMAIN activeStrokeByClient
           /\ nextSeq' = nextSeq + 1
           /\ nextStrokeId' = nextStrokeId + 1
           /\ strokes' = Append(strokes, new)
           /\ strokeIndexById' = Put(strokeIndexById, nextStrokeId, n)
           /\ activeStrokeByClient' = Put(activeStrokeByClient, c, nextStrokeId)
           /\ err' = "none"
           /\ UNCHANGED <<members, cursors, lastCursorUpdate, now>>
  <2>1. /\ strokes \in Seq(Stroke)
        /\ nextSeq \in Nat \ {0} /\ nextStrokeId \in Nat \ {0}
        /\ IsMap(activeStrokeByClient, Clients, Nat)
        /\ IsMap(strokeIndexById, Nat, Nat)
    BY DEF Inv, TypeOK
  <2>2. new \in Stroke
    BY <2>1 DEF Stroke
  <2> HIDE DEF new
  <2>3. /\ strokes' \in Seq(Stroke)
        /\ n \in Nat /\ n \notin DOMAIN strokes
        /\ DOMAIN strokes' = DOMAIN strokes \cup {n}
        /\ strokes'[n] = new
        /\ \A i \in DOMAIN strokes : i < n /\ strokes'[i] = strokes[i]
    BY <1>2, <2>1, <2>2
  <2>4. /\ new.id = nextStrokeId /\ new.author = c
        /\ new.strokeOrder = nextSeq /\ new.finished = FALSE
    BY DEF new
  <2>5. /\ IsMap(activeStrokeByClient', Clients, Nat)
        /\ DOMAIN activeStrokeByClient' = DOMAIN activeStrokeByClient \cup {c}
        /\ activeStrokeByClient'[c] = nextStrokeId
        /\ \A x \in DOMAIN activeStrokeByClient :
             activeStrokeByClient'[x] = activeStrokeByClient[x]
    BY <1>2, <2>1 DEF Put, IsMap
  <2>6. nextStrokeId \notin DOMAIN strokeIndexById
    BY <2>1, StrokeFields DEF Inv, RoomInv, IndexExact, BoardOrdered
  <2>7. /\ IsMap(strokeIndexById', Nat, Nat)
        /\ DOMAIN strokeIndexById' = DOMAIN strokeIndexById \cup {nextStrokeId}
        /\ strokeIndexById'[nextStrokeId] = n
        /\ \A x \in DOMAIN strokeIndexById :
             strokeIndexById'[x] = strokeIndexById[x]
    BY <1>2, <2>1, <2>3, <2>6 DEF Put, IsMap
  <2>8. TypeOK'
    BY <1>2, <2>3, <2>5, <2>7 DEF Inv, TypeOK
  <2>9. IndexExact'
    BY <2>3, <2>4, <2>6, <2>7 DEF Inv, RoomInv, IndexExact
  <2>10. ActiveIsOpen'
    <3> SUFFICES ASSUME NEW d \in DOMAIN activeStrokeByClient'
                 PROVE  /\ d \in members'
                        /\ HasStroke(d)'
                        /\ strokes'[ActiveIndex(d)'].author = d
                        /\ ~strokes'[ActiveIndex(d)'].finished
      BY DEF ActiveIsOpen
    <3>1. CASE d = c
      BY <1>2, <2>3, <2>4, <2>5, <2>7, <3>1
         DEF HasStroke, ActiveIndex, ApplyStrokeBegin
    <3>2. CASE d # c
      <4>1. /\ d \in members /\ HasStroke(d)
            /\ ActiveIndex(d) \in DOMAIN strokes
            /\ strokes[ActiveIndex(d)].author = d
            /\ ~strokes[ActiveIndex(d)].finished
        BY <2>5, <3>2 DEF Inv, RoomInv, IndexExact, ActiveIsOpen, HasStroke,
                          ActiveIndex
      <4>2. HasStroke(d)' /\ ActiveIndex(d)' = ActiveIndex(d)
        BY <2>5, <2>7, <3>2, <4>1 DEF HasStroke, ActiveIndex
      <4> QED
        BY <1>2, <2>3, <4>1, <4>2
    <3> QED
      BY <3>1, <3>2
  <2>11. OpenIsActive'
    <3> SUFFICES ASSUME NEW i \in DOMAIN strokes', ~strokes'[i].finished
                 PROVE  /\ strokes'[i].author \in DOMAIN activeStrokeByClient'
                        /\ activeStrokeByClient'[strokes'[i].author] = strokes'[i].id
      BY DEF OpenIsActive
    <3>1. CASE i = n
      BY <2>3, <2>4, <2>5, <3>1
    <3>2. CASE i # n
      <4>1. i \in DOMAIN strokes /\ strokes'[i] = strokes[i]
        BY <2>3, <3>2
      <4>2. /\ strokes[i].author \in DOMAIN activeStrokeByClient
            /\ activeStrokeByClient[strokes[i].author] = strokes[i].id
        BY <4>1 DEF Inv, RoomInv, OpenIsActive
      <4> QED
        BY <2>5, <4>1, <4>2
    <3> QED
      BY <3>1, <3>2
  <2>12. BoardOrdered'
    <3>1. \A i \in DOMAIN strokes :
            /\ i \in Nat /\ strokes[i].id \in Nat /\ strokes[i].strokeOrder \in Nat
      BY StrokeFields
    <3>2. BoardOrdered
      BY DEF Inv, RoomInv
    <3>3. nextSeq' = nextSeq + 1 /\ nextStrokeId' = nextStrokeId + 1
      BY <1>2
    <3> QED
      BY ONLY <2>1, <2>3, <2>4, <3>1, <3>2, <3>3 DEF BoardOrdered
  <2>13. CursorsOfMembers'
    BY <1>2 DEF Inv, RoomInv, CursorsOfMembers
  <2> QED
    BY <2>8, <2>9, <2>10, <2>11, <2>12, <2>13 DEF Inv, RoomInv
<1> QED
  BY <1>1, <1>2 DEF ApplyStrokeBegin, Return

(* leave(), in mid-stroke or not.                                          *)
LEMMA LeaveInv ==
  ASSUME Inv, NEW c \in Clients, Leave(c)
  PROVE  Inv'
<1>1. /\ members' = members \ {c}
      /\ cursors' = Erase(cursors, c)
      /\ lastCursorUpdate' = Erase(lastCursorUpdate, c)
      /\ UNCHANGED <<nextStrokeId, strokeIndexById, now>>
      /\ LeaveIdle(c) \/ LeaveDrawing(c)
  BY DEF Leave
<1>2. /\ IsMap(cursors, Clients, Points)
      /\ IsMap(lastCursorUpdate, Clients, Nat)
  BY DEF Inv, TypeOK
<1>3. /\ IsMap(cursors', Clients, Points)
      /\ DOMAIN cursors' = DOMAIN cursors \ {c}
  BY <1>1, <1>2 DEF Erase, Restrict, IsMap
<1>4. /\ IsMap(lastCursorUpdate', Clients, Nat)
      /\ DOMAIN lastCursorUpdate' = DOMAIN lastCursorUpdate \ {c}
  BY <1>1, <1>2 DEF Erase, Restrict, IsMap
<1>5. CursorsOfMembers'
  BY <1>1, <1>3, <1>4 DEF Inv, RoomInv, CursorsOfMembers
<1>6. nextSeq' \in Nat \ {0} /\ nextSeq <= nextSeq' /\ err' = "none"
  BY <1>1 DEF LeaveIdle, LeaveDrawing, Return, Inv, TypeOK
<1>7. /\ strokes' \in Seq(Stroke)
      /\ IsMap(activeStrokeByClient', Clients, Nat)
      /\ IndexExact' /\ ActiveIsOpen' /\ OpenIsActive' /\ BoardOrdered'
  <2>1. CASE LeaveIdle(c)
    <3>1. /\ c \notin DOMAIN activeStrokeByClient
          /\ UNCHANGED <<strokes, activeStrokeByClient>>
      BY <2>1 DEF LeaveIdle
    <3>2. IndexExact' /\ ActiveIsOpen' /\ OpenIsActive'
      BY <1>1, <3>1 DEF Inv, RoomInv, IndexExact, ActiveIsOpen, OpenIsActive,
                        HasStroke, ActiveIndex
    <3>3. BoardOrdered'
      BY <1>1, <1>6, <3>1, StrokeFields DEF Inv, TypeOK, RoomInv, BoardOrdered
    <3> QED
      BY <3>1, <3>2, <3>3 DEF Inv, TypeOK
  <2>2. CASE LeaveDrawing(c)
    <3>1. c \in DOMAIN activeStrokeByClient
      BY <2>2 DEF LeaveDrawing
    <3>2. HasStroke(c)
      BY <3>1 DEF Inv, RoomInv, ActiveIsOpen
    <3>3. /\ strokes' = [strokes EXCEPT ![ActiveIndex(c)].finished = TRUE]
          /\ activeStrokeByClient' = Erase(activeStrokeByClient, c)
      BY <2>2, <3>2 DEF LeaveDrawing
    <3> QED
      BY <1>1, <1>6, <3>1, <3>3, FinishInv
  <2> QED
    BY <1>1, <2>1, <2>2
<1>8. TypeOK'
  BY <1>1, <1>3, <1>4, <1>6, <1>7 DEF Inv, TypeOK
<1> QED
  BY <1>5, <1>7, <1>8 DEF Inv, RoomInv

-----------------------------------------------------------------------------
(* Every step keeps the invariant.                                         *)
LEMMA NextInv == Inv /\ [Next]_vars => Inv'
<1> SUFFICES ASSUME Inv, [Next]_vars PROVE Inv'
  OBVIOUS
<1>1. CASE UNCHANGED vars
  <2>1. UNCHANGED state /\ UNCHANGED err
    BY <1>1 DEF vars
  <2> QED
    BY <2>1, QuietStep DEF Inv, TypeOK
<1>2. CASE Tick
  BY <1>2, TickInv
<1>3. ASSUME NEW c \in Clients, Call(c) PROVE Inv'
  BY <1>3, JoinInv, LeaveInv, NotInRoomInv, StrokeBeginInv, StrokePointInv,
     StrokeEndInv, CursorMoveInv, ClearInv DEF Call, Apply
<1> QED
  BY <1>1, <1>2, <1>3 DEF Next

(* The inductive invariant holds in every reachable state.                 *)
LEMMA InductiveInv == Spec => []Inv
BY InitInv, NextInv, PTL DEF Spec

(* Every data member of Room keeps its type, whatever calls are made.      *)
THEOREM TypeCorrect == Spec => []TypeOK
<1>1. Inv => TypeOK
  BY DEF Inv
<1> QED
  BY <1>1, InductiveInv, PTL

(* Whatever calls are made, by however many clients, strokeIndexById_      *)
(* finds exactly the strokes on the board: no lookup of Room::apply or     *)
(* Room::leave indexes board_.strokes out of range or hits a wrong stroke. *)
THEOREM IndexCorrect == Spec => []IndexExact
<1>1. Inv => IndexExact
  BY DEF Inv, RoomInv
<1> QED
  BY <1>1, InductiveInv, PTL

(* The stroke a member is drawing is on the board, is its own and is       *)
(* unfinished: "unknown stroke id" (room.cpp:157, 175) is unreachable.     *)
THEOREM DrawingCorrect == Spec => []ActiveIsOpen
<1>1. Inv => ActiveIsOpen
  BY DEF Inv, RoomInv
<1> QED
  BY <1>1, InductiveInv, PTL

(* leave() and clear() abandon no stroke: every unfinished stroke is being *)
(* drawn by its author.                                                    *)
THEOREM NoAbandonedStroke == Spec => []OpenIsActive
<1>1. Inv => OpenIsActive
  BY DEF Inv, RoomInv
<1> QED
  BY <1>1, InductiveInv, PTL

(* The board is in the order in which strokes were begun, and ids are never*)
(* used twice.                                                             *)
THEOREM BoardCorrect == Spec => []BoardOrdered
<1>1. Inv => BoardOrdered
  BY DEF Inv, RoomInv
<1> QED
  BY <1>1, InductiveInv, PTL

(* No cursor outlives its client's membership.                             *)
THEOREM CursorsCorrect == Spec => []CursorsOfMembers
<1>1. Inv => CursorsOfMembers
  BY DEF Inv, RoomInv
<1> QED
  BY <1>1, InductiveInv, PTL

-----------------------------------------------------------------------------
(* Sequence numbers and broadcasts go together, one for one: no call on a  *)
(* room skips a number, repeats one, or uses one for nothing.              *)
THEOREM SeqCorrect == Spec => SeqPerBroadcast
<1> DEFINE OneForOne == /\ nextSeq' = nextSeq + Len(out')
                        /\ \A k \in DOMAIN out' : out'[k].seq = nextSeq + k - 1
<1>1. ASSUME Inv, Next PROVE OneForOne
  <2>1. nextSeq \in Nat
    BY <1>1 DEF Inv, TypeOK
  <2>2. ASSUME out' = <<>>, nextSeq' = nextSeq PROVE OneForOne
    BY <2>1, <2>2
  <2>3. ASSUME NEW e, e.seq = nextSeq, out' = <<e>>, nextSeq' = nextSeq + 1
        PROVE  OneForOne
    BY <2>1, <2>3
  <2>4. CASE Tick
    BY <2>2, <2>4 DEF Tick, Return, counters
  <2>5. ASSUME NEW c \in Clients, Call(c) PROVE OneForOne
    <3>1. CASE Join(c)
      BY <2>2, <3>1 DEF Join, Return, counters
    <3>2. CASE NotInRoom(c)
      BY <2>2, <3>2 DEF NotInRoom, Refuse, state, counters
    <3>3. CASE Leave(c) /\ LeaveIdle(c)
      BY <2>3, <3>3 DEF LeaveIdle, Return, Broadcast
    <3>4. CASE Leave(c) /\ LeaveDrawing(c)
      <4>1. PICK e, f : /\ out' = <<e, f>>
                        /\ e.seq = nextSeq
                        /\ f.seq = nextSeq + 1
        BY <3>4 DEF LeaveDrawing, Return, Broadcast
      <4>2. nextSeq' = nextSeq + 2
        BY <3>4 DEF LeaveDrawing
      <4> QED
        BY <2>1, <4>1, <4>2
    <3>5. CASE Apply(c)
      <4>1. CASE \E p \in Points, st \in Styles : ApplyStrokeBegin(c, st, p)
        BY <2>2, <2>3, <4>1
        DEF ApplyStrokeBegin, Refuse, Return, Broadcast, state, counters
      <4>2. CASE \E p \in Points : ApplyStrokePoint(c, p)
        BY <2>2, <2>3, <4>2
        DEF ApplyStrokePoint, Refuse, Return, Broadcast, state, counters
      <4>3. CASE ApplyStrokeEnd(c)
        BY <2>2, <2>3, <4>3
        DEF ApplyStrokeEnd, Refuse, Return, Broadcast, state, counters
      <4>4. CASE \E p \in Points : ApplyCursorMove(c, p)
        BY <2>2, <2>3, <4>4
        DEF ApplyCursorMove, Return, Broadcast, state, counters
      <4>5. CASE ApplyClear(c)
        BY <2>3, <4>5 DEF ApplyClear, Return, Broadcast
      <4> QED
        BY <3>5, <4>1, <4>2, <4>3, <4>4, <4>5 DEF Apply
    <3> QED
      BY <2>5, <3>1, <3>2, <3>3, <3>4, <3>5 DEF Call, Leave
  <2> QED
    BY <1>1, <2>4, <2>5 DEF Next
<1>2. Inv /\ [Next]_vars => [OneForOne]_vars
  BY <1>1
<1> QED
  BY <1>2, InductiveInv, PTL DEF Spec, SeqPerBroadcast

-----------------------------------------------------------------------------
(* What a stroke may become while it stays on the board.                   *)
GrowsInto(s, t) ==
  /\ s.author = t.author /\ s.style = t.style
  /\ s.strokeOrder = t.strokeOrder
  /\ Len(s.points) <= Len(t.points)
  /\ SubSeq(t.points, 1, Len(s.points)) = s.points
  /\ s.finished => t = s

(* A stroke that stays as it is grows into itself, ...                     *)
LEMMA GrowsSame ==
  ASSUME NEW s \in Stroke
  PROVE  GrowsInto(s, s)
<1>1. s.points \in Seq(Points)
  BY DEF Stroke
<1>2. SubSeq(s.points, 1, Len(s.points)) = s.points
  BY <1>1, SubSeqFull
<1> QED
  BY <1>1, <1>2 DEF GrowsInto

(* ... one that is finished keeps its points, ...                          *)
LEMMA GrowsFinished ==
  ASSUME NEW s \in Stroke, ~s.finished
  PROVE  GrowsInto(s, [s EXCEPT !.finished = TRUE])
<1> DEFINE t == [s EXCEPT !.finished = TRUE]
<1>1. /\ t.author = s.author /\ t.style = s.style /\ t.points = s.points
      /\ t.strokeOrder = s.strokeOrder
  BY DEF Stroke
<1>2. GrowsInto(s, s)
  BY GrowsSame
<1> QED
  BY <1>1, <1>2 DEF GrowsInto

(* ... and one that gets a point has its old points at the front.          *)
LEMMA GrowsExtended ==
  ASSUME NEW s \in Stroke, ~s.finished, NEW p \in Points
  PROVE  GrowsInto(s, [s EXCEPT !.points = Append(s.points, p)])
<1> DEFINE t == [s EXCEPT !.points = Append(s.points, p)]
           n == Len(s.points)
<1>1. s.points \in Seq(Points)
  BY DEF Stroke
<1>2. /\ t.author = s.author /\ t.style = s.style
      /\ t.strokeOrder = s.strokeOrder /\ t.points = Append(s.points, p)
  BY DEF Stroke
<1>3. PICK u \in Seq(Points) : u = Append(s.points, p)
  <2>1. Append(s.points, p) \in Seq(Points)
    BY <1>1, AppendProperties
  <2> QED
    BY <2>1, Zenon
<1>4. Len(u) = n + 1 /\ n \in Nat /\ \A i \in 1 .. n : u[i] = s.points[i]
  BY <1>1, <1>3, AppendProperties
<1>5. SubSeq(u, 1, n) = s.points
  <2>1. \A i \in 1 .. n : u[i] \in Points
    BY <1>1, <1>4
  <2>2. /\ SubSeq(u, 1, n) \in Seq(Points)
        /\ Len(SubSeq(u, 1, n)) = n
        /\ \A i \in 1 .. n : SubSeq(u, 1, n)[i] = s.points[i]
    BY <1>3, <1>4, <2>1, SubSeqProperties
  <2> QED
    BY <1>1, <2>2, SeqEqual
<1>6. SubSeq(t.points, 1, n) = s.points /\ n <= Len(t.points)
  BY <1>2, <1>3, <1>4, <1>5
<1> QED
  BY <1>2, <1>6 DEF GrowsInto

(* Two strokes on the board have two ids, so a step that changes only the  *)
(* stroke at k lets every stroke grow if it does so with that one.         *)
LEMMA BoardGrows ==
  ASSUME Inv, DOMAIN strokes' = DOMAIN strokes,
         \A i \in DOMAIN strokes : /\ strokes'[i].id = strokes[i].id
                                   /\ GrowsInto(strokes[i], strokes'[i])
  PROVE  \A i \in DOMAIN strokes, j \in DOMAIN strokes' :
           strokes[i].id = strokes'[j].id => GrowsInto(strokes[i], strokes'[j])
<1>1. \A i, j \in DOMAIN strokes : strokes[i].id = strokes[j].id => i = j
  BY DEF Inv, RoomInv, IndexExact
<1> QED
  BY <1>1

(* Nothing that was drawn is changed by a later call of anybody: a stroke  *)
(* on the board only gets points, at its end, until it is finished.        *)
THEOREM GrowCorrect == Spec => StrokesOnlyGrow
<1> DEFINE Grow == \A i \in DOMAIN strokes, j \in DOMAIN strokes' :
                     strokes[i].id = strokes'[j].id =>
                       GrowsInto(strokes[i], strokes'[j])
<1>1. ASSUME Inv, Next PROVE Grow
  <2>1. strokes \in Seq(Stroke) /\ \A i \in DOMAIN strokes : strokes[i] \in Stroke
    BY <1>1, StrokeFields DEF Inv, TypeOK
  <2>2. ASSUME strokes' = strokes PROVE Grow
    BY <1>1, <2>1, <2>2, BoardGrows, GrowsSame
  <2>3. ASSUME NEW c \in Clients, c \in DOMAIN activeStrokeByClient,
               strokes' = [strokes EXCEPT ![ActiveIndex(c)].finished = TRUE]
        PROVE  Grow
    <3>1. /\ ActiveIndex(c) \in DOMAIN strokes
          /\ ~strokes[ActiveIndex(c)].finished
      BY <1>1, <2>3 DEF Inv, RoomInv, ActiveIsOpen, IndexExact, HasStroke, ActiveIndex
    <3>2. /\ DOMAIN strokes' = DOMAIN strokes
          /\ strokes'[ActiveIndex(c)] = [strokes[ActiveIndex(c)] EXCEPT !.finished = TRUE]
          /\ \A j \in DOMAIN strokes : j # ActiveIndex(c) => strokes'[j] = strokes[j]
          /\ \A j \in DOMAIN strokes : strokes'[j].id = strokes[j].id
      BY <2>1, <2>3, <3>1, FinishStroke
    <3>3. \A j \in DOMAIN strokes : GrowsInto(strokes[j], strokes'[j])
      BY <2>1, <3>1, <3>2, GrowsSame, GrowsFinished
    <3> QED
      BY <1>1, <3>2, <3>3, BoardGrows
  <2>4. CASE Tick
    BY <2>2, <2>4 DEF Tick, board
  <2>5. ASSUME NEW c \in Clients, Call(c) PROVE Grow
    <3>1. CASE Join(c) \/ NotInRoom(c)
      BY <2>2, <3>1 DEF Join, NotInRoom, Refuse, state, board
    <3>2. CASE Leave(c)
      <4>1. CASE LeaveIdle(c)
        BY <2>2, <4>1 DEF LeaveIdle
      <4>2. CASE LeaveDrawing(c)
        BY <2>2, <2>3, <4>2 DEF LeaveDrawing
      <4> QED
        BY <3>2, <4>1, <4>2 DEF Leave
    <3>3. ASSUME NEW p \in Points, NEW st \in Styles, ApplyStrokeBegin(c, st, p)
          PROVE  Grow
      <4>1. CASE UNCHANGED state
        BY <2>2, <4>1 DEF state, board
      <4>2. ASSUME NEW new, new.id = nextStrokeId, strokes' = Append(strokes, new)
            PROVE  Grow
        <5> SUFFICES ASSUME NEW i \in DOMAIN strokes, NEW j \in DOMAIN strokes',
                            strokes[i].id = strokes'[j].id
                     PROVE  GrowsInto(strokes[i], strokes'[j])
          OBVIOUS
        <5>1. \/ j \in DOMAIN strokes /\ strokes'[j] = strokes[j]
              \/ strokes'[j] = new
          BY <2>1, <4>2
        <5>2. strokes[i].id < nextStrokeId /\ nextStrokeId \in Nat
          BY <1>1 DEF Inv, RoomInv, BoardOrdered, TypeOK
        <5>3. j \in DOMAIN strokes /\ strokes'[j] = strokes[j]
          BY <4>2, <5>1, <5>2
        <5>4. i = j
          BY <1>1, <5>3 DEF Inv, RoomInv, IndexExact
        <5> QED
          BY <2>1, <5>3, <5>4, GrowsSame
      <4> QED
        BY <3>3, <4>1, <4>2 DEF ApplyStrokeBegin, Refuse
    <3>4. ASSUME NEW p \in Points, ApplyStrokePoint(c, p) PROVE Grow
      <4>1. CASE UNCHANGED state
        BY <2>2, <4>1 DEF state, board
      <4>2. CASE /\ HasStroke(c)
                 /\ strokes' = [strokes EXCEPT ![ActiveIndex(c)].points = Append(@, p)]
        <5>1. /\ ActiveIndex(c) \in DOMAIN strokes
              /\ ~strokes[ActiveIndex(c)].finished
          BY <1>1, <4>2 DEF Inv, RoomInv, ActiveIsOpen, IndexExact, HasStroke, ActiveIndex
        <5>2. /\ DOMAIN strokes' = DOMAIN strokes
              /\ strokes'[ActiveIndex(c)] =
                   [strokes[ActiveIndex(c)] EXCEPT
                      !.points = Append(strokes[ActiveIndex(c)].points, p)]
              /\ \A j \in DOMAIN strokes : j # ActiveIndex(c) => strokes'[j] = strokes[j]
              /\ \A j \in DOMAIN strokes : strokes'[j].id = strokes[j].id
          BY <2>1, <4>2, <5>1, ExtendStroke
        <5>3. \A j \in DOMAIN strokes : GrowsInto(strokes[j], strokes'[j])
          BY <2>1, <5>1, <5>2, GrowsSame, GrowsExtended
        <5> QED
          BY <1>1, <5>2, <5>3, BoardGrows
      <4> QED
        BY <3>4, <4>1, <4>2 DEF ApplyStrokePoint, Refuse
    <3>5. CASE ApplyStrokeEnd(c)
      BY <2>2, <2>3, <3>5 DEF ApplyStrokeEnd, HasStroke, Refuse, state, board
    <3>6. CASE \E p \in Points : ApplyCursorMove(c, p)
      BY <2>2, <3>6 DEF ApplyCursorMove, state, board
    <3>7. CASE ApplyClear(c)
      BY <3>7 DEF ApplyClear
    <3> QED
      BY <2>5, <3>1, <3>2, <3>3, <3>4, <3>5, <3>6, <3>7 DEF Call, Apply
  <2> QED
    BY <1>1, <2>4, <2>5 DEF Next
<1>2. Inv /\ [Next]_vars => [Grow]_vars
  BY <1>1
<1> QED
  BY <1>2, InductiveInv, PTL DEF Spec, StrokesOnlyGrow, GrowsInto

-----------------------------------------------------------------------------
(* The boards the clients see.  Between the view of a client and the board *)
(* is a replay that finds strokes by their ids, so that a view agrees with *)
(* the board rests on IndexExact (ids differ) and ActiveIsOpen (an event   *)
(* names the stroke that the room changed, and its author).                *)

(* A client that is sent no event, one or two replays them in turn.        *)
LEMMA ReceiveNone ==
  ASSUME NEW c, NEW v
  PROVE  Receive(c, v, <<>>) = v
<1> DEFINE S == 0 .. Len(<<>>)
           F(f) == [k \in S |-> IF k = 0 THEN v ELSE Hear(c, f[k - 1], <<>>[k])]
           g == [k \in S |-> v]
           seen == CHOOSE f : f = F(f)
<1>1. S = {0} /\ Len(<<>>) = 0
  OBVIOUS
<1>2. g = F(g)
  BY <1>1
<1>3. seen = F(seen)
  <2> HIDE DEF F, g
  <2> QED
    BY <1>2
<1>4. seen[0] = v
  <2> HIDE DEF seen
  <2> QED
    BY <1>1, <1>3
<1> QED
  BY <1>1, <1>4 DEF Receive

LEMMA ReceiveOne ==
  ASSUME NEW c, NEW v, NEW e
  PROVE  Receive(c, v, <<e>>) = Hear(c, v, e)
<1> DEFINE S == 0 .. Len(<<e>>)
           F(f) == [k \in S |-> IF k = 0 THEN v ELSE Hear(c, f[k - 1], <<e>>[k])]
           g == [k \in S |-> IF k = 0 THEN v ELSE Hear(c, v, e)]
           seen == CHOOSE f : f = F(f)
<1>1. S = {0, 1} /\ Len(<<e>>) = 1 /\ <<e>>[1] = e
  OBVIOUS
<1>2. g = F(g)
  BY <1>1
<1>3. seen = F(seen)
  <2> HIDE DEF F, g
  <2> QED
    BY <1>2
<1>4. seen[0] = v /\ seen[1] = Hear(c, seen[0], e)
  <2> HIDE DEF seen
  <2> QED
    BY <1>1, <1>3
<1> QED
  BY <1>1, <1>4 DEF Receive

LEMMA ReceiveTwo ==
  ASSUME NEW c, NEW v, NEW e, NEW f
  PROVE  Receive(c, v, <<e, f>>) = Hear(c, Hear(c, v, e), f)
<1> DEFINE S == 0 .. Len(<<e, f>>)
           h == Hear(c, v, e)
           F(s) == [k \in S |-> IF k = 0 THEN v ELSE Hear(c, s[k - 1], <<e, f>>[k])]
           g == [k \in S |-> IF k = 0 THEN v ELSE IF k = 1 THEN h ELSE Hear(c, h, f)]
           seen == CHOOSE s : s = F(s)
<1>1. S = {0, 1, 2} /\ Len(<<e, f>>) = 2 /\ <<e, f>>[1] = e /\ <<e, f>>[2] = f
  OBVIOUS
<1>2. g = F(g)
  BY <1>1
<1>3. seen = F(seen)
  <2> HIDE DEF F, g
  <2> QED
    BY <1>2
<1>4. seen[0] = v /\ seen[1] = Hear(c, seen[0], e) /\ seen[2] = Hear(c, seen[1], f)
  <2> HIDE DEF seen
  <2> QED
    BY <1>1, <1>3
<1> QED
  BY <1>1, <1>4 DEF Receive

-----------------------------------------------------------------------------
(* What a client sees of a board, without the choice of an index by an id. *)

Foreign(c, ss) == {i \in DOMAIN ss : ss[i].author # c}

IdsDiffer(ss) == \A i, j \in DOMAIN ss : ss[i].id = ss[j].id => i = j

Shows(m, c, ss) ==
  /\ m = [x \in DOMAIN m |-> m[x]]
  /\ DOMAIN m = {ss[i].id : i \in Foreign(c, ss)}
  /\ \A i \in Foreign(c, ss) : m[ss[i].id] = ss[i]

ViewOf(m, n) == [strokes |-> m, cursors |-> n]

LEMMA OthersShow ==
  ASSUME NEW c, NEW ss, NEW cs, IdsDiffer(ss)
  PROVE  \E m : Shows(m, c, ss) /\ Others(c, ss, cs) = ViewOf(m, Erase(cs, c))
<1> DEFINE foreign == Foreign(c, ss)
           at(id) == CHOOSE i \in foreign : ss[i].id = id
           m == [id \in {ss[i].id : i \in foreign} |-> ss[at(id)]]
<1>1. ASSUME NEW i \in foreign PROVE at(ss[i].id) = i
  BY <1>1 DEF IdsDiffer, Foreign
<1>2. Shows(m, c, ss)
  <2>1. DOMAIN m = {ss[i].id : i \in foreign} /\ m = [x \in DOMAIN m |-> m[x]]
    OBVIOUS
  <2>2. ASSUME NEW i \in foreign PROVE m[ss[i].id] = ss[i]
    <3>1. m[ss[i].id] = ss[at(ss[i].id)]
      OBVIOUS
    <3> QED
      BY <1>1, <3>1
  <2> HIDE DEF m
  <2> QED
    BY <2>1, <2>2 DEF Shows
<1>3. Others(c, ss, cs) = ViewOf(m, Erase(cs, c))
  BY DEF Others, ViewOf, Foreign
<1> HIDE DEF m
<1> QED
  BY <1>2, <1>3

LEMMA ShownOnce ==
  ASSUME NEW c, NEW ss, NEW m, NEW n, Shows(m, c, ss), Shows(n, c, ss)
  PROVE  m = n
<1>1. DOMAIN m = DOMAIN n
  BY DEF Shows
<1>2. \A x \in DOMAIN m : m[x] = n[x]
  BY DEF Shows
<1> QED
  BY <1>1, <1>2 DEF Shows

(* A view that shows the strokes of the others, and their cursors, is what *)
(* a newcomer would be given.                                              *)
LEMMA ShowsOthers ==
  ASSUME NEW c, NEW ss, NEW cs, IdsDiffer(ss), NEW m, Shows(m, c, ss)
  PROVE  ViewOf(m, Erase(cs, c)) = Others(c, ss, cs)
BY OthersShow, ShownOnce

(* One step of replay, by kind.                                            *)
LEMMA ReplayBegin ==
  ASSUME NEW m, NEW n, NEW c, NEW id, NEW order, NEW st, NEW p
  PROVE  Replay(ViewOf(m, n), StrokeBeginOut(c, id, order, st, p)) =
           ViewOf(Put(m, id, [id |-> id, author |-> c, style |-> st,
                              strokeOrder |-> order, points |-> <<p>>,
                              finished |-> FALSE]), n)
BY DEF Replay, ViewOf, StrokeBeginOut

LEMMA ReplayPoint ==
  ASSUME NEW m, NEW n, NEW c, NEW id, NEW p
  PROVE  Replay(ViewOf(m, n), StrokePointOut(c, id, p)) =
           ViewOf([m EXCEPT ![id].points = Append(@, p)], n)
BY DEF Replay, ViewOf, StrokePointOut

Ended(m, id) == [m EXCEPT ![id].finished = TRUE]

LEMMA ReplayEnd ==
  ASSUME NEW m, NEW n, NEW c, NEW id
  PROVE  Replay(ViewOf(m, n), StrokeEndOut(c, id)) = ViewOf(Ended(m, id), n)
BY DEF Replay, ViewOf, StrokeEndOut, Ended

LEMMA ReplayCursor ==
  ASSUME NEW m, NEW n, NEW c, NEW p
  PROVE  Replay(ViewOf(m, n), CursorMoveOut(c, p)) = ViewOf(m, Put(n, c, p))
BY DEF Replay, ViewOf, CursorMoveOut

LEMMA ReplayClear ==
  ASSUME NEW m, NEW n, NEW c
  PROVE  Replay(ViewOf(m, n), ClearOut(c)) = ViewOf(EmptyMap, n)
BY DEF Replay, ViewOf, ClearOut

LEMMA ReplayLeft ==
  ASSUME NEW m, NEW n, NEW c
  PROVE  Replay(ViewOf(m, n), MemberLeftOut(c)) = ViewOf(m, Erase(n, c))
BY DEF Replay, ViewOf, MemberLeftOut

-----------------------------------------------------------------------------
(* A stroke is begun: the others put it on their boards, the author's view *)
(* of the others stays.                                                    *)
LEMMA ShowsBegun ==
  ASSUME NEW d, NEW ss \in Seq(Stroke), NEW new, NEW m, Shows(m, d, ss),
         \A i \in DOMAIN ss : ss[i].id # new.id
  PROVE  Shows(IF new.author = d THEN m ELSE Put(m, new.id, new), d, Append(ss, new))
<1> DEFINE t == Append(ss, new)
           k == Len(ss) + 1
<1>1. /\ DOMAIN t = DOMAIN ss \cup {k} /\ k \notin DOMAIN ss /\ t[k] = new
      /\ \A i \in DOMAIN ss : t[i] = ss[i]
  OBVIOUS
<1> HIDE DEF t, k
<1>2. CASE new.author = d
  <2>1. Foreign(d, t) = Foreign(d, ss)
    BY <1>1, <1>2 DEF Foreign
  <2>2. \A i \in Foreign(d, t) : t[i] = ss[i]
    BY <1>1, <2>1 DEF Foreign
  <2>3. Shows(m, d, t)
    BY <2>1, <2>2 DEF Shows
  <2> QED
    BY <1>2, <2>3 DEF t
<1>3. CASE new.author # d
  <2> DEFINE n == Put(m, new.id, new)
  <2>1. Foreign(d, t) = Foreign(d, ss) \cup {k}
    BY <1>1, <1>3 DEF Foreign
  <2>2. \A i \in Foreign(d, ss) : t[i] = ss[i] /\ ss[i].id # new.id /\ ss[i].id \in DOMAIN m
    BY <1>1 DEF Foreign, Shows
  <2>3. /\ DOMAIN n = DOMAIN m \cup {new.id} /\ n[new.id] = new
        /\ n = [x \in DOMAIN n |-> n[x]]
        /\ \A x \in DOMAIN m : x # new.id => n[x] = m[x]
    BY DEF Put
  <2> HIDE DEF n
  <2>4. DOMAIN n = {t[i].id : i \in Foreign(d, t)}
    BY <1>1, <2>1, <2>2, <2>3 DEF Shows
  <2>5. \A i \in Foreign(d, t) : n[t[i].id] = t[i]
    BY <1>1, <2>1, <2>2, <2>3 DEF Shows
  <2>6. Shows(n, d, t)
    BY <2>3, <2>4, <2>5 DEF Shows
  <2> QED
    BY <1>3, <2>6 DEF t, n
<1> QED
  BY <1>2, <1>3

(* A stroke changes, but not its id and author: so it does for the others. *)
LEMMA ShowsChanged ==
  ASSUME NEW d, NEW ss, NEW t, NEW m, NEW n, NEW k \in DOMAIN ss,
         Shows(m, d, ss), IdsDiffer(ss), DOMAIN t = DOMAIN ss,
         \A i \in DOMAIN ss : t[i].id = ss[i].id /\ t[i].author = ss[i].author,
         \A i \in DOMAIN ss : i # k => t[i] = ss[i],
         ss[k].author = d => n = m,
         ss[k].author # d => n = [m EXCEPT ![ss[k].id] = t[k]]
  PROVE  Shows(n, d, t)
<1>1. Foreign(d, t) = Foreign(d, ss)
  BY DEF Foreign
<1>2. DOMAIN n = DOMAIN m /\ n = [x \in DOMAIN n |-> n[x]]
  BY DEF Shows
<1>3. ASSUME NEW i \in Foreign(d, ss) PROVE n[t[i].id] = t[i]
  <2>1. /\ i \in DOMAIN ss /\ ss[i].author # d /\ m[ss[i].id] = ss[i]
        /\ ss[i].id \in DOMAIN m /\ t[i].id = ss[i].id
    BY <1>3 DEF Foreign, Shows
  <2>2. CASE i = k
    BY <2>1, <2>2
  <2>3. CASE i # k
    <3>1. t[i] = ss[i] /\ ss[i].id # ss[k].id
      BY <2>1, <2>3 DEF IdsDiffer
    <3> QED
      BY <2>1, <3>1
  <2> QED
    BY <2>2, <2>3
<1>4. {t[i].id : i \in Foreign(d, t)} = {ss[i].id : i \in Foreign(d, ss)}
  <2>1. \A i \in Foreign(d, ss) : t[i].id = ss[i].id
    BY DEF Foreign
  <2> QED
    BY <1>1, <2>1
<1> QED
  BY <1>1, <1>2, <1>3, <1>4 DEF Shows

(* Cursors: what a client sees after a move, or when a member has left.    *)
LEMMA EraseMaps ==
  ASSUME NEW f, NEW c, NEW d, NEW p
  PROVE  /\ Erase(Put(f, d, p), d) = Erase(f, d)
         /\ c # d => Erase(Put(f, c, p), d) = Put(Erase(f, d), c, p)
         /\ Erase(Erase(f, c), d) = Erase(Erase(f, d), c)
<1>1. Erase(Put(f, d, p), d) = Erase(f, d)
  BY DEF Erase, Put, Restrict
<1>2. c # d => Erase(Put(f, c, p), d) = Put(Erase(f, d), c, p)
  BY DEF Erase, Put, Restrict
<1>3. Erase(Erase(f, c), d) = Erase(Erase(f, d), c)
  BY DEF Erase, Restrict
<1> QED
  BY <1>1, <1>2, <1>3

-----------------------------------------------------------------------------
(* A member other than the author hears an event of the author, ...        *)
LEMMA OthersHear ==
  ASSUME NEW c, NEW d \in members, d # c, NEW v, NEW n, NEW pl
  PROVE  Hear(d, v, Broadcast(c, n, pl)) = Replay(v, pl)
BY DEF Hear, Concerns, Broadcast

(* ... who does not, ...                                                   *)
LEMMA AuthorDoesNot ==
  ASSUME NEW c, NEW v, NEW n, NEW pl, pl.kind # "Clear"
  PROVE  Hear(c, v, Broadcast(c, n, pl)) = v
BY DEF Hear, Concerns, Broadcast

(* ... except that it clears its own board.                                *)
LEMMA AllClear ==
  ASSUME NEW c, NEW d \in members, NEW v, NEW n
  PROVE  Hear(d, v, Broadcast(c, n, ClearOut(c))) = Replay(v, ClearOut(c))
BY DEF Hear, Concerns, Broadcast, ClearOut

LEMMA IdsOnBoard == Inv => IdsDiffer(strokes)
BY DEF Inv, RoomInv, IndexExact, IdsDiffer

(* What d should see now.                                                  *)
Seen(d) == Others(d, strokes, cursors)

LEMMA SeesStrokes ==
  ASSUME Inv, NEW d
  PROVE  \E m : Shows(m, d, strokes) /\ Seen(d) = ViewOf(m, Erase(cursors, d))
BY IdsOnBoard, OthersShow DEF Seen

(* A view right for the board after the call is what the property wants.   *)
LEMMA SeesNext ==
  ASSUME Inv', NEW d, NEW m, Shows(m, d, strokes')
  PROVE  ViewOf(m, Erase(cursors', d)) = Others(d, strokes', cursors')
<1>1. IdsDiffer(strokes')
  BY DEF Inv, RoomInv, IndexExact, IdsDiffer
<1> QED
  BY <1>1, ShowsOthers

(* The stroke a client is drawing, and where the others have it.           *)
LEMMA DrawnStroke ==
  ASSUME Inv, NEW c \in DOMAIN activeStrokeByClient
  PROVE  /\ ActiveIndex(c) \in DOMAIN strokes
         /\ strokes[ActiveIndex(c)].id = activeStrokeByClient[c]
         /\ strokes[ActiveIndex(c)].author = c
         /\ HasStroke(c)
BY DEF Inv, RoomInv, ActiveIsOpen, IndexExact, HasStroke, ActiveIndex

LEMMA SeesQuiet ==
  ASSUME NEW d, out' = <<>>, strokes' = strokes, cursors' = cursors
  PROVE  Receive(d, Seen(d), out') = Others(d, strokes', cursors')
BY ReceiveNone DEF Seen

LEMMA SeesBegin ==
  ASSUME Inv, Inv', NEW c \in Clients, NEW d \in members,
         NEW st \in Styles, NEW p \in Points, ApplyStrokeBegin(c, st, p)
  PROVE  Receive(d, Seen(d), out') = Others(d, strokes', cursors')
<1>1. CASE Refuse("ProtocolViolation")
  BY <1>1, SeesQuiet DEF Refuse, state, board
<1>2. CASE ~Refuse("ProtocolViolation")
  <2> DEFINE new == [id |-> nextStrokeId, author |-> c, style |-> st,
                     strokeOrder |-> nextSeq, points |-> <<p>>, finished |-> FALSE]
             pl == StrokeBeginOut(c, nextStrokeId, nextSeq, st, p)
             e == Broadcast(c, nextSeq, pl)
  <2>1. strokes' = Append(strokes, new) /\ cursors' = cursors /\ out' = <<e>>
    BY <1>2 DEF ApplyStrokeBegin, Return
  <2>2. PICK m : Shows(m, d, strokes) /\ Seen(d) = ViewOf(m, Erase(cursors, d))
    BY SeesStrokes
  <2>3. \A i \in DOMAIN strokes : strokes[i].id # nextStrokeId
    BY StrokeFields DEF Inv, RoomInv, BoardOrdered, TypeOK
  <2>4. new.id = nextStrokeId /\ new.author = c
    OBVIOUS
  <2>5. strokes \in Seq(Stroke)
    BY DEF Inv, TypeOK
  <2>6. Replay(Seen(d), pl) = ViewOf(Put(m, nextStrokeId, new), Erase(cursors, d))
    BY <2>2, ReplayBegin
  <2>7. pl.kind # "Clear"
    BY DEF StrokeBeginOut
  <2> HIDE DEF new, pl
  <2>8. Receive(d, Seen(d), out') = Hear(d, Seen(d), e)
    BY <2>1, ReceiveOne
  <2>9. Receive(d, Seen(d), out') =
          ViewOf(IF new.author = d THEN m ELSE Put(m, new.id, new), Erase(cursors, d))
    BY <2>2, <2>4, <2>6, <2>7, <2>8, OthersHear, AuthorDoesNot
  <2>10. Shows(IF new.author = d THEN m ELSE Put(m, new.id, new), d, strokes')
    BY <2>1, <2>2, <2>3, <2>4, <2>5, ShowsBegun
  <2> QED
    BY <2>1, <2>9, <2>10, SeesNext
<1> QED
  BY <1>1, <1>2

LEMMA SeesPoint ==
  ASSUME Inv, Inv', NEW c \in Clients, NEW d \in members,
         NEW p \in Points, ApplyStrokePoint(c, p)
  PROVE  Receive(d, Seen(d), out') = Others(d, strokes', cursors')
<1>1. CASE Refuse("ProtocolViolation")
  BY <1>1, SeesQuiet DEF Refuse, state, board
<1>2. CASE ~Refuse("ProtocolViolation")
  <2> DEFINE id == activeStrokeByClient[c]
             k == ActiveIndex(c)
             pl == StrokePointOut(c, id, p)
             e == Broadcast(c, nextSeq, pl)
  <2>1. /\ strokes' = [strokes EXCEPT ![k].points = Append(@, p)]
        /\ cursors' = cursors /\ out' = <<e>> /\ c \in DOMAIN activeStrokeByClient
    BY <1>2 DEF ApplyStrokePoint, Return, HasStroke
  <2>2. PICK m : Shows(m, d, strokes) /\ Seen(d) = ViewOf(m, Erase(cursors, d))
    BY SeesStrokes
  <2>3. k \in DOMAIN strokes /\ strokes[k].id = id /\ strokes[k].author = c
    BY <2>1, DrawnStroke
  <2>4. strokes \in Seq(Stroke)
    BY DEF Inv, TypeOK
  <2> HIDE DEF k, id
  <2>5. /\ DOMAIN strokes' = DOMAIN strokes
        /\ strokes'[k] = [strokes[k] EXCEPT !.points = Append(strokes[k].points, p)]
        /\ \A j \in DOMAIN strokes : j # k => strokes'[j] = strokes[j]
        /\ \A j \in DOMAIN strokes : strokes'[j].id = strokes[j].id
        /\ \A j \in DOMAIN strokes : strokes'[j].author = strokes[j].author
    BY <2>1, <2>3, <2>4, ExtendStroke
  <2> DEFINE changed == [m EXCEPT ![id].points = Append(@, p)]
             n == IF c = d THEN m ELSE changed
  <2>6. c # d => changed = [m EXCEPT ![strokes[k].id] = strokes'[k]]
    <3>1. c # d => m[id] = strokes[k]
      BY <2>2, <2>3 DEF Shows, Foreign
    <3>2. ASSUME c # d
          PROVE  strokes'[k] = [m[id] EXCEPT !.points = Append(m[id].points, p)]
      BY <2>5, <3>1, <3>2
    <3>3. ASSUME NEW q, q = [m[id] EXCEPT !.points = Append(m[id].points, p)]
          PROVE  changed = [m EXCEPT ![id] = q]
      BY <3>3
    <3> HIDE DEF changed
    <3> QED
      BY <2>3, <3>2, <3>3
  <2>7. Replay(Seen(d), pl) = ViewOf(changed, Erase(cursors, d))
    BY <2>2, ReplayPoint
  <2> HIDE DEF changed
  <2>8. Shows(n, d, strokes')
    <3>1. /\ strokes[k].author = d => n = m
          /\ strokes[k].author # d => n = [m EXCEPT ![strokes[k].id] = strokes'[k]]
      BY <2>3, <2>6
    <3>2. /\ DOMAIN strokes' = DOMAIN strokes
          /\ \A j \in DOMAIN strokes : j # k => strokes'[j] = strokes[j]
          /\ \A j \in DOMAIN strokes : /\ strokes'[j].id = strokes[j].id
                                         /\ strokes'[j].author = strokes[j].author
      BY <2>5
    <3> HIDE DEF n
    <3> QED
      BY <2>2, <2>3, <3>1, <3>2, IdsOnBoard, ShowsChanged
  <2>9. pl.kind # "Clear"
    BY DEF StrokePointOut
  <2> HIDE DEF pl
  <2>10. Receive(d, Seen(d), out') = Hear(d, Seen(d), e)
    BY <2>1, ReceiveOne
  <2>11. Receive(d, Seen(d), out') = ViewOf(n, Erase(cursors, d))
    BY <2>2, <2>7, <2>9, <2>10, OthersHear, AuthorDoesNot
  <2> QED
    BY <2>1, <2>8, <2>11, SeesNext
<1> QED
  BY <1>1, <1>2

(* The end of a stroke, from its author or because it leaves: with what    *)
(* replay makes of it the others show the board after it.                  *)
LEMMA SeesFinished ==
  ASSUME Inv, NEW c \in DOMAIN activeStrokeByClient, NEW d, NEW m,
         Shows(m, d, strokes),
         strokes' = [strokes EXCEPT ![ActiveIndex(c)].finished = TRUE]
  PROVE  Shows(IF c = d THEN m ELSE Ended(m, activeStrokeByClient[c]), d, strokes')
<1> DEFINE id == activeStrokeByClient[c]
           k == ActiveIndex(c)
           n == Ended(m, id)
<1>1. k \in DOMAIN strokes /\ strokes[k].id = id /\ strokes[k].author = c
  BY DrawnStroke
<1>2. strokes \in Seq(Stroke)
  BY DEF Inv, TypeOK
<1> HIDE DEF k, id
<1>3. /\ DOMAIN strokes' = DOMAIN strokes
      /\ strokes'[k] = [strokes[k] EXCEPT !.finished = TRUE]
      /\ \A j \in DOMAIN strokes : j # k => strokes'[j] = strokes[j]
      /\ \A j \in DOMAIN strokes : strokes'[j].id = strokes[j].id
      /\ \A j \in DOMAIN strokes : strokes'[j].author = strokes[j].author
  BY <1>1, <1>2, FinishStroke DEF k
<1>4. c # d => n = [m EXCEPT ![strokes[k].id] = strokes'[k]]
  <2>1. c # d => m[id] = strokes[k]
    BY <1>1 DEF Shows, Foreign
  <2>2. ASSUME NEW q, q = [m[id] EXCEPT !.finished = TRUE]
        PROVE  n = [m EXCEPT ![id] = q]
    BY <2>2 DEF Ended
  <2> HIDE DEF n
  <2> QED
    BY <1>1, <1>3, <2>1, <2>2
<1> HIDE DEF n
<1>5. Shows(IF c = d THEN m ELSE n, d, strokes')
  BY <1>1, <1>3, <1>4, IdsOnBoard, ShowsChanged
<1> QED
  BY <1>5 DEF n, id

LEMMA SeesEnd ==
  ASSUME Inv, Inv', NEW c \in Clients, NEW d \in members, ApplyStrokeEnd(c)
  PROVE  Receive(d, Seen(d), out') = Others(d, strokes', cursors')
<1>1. CASE Refuse("ProtocolViolation")
  BY <1>1, SeesQuiet DEF Refuse, state, board
<1>2. CASE ~Refuse("ProtocolViolation")
  <2> DEFINE id == activeStrokeByClient[c]
             pl == StrokeEndOut(c, id)
             e == Broadcast(c, nextSeq, pl)
  <2>1. /\ strokes' = [strokes EXCEPT ![ActiveIndex(c)].finished = TRUE]
        /\ cursors' = cursors /\ out' = <<e>> /\ c \in DOMAIN activeStrokeByClient
    BY <1>2 DEF ApplyStrokeEnd, Return, HasStroke
  <2>2. PICK m : Shows(m, d, strokes) /\ Seen(d) = ViewOf(m, Erase(cursors, d))
    BY SeesStrokes
  <2> DEFINE n == IF c = d THEN m ELSE Ended(m, id)
  <2>3. Replay(Seen(d), pl) = ViewOf(Ended(m, id), Erase(cursors, d)) /\ Shows(n, d, strokes')
    BY <2>1, <2>2, ReplayEnd, SeesFinished
  <2>4. pl.kind # "Clear"
    BY DEF StrokeEndOut
  <2> HIDE DEF pl
  <2>5. Receive(d, Seen(d), out') = Hear(d, Seen(d), e)
    BY <2>1, ReceiveOne
  <2>6. Receive(d, Seen(d), out') = ViewOf(n, Erase(cursors, d))
    BY <2>2, <2>3, <2>4, <2>5, OthersHear, AuthorDoesNot
  <2> QED
    BY <2>1, <2>3, <2>6, SeesNext
<1> QED
  BY <1>1, <1>2

LEMMA SeesMove ==
  ASSUME Inv, Inv', NEW c \in Clients, NEW d \in members,
         NEW p \in Points, ApplyCursorMove(c, p)
  PROVE  Receive(d, Seen(d), out') = Others(d, strokes', cursors')
<1>1. CASE Return(<<>>) /\ UNCHANGED state
  BY <1>1, SeesQuiet DEF Return, state, board
<1>2. CASE ~(Return(<<>>) /\ UNCHANGED state)
  <2> DEFINE pl == CursorMoveOut(c, p)
             e == Broadcast(c, nextSeq, pl)
  <2>1. strokes' = strokes /\ cursors' = Put(cursors, c, p) /\ out' = <<e>>
    BY <1>2 DEF ApplyCursorMove, Return
  <2>2. PICK m : Shows(m, d, strokes) /\ Seen(d) = ViewOf(m, Erase(cursors, d))
    BY SeesStrokes
  <2>3. Replay(Seen(d), pl) = ViewOf(m, Put(Erase(cursors, d), c, p))
    BY <2>2, ReplayCursor
  <2>4. pl.kind # "Clear"
    BY DEF CursorMoveOut
  <2> HIDE DEF pl
  <2>5. Receive(d, Seen(d), out') = Hear(d, Seen(d), e)
    BY <2>1, ReceiveOne
  <2>6. Receive(d, Seen(d), out') = ViewOf(m, Erase(Put(cursors, c, p), d))
    BY <2>2, <2>3, <2>4, <2>5, OthersHear, AuthorDoesNot, EraseMaps
  <2> QED
    BY <2>1, <2>2, <2>6, SeesNext
<1> QED
  BY <1>1, <1>2

LEMMA SeesClear ==
  ASSUME Inv, Inv', NEW c \in Clients, NEW d \in members, ApplyClear(c)
  PROVE  Receive(d, Seen(d), out') = Others(d, strokes', cursors')
<1> DEFINE e == Broadcast(c, nextSeq, ClearOut(c))
<1>1. strokes' = <<>> /\ cursors' = cursors /\ out' = <<e>>
  BY DEF ApplyClear, Return
<1>2. PICK m : Seen(d) = ViewOf(m, Erase(cursors, d))
  BY SeesStrokes
<1>3. Receive(d, Seen(d), out') = ViewOf(EmptyMap, Erase(cursors, d))
  <2>1. Receive(d, Seen(d), out') = Hear(d, Seen(d), e)
    BY <1>1, ReceiveOne
  <2>2. Hear(d, Seen(d), e) = Replay(Seen(d), ClearOut(c))
    BY AllClear
  <2> QED
    BY <1>2, <2>1, <2>2, ReplayClear
<1>4. Shows(EmptyMap, d, strokes')
  <2>1. DOMAIN strokes' = {}
    BY <1>1
  <2> QED
    BY <2>1 DEF Shows, Foreign, EmptyMap
<1> QED
  BY <1>1, <1>3, <1>4, SeesNext

LEMMA SeesLeave ==
  ASSUME Inv, Inv', NEW c \in Clients, NEW d \in members, d # c, Leave(c)
  PROVE  Receive(d, Seen(d), out') = Others(d, strokes', cursors')
<1> DEFINE id == activeStrokeByClient[c]
           left(n) == Broadcast(c, n, MemberLeftOut(c))
           end == Broadcast(c, nextSeq, StrokeEndOut(c, id))
<1>1. PICK m : Shows(m, d, strokes) /\ Seen(d) = ViewOf(m, Erase(cursors, d))
  BY SeesStrokes
<1>2. cursors' = Erase(cursors, c)
  BY DEF Leave
<1>3. \A n, k : Hear(d, ViewOf(k, Erase(cursors, d)), left(n)) = ViewOf(k, Erase(cursors', d))
  <2> SUFFICES ASSUME NEW n, NEW k
               PROVE  Hear(d, ViewOf(k, Erase(cursors, d)), left(n)) = ViewOf(k, Erase(cursors', d))
    OBVIOUS
  <2>1. Hear(d, ViewOf(k, Erase(cursors, d)), left(n))
          = ViewOf(k, Erase(Erase(cursors, d), c))
    BY OthersHear, ReplayLeft
  <2> QED
    BY <1>2, <2>1, EraseMaps
<1>4. CASE LeaveIdle(c)
  <2>1. strokes' = strokes /\ out' = <<left(nextSeq)>>
    BY <1>4 DEF LeaveIdle, Return
  <2> HIDE DEF left
  <2>2. Receive(d, Seen(d), out') = ViewOf(m, Erase(cursors', d))
    BY <1>1, <1>3, <2>1, ReceiveOne
  <2> QED
    BY <1>1, <2>1, <2>2, SeesNext
<1>5. CASE LeaveDrawing(c)
  <2>1. c \in DOMAIN activeStrokeByClient
    BY <1>5 DEF LeaveDrawing
  <2>2. /\ strokes' = [strokes EXCEPT ![ActiveIndex(c)].finished = TRUE]
        /\ out' = <<end, left(nextSeq + 1)>>
    BY <1>5, <2>1, DrawnStroke DEF LeaveDrawing, Return
  <2> DEFINE n == Ended(m, id)
  <2>3. /\ Replay(Seen(d), StrokeEndOut(c, id)) = ViewOf(n, Erase(cursors, d))
        /\ Shows(n, d, strokes')
    BY <1>1, <2>1, <2>2, ReplayEnd, SeesFinished
  <2> HIDE DEF n
  <2>4. Hear(d, Seen(d), end) = ViewOf(n, Erase(cursors, d))
    BY <2>3, OthersHear
  <2> HIDE DEF left, end
  <2>5. Receive(d, Seen(d), out') = Hear(d, Hear(d, Seen(d), end), left(nextSeq + 1))
    BY <2>2, ReceiveTwo
  <2>6. Receive(d, Seen(d), out') = ViewOf(n, Erase(cursors', d))
    BY <1>3, <2>4, <2>5
  <2> QED
    BY <2>3, <2>6, SeesNext
<1> QED
  BY <1>4, <1>5 DEF Leave

-----------------------------------------------------------------------------
(* The views with the invariant of the room, of which they use that ids    *)
(* differ and that the stroke a client is drawing is its own.              *)
ViewInv == Inv /\ DOMAIN view = Clients /\ ViewsAgree

LEMMA ViewInitInv == ClientsInit => ViewInv
<1> SUFFICES ASSUME ClientsInit PROVE ViewInv
  OBVIOUS
<1>1. Init /\ view = [c \in Clients |-> EmptyView] /\ members = {}
  BY DEF ClientsInit, Init
<1> QED
  BY <1>1, InitInv DEF ViewInv, ViewsAgree

LEMMA ViewNextInv == ViewInv /\ [ClientsNext]_clientVars => ViewInv'
<1> SUFFICES ASSUME ViewInv, [ClientsNext]_clientVars PROVE ViewInv'
  OBVIOUS
<1>1. Inv /\ DOMAIN view = Clients /\ members \subseteq Clients
  BY DEF ViewInv, Inv, TypeOK
<1>2. Inv'
  <2>1. [Next]_vars
    BY DEF ClientsNext, ClientJoins, ClientLeaves, ClientDraws, clientVars, Next, Call
  <2> QED
    BY <1>1, <2>1, NextInv
<1>3. \A d \in members : view[d] = Seen(d)
  BY DEF ViewInv, ViewsAgree, Seen
<1>4. ASSUME UNCHANGED <<members, strokes, cursors, view>> PROVE ViewInv'
  BY <1>2, <1>4 DEF ViewInv, ViewsAgree
<1>5. CASE UNCHANGED clientVars
  BY <1>4, <1>5 DEF clientVars, vars, state, board
<1>6. CASE Tick /\ UNCHANGED <<view, moved>>
  BY <1>4, <1>6 DEF Tick, board
<1>7. ASSUME NEW c \in Clients, NotInRoom(c), UNCHANGED <<view, moved>> PROVE ViewInv'
  BY <1>4, <1>7 DEF NotInRoom, Refuse, state, board
<1>8. ASSUME NEW c \in Clients, ClientJoins(c) PROVE ViewInv'
  <2>1. /\ members' = members \cup {c} /\ strokes' = strokes /\ cursors' = cursors
        /\ view' = [view EXCEPT ![c] = Others(c, strokes', cursors')]
    BY <1>8 DEF ClientJoins, Join, board, Snapshot
  <2>2. DOMAIN view' = Clients
    BY <1>1, <2>1
  <2>3. ASSUME NEW d \in members' PROVE view'[d] = Others(d, strokes', cursors')
    <3>1. CASE d = c
      BY <1>1, <2>1, <3>1
    <3>2. CASE d # c
      BY <1>1, <1>3, <2>1, <2>3, <3>2 DEF Seen
    <3> QED
      BY <3>1, <3>2
  <2> QED
    BY <1>2, <2>2, <2>3 DEF ViewInv, ViewsAgree
<1>9. ASSUME NEW c \in Clients, ClientLeaves(c) PROVE ViewInv'
  <2>1. /\ Leave(c) /\ members' = members \ {c}
        /\ view' = [d \in Clients |-> IF d = c THEN EmptyView ELSE Receive(d, view[d], out')]
    BY <1>9 DEF ClientLeaves, Leave
  <2>2. ASSUME NEW d \in members' PROVE view'[d] = Others(d, strokes', cursors')
    BY <1>1, <1>2, <1>3, <2>1, <2>2, SeesLeave
  <2> QED
    BY <1>2, <2>1, <2>2 DEF ViewInv, ViewsAgree
<1>10. ASSUME NEW c \in Clients, ClientDraws(c) PROVE ViewInv'
  <2>1. Apply(c) /\ view' = [d \in Clients |-> Receive(d, view[d], out')]
    BY <1>10 DEF ClientDraws
  <2>2. members' = members
    BY <2>1 DEF Apply, ApplyStrokeBegin, ApplyStrokePoint, ApplyStrokeEnd,
                ApplyCursorMove, ApplyClear, Refuse, state
  <2>3. ASSUME NEW d \in members PROVE Receive(d, view[d], out') = Others(d, strokes', cursors')
    BY <1>1, <1>2, <1>3, <2>1, SeesBegin, SeesPoint, SeesEnd, SeesMove, SeesClear DEF Apply
  <2> QED
    BY <1>1, <1>2, <2>1, <2>2, <2>3 DEF ViewInv, ViewsAgree
<1> QED
  BY <1>5, <1>6, <1>7, <1>8, <1>9, <1>10 DEF ClientsNext

(* Every member sees of the others what is on the server's board, whenever *)
(* it joined: snapshots and events agree, for any number of clients.       *)
THEOREM ViewsCorrect == ClientsSpec => []ViewsAgree
<1>1. ViewInv => ViewsAgree
  BY DEF ViewInv
<1> QED
  BY <1>1, ViewInitInv, ViewNextInv, PTL DEF ClientsSpec

-----------------------------------------------------------------------------
(* The rate limit.  The history of what the members were told and the      *)
(* limiter's own memory are the same map, by which the guard of            *)
(* Room::applyCursorMove_ is a statement about broadcasts.                 *)
RateInv == Inv /\ moved = lastCursorUpdate

(* The kinds of event a call may tell of.                                  *)
LEMMA TellsNone ==
  ASSUME NEW kind, NEW c
  PROVE  ~Tells(kind, c, <<>>)
BY DEF Tells

LEMMA TellsOne ==
  ASSUME NEW kind, NEW c, NEW n, NEW to, NEW x
  PROVE  Tells(kind, c, <<[seq |-> n, to |-> to, payload |-> x]>>)
           <=> x.kind = kind /\ x.author = c
<1>1. DOMAIN <<[seq |-> n, to |-> to, payload |-> x]>> = {1}
  OBVIOUS
<1> QED
  BY <1>1 DEF Tells

(* An event of which the history keeps nothing.                            *)
Unheard(x) == x.kind \notin {"CursorMove", "MemberLeft"}

LEMMA ToldNothing ==
  ASSUME RateInv, out' = <<>>
  PROVE  Told(out') = moved
<1>1. /\ moved = [c \in DOMAIN moved |-> moved[c]]
      /\ \A c : ~Tells("MemberLeft", c, out') /\ ~Tells("CursorMove", c, out')
  BY TellsNone DEF RateInv, Inv, TypeOK, IsMap
<1> QED
  BY <1>1 DEF Told

LEMMA ToldUnheard ==
  ASSUME RateInv, NEW n, NEW c, NEW x, Unheard(x), out' = <<Broadcast(c, n, x)>>
  PROVE  /\ Told(out') = moved
         /\ \A d : ~Tells("CursorMove", d, out')
<1>1. /\ moved = [d \in DOMAIN moved |-> moved[d]]
      /\ \A d : ~Tells("MemberLeft", d, out') /\ ~Tells("CursorMove", d, out')
  BY TellsOne DEF RateInv, Inv, TypeOK, IsMap, Unheard, Broadcast
<1> QED
  BY <1>1 DEF Told

(* A cursor move is dropped or told of, according to the limiter.          *)
LEMMA MoveTold ==
  ASSUME RateInv, NEW c \in Clients, NEW p \in Points, ApplyCursorMove(c, p)
  PROVE  /\ Told(out') = lastCursorUpdate'
         /\ \A d \in Clients :
              Tells("CursorMove", d, out') <=> d = c /\ ~ToldLately(c)
<1>1. TooSoon(c) <=> ToldLately(c)
  BY DEF RateInv, TooSoon, ToldLately
<1>2. IsMap(lastCursorUpdate, Clients, Nat)
  BY DEF RateInv, Inv, TypeOK
<1>3. CASE TooSoon(c) /\ Return(<<>>) /\ UNCHANGED state
  <2>1. out' = <<>> /\ lastCursorUpdate' = lastCursorUpdate
    BY <1>3 DEF Return, state, maps
  <2> QED
    BY <1>1, <1>3, <2>1, ToldNothing, TellsNone DEF RateInv
<1>4. CASE /\ ~TooSoon(c)
           /\ lastCursorUpdate' = Put(lastCursorUpdate, c, now)
           /\ Return(<<Broadcast(c, nextSeq, CursorMoveOut(c, p))>>)
  <2>1. \A kind, d : Tells(kind, d, out') <=> kind = "CursorMove" /\ d = c
    BY <1>4, TellsOne DEF Return, Broadcast, CursorMoveOut
  <2>2. Told(out') = [d \in DOMAIN moved \cup {c} |-> IF d = c THEN now ELSE moved[d]]
    BY <2>1 DEF Told
  <2>3. lastCursorUpdate' = [d \in DOMAIN moved \cup {c} |-> IF d = c THEN now ELSE moved[d]]
    BY <1>2, <1>4 DEF Put, RateInv
  <2> QED
    BY <1>1, <1>4, <2>1, <2>2, <2>3
<1> QED
  BY <1>3, <1>4 DEF ApplyCursorMove

(* The members forget the cursor of a client that they are told has left.  *)
LEMMA LeaveTold ==
  ASSUME RateInv, NEW c \in Clients, Leave(c)
  PROVE  /\ Told(out') = lastCursorUpdate'
         /\ \A d : ~Tells("CursorMove", d, out')
<1>1. \A kind, d : Tells(kind, d, out') /\ kind # "StrokeEnd"
                    <=> kind = "MemberLeft" /\ d = c
  <2>1. CASE LeaveIdle(c)
    BY <2>1, TellsOne DEF LeaveIdle, Return, Broadcast, MemberLeftOut
  <2>2. CASE LeaveDrawing(c)
    <3>1. PICK e, f : /\ out' = <<e, f>>
                      /\ e.payload.kind = "StrokeEnd" /\ e.payload.author = c
                      /\ f.payload.kind = "MemberLeft" /\ f.payload.author = c
      BY <2>2 DEF LeaveDrawing, Return, Broadcast, StrokeEndOut, MemberLeftOut
    <3>2. DOMAIN out' = {1, 2} /\ out'[1] = e /\ out'[2] = f
      BY <3>1
    <3> QED
      BY <3>1, <3>2 DEF Tells
  <2> QED
    BY <2>1, <2>2 DEF Leave
<1>2. \A d : ~Tells("CursorMove", d, out') /\ (Tells("MemberLeft", d, out') <=> d = c)
  BY <1>1
<1>3. Told(out') = [d \in DOMAIN moved \ {c} |-> moved[d]]
  BY <1>2 DEF Told
<1>4. lastCursorUpdate' = [d \in DOMAIN moved \ {c} |-> moved[d]]
  BY DEF Leave, Erase, Restrict, RateInv
<1> QED
  BY <1>2, <1>3, <1>4

(* The other calls of Room::apply tell of no cursor.                       *)
LEMMA DrawTold ==
  ASSUME RateInv, NEW c \in Clients, Apply(c),
         ~\E p \in Points : ApplyCursorMove(c, p)
  PROVE  /\ Told(out') = lastCursorUpdate'
         /\ \A d : ~Tells("CursorMove", d, out')
<1>1. ASSUME out' = <<>>, lastCursorUpdate' = lastCursorUpdate
      PROVE  /\ Told(out') = lastCursorUpdate'
             /\ \A d : ~Tells("CursorMove", d, out')
  BY <1>1, ToldNothing, TellsNone DEF RateInv
<1>2. ASSUME NEW n, NEW x, Unheard(x), out' = <<Broadcast(c, n, x)>>,
             lastCursorUpdate' = lastCursorUpdate
      PROVE  /\ Told(out') = lastCursorUpdate'
             /\ \A d : ~Tells("CursorMove", d, out')
  BY <1>2, ToldUnheard DEF RateInv
<1>3. CASE \E p \in Points, st \in Styles : ApplyStrokeBegin(c, st, p)
  BY <1>1, <1>2, <1>3 DEF ApplyStrokeBegin, Refuse, Return, StrokeBeginOut, Unheard,
                          state, maps
<1>4. CASE \E p \in Points : ApplyStrokePoint(c, p)
  BY <1>1, <1>2, <1>4 DEF ApplyStrokePoint, Refuse, Return, StrokePointOut, Unheard,
                          state, maps
<1>5. CASE ApplyStrokeEnd(c)
  BY <1>1, <1>2, <1>5 DEF ApplyStrokeEnd, Refuse, Return, StrokeEndOut, Unheard,
                          state, maps
<1>6. CASE ApplyClear(c)
  BY <1>2, <1>6 DEF ApplyClear, Return, ClearOut, Unheard
<1> QED
  BY <1>3, <1>4, <1>5, <1>6 DEF Apply

LEMMA RateNextInv == RateInv /\ [ClientsNext]_clientVars => RateInv'
<1> SUFFICES ASSUME RateInv, [ClientsNext]_clientVars PROVE RateInv'
  OBVIOUS
<1>1. Inv'
  <2>1. [Next]_vars
    BY DEF ClientsNext, ClientJoins, ClientLeaves, ClientDraws, clientVars, Next, Call
  <2> QED
    BY <2>1, NextInv DEF RateInv
<1>2. CASE UNCHANGED clientVars
  BY <1>1, <1>2 DEF RateInv, clientVars, vars, state, maps
<1>3. CASE Tick /\ UNCHANGED <<view, moved>>
  BY <1>1, <1>3 DEF RateInv, Tick, maps
<1>4. ASSUME NEW c \in Clients, NotInRoom(c), UNCHANGED <<view, moved>> PROVE RateInv'
  BY <1>1, <1>4 DEF RateInv, NotInRoom, Refuse, state, maps
<1>5. ASSUME NEW c \in Clients, ClientJoins(c) PROVE RateInv'
  BY <1>1, <1>5, ToldNothing DEF RateInv, ClientJoins, Join, Return, maps
<1>6. ASSUME NEW c \in Clients, ClientLeaves(c) PROVE RateInv'
  BY <1>1, <1>6, LeaveTold DEF RateInv, ClientLeaves
<1>7. ASSUME NEW c \in Clients, ClientDraws(c) PROVE RateInv'
  BY <1>1, <1>7, MoveTold, DrawTold DEF RateInv, ClientDraws
<1> QED
  BY <1>2, <1>3, <1>4, <1>5, <1>6, <1>7 DEF ClientsNext

(* The members are told of a cursor move exactly when they have not been   *)
(* told of one within the last MinInterval of that client's stay: the      *)
(* limiter of Room::applyCursorMove_ lets no two broadcasts come closer    *)
(* and drops no move it need not drop.                                     *)
THEOREM RateCorrect == ClientsSpec => CursorRate
<1> DEFINE Kept(c) ==
             /\ Tells("CursorMove", c, out') => ~ToldLately(c)
             /\ (\E p \in Points : ApplyCursorMove(c, p)) /\ ~ToldLately(c) =>
                  Tells("CursorMove", c, out')
           AllKept == \A c \in Clients : Kept(c)
<1>1. ClientsInit => RateInv
  BY InitInv DEF ClientsInit, Init, RateInv
<1>2. ASSUME RateInv, ClientsNext PROVE AllKept
  <2> SUFFICES ASSUME NEW c \in Clients PROVE Kept(c)
    OBVIOUS
  <2>1. CASE \E d \in Clients, p \in Points : ApplyCursorMove(d, p)
    <3>1. PICK d \in Clients, p \in Points : ApplyCursorMove(d, p)
      BY <2>1
    <3>2. Tells("CursorMove", c, out') <=> c = d /\ ~ToldLately(d)
      BY <1>2, <3>1, MoveTold
    <3>3. ASSUME NEW s \in Points, ApplyCursorMove(c, s), ~ToldLately(c)
          PROVE  Tells("CursorMove", c, out')
      BY <1>2, <3>3, MoveTold
    <3> QED
      BY <3>2, <3>3
  <2>2. CASE ~\E d \in Clients, p \in Points : ApplyCursorMove(d, p)
    <3>1. ~Tells("CursorMove", c, out')
      <4>1. CASE out' = <<>>
        BY <4>1, TellsNone
      <4>2. ASSUME NEW d \in Clients, ClientLeaves(d) PROVE ~Tells("CursorMove", c, out')
        BY <1>2, <4>2, LeaveTold DEF ClientLeaves
      <4>3. ASSUME NEW d \in Clients, ClientDraws(d) PROVE ~Tells("CursorMove", c, out')
        BY <1>2, <2>2, <4>3, DrawTold DEF ClientDraws
      <4> QED
        BY <1>2, <4>1, <4>2, <4>3
        DEF ClientsNext, Tick, Return, ClientJoins, Join, NotInRoom, Refuse
    <3> QED
      BY <2>2, <3>1
  <2> QED
    BY <2>1, <2>2
<1>3. RateInv /\ [ClientsNext]_clientVars => [AllKept]_clientVars
  BY <1>2
<1> QED
  BY <1>1, <1>3, RateNextInv, PTL DEF ClientsSpec, CursorRate

-----------------------------------------------------------------------------
(* Room implements RoomProtocol under the mapping of RoomRefinement.  What *)
(* the mapping needs of the invariant is ActiveIsOpen: the code looks for  *)
(* a stroke in two maps, the abstract room has one set of clients that are *)
(* drawing.                                                                *)

(* The abstract form of a sequence of broadcasts.                          *)
Abstract(es) == [k \in DOMAIN es |-> AbstractEvent(es[k])]

(* A call that broadcasts nothing stands for one without events, ...       *)
LEMMA NoEvents ==
  ASSUME NEW rm, NEW c
  PROVE  Abstract(<<>>) = <<>> /\ Protocol!Events(rm, c, <<>>) = <<>>
BY DEF Abstract, Protocol!Events

(* ... one broadcast for one event, ...                                    *)
LEMMA OneEvent ==
  ASSUME NEW c, NEW p, p.author = c, nextSeq \in Nat
  PROVE  Abstract(<<Broadcast(c, nextSeq, p)>>)
           = Protocol!Events(AbstractRoom, c, <<p.kind>>)
<1> DEFINE es == <<Broadcast(c, nextSeq, p)>>
           ks == <<p.kind>>
<1>1. DOMAIN es = {1} /\ DOMAIN ks = {1}
  OBVIOUS
<1>2. AbstractEvent(es[1]) =
        [seq |-> AbstractRoom.nextSeq + 1 - 1, kind |-> ks[1], author |-> c,
         to |-> AbstractRoom.members \ {c}]
  BY DEF AbstractEvent, Broadcast, AbstractRoom
<1> QED
  BY <1>1, <1>2 DEF Abstract, Protocol!Events

(* ... and the two broadcasts of a leave in mid-stroke for two.            *)
LEMMA TwoEvents ==
  ASSUME NEW c, NEW p, NEW q, p.author = c, q.author = c, nextSeq \in Nat
  PROVE  Abstract(<<Broadcast(c, nextSeq, p), Broadcast(c, nextSeq + 1, q)>>)
           = Protocol!Events(AbstractRoom, c, <<p.kind, q.kind>>)
<1> DEFINE es == <<Broadcast(c, nextSeq, p), Broadcast(c, nextSeq + 1, q)>>
           ks == <<p.kind, q.kind>>
<1>1. DOMAIN es = {1, 2} /\ DOMAIN ks = {1, 2}
  OBVIOUS
<1>2. AbstractEvent(es[1]) =
        [seq |-> AbstractRoom.nextSeq + 1 - 1, kind |-> ks[1], author |-> c,
         to |-> AbstractRoom.members \ {c}]
  BY DEF AbstractEvent, Broadcast, AbstractRoom
<1>3. AbstractEvent(es[2]) =
        [seq |-> AbstractRoom.nextSeq + 2 - 1, kind |-> ks[2], author |-> c,
         to |-> AbstractRoom.members \ {c}]
  <2>1. es[2] = Broadcast(c, nextSeq + 1, q) /\ ks[2] = q.kind
    OBVIOUS
  <2>2. AbstractRoom.nextSeq + 2 - 1 = nextSeq + 1 /\ AbstractRoom.members = members
    BY DEF AbstractRoom
  <2> QED
    BY <2>1, <2>2 DEF AbstractEvent, Broadcast
<1> QED
  BY <1>1, <1>2, <1>3 DEF Abstract, Protocol!Events

-----------------------------------------------------------------------------
(* An answer of the code is the abstract outcome that has the same room,   *)
(* events and error.                                                       *)
LEMMA RefusedMaps ==
  ASSUME NEW code, Refuse(code)
  PROVE  Protocol!Answer(Protocol!Refused(AbstractRoom, code))
<1>1. AbstractRoom' = AbstractRoom
  BY DEF Refuse, state, counters, maps, AbstractRoom
<1>2. AbstractEvents' = <<>>
  BY NoEvents DEF Refuse, AbstractEvents, Abstract
<1> QED
  BY <1>1, <1>2 DEF Protocol!Answer, Protocol!Refused, Refuse

(* The same for a call that succeeds.                                      *)
LEMMA AcceptedMaps ==
  ASSUME NEW c, NEW kinds, NEW D,
         DOMAIN activeStrokeByClient' = D,
         nextSeq' = nextSeq + Len(kinds),
         Abstract(out') = Protocol!Events(AbstractRoom, c, kinds),
         err' = "none"
  PROVE  Protocol!Answer(Protocol!Accepted(AbstractRoom, c, kinds, members', D))
<1>1. AbstractRoom' = [members |-> members', drawing |-> D,
                       nextSeq |-> AbstractRoom.nextSeq + Len(kinds)]
  BY DEF AbstractRoom
<1>2. AbstractEvents' = Protocol!Events(AbstractRoom, c, kinds)
  BY DEF AbstractEvents, Abstract
<1> QED
  BY <1>1, <1>2 DEF Protocol!Answer, Protocol!Accepted

(* An event that apply() accepts and broadcasts is one that the abstract   *)
(* room accepts.                                                           *)
LEMMA AppliedMaps ==
  ASSUME NEW c, NEW p, p.author = c, nextSeq \in Nat,
         c \in members, members' = members,
         Protocol!InProtocol(AbstractRoom, c, p.kind),
         DOMAIN activeStrokeByClient' =
           Protocol!DrawingAfter(AbstractRoom, c, p.kind),
         nextSeq' = nextSeq + 1,
         Return(<<Broadcast(c, nextSeq, p)>>)
  PROVE  \E o \in Protocol!ApplyCall(AbstractRoom, c, p.kind) : Protocol!Answer(o)
<1> DEFINE D == Protocol!DrawingAfter(AbstractRoom, c, p.kind)
           o == Protocol!Accepted(AbstractRoom, c, <<p.kind>>, members', D)
<1>1. Abstract(out') = Protocol!Events(AbstractRoom, c, <<p.kind>>)
  BY OneEvent DEF Return
<1>2. Protocol!Answer(o)
  BY <1>1, AcceptedMaps DEF Return
<1>3. AbstractRoom.members = members
  BY DEF AbstractRoom
<1>4. o \in Protocol!ApplyCall(AbstractRoom, c, p.kind)
  BY <1>3, Zenon DEF Protocol!ApplyCall
<1> QED
  BY <1>2, <1>4

(* An event that apply() refuses is one that the abstract room refuses.    *)
LEMMA ViolationMaps ==
  ASSUME NEW c, NEW kind, c \in members,
         ~Protocol!InProtocol(AbstractRoom, c, kind),
         Refuse("ProtocolViolation")
  PROVE  \E o \in Protocol!ApplyCall(AbstractRoom, c, kind) : Protocol!Answer(o)
<1>1. Protocol!Answer(Protocol!Refused(AbstractRoom, "ProtocolViolation"))
  BY RefusedMaps
<1>2. AbstractRoom.members = members
  BY DEF AbstractRoom
<1>3. Protocol!Refused(AbstractRoom, "ProtocolViolation")
        \in Protocol!ApplyCall(AbstractRoom, c, kind)
  BY <1>2, Zenon DEF Protocol!ApplyCall
<1> QED
  BY <1>1, <1>3

-----------------------------------------------------------------------------
(* Every call on class Room, in whatever state its board, index and rate   *)
(* limiter are, has an outcome that the membership and who is drawing      *)
(* alone allow: the events to whom, the numbers, the error.                *)
THEOREM RoomImplementsProtocol == Spec => ImplementsProtocol
<1>1. Init => Protocol!Init
  <2> SUFFICES ASSUME Init PROVE Protocol!Init
    OBVIOUS
  <2>1. AbstractRoom = Protocol!NewRoom
    BY EmptyIsMap DEF Init, AbstractRoom, Protocol!NewRoom
  <2>2. AbstractEvents = <<>>
    BY NoEvents DEF Init, AbstractEvents, Abstract
  <2> QED
    BY <2>1, <2>2 DEF Init, Protocol!Init
<1>2. ASSUME Inv, Next PROVE Protocol!Next
  <2>0. /\ nextSeq \in Nat
        /\ AbstractRoom.members = members
        /\ AbstractRoom.drawing = DOMAIN activeStrokeByClient
        /\ \A c : HasStroke(c) <=> c \in AbstractRoom.drawing
    BY <1>2 DEF Inv, TypeOK, RoomInv, ActiveIsOpen, AbstractRoom, HasStroke
  <2>1. CASE Tick
    <3>1. AbstractRoom' = AbstractRoom
      BY <2>1 DEF Tick, AbstractRoom, counters, maps
    <3>2. AbstractEvents' = <<>>
      BY <2>1, NoEvents DEF Tick, Return, AbstractEvents, Abstract
    <3> QED
      BY <2>1, <3>1, <3>2 DEF Tick, Return, Protocol!Next, Protocol!Quiet
  <2>2. ASSUME NEW c \in Clients, Call(c) PROVE Protocol!Call(c)
    <3>1. CASE Join(c)
      <4>1. Protocol!Answer(Protocol!Accepted(AbstractRoom, c, <<>>, members',
                                              AbstractRoom.drawing))
        <5>1. Abstract(out') = Protocol!Events(AbstractRoom, c, <<>>)
          BY <3>1, NoEvents DEF Join, Return
        <5>2. nextSeq' = nextSeq + Len(<<>>)
          BY <2>0, <3>1 DEF Join, counters
        <5>3. DOMAIN activeStrokeByClient' = AbstractRoom.drawing /\ err' = "none"
          BY <2>0, <3>1 DEF Join, Return, maps
        <5> QED
          BY <5>1, <5>2, <5>3, AcceptedMaps
      <4>2. members' = AbstractRoom.members \cup {c}
        BY <2>0, <3>1 DEF Join
      <4> QED
        BY <4>1, <4>2 DEF Protocol!Call, Protocol!JoinCall
    <3>2. CASE NotInRoom(c)
      <4>1. Protocol!Answer(Protocol!Refused(AbstractRoom, "NotInRoom"))
        BY <3>2, RefusedMaps DEF NotInRoom
      <4>2. c \notin AbstractRoom.members
        BY <2>0, <3>2 DEF NotInRoom
      <4> QED
        BY <4>1, <4>2 DEF Protocol!Call, Protocol!LeaveCall
    <3>3. CASE Leave(c)
      <4> DEFINE L == AbstractRoom.drawing \ {c}
      <4>0. c \in AbstractRoom.members /\ members' = AbstractRoom.members \ {c}
        BY <2>0, <3>3 DEF Leave
      <4>1. CASE LeaveIdle(c)
        <5>1. Abstract(out') = Protocol!Events(AbstractRoom, c, <<"MemberLeft">>)
          <6>1. /\ MemberLeftOut(c).author = c
                /\ MemberLeftOut(c).kind = "MemberLeft"
            BY DEF MemberLeftOut
          <6>2. out' = <<Broadcast(c, nextSeq, MemberLeftOut(c))>>
            BY <4>1 DEF LeaveIdle, Return
          <6> QED
            BY <2>0, <6>1, <6>2, OneEvent
        <5>2. /\ nextSeq' = nextSeq + Len(<<"MemberLeft">>)
              /\ DOMAIN activeStrokeByClient' = L
              /\ err' = "none"
              /\ c \notin AbstractRoom.drawing
          BY <2>0, <4>1 DEF LeaveIdle, Return
        <5>3. Protocol!Answer(Protocol!Accepted(AbstractRoom, c, <<"MemberLeft">>,
                                                members', L))
          BY <5>1, <5>2, AcceptedMaps
        <5> QED
          BY <4>0, <5>2, <5>3 DEF Protocol!Call, Protocol!LeaveCall
      <4>2. CASE LeaveDrawing(c)
        <5> DEFINE ks == <<"StrokeEnd", "MemberLeft">>
        <5>1. Abstract(out') = Protocol!Events(AbstractRoom, c, ks)
          <6>1. /\ MemberLeftOut(c).author = c
                /\ MemberLeftOut(c).kind = "MemberLeft"
            BY DEF MemberLeftOut
          <6>2. PICK p : p = StrokeEndOut(c, activeStrokeByClient[c])
            OBVIOUS
          <6>3. p.author = c /\ p.kind = "StrokeEnd"
            BY <6>2 DEF StrokeEndOut
          <6>4. out' = <<Broadcast(c, nextSeq, p),
                         Broadcast(c, nextSeq + 1, MemberLeftOut(c))>>
            BY <4>2, <6>2 DEF LeaveDrawing, Return
          <6> QED
            BY <2>0, <6>1, <6>3, <6>4, TwoEvents
        <5>2. /\ nextSeq' = nextSeq + Len(ks)
              /\ DOMAIN activeStrokeByClient' = L
              /\ err' = "none"
              /\ c \in AbstractRoom.drawing
          BY <2>0, <4>2 DEF LeaveDrawing, Return, Erase, Restrict
        <5>3. Protocol!Answer(Protocol!Accepted(AbstractRoom, c, ks, members', L))
          BY <5>1, <5>2, AcceptedMaps
        <5> QED
          BY <4>0, <5>2, <5>3 DEF Protocol!Call, Protocol!LeaveCall
      <4> QED
        BY <3>3, <4>1, <4>2 DEF Leave
    <3>4. CASE Apply(c)
      <4> DEFINE Ok(k) == \E o \in Protocol!ApplyCall(AbstractRoom, c, k) : Protocol!Answer(o)
      <4>1. ASSUME NEW p \in Points, NEW st \in Styles, ApplyStrokeBegin(c, st, p)
            PROVE  Ok("StrokeBegin")
        <5>1. CASE Refuse("ProtocolViolation") /\ c \in DOMAIN activeStrokeByClient
          <6>1. ~Protocol!InProtocol(AbstractRoom, c, "StrokeBegin")
            BY <2>0, <5>1 DEF Protocol!InProtocol
          <6> QED
            BY <4>1, <5>1, <6>1, ViolationMaps DEF ApplyStrokeBegin
        <5>2. CASE ~(c \in DOMAIN activeStrokeByClient)
          <6>1. PICK b : b = StrokeBeginOut(c, nextStrokeId, nextSeq, st, p)
            OBVIOUS
          <6>2. b.author = c /\ b.kind = "StrokeBegin"
            BY <6>1 DEF StrokeBeginOut
          <6>3. Protocol!InProtocol(AbstractRoom, c, "StrokeBegin")
            BY <2>0, <5>2 DEF Protocol!InProtocol
          <6>4. DOMAIN activeStrokeByClient' =
                  Protocol!DrawingAfter(AbstractRoom, c, "StrokeBegin")
            BY <2>0, <4>1, <5>2 DEF ApplyStrokeBegin, Put, Protocol!DrawingAfter
          <6>5. /\ c \in members /\ members' = members /\ nextSeq' = nextSeq + 1
                /\ Return(<<Broadcast(c, nextSeq, b)>>)
            BY <4>1, <5>2, <6>1 DEF ApplyStrokeBegin
          <6> QED
            BY <2>0, <6>2, <6>3, <6>4, <6>5, AppliedMaps
        <5> QED
          BY <4>1, <5>1, <5>2 DEF ApplyStrokeBegin
      <4>2. ASSUME NEW p \in Points, ApplyStrokePoint(c, p) PROVE Ok("StrokePoint")
        <5>1. CASE ~HasStroke(c)
          <6>1. ~Protocol!InProtocol(AbstractRoom, c, "StrokePoint")
            BY <2>0, <5>1 DEF Protocol!InProtocol
          <6> QED
            BY <4>2, <5>1, <6>1, ViolationMaps DEF ApplyStrokePoint
        <5>2. CASE HasStroke(c)
          <6>1. PICK b : b = StrokePointOut(c, activeStrokeByClient[c], p)
            OBVIOUS
          <6>2. b.author = c /\ b.kind = "StrokePoint"
            BY <6>1 DEF StrokePointOut
          <6>3. Protocol!InProtocol(AbstractRoom, c, "StrokePoint")
            BY <2>0, <5>2 DEF Protocol!InProtocol
          <6>4. DOMAIN activeStrokeByClient' =
                  Protocol!DrawingAfter(AbstractRoom, c, "StrokePoint")
            BY <2>0, <4>2, <5>2 DEF ApplyStrokePoint, maps, Protocol!DrawingAfter
          <6>5. /\ c \in members /\ members' = members /\ nextSeq' = nextSeq + 1
                /\ Return(<<Broadcast(c, nextSeq, b)>>)
            BY <4>2, <5>2, <6>1 DEF ApplyStrokePoint
          <6> QED
            BY <2>0, <6>2, <6>3, <6>4, <6>5, AppliedMaps
        <5> QED
          BY <5>1, <5>2
      <4>3. CASE ApplyStrokeEnd(c)
        <5>1. CASE ~HasStroke(c)
          <6>1. ~Protocol!InProtocol(AbstractRoom, c, "StrokeEnd")
            BY <2>0, <5>1 DEF Protocol!InProtocol
          <6>2. Ok("StrokeEnd")
            BY <4>3, <5>1, <6>1, ViolationMaps DEF ApplyStrokeEnd
          <6> QED
            BY <6>2 DEF Protocol!Call, Protocol!EventKinds
        <5>2. CASE HasStroke(c)
          <6>1. PICK b : b = StrokeEndOut(c, activeStrokeByClient[c])
            OBVIOUS
          <6>2. b.author = c /\ b.kind = "StrokeEnd"
            BY <6>1 DEF StrokeEndOut
          <6>3. Protocol!InProtocol(AbstractRoom, c, "StrokeEnd")
            BY <2>0, <5>2 DEF Protocol!InProtocol
          <6>4. DOMAIN activeStrokeByClient' =
                  Protocol!DrawingAfter(AbstractRoom, c, "StrokeEnd")
            BY <2>0, <4>3, <5>2 DEF ApplyStrokeEnd, Erase, Restrict, Protocol!DrawingAfter
          <6>5. /\ c \in members /\ members' = members /\ nextSeq' = nextSeq + 1
                /\ Return(<<Broadcast(c, nextSeq, b)>>)
            BY <4>3, <5>2, <6>1 DEF ApplyStrokeEnd
          <6>6. Ok("StrokeEnd")
            BY <2>0, <6>2, <6>3, <6>4, <6>5, AppliedMaps
          <6> QED
            BY <6>6 DEF Protocol!Call, Protocol!EventKinds
        <5> QED
          BY <5>1, <5>2
      <4>4. ASSUME NEW p \in Points, ApplyCursorMove(c, p) PROVE Ok("CursorMove")
        <5>0. Protocol!InProtocol(AbstractRoom, c, "CursorMove")
          BY DEF Protocol!InProtocol
        <5>1. CASE TooSoon(c)
          <6> DEFINE o == Protocol!Accepted(AbstractRoom, c, <<>>, members',
                                            AbstractRoom.drawing)
          <6>1. Abstract(out') = Protocol!Events(AbstractRoom, c, <<>>)
            BY <4>4, <5>1, NoEvents DEF ApplyCursorMove, Return
          <6>2. /\ nextSeq' = nextSeq + Len(<<>>) /\ err' = "none"
                /\ DOMAIN activeStrokeByClient' = AbstractRoom.drawing
                /\ members' = AbstractRoom.members /\ c \in AbstractRoom.members
            BY <2>0, <4>4, <5>1 DEF ApplyCursorMove, Return, state, counters, maps
          <6>3. Protocol!Answer(o)
            BY <6>1, <6>2, AcceptedMaps
          <6>4. o \in Protocol!ApplyCall(AbstractRoom, c, "CursorMove")
            BY <5>0, <6>2 DEF Protocol!ApplyCall
          <6> QED
            BY <6>3, <6>4
        <5>2. CASE ~TooSoon(c)
          <6>1. PICK b : b = CursorMoveOut(c, p)
            OBVIOUS
          <6>2. b.author = c /\ b.kind = "CursorMove"
            BY <6>1 DEF CursorMoveOut
          <6>3. DOMAIN activeStrokeByClient' =
                  Protocol!DrawingAfter(AbstractRoom, c, "CursorMove")
            BY <2>0, <4>4, <5>2 DEF ApplyCursorMove, Protocol!DrawingAfter
          <6>4. /\ c \in members /\ members' = members /\ nextSeq' = nextSeq + 1
                /\ Return(<<Broadcast(c, nextSeq, b)>>)
            BY <4>4, <5>2, <6>1 DEF ApplyCursorMove
          <6> QED
            BY <2>0, <5>0, <6>2, <6>3, <6>4, AppliedMaps
        <5> QED
          BY <5>1, <5>2
      <4>5. CASE ApplyClear(c)
        <5>1. PICK b : b = ClearOut(c)
          OBVIOUS
        <5>2. b.author = c /\ b.kind = "Clear"
          BY <5>1 DEF ClearOut
        <5>3. /\ Protocol!InProtocol(AbstractRoom, c, "Clear")
              /\ DOMAIN activeStrokeByClient' =
                   Protocol!DrawingAfter(AbstractRoom, c, "Clear")
          BY <4>5, EmptyIsMap DEF ApplyClear, Protocol!InProtocol, Protocol!DrawingAfter
        <5>4. /\ c \in members /\ members' = members /\ nextSeq' = nextSeq + 1
              /\ Return(<<Broadcast(c, nextSeq, b)>>)
          BY <4>5, <5>1 DEF ApplyClear
        <5>5. Ok("Clear")
          BY <2>0, <5>2, <5>3, <5>4, AppliedMaps
        <5> QED
          BY <5>5 DEF Protocol!Call, Protocol!EventKinds
      <4> QED
        BY <3>4, <4>1, <4>2, <4>3, <4>4, <4>5 DEF Apply, Protocol!Call, Protocol!EventKinds
    <3> QED
      BY <2>2, <3>1, <3>2, <3>3, <3>4 DEF Call
  <2> QED
    BY <1>2, <2>1, <2>2 DEF Next, Protocol!Next
<1>3. UNCHANGED vars => UNCHANGED Protocol!vars
  BY DEF vars, state, counters, maps, Protocol!vars, AbstractRoom, AbstractEvents,
         AbstractEvent
<1>4. Inv /\ [Next]_vars => [Protocol!Next]_(Protocol!vars)
  BY <1>2, <1>3
<1> QED
  BY <1>1, <1>4, InductiveInv, PTL DEF Spec, ImplementsProtocol, Protocol!Spec

=============================================================================
