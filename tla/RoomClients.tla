---------------------------- MODULE RoomClients ----------------------------
(***************************************************************************)
(* A room and the boards its clients see.  The clients are not in this     *)
(* repository; what they do is what its README says: a client that joins   *)
(* shows the snapshot it is given, and replays locally the events it is    *)
(* sent.  Its own strokes and its own cursor it knows without the server,  *)
(* so its view holds those of the others; it clears its own view when it   *)
(* clears the board.  Delivery is immediate here; what the server does to  *)
(* the order of events in transit is the subject of Sessions.              *)
(***************************************************************************)
EXTENDS Room

VARIABLES
  view,  \* what each client sees of the others
  moved  \* history: when the members were last told that a cursor moved

clientVars == <<vars, view, moved>>

EmptyView == [strokes |-> EmptyMap, cursors |-> EmptyMap]

(* The strokes and cursors of a board that are not c's own.                *)
Others(c, ss, cs) ==
  LET foreign == {i \in DOMAIN ss : ss[i].author # c}
      at(id) == CHOOSE i \in foreign : ss[i].id = id
  IN  [strokes |-> [id \in {ss[i].id : i \in foreign} |-> ss[at(id)]],
       cursors |-> Erase(cs, c)]

(* A client replays one event.                                             *)
Replay(v, e) ==
  CASE e.kind = "StrokeBegin" ->
         [v EXCEPT !.strokes =
            Put(@, e.id, [id |-> e.id, author |-> e.author, style |-> e.style,
                          strokeOrder |-> e.strokeOrder, points |-> <<e.point>>,
                          finished |-> FALSE])]
    [] e.kind = "StrokePoint" ->
         [v EXCEPT !.strokes[e.id].points = Append(@, e.point)]
    [] e.kind = "StrokeEnd" -> [v EXCEPT !.strokes[e.id].finished = TRUE]
    [] e.kind = "CursorMove" -> [v EXCEPT !.cursors = Put(@, e.author, e.point)]
    [] e.kind = "Clear" -> [v EXCEPT !.strokes = EmptyMap]
    [] e.kind = "MemberLeft" -> [v EXCEPT !.cursors = Erase(@, e.author)]

(* What a client replays of the events a call broadcast: those it is sent, *)
(* and its own Clear.                                                      *)
Concerns(c, e) ==
  c \in e.to \/ (e.payload.kind = "Clear" /\ e.payload.author = c)

Hear(c, v, e) == IF Concerns(c, e) THEN Replay(v, e.payload) ELSE v

Receive(c, v, es) ==
  LET seen[k \in 0 .. Len(es)] ==
        IF k = 0 THEN v ELSE Hear(c, seen[k - 1], es[k])
  IN  seen[Len(es)]

(* The call told the members of an event of that kind by c.                *)
Tells(kind, c, es) ==
  \E k \in DOMAIN es : es[k].payload.kind = kind /\ es[k].payload.author = c

(* The history after a call that broadcast es: nothing but what the members*)
(* were told counts, and they forget a client they are told has left.      *)
Told(es) ==
  LET stays == {c \in DOMAIN moved : ~Tells("MemberLeft", c, es)}
      moves == {c \in Clients : Tells("CursorMove", c, es)}
  IN  [c \in stays \cup moves |-> IF c \in moves THEN now ELSE moved[c]]

ClientsInit ==
  /\ Init
  /\ view = [c \in Clients |-> EmptyView]
  /\ moved = EmptyMap

ClientJoins(c) ==
  /\ Join(c)
  /\ view' = [view EXCEPT ![c] = Others(c, Snapshot'.strokes, Snapshot'.cursors)]
  /\ moved' = Told(out')

ClientLeaves(c) ==
  /\ Leave(c)
  /\ view' = [d \in Clients |-> IF d = c THEN EmptyView ELSE Receive(d, view[d], out')]
  /\ moved' = Told(out')

ClientDraws(c) ==
  /\ Apply(c)
  /\ view' = [d \in Clients |-> Receive(d, view[d], out')]
  /\ moved' = Told(out')

ClientsNext ==
  \/ Tick /\ UNCHANGED <<view, moved>>
  \/ \E c \in Clients :
       \/ ClientJoins(c) \/ ClientLeaves(c) \/ ClientDraws(c)
       \/ NotInRoom(c) /\ UNCHANGED <<view, moved>>

ClientsSpec == ClientsInit /\ [][ClientsNext]_clientVars

(* Everybody sees the same board: at any time every member, whenever it    *)
(* came and whatever happened since, sees of the others exactly what is on *)
(* the server's board, so what the events say is all that a client needs,  *)
(* and a newcomer's snapshot agrees with what the old members replayed.    *)
ViewsAgree == \A c \in members : view[c] = Others(c, strokes, cursors)

(* The members were told of a move of c less than MinInterval ago.         *)
ToldLately(c) == c \in DOMAIN moved /\ now - moved[c] < MinInterval

(* The rate limit, of the broadcasts themselves: the members are told of a *)
(* cursor move of c if, and only if, they have not been told of one within *)
(* the last MinInterval of its stay.  Two broadcasts are never closer, a   *)
(* move at exactly the interval is not lost, dropped moves do not put off  *)
(* the next one, and a client that left and came back starts afresh.       *)
CursorRate ==
  [][\A c \in Clients :
       /\ Tells("CursorMove", c, out') => ~ToldLately(c)
       /\ (\E p \in Points : ApplyCursorMove(c, p)) /\ ~ToldLately(c) =>
            Tells("CursorMove", c, out')]_clientVars

=============================================================================
