------------------------------ MODULE Sessions ------------------------------
(***************************************************************************)
(* The server around the rooms: TcpServer, SessionRegistry, ServerCore     *)
(* with its RoomManager, and the ClientSessions, each with its strand.     *)
(*                                                                         *)
(* The handlers of one session run one at a time, in the order in which    *)
(* they reached its strand; those of different sessions run in parallel on *)
(* the threads of the io_context.  A handler that calls the core takes one *)
(* step for the call (the room's mutex is held and released inside it),    *)
(* then one step for each message it posts, then one step to finish.       *)
(* Every other handler touches its own session only and is one step.       *)
(***************************************************************************)
EXTENDS RoomCalls, FiniteSets

CONSTANTS
  Clients,        \* connections the server may accept, by client id
  Fragile,        \* the connections that may break
  NoRoom,         \* an empty currentRoom_
  Requests,       \* the types of request that clients send
  Kinds,          \* the kinds of event that clients send
  RoomsAtStart,   \* rooms created before, by clients that are gone
  MaxRooms,       \* bound: rooms
  MaxLines        \* bound: lines the server reads

ASSUME SessionsAssumption ==
  /\ Fragile \subseteq Clients
  /\ NoRoom \notin Nat
  /\ Requests \subseteq {"ping", "invalid", "create_room", "join_room",
                         "leave_room", "event"}
  /\ Kinds \subseteq EventKinds
  /\ MaxRooms \in Nat /\ MaxLines \in Nat
  /\ RoomsAtStart \in 0 .. MaxRooms

VARIABLES
  rooms,        \* RoomManager::rooms_, by room id
  log,          \* history: author of each event of each room
  session,      \* "none", "open", "stopping" (inside stopImpl) or "closed"
  registry,     \* SessionRegistry::sessions_
  currentRoom,  \* currentRoom_
  strand,       \* handlers queued on strand_
  run,          \* the handler that is running: what it has still to post,
                \* and how it ends
  reads,        \* outstanding async_read_until operations
  writes,       \* outstanding async_write operations
  writeQueue,   \* writeQueue_
  sent,         \* history: what was written to the socket
  since,        \* history: nextSeq_ of the room when the client joined it
  broken,       \* connections that the peer closed or the network lost
  lines         \* number of lines read

coreVars == <<rooms, log>>
ioVars == <<reads, writes, writeQueue, sent>>
sessionVars == <<session, registry, currentRoom, since>>
vars == <<coreVars, ioVars, sessionVars, strand, run, broken, lines>>

RoomIds == 1..MaxRooms

Stopped(c) == session[c] \in {"stopping", "closed"}

Idle == [todo |-> <<>>, end |-> "none"]

-----------------------------------------------------------------------------
(* The messages of transport/messages.hpp.                                 *)

Reply(type) == [type |-> type]

SnapshotOf(r) == [type |-> "snapshot", room |-> r, lastSeq |-> rooms[r].nextSeq - 1]

EventMessage(r, e) ==
  [type |-> "event", room |-> r, seq |-> e.seq, kind |-> e.kind, author |-> e.author]

To(who, msg) == [to |-> who, msg |-> msg]

(* dispatchOutgoing(): the events in order, each to all its recipients.    *)
DispatchOutgoing(r, events) ==
  [i \in DOMAIN events |-> To(events[i].to, EventMessage(r, events[i]))]

Init ==
  /\ rooms = [r \in 1..RoomsAtStart |-> NewRoom]
  /\ log = [r \in 1..RoomsAtStart |-> <<>>]
  /\ session = [c \in Clients |-> "none"]
  /\ registry = {}
  /\ currentRoom = [c \in Clients |-> NoRoom]
  /\ strand = [c \in Clients |-> <<>>]
  /\ run = [c \in Clients |-> Idle]
  /\ reads = [c \in Clients |-> 0]
  /\ writes = [c \in Clients |-> 0]
  /\ writeQueue = [c \in Clients |-> <<>>]
  /\ sent = [c \in Clients |-> <<>>]
  /\ since = [c \in Clients |-> 0]
  /\ broken = {}
  /\ lines = 0

(* TcpServer::onAccept: make the session, register it, start reading.      *)
OnAccept(c) ==
  /\ session[c] = "none"
  /\ session' = [session EXCEPT ![c] = "open"]
  /\ registry' = registry \cup {c}
  /\ reads' = [reads EXCEPT ![c] = 1]
  /\ UNCHANGED <<coreVars, currentRoom, since, strand, run, writes, writeQueue,
                 sent, broken, lines>>

-----------------------------------------------------------------------------
(* The network, outside the program: a connection breaks, and the          *)
(* outstanding operations on a socket complete.  A read may still complete *)
(* with a line that had arrived before; an operation fails when the        *)
(* connection is broken or the session has closed its socket.              *)

Disconnect(c) ==
  /\ session[c] # "none" /\ c \in Fragile \ broken
  /\ broken' = broken \cup {c}
  /\ UNCHANGED <<coreVars, ioVars, sessionVars, strand, run, lines>>

Queue(c, handler) == strand' = [strand EXCEPT ![c] = Append(@, handler)]

Request ==
  [type : Requests \cap {"ping", "invalid", "create_room"}]
  \cup [type : Requests \cap {"join_room", "leave_room"}, room : RoomIds]
  \cup [type : Requests \cap {"event"}, room : RoomIds, kind : Kinds]

ReadCompletes(c, req) ==
  /\ reads[c] > 0 /\ session[c] # "closed"
  /\ lines < MaxLines
  /\ lines' = lines + 1
  /\ reads' = [reads EXCEPT ![c] = @ - 1]
  /\ Queue(c, [h |-> "read", req |-> req])
  /\ UNCHANGED <<coreVars, sessionVars, run, writes, writeQueue, sent, broken>>

ReadFails(c) ==
  /\ reads[c] > 0 /\ (c \in broken \/ session[c] = "closed")
  /\ reads' = [reads EXCEPT ![c] = @ - 1]
  /\ Queue(c, [h |-> "readError"])
  /\ UNCHANGED <<coreVars, sessionVars, run, writes, writeQueue, sent, broken, lines>>

WriteCompletes(c) ==
  /\ writes[c] > 0 /\ session[c] # "closed"
  /\ writes' = [writes EXCEPT ![c] = @ - 1]
  /\ Queue(c, [h |-> "written"])
  /\ UNCHANGED <<coreVars, sessionVars, run, reads, writeQueue, sent, broken, lines>>

WriteFails(c) ==
  /\ writes[c] > 0 /\ (c \in broken \/ session[c] = "closed")
  /\ writes' = [writes EXCEPT ![c] = @ - 1]
  /\ Queue(c, [h |-> "writeError"])
  /\ UNCHANGED <<coreVars, sessionVars, run, reads, writeQueue, sent, broken, lines>>

-----------------------------------------------------------------------------
(* Handlers.  The strand runs the next one when the session runs none.     *)

Starts(c, h) ==
  /\ run[c] = Idle
  /\ strand[c] # <<>>
  /\ Head(strand[c]).h = h
  /\ strand' = [strand EXCEPT ![c] = Tail(@)]

(* doWrite(): start a write unless there is nothing to write or the        *)
(* session has stopped.                                                    *)
DoWrite(c, queue) ==
  writes' = IF queue = <<>> \/ Stopped(c) THEN writes
            ELSE [writes EXCEPT ![c] = @ + 1]

(* Faulty variants: a write is started whether or not one is under way;    *)
(* the message goes to the front; it is dropped if a write is under way.   *)
OnPostedAlwaysWrites(c) ==
  /\ Starts(c, "post")
  /\ writeQueue' = [writeQueue EXCEPT ![c] = Append(@, Head(strand[c]).msg)]
  /\ DoWrite(c, writeQueue'[c])
  /\ UNCHANGED <<coreVars, sessionVars, run, reads, sent, broken, lines>>

OnPostedInFront(c) ==
  /\ Starts(c, "post")
  /\ writeQueue' = [writeQueue EXCEPT ![c] = <<Head(strand[c]).msg>> \o @]
  /\ IF writeQueue[c] = <<>> THEN DoWrite(c, writeQueue'[c]) ELSE UNCHANGED writes
  /\ UNCHANGED <<coreVars, sessionVars, run, reads, sent, broken, lines>>

OnPostedDropsIfBusy(c) ==
  /\ Starts(c, "post")
  /\ IF writeQueue[c] = <<>>
     THEN /\ writeQueue' = [writeQueue EXCEPT ![c] = <<Head(strand[c]).msg>>]
          /\ DoWrite(c, writeQueue'[c])
     ELSE UNCHANGED <<writeQueue, writes>>
  /\ UNCHANGED <<coreVars, sessionVars, run, reads, sent, broken, lines>>

(* The function deliver() posts.                                           *)
OnPosted(c) ==
  /\ Starts(c, "post")
  /\ writeQueue' = [writeQueue EXCEPT ![c] = Append(@, Head(strand[c]).msg)]
  /\ IF writeQueue[c] = <<>> THEN DoWrite(c, writeQueue'[c]) ELSE UNCHANGED writes
  /\ UNCHANGED <<coreVars, sessionVars, run, reads, sent, broken, lines>>

(* Faulty variant: the next message is not written.                        *)
OnWriteStalls(c) ==
  /\ Starts(c, "written")
  /\ sent' = [sent EXCEPT ![c] = Append(@, Head(writeQueue[c]))]
  /\ writeQueue' = [writeQueue EXCEPT ![c] = Tail(@)]
  /\ UNCHANGED <<coreVars, sessionVars, run, reads, writes, broken, lines>>

OnWrite(c) ==
  /\ Starts(c, "written")
  /\ sent' = [sent EXCEPT ![c] = Append(@, Head(writeQueue[c]))]
  /\ writeQueue' = [writeQueue EXCEPT ![c] = Tail(@)]
  /\ DoWrite(c, writeQueue'[c])
  /\ UNCHANGED <<coreVars, sessionVars, run, reads, broken, lines>>

(* The handler continues: it posts `todo', then ends as `end' says.        *)
Continue(c, todo, end) == run' = [run EXCEPT ![c] = [todo |-> todo, end |-> end]]

(* The room changes as the outcome of a call says.                         *)
Update(r, outcome) ==
  /\ rooms' = [rooms EXCEPT ![r] = outcome.room]
  /\ log' = [log EXCEPT ![r] = @ \o [i \in DOMAIN outcome.events |->
                                       outcome.events[i].author]]

(* stopImpl(), up to the call of leaveRoom: from onReadLine or onWrite     *)
(* with an error code.  It does nothing the second time.                   *)
StopAgain(c) ==
  /\ Starts(c, "readError") \/ Starts(c, "writeError")
  /\ Stopped(c)
  /\ UNCHANGED <<coreVars, sessionVars, run, ioVars, broken, lines>>

StopImpl(c) ==
  /\ Starts(c, "readError") \/ Starts(c, "writeError")
  /\ ~Stopped(c)
  /\ session' = [session EXCEPT ![c] = "stopping"]
  /\ \/ /\ currentRoom[c] = NoRoom
        /\ Continue(c, <<>>, "close")
        /\ UNCHANGED coreVars
     \/ LET r == currentRoom[c]
            o == LeaveCall(rooms[r], c)
        IN  /\ r # NoRoom
            /\ Update(r, o)
            /\ Continue(c, DispatchOutgoing(r, o.events), "close")
  /\ UNCHANGED <<registry, currentRoom, since, ioVars, broken, lines>>

(* onReadLine() with a line: handleMessage(), one action per request.      *)
StartsRequest(c, type) == Starts(c, "read") /\ Head(strand[c]).req.type = type

Req(c) == Head(strand[c]).req

Answer(c, msg) == Continue(c, <<To({c}, msg)>>, "read")

(* A line that is no valid message, or an event that toCoreEvent refuses.  *)
HandleInvalid(c) ==
  /\ StartsRequest(c, "invalid")
  /\ Answer(c, Reply("error"))
  /\ UNCHANGED <<coreVars, sessionVars, ioVars, broken, lines>>

HandlePing(c) ==
  /\ StartsRequest(c, "ping")
  /\ Answer(c, Reply("pong"))
  /\ UNCHANGED <<coreVars, sessionVars, ioVars, broken, lines>>

HandleCreateRoom(c) ==
  LET r == Cardinality(DOMAIN rooms) + 1
  IN  /\ StartsRequest(c, "create_room")
      /\ r <= MaxRooms
      /\ rooms' = [x \in DOMAIN rooms \cup {r} |-> IF x = r THEN NewRoom ELSE rooms[x]]
      /\ log' = [x \in DOMAIN log \cup {r} |-> IF x = r THEN <<>> ELSE log[x]]
      /\ Answer(c, Reply("room_created"))
      /\ UNCHANGED <<sessionVars, ioVars, broken, lines>>

(* A request for a room the session is not in, for a room that does not    *)
(* exist, or to join a second room.                                        *)
HandleRefused(c) ==
  /\ \/ /\ StartsRequest(c, "join_room")
        /\ ~(currentRoom[c] \in {NoRoom, Req(c).room} /\ Req(c).room \in DOMAIN rooms)
     \/ /\ StartsRequest(c, "leave_room") \/ StartsRequest(c, "event")
        /\ currentRoom[c] # Req(c).room
  /\ Answer(c, Reply("error"))
  /\ UNCHANGED <<coreVars, sessionVars, ioVars, broken, lines>>

(* Faulty variant: the session may join while it is in another room.       *)
JoinAnyRoom(c) ==
  LET r == Req(c).room
  IN  /\ StartsRequest(c, "join_room")
      /\ r \in DOMAIN rooms
      /\ Update(r, JoinCall(rooms[r], c))
      /\ currentRoom' = [currentRoom EXCEPT ![c] = r]
      /\ since' = [since EXCEPT ![c] = rooms[r].nextSeq]
      /\ Answer(c, SnapshotOf(r))
      /\ UNCHANGED <<session, registry, ioVars, broken, lines>>

HandleJoinRoom(c) ==
  LET r == Req(c).room
      o == JoinCall(rooms[r], c)
  IN  /\ StartsRequest(c, "join_room")
      /\ currentRoom[c] \in {NoRoom, r}
      /\ r \in DOMAIN rooms
      /\ Update(r, o)
      /\ currentRoom' = [currentRoom EXCEPT ![c] = r]
      /\ since' = IF currentRoom[c] = r THEN since
                  ELSE [since EXCEPT ![c] = rooms[r].nextSeq]
      /\ Answer(c, SnapshotOf(r))
      /\ UNCHANGED <<session, registry, ioVars, broken, lines>>

HandleLeaveRoom(c) ==
  LET r == Req(c).room
      o == LeaveCall(rooms[r], c)
  IN  /\ StartsRequest(c, "leave_room")
      /\ currentRoom[c] = r
      /\ Update(r, o)
      /\ IF o.err = "none"
         THEN /\ currentRoom' = [currentRoom EXCEPT ![c] = NoRoom]
              /\ Continue(c, DispatchOutgoing(r, o.events) \o <<To({c}, Reply("ok"))>>,
                          "read")
         ELSE Answer(c, Reply("error")) /\ UNCHANGED currentRoom
      /\ UNCHANGED <<session, registry, since, ioVars, broken, lines>>

HandleEvent(c) ==
  LET r == Req(c).room
  IN  /\ StartsRequest(c, "event")
      /\ currentRoom[c] = r
      /\ \E o \in ApplyCall(rooms[r], c, Req(c).kind) :
           /\ Update(r, o)
           /\ Continue(c, IF o.err = "none" THEN DispatchOutgoing(r, o.events)
                                            ELSE <<To({c}, Reply("error"))>>,
                       "read")
      /\ UNCHANGED <<sessionVars, ioVars, broken, lines>>

-----------------------------------------------------------------------------
(* The rest of a handler: SessionRegistry::deliver() or the session's own  *)
(* deliver() posts to the strand of the recipient.  The recipients of one  *)
(* event come in any order.                                                *)
Post(c) ==
  /\ run[c].todo # <<>>
  /\ LET m == Head(run[c].todo)
         rest == Tail(run[c].todo)
     IN  \/ /\ m.to = {}
            /\ Continue(c, rest, run[c].end)
            /\ UNCHANGED strand
         \/ \E d \in m.to :
              /\ Continue(c, IF m.to = {d} THEN rest
                             ELSE <<[m EXCEPT !.to = @ \ {d}]>> \o rest, run[c].end)
              /\ IF d = c \/ d \in registry
                 THEN Queue(d, [h |-> "post", msg |-> m.msg])
                 ELSE UNCHANGED strand
  /\ UNCHANGED <<coreVars, ioVars, sessionVars, broken, lines>>

(* onReadLine() ends with doReadLine(), unless the session has stopped.    *)
ReadNext(c) ==
  /\ run[c].todo = <<>> /\ run[c].end = "read"
  /\ run' = [run EXCEPT ![c] = Idle]
  /\ reads' = IF Stopped(c) THEN reads ELSE [reads EXCEPT ![c] = @ + 1]
  /\ UNCHANGED <<coreVars, sessionVars, strand, writes, writeQueue, sent, broken, lines>>

(* stopImpl() ends: the room is forgotten, the socket closed, the session  *)
(* taken out of the registry.                                              *)
Close(c) ==
  /\ run[c].todo = <<>> /\ run[c].end = "close"
  /\ run' = [run EXCEPT ![c] = Idle]
  /\ session' = [session EXCEPT ![c] = "closed"]
  /\ currentRoom' = [currentRoom EXCEPT ![c] = NoRoom]
  /\ registry' = registry \ {c}
  /\ UNCHANGED <<coreVars, ioVars, since, strand, broken, lines>>

-----------------------------------------------------------------------------
Handler(c) ==
  \/ OnPosted(c) \/ OnWrite(c)
  \/ StopAgain(c) \/ StopImpl(c) \/ Close(c)
  \/ HandleInvalid(c) \/ HandlePing(c) \/ HandleCreateRoom(c) \/ HandleRefused(c)
  \/ HandleJoinRoom(c) \/ HandleLeaveRoom(c) \/ HandleEvent(c)
  \/ Post(c) \/ ReadNext(c)

Network(c) == ReadFails(c) \/ WriteCompletes(c) \/ WriteFails(c)

Next ==
  \E c \in Clients :
    \/ OnAccept(c) \/ Disconnect(c)
    \/ \E req \in Request : ReadCompletes(c, req)
    \/ Network(c)
    \/ Handler(c)

Spec == Init /\ [][Next]_vars

(* The io_context runs every handler that is queued; an operation on a     *)
(* broken or closed socket fails in the end, and a client that is          *)
(* connected reads what it is sent.  No client has to send anything.       *)
Fairness == \A c \in Clients : WF_vars(Handler(c)) /\ WF_vars(Network(c))

FairSpec == Spec /\ Fairness

-----------------------------------------------------------------------------
(* Types.                                                                  *)
TypeOK ==
  /\ DOMAIN rooms \subseteq RoomIds /\ DOMAIN log = DOMAIN rooms
  /\ \A r \in DOMAIN rooms :
       /\ rooms[r].members \subseteq Clients
       /\ rooms[r].drawing \subseteq rooms[r].members
       /\ rooms[r].nextSeq = Len(log[r]) + 1
  /\ session \in [Clients -> {"none", "open", "stopping", "closed"}]
  /\ registry \subseteq Clients
  /\ currentRoom \in [Clients -> {NoRoom} \cup RoomIds]
  /\ reads \in [Clients -> {0, 1}]
  /\ writes \in [Clients -> {0, 1}]
  /\ since \in [Clients -> Nat]
  /\ broken \subseteq Clients
  /\ lines \in 0..MaxLines

Members(r) == rooms[r].members

(* The session and the core agree on where the client is: a client is in   *)
(* at most one room, the currentRoom_ of its session, except that stopImpl *)
(* forgets the room only after it has told the others.                     *)
RoomsAgree ==
  \A c \in Clients, r \in DOMAIN rooms :
    /\ c \in Members(r) => currentRoom[c] = r
    /\ currentRoom[c] = r /\ session[c] # "stopping" => c \in Members(r)

Count(s, Test(_)) == Cardinality({i \in DOMAIN s : Test(s[i])})

(* One write at a time: as long as the session runs, exactly one           *)
(* async_write (or its completion) is under way when writeQueue_ is not    *)
(* empty, and none when it is; so two messages never mix on the socket and *)
(* no message is left behind.                                              *)
OneWrite ==
  \A c \in Clients :
    LET completed == Count(strand[c], LAMBDA h : h.h \in {"written", "writeError"})
        underWay == writes[c] + completed
    IN  /\ underWay <= 1
        /\ underWay = 1 => writeQueue[c] # <<>>
        /\ session[c] = "open" /\ writeQueue[c] # <<>> => underWay = 1

(* The message a queued handler will write; most handlers write none.     *)
MessageOf(handler) == IF handler.h = "post" THEN handler.msg ELSE Reply("none")

(* All that was posted, for the client d, in the order it will get it.     *)
Posted(d) ==
  sent[d] \o writeQueue[d] \o [i \in DOMAIN strand[d] |-> MessageOf(strand[d][i])]

(* The order of one author is kept: of the events a client is sent from    *)
(* one room by one author, no later one comes first, and none comes twice. *)
AuthorOrder ==
  \A d \in Clients :
    LET p == Posted(d)
    IN  \A i, j \in DOMAIN p :
          /\ i < j
          /\ p[i].type = "event" /\ p[j].type = "event"
          /\ p[i].room = p[j].room /\ p[i].author = p[j].author
          => p[i].seq < p[j].seq

(* Where the event n of room r is, on its way to d.                        *)
OnTheWay(d, r, n) ==
  LET IsIt(m) == m.type = "event" /\ m.room = r /\ m.seq = n
      ToPost(c) == Count(run[c].todo, LAMBDA x : d \in x.to /\ IsIt(x.msg))
  IN  Count(Posted(d), IsIt)
      + Cardinality({c \in Clients : ToPost(c) = 1})
      + 2 * Cardinality({c \in Clients : ToPost(c) > 1})

(* Nothing is lost: a member whose session is open has been sent, or is    *)
(* being sent, exactly once every event of the others since it joined.     *)
(* Together with the snapshot it can always reconstruct the board.         *)
NoGap ==
  \A d \in Clients :
    session[d] = "open" /\ currentRoom[d] # NoRoom =>
      \A n \in since[d]..Len(log[currentRoom[d]]) :
        log[currentRoom[d]][n] # d => OnTheWay(d, currentRoom[d], n) = 1

(* Whatever waits to be written is written, or the session stops; and a    *)
(* session whose connection broke is closed and out of the registry.       *)
EventuallyWritten ==
  \A c \in Clients :
    /\ (writeQueue[c] # <<>>) ~> (writeQueue[c] = <<>> \/ session[c] = "closed")
    /\ (c \in broken) ~> (session[c] = "closed" /\ c \notin registry)

(* "The order of events is preserved": a client is sent the events of a    *)
(* room in the order of their sequence numbers.                            *)
SeqOrder ==
  \A d \in Clients :
    LET p == Posted(d)
    IN  \A i, j \in DOMAIN p :
          i < j /\ p[i].type = "event" /\ p[j].type = "event"
                /\ p[i].room = p[j].room
          => p[i].seq < p[j].seq

(* "When it enters a room a client gets the current state of the board":   *)
(* a snapshot holds every event of its room that the client was sent       *)
(* before it, so a client that shows the snapshot loses nothing.           *)
SnapshotCurrent ==
  \A d \in Clients :
    LET p == Posted(d)
    IN  \A i, j \in DOMAIN p :
          i < j /\ p[i].type = "event" /\ p[j].type = "snapshot"
                /\ p[i].room = p[j].room
          => p[i].seq <= p[j].lastSeq

(* "When a connection breaks the server removes the client from the room". *)
DisconnectedLeaves ==
  \A c \in Clients :
    (c \in broken) ~> (\A r \in DOMAIN rooms : c \notin Members(r))

=============================================================================
