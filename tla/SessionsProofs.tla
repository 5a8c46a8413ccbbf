--------------------------- MODULE SessionsProofs ---------------------------
(***************************************************************************)
(* TLAPS proofs about Sessions, for every set of clients and every number  *)
(* of rooms and lines: types, where the clients are, and one write at a    *)
(* time.                                                                   *)
(*                                                                         *)
(* None of the three is inductive.  A session reads and writes one thing   *)
(* at a time because the right to do so is a token that is in one of three *)
(* places: the socket (reads, writes), the strand (the handler of the      *)
(* completion) or the running handler (which ends with doReadLine); so the *)
(* invariant counts tokens.  And whether a client is in its room while     *)
(* stopImpl runs depends on what has happened of it, so the invariant ties *)
(* the state of a session to the handler that is running.                  *)
(***************************************************************************)
EXTENDS Sessions, SequenceTheorems, FiniteSetTheorems, FunctionTheorems, TLAPS

Message ==
  [type : {"error", "pong", "room_created", "ok"}]
  \cup [type : {"snapshot"}, room : RoomIds, lastSeq : Nat]
  \cup [type : {"event"}, room : RoomIds, seq : Nat,
        kind : EventKinds \cup {"MemberLeft"}, author : Clients]

QueuedHandler ==
  [h : {"read"}, req : Request]
  \cup [h : {"readError", "written", "writeError"}]
  \cup [h : {"post"}, msg : Message]

Posting == [to : SUBSET Clients, msg : Message]

RoomType ==
  [members : SUBSET Clients, drawing : SUBSET Clients, nextSeq : Nat \ {0}]

(* The positions of the handlers of the given kinds.                       *)
Marked(s, H) == {i \in DOMAIN s : s[i].h \in H}

ReadEnds == {"read", "readError"}
WriteEnds == {"written", "writeError"}

-----------------------------------------------------------------------------
(* The half of the invariant that is about the core and where clients are. *)

(* Rooms are numbered from one.                                            *)
CoreType ==
  /\ \E n \in 0 .. MaxRooms : DOMAIN rooms = 1 .. n
  /\ DOMAIN log = DOMAIN rooms
  /\ \A r \in DOMAIN rooms :
       /\ rooms[r] \in RoomType
       /\ rooms[r].drawing \subseteq rooms[r].members
       /\ log[r] \in Seq(Clients)
       /\ rooms[r].nextSeq = Len(log[r]) + 1

PlaceType ==
  /\ currentRoom \in [Clients -> {NoRoom} \cup RoomIds]
  /\ since \in [Clients -> Nat]

(* Whoever is said to be in a room is in one that exists; a session that   *)
(* is stopping has left, and one not yet accepted has not joined.          *)
RoomsExist ==
  \A c \in Clients :
    /\ currentRoom[c] # NoRoom => currentRoom[c] \in DOMAIN rooms
    /\ session[c] = "stopping" => \A r \in DOMAIN rooms : c \notin Members(r)
    /\ session[c] = "none" => currentRoom[c] = NoRoom

Places == CoreType /\ PlaceType /\ RoomsExist /\ RoomsAgree

-----------------------------------------------------------------------------
(* The half that is about sessions, strands and sockets.                   *)

SessionType ==
  /\ session \in [Clients -> {"none", "open", "stopping", "closed"}]
  /\ registry = {c \in Clients : session[c] \in {"open", "stopping"}}
  /\ reads \in [Clients -> {0, 1}]
  /\ writes \in [Clients -> {0, 1}]
  /\ broken \subseteq Clients
  /\ lines \in 0 .. MaxLines

QueueType ==
  /\ strand \in [Clients -> Seq(QueuedHandler)]
  /\ run \in [Clients -> [todo : Seq(Posting), end : {"none", "read", "close"}]]
  /\ writeQueue \in [Clients -> Seq(Message)]
  /\ sent \in [Clients -> Seq(Message)]

QueuedReads(c) == Cardinality(Marked(strand[c], ReadEnds))
QueuedWrites(c) == Cardinality(Marked(strand[c], WriteEnds))

(* A session that was not accepted yet has done nothing.                   *)
Unopened(c) ==
  session[c] = "none" =>
    /\ strand[c] = <<>> /\ run[c] = Idle
    /\ reads[c] = 0 /\ writes[c] = 0 /\ writeQueue[c] = <<>>

(* A handler that has ended left nothing to post, and stopImpl runs just   *)
(* as long as the session is stopping.                                     *)
HandlerEnds(c) ==
  /\ run[c].end = "none" => run[c].todo = <<>>
  /\ session[c] = "stopping" <=> run[c].end = "close"

(* One read at a time: it is outstanding, or its handler is queued, or the *)
(* handler is running.                                                     *)
ReadToken(c) ==
  reads[c] + QueuedReads(c) + (IF run[c].end = "read" THEN 1 ELSE 0) <= 1

(* OneWrite, for one client.                                               *)
WriteToken(c) ==
  /\ writes[c] + QueuedWrites(c) <= 1
  /\ writes[c] + QueuedWrites(c) = 1 => writeQueue[c] # <<>>
  /\ session[c] = "open" /\ writeQueue[c] # <<>> => writes[c] + QueuedWrites(c) = 1

Client(c) == Unopened(c) /\ HandlerEnds(c) /\ ReadToken(c) /\ WriteToken(c)

Tokens == SessionType /\ QueueType /\ \A c \in Clients : Client(c)

SessionsInv == Places /\ Tokens

-----------------------------------------------------------------------------
(* Counting the handlers of some kinds on a strand.                        *)

(* They are finitely many.                                                 *)
LEMMA MarkedFinite ==
  ASSUME NEW S, NEW s \in Seq(S), NEW H
  PROVE  IsFiniteSet(Marked(s, H)) /\ Cardinality(Marked(s, H)) \in Nat
<1>1. Marked(s, H) \subseteq 1 .. Len(s)
  BY DEF Marked
<1>2. IsFiniteSet(1 .. Len(s))
  BY FS_Interval
<1>3. IsFiniteSet(Marked(s, H))
  BY <1>1, <1>2, FS_Subset
<1> QED
  BY <1>3, FS_CardinalityType

(* One that is queued is counted, if it is of these kinds.                 *)
LEMMA MarkedAppend ==
  ASSUME NEW S, NEW s \in Seq(S), NEW H, NEW x \in S
  PROVE  Cardinality(Marked(Append(s, x), H)) =
           Cardinality(Marked(s, H)) + (IF x.h \in H THEN 1 ELSE 0)
<1> DEFINE n == Len(s) + 1
<1>1. /\ DOMAIN Append(s, x) = DOMAIN s \cup {n}
      /\ n \notin DOMAIN s
      /\ Append(s, x)[n] = x
      /\ \A i \in DOMAIN s : Append(s, x)[i] = s[i]
  BY AppendProperties, LenProperties
<1>2. IsFiniteSet(Marked(s, H)) /\ Cardinality(Marked(s, H)) \in Nat
  BY MarkedFinite
<1>3. CASE x.h \in H
  <2>1. Marked(Append(s, x), H) = Marked(s, H) \cup {n} /\ n \notin Marked(s, H)
    BY <1>1, <1>3 DEF Marked
  <2>2. Cardinality(Marked(s, H) \cup {n}) = Cardinality(Marked(s, H)) + 1
    BY <1>2, <2>1, FS_AddElement, Zenon
  <2> QED
    BY <1>3, <2>1, <2>2
<1>4. CASE x.h \notin H
  <2>1. Marked(Append(s, x), H) = Marked(s, H)
    BY <1>1, <1>4 DEF Marked
  <2> QED
    BY <1>2, <1>4, <2>1
<1> QED
  BY <1>3, <1>4

(* One that starts is counted off.                                         *)
LEMMA MarkedTail ==
  ASSUME NEW S, NEW s \in Seq(S), NEW H, s # <<>>
  PROVE  Cardinality(Marked(s, H)) =
           Cardinality(Marked(Tail(s), H)) + (IF Head(s).h \in H THEN 1 ELSE 0)
<1> DEFINE f == [i \in Marked(Tail(s), H) |-> i + 1]
           M == Marked(s, H) \ {1}
<1>1. /\ Tail(s) \in Seq(S) /\ Len(Tail(s)) = Len(s) - 1 /\ Len(s) \in Nat \ {0}
      /\ \A i \in 1 .. Len(s) - 1 : Tail(s)[i] = s[i + 1]
      /\ Head(s) = s[1]
  BY HeadTailProperties, LenProperties, EmptySeq
<1>2. Marked(Tail(s), H) \subseteq 1 .. Len(s) - 1
  BY <1>1 DEF Marked
<1>3. \A i \in 1 .. Len(s) - 1 : i \in Marked(Tail(s), H) <=> i + 1 \in M
  BY <1>1 DEF Marked
<1>4. \A j \in M : j - 1 \in 1 .. Len(s) - 1 /\ j - 1 + 1 = j
  BY <1>1 DEF Marked
<1>5. f \in Bijection(Marked(Tail(s), H), M)
  <2>1. f \in [Marked(Tail(s), H) -> M]
    BY <1>2, <1>3
  <2>2. \A i, j \in Marked(Tail(s), H) : f[i] = f[j] => i = j
    BY <1>2
  <2>3. \A j \in M : \E i \in Marked(Tail(s), H) : f[i] = j
    BY <1>3, <1>4
  <2> QED
    BY <2>1, <2>2, <2>3, Fun_IsBij
<1>6. IsFiniteSet(Marked(s, H)) /\ IsFiniteSet(M) /\ IsFiniteSet(Marked(Tail(s), H))
  BY <1>1, MarkedFinite, FS_RemoveElement
<1>7. Cardinality(Marked(Tail(s), H)) = Cardinality(M)
  BY <1>5, <1>6, FS_Bijection DEF ExistsBijection
<1>8. Cardinality(M) = IF 1 \in Marked(s, H) THEN Cardinality(Marked(s, H)) - 1
                       ELSE Cardinality(Marked(s, H))
  BY <1>6, FS_RemoveElement
<1>9. 1 \in Marked(s, H) <=> Head(s).h \in H
  BY <1>1 DEF Marked
<1> QED
  BY <1>7, <1>8, <1>9, MarkedFinite

-----------------------------------------------------------------------------
(* What every call on a room has in common: the events are numbered from   *)
(* nextSeq_ on and go to the other members.                                *)
AllKinds == EventKinds \cup {"MemberLeft"}

RoomEvent == [seq : Nat, kind : AllKinds, author : Clients, to : SUBSET Clients]

IsOutcome(rm, c, o) ==
  /\ o.room \in RoomType /\ o.room.drawing \subseteq o.room.members
  /\ o.events \in Seq(RoomEvent)
  /\ o.room.nextSeq = rm.nextSeq + Len(o.events)
  /\ \A i \in DOMAIN o.events : /\ o.events[i].seq = rm.nextSeq + i - 1
                                /\ o.events[i].author = c
                                /\ o.events[i].to = rm.members \ {c}

(* It holds of a call that is accepted, ...                                *)
LEMMA AcceptedOutcome ==
  ASSUME NEW rm \in RoomType, NEW c \in Clients, NEW kinds \in Seq(AllKinds),
         NEW M \in SUBSET Clients, NEW D \in SUBSET M
  PROVE  IsOutcome(rm, c, Accepted(rm, c, kinds, M, D))
<1> DEFINE es == Events(rm, c, kinds)
           o == Accepted(rm, c, kinds, M, D)
<1>1. rm.nextSeq \in Nat \ {0} /\ rm.members \subseteq Clients
  BY DEF RoomType
<1>2. DOMAIN kinds = 1 .. Len(kinds) /\ Len(kinds) \in Nat
  BY LenProperties
<1>3. /\ DOMAIN es = 1 .. Len(kinds)
      /\ \A i \in 1 .. Len(kinds) :
           es[i] = [seq |-> rm.nextSeq + i - 1, kind |-> kinds[i], author |-> c,
                    to |-> rm.members \ {c}]
  BY <1>2 DEF Events
<1>4. \A i \in 1 .. Len(kinds) : es[i] \in RoomEvent
  BY <1>1, <1>2, <1>3 DEF RoomEvent
<1>5. es \in [1 .. Len(kinds) -> RoomEvent]
  BY <1>2, <1>4 DEF Events
<1>6. es \in Seq(RoomEvent) /\ Len(es) = Len(kinds)
  BY <1>2, <1>5
<1>7. o.events = es /\ o.room = [members |-> M, drawing |-> D,
                                 nextSeq |-> rm.nextSeq + Len(kinds)]
  BY DEF Accepted
<1>8. o.room \in RoomType /\ o.room.drawing \subseteq o.room.members
      /\ o.room.nextSeq = rm.nextSeq + Len(kinds)
  BY <1>1, <1>2, <1>7 DEF RoomType
<1> HIDE DEF es, o
<1> QED
  BY <1>2, <1>3, <1>6, <1>7, <1>8 DEF IsOutcome, o

(* ... and of one that is refused.                                         *)
LEMMA RefusedOutcome ==
  ASSUME NEW rm \in RoomType, rm.drawing \subseteq rm.members, NEW c, NEW code
  PROVE  IsOutcome(rm, c, Refused(rm, code))
BY DEF IsOutcome, Refused, RoomType

(* The three calls.                                                        *)
LEMMA JoinOutcome ==
  ASSUME NEW rm \in RoomType, rm.drawing \subseteq rm.members, NEW c \in Clients
  PROVE  /\ IsOutcome(rm, c, JoinCall(rm, c))
         /\ JoinCall(rm, c).room.members = rm.members \cup {c}
<1>1. rm.members \in SUBSET Clients /\ rm.drawing \in SUBSET (rm.members \cup {c})
      /\ <<>> \in Seq(AllKinds)
  BY DEF RoomType
<1>2. IsOutcome(rm, c, JoinCall(rm, c))
  BY <1>1, AcceptedOutcome DEF JoinCall
<1> QED
  BY <1>2 DEF JoinCall, Accepted

(* leave(), which a member cannot be refused.                              *)
LEMMA LeaveOutcome ==
  ASSUME NEW rm \in RoomType, rm.drawing \subseteq rm.members, NEW c \in Clients
  PROVE  /\ IsOutcome(rm, c, LeaveCall(rm, c))
         /\ LeaveCall(rm, c).room.members = rm.members \ {c}
         /\ c \in rm.members => LeaveCall(rm, c).err = "none"
<1>1. CASE c \notin rm.members
  <2>1. LeaveCall(rm, c) = Refused(rm, "NotInRoom")
    BY <1>1 DEF LeaveCall
  <2> QED
    BY <1>1, <2>1, RefusedOutcome DEF Refused
<1>2. CASE c \in rm.members
  <2>1. PICK ks : ks = IF c \in rm.drawing THEN <<"StrokeEnd", "MemberLeft">>
                                           ELSE <<"MemberLeft">>
    OBVIOUS
  <2>2. ks \in Seq(AllKinds)
    <3>1. "StrokeEnd" \in AllKinds /\ "MemberLeft" \in AllKinds
      BY DEF AllKinds, EventKinds
    <3>2. /\ <<"StrokeEnd", "MemberLeft">> \in Seq(AllKinds)
          /\ <<"MemberLeft">> \in Seq(AllKinds)
      BY <3>1
    <3> QED
      BY <2>1, <3>2, Zenon
  <2>3. LeaveCall(rm, c) =
          Accepted(rm, c, ks, rm.members \ {c}, rm.drawing \ {c})
    BY <1>2, <2>1 DEF LeaveCall
  <2>4. /\ rm.members \ {c} \in SUBSET Clients
        /\ rm.drawing \ {c} \in SUBSET (rm.members \ {c})
    BY DEF RoomType
  <2>5. IsOutcome(rm, c, LeaveCall(rm, c))
    BY <2>2, <2>3, <2>4, AcceptedOutcome
  <2> QED
    BY <2>3, <2>5 DEF Accepted
<1> QED
  BY <1>1, <1>2

(* apply(), which changes no membership.                                   *)
LEMMA ApplyOutcome ==
  ASSUME NEW rm \in RoomType, rm.drawing \subseteq rm.members, NEW c \in Clients,
         NEW kind \in EventKinds, NEW o \in ApplyCall(rm, c, kind)
  PROVE  IsOutcome(rm, c, o) /\ o.room.members = rm.members
<1>1. CASE \E code : o = Refused(rm, code)
  BY <1>1, RefusedOutcome DEF Refused
<1>2. ASSUME c \in rm.members, NEW ks \in Seq(AllKinds), NEW D \in SUBSET rm.members,
             o = Accepted(rm, c, ks, rm.members, D)
      PROVE  IsOutcome(rm, c, o) /\ o.room.members = rm.members
  <2>1. rm.members \in SUBSET Clients
    BY DEF RoomType
  <2>2. IsOutcome(rm, c, o)
    BY <1>2, <2>1, AcceptedOutcome
  <2> QED
    BY <1>2, <2>2 DEF Accepted
<1>3. <<kind>> \in Seq(AllKinds) /\ <<>> \in Seq(AllKinds)
  BY DEF AllKinds
<1>4. c \in rm.members => DrawingAfter(rm, c, kind) \in SUBSET rm.members
  BY DEF DrawingAfter
<1>5. \/ \E code : o = Refused(rm, code)
      \/ /\ c \in rm.members
         /\ \/ o = Accepted(rm, c, <<kind>>, rm.members, DrawingAfter(rm, c, kind))
            \/ o = Accepted(rm, c, <<>>, rm.members, rm.drawing)
  BY DEF ApplyCall
<1> QED
  BY <1>1, <1>2, <1>3, <1>4, <1>5

-----------------------------------------------------------------------------
(* The numbers that the tokens add up.                                     *)
LEMMA TokenNumbers ==
  ASSUME SessionType, QueueType, NEW c \in Clients
  PROVE  /\ reads[c] \in {0, 1} /\ writes[c] \in {0, 1}
         /\ QueuedReads(c) \in Nat /\ QueuedWrites(c) \in Nat
         /\ run[c].end \in {"none", "read", "close"}
<1>1. strand[c] \in Seq(QueuedHandler)
  BY DEF QueueType
<1>2. QueuedReads(c) \in Nat /\ QueuedWrites(c) \in Nat
  BY <1>1, MarkedFinite DEF QueuedReads, QueuedWrites
<1> QED
  BY <1>2 DEF SessionType, QueueType

(* A handler is queued on one strand.                                      *)
LEMMA QueuedStrand ==
  ASSUME QueueType, NEW c \in Clients, NEW x \in QueuedHandler, Queue(c, x)
  PROVE  /\ strand' \in [Clients -> Seq(QueuedHandler)]
         /\ strand'[c] = Append(strand[c], x)
         /\ \A d \in Clients : d # c => strand'[d] = strand[d]
         /\ QueuedReads(c)' = QueuedReads(c) + (IF x.h \in ReadEnds THEN 1 ELSE 0)
         /\ QueuedWrites(c)' = QueuedWrites(c) + (IF x.h \in WriteEnds THEN 1 ELSE 0)
         /\ \A d \in Clients : d # c => /\ QueuedReads(d)' = QueuedReads(d)
                                        /\ QueuedWrites(d)' = QueuedWrites(d)
<1>1. strand[c] \in Seq(QueuedHandler) /\ strand \in [Clients -> Seq(QueuedHandler)]
  BY DEF QueueType
<1>2. Append(strand[c], x) \in Seq(QueuedHandler)
  BY <1>1, AppendProperties
<1>3. /\ strand'[c] = Append(strand[c], x)
      /\ \A d \in Clients : d # c => strand'[d] = strand[d]
      /\ strand' \in [Clients -> Seq(QueuedHandler)]
  BY <1>1, <1>2 DEF Queue
<1>4. /\ Cardinality(Marked(Append(strand[c], x), ReadEnds)) =
           Cardinality(Marked(strand[c], ReadEnds)) + (IF x.h \in ReadEnds THEN 1 ELSE 0)
      /\ Cardinality(Marked(Append(strand[c], x), WriteEnds)) =
           Cardinality(Marked(strand[c], WriteEnds)) + (IF x.h \in WriteEnds THEN 1 ELSE 0)
  BY <1>1, MarkedAppend
<1> QED
  BY <1>3, <1>4 DEF QueuedReads, QueuedWrites

(* The first handler of a strand starts.                                   *)
LEMMA StartedStrand ==
  ASSUME SessionType, QueueType, NEW c \in Clients, NEW h, Starts(c, h)
  PROVE  /\ run[c] = Idle
         /\ strand[c] # <<>> /\ Head(strand[c]) \in QueuedHandler /\ Head(strand[c]).h = h
         /\ strand' \in [Clients -> Seq(QueuedHandler)]
         /\ strand'[c] = Tail(strand[c])
         /\ \A d \in Clients : d # c => strand'[d] = strand[d]
         /\ QueuedReads(c) = QueuedReads(c)' + (IF h \in ReadEnds THEN 1 ELSE 0)
         /\ QueuedWrites(c) = QueuedWrites(c)' + (IF h \in WriteEnds THEN 1 ELSE 0)
         /\ QueuedReads(c)' \in Nat /\ QueuedWrites(c)' \in Nat
         /\ \A d \in Clients : d # c => /\ QueuedReads(d)' = QueuedReads(d)
                                        /\ QueuedWrites(d)' = QueuedWrites(d)
<1>1. strand[c] \in Seq(QueuedHandler) /\ strand \in [Clients -> Seq(QueuedHandler)]
  BY DEF QueueType
<1>2. strand[c] # <<>> /\ Head(strand[c]).h = h /\ run[c] = Idle
  BY DEF Starts
<1>3. Tail(strand[c]) \in Seq(QueuedHandler) /\ Head(strand[c]) \in QueuedHandler
  BY <1>1, <1>2, HeadTailProperties
<1>4. /\ strand'[c] = Tail(strand[c])
      /\ \A d \in Clients : d # c => strand'[d] = strand[d]
      /\ strand' \in [Clients -> Seq(QueuedHandler)]
  BY <1>1, <1>3 DEF Starts
<1>5. /\ Cardinality(Marked(strand[c], ReadEnds)) =
           Cardinality(Marked(Tail(strand[c]), ReadEnds)) + (IF h \in ReadEnds THEN 1 ELSE 0)
      /\ Cardinality(Marked(strand[c], WriteEnds)) =
           Cardinality(Marked(Tail(strand[c]), WriteEnds)) + (IF h \in WriteEnds THEN 1 ELSE 0)
  BY <1>1, <1>2, MarkedTail
<1>6. /\ Cardinality(Marked(Tail(strand[c]), ReadEnds)) \in Nat
      /\ Cardinality(Marked(Tail(strand[c]), WriteEnds)) \in Nat
  BY <1>3, MarkedFinite
<1> QED
  BY <1>2, <1>3, <1>4, <1>5, <1>6 DEF QueuedReads, QueuedWrites

(* A client whose session is not touched keeps its part of the invariant.  *)
LEMMA ClientFrame ==
  ASSUME NEW d, Client(d), session'[d] = session[d], strand'[d] = strand[d],
         run'[d] = run[d], reads'[d] = reads[d], writes'[d] = writes[d],
         writeQueue'[d] = writeQueue[d]
  PROVE  Client(d)'
BY DEF Client, Unopened, HandlerEnds, ReadToken, WriteToken, QueuedReads, QueuedWrites

-----------------------------------------------------------------------------
(* Tokens: the steps of the network.                                       *)
LEMMA NetworkTokens ==
  ASSUME Tokens, NEW c \in Clients,
         \/ \E req \in Request : ReadCompletes(c, req)
         \/ Network(c)
  PROVE  Tokens'
<1>1. ASSUME NEW x \in QueuedHandler, x.h \in ReadEnds, Queue(c, x), reads[c] > 0,
             reads' = [reads EXCEPT ![c] = @ - 1], lines' \in 0 .. MaxLines,
             UNCHANGED <<sessionVars, run, writes, writeQueue, sent, broken>>
      PROVE  Tokens'
  <2>1. /\ reads[c] = 1 /\ reads'[c] = 0 /\ x.h \notin WriteEnds
        /\ reads' \in [Clients -> {0, 1}]
        /\ \A d \in Clients : d # c => reads'[d] = reads[d]
    BY <1>1 DEF Tokens, SessionType, ReadEnds, WriteEnds
  <2>2. SessionType' /\ QueueType'
    BY <1>1, <2>1, QueuedStrand DEF Tokens, SessionType, QueueType, sessionVars
  <2>3. \A d \in Clients : d # c => Client(d)'
    BY <1>1, <2>1, QueuedStrand, ClientFrame DEF Tokens, sessionVars
  <2>4. /\ QueuedReads(c)' = QueuedReads(c) + 1
        /\ QueuedWrites(c)' = QueuedWrites(c)
        /\ QueuedReads(c) \in Nat /\ QueuedWrites(c) \in Nat
        /\ QueuedWrites(c)' \in Nat
    BY <1>1, <2>1, QueuedStrand, TokenNumbers DEF Tokens
  <2>5. Client(c)'
    BY <1>1, <2>1, <2>4
    DEF Tokens, Client, Unopened, HandlerEnds, ReadToken, WriteToken, sessionVars
  <2> QED
    BY <2>2, <2>3, <2>5 DEF Tokens
<1>2. ASSUME NEW x \in QueuedHandler, x.h \in WriteEnds, Queue(c, x), writes[c] > 0,
             writes' = [writes EXCEPT ![c] = @ - 1],
             UNCHANGED <<sessionVars, run, reads, writeQueue, sent, broken, lines>>
      PROVE  Tokens'
  <2>1. /\ writes[c] = 1 /\ writes'[c] = 0 /\ x.h \notin ReadEnds
        /\ writes' \in [Clients -> {0, 1}]
        /\ \A d \in Clients : d # c => writes'[d] = writes[d]
    BY <1>2 DEF Tokens, SessionType, ReadEnds, WriteEnds
  <2>2. SessionType' /\ QueueType'
    BY <1>2, <2>1, QueuedStrand DEF Tokens, SessionType, QueueType, sessionVars
  <2>3. \A d \in Clients : d # c => Client(d)'
    BY <1>2, <2>1, QueuedStrand, ClientFrame DEF Tokens, sessionVars
  <2>4. /\ QueuedWrites(c)' = QueuedWrites(c) + 1
        /\ QueuedReads(c)' = QueuedReads(c)
        /\ QueuedReads(c) \in Nat /\ QueuedWrites(c) \in Nat
    BY <1>2, <2>1, QueuedStrand, TokenNumbers DEF Tokens
  <2>5. Client(c)'
    BY <1>2, <2>1, <2>4
    DEF Tokens, Client, Unopened, HandlerEnds, ReadToken, WriteToken, sessionVars
  <2> QED
    BY <2>2, <2>3, <2>5 DEF Tokens
<1>3. ASSUME NEW req \in Request, ReadCompletes(c, req) PROVE Tokens'
  <2>1. [h |-> "read", req |-> req] \in QueuedHandler
    BY DEF QueuedHandler
  <2>2. lines' \in 0 .. MaxLines
    BY <1>3, SessionsAssumption DEF ReadCompletes, Tokens, SessionType
  <2> QED
    BY <1>1, <1>3, <2>1, <2>2 DEF ReadCompletes, ReadEnds
<1>4. CASE ReadFails(c)
  <2>1. [h |-> "readError"] \in QueuedHandler
    BY DEF QueuedHandler
  <2> QED
    BY <1>1, <1>4, <2>1 DEF ReadFails, ReadEnds, Tokens, SessionType
<1>5. CASE WriteCompletes(c)
  <2>1. [h |-> "written"] \in QueuedHandler
    BY DEF QueuedHandler
  <2> QED
    BY <1>2, <1>5, <2>1 DEF WriteCompletes, WriteEnds
<1>6. CASE WriteFails(c)
  <2>1. [h |-> "writeError"] \in QueuedHandler
    BY DEF QueuedHandler
  <2> QED
    BY <1>2, <1>6, <2>1 DEF WriteFails, WriteEnds
<1> QED
  BY <1>3, <1>4, <1>5, <1>6 DEF Network

(* Tokens: a connection is accepted, or breaks.                            *)
LEMMA ConnectTokens ==
  ASSUME Tokens, NEW c \in Clients, OnAccept(c) \/ Disconnect(c)
  PROVE  Tokens'
<1>1. CASE OnAccept(c)
  <2>1. /\ Unopened(c) /\ session[c] = "none" /\ session'[c] = "open" /\ reads'[c] = 1
        /\ \A d \in Clients : d # c => session'[d] = session[d] /\ reads'[d] = reads[d]
        /\ session' \in [Clients -> {"none", "open", "stopping", "closed"}]
        /\ reads' \in [Clients -> {0, 1}]
    BY <1>1 DEF OnAccept, Tokens, SessionType, Client
  <2>2. SessionType'
    BY <1>1, <2>1 DEF OnAccept, Tokens, SessionType
  <2>3. QueueType'
    BY <1>1 DEF OnAccept, Tokens, QueueType
  <2>4. \A d \in Clients : d # c => Client(d)'
    BY <1>1, <2>1, ClientFrame DEF OnAccept, Tokens
  <2>5. /\ strand'[c] = <<>> /\ run'[c] = Idle /\ writes'[c] = 0 /\ writeQueue'[c] = <<>>
    BY <1>1, <2>1 DEF OnAccept, Unopened
  <2>6. QueuedReads(c)' = 0 /\ QueuedWrites(c)' = 0
    <3>1. Marked(<<>>, ReadEnds) = {} /\ Marked(<<>>, WriteEnds) = {}
      BY DEF Marked
    <3> QED
      BY <2>5, <3>1, FS_EmptySet DEF QueuedReads, QueuedWrites
  <2>7. Client(c)'
    BY <2>1, <2>5, <2>6 DEF Client, Unopened, HandlerEnds, ReadToken, WriteToken, Idle
  <2> QED
    BY <2>2, <2>3, <2>4, <2>7 DEF Tokens
<1>2. CASE Disconnect(c)
  <2>1. SessionType' /\ QueueType'
    BY <1>2 DEF Disconnect, Tokens, SessionType, QueueType, sessionVars, ioVars
  <2>2. \A d \in Clients : Client(d)'
    BY <1>2, ClientFrame DEF Disconnect, Tokens, sessionVars, ioVars
  <2> QED
    BY <2>1, <2>2 DEF Tokens
<1> QED
  BY <1>1, <1>2

(* A handler that has started finds its session accepted and running       *)
(* nothing else.                                                           *)
LEMMA StartedSession ==
  ASSUME Tokens, NEW c \in Clients, NEW h, Starts(c, h)
  PROVE  session[c] \in {"open", "closed"} /\ run[c].end = "none"
<1>1. strand[c] # <<>> /\ run[c] = Idle
  BY DEF Starts
<1> QED
  BY <1>1 DEF Tokens, SessionType, Client, Unopened, HandlerEnds, Idle

(* Tokens: a message reaches the write queue, or has been written.         *)
LEMMA WriterTokens ==
  ASSUME Tokens, NEW c \in Clients, OnPosted(c) \/ OnWrite(c)
  PROVE  Tokens'
<1>0. /\ SessionType /\ QueueType /\ Client(c)
      /\ writeQueue[c] \in Seq(Message)
      /\ writes \in [Clients -> {0, 1}]
      /\ writeQueue \in [Clients -> Seq(Message)]
      /\ sent \in [Clients -> Seq(Message)]
  BY DEF Tokens, QueueType, SessionType
<1>1. ASSUME NEW h, Starts(c, h), h \notin ReadEnds,
             writes' \in [Clients -> {0, 1}],
             writeQueue' \in [Clients -> Seq(Message)],
             sent' \in [Clients -> Seq(Message)],
             \A d \in Clients : d # c => /\ writes'[d] = writes[d]
                                         /\ writeQueue'[d] = writeQueue[d],
             WriteToken(c)',
             UNCHANGED <<sessionVars, run, reads, broken, lines>>
      PROVE  Tokens'
  <2>1. SessionType' /\ QueueType'
    BY <1>0, <1>1, StartedStrand DEF SessionType, QueueType, sessionVars
  <2>2. \A d \in Clients : d # c => Client(d)'
    BY <1>0, <1>1, StartedStrand, ClientFrame DEF Tokens, sessionVars
  <2>3. QueuedReads(c)' = QueuedReads(c)
    BY <1>0, <1>1, StartedStrand
  <2>4. Client(c)'
    BY <1>0, <1>1, <2>3, StartedSession
    DEF Client, Unopened, HandlerEnds, ReadToken, sessionVars
  <2> QED
    BY <2>1, <2>2, <2>4 DEF Tokens
<1>2. CASE OnPosted(c)
  <2>1. Head(strand[c]) \in QueuedHandler /\ Head(strand[c]).h = "post"
    BY <1>0, <1>2, StartedStrand DEF OnPosted
  <2>2. Head(strand[c]).msg \in Message
    BY <2>1 DEF QueuedHandler
  <2>3. PICK wq \in Seq(Message) : wq = Append(writeQueue[c], Head(strand[c]).msg)
    <3>1. Append(writeQueue[c], Head(strand[c]).msg) \in Seq(Message)
      BY <1>0, <2>2, AppendProperties
    <3> QED
      BY <3>1, Zenon
  <2>4. wq # <<>>
    BY <1>0, <2>2, <2>3, AppendProperties
  <2>5. writeQueue' = [writeQueue EXCEPT ![c] = wq]
    BY <1>2, <2>3 DEF OnPosted
  <2>6. /\ writeQueue'[c] = wq
        /\ \A d \in Clients : d # c => writeQueue'[d] = writeQueue[d]
        /\ writeQueue' \in [Clients -> Seq(Message)]
    BY <1>0, <2>5
  <2>7. /\ QueuedWrites(c)' = QueuedWrites(c) /\ QueuedWrites(c) \in Nat
        /\ writes[c] \in {0, 1} /\ session[c] \in {"open", "closed"}
    <3>1. Starts(c, "post")
      BY <1>2 DEF OnPosted
    <3>2. session[c] \in {"open", "closed"}
      BY <3>1, StartedSession
    <3>3. QueuedWrites(c) = QueuedWrites(c)' + 0 /\ QueuedWrites(c)' \in Nat
      BY <1>0, <3>1, StartedStrand DEF WriteEnds
    <3> QED
      BY <1>0, <3>2, <3>3, TokenNumbers
  <2>8. CASE writeQueue[c] = <<>> /\ ~Stopped(c)
    <3>1. writes[c] = 0 /\ QueuedWrites(c) = 0
      BY <1>0, <2>7, <2>8 DEF Client, WriteToken
    <3>2. writes' = [writes EXCEPT ![c] = 1]
      BY <1>0, <1>2, <2>4, <2>6, <2>8, <3>1 DEF OnPosted, DoWrite
    <3>3. /\ writes'[c] = 1 /\ writes' \in [Clients -> {0, 1}]
          /\ \A d \in Clients : d # c => writes'[d] = writes[d]
      BY <1>0, <3>2
    <3>4. WriteToken(c)'
      BY <2>4, <2>6, <2>7, <3>1, <3>3 DEF WriteToken
    <3> QED
      BY <1>0, <1>1, <1>2, <2>6, <3>3, <3>4 DEF OnPosted, ReadEnds
  <2>9. CASE ~(writeQueue[c] = <<>> /\ ~Stopped(c))
    <3>1. writes' = writes
      BY <1>2, <2>4, <2>6, <2>9 DEF OnPosted, DoWrite
    <3>2. session[c] = "open" => writeQueue[c] # <<>>
      BY <2>9 DEF Stopped
    <3>3. session'[c] = session[c]
      BY <1>2 DEF OnPosted, sessionVars
    <3>4. WriteToken(c)'
      BY <1>0, <2>4, <2>6, <2>7, <3>1, <3>2, <3>3 DEF Client, WriteToken
    <3> QED
      BY <1>0, <1>1, <1>2, <2>6, <3>1, <3>4 DEF OnPosted, ReadEnds
  <2> QED
    BY <2>8, <2>9
<1>3. CASE OnWrite(c)
  <2>1. /\ QueuedWrites(c) = QueuedWrites(c)' + 1
        /\ QueuedWrites(c) \in Nat /\ QueuedWrites(c)' \in Nat
        /\ writes[c] \in {0, 1}
    BY <1>0, <1>3, StartedStrand, TokenNumbers DEF OnWrite, WriteEnds
  <2>2. writes[c] = 0 /\ QueuedWrites(c)' = 0 /\ writeQueue[c] # <<>>
    BY <1>0, <2>1 DEF Client, WriteToken
  <2>3. PICK wq \in Seq(Message) : wq = Tail(writeQueue[c])
    BY <1>0, <2>2, HeadTailProperties, Zenon
  <2>4. /\ writeQueue'[c] = wq
        /\ \A d \in Clients : d # c => writeQueue'[d] = writeQueue[d]
        /\ writeQueue' \in [Clients -> Seq(Message)]
    BY <1>0, <1>3, <2>3 DEF OnWrite
  <2>5. sent' \in [Clients -> Seq(Message)]
    <3>1. Append(sent[c], Head(writeQueue[c])) \in Seq(Message)
      BY <1>0, <2>2, HeadTailProperties, AppendProperties
    <3> QED
      BY <1>0, <1>3, <3>1 DEF OnWrite
  <2>6. session'[c] = session[c] /\ session[c] \in {"open", "closed"}
    BY <1>3, StartedSession DEF OnWrite, sessionVars
  <2>7. CASE wq = <<>> \/ Stopped(c)
    <3>1. writes' = writes
      BY <1>3, <2>4, <2>7 DEF OnWrite, DoWrite
    <3>2. session[c] = "open" => wq = <<>>
      BY <2>7 DEF Stopped
    <3>3. WriteToken(c)'
      BY <2>2, <2>4, <2>6, <3>1, <3>2 DEF WriteToken
    <3> QED
      BY <1>0, <1>1, <1>3, <2>4, <2>5, <3>1, <3>3 DEF OnWrite, ReadEnds
  <2>8. CASE ~(wq = <<>> \/ Stopped(c))
    <3>1. writes' = [writes EXCEPT ![c] = 1]
      <4>1. writes' = [writes EXCEPT ![c] = @ + 1]
        BY <1>3, <2>4, <2>8 DEF OnWrite, DoWrite
      <4> QED
        BY <1>0, <2>2, <4>1
    <3>2. /\ writes'[c] = 1 /\ writes' \in [Clients -> {0, 1}]
          /\ \A d \in Clients : d # c => writes'[d] = writes[d]
      BY <1>0, <3>1
    <3>3. WriteToken(c)'
      BY <2>2, <2>4, <2>6, <2>8, <3>2 DEF WriteToken
    <3> QED
      BY <1>0, <1>1, <1>3, <2>4, <2>5, <3>2, <3>3 DEF OnWrite, ReadEnds
  <2> QED
    BY <2>7, <2>8
<1> QED
  BY <1>2, <1>3

(* A handler continues with what it has to post.                           *)
LEMMA ContinuedRun ==
  ASSUME QueueType, NEW c \in Clients, NEW todo \in Seq(Posting),
         NEW end \in {"none", "read", "close"}, Continue(c, todo, end)
  PROVE  /\ run' \in [Clients -> [todo : Seq(Posting), end : {"none", "read", "close"}]]
         /\ run'[c].todo = todo /\ run'[c].end = end
         /\ \A d \in Clients : d # c => run'[d] = run[d]
<1>1. [todo |-> todo, end |-> end]
        \in [todo : Seq(Posting), end : {"none", "read", "close"}]
  OBVIOUS
<1>2. run' = [run EXCEPT ![c] = [todo |-> todo, end |-> end]]
  BY DEF Continue
<1> QED
  BY <1>1, <1>2 DEF QueueType

(* What dispatchOutgoing() posts.                                          *)
LEMMA DispatchType ==
  ASSUME NEW r \in RoomIds, NEW es \in Seq(RoomEvent)
  PROVE  /\ DispatchOutgoing(r, es) \in Seq(Posting)
         /\ Len(DispatchOutgoing(r, es)) = Len(es)
         /\ \A i \in 1 .. Len(es) :
              DispatchOutgoing(r, es)[i] = To(es[i].to, EventMessage(r, es[i]))
<1> DEFINE todo == DispatchOutgoing(r, es)
<1>1. DOMAIN es = 1 .. Len(es) /\ Len(es) \in Nat
  BY LenProperties
<1>2. \A i \in 1 .. Len(es) : es[i] \in RoomEvent
  BY <1>1
<1>3. ASSUME NEW e \in RoomEvent PROVE To(e.to, EventMessage(r, e)) \in Posting
  BY DEF RoomEvent, To, EventMessage, Posting, Message, AllKinds
<1>4. todo \in [1 .. Len(es) -> Posting]
  BY <1>1, <1>2, <1>3 DEF DispatchOutgoing
<1>5. todo \in Seq(Posting) /\ Len(todo) = Len(es)
  BY <1>1, <1>4
<1>6. \A i \in 1 .. Len(es) : todo[i] = To(es[i].to, EventMessage(r, es[i]))
  BY <1>1 DEF DispatchOutgoing
<1> QED
  BY <1>5, <1>6

(* An answer to the client itself.                                         *)
LEMMA AnswerType ==
  ASSUME NEW c \in Clients, NEW msg \in Message
  PROVE  <<To({c}, msg)>> \in Seq(Posting)
<1>1. To({c}, msg) \in Posting
  BY DEF To, Posting
<1> QED
  BY <1>1

(* Tokens: a request is handled.                                           *)
LEMMA RequestTokens ==
  ASSUME Tokens, NEW c \in Clients, NEW todo \in Seq(Posting),
         Starts(c, "read"), Continue(c, todo, "read"),
         UNCHANGED <<session, registry, ioVars, broken, lines>>
  PROVE  Tokens'
<1>0. SessionType /\ QueueType /\ Client(c)
  BY DEF Tokens
<1>1. /\ run' \in [Clients -> [todo : Seq(Posting), end : {"none", "read", "close"}]]
      /\ run'[c].end = "read"
      /\ \A d \in Clients : d # c => run'[d] = run[d]
  BY <1>0, ContinuedRun
<1>2. SessionType' /\ QueueType'
  BY <1>0, <1>1, StartedStrand DEF SessionType, QueueType, ioVars
<1>3. \A d \in Clients : d # c => Client(d)'
  BY <1>0, <1>1, StartedStrand, ClientFrame DEF Tokens, ioVars
<1>4. /\ QueuedReads(c) = QueuedReads(c)' + 1 /\ QueuedReads(c)' \in Nat
      /\ QueuedWrites(c) = QueuedWrites(c)' + 0 /\ QueuedWrites(c)' \in Nat
  BY <1>0, StartedStrand DEF ReadEnds, WriteEnds
<1>5. session[c] \in {"open", "closed"} /\ run[c].end = "none"
  BY StartedSession
<1>6. reads[c] \in {0, 1} /\ writes[c] \in {0, 1}
  BY <1>0 DEF SessionType
<1>7. Unopened(c)' /\ HandlerEnds(c)'
  BY <1>0, <1>1, <1>5 DEF Unopened, HandlerEnds
<1>8. ReadToken(c)' /\ WriteToken(c)'
  BY <1>0, <1>1, <1>4, <1>5, <1>6 DEF Client, ReadToken, WriteToken, ioVars
<1> QED
  BY <1>2, <1>3, <1>7, <1>8 DEF Tokens, Client

(* Tokens: a handler learns of an error when the session has stopped, ...  *)
LEMMA StopAgainTokens ==
  ASSUME Tokens, NEW c \in Clients, StopAgain(c)
  PROVE  Tokens'
<1>0. SessionType /\ QueueType /\ Client(c)
  BY DEF Tokens
<1>1. PICK h \in {"readError", "writeError"} : Starts(c, h)
  BY DEF StopAgain
<1>2. SessionType' /\ QueueType'
  BY <1>0, <1>1, StartedStrand DEF StopAgain, SessionType, QueueType, ioVars, sessionVars
<1>3. \A d \in Clients : d # c => Client(d)'
  BY <1>0, <1>1, StartedStrand, ClientFrame DEF StopAgain, Tokens, ioVars, sessionVars
<1>4. /\ QueuedReads(c)' <= QueuedReads(c) /\ QueuedReads(c)' \in Nat
      /\ QueuedWrites(c)' <= QueuedWrites(c) /\ QueuedWrites(c)' \in Nat
      /\ QueuedReads(c) \in Nat /\ QueuedWrites(c) \in Nat
  BY <1>0, <1>1, StartedStrand, TokenNumbers
<1>5. session[c] = "closed"
  BY <1>1, StartedSession DEF StopAgain, Stopped
<1>6. reads[c] \in {0, 1} /\ writes[c] \in {0, 1}
  BY <1>0 DEF SessionType
<1>7. Unopened(c)' /\ HandlerEnds(c)'
  BY <1>0, <1>5 DEF StopAgain, Client, Unopened, HandlerEnds, sessionVars
<1>8. ReadToken(c)' /\ WriteToken(c)'
  BY <1>0, <1>4, <1>5, <1>6 DEF StopAgain, Client, ReadToken, WriteToken, ioVars, sessionVars
<1> QED
  BY <1>2, <1>3, <1>7, <1>8 DEF Tokens, Client

(* ... or has not, ...                                                     *)
LEMMA StopImplTokens ==
  ASSUME Tokens, Places, NEW c \in Clients, StopImpl(c)
  PROVE  Tokens'
<1>0. SessionType /\ QueueType /\ Client(c)
  BY DEF Tokens
<1>1. PICK h \in {"readError", "writeError"} : Starts(c, h)
  BY DEF StopImpl
<1>2. PICK todo \in Seq(Posting) : Continue(c, todo, "close")
  <2>1. CASE currentRoom[c] = NoRoom
    <3>1. Continue(c, <<>>, "close") /\ <<>> \in Seq(Posting)
      BY <2>1 DEF StopImpl
    <3> QED
      BY <3>1, Zenon
  <2>2. CASE currentRoom[c] # NoRoom
    <3> DEFINE r == currentRoom[c]
               o == LeaveCall(rooms[r], c)
    <3>1. /\ r \in DOMAIN rooms /\ r \in RoomIds
          /\ rooms[r] \in RoomType /\ rooms[r].drawing \subseteq rooms[r].members
      BY <2>2 DEF Places, RoomsExist, CoreType, PlaceType
    <3>2. o.events \in Seq(RoomEvent)
      BY <3>1, LeaveOutcome DEF IsOutcome
    <3>3. DispatchOutgoing(r, o.events) \in Seq(Posting)
      BY <3>1, <3>2, DispatchType
    <3>4. Continue(c, DispatchOutgoing(r, o.events), "close")
      BY <2>2 DEF StopImpl
    <3> QED
      BY <3>3, <3>4, Zenon
  <2> QED
    BY <2>1, <2>2
<1>3. /\ run' \in [Clients -> [todo : Seq(Posting), end : {"none", "read", "close"}]]
      /\ run'[c].end = "close"
      /\ \A d \in Clients : d # c => run'[d] = run[d]
  BY <1>0, <1>2, ContinuedRun
<1>4. /\ session'[c] = "stopping" /\ session[c] = "open"
      /\ session' \in [Clients -> {"none", "open", "stopping", "closed"}]
      /\ \A d \in Clients : d # c => session'[d] = session[d]
  BY <1>0, <1>1, StartedSession DEF StopImpl, Stopped, SessionType
<1>5. SessionType' /\ QueueType'
  BY <1>0, <1>1, <1>3, <1>4, StartedStrand DEF StopImpl, SessionType, QueueType, ioVars
<1>6. \A d \in Clients : d # c => Client(d)'
  BY <1>0, <1>1, <1>3, <1>4, StartedStrand, ClientFrame DEF StopImpl, Tokens, ioVars
<1>7. /\ QueuedReads(c)' <= QueuedReads(c) /\ QueuedReads(c)' \in Nat
      /\ QueuedWrites(c)' <= QueuedWrites(c) /\ QueuedWrites(c)' \in Nat
      /\ QueuedReads(c) \in Nat /\ QueuedWrites(c) \in Nat
  BY <1>0, <1>1, StartedStrand, TokenNumbers
<1>8. reads[c] \in {0, 1} /\ writes[c] \in {0, 1} /\ run[c].end = "none"
  BY <1>0, <1>1, StartedSession DEF SessionType
<1>9. Unopened(c)' /\ HandlerEnds(c)'
  BY <1>3, <1>4 DEF Unopened, HandlerEnds
<1>10. ReadToken(c)' /\ WriteToken(c)'
  BY <1>0, <1>3, <1>4, <1>7, <1>8 DEF StopImpl, Client, ReadToken, WriteToken, ioVars
<1> QED
  BY <1>5, <1>6, <1>9, <1>10 DEF Tokens, Client

(* ... and the session closes.                                             *)
LEMMA CloseTokens ==
  ASSUME Tokens, NEW c \in Clients, Close(c)
  PROVE  Tokens'
<1>0. SessionType /\ QueueType /\ Client(c)
  BY DEF Tokens
<1>1. Idle \in [todo : Seq(Posting), end : {"none", "read", "close"}]
  BY DEF Idle
<1>2. /\ run' \in [Clients -> [todo : Seq(Posting), end : {"none", "read", "close"}]]
      /\ run'[c] = Idle
      /\ \A d \in Clients : d # c => run'[d] = run[d]
  BY <1>0, <1>1 DEF Close, QueueType
<1>3. /\ session'[c] = "closed" /\ session[c] = "stopping"
      /\ session' \in [Clients -> {"none", "open", "stopping", "closed"}]
      /\ \A d \in Clients : d # c => session'[d] = session[d]
  BY <1>0 DEF Close, SessionType, Client, HandlerEnds
<1>4. SessionType' /\ QueueType'
  BY <1>0, <1>2, <1>3 DEF Close, SessionType, QueueType, ioVars
<1>5. \A d \in Clients : d # c => Client(d)'
  BY <1>2, <1>3, ClientFrame DEF Close, Tokens, ioVars
<1>6. QueuedReads(c)' = QueuedReads(c) /\ QueuedWrites(c)' = QueuedWrites(c)
  BY DEF Close, QueuedReads, QueuedWrites
<1>7. Unopened(c)' /\ HandlerEnds(c)'
  BY <1>2, <1>3 DEF Unopened, HandlerEnds, Idle
<1>8. ReadToken(c)' /\ WriteToken(c)'
  BY <1>0, <1>2, <1>3, <1>6 DEF Close, Client, ReadToken, WriteToken, ioVars, Idle
<1> QED
  BY <1>4, <1>5, <1>7, <1>8 DEF Tokens, Client

(* The three things Post may do: skip an event with no recipient left,     *)
(* post to a session, or find that the recipient is gone.                  *)
LEMMA PostCases ==
  ASSUME Tokens, NEW c \in Clients, Post(c)
  PROVE  /\ session[c] # "none"
         /\ run[c].end \in {"read", "close"}
         /\ run[c].todo \in Seq(Posting) /\ run[c].todo # <<>>
         /\ \E todo \in Seq(Posting) : Continue(c, todo, run[c].end)
         /\ \/ UNCHANGED strand
            \/ \E d \in Clients :
                 /\ session[d] # "none"
                 /\ Queue(d, [h |-> "post", msg |-> Head(run[c].todo).msg])
                 /\ [h |-> "post", msg |-> Head(run[c].todo).msg] \in QueuedHandler
<1>0. SessionType /\ QueueType /\ Client(c)
  BY DEF Tokens
<1>1. run[c].todo \in Seq(Posting) /\ run[c].todo # <<>> /\ run[c].end \in {"none", "read", "close"}
  BY <1>0 DEF QueueType, Post
<1>2. run[c].end \in {"read", "close"} /\ session[c] # "none"
  BY <1>0, <1>1 DEF Client, HandlerEnds, Unopened, Idle
<1>3. Head(run[c].todo) \in Posting /\ Tail(run[c].todo) \in Seq(Posting)
  BY <1>1, HeadTailProperties
<1>4. PICK m \in Posting, rest \in Seq(Posting) :
        m = Head(run[c].todo) /\ rest = Tail(run[c].todo)
  BY <1>3, Zenon
<1>5. m.to \subseteq Clients /\ m.msg \in Message
  BY DEF Posting
<1>6. [h |-> "post", msg |-> m.msg] \in QueuedHandler
  BY <1>5 DEF QueuedHandler
<1>7. CASE m.to = {} /\ Continue(c, rest, run[c].end) /\ UNCHANGED strand
  BY <1>1, <1>2, <1>4, <1>7
<1>8. ASSUME NEW d \in m.to,
             Continue(c, IF m.to = {d} THEN rest
                         ELSE <<[m EXCEPT !.to = @ \ {d}]>> \o rest, run[c].end),
             IF d = c \/ d \in registry
             THEN Queue(d, [h |-> "post", msg |-> m.msg])
             ELSE UNCHANGED strand
      PROVE  /\ \E todo \in Seq(Posting) : Continue(c, todo, run[c].end)
             /\ \/ UNCHANGED strand
                \/ \E e \in Clients :
                     /\ session[e] # "none"
                     /\ Queue(e, [h |-> "post", msg |-> m.msg])
  <2>1. [m EXCEPT !.to = @ \ {d}] \in Posting
    BY <1>5 DEF Posting
  <2>2. <<[m EXCEPT !.to = @ \ {d}]>> \o rest \in Seq(Posting)
    BY <2>1, ConcatProperties
  <2>3. \E todo \in Seq(Posting) : Continue(c, todo, run[c].end)
    <3>1. PICK t : t = IF m.to = {d} THEN rest ELSE <<[m EXCEPT !.to = @ \ {d}]>> \o rest
      OBVIOUS
    <3>2. t \in Seq(Posting)
      BY <2>2, <3>1, Zenon
    <3> QED
      BY <1>8, <3>1, <3>2, Zenon
  <2>4. d \in registry => session[d] # "none"
    BY <1>0 DEF SessionType
  <2> QED
    BY <1>2, <1>5, <1>8, <2>3, <2>4
<1>9. \/ m.to = {} /\ Continue(c, rest, run[c].end) /\ UNCHANGED strand
      \/ \E d \in m.to :
           /\ Continue(c, IF m.to = {d} THEN rest
                          ELSE <<[m EXCEPT !.to = @ \ {d}]>> \o rest, run[c].end)
           /\ IF d = c \/ d \in registry
              THEN Queue(d, [h |-> "post", msg |-> m.msg])
              ELSE UNCHANGED strand
  BY <1>4, Zenon DEF Post
<1> QED
  BY <1>1, <1>2, <1>4, <1>6, <1>7, <1>8, <1>9

(* Tokens: a handler posts a message.                                      *)
LEMMA PostTokens ==
  ASSUME Tokens, NEW c \in Clients, Post(c)
  PROVE  Tokens'
<1>0. SessionType /\ QueueType /\ \A d \in Clients : Client(d)
  BY DEF Tokens
<1>1. PICK todo \in Seq(Posting) : Continue(c, todo, run[c].end)
  BY PostCases
<1>2. /\ run[c].end \in {"read", "close"} /\ session[c] # "none"
      /\ UNCHANGED <<session, registry, reads, writes, writeQueue, sent, broken, lines>>
  BY PostCases DEF Post, ioVars, sessionVars
<1>3. /\ run' \in [Clients -> [todo : Seq(Posting), end : {"none", "read", "close"}]]
      /\ \A d \in Clients : run'[d].end = run[d].end
      /\ \A d \in Clients : d # c => run'[d] = run[d]
  BY <1>0, <1>1, <1>2, ContinuedRun
<1>4. /\ strand' \in [Clients -> Seq(QueuedHandler)]
      /\ \A d \in Clients : /\ QueuedReads(d)' = QueuedReads(d)
                            /\ QueuedWrites(d)' = QueuedWrites(d)
                            /\ session[d] = "none" => strand'[d] = strand[d]
  <2>1. CASE UNCHANGED strand
    BY <1>0, <2>1 DEF QueueType, QueuedReads, QueuedWrites
  <2>2. CASE \E d \in Clients :
               /\ session[d] # "none"
               /\ Queue(d, [h |-> "post", msg |-> Head(run[c].todo).msg])
               /\ [h |-> "post", msg |-> Head(run[c].todo).msg] \in QueuedHandler
    <3>1. PICK d \in Clients, x \in QueuedHandler :
            session[d] # "none" /\ Queue(d, x) /\ x.h = "post"
      BY <2>2
    <3>2. x.h \notin ReadEnds /\ x.h \notin WriteEnds
      BY <3>1 DEF ReadEnds, WriteEnds
    <3>3. QueuedReads(d) \in Nat /\ QueuedWrites(d) \in Nat
      BY <1>0, TokenNumbers
    <3>4. QueuedReads(d)' = QueuedReads(d) + 0 /\ QueuedWrites(d)' = QueuedWrites(d) + 0
      BY <1>0, <3>1, <3>2, QueuedStrand
    <3> QED
      BY <1>0, <3>1, <3>3, <3>4, QueuedStrand
  <2> QED
    BY <2>1, <2>2, PostCases
<1>5. SessionType' /\ QueueType'
  BY <1>0, <1>2, <1>3, <1>4 DEF SessionType, QueueType
<1>6. ASSUME NEW d \in Clients PROVE Client(d)'
  <2>1. Client(d) /\ (d = c => session[d] # "none")
    BY <1>0, <1>2
  <2>2. Unopened(d)'
    BY <1>2, <1>3, <1>4, <2>1 DEF Client, Unopened
  <2>3. HandlerEnds(d)'
    BY <1>2, <1>3, <2>1 DEF Client, HandlerEnds
  <2>4. ReadToken(d)' /\ WriteToken(d)'
    BY <1>2, <1>3, <1>4, <2>1 DEF Client, ReadToken, WriteToken
  <2> QED
    BY <2>2, <2>3, <2>4 DEF Client
<1> QED
  BY <1>5, <1>6 DEF Tokens

(* Tokens: the handler of a request ends, and the next line is read.       *)
LEMMA ReadNextTokens ==
  ASSUME Tokens, NEW c \in Clients, ReadNext(c)
  PROVE  Tokens'
<1>0. SessionType /\ QueueType /\ Client(c)
  BY DEF Tokens
<1>1. Idle \in [todo : Seq(Posting), end : {"none", "read", "close"}]
  BY DEF Idle
<1>2. /\ run' \in [Clients -> [todo : Seq(Posting), end : {"none", "read", "close"}]]
      /\ run'[c] = Idle
      /\ \A d \in Clients : d # c => run'[d] = run[d]
  BY <1>0, <1>1 DEF ReadNext, QueueType
<1>3. /\ reads[c] = 0 /\ QueuedReads(c) = 0 /\ QueuedWrites(c) \in Nat
      /\ session[c] # "stopping" /\ session[c] # "none"
  BY <1>0, TokenNumbers DEF ReadNext, Client, ReadToken, HandlerEnds, Unopened, Idle
<1>4. /\ reads' \in [Clients -> {0, 1}]
      /\ \A d \in Clients : d # c => reads'[d] = reads[d]
  BY <1>0, <1>3 DEF ReadNext, SessionType
<1>5. SessionType' /\ QueueType'
  BY <1>0, <1>2, <1>4 DEF ReadNext, SessionType, QueueType, sessionVars
<1>6. \A d \in Clients : d # c => Client(d)'
  BY <1>2, <1>4, ClientFrame DEF ReadNext, Tokens, sessionVars
<1>7. QueuedReads(c)' = QueuedReads(c) /\ QueuedWrites(c)' = QueuedWrites(c)
  BY DEF ReadNext, QueuedReads, QueuedWrites
<1>8. Unopened(c)' /\ HandlerEnds(c)'
  BY <1>2, <1>3 DEF ReadNext, Unopened, HandlerEnds, Idle, sessionVars
<1>9. reads'[c] \in {0, 1}
  BY <1>4
<1>10. ReadToken(c)' /\ WriteToken(c)'
  BY <1>0, <1>2, <1>3, <1>7, <1>9
  DEF ReadNext, Client, ReadToken, WriteToken, sessionVars, Idle
<1> QED
  BY <1>5, <1>6, <1>8, <1>10 DEF Tokens, Client

-----------------------------------------------------------------------------
(* The authors of the events of a call are appended to the log.            *)
LEMMA ExtendedLog ==
  ASSUME NEW c \in Clients, NEW l \in Seq(Clients), NEW as \in Seq(Clients),
         \A i \in 1 .. Len(as) : as[i] = c
  PROVE  /\ l \o as \in Seq(Clients)
         /\ Len(l \o as) = Len(l) + Len(as)
         /\ \A n \in 1 .. Len(l) : (l \o as)[n] = l[n]
         /\ \A n \in Len(l) + 1 .. Len(l) + Len(as) : (l \o as)[n] = c
<1>1. Len(as) \in Nat /\ Len(l) \in Nat
  BY LenProperties
<1>2. /\ l \o as \in Seq(Clients)
      /\ Len(l \o as) = Len(l) + Len(as)
      /\ \A i \in 1 .. Len(l) + Len(as) :
           (l \o as)[i] = IF i <= Len(l) THEN l[i] ELSE as[i - Len(l)]
  BY ConcatProperties
<1>3. \A n \in 1 .. Len(l) : (l \o as)[n] = l[n]
  BY <1>1, <1>2
<1>4. ASSUME NEW n \in Len(l) + 1 .. Len(l) + Len(as) PROVE (l \o as)[n] = c
  <2>1. n - Len(l) \in 1 .. Len(as) /\ n \in 1 .. Len(l) + Len(as) /\ ~(n <= Len(l))
    <3>1. PICK a \in Nat, b \in Nat : a = Len(l) /\ b = Len(as)
      BY <1>1
    <3>2. n \in a + 1 .. a + b
      BY <3>1
    <3>3. n - a \in 1 .. b /\ n \in 1 .. a + b /\ ~(n <= a)
      BY <3>2
    <3> QED
      BY <3>1, <3>3
  <2> QED
    BY <1>2, <2>1
<1> QED
  BY <1>2, <1>3, <1>4

(* A call on a room is logged, and changes this room only.                 *)
LogExtended(c, r, o) ==
  /\ log'[r] \in Seq(Clients) /\ DOMAIN log' = DOMAIN log
  /\ \A x \in DOMAIN rooms : x # r => log'[x] = log[x]
  /\ Len(log'[r]) = Len(log[r]) + Len(o.events)
  /\ \A n \in 1 .. Len(log[r]) : log'[r][n] = log[r][n]
  /\ \A n \in Len(log[r]) + 1 .. Len(log[r]) + Len(o.events) : log'[r][n] = c

RoomCalled(r, o) ==
  /\ CoreType'
  /\ DOMAIN rooms' = DOMAIN rooms /\ rooms'[r] = o.room
  /\ \A x \in DOMAIN rooms : x # r => rooms'[x] = rooms[x]

LEMMA UpdatedLog ==
  ASSUME NEW c \in Clients, NEW r, NEW o,
         CoreType, r \in DOMAIN rooms, IsOutcome(rooms[r], c, o), Update(r, o)
  PROVE  LogExtended(c, r, o)
<1> DEFINE authors == [i \in DOMAIN o.events |-> o.events[i].author]
<1>1. /\ log[r] \in Seq(Clients) /\ DOMAIN log = DOMAIN rooms
      /\ o.events \in Seq(RoomEvent)
      /\ \A i \in DOMAIN o.events : o.events[i].author = c
  BY DEF CoreType, IsOutcome
<1>2. DOMAIN o.events = 1 .. Len(o.events) /\ Len(o.events) \in Nat
  BY <1>1, LenProperties
<1>3. authors \in [1 .. Len(o.events) -> Clients]
  BY <1>1, <1>2
<1>4. /\ authors \in Seq(Clients) /\ Len(authors) = Len(o.events)
      /\ \A i \in 1 .. Len(authors) : authors[i] = c
  BY <1>1, <1>2, <1>3
<1>5. /\ log'[r] = log[r] \o authors /\ DOMAIN log' = DOMAIN log
      /\ \A x \in DOMAIN log : x # r => log'[x] = log[x]
  BY <1>1 DEF Update
<1> HIDE DEF authors
<1>6. PICK l \in Seq(Clients), as \in Seq(Clients) : l = log[r] /\ as = authors
  BY <1>1, <1>4, Zenon
<1>7. \A i \in 1 .. Len(as) : as[i] = c
  BY <1>4, <1>6
<1>8. /\ l \o as \in Seq(Clients) /\ Len(l \o as) = Len(l) + Len(as)
      /\ \A n \in 1 .. Len(l) : (l \o as)[n] = l[n]
      /\ \A n \in Len(l) + 1 .. Len(l) + Len(as) : (l \o as)[n] = c
  BY <1>7, ExtendedLog
<1>9. log'[r] = l \o as /\ Len(as) = Len(o.events) /\ log[r] = l
  BY <1>4, <1>5, <1>6
<1> QED
  BY <1>1, <1>5, <1>8, <1>9, Zenon DEF LogExtended

LEMMA UpdatedCore ==
  ASSUME NEW c \in Clients, NEW r, NEW o,
         CoreType, r \in DOMAIN rooms, IsOutcome(rooms[r], c, o), Update(r, o)
  PROVE  RoomCalled(r, o)
<1>1. /\ rooms[r].nextSeq = Len(log[r]) + 1 /\ Len(log[r]) \in Nat
      /\ Len(o.events) \in Nat
      /\ o.room.nextSeq = rooms[r].nextSeq + Len(o.events)
      /\ o.room \in RoomType /\ o.room.drawing \subseteq o.room.members
  BY LenProperties DEF CoreType, IsOutcome
<1>2. /\ log'[r] \in Seq(Clients) /\ DOMAIN log' = DOMAIN log
      /\ \A x \in DOMAIN rooms : x # r => log'[x] = log[x]
      /\ Len(log'[r]) = Len(log[r]) + Len(o.events)
  <2>1. LogExtended(c, r, o)
    BY UpdatedLog
  <2> QED
    BY <2>1 DEF LogExtended
<1>3. rooms'[r] = o.room /\ DOMAIN rooms' = DOMAIN rooms
      /\ \A x \in DOMAIN rooms : x # r => rooms'[x] = rooms[x]
  BY DEF Update
<1>4. o.room.nextSeq = Len(log'[r]) + 1
  <2>1. PICK a \in Nat, b \in Nat, k \in Nat, l \in Nat :
          a = rooms[r].nextSeq /\ b = o.room.nextSeq /\ k = Len(o.events) /\ l = Len(log[r])
    BY <1>1 DEF CoreType, RoomType
  <2>2. a = l + 1 /\ b = a + k
    BY <1>1, <2>1
  <2>3. Len(log'[r]) = l + k
    BY <1>2, <2>1
  <2>4. b = l + k + 1
    BY <2>2
  <2> QED
    BY <2>1, <2>3, <2>4, Zenon
<1>5. ASSUME NEW x \in DOMAIN rooms
      PROVE  /\ rooms'[x] \in RoomType
             /\ rooms'[x].drawing \subseteq rooms'[x].members
             /\ log'[x] \in Seq(Clients)
             /\ rooms'[x].nextSeq = Len(log'[x]) + 1
  <2>1. CASE x = r
    BY <1>1, <1>2, <1>3, <1>4, <2>1
  <2>2. CASE x # r
    BY <1>2, <1>3, <2>2 DEF CoreType
  <2> QED
    BY <2>1, <2>2
<1>6. CoreType'
  BY <1>2, <1>3, <1>5 DEF CoreType
<1> QED
  BY <1>3, <1>6 DEF RoomCalled

(* The fields of the request a handler has started on.                     *)
LEMMA RequestFields ==
  ASSUME Tokens, NEW c \in Clients, NEW type, StartsRequest(c, type)
  PROVE  /\ type \in {"join_room", "leave_room", "event"} => Req(c).room \in RoomIds
         /\ type = "event" => Req(c).kind \in EventKinds
<1>1. Head(strand[c]) \in QueuedHandler /\ Head(strand[c]).h = "read"
      /\ Head(strand[c]).req.type = type
  BY StartedStrand DEF Tokens, StartsRequest
<1>2. Head(strand[c]).req \in Request
  BY <1>1 DEF QueuedHandler
<1>3. Req(c) \in Request /\ Req(c).type = type
  BY <1>1, <1>2 DEF Req
<1>4. CASE type \in {"join_room", "leave_room"}
  BY <1>3, <1>4 DEF Request
<1>5. CASE type = "event"
  <2>1. Req(c).room \in RoomIds /\ Req(c).kind \in Kinds
    BY <1>3, <1>5 DEF Request
  <2> QED
    BY <1>5, <2>1, SessionsAssumption
<1> QED
  BY <1>4, <1>5

-----------------------------------------------------------------------------
(* Places: a step that moves nobody and stops no session.                  *)
LEMMA PlacesFrame ==
  ASSUME Places, UNCHANGED <<coreVars, currentRoom, since>>,
         \A c \in Clients :
           \/ session'[c] = session[c]
           \/ session[c] # "stopping" /\ session'[c] \notin {"none", "stopping"}
  PROVE  Places'
<1>1. CoreType' /\ PlaceType'
  BY DEF Places, CoreType, PlaceType, coreVars
<1>2. RoomsExist' /\ RoomsAgree'
  BY DEF Places, RoomsExist, RoomsAgree, Members, coreVars
<1> QED
  BY <1>1, <1>2 DEF Places

(* The facts of the invariant about one room.                              *)
LEMMA RoomFacts ==
  ASSUME Places, NEW r \in DOMAIN rooms
  PROVE  /\ rooms[r] \in RoomType /\ rooms[r].drawing \subseteq rooms[r].members
         /\ r \in RoomIds /\ r # NoRoom
         /\ log[r] \in Seq(Clients) /\ rooms[r].nextSeq = Len(log[r]) + 1
         /\ rooms[r].nextSeq \in Nat \ {0}
<1>1. r \in RoomIds
  BY SessionsAssumption DEF Places, CoreType, RoomIds
<1>2. r # NoRoom
  BY <1>1, SessionsAssumption DEF RoomIds
<1> QED
  BY <1>1, <1>2 DEF Places, CoreType, RoomType

(* Places: create_room.                                                    *)
LEMMA CreatePlaces ==
  ASSUME Places, NEW c \in Clients, HandleCreateRoom(c)
  PROVE  Places'
<1>1. PICK n \in 0 .. MaxRooms : DOMAIN rooms = 1 .. n
  BY DEF Places, CoreType
<1>2. Cardinality(DOMAIN rooms) = n
  <2>1. n \in Nat /\ Cardinality(1 .. n) = IF 1 > n THEN 0 ELSE n - 1 + 1
    BY FS_Interval, SessionsAssumption
  <2> QED
    BY <1>1, <2>1
<1>3. PICK r : r = n + 1
  OBVIOUS
<1>4. /\ r <= MaxRooms /\ n \in Nat
      /\ rooms' = [x \in DOMAIN rooms \cup {r} |-> IF x = r THEN NewRoom ELSE rooms[x]]
      /\ log' = [x \in DOMAIN log \cup {r} |-> IF x = r THEN <<>> ELSE log[x]]
      /\ UNCHANGED <<session, currentRoom, since>>
  BY <1>2, <1>3, SessionsAssumption DEF HandleCreateRoom, sessionVars
<1>5. /\ DOMAIN rooms' = 1 .. r /\ r \notin DOMAIN rooms
      /\ r \in 0 .. MaxRooms /\ r \in RoomIds
  BY <1>1, <1>3, <1>4, SessionsAssumption DEF RoomIds
<1>6. /\ DOMAIN log' = DOMAIN rooms' /\ rooms'[r] = NewRoom /\ log'[r] = <<>>
      /\ \A x \in DOMAIN rooms : rooms'[x] = rooms[x] /\ log'[x] = log[x]
  BY <1>4, <1>5 DEF Places, CoreType
<1>7. /\ NewRoom \in RoomType /\ NewRoom.members = {} /\ NewRoom.drawing = {}
      /\ NewRoom.nextSeq = 1
  BY DEF NewRoom, RoomType
<1>8. \A x \in DOMAIN rooms' : x = r \/ x \in DOMAIN rooms
  BY <1>4
<1>9. CoreType'
  <2>1. ASSUME NEW x \in DOMAIN rooms'
        PROVE  /\ rooms'[x] \in RoomType
               /\ rooms'[x].drawing \subseteq rooms'[x].members
               /\ log'[x] \in Seq(Clients)
               /\ rooms'[x].nextSeq = Len(log'[x]) + 1
    <3>1. CASE x = r
      BY <1>6, <1>7, <3>1
    <3>2. CASE x \in DOMAIN rooms
      BY <1>6, <3>2 DEF Places, CoreType
    <3> QED
      BY <1>8, <3>1, <3>2
  <2> QED
    BY <1>5, <1>6, <2>1 DEF CoreType
<1>10. PlaceType'
  BY <1>4 DEF Places, PlaceType
<1>11. RoomsExist'
  BY <1>4, <1>5, <1>6, <1>7, <1>8 DEF Places, RoomsExist, Members
<1>12. RoomsAgree'
  <2>1. \A d \in Clients : currentRoom[d] # r
    <3>1. r # NoRoom
      BY <1>5, SessionsAssumption DEF RoomIds
    <3> QED
      BY <1>5, <3>1 DEF Places, RoomsExist
  <2> QED
    BY <1>4, <1>6, <1>7, <1>8, <2>1 DEF Places, RoomsAgree, Members
<1> QED
  BY <1>9, <1>10, <1>11, <1>12 DEF Places

(* Places: join_room.                                                      *)
LEMMA JoinPlaces ==
  ASSUME Places, Tokens, NEW c \in Clients, HandleJoinRoom(c)
  PROVE  Places'
<1>1. PICK r : r = Req(c).room
  OBVIOUS
<1>2. /\ currentRoom[c] \in {NoRoom, r} /\ r \in DOMAIN rooms
      /\ Update(r, JoinCall(rooms[r], c))
      /\ currentRoom' = [currentRoom EXCEPT ![c] = r]
      /\ since' = IF currentRoom[c] = r THEN since ELSE [since EXCEPT ![c] = rooms[r].nextSeq]
      /\ session' = session
      /\ Starts(c, "read")
  BY <1>1 DEF HandleJoinRoom, StartsRequest
<1>3. /\ IsOutcome(rooms[r], c, JoinCall(rooms[r], c))
      /\ JoinCall(rooms[r], c).room.members = Members(r) \cup {c}
      /\ r \in RoomIds /\ r # NoRoom /\ rooms[r].nextSeq \in Nat
  BY <1>2, RoomFacts, JoinOutcome DEF Members
<1>4. /\ CoreType' /\ DOMAIN rooms' = DOMAIN rooms
      /\ rooms'[r] = JoinCall(rooms[r], c).room
      /\ \A x \in DOMAIN rooms : x # r => rooms'[x] = rooms[x]
  <2>1. RoomCalled(r, JoinCall(rooms[r], c))
    BY <1>2, <1>3, UpdatedCore DEF Places
  <2> QED
    BY <2>1 DEF RoomCalled
<1>5. /\ Members(r)' = Members(r) \cup {c}
      /\ \A x \in DOMAIN rooms : x # r => Members(x)' = Members(x)
  BY <1>3, <1>4 DEF Members
<1>6. /\ currentRoom'[c] = r
      /\ \A d \in Clients : d # c => currentRoom'[d] = currentRoom[d]
      /\ PlaceType'
  BY <1>2, <1>3 DEF Places, PlaceType
<1>7. session[c] \in {"open", "closed"}
  BY <1>2, StartedSession
<1>8. RoomsExist'
  BY <1>2, <1>3, <1>4, <1>5, <1>6, <1>7 DEF Places, RoomsExist
<1>9. \A x \in DOMAIN rooms : x # r => c \notin Members(x)
  BY <1>2, <1>3, RoomFacts DEF Places, RoomsAgree
<1>10. RoomsAgree'
  BY <1>2, <1>4, <1>5, <1>6, <1>9 DEF Places, RoomsAgree
<1> QED
  BY <1>4, <1>6, <1>8, <1>10 DEF Places

(* A client that leaves is in no room any more.                            *)
LEMMA LeftMembers ==
  ASSUME Places, NEW c \in Clients, NEW r \in DOMAIN rooms, currentRoom[c] = r,
         Update(r, LeaveCall(rooms[r], c))
  PROVE  /\ CoreType' /\ DOMAIN rooms' = DOMAIN rooms
         /\ \A x \in DOMAIN rooms : Members(x)' = Members(x) \ {c}
<1>1. /\ IsOutcome(rooms[r], c, LeaveCall(rooms[r], c))
      /\ LeaveCall(rooms[r], c).room.members = Members(r) \ {c}
  BY RoomFacts, LeaveOutcome DEF Members
<1>2. /\ CoreType' /\ DOMAIN rooms' = DOMAIN rooms
      /\ rooms'[r] = LeaveCall(rooms[r], c).room
      /\ \A x \in DOMAIN rooms : x # r => rooms'[x] = rooms[x]
  <2>1. RoomCalled(r, LeaveCall(rooms[r], c))
    BY <1>1, UpdatedCore DEF Places
  <2> QED
    BY <2>1 DEF RoomCalled
<1>3. \A x \in DOMAIN rooms : x # r => c \notin Members(x)
  BY DEF Places, RoomsAgree
<1> QED
  BY <1>1, <1>2, <1>3 DEF Members

(* Places: leave_room.                                                     *)
LEMMA LeavePlaces ==
  ASSUME Places, Tokens, NEW c \in Clients, HandleLeaveRoom(c)
  PROVE  Places' /\ LeaveCall(rooms[Req(c).room], c).err = "none"
<1>1. PICK r : r = Req(c).room
  OBVIOUS
<1>2. /\ currentRoom[c] = r /\ Update(r, LeaveCall(rooms[r], c))
      /\ since' = since /\ session' = session
      /\ Starts(c, "read") /\ r \in RoomIds
  BY <1>1, RequestFields DEF HandleLeaveRoom, StartsRequest
<1>3. r # NoRoom /\ r \in DOMAIN rooms
  <2>1. r # NoRoom
    BY <1>2, SessionsAssumption DEF RoomIds
  <2> QED
    BY <1>2, <2>1 DEF Places, RoomsExist
<1>4. session[c] \in {"open", "closed"}
  BY <1>2, StartedSession
<1>5. c \in Members(r)
  BY <1>2, <1>3, <1>4 DEF Places, RoomsAgree
<1>6. LeaveCall(rooms[r], c).err = "none"
  BY <1>3, <1>5, RoomFacts, LeaveOutcome DEF Members
<1>7. currentRoom' = [currentRoom EXCEPT ![c] = NoRoom]
  BY <1>1, <1>6 DEF HandleLeaveRoom
<1>8. /\ CoreType' /\ DOMAIN rooms' = DOMAIN rooms
      /\ \A x \in DOMAIN rooms : Members(x)' = Members(x) \ {c}
  BY <1>2, <1>3, LeftMembers
<1>9. /\ currentRoom'[c] = NoRoom
      /\ \A d \in Clients : d # c => currentRoom'[d] = currentRoom[d]
      /\ PlaceType'
  BY <1>2, <1>7 DEF Places, PlaceType
<1>10. RoomsExist'
  BY <1>2, <1>4, <1>8, <1>9 DEF Places, RoomsExist
<1>11. RoomsAgree'
  BY <1>2, <1>8, <1>9, RoomFacts DEF Places, RoomsAgree
<1> QED
  BY <1>1, <1>6, <1>8, <1>9, <1>10, <1>11 DEF Places

(* Places: event.                                                          *)
LEMMA EventPlaces ==
  ASSUME Places, Tokens, NEW c \in Clients, HandleEvent(c)
  PROVE  Places'
<1>1. PICK r : r = Req(c).room
  OBVIOUS
<1>2. /\ currentRoom[c] = r /\ r \in RoomIds /\ Req(c).kind \in EventKinds
      /\ UNCHANGED <<session, currentRoom, since>>
  BY <1>1, RequestFields DEF HandleEvent, sessionVars
<1>3. r \in DOMAIN rooms
  <2>1. r # NoRoom
    BY <1>2, SessionsAssumption DEF RoomIds
  <2> QED
    BY <1>2, <2>1 DEF Places, RoomsExist
<1>4. PICK o \in ApplyCall(rooms[r], c, Req(c).kind) : Update(r, o)
  BY <1>1 DEF HandleEvent
<1>5. IsOutcome(rooms[r], c, o) /\ o.room.members = rooms[r].members
  BY <1>2, <1>3, RoomFacts, ApplyOutcome
<1>6. /\ CoreType' /\ DOMAIN rooms' = DOMAIN rooms
      /\ \A x \in DOMAIN rooms : Members(x)' = Members(x)
  <2>1. RoomCalled(r, o)
    BY <1>3, <1>4, <1>5, UpdatedCore DEF Places
  <2> QED
    BY <1>5, <2>1 DEF RoomCalled, Members
<1>7. PlaceType'
  BY <1>2 DEF Places, PlaceType
<1>8. RoomsExist' /\ RoomsAgree'
  BY <1>2, <1>6 DEF Places, RoomsExist, RoomsAgree
<1> QED
  BY <1>6, <1>7, <1>8 DEF Places

(* Places: stopImpl(), before and after it posts.                          *)
LEMMA StopPlaces ==
  ASSUME Places, Tokens, NEW c \in Clients, StopImpl(c)
  PROVE  Places'
<1>1. PICK h : Starts(c, h)
  BY DEF StopImpl
<1>2. session[c] \in {"open", "closed"}
  BY <1>1, StartedSession
<1>3. /\ session'[c] = "stopping"
      /\ \A d \in Clients : d # c => session'[d] = session[d]
      /\ UNCHANGED <<currentRoom, since>>
  BY DEF StopImpl, Tokens, SessionType
<1>4. PlaceType'
  BY <1>3 DEF Places, PlaceType
<1>5. CASE currentRoom[c] = NoRoom
  <2>1. UNCHANGED coreVars
    BY <1>5 DEF StopImpl
  <2>2. \A r \in DOMAIN rooms : c \notin Members(r)
    BY <1>5, RoomFacts DEF Places, RoomsAgree
  <2>3. CoreType'
    BY <2>1 DEF Places, CoreType, coreVars
  <2>4. RoomsExist' /\ RoomsAgree'
    BY <1>3, <2>1, <2>2 DEF Places, RoomsExist, RoomsAgree, Members, coreVars
  <2> QED
    BY <1>4, <2>3, <2>4 DEF Places
<1>6. CASE currentRoom[c] # NoRoom
  <2>1. PICK r \in DOMAIN rooms : r = currentRoom[c]
    BY <1>6 DEF Places, RoomsExist
  <2>2. Update(r, LeaveCall(rooms[r], c))
    BY <1>6, <2>1 DEF StopImpl
  <2>3. /\ CoreType' /\ DOMAIN rooms' = DOMAIN rooms
        /\ \A x \in DOMAIN rooms : Members(x)' = Members(x) \ {c}
    BY <2>1, <2>2, LeftMembers
  <2>4. RoomsExist' /\ RoomsAgree'
    BY <1>3, <2>3 DEF Places, RoomsExist, RoomsAgree
  <2> QED
    BY <1>4, <2>3, <2>4 DEF Places
<1> QED
  BY <1>5, <1>6

(* The session has been out of its room since it began to stop.            *)
LEMMA ClosePlaces ==
  ASSUME Places, Tokens, NEW c \in Clients, Close(c)
  PROVE  Places'
<1>1. session[c] = "stopping"
  BY DEF Close, Tokens, Client, HandlerEnds
<1>2. /\ session'[c] = "closed" /\ currentRoom'[c] = NoRoom
      /\ \A d \in Clients : d # c => /\ session'[d] = session[d]
                                     /\ currentRoom'[d] = currentRoom[d]
      /\ PlaceType'
  BY DEF Close, Tokens, SessionType, Places, PlaceType
<1>3. CoreType' /\ UNCHANGED coreVars
  BY DEF Close, Places, CoreType, coreVars
<1>4. \A r \in DOMAIN rooms : c \notin Members(r)
  BY <1>1 DEF Places, RoomsExist
<1>5. RoomsExist' /\ RoomsAgree'
  BY <1>2, <1>3, <1>4, RoomFacts DEF Places, RoomsExist, RoomsAgree, Members, coreVars
<1> QED
  BY <1>2, <1>3, <1>5 DEF Places

-----------------------------------------------------------------------------
(* The initial state.                                                      *)
LEMMA InitSessionsInv == Init => SessionsInv
<1> SUFFICES ASSUME Init PROVE SessionsInv
  OBVIOUS
<1>1. CoreType
  <2>1. NewRoom \in RoomType /\ NewRoom.drawing = {} /\ NewRoom.nextSeq = 1
    BY DEF NewRoom, RoomType
  <2>2. /\ DOMAIN rooms = 1 .. RoomsAtStart /\ DOMAIN log = 1 .. RoomsAtStart
        /\ \A r \in DOMAIN rooms : rooms[r] = NewRoom /\ log[r] = <<>>
    BY DEF Init
  <2>3. <<>> \in Seq(Clients) /\ 1 = Len(<<>>) + 1
    OBVIOUS
  <2>4. ASSUME NEW r \in DOMAIN rooms
        PROVE  /\ rooms[r] \in RoomType /\ rooms[r].drawing \subseteq rooms[r].members
               /\ log[r] \in Seq(Clients) /\ rooms[r].nextSeq = Len(log[r]) + 1
    BY <2>1, <2>2, <2>3, Zenon
  <2> QED
    BY <2>2, <2>4, SessionsAssumption DEF CoreType
<1>2. PlaceType
  BY DEF Init, PlaceType
<1>3. RoomsExist /\ RoomsAgree
  <2>1. \A r \in DOMAIN rooms : r # NoRoom /\ Members(r) = {}
    BY SessionsAssumption DEF Init, NewRoom, Members
  <2> QED
    BY <2>1 DEF Init, RoomsExist, RoomsAgree
<1>4. SessionType
  BY SessionsAssumption DEF Init, SessionType
<1>5. QueueType
  BY DEF Init, QueueType, Idle
<1>6. ASSUME NEW c \in Clients PROVE Client(c)
  <2>1. /\ strand[c] = <<>> /\ run[c] = Idle /\ reads[c] = 0 /\ writes[c] = 0
        /\ writeQueue[c] = <<>> /\ session[c] = "none"
    BY DEF Init
  <2>2. QueuedReads(c) = 0 /\ QueuedWrites(c) = 0
    <3>1. Marked(<<>>, ReadEnds) = {} /\ Marked(<<>>, WriteEnds) = {}
      BY DEF Marked
    <3> QED
      BY <2>1, <3>1, FS_EmptySet DEF QueuedReads, QueuedWrites
  <2> QED
    BY <2>1, <2>2 DEF Client, Unopened, HandlerEnds, ReadToken, WriteToken, Idle
<1> QED
  BY <1>1, <1>2, <1>3, <1>4, <1>5, <1>6 DEF SessionsInv, Places, Tokens

(* The handler of a request posts messages only.                           *)
LEMMA RequestPosts ==
  ASSUME SessionsInv, NEW c \in Clients,
         \/ HandleInvalid(c) \/ HandlePing(c) \/ HandleCreateRoom(c) \/ HandleRefused(c)
         \/ HandleJoinRoom(c) \/ HandleLeaveRoom(c) \/ HandleEvent(c)
  PROVE  /\ Starts(c, "read")
         /\ UNCHANGED <<session, registry, ioVars, broken, lines>>
         /\ \E todo \in Seq(Posting) : Continue(c, todo, "read")
<1>0. Places /\ Tokens
  BY DEF SessionsInv
<1>1. ASSUME NEW m \in Message, Answer(c, m)
      PROVE  \E todo \in Seq(Posting) : Continue(c, todo, "read")
  <2>1. <<To({c}, m)>> \in Seq(Posting)
    BY AnswerType
  <2> QED
    BY <1>1, <2>1, Zenon DEF Answer
<1>2. \A t \in {"error", "pong", "room_created", "ok"} : Reply(t) \in Message
  BY DEF Reply, Message
<1>3. CASE HandleInvalid(c)
  BY <1>1, <1>2, <1>3 DEF HandleInvalid, StartsRequest, sessionVars
<1>4. CASE HandlePing(c)
  BY <1>1, <1>2, <1>4 DEF HandlePing, StartsRequest, sessionVars
<1>5. CASE HandleCreateRoom(c)
  BY <1>1, <1>2, <1>5 DEF HandleCreateRoom, StartsRequest, sessionVars
<1>6. CASE HandleRefused(c)
  BY <1>1, <1>2, <1>6 DEF HandleRefused, StartsRequest, sessionVars
<1>7. CASE HandleJoinRoom(c)
  <2>1. PICK r \in DOMAIN rooms : r = Req(c).room /\ Answer(c, SnapshotOf(r))
    BY <1>7 DEF HandleJoinRoom
  <2>2. SnapshotOf(r) \in Message
    <3>1. PICK n \in Nat : n = rooms[r].nextSeq - 1
      BY <1>0, RoomFacts
    <3>2. r \in RoomIds
      BY <1>0, RoomFacts
    <3>3. SnapshotOf(r) = [type |-> "snapshot", room |-> r, lastSeq |-> n]
      BY <3>1 DEF SnapshotOf
    <3> QED
      BY <3>2, <3>3 DEF Message
  <2> QED
    BY <1>1, <1>7, <2>1, <2>2 DEF HandleJoinRoom, StartsRequest
<1>8. CASE HandleLeaveRoom(c)
  <2>1. LeaveCall(rooms[Req(c).room], c).err = "none"
    BY <1>0, <1>8, LeavePlaces
  <2>2. PICK r : r = Req(c).room
    OBVIOUS
  <2>3. PICK o : o = LeaveCall(rooms[r], c)
    OBVIOUS
  <2>4. /\ currentRoom[c] = r /\ r \in RoomIds
        /\ Continue(c, DispatchOutgoing(r, o.events) \o <<To({c}, Reply("ok"))>>, "read")
    BY <1>0, <1>8, <2>1, <2>2, <2>3, RequestFields DEF HandleLeaveRoom
  <2>5. r \in DOMAIN rooms
    BY <1>0, <2>4, SessionsAssumption DEF RoomIds, Places, RoomsExist
  <2>6. o.events \in Seq(RoomEvent)
    BY <1>0, <2>3, <2>5, RoomFacts, LeaveOutcome DEF IsOutcome
  <2>7. PICK todo \in Seq(Posting) : todo = DispatchOutgoing(r, o.events)
    <3>1. DispatchOutgoing(r, o.events) \in Seq(Posting)
      BY <2>4, <2>6, DispatchType
    <3> QED
      BY <3>1, Zenon
  <2>8. PICK ok \in Seq(Posting) : ok = <<To({c}, Reply("ok"))>>
    <3>1. <<To({c}, Reply("ok"))>> \in Seq(Posting)
      BY <1>2, AnswerType
    <3> QED
      BY <3>1, Zenon
  <2>9. todo \o ok \in Seq(Posting) /\ Continue(c, todo \o ok, "read")
    BY <2>4, <2>7, <2>8, ConcatProperties
  <2>10. \E t \in Seq(Posting) : Continue(c, t, "read")
    BY <2>9, Zenon
  <2> QED
    BY <1>8, <2>10 DEF HandleLeaveRoom, StartsRequest
<1>9. CASE HandleEvent(c)
  <2>1. PICK r : r = Req(c).room
    OBVIOUS
  <2>2. currentRoom[c] = r /\ r \in RoomIds /\ Req(c).kind \in EventKinds
    BY <1>0, <1>9, <2>1, RequestFields DEF HandleEvent
  <2>3. r \in DOMAIN rooms
    BY <1>0, <2>2, SessionsAssumption DEF RoomIds, Places, RoomsExist
  <2>4. PICK o \in ApplyCall(rooms[r], c, Req(c).kind) :
          Continue(c, IF o.err = "none" THEN DispatchOutgoing(r, o.events)
                                        ELSE <<To({c}, Reply("error"))>>, "read")
    BY <1>9, <2>1 DEF HandleEvent
  <2>5. o.events \in Seq(RoomEvent)
    BY <1>0, <2>2, <2>3, RoomFacts, ApplyOutcome DEF IsOutcome
  <2>6. /\ DispatchOutgoing(r, o.events) \in Seq(Posting)
        /\ <<To({c}, Reply("error"))>> \in Seq(Posting)
    BY <1>2, <2>2, <2>5, DispatchType, AnswerType
  <2>7. \E todo \in Seq(Posting) : Continue(c, todo, "read")
    BY <2>4, <2>6, Zenon
  <2> QED
    BY <1>9, <2>7 DEF HandleEvent, StartsRequest, sessionVars
<1> QED
  BY <1>3, <1>4, <1>5, <1>6, <1>7, <1>8, <1>9

(* Every step keeps the invariant.                                         *)
LEMMA NextSessionsInv == SessionsInv /\ [Next]_vars => SessionsInv'
<1> SUFFICES ASSUME SessionsInv, [Next]_vars PROVE SessionsInv'
  OBVIOUS
<1>0. Places /\ Tokens
  BY DEF SessionsInv
<1> USE <1>0
<1>1. CASE UNCHANGED vars
  <2>1. Places'
    <3>1. UNCHANGED <<coreVars, currentRoom, since, session>>
      BY <1>1 DEF vars, sessionVars
    <3> QED
      BY <3>1, PlacesFrame
  <2>2. SessionType' /\ QueueType'
    BY <1>1 DEF Tokens, SessionType, QueueType, vars, ioVars, sessionVars
  <2>3. \A d \in Clients : Client(d)'
    BY <1>1, ClientFrame DEF Tokens, vars, ioVars, sessionVars
  <2> QED
    BY <2>1, <2>2, <2>3 DEF SessionsInv, Tokens
<1>2. ASSUME NEW c \in Clients, OnAccept(c) PROVE SessionsInv'
  <2>1. Places'
    <3>1. UNCHANGED <<coreVars, currentRoom, since>>
      BY <1>2 DEF OnAccept
    <3>2. \A d \in Clients :
            \/ session'[d] = session[d]
            \/ session[d] # "stopping" /\ session'[d] \notin {"none", "stopping"}
      BY <1>2 DEF OnAccept, Tokens, SessionType
    <3> QED
      BY <3>1, <3>2, PlacesFrame
  <2> QED
    BY <1>2, <2>1, ConnectTokens DEF SessionsInv
<1>3. ASSUME UNCHANGED <<coreVars, sessionVars>>, Tokens' PROVE SessionsInv'
  <2>1. Places'
    BY <1>3, PlacesFrame DEF sessionVars
  <2> QED
    BY <1>3, <2>1 DEF SessionsInv
<1>4. ASSUME NEW c \in Clients, Disconnect(c) PROVE SessionsInv'
  BY <1>3, <1>4, ConnectTokens DEF Disconnect
<1>5. ASSUME NEW c \in Clients, (\E req \in Request : ReadCompletes(c, req)) \/ Network(c)
      PROVE  SessionsInv'
  <2>1. UNCHANGED <<coreVars, sessionVars>>
    BY <1>5 DEF ReadCompletes, Network, ReadFails, WriteCompletes, WriteFails
  <2> QED
    BY <1>3, <1>5, <2>1, NetworkTokens
<1>6. ASSUME NEW c \in Clients, OnPosted(c) \/ OnWrite(c) PROVE SessionsInv'
  BY <1>3, <1>6, WriterTokens DEF OnPosted, OnWrite
<1>7. ASSUME NEW c \in Clients, StopAgain(c) PROVE SessionsInv'
  BY <1>3, <1>7, StopAgainTokens DEF StopAgain
<1>8. ASSUME NEW c \in Clients, StopImpl(c) PROVE SessionsInv'
  BY <1>8, StopImplTokens, StopPlaces DEF SessionsInv
<1>9. ASSUME NEW c \in Clients, Close(c) PROVE SessionsInv'
  BY <1>9, CloseTokens, ClosePlaces DEF SessionsInv
<1>10. ASSUME NEW c \in Clients,
              \/ HandleInvalid(c) \/ HandlePing(c) \/ HandleCreateRoom(c)
              \/ HandleRefused(c) \/ HandleJoinRoom(c) \/ HandleLeaveRoom(c)
              \/ HandleEvent(c)
       PROVE  SessionsInv'
  <2>1. Tokens'
    <3>1. PICK todo \in Seq(Posting) : Continue(c, todo, "read")
      BY <1>10, RequestPosts
    <3>2. Starts(c, "read") /\ UNCHANGED <<session, registry, ioVars, broken, lines>>
      BY <1>10, RequestPosts
    <3> QED
      BY <3>1, <3>2, RequestTokens
  <2>2. CASE HandleInvalid(c) \/ HandlePing(c) \/ HandleRefused(c)
    BY <1>3, <2>1, <2>2 DEF HandleInvalid, HandlePing, HandleRefused
  <2>3. CASE HandleCreateRoom(c) \/ HandleJoinRoom(c) \/ HandleLeaveRoom(c) \/ HandleEvent(c)
    BY <2>1, <2>3, CreatePlaces, JoinPlaces, LeavePlaces, EventPlaces DEF SessionsInv
  <2> QED
    BY <1>10, <2>2, <2>3
<1>11. ASSUME NEW c \in Clients, Post(c) PROVE SessionsInv'
  BY <1>3, <1>11, PostTokens DEF Post
<1>12. ASSUME NEW c \in Clients, ReadNext(c) PROVE SessionsInv'
  BY <1>3, <1>12, ReadNextTokens DEF ReadNext
<1>13. CASE Next
  <2>1. PICK c \in Clients :
          \/ OnAccept(c) \/ Disconnect(c)
          \/ \E req \in Request : ReadCompletes(c, req)
          \/ Network(c)
          \/ Handler(c)
    BY <1>13 DEF Next
  <2>2. CASE Handler(c)
    BY <1>6, <1>7, <1>8, <1>9, <1>10, <1>11, <1>12, <2>2 DEF Handler
  <2> QED
    BY <1>2, <1>4, <1>5, <2>1, <2>2
<1> QED
  BY <1>1, <1>13

(* In every reachable state the sessions' tokens and places are in order.  *)
THEOREM SessionsInvariant == Spec => []SessionsInv
BY InitSessionsInv, NextSessionsInv, PTL DEF Spec

(* Types are kept, for every number of connections, rooms and lines: each  *)
(* session has at most one async_read_until and one async_write            *)
(* outstanding, and nextSeq_ of a room counts the events it has made.      *)
THEOREM TypeCorrect == Spec => []TypeOK
<1>1. SessionsInv => TypeOK
  <2> SUFFICES ASSUME SessionsInv PROVE TypeOK
    OBVIOUS
  <2>1. Places /\ SessionType
    BY DEF SessionsInv, Tokens
  <2>2. \A r \in DOMAIN rooms : r \in RoomIds
    BY <2>1, RoomFacts
  <2> QED
    BY <2>1, <2>2 DEF TypeOK, Places, CoreType, PlaceType, RoomType, SessionType
<1> QED
  BY <1>1, SessionsInvariant, PTL

(* The core and the sessions agree on where every client is, whatever      *)
(* joins, leaves, errors and disconnections interleave: handleJoinRoom,    *)
(* handleLeaveRoom and stopImpl change both records or none.  That a       *)
(* stopped session is in no room does not follow, and is not true          *)
(* (DisconnectedLeaves).                                                   *)
THEOREM RoomsCorrect == Spec => []RoomsAgree
<1>1. SessionsInv => RoomsAgree
  BY DEF SessionsInv, Places
<1> QED
  BY <1>1, SessionsInvariant, PTL

(* deliver() and onWrite() keep exactly one async_write under way as long  *)
(* as there is something to write and the session is open, however the     *)
(* messages posted to it and the completions interleave.                   *)
THEOREM WritesCorrect == Spec => []OneWrite
<1>1. SessionsInv => OneWrite
  <2> SUFFICES ASSUME SessionsInv, NEW c \in Clients
               PROVE  LET completed == Count(strand[c],
                                             LAMBDA h : h.h \in {"written", "writeError"})
                          underWay == writes[c] + completed
                      IN  /\ underWay <= 1
                          /\ underWay = 1 => writeQueue[c] # <<>>
                          /\ session[c] = "open" /\ writeQueue[c] # <<>> => underWay = 1
    BY DEF OneWrite
  <2>1. WriteToken(c)
    BY DEF SessionsInv, Tokens, Client
  <2> QED
    BY <2>1 DEF WriteToken, QueuedWrites, Marked, WriteEnds, Count
<1> QED
  BY <1>1, SessionsInvariant, PTL

=============================================================================
