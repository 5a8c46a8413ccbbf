----------------------- MODULE CorePersistenceProofs ------------------------
(***************************************************************************)
(* The safety of CorePersistence: what is in the table, for every set of   *)
(* handlers and rooms, every number of rows kept and every bound.          *)
(*                                                                         *)
(* That a row is true of its board (SnapshotsTrue) says nothing of the     *)
(* snapshot while it travels, so it is not inductive; CoreInv says the     *)
(* same of the handler's hands, of the queue and of the rows, and that a   *)
(* handler takes a snapshot only of a room that has had an event.          *)
(*                                                                         *)
(* That the newest snapshot is never pruned rests on three facts.  A       *)
(* snapshot pushed after a newer one of its room was in the hands of its   *)
(* handler when the newer one was taken, a handler has one at a time and   *)
(* no more handlers are at work than there are threads (FewAtWork): so     *)
(* fewer than IoThreads come after the newest (FewOvertaken).  They are    *)
(* saved in the order of the pushes (SavedInOrder).  And unless the clock  *)
(* was set back, a row is deleted only when as many rows as are kept were  *)
(* saved after it, in a later millisecond or in the same one (TableInv).   *)
(* That the last state of an empty room is saved rests, in addition, on    *)
(* its being in some handler's hands or pushed (LastInv).                  *)
(***************************************************************************)
EXTENDS CorePersistence, SnapshotWriterProofs, WellFoundedInduction

(* What a snapshot says is what its room's board was, at its last_seq.     *)
IsTrue(at, s) ==
  /\ s.room \in Rooms /\ s.lastSeq \in DOMAIN at[s.room]
  /\ s.strokes = at[s.room][s.lastSeq]

(* The board of a room, and its past, since the server was started.        *)
BoardOk(r) ==
  /\ boardAt[r] \in Seq(Boards) /\ board[r] \in Boards
  /\ rooms[r].nextSeq = Len(boardAt[r]) + 1
  /\ board[r].run = crashes
  /\ boardAt[r] # <<>> => board[r] = boardAt[r][Len(boardAt[r])]
  /\ \A i \in DOMAIN boardAt[r] : boardAt[r][i].run = crashes

(* A handler asks for a snapshot only after an event.                      *)
CallOk(t) ==
  \/ call[t] = NoCall
  \/ /\ pc[t] = "idle" /\ call[t].at \in {"count", "snapshot"}
     /\ call[t].room \in Rooms /\ boardAt[call[t].room] # <<>>
  \/ /\ pc[t] = "idle" /\ call[t].at = "enqueue"
     /\ call[t].snap \in PersistedBoardSnapshot /\ IsTrue(boardAt, call[t].snap)

CoreInv ==
  /\ DOMAIN rooms = Rooms /\ DOMAIN board = Rooms /\ DOMAIN boardAt = Rooms
  /\ DOMAIN call = Threads
  /\ crashes \in 0 .. MaxCrashes
  /\ \A r \in Rooms : BoardOk(r)
  /\ \A t \in Threads : CallOk(t) /\ (pc[t] = "push" => IsTrue(boardAt, arg[t]))
  /\ \A i \in DOMAIN pushed : IsTrue(boardAt, pushed[i])
  /\ \A x \in everSaved :
       /\ x.snap.strokes.run \in 0 .. crashes
       /\ x.snap.strokes.run = crashes => IsTrue(boardAt, x.snap)

(* The snapshot a handler has in hand, if any.                             *)
Holds(t) == pc[t] = "push" \/ call[t].at = "enqueue"
Held(t) == IF pc[t] = "push" THEN arg[t] ELSE call[t].snap

Older(s, than) == s.room = than.room /\ s.lastSeq < than.lastSeq

Overtaken(i) == {j \in DOMAIN pushed : i < j /\ Older(pushed[j], pushed[i])}
Overtaking(i) == {t \in Threads : Holds(t) /\ Older(Held(t), pushed[i])}

(* Each handler at work has a thread.                                      *)
FewAtWork == Cardinality(AtWork) <= IoThreads

(* Fewer snapshots than there are threads are pushed after a newer one.    *)
FewOvertaken ==
  \A i \in DOMAIN pushed :
    Cardinality(Overtaken(i)) + Cardinality(Overtaking(i)) < IoThreads

(* How many snapshots of this run were saved, if no statement failed, and  *)
(* the last id before them.                                                *)
Saved == Len(handled) + (IF worker \in {"prune", "count"} THEN 1 ELSE 0)
LastBefore == nextId - 1 - Saved

(* The row with id before + p holds the p-th snapshot pushed in this run;  *)
(* those with smaller ids were written by earlier runs.                    *)
InOrder(before, n, ps, S, run) ==
  /\ before \in Nat
  /\ \A p \in 1 .. n : \E x \in S : x.id = before + p
  /\ \A x \in S : IF x.id <= before THEN x.snap.strokes.run < run
                  ELSE x.snap = ps[x.id - before]

SavedInOrder ==
  failures = 0 => InOrder(LastBefore, Saved, pushed, everSaved, crashes)

SavedLater(S, x) == {y \in S : y.snap.room = x.snap.room /\ x.id < y.id}

(* Unless the clock was set back, a row is deleted only when as many rows  *)
(* as are kept were saved after it.                                        *)
TableInv ==
  /\ IsFiniteSet(everSaved)
  /\ \A x \in everSaved : x.id \in 1 .. nextId - 1
  /\ IdsOnce
  /\ \A x \in everSaved \ rows :
       TimesInOrder(x.snap.room) => Cardinality(SavedLater(everSaved, x)) >= KeepLatest

(* The last state of a room that everybody left is on its way.             *)
LastOnItsWay(r) ==
  rooms[r].members = {} /\ boardAt[r] # <<>> =>
    \/ \E t \in Threads : call[t].at \in {"count", "snapshot"} /\ call[t].room = r
    \/ \E t \in Threads : /\ Holds(t) /\ Held(t).room = r
                          /\ Held(t).lastSeq = Len(boardAt[r])
    \/ \E i \in DOMAIN pushed : /\ pushed[i].room = r
                                /\ pushed[i].lastSeq = Len(boardAt[r])

LastInv == \A r \in Rooms : LastOnItsWay(r)

-----------------------------------------------------------------------------
(* Numbers and sequences.                                                  *)

(* A bounded set of numbers has a largest one.                             *)
LEMMA LargestExists ==
  ASSUME NEW n \in Nat, NEW S, S \subseteq 0 .. n, S # {}
  PROVE  \E k \in S : \A j \in S : j <= k
<1> DEFINE T == {m \in Nat : n - m \in S}
<1>1. T \subseteq Nat /\ \A x \in S : x \in 0 .. n /\ n - x \in T
  OBVIOUS
<1>2. PICK R : R = {ss \in Nat \X Nat : ss[1] < ss[2]}
  OBVIOUS
<1>3. IsWellFoundedOn(R, Nat)
  BY <1>2, NatLessThanWellFounded, Zenon DEF OpToRel
<1>4. PICK m \in T : \A y \in T : ~(<<y, m>> \in R)
  <2>1. T # {}
    BY <1>1
  <2> HIDE DEF T
  <2> QED
    BY <1>1, <1>3, <2>1, WFMin
<1>5. \A x, y \in Nat : x < y => <<x, y>> \in R
  BY <1>2
<1>6. \A y \in T : ~(y < m)
  BY <1>1, <1>4, <1>5
<1>7. m \in Nat /\ n - m \in S
  OBVIOUS
<1>8. ASSUME NEW j \in S PROVE j <= n - m
  <2>1. ~(n - j < m) /\ j \in Int
    BY <1>1, <1>6
  <2> QED
    BY <1>7, <2>1
<1> QED
  BY <1>7, <1>8

(* The events of a call are numbered on from nextSeq_.                     *)
Numbered(rm, o, n) ==
  /\ DOMAIN o.events = 1 .. n /\ Len(o.events) = n
  /\ o.room.nextSeq = rm.nextSeq + n
  /\ \A i \in 1 .. n : o.events[i].seq = rm.nextSeq + i - 1

(* Accepted() numbers them so.                                             *)
LEMMA AcceptedNumbered ==
  ASSUME NEW rm, NEW c, NEW kinds, NEW n \in Nat, DOMAIN kinds = 1 .. n, Len(kinds) = n,
         NEW M, NEW D
  PROVE  Numbered(rm, Accepted(rm, c, kinds, M, D), n)
<1> DEFINE es == Events(rm, c, kinds)
           S == {es[i] : i \in 1 .. n}
<1>1. DOMAIN es = 1 .. n /\ \A i \in 1 .. n : es[i].seq = rm.nextSeq + i - 1
  BY DEF Events
<1>2. es \in [1 .. n -> S]
  BY DEF Events
<1>3. Len(es) = n
  <2> HIDE DEF es, S
  <2> QED
    BY <1>2
<1>4. PICK o : o = Accepted(rm, c, kinds, M, D)
  OBVIOUS
<1>5. o.events = es /\ o.room.nextSeq = rm.nextSeq + n
  BY <1>4 DEF Accepted
<1> HIDE DEF es
<1>6. Numbered(rm, o, n)
  BY <1>1, <1>3, <1>5 DEF Numbered
<1> QED
  BY <1>4, <1>6

(* Every outcome of join(), leave() and apply() is numbered so.            *)
LEMMA CallNumbered ==
  ASSUME NEW rm, rm.nextSeq \in Nat, NEW c, NEW o,
         \/ o = JoinCall(rm, c) \/ o = LeaveCall(rm, c)
         \/ \E kind : o \in ApplyCall(rm, c, kind)
  PROVE  \E n \in Nat : Numbered(rm, o, n)
<1>1. ASSUME NEW code, o = Refused(rm, code) PROVE Numbered(rm, o, 0)
  <2>1. o.events = <<>> /\ o.room = rm
    BY <1>1 DEF Refused
  <2> QED
    BY <2>1 DEF Numbered
<1>2. ASSUME NEW n \in Nat, NEW kinds, DOMAIN kinds = 1 .. n, Len(kinds) = n,
             NEW M, NEW D, o = Accepted(rm, c, kinds, M, D)
      PROVE  Numbered(rm, o, n)
  BY <1>2, AcceptedNumbered
<1>3. DOMAIN <<>> = 1 .. 0 /\ Len(<<>>) = 0
  OBVIOUS
<1>4. \A k : DOMAIN <<k>> = 1 .. 1 /\ Len(<<k>>) = 1
  OBVIOUS
<1>5. \A k, l : DOMAIN <<k, l>> = 1 .. 2 /\ Len(<<k, l>>) = 2
  OBVIOUS
<1>6. CASE o = JoinCall(rm, c)
  BY <1>2, <1>3, <1>6 DEF JoinCall
<1>7. CASE o = LeaveCall(rm, c)
  <2>1. CASE c \notin rm.members
    BY <1>1, <1>7, <2>1 DEF LeaveCall
  <2>2. CASE c \in rm.members /\ c \in rm.drawing
    <3>1. o = Accepted(rm, c, <<"StrokeEnd", "MemberLeft">>, rm.members \ {c}, rm.drawing \ {c})
      BY <1>7, <2>2 DEF LeaveCall
    <3> QED
      BY <1>2, <1>5, <3>1
  <2>3. CASE c \in rm.members /\ c \notin rm.drawing
    <3>1. o = Accepted(rm, c, <<"MemberLeft">>, rm.members \ {c}, rm.drawing \ {c})
      BY <1>7, <2>3 DEF LeaveCall
    <3> QED
      BY <1>2, <1>4, <3>1
  <2> QED
    BY <2>1, <2>2, <2>3
<1>8. ASSUME NEW kind, o \in ApplyCall(rm, c, kind) PROVE \E n \in Nat : Numbered(rm, o, n)
  <2>1. \/ \E code : o = Refused(rm, code)
        \/ o = Accepted(rm, c, <<kind>>, rm.members, DrawingAfter(rm, c, kind))
        \/ o = Accepted(rm, c, <<>>, rm.members, rm.drawing)
    BY <1>8 DEF ApplyCall
  <2>2. CASE \E code : o = Refused(rm, code)
    BY <1>1, <2>2
  <2>3. CASE o = Accepted(rm, c, <<kind>>, rm.members, DrawingAfter(rm, c, kind))
    BY <1>2, <1>4, <2>3
  <2>4. CASE o = Accepted(rm, c, <<>>, rm.members, rm.drawing)
    BY <1>2, <1>3, <2>4
  <2> QED
    BY <2>1, <2>2, <2>3, <2>4
<1> QED
  BY <1>6, <1>7, <1>8

-----------------------------------------------------------------------------
(* A call on a room: the past of the boards is extended, not changed.      *)
Extended(at2, at1) ==
  \A r \in Rooms : \A i \in DOMAIN at1[r] : i \in DOMAIN at2[r] /\ at2[r][i] = at1[r][i]

(* A snapshot that was true of the past still is.                          *)
LEMMA StillTrue ==
  ASSUME NEW at1, NEW at2, Extended(at2, at1), NEW s, IsTrue(at1, s)
  PROVE  IsTrue(at2, s)
BY DEF Extended, IsTrue

(* The effect of a call that made n events in room r.                      *)
BoardUpdated(r, n) ==
  /\ DOMAIN rooms' = Rooms /\ DOMAIN board' = Rooms /\ DOMAIN boardAt' = Rooms
  /\ \A x \in Rooms : BoardOk(x)'
  /\ Extended(boardAt', boardAt)
  /\ Len(boardAt'[r]) = Len(boardAt[r]) + n
  /\ \A x \in Rooms : x # r => boardAt'[x] = boardAt[x] /\ rooms'[x] = rooms[x]

(* It is what Update does.                                                 *)
LEMMA UpdatedBoard ==
  ASSUME CoreInv, NEW r \in Rooms, NEW o, NEW n \in Nat, Numbered(rooms[r], o, n),
         Update(r, o), crashes' = crashes
  PROVE  BoardUpdated(r, n)
<1> DEFINE changed(i) == {k \in 1 .. i : ChangesStrokes(o.events[k].kind)}
           after(i) == IF changed(i) = {} THEN board[r]
                       ELSE Version(o.events[CHOOSE k \in changed(i) :
                                               \A j \in changed(i) : j <= k].seq)
           f == [i \in 1 .. n |-> after(i)]
<1>1. /\ o.room.nextSeq <= MaxSeq + 1
      /\ rooms' = [rooms EXCEPT ![r] = o.room]
      /\ board' = [board EXCEPT ![r] = after(n)]
      /\ boardAt' = [boardAt EXCEPT ![r] = @ \o f]
  <2>1. Len(o.events) = n
    BY DEF Numbered
  <2> QED
    BY <2>1 DEF Update
<1>2. /\ boardAt[r] \in Seq(Boards) /\ board[r] \in Boards /\ board[r].run = crashes
      /\ crashes \in 0 .. MaxCrashes
      /\ rooms[r].nextSeq = Len(boardAt[r]) + 1
      /\ boardAt[r] # <<>> => board[r] = boardAt[r][Len(boardAt[r])]
      /\ \A i \in DOMAIN boardAt[r] : boardAt[r][i].run = crashes
  BY DEF CoreInv, BoardOk
<1>3. PICK N \in Nat : N = Len(boardAt[r])
  BY <1>2, LenProperties
<1>4. ASSUME NEW i \in 0 .. n PROVE after(i) \in Boards /\ after(i).run = crashes
  <2>1. CASE changed(i) = {}
    BY <1>2, <2>1
  <2>2. CASE changed(i) # {}
    <3>1. changed(i) \subseteq 0 .. n
      OBVIOUS
    <3>2. \E k \in changed(i) : \A j \in changed(i) : j <= k
      <4> HIDE DEF changed
      <4> QED
        BY <2>2, <3>1, LargestExists
    <3>3. PICK k : k = CHOOSE l \in changed(i) : \A j \in changed(i) : j <= l
      OBVIOUS
    <3>4. k \in changed(i)
      <4> HIDE DEF changed
      <4> QED
        BY <3>2, <3>3
    <3>5. k \in 1 .. n
      BY <3>4
    <3>6. o.events[k].seq = N + 1 + k - 1 /\ o.room.nextSeq = N + 1 + n
      BY <1>2, <1>3, <3>5 DEF Numbered
    <3>7. o.events[k].seq \in 0 .. MaxSeq
      BY <1>1, <3>5, <3>6, CoreAssumption
    <3>8. after(i) = [run |-> crashes, seq |-> o.events[k].seq]
      BY <2>2, <3>3 DEF Version
    <3> HIDE DEF after
    <3> QED
      BY <1>2, <3>7, <3>8, CoreAssumption
  <2> QED
    BY <2>1, <2>2
<1>5. f \in [1 .. n -> Boards] /\ \A i \in 1 .. n : f[i] = after(i)
  <2> HIDE DEF after
  <2> QED
    BY <1>4
<1>6. n = 0 => after(n) = board[r]
  OBVIOUS
<1> HIDE DEF after, f
<1>7. f \in Seq(Boards) /\ Len(f) = n
  BY <1>5
<1>8. PICK u \in Seq(Boards) : u = boardAt[r] \o f
  <2>1. boardAt[r] \o f \in Seq(Boards)
    BY <1>2, <1>7, ConcatProperties
  <2> QED
    BY <2>1, Zenon
<1>9. /\ Len(u) = N + n
      /\ \A i \in 1 .. N + n : u[i] = IF i <= N THEN boardAt[r][i] ELSE f[i - N]
  BY <1>2, <1>3, <1>7, <1>8, ConcatProperties
<1>10. DOMAIN u = 1 .. N + n /\ DOMAIN boardAt[r] = 1 .. N
  BY <1>2, <1>3, <1>9, LenProperties
<1>11. \A i \in 1 .. N : i \in DOMAIN u /\ u[i] = boardAt[r][i]
  BY <1>9, <1>10
<1>12. /\ DOMAIN rooms' = Rooms /\ DOMAIN board' = Rooms /\ DOMAIN boardAt' = Rooms
       /\ rooms'[r] = o.room /\ board'[r] = after(n) /\ boardAt'[r] = u
       /\ \A x \in Rooms : x # r => /\ rooms'[x] = rooms[x] /\ board'[x] = board[x]
                                    /\ boardAt'[x] = boardAt[x]
  BY <1>1, <1>8 DEF CoreInv
<1>13. BoardOk(r)'
  <2>1. after(n) \in Boards /\ after(n).run = crashes
    BY <1>4
  <2>2. o.room.nextSeq = N + n + 1
    <3>1. o.room.nextSeq = N + 1 + n
      BY <1>2, <1>3 DEF Numbered
    <3> QED
      BY <3>1
  <2>3. ASSUME u # <<>> PROVE after(n) = u[N + n]
    <3>1. CASE n = 0
      <4>1. N # 0
        BY <1>9, <2>3, <3>1, EmptySeq
      <4>2. N + n = N /\ N \in 1 .. N
        BY <3>1, <4>1
      <4>3. boardAt[r] # <<>>
        BY <1>3, <4>1
      <4> QED
        BY <1>2, <1>3, <1>6, <1>11, <3>1, <4>2, <4>3
    <3>2. CASE n # 0
      <4>1. N + n \in 1 .. N + n /\ ~(N + n <= N) /\ N + n - N = n /\ n \in 1 .. n
        BY <3>2
      <4> QED
        BY <1>5, <1>9, <4>1
    <3> QED
      BY <3>1, <3>2
  <2>4. ASSUME NEW i \in 1 .. N + n PROVE u[i].run = crashes
    <3>1. CASE i <= N
      <4>1. i \in 1 .. N
        BY <3>1
      <4> QED
        BY <1>2, <1>10, <1>11, <4>1
    <3>2. CASE ~(i <= N)
      <4>1. i - N \in 1 .. n /\ i - N \in 0 .. n
        BY <3>2
      <4>2. u[i] = after(i - N)
        BY <1>5, <1>9, <3>2, <4>1
      <4> QED
        BY <1>4, <4>1, <4>2
    <3> QED
      BY <3>1, <3>2
  <2> QED
    BY <1>9, <1>10, <1>12, <2>1, <2>2, <2>3, <2>4 DEF BoardOk
<1>14. \A x \in Rooms : BoardOk(x)'
  <2>1. ASSUME NEW x \in Rooms, x # r PROVE BoardOk(x)'
    <3>1. BoardOk(x)
      BY DEF CoreInv
    <3> QED
      BY <1>12, <2>1, <3>1 DEF BoardOk
  <2> QED
    BY <1>13, <2>1
<1>15. Extended(boardAt', boardAt)
  BY <1>10, <1>11, <1>12 DEF Extended
<1> QED
  BY <1>3, <1>9, <1>12, <1>14, <1>15 DEF BoardUpdated

(* A leave, and every event but a cursor move, is in the past afterwards.  *)
LEMMA CallEventful ==
  ASSUME NEW rm, NEW c, c \in rm.members, NEW o, NEW n \in Nat, Numbered(rm, o, n),
         \/ o = LeaveCall(rm, c)
         \/ \E kind : o \in ApplyCall(rm, c, kind) /\ o.err = "none" /\ kind # "CursorMove"
  PROVE  n # 0
<1>1. ASSUME NEW kinds, NEW M, NEW D, o = Accepted(rm, c, kinds, M, D), 1 \in DOMAIN kinds
      PROVE  n # 0
  <2>1. 1 \in DOMAIN o.events
    BY <1>1 DEF Accepted, Events
  <2> QED
    BY <2>1 DEF Numbered
<1>2. CASE o = LeaveCall(rm, c)
  <2>1. CASE c \in rm.drawing
    <3>1. o = Accepted(rm, c, <<"StrokeEnd", "MemberLeft">>, rm.members \ {c}, rm.drawing \ {c})
      BY <1>2, <2>1 DEF LeaveCall
    <3> QED
      BY <1>1, <3>1
  <2>2. CASE c \notin rm.drawing
    <3>1. o = Accepted(rm, c, <<"MemberLeft">>, rm.members \ {c}, rm.drawing \ {c})
      BY <1>2, <2>2 DEF LeaveCall
    <3> QED
      BY <1>1, <3>1
  <2> QED
    BY <2>1, <2>2
<1>3. ASSUME NEW kind, o \in ApplyCall(rm, c, kind), o.err = "none", kind # "CursorMove"
      PROVE  n # 0
  <2>1. o = Refused(rm, "ProtocolViolation")
        \/ o = Accepted(rm, c, <<kind>>, rm.members, DrawingAfter(rm, c, kind))
    BY <1>3 DEF ApplyCall
  <2>2. o # Refused(rm, "ProtocolViolation")
    BY <1>3 DEF Refused
  <2> QED
    BY <1>1, <2>1, <2>2
<1> QED
  BY <1>2, <1>3

(* What a handler was about to do is still right after a call.             *)
LEMMA CallStillOk ==
  ASSUME CoreInv, Extended(boardAt', boardAt), NEW t \in Threads,
         call'[t] = call[t], pc'[t] = pc[t]
  PROVE  CallOk(t)'
<1>1. CallOk(t)
  BY DEF CoreInv
<1>2. ASSUME NEW r \in Rooms, boardAt[r] # <<>> PROVE boardAt'[r] # <<>>
  <2>1. boardAt[r] \in Seq(Boards)
    BY DEF CoreInv, BoardOk
  <2>2. 1 \in DOMAIN boardAt[r]
    BY <1>2, <2>1
  <2>3. 1 \in DOMAIN boardAt'[r]
    BY <2>2 DEF Extended
  <2> QED
    BY <2>3
<1>3. ASSUME NEW s, IsTrue(boardAt, s) PROVE IsTrue(boardAt', s)
  BY <1>3, StillTrue
<1> QED
  BY <1>1, <1>2, <1>3 DEF CallOk

(* The handler of t called the room r, and is now where call' says.        *)
LEMMA CallCore ==
  ASSUME CoreInv, NEW t \in Threads, NEW r \in Rooms, NEW n, BoardUpdated(r, n),
         UNCHANGED <<writerVars, crashes>>, DOMAIN call' = Threads,
         \A u \in Threads : u # t => call'[u] = call[u], CallOk(t)'
  PROVE  CoreInv'
<1>1. Extended(boardAt', boardAt)
  BY DEF BoardUpdated
<1>2. ASSUME NEW s, IsTrue(boardAt, s) PROVE IsTrue(boardAt', s)
  BY <1>1, <1>2, StillTrue
<1>3. pc' = pc /\ arg' = arg /\ pushed' = pushed /\ everSaved' = everSaved /\ crashes' = crashes
  BY DEF writerVars, queueVars, storeVars
<1>4. \A u \in Threads : CallOk(u)'
  BY <1>1, <1>3, CallStillOk
<1>5. \A u \in Threads : pc'[u] = "push" => IsTrue(boardAt', arg'[u])
  BY <1>2, <1>3 DEF CoreInv
<1>6. \A i \in DOMAIN pushed' : IsTrue(boardAt', pushed'[i])
  BY <1>2, <1>3 DEF CoreInv
<1>7. \A x \in everSaved' :
        /\ x.snap.strokes.run \in 0 .. crashes'
        /\ x.snap.strokes.run = crashes' => IsTrue(boardAt', x.snap)
  BY <1>2, <1>3 DEF CoreInv
<1> QED
  BY <1>3, <1>4, <1>5, <1>6, <1>7 DEF CoreInv, BoardUpdated

(* The three calls.                                                        *)
LEMMA CoreCallUpdates ==
  ASSUME CoreInv, NEW t \in Threads, CoreCall(t)
  PROVE  /\ CoreInv'
         /\ \E r \in Rooms, n \in Nat :
              /\ BoardUpdated(r, n)
              /\ \/ JoinRoom(t, r)
                 \/ \E kind \in Kinds : HandleEvent(t, r, kind)
                 \/ LeaveRoom(t, r)
<1>1. PICK r \in Rooms : \/ JoinRoom(t, r) \/ LeaveRoom(t, r)
                         \/ \E kind \in Kinds : HandleEvent(t, r, kind)
  BY DEF CoreCall
<1>2. PICK rm : rm = rooms[r] /\ rm.nextSeq \in Nat
  <2>1. boardAt[r] \in Seq(Boards) /\ rooms[r].nextSeq = Len(boardAt[r]) + 1
    BY DEF CoreInv, BoardOk
  <2> QED
    BY <2>1, LenProperties
<1>3. /\ call[t] = NoCall /\ pc[t] = "idle" /\ UNCHANGED <<writerVars, crashes>>
      /\ crashes' = crashes /\ pc' = pc
  BY <1>1 DEF JoinRoom, LeaveRoom, HandleEvent, Free, writerVars
<1>4. DOMAIN call = Threads
  BY DEF CoreInv
<1>5. PICK o :
        /\ Update(r, o)
        /\ \/ o = JoinCall(rm, t) /\ call' = call
           \/ o = LeaveCall(rm, t) /\ t \in rm.members /\ Goes(t, "count", r)
           \/ \E kind : /\ o \in ApplyCall(rm, t, kind) /\ t \in rm.members
                        /\ \/ call' = call
                           \/ /\ o.err = "none" /\ kind # "CursorMove"
                              /\ Goes(t, "snapshot", r)
  <2>1. CASE JoinRoom(t, r)
    BY <1>2, <2>1 DEF JoinRoom
  <2>2. CASE LeaveRoom(t, r)
    BY <1>2, <2>2 DEF LeaveRoom
  <2>3. CASE \E kind \in Kinds : HandleEvent(t, r, kind)
    BY <1>2, <2>3 DEF HandleEvent, ShouldSave
  <2> QED
    BY <1>1, <2>1, <2>2, <2>3
<1>6. PICK n \in Nat : Numbered(rm, o, n)
  BY <1>2, <1>5, CallNumbered
<1>7. BoardUpdated(r, n)
  BY <1>2, <1>3, <1>5, <1>6, UpdatedBoard
<1>8. CASE call' = call
  <2>1. CallOk(t)'
    BY <1>3, <1>8 DEF CallOk
  <2>2. CoreInv'
    BY <1>3, <1>4, <1>7, <1>8, <2>1, CallCore
  <2> QED
    BY <1>1, <1>7, <2>2
<1>9. ASSUME NEW at \in {"count", "snapshot"}, Goes(t, at, r), n # 0
      PROVE  CoreInv'
  <2>1. /\ DOMAIN call' = Threads /\ call'[t] = [at |-> at, room |-> r]
        /\ \A u \in Threads : u # t => call'[u] = call[u]
    BY <1>4, <1>9 DEF Goes
  <2>2. boardAt'[r] # <<>>
    <3>1. PICK N \in Nat : N = Len(boardAt[r])
      BY LenProperties DEF CoreInv, BoardOk
    <3>2. Len(boardAt'[r]) = N + n /\ N + n # 0
      BY <1>7, <1>9, <3>1 DEF BoardUpdated
    <3> QED
      BY <3>2
  <2>3. CallOk(t)'
    BY <1>3, <2>1, <2>2 DEF CallOk
  <2> QED
    BY <1>3, <1>7, <2>1, <2>3, CallCore
<1>10. CASE call' # call
  <2>1. n # 0
    BY <1>5, <1>6, <1>10, CallEventful
  <2>2. CoreInv'
    BY <1>5, <1>9, <1>10, <2>1
  <2> QED
    BY <1>1, <1>7, <2>2
<1> QED
  BY <1>8, <1>10

-----------------------------------------------------------------------------
(* The other steps of a handler.                                           *)

(* A step that leaves the rooms alone.                                     *)
LEMMA BoardsStay ==
  ASSUME CoreInv, UNCHANGED <<rooms, board, boardAt, crashes>>
  PROVE  /\ DOMAIN rooms' = Rooms /\ DOMAIN board' = Rooms /\ DOMAIN boardAt' = Rooms
         /\ \A x \in Rooms : BoardOk(x)'
         /\ Extended(boardAt', boardAt)
BY DEF CoreInv, BoardOk, Extended

(* The snapshot taken now is the newest of its room.                       *)
LEMMA SnapshotTaken ==
  ASSUME CoreInv, NEW t \in Threads, call[t].at = "snapshot", NEW s,
         s = [room |-> call[t].room, lastSeq |-> rooms[call[t].room].nextSeq - 1,
              strokes |-> board[call[t].room]]
  PROVE  /\ s \in PersistedBoardSnapshot /\ IsTrue(boardAt, s)
         /\ s.lastSeq = Len(boardAt[s.room]) /\ s.room = call[t].room
         /\ pc[t] = "idle"
<1>1. PICK r \in Rooms : r = call[t].room /\ boardAt[r] # <<>> /\ pc[t] = "idle"
  BY DEF CoreInv, CallOk, NoCall
<1>2. /\ boardAt[r] \in Seq(Boards) /\ board[r] \in Boards
      /\ rooms[r].nextSeq = Len(boardAt[r]) + 1
      /\ board[r] = boardAt[r][Len(boardAt[r])]
  BY <1>1 DEF CoreInv, BoardOk
<1>3. PICK N \in Nat : N = Len(boardAt[r]) /\ DOMAIN boardAt[r] = 1 .. N
  BY <1>2, LenProperties
<1>4. N \in 1 .. N
  BY <1>1, <1>2, <1>3, EmptySeq
<1>5. rooms[r].nextSeq - 1 = N
  BY <1>2, <1>3
<1>6. s.room = r /\ s.lastSeq = N /\ s.strokes = board[r]
  BY <1>1, <1>5
<1>7. s \in PersistedBoardSnapshot
  BY <1>1, <1>2, <1>5 DEF PersistedBoardSnapshot
<1> QED
  BY <1>1, <1>2, <1>3, <1>4, <1>6, <1>7 DEF IsTrue

(* The steps of a handler after the call on the room.                      *)
LEMMA StepCore ==
  ASSUME CoreInv, WriterInv, NEW t \in Threads, CoreStep(t)
  PROVE  CoreInv'
<1>0. /\ DOMAIN call = Threads /\ DOMAIN pc = Threads /\ DOMAIN arg = Threads
  BY DEF CoreInv, WriterInv, WriterTypeOK
<1>1. UNCHANGED <<rooms, board, boardAt, crashes>>
  BY DEF CoreStep, MemberCount, MakePersistedSnapshot, EnqueueSnapshot
<1>2. /\ DOMAIN rooms' = Rooms /\ DOMAIN board' = Rooms /\ DOMAIN boardAt' = Rooms
      /\ \A x \in Rooms : BoardOk(x)'
      /\ Extended(boardAt', boardAt)
  BY <1>1, BoardsStay
<1>3. ASSUME UNCHANGED writerVars, NEW c, call' = [call EXCEPT ![t] = c],
             call'[t] = c => CallOk(t)'
      PROVE  CoreInv'
  <2>1. DOMAIN call' = Threads /\ call'[t] = c
        /\ \A u \in Threads : u # t => call'[u] = call[u]
    BY <1>0, <1>3
  <2>2. pc' = pc /\ arg' = arg /\ pushed' = pushed /\ everSaved' = everSaved
    BY <1>3 DEF writerVars, queueVars, storeVars
  <2>3. \A u \in Threads : CallOk(u)'
    BY <1>2, <1>3, <2>1, <2>2, CallStillOk
  <2> QED
    BY <1>1, <1>2, <2>1, <2>2, <2>3 DEF CoreInv
<1>4. CASE MemberCount(t)
  <2>1. UNCHANGED writerVars /\ call[t].at = "count"
    BY <1>4 DEF MemberCount
  <2>2. PICK r \in Rooms : r = call[t].room /\ boardAt[r] # <<>> /\ pc[t] = "idle"
    BY <2>1 DEF CoreInv, CallOk, NoCall
  <2>3. PICK c : /\ call' = [call EXCEPT ![t] = c]
                 /\ c = NoCall \/ c = [at |-> "snapshot", room |-> r]
    BY <1>4, <2>2 DEF MemberCount, Goes, Returns
  <2>4. pc' = pc
    BY <2>1 DEF writerVars
  <2>5. call'[t] = c => CallOk(t)'
    BY <1>1, <2>2, <2>3, <2>4 DEF CallOk
  <2> QED
    BY <1>3, <2>1, <2>3, <2>5
<1>5. CASE MakePersistedSnapshot(t)
  <2>1. UNCHANGED writerVars /\ call[t].at = "snapshot"
    BY <1>5 DEF MakePersistedSnapshot
  <2>2. PICK s : s = [room |-> call[t].room, lastSeq |-> rooms[call[t].room].nextSeq - 1,
                      strokes |-> board[call[t].room]]
    OBVIOUS
  <2>3. s \in PersistedBoardSnapshot /\ IsTrue(boardAt, s) /\ pc[t] = "idle"
    BY <2>1, <2>2, SnapshotTaken
  <2>4. PICK c : /\ call' = [call EXCEPT ![t] = c]
                 /\ c = [at |-> "enqueue", room |-> call[t].room, snap |-> s]
    BY <1>5, <2>2 DEF MakePersistedSnapshot
  <2>5. pc' = pc
    BY <2>1 DEF writerVars
  <2>6. call'[t] = c => CallOk(t)'
    BY <1>1, <2>3, <2>4, <2>5 DEF CallOk
  <2> QED
    BY <1>3, <2>1, <2>4, <2>6
<1>6. CASE EnqueueSnapshot(t)
  <2>1. PICK s : s = call[t].snap /\ IsTrue(boardAt, s)
    BY <1>6 DEF EnqueueSnapshot, CoreInv, CallOk, NoCall
  <2>2. /\ pc' = [pc EXCEPT ![t] = "push"] /\ arg' = [arg EXCEPT ![t] = s]
        /\ pushed' = pushed /\ everSaved' = everSaved
        /\ call' = [call EXCEPT ![t] = NoCall]
    BY <1>6, <2>1 DEF EnqueueSnapshot, FetchAdd, Goto, Returns, storeVars
  <2>3. /\ DOMAIN call' = Threads /\ call'[t] = NoCall /\ arg'[t] = s
        /\ \A u \in Threads : u # t => /\ call'[u] = call[u] /\ pc'[u] = pc[u]
                                       /\ arg'[u] = arg[u]
    BY <1>0, <2>2
  <2>4. \A u \in Threads : CallOk(u)'
    <3>1. CallOk(t)'
      BY <2>3 DEF CallOk
    <3> QED
      BY <1>2, <2>3, <3>1, CallStillOk
  <2>5. \A u \in Threads : pc'[u] = "push" => IsTrue(boardAt', arg'[u])
    BY <1>1, <2>1, <2>3 DEF CoreInv
  <2> QED
    BY <1>1, <1>2, <2>2, <2>3, <2>4, <2>5 DEF CoreInv
<1> QED
  BY <1>4, <1>5, <1>6 DEF CoreStep

-----------------------------------------------------------------------------
(* The writer and the store.                                               *)

(* What the worker has in hand was pushed.                                 *)
LEMMA TaskPushed ==
  ASSUME WriterInv
  PROVE  /\ Len(handled) \in Nat /\ Len(pushed) \in Nat
         /\ DOMAIN pushed = 1 .. Len(pushed) /\ DOMAIN handled = 1 .. Len(handled)
         /\ Len(handled) <= Len(pushed)
         /\ \A i \in 1 .. Len(handled) : handled[i] = pushed[i]
         /\ Busy => /\ Len(handled) + 1 <= Len(pushed)
                    /\ task = pushed[Len(handled) + 1]
         /\ ~Busy /\ q = <<>> => handled = pushed
<1>1. /\ handled \in Seq(PersistedBoardSnapshot) /\ q \in Seq(PersistedBoardSnapshot)
      /\ pushed \in Seq(PersistedBoardSnapshot)
      /\ Busy => task \in PersistedBoardSnapshot
  BY DEF WriterInv, WriterTypeOK, Busy
<1>2. PICK h \in Nat, l \in Nat, n \in Nat :
        h = Len(handled) /\ l = Len(q) /\ n = Len(pushed)
        /\ DOMAIN handled = 1 .. h /\ DOMAIN pushed = 1 .. n
  BY <1>1, LenProperties
<1>3. CASE Busy
  <2>1. PICK u \in Seq(PersistedBoardSnapshot) : u = <<task>>
    <3>1. <<task>> \in Seq(PersistedBoardSnapshot)
      BY <1>1, <1>3
    <3> QED
      BY <3>1, Zenon
  <2>2. Len(u) = 1 /\ u[1] = task
    BY <2>1
  <2>3. PICK v \in Seq(PersistedBoardSnapshot) : v = handled \o u
    <3>1. handled \o u \in Seq(PersistedBoardSnapshot)
      BY <1>1, ConcatProperties
    <3> QED
      BY <3>1, Zenon
  <2>4. /\ Len(v) = h + 1
        /\ \A i \in 1 .. h + 1 : v[i] = IF i <= h THEN handled[i] ELSE u[i - h]
    <3>1. /\ Len(v) = Len(handled) + Len(u)
          /\ \A i \in 1 .. Len(handled) + Len(u) :
               v[i] = IF i <= Len(handled) THEN handled[i] ELSE u[i - Len(handled)]
      BY <1>1, <2>3, ConcatProperties
    <3> QED
      BY <1>2, <2>2, <3>1
  <2>5. pushed = v \o q
    BY <1>3, <2>1, <2>3 DEF WriterInv, QueueExact
  <2>6. /\ n = h + 1 + l
        /\ \A i \in 1 .. n : pushed[i] = IF i <= h + 1 THEN v[i] ELSE q[i - (h + 1)]
    BY <1>1, <1>2, <2>4, <2>5, ConcatProperties
  <2>7. h <= n /\ h + 1 <= n
    BY <2>6
  <2>8. ASSUME NEW i \in 1 .. h PROVE handled[i] = pushed[i]
    <3>1. i \in 1 .. n /\ i <= h + 1 /\ i \in 1 .. h + 1 /\ i <= h
      BY <2>6
    <3> QED
      BY <2>4, <2>6, <3>1
  <2>9. task = pushed[h + 1]
    <3>1. h + 1 \in 1 .. n /\ h + 1 <= h + 1 /\ ~(h + 1 <= h) /\ h + 1 - h = 1
          /\ h + 1 \in 1 .. h + 1
      BY <2>6
    <3> QED
      BY <2>2, <2>4, <2>6, <3>1
  <2> QED
    BY <1>2, <1>3, <2>7, <2>8, <2>9
<1>4. CASE ~Busy
  <2>1. pushed = handled \o <<>> \o q
    BY <1>4 DEF WriterInv, QueueExact
  <2>2. pushed = handled \o q
    BY <1>1, <2>1, ConcatEmptySeq
  <2>3. /\ n = h + l
        /\ \A i \in 1 .. n : pushed[i] = IF i <= h THEN handled[i] ELSE q[i - h]
    BY <1>1, <1>2, <2>2, ConcatProperties
  <2>4. h <= n /\ \A i \in 1 .. h : i \in 1 .. n /\ i <= h
    BY <2>3
  <2>5. \A i \in 1 .. h : handled[i] = pushed[i]
    BY <2>3, <2>4
  <2>6. q = <<>> => handled = pushed
    BY <1>1, <2>2, ConcatEmptySeq
  <2> QED
    BY <1>2, <1>4, <2>4, <2>5, <2>6
<1> QED
  BY <1>3, <1>4

(* A step of the writer that leaves the core alone.                        *)
LEMMA WriterFrame ==
  ASSUME CoreInv, UNCHANGED coreVars,
         \A t \in Threads : /\ pc[t] = "idle" => pc'[t] = "idle"
                            /\ pc'[t] = "push" => pc[t] = "push" /\ arg'[t] = arg[t],
         \A i \in DOMAIN pushed' : IsTrue(boardAt, pushed'[i]),
         \A x \in everSaved' : x \in everSaved \/ IsTrue(boardAt, x.snap)
  PROVE  CoreInv'
<1>1. /\ rooms' = rooms /\ board' = board /\ boardAt' = boardAt
      /\ call' = call /\ crashes' = crashes
  BY DEF coreVars
<1>2. \A r \in Rooms : BoardOk(r)'
  BY <1>1 DEF CoreInv, BoardOk
<1>3. \A t \in Threads : CallOk(t)'
  BY <1>1 DEF CoreInv, CallOk
<1>4. \A t \in Threads : pc'[t] = "push" => IsTrue(boardAt', arg'[t])
  BY <1>1 DEF CoreInv
<1>5. ASSUME NEW x \in everSaved', IsTrue(boardAt, x.snap)
      PROVE  x.snap.strokes.run = crashes
  BY <1>5 DEF CoreInv, BoardOk, IsTrue
<1>6. crashes \in 0 .. crashes
  BY DEF CoreInv
<1>7. ASSUME NEW x \in everSaved'
      PROVE  /\ x.snap.strokes.run \in 0 .. crashes
             /\ x.snap.strokes.run = crashes => IsTrue(boardAt, x.snap)
  <2>1. CASE x \in everSaved
    BY <2>1 DEF CoreInv
  <2>2. CASE IsTrue(boardAt, x.snap)
    BY <1>5, <1>6, <2>2
  <2> QED
    BY <2>1, <2>2
<1> QED
  BY <1>1, <1>2, <1>3, <1>4, <1>7 DEF CoreInv

(* Every step of the worker, and of enqueue() after the count.             *)
LEMMA WriterCore ==
  ASSUME CoreInv, WriterInv, UNCHANGED coreVars,
         WriterAction \/ \E t \in Threads : EnqueueStep(t)
  PROVE  CoreInv'
<1>0. /\ DOMAIN pc = Threads /\ DOMAIN arg = Threads
      /\ pushed \in Seq(PersistedBoardSnapshot)
  BY DEF WriterInv, WriterTypeOK
<1>1. \A i \in DOMAIN pushed : IsTrue(boardAt, pushed[i])
  BY DEF CoreInv
<1>2. CASE WorkerTake \/ WorkerSleep \/ WorkerExit \/ WorkerPrune \/ WorkerCatch \/ FetchSub
  <2>1. pc' = pc /\ arg' = arg /\ pushed' = pushed /\ everSaved' = everSaved
    BY <1>2 DEF WorkerTake, WorkerSleep, WorkerExit, WorkerPrune, WorkerCatch, FetchSub,
                PruneKeepLatest, queueVars, storeVars
  <2> QED
    BY <1>1, <2>1, WriterFrame
<1>3. CASE WorkerSave
  <2>1. /\ pc' = pc /\ arg' = arg /\ pushed' = pushed /\ worker = "save"
        /\ \A x \in everSaved' : x \in everSaved \/ x.snap = task
    BY <1>3 DEF WorkerSave, WorkerStep, Save, queueVars
  <2>2. IsTrue(boardAt, task)
    <3>1. Busy
      BY <2>1 DEF Busy
    <3>2. PICK h \in Nat, n \in Nat : /\ h = Len(handled) /\ n = Len(pushed)
                                      /\ DOMAIN pushed = 1 .. n
                                      /\ h + 1 <= n /\ task = pushed[h + 1]
      BY <3>1, TaskPushed
    <3>3. h + 1 \in DOMAIN pushed
      BY <3>2
    <3> QED
      BY <1>1, <3>2, <3>3
  <2> QED
    BY <1>1, <2>1, <2>2, WriterFrame
<1>4. CASE NotifyAll
  <2>1. /\ pc' = [t \in Threads |-> IF pc[t] = "parked" THEN "test" ELSE pc[t]]
        /\ arg' = arg /\ pushed' = pushed /\ everSaved' = everSaved
    BY <1>4 DEF NotifyAll, queueVars, storeVars
  <2> QED
    BY <1>1, <2>1, WriterFrame
<1>5. ASSUME NEW t \in Threads, NotifyOne(t) PROVE CoreInv'
  <2>1. /\ pc' = [pc EXCEPT ![t] = "idle"]
        /\ arg' = arg /\ pushed' = pushed /\ everSaved' = everSaved
    BY <1>5 DEF NotifyOne, Goto, queueVars, storeVars
  <2> QED
    BY <1>0, <1>1, <2>1, WriterFrame
<1>6. ASSUME NEW t \in Threads, Push(t) PROVE CoreInv'
  <2>1. /\ pc[t] = "push" /\ pc' = [pc EXCEPT ![t] = "notify"]
        /\ arg' = [arg EXCEPT ![t] = NoSnapshot]
        /\ pushed' = Append(pushed, arg[t]) /\ everSaved' = everSaved
    BY <1>6 DEF Push, Goto, storeVars
  <2>2. PICK s \in PersistedBoardSnapshot : s = arg[t] /\ IsTrue(boardAt, s)
    BY <2>1 DEF CoreInv, WriterInv, WriterTypeOK
  <2>3. \A i \in DOMAIN pushed' : IsTrue(boardAt, pushed'[i])
    <3>1. PICK n \in Nat : n = Len(pushed)
      BY <1>0, LenProperties
    <3>2. /\ DOMAIN pushed = 1 .. n /\ DOMAIN pushed' = 1 .. n + 1 /\ pushed'[n + 1] = s
          /\ \A i \in 1 .. n : pushed'[i] = pushed[i]
      BY <1>0, <2>1, <2>2, <3>1, AppendProperties, LenProperties
    <3>3. \A i \in 1 .. n + 1 : i = n + 1 \/ i \in 1 .. n
      OBVIOUS
    <3> QED
      BY <1>1, <2>2, <3>2, <3>3
  <2> QED
    BY <1>0, <2>1, <2>3, WriterFrame
<1> QED
  BY <1>2, <1>3, <1>4, <1>5, <1>6 DEF WriterAction, EnqueueStep

-----------------------------------------------------------------------------
(* A crash, and the start.                                                 *)

(* The rooms of a server just started.                                     *)
LEMMA FreshBoards ==
  ASSUME NEW c \in 0 .. MaxCrashes,
         rooms' = [r \in Rooms |-> NewRoom], crashes' = c,
         board' = [r \in Rooms |-> [run |-> c, seq |-> 0]],
         boardAt' = [r \in Rooms |-> <<>>]
  PROVE  /\ DOMAIN rooms' = Rooms /\ DOMAIN board' = Rooms /\ DOMAIN boardAt' = Rooms
         /\ \A r \in Rooms : BoardOk(r)'
<1>1. [run |-> c, seq |-> 0] \in Boards
  BY CoreAssumption
<1>2. NewRoom.nextSeq = 1
  BY DEF NewRoom
<1>3. <<>> \in Seq(Boards) /\ Len(<<>>) = 0 /\ DOMAIN <<>> = {}
  OBVIOUS
<1>4. ASSUME NEW r \in Rooms PROVE BoardOk(r)'
  <2>1. /\ rooms'[r] = NewRoom /\ board'[r] = [run |-> c, seq |-> 0]
        /\ boardAt'[r] = <<>> /\ board'[r].run = c
    OBVIOUS
  <2>2. NewRoom.nextSeq = 0 + 1
    BY <1>2
  <2> QED
    BY <1>1, <1>3, <2>1, <2>2 DEF BoardOk
<1> QED
  BY <1>4

(* What is left in the table was written by an earlier run.                *)
LEMMA CrashInv ==
  ASSUME CoreInv, WriterInv, Crash
  PROVE  WriterInv' /\ CoreInv'
<1>1. /\ crashes' = crashes + 1 /\ crashes \in Nat /\ crashes' \in 0 .. MaxCrashes
      /\ pc' = [t \in Threads |-> "idle"]
      /\ arg' = [t \in Threads |-> NoSnapshot]
      /\ pending' = 0 /\ q' = <<>> /\ stop' = FALSE
      /\ worker' = "awake" /\ task' = NoSnapshot
      /\ pushed' = <<>> /\ handled' = <<>> /\ failures' = failures
      /\ rows' = rows /\ nextId' = nextId /\ everSaved' = everSaved
      /\ call' = [t \in Threads |-> NoCall]
  BY CoreAssumption DEF Crash, CoreInv, storeVars
<1>2. WriterInv'
  <2>1. WriterTypeOK'
    <3>1. stop' \in BOOLEAN
      BY <1>1
    <3>2. StoreTypeOK'
      BY <1>1 DEF WriterInv, WriterTypeOK, StoreTypeOK
    <3>3. <<>> \in Seq(PersistedBoardSnapshot)
      OBVIOUS
    <3>4. failures' \in Nat
      BY <1>1 DEF WriterInv, WriterTypeOK
    <3> QED
      BY <1>1, <3>1, <3>2, <3>3, <3>4 DEF WriterTypeOK
  <2>2. PendingCounts'
    <3>1. {t \in Threads : pc'[t] = "push"} = {}
      BY <1>1
    <3>2. Cardinality({t \in Threads : pc'[t] = "push"}) = 0
      BY <3>1, FS_EmptySet
    <3> QED
      BY <1>1, <3>2 DEF PendingCounts, Busy
  <2>3. QueueExact' /\ NoLostWakeup' /\ StopQuiet' /\ DoneStopped'
    BY <1>1 DEF QueueExact, Busy, NoLostWakeup, StopQuiet, DoneStopped
  <2> QED
    BY <2>1, <2>2, <2>3 DEF WriterInv
<1>3. /\ DOMAIN rooms' = Rooms /\ DOMAIN board' = Rooms /\ DOMAIN boardAt' = Rooms
      /\ \A r \in Rooms : BoardOk(r)'
  BY <1>1, FreshBoards DEF Crash
<1>4. \A t \in Threads : CallOk(t)'
  BY <1>1 DEF CallOk
<1>5. \A x \in everSaved' : x.snap.strokes.run \in 0 .. crashes' /\ x.snap.strokes.run # crashes'
  BY <1>1 DEF CoreInv
<1> QED
  BY <1>1, <1>2, <1>3, <1>4, <1>5 DEF CoreInv

(* Both invariants hold at first.                                          *)
LEMMA CoreInitInv == CoreInit => WriterInv /\ CoreInv
<1> SUFFICES ASSUME CoreInit PROVE WriterInv /\ CoreInv
  OBVIOUS
<1>1. WriterInv
  BY WriterInitInv DEF CoreInit
<1>2. /\ crashes = 0 /\ 0 \in 0 .. MaxCrashes
      /\ rooms = [r \in Rooms |-> NewRoom]
      /\ board = [r \in Rooms |-> [run |-> 0, seq |-> 0]]
      /\ boardAt = [r \in Rooms |-> <<>>]
      /\ call = [t \in Threads |-> NoCall]
      /\ pc = [t \in Threads |-> "idle"] /\ pushed = <<>> /\ everSaved = {}
  BY CoreAssumption DEF CoreInit, WriterInit, StoreInit
<1>3. [run |-> 0, seq |-> 0] \in Boards
  BY CoreAssumption
<1>4. <<>> \in Seq(Boards) /\ Len(<<>>) = 0 /\ DOMAIN <<>> = {} /\ NewRoom.nextSeq = 0 + 1
  BY DEF NewRoom
<1>5. \A r \in Rooms : BoardOk(r)
  BY <1>2, <1>3, <1>4 DEF BoardOk
<1>6. \A t \in Threads : CallOk(t) /\ pc[t] # "push"
  BY <1>2 DEF CallOk
<1> QED
  BY <1>1, <1>2, <1>5, <1>6 DEF CoreInv

(* Every step of the composition keeps both invariants.                    *)
LEMMA CoreNextInv ==
  ASSUME WriterInv, CoreInv, [CoreNext]_allVars
  PROVE  WriterInv' /\ CoreInv'
<1>1. ASSUME UNCHANGED writerVars PROVE WriterInv'
  BY <1>1, WriterNextInv
<1>2. CASE Crash
  BY <1>2, CrashInv
<1>3. ASSUME NEW t \in Threads, CoreCall(t) PROVE WriterInv' /\ CoreInv'
  <2>1. UNCHANGED writerVars
    BY <1>3 DEF CoreCall, JoinRoom, LeaveRoom, HandleEvent
  <2> QED
    BY <1>1, <1>3, <2>1, CoreCallUpdates
<1>4. ASSUME NEW t \in Threads, CoreStep(t) PROVE WriterInv' /\ CoreInv'
  <2>1. CoreInv'
    BY <1>4, StepCore
  <2>2. CASE MemberCount(t) \/ MakePersistedSnapshot(t)
    BY <1>1, <2>1, <2>2 DEF MemberCount, MakePersistedSnapshot
  <2>3. CASE EnqueueSnapshot(t)
    <3>1. PICK s \in PersistedBoardSnapshot : s = call[t].snap
      BY <2>3 DEF EnqueueSnapshot, CoreInv, CallOk, NoCall
    <3>2. FetchAdd(t, s)
      BY <2>3, <3>1 DEF EnqueueSnapshot
    <3> QED
      BY <2>1, <3>2, FetchAddInv
  <2> QED
    BY <1>4, <2>2, <2>3 DEF CoreStep
<1>5. CASE (WriterAction \/ \E t \in Threads : EnqueueStep(t)) /\ UNCHANGED coreVars
  <2>1. WriterNext
    BY <1>5 DEF WriterNext
  <2> QED
    BY <1>5, <2>1, WriterCore, WriterNextInv
<1>6. CASE UNCHANGED allVars
  <2>1. UNCHANGED writerVars /\ UNCHANGED coreVars
    BY <1>6 DEF allVars
  <2>2. pc' = pc /\ arg' = arg /\ pushed' = pushed /\ everSaved' = everSaved
    BY <2>1 DEF writerVars, queueVars, storeVars
  <2>3. CoreInv'
    BY <2>1, <2>2, WriterFrame DEF CoreInv
  <2> QED
    BY <1>1, <2>1, <2>3
<1> QED
  BY <1>2, <1>3, <1>4, <1>5, <1>6 DEF CoreNext

(* The boards, the snapshots in hand, queued and saved agree in every      *)
(* reachable state.                                                        *)
THEOREM CoreInvariant == CoreSpec => [](WriterInv /\ CoreInv)
<1>1. CoreInit => WriterInv /\ CoreInv
  BY CoreInitInv
<1>2. WriterInv /\ CoreInv /\ [CoreNext]_allVars => (WriterInv /\ CoreInv)'
  BY CoreNextInv
<1> QED
  BY <1>1, <1>2, PTL DEF CoreSpec

(* Every row this run of the server wrote holds the board as it was right  *)
(* after the event its last_seq names, for any number of handlers, rooms,  *)
(* events and crashes: no lock is held from apply() or leave() to          *)
(* makePersistedSnapshot(), but that one reads number and strokes together.*)
THEOREM SnapshotsCorrect == CoreSpec => []SnapshotsTrue
<1>1. ASSUME WriterInv, CoreInv PROVE SnapshotsTrue
  <2> SUFFICES ASSUME NEW r \in Rooms, NEW x \in Current(r)
               PROVE  /\ x.snap.lastSeq \in DOMAIN boardAt[r]
                      /\ x.snap.strokes = boardAt[r][x.snap.lastSeq]
    BY DEF SnapshotsTrue
  <2>1. x \in everSaved /\ x.snap.room = r /\ x.snap.strokes.run = crashes
    BY <1>1 DEF Current, RowsOf, WriterInv, WriterTypeOK, StoreTypeOK
  <2>2. IsTrue(boardAt, x.snap)
    BY <1>1, <2>1 DEF CoreInv
  <2> QED
    BY <2>1, <2>2 DEF IsTrue
<1>2. WriterInv /\ CoreInv => SnapshotsTrue
  BY <1>1
<1> QED
  BY <1>2, CoreInvariant, PTL

-----------------------------------------------------------------------------
(* What the handlers have in hand.                                         *)
SameHands ==
  /\ pushed' = pushed
  /\ \A u \in Threads : /\ Holds(u)' <=> Holds(u)
                        /\ Holds(u) => Held(u)' = Held(u)

(* Only makePersistedSnapshot() and the push change hands.                 *)
LEMMA HandsStep ==
  ASSUME WriterInv, CoreInv, [CoreNext]_allVars
  PROVE  \/ Crash \/ SameHands
         \/ \E t \in Threads : MakePersistedSnapshot(t)
         \/ \E t \in Threads : Push(t) /\ UNCHANGED coreVars
<1>0. DOMAIN call = Threads /\ DOMAIN pc = Threads /\ DOMAIN arg = Threads
  BY DEF CoreInv, WriterInv, WriterTypeOK
<1>1. ASSUME pushed' = pushed, arg' = arg, call' = call,
             \A u \in Threads : pc'[u] = "push" <=> pc[u] = "push"
      PROVE  SameHands
  BY <1>1 DEF SameHands, Holds, Held
<1>2. ASSUME NEW t \in Threads, UNCHANGED writerVars, NEW c, call' = [call EXCEPT ![t] = c],
             c.at # "enqueue", call[t].at # "enqueue", pc[t] = "idle"
      PROVE  SameHands
  <2>1. pc' = pc /\ arg' = arg /\ pushed' = pushed
    BY <1>2 DEF writerVars, queueVars
  <2>2. call'[t] = c /\ \A u \in Threads : u # t => call'[u] = call[u]
    BY <1>0, <1>2
  <2>3. ~Holds(t) /\ ~Holds(t)'
    BY <1>2, <2>1, <2>2 DEF Holds
  <2> QED
    BY <2>1, <2>2, <2>3 DEF SameHands, Holds, Held
<1>3. ASSUME UNCHANGED writerVars, call' = call PROVE SameHands
  BY <1>1, <1>3 DEF writerVars, queueVars
<1>4. ASSUME NEW t \in Threads, CoreCall(t) PROVE SameHands
  <2>1. UNCHANGED writerVars /\ call[t] = NoCall /\ pc[t] = "idle"
    BY <1>4 DEF CoreCall, JoinRoom, LeaveRoom, HandleEvent, Free
  <2>2. call' = call \/ \E at \in {"count", "snapshot"} : \E r : Goes(t, at, r)
    BY <1>4 DEF CoreCall, JoinRoom, LeaveRoom, HandleEvent
  <2>3. ASSUME NEW at \in {"count", "snapshot"}, NEW r, Goes(t, at, r) PROVE SameHands
    <3>1. PICK c : c = [at |-> at, room |-> r]
      OBVIOUS
    <3>2. c.at # "enqueue" /\ call[t].at # "enqueue" /\ call' = [call EXCEPT ![t] = c]
      BY <2>1, <2>3, <3>1 DEF Goes, NoCall
    <3> QED
      BY <1>2, <2>1, <3>2
  <2> QED
    BY <1>3, <2>1, <2>2, <2>3
<1>5. ASSUME NEW t \in Threads, MemberCount(t) PROVE SameHands
  <2>1. UNCHANGED writerVars /\ call[t].at = "count"
    BY <1>5 DEF MemberCount
  <2>2. pc[t] = "idle"
    BY <2>1 DEF CoreInv, CallOk, NoCall
  <2>3. PICK c : /\ call' = [call EXCEPT ![t] = c]
                 /\ c = NoCall \/ c = [at |-> "snapshot", room |-> call[t].room]
    BY <1>5 DEF MemberCount, Goes, Returns
  <2>4. c.at # "enqueue" /\ call[t].at # "enqueue"
    BY <2>1, <2>3 DEF NoCall
  <2> QED
    BY <1>2, <2>1, <2>2, <2>3, <2>4
<1>6. ASSUME NEW t \in Threads, EnqueueSnapshot(t) PROVE SameHands
  <2>1. /\ pc[t] = "idle" /\ pc' = [pc EXCEPT ![t] = "push"]
        /\ arg' = [arg EXCEPT ![t] = call[t].snap]
        /\ pushed' = pushed /\ call[t].at = "enqueue"
        /\ call' = [call EXCEPT ![t] = NoCall]
    BY <1>6 DEF EnqueueSnapshot, FetchAdd, Goto, Returns
  <2>2. /\ pc'[t] = "push" /\ arg'[t] = call[t].snap
        /\ \A u \in Threads : u # t => /\ pc'[u] = pc[u] /\ arg'[u] = arg[u]
                                       /\ call'[u] = call[u]
    BY <1>0, <2>1
  <2> QED
    BY <2>1, <2>2 DEF SameHands, Holds, Held
<1>7. CASE WriterAction /\ UNCHANGED coreVars
  <2>1. /\ arg' = arg /\ pushed' = pushed
        /\ \/ pc' = pc
           \/ pc' = [t \in Threads |-> IF pc[t] = "parked" THEN "test" ELSE pc[t]]
    BY <1>7 DEF WriterAction, WorkerTake, WorkerSleep, WorkerExit, WorkerSave, WorkerPrune,
                WorkerCatch, FetchSub, NotifyAll, queueVars
  <2> QED
    BY <1>1, <1>7, <2>1 DEF coreVars
<1>8. ASSUME NEW t \in Threads, NotifyOne(t), UNCHANGED coreVars PROVE SameHands
  <2>1. /\ arg' = arg /\ pushed' = pushed /\ pc[t] = "notify"
        /\ pc' = [pc EXCEPT ![t] = "idle"]
    BY <1>8 DEF NotifyOne, Goto, queueVars
  <2> QED
    BY <1>0, <1>1, <1>8, <2>1 DEF coreVars
<1>9. CASE UNCHANGED allVars
  BY <1>3, <1>9 DEF allVars, coreVars
<1> QED
  BY <1>4, <1>5, <1>6, <1>7, <1>8, <1>9 DEF CoreNext, CoreStep, EnqueueStep

(* The push moves a snapshot from its handler's hands to the queue.        *)
LEMMA PushHands ==
  ASSUME WriterInv, CoreInv, NEW t \in Threads, Push(t), UNCHANGED coreVars
  PROVE  \E n \in Nat, s \in PersistedBoardSnapshot :
           /\ n = Len(pushed) /\ DOMAIN pushed = 1 .. n /\ DOMAIN pushed' = 1 .. n + 1
           /\ \A i \in 1 .. n : pushed'[i] = pushed[i]
           /\ pushed'[n + 1] = s /\ Holds(t) /\ Held(t) = s /\ ~Holds(t)'
           /\ \A u \in Threads : u # t => /\ Holds(u)' <=> Holds(u)
                                          /\ Held(u)' = Held(u)
<1>0. /\ DOMAIN pc = Threads /\ DOMAIN arg = Threads
      /\ pushed \in Seq(PersistedBoardSnapshot)
  BY DEF WriterInv, WriterTypeOK
<1>1. /\ pc[t] = "push" /\ pc' = [pc EXCEPT ![t] = "notify"]
      /\ arg' = [arg EXCEPT ![t] = NoSnapshot]
      /\ pushed' = Append(pushed, arg[t]) /\ call' = call
  BY DEF Push, Goto, coreVars
<1>2. PICK s \in PersistedBoardSnapshot : s = arg[t]
  BY <1>1 DEF WriterInv, WriterTypeOK
<1>3. PICK n \in Nat : n = Len(pushed)
  BY <1>0, LenProperties
<1>4. /\ DOMAIN pushed = 1 .. n /\ DOMAIN pushed' = 1 .. n + 1 /\ pushed'[n + 1] = s
      /\ \A i \in 1 .. n : pushed'[i] = pushed[i]
  BY <1>0, <1>1, <1>2, <1>3, AppendProperties, LenProperties
<1>5. call[t] = NoCall
  BY <1>1 DEF CoreInv, CallOk
<1>6. /\ pc'[t] = "notify"
      /\ \A u \in Threads : u # t => pc'[u] = pc[u] /\ arg'[u] = arg[u]
  BY <1>0, <1>1
<1>7. Holds(t) /\ Held(t) = s /\ ~Holds(t)'
  BY <1>1, <1>2, <1>5, <1>6 DEF Holds, Held, NoCall
<1>8. \A u \in Threads : u # t => (Holds(u)' <=> Holds(u)) /\ Held(u)' = Held(u)
  BY <1>1, <1>6 DEF Holds, Held
<1> QED
  BY <1>3, <1>4, <1>7, <1>8

(* makePersistedSnapshot() gives its handler the newest snapshot.          *)
LEMMA SnapshotHands ==
  ASSUME WriterInv, CoreInv, NEW t \in Threads, MakePersistedSnapshot(t)
  PROVE  /\ pushed' = pushed /\ Holds(t)' /\ ~Holds(t)
         /\ Held(t)'.room = call[t].room /\ call[t].room \in Rooms
         /\ Held(t)'.lastSeq = Len(boardAt[call[t].room])
         /\ \A u \in Threads : u # t => /\ Holds(u)' <=> Holds(u)
                                        /\ Held(u)' = Held(u)
                                        /\ call'[u] = call[u]
<1>1. /\ call[t].at = "snapshot" /\ pc' = pc /\ arg' = arg /\ pushed' = pushed
      /\ DOMAIN call = Threads
  BY DEF MakePersistedSnapshot, writerVars, queueVars, CoreInv
<1>2. PICK s : s = [room |-> call[t].room, lastSeq |-> rooms[call[t].room].nextSeq - 1,
                    strokes |-> board[call[t].room]]
  OBVIOUS
<1>3. /\ s.lastSeq = Len(boardAt[s.room]) /\ s.room = call[t].room /\ pc[t] = "idle"
      /\ s.room \in Rooms
  BY <1>1, <1>2, SnapshotTaken DEF IsTrue
<1>4. PICK c : /\ call' = [call EXCEPT ![t] = c]
               /\ c = [at |-> "enqueue", room |-> call[t].room, snap |-> s]
  BY <1>2 DEF MakePersistedSnapshot
<1>5. /\ call'[t].at = "enqueue" /\ call'[t].snap = s
      /\ \A u \in Threads : u # t => call'[u] = call[u]
  BY <1>1, <1>4
<1>6. Holds(t)' /\ ~Holds(t) /\ Held(t)' = s
  BY <1>1, <1>3, <1>5 DEF Holds, Held
<1>7. \A u \in Threads : u # t => (Holds(u)' <=> Holds(u)) /\ Held(u)' = Held(u)
  BY <1>1, <1>5 DEF Holds, Held
<1> QED
  BY <1>1, <1>3, <1>5, <1>6, <1>7

-----------------------------------------------------------------------------
(* The last state of an empty room.                                        *)

(* A step keeps the last state of r on its way if who has it, or is to     *)
(* take it, still does or has pushed it.                                   *)
LEMMA LastFrame ==
  ASSUME NEW r, LastOnItsWay(r), boardAt'[r] = boardAt[r],
         rooms'[r].members = {} => rooms[r].members = {},
         rooms'[r].members = {} =>
           \A u \in Threads : call[u].at \in {"count", "snapshot"} /\ call[u].room = r =>
             \/ call'[u].at \in {"count", "snapshot"} /\ call'[u].room = r
             \/ /\ Holds(u)' /\ Held(u)'.room = r
                /\ Held(u)'.lastSeq = Len(boardAt[r]),
         \A u \in Threads : Holds(u) =>
           \/ Holds(u)' /\ Held(u)' = Held(u)
           \/ \E i \in DOMAIN pushed' : pushed'[i] = Held(u),
         \A i \in DOMAIN pushed : i \in DOMAIN pushed' /\ pushed'[i] = pushed[i]
  PROVE  LastOnItsWay(r)'
<1> SUFFICES ASSUME rooms'[r].members = {}, boardAt'[r] # <<>>
             PROVE  \/ \E t \in Threads : /\ call'[t].at \in {"count", "snapshot"}
                                          /\ call'[t].room = r
                    \/ \E t \in Threads : /\ Holds(t)' /\ Held(t)'.room = r
                                          /\ Held(t)'.lastSeq = Len(boardAt[r])
                    \/ \E i \in DOMAIN pushed' : /\ pushed'[i].room = r
                                                 /\ pushed'[i].lastSeq = Len(boardAt[r])
  BY DEF LastOnItsWay
<1>1. CASE \E t \in Threads : call[t].at \in {"count", "snapshot"} /\ call[t].room = r
  BY <1>1
<1>2. CASE \E t \in Threads : /\ Holds(t) /\ Held(t).room = r
                              /\ Held(t).lastSeq = Len(boardAt[r])
  BY <1>2
<1>3. CASE \E i \in DOMAIN pushed : /\ pushed[i].room = r
                                    /\ pushed[i].lastSeq = Len(boardAt[r])
  BY <1>3
<1> QED
  BY <1>1, <1>2, <1>3 DEF LastOnItsWay

(* Whoever leaves a room is to count; a join or an event finds a member.   *)
LEMMA LastCall ==
  ASSUME WriterInv, CoreInv, LastInv, NEW t \in Threads, CoreCall(t), SameHands
  PROVE  LastInv'
<1>1. PICK r \in Rooms, n \in Nat :
        /\ BoardUpdated(r, n)
        /\ \/ JoinRoom(t, r)
           \/ \E kind \in Kinds : HandleEvent(t, r, kind)
           \/ LeaveRoom(t, r)
  BY CoreCallUpdates
<1>2. DOMAIN call = Threads /\ DOMAIN rooms = Rooms
  BY DEF CoreInv
<1>3. /\ call[t] = NoCall
      /\ call' = call \/ \E at : Goes(t, at, r)
  BY <1>1 DEF JoinRoom, LeaveRoom, HandleEvent, Free
<1>4. \A u \in Threads : call[u].at \in {"count", "snapshot"} => call'[u] = call[u]
  <2>1. call[t].at = "none"
    BY <1>3 DEF NoCall
  <2>2. \A u \in Threads : u # t => call'[u] = call[u]
    BY <1>2, <1>3 DEF Goes
  <2> QED
    BY <2>1, <2>2
<1>5. ASSUME NEW x \in Rooms, x # r PROVE LastOnItsWay(x)'
  <2>1. rooms'[x] = rooms[x] /\ boardAt'[x] = boardAt[x] /\ LastOnItsWay(x)
    BY <1>1, <1>5 DEF BoardUpdated, LastInv
  <2> QED
    BY <1>4, <2>1, LastFrame DEF SameHands
<1>6. CASE LeaveRoom(t, r)
  <2>1. call'[t].at = "count" /\ call'[t].room = r
    BY <1>2, <1>6 DEF LeaveRoom, Goes
  <2>2. LastOnItsWay(r)'
    BY <2>1 DEF LastOnItsWay
  <2> QED
    BY <1>5, <2>2 DEF LastInv
<1>7. CASE JoinRoom(t, r) \/ \E kind \in Kinds : HandleEvent(t, r, kind)
  <2>1. t \in rooms'[r].members
    <3>1. CASE JoinRoom(t, r)
      <4>1. rooms' = [rooms EXCEPT ![r] = JoinCall(rooms[r], t).room]
        BY <3>1 DEF JoinRoom, Update
      <4>2. rooms'[r] = JoinCall(rooms[r], t).room
        BY <1>2, <4>1
      <4> QED
        BY <4>2 DEF JoinCall, Accepted
    <3>2. ASSUME NEW kind \in Kinds, HandleEvent(t, r, kind)
          PROVE  t \in rooms'[r].members
      <4>1. PICK o \in ApplyCall(rooms[r], t, kind) : Update(r, o) /\ t \in rooms[r].members
        BY <3>2 DEF HandleEvent
      <4>2. rooms'[r] = o.room
        BY <1>2, <4>1 DEF Update
      <4>3. o.room.members = rooms[r].members
        BY <4>1 DEF ApplyCall, Refused, Accepted
      <4> QED
        BY <4>1, <4>2, <4>3
    <3> QED
      BY <1>7, <3>1, <3>2
  <2>2. LastOnItsWay(r)'
    BY <2>1 DEF LastOnItsWay
  <2> QED
    BY <1>5, <2>2 DEF LastInv
<1> QED
  BY <1>1, <1>6, <1>7

(* Every step keeps it on its way.                                         *)
LEMMA LastNext ==
  ASSUME WriterInv, CoreInv, LastInv, [CoreNext]_allVars
  PROVE  LastInv'
<1>0. DOMAIN call = Threads
  BY DEF CoreInv
<1>1. CASE Crash
  BY <1>1 DEF Crash, LastInv, LastOnItsWay
<1>2. ASSUME NEW t \in Threads, MakePersistedSnapshot(t) PROVE LastInv'
  <2>1. rooms' = rooms /\ boardAt' = boardAt
    BY <1>2 DEF MakePersistedSnapshot
  <2>2. /\ pushed' = pushed /\ Holds(t)' /\ ~Holds(t)
        /\ Held(t)'.room = call[t].room
        /\ Held(t)'.lastSeq = Len(boardAt[call[t].room])
        /\ \A u \in Threads : u # t => /\ Holds(u)' <=> Holds(u)
                                       /\ Held(u)' = Held(u)
                                       /\ call'[u] = call[u]
    BY <1>2, SnapshotHands
  <2>3. ASSUME NEW r \in Rooms PROVE LastOnItsWay(r)'
    BY <2>1, <2>2, LastFrame DEF LastInv
  <2> QED
    BY <2>3 DEF LastInv
<1>3. ASSUME NEW t \in Threads, Push(t), UNCHANGED coreVars PROVE LastInv'
  <2>1. rooms' = rooms /\ boardAt' = boardAt /\ call' = call
    BY <1>3 DEF coreVars
  <2>2. PICK n \in Nat, s \in PersistedBoardSnapshot :
          /\ DOMAIN pushed = 1 .. n /\ DOMAIN pushed' = 1 .. n + 1
          /\ \A i \in 1 .. n : pushed'[i] = pushed[i]
          /\ pushed'[n + 1] = s /\ Held(t) = s
          /\ \A u \in Threads : u # t => /\ Holds(u)' <=> Holds(u)
                                         /\ Held(u)' = Held(u)
    BY <1>3, PushHands
  <2>3. n + 1 \in 1 .. n + 1 /\ \A i \in 1 .. n : i \in 1 .. n + 1
    OBVIOUS
  <2>4. \A u \in Threads : Holds(u) =>
           \/ Holds(u)' /\ Held(u)' = Held(u)
           \/ \E i \in DOMAIN pushed' : pushed'[i] = Held(u)
    BY <2>2, <2>3
  <2>5. \A i \in DOMAIN pushed : i \in DOMAIN pushed' /\ pushed'[i] = pushed[i]
    BY <2>2, <2>3
  <2>6. ASSUME NEW r \in Rooms PROVE LastOnItsWay(r)'
    BY <2>1, <2>4, <2>5, LastFrame DEF LastInv
  <2> QED
    BY <2>6 DEF LastInv
<1>4. CASE SameHands
  <2>1. ASSUME rooms' = rooms, boardAt' = boardAt,
               \A u \in Threads : call[u].at \in {"count", "snapshot"} =>
                 \/ call'[u].at \in {"count", "snapshot"} /\ call'[u].room = call[u].room
                 \/ rooms[call[u].room].members # {}
        PROVE  LastInv'
    <3>1. ASSUME NEW r \in Rooms PROVE LastOnItsWay(r)'
      BY <1>4, <2>1, LastFrame DEF LastInv, SameHands
    <3> QED
      BY <3>1 DEF LastInv
  <2>2. ASSUME NEW t \in Threads, CoreCall(t) PROVE LastInv'
    BY <1>4, <2>2, LastCall
  <2>3. ASSUME NEW t \in Threads, MemberCount(t) PROVE LastInv'
    <3>1. rooms' = rooms /\ boardAt' = boardAt
      BY <2>3 DEF MemberCount
    <3>2. \A u \in Threads : u # t => call'[u] = call[u]
      BY <1>0, <2>3 DEF MemberCount, Goes, Returns
    <3>3. \/ call'[t].at = "snapshot" /\ call'[t].room = call[t].room
          \/ rooms[call[t].room].members # {}
      BY <1>0, <2>3 DEF MemberCount, Goes, Returns
    <3> QED
      BY <2>1, <3>1, <3>2, <3>3
  <2>4. ASSUME NEW t \in Threads, EnqueueSnapshot(t) PROVE LastInv'
    <3>1. rooms' = rooms /\ boardAt' = boardAt /\ call[t].at = "enqueue"
      BY <2>4 DEF EnqueueSnapshot
    <3>2. \A u \in Threads : u # t => call'[u] = call[u]
      BY <1>0, <2>4 DEF EnqueueSnapshot, Returns
    <3> QED
      BY <2>1, <3>1, <3>2
  <2>5. CASE UNCHANGED coreVars
    BY <2>1, <2>5 DEF coreVars
  <2> QED
    BY <1>1, <1>2, <2>2, <2>3, <2>4, <2>5 DEF CoreNext, CoreStep, allVars
<1> QED
  BY <1>1, <1>2, <1>3, <1>4, HandsStep

-----------------------------------------------------------------------------
(* Snapshots pushed out of order.                                          *)

(* The handlers at work are finitely many.                                 *)
LEMMA AtWorkFinite ==
  /\ IsFiniteSet(AtWork) /\ Cardinality(AtWork) \in Nat
  /\ IsFiniteSet(AtWork') /\ Cardinality(AtWork') \in Nat
<1>1. AtWork \subseteq Threads /\ AtWork' \subseteq Threads
  BY DEF AtWork
<1>2. IsFiniteSet(AtWork) /\ IsFiniteSet(AtWork')
  BY <1>1, FS_Subset, WriterAssumption
<1> QED
  BY <1>2, FS_CardinalityType

(* A handler that has a snapshot in hand is at work.                       *)
LEMMA HoldersAtWork ==
  ASSUME NEW u \in Threads, Holds(u)
  PROVE  u \in AtWork
BY DEF Holds, AtWork, Free, NoCall

(* Only a call that finds a thread free puts one more handler to work.     *)
LEMMA AtWorkNext ==
  ASSUME WriterInv, CoreInv, FewAtWork, [CoreNext]_allVars
  PROVE  FewAtWork'
<1>0. DOMAIN call = Threads /\ DOMAIN pc = Threads
  BY DEF CoreInv, WriterInv, WriterTypeOK
<1>1. ASSUME AtWork' \subseteq AtWork PROVE FewAtWork'
  <2>1. Cardinality(AtWork') <= Cardinality(AtWork)
    BY <1>1, AtWorkFinite, FS_Subset
  <2> QED
    BY <2>1, AtWorkFinite, CoreAssumption DEF FewAtWork
<1>2. ASSUME NEW t \in Threads, t \in AtWork,
             \A u \in Threads : u # t => call'[u] = call[u] /\ pc'[u] = pc[u]
      PROVE  FewAtWork'
  BY <1>1, <1>2 DEF AtWork, Free
<1>3. ASSUME call' = call, \A u \in Threads : pc[u] = "idle" => pc'[u] = "idle"
      PROVE  FewAtWork'
  BY <1>1, <1>3 DEF AtWork, Free
<1>4. CASE Crash
  <2>1. AtWork' = {}
    BY <1>4 DEF Crash, AtWork, Free
  <2> QED
    BY <1>1, <2>1
<1>5. ASSUME NEW t \in Threads, CoreCall(t) PROVE FewAtWork'
  <2>1. /\ pc' = pc /\ Cardinality(AtWork) < IoThreads
        /\ \A u \in Threads : u # t => call'[u] = call[u]
    BY <1>0, <1>5 DEF CoreCall, JoinRoom, LeaveRoom, HandleEvent, Goes, writerVars
  <2>2. AtWork' \subseteq AtWork \cup {t}
    BY <2>1 DEF AtWork, Free
  <2>3. PICK w \in Nat, n \in Nat : w = Cardinality(AtWork) /\ n = IoThreads /\ w < n
    BY <2>1, AtWorkFinite, CoreAssumption
  <2>4. /\ IsFiniteSet(AtWork \cup {t})
        /\ Cardinality(AtWork \cup {t}) = w \/ Cardinality(AtWork \cup {t}) = w + 1
    BY <2>3, AtWorkFinite, FS_AddElement
  <2>5. Cardinality(AtWork') <= Cardinality(AtWork \cup {t})
    BY <2>2, <2>4, FS_Subset
  <2> QED
    BY <2>3, <2>4, <2>5, AtWorkFinite DEF FewAtWork
<1>6. ASSUME NEW t \in Threads, CoreStep(t) PROVE FewAtWork'
  <2>1. t \in AtWork
    BY <1>6 DEF CoreStep, MemberCount, MakePersistedSnapshot, EnqueueSnapshot, AtWork, Free,
                NoCall
  <2>2. \A u \in Threads : u # t => call'[u] = call[u]
    BY <1>0, <1>6 DEF CoreStep, MemberCount, MakePersistedSnapshot, EnqueueSnapshot, Goes,
                      Returns
  <2>3. \A u \in Threads : u # t => pc'[u] = pc[u]
    BY <1>0, <1>6 DEF CoreStep, MemberCount, MakePersistedSnapshot, EnqueueSnapshot,
                      FetchAdd, Goto, writerVars
  <2> QED
    BY <1>2, <2>1, <2>2, <2>3
<1>7. ASSUME NEW t \in Threads, EnqueueStep(t), UNCHANGED coreVars PROVE FewAtWork'
  <2>1. t \in AtWork /\ \A u \in Threads : u # t => pc'[u] = pc[u]
    BY <1>0, <1>7 DEF EnqueueStep, Push, NotifyOne, Goto, AtWork, Free
  <2>2. call' = call
    BY <1>7 DEF coreVars
  <2> QED
    BY <1>2, <2>1, <2>2
<1>8. CASE WriterAction /\ UNCHANGED coreVars
  <2>1. \A u \in Threads : pc[u] = "idle" => pc'[u] = "idle"
    BY <1>8 DEF WriterAction, WorkerTake, WorkerSleep, WorkerExit, WorkerSave, WorkerPrune,
                WorkerCatch, FetchSub, NotifyAll
  <2>2. call' = call
    BY <1>8 DEF coreVars
  <2> QED
    BY <1>3, <2>1, <2>2
<1>9. CASE UNCHANGED allVars
  <2>1. call' = call /\ pc' = pc
    BY <1>9 DEF allVars, coreVars, writerVars
  <2> QED
    BY <1>3, <2>1
<1> QED
  BY <1>4, <1>5, <1>6, <1>7, <1>8, <1>9 DEF CoreNext

(* What is counted is finite.                                              *)
LEMMA OvertakenFinite ==
  ASSUME WriterInv, NEW i
  PROVE  /\ IsFiniteSet(Overtaken(i)) /\ Cardinality(Overtaken(i)) \in Nat
         /\ IsFiniteSet(Overtaking(i)) /\ Cardinality(Overtaking(i)) \in Nat
         /\ IoThreads \in Nat
<1>1. PICK n \in Nat : DOMAIN pushed = 1 .. n
  BY TaskPushed
<1>2. Overtaken(i) \subseteq 1 .. n /\ Overtaking(i) \subseteq Threads
  BY <1>1 DEF Overtaken, Overtaking
<1>3. IsFiniteSet(1 .. n) /\ IsFiniteSet(Threads)
  BY FS_Interval, WriterAssumption
<1>4. IsFiniteSet(Overtaken(i)) /\ IsFiniteSet(Overtaking(i))
  BY <1>2, <1>3, FS_Subset
<1> QED
  BY <1>4, FS_CardinalityType, CoreAssumption

(* A step that gives nobody an older snapshot.                             *)
LEMMA OvertakenFrame ==
  ASSUME WriterInv, FewOvertaken, pushed' = pushed,
         \A i \in DOMAIN pushed, u \in Threads :
           Holds(u)' /\ Older(Held(u)', pushed[i]) => Holds(u) /\ Older(Held(u), pushed[i])
  PROVE  FewOvertaken'
<1> SUFFICES ASSUME NEW i \in DOMAIN pushed
             PROVE  Cardinality(Overtaken(i)') + Cardinality(Overtaking(i)') < IoThreads
  BY DEF FewOvertaken
<1>1. Overtaken(i)' = Overtaken(i)
  BY DEF Overtaken
<1>2. Overtaking(i)' \subseteq Overtaking(i)
  BY DEF Overtaking
<1>3. PICK a \in Nat, b \in Nat, c \in Nat :
        a = Cardinality(Overtaken(i)) /\ b = Cardinality(Overtaking(i))
        /\ c = IoThreads /\ IsFiniteSet(Overtaking(i))
  BY OvertakenFinite
<1>4. IsFiniteSet(Overtaking(i)') /\ Cardinality(Overtaking(i)') <= b
  BY <1>2, <1>3, FS_Subset
<1>5. PICK d \in Nat : d = Cardinality(Overtaking(i)') /\ d <= b
  BY <1>4, FS_CardinalityType
<1>6. a + b < c
  BY <1>3 DEF FewOvertaken
<1> QED
  BY <1>1, <1>3, <1>5, <1>6

(* A push turns a handler that may overtake into a snapshot that did.      *)
LEMMA OvertakenPush ==
  ASSUME WriterInv, CoreInv, FewAtWork, FewOvertaken, NEW t \in Threads, Push(t), UNCHANGED coreVars
  PROVE  FewOvertaken'
<1>1. PICK n \in Nat, s \in PersistedBoardSnapshot :
        /\ DOMAIN pushed = 1 .. n /\ DOMAIN pushed' = 1 .. n + 1
        /\ \A i \in 1 .. n : pushed'[i] = pushed[i]
        /\ pushed'[n + 1] = s /\ Holds(t) /\ Held(t) = s /\ ~Holds(t)'
        /\ \A u \in Threads : u # t => /\ Holds(u)' <=> Holds(u)
                                       /\ Held(u)' = Held(u)
  BY PushHands
<1>2. \A i \in 1 .. n + 1 : i = n + 1 \/ i \in 1 .. n
  OBVIOUS
<1>3. n + 1 \in 1 .. n + 1 /\ \A i \in 1 .. n : i \in 1 .. n + 1 /\ i < n + 1
  OBVIOUS
<1>4. PICK c \in Nat : c = IoThreads
  BY CoreAssumption
<1>5. ASSUME NEW i \in 1 .. n
      PROVE  Cardinality(Overtaken(i)') + Cardinality(Overtaking(i)') < c
  <2>1. PICK a \in Nat, b \in Nat :
          /\ a = Cardinality(Overtaken(i)) /\ b = Cardinality(Overtaking(i))
          /\ IsFiniteSet(Overtaken(i)) /\ IsFiniteSet(Overtaking(i))
    BY OvertakenFinite
  <2>2. a + b < c
    BY <1>1, <1>4, <2>1 DEF FewOvertaken
  <2>3. CASE Older(s, pushed[i])
    <3>1. Overtaken(i)' = Overtaken(i) \cup {n + 1}
      BY <1>1, <1>2, <1>3, <2>3 DEF Overtaken
    <3>2. n + 1 \notin Overtaken(i)
      BY <1>1 DEF Overtaken
    <3>3. Overtaking(i)' = Overtaking(i) \ {t} /\ t \in Overtaking(i)
      BY <1>1, <2>3 DEF Overtaking
    <3>4. Cardinality(Overtaken(i)') = a + 1
      BY <2>1, <3>1, <3>2, FS_AddElement
    <3>5. Cardinality(Overtaking(i)') = b - 1
      BY <2>1, <3>3, FS_RemoveElement
    <3> QED
      BY <2>2, <3>4, <3>5
  <2>4. CASE ~Older(s, pushed[i])
    <3>1. Overtaken(i)' = Overtaken(i)
      BY <1>1, <1>2, <1>3, <2>4 DEF Overtaken
    <3>2. Overtaking(i)' = Overtaking(i)
      BY <1>1, <2>4 DEF Overtaking
    <3> QED
      BY <2>1, <2>2, <3>1, <3>2
  <2> QED
    BY <2>3, <2>4
<1>6. Cardinality(Overtaken(n + 1)') + Cardinality(Overtaking(n + 1)') < c
  <2>1. Overtaken(n + 1)' = {}
    BY <1>1 DEF Overtaken
  <2>2. Cardinality(Overtaken(n + 1)') = 0
    BY <2>1, FS_EmptySet
  <2>3. Overtaking(n + 1)' \subseteq AtWork \ {t} /\ t \in AtWork
    BY <1>1, HoldersAtWork DEF Overtaking
  <2>4. PICK w \in Nat : w = Cardinality(AtWork) /\ w <= c
    BY <1>4, AtWorkFinite DEF FewAtWork
  <2>5. IsFiniteSet(AtWork \ {t}) /\ Cardinality(AtWork \ {t}) = w - 1
    BY <2>3, <2>4, AtWorkFinite, FS_RemoveElement
  <2>6. /\ IsFiniteSet(Overtaking(n + 1)')
        /\ Cardinality(Overtaking(n + 1)') <= Cardinality(AtWork \ {t})
    BY <2>3, <2>5, FS_Subset
  <2>7. PICK d \in Nat : d = Cardinality(Overtaking(n + 1)')
    BY <2>6, FS_CardinalityType
  <2>8. d <= w - 1
    BY <2>5, <2>6, <2>7
  <2> QED
    BY <2>2, <2>4, <2>7, <2>8
<1> QED
  BY <1>1, <1>2, <1>4, <1>5, <1>6 DEF FewOvertaken

(* A snapshot just taken is older than none.                               *)
LEMMA OvertakenNext ==
  ASSUME WriterInv, CoreInv, FewAtWork, FewOvertaken, [CoreNext]_allVars
  PROVE  FewOvertaken'
<1>1. CASE Crash
  BY <1>1 DEF Crash, FewOvertaken
<1>2. CASE SameHands
  BY <1>2, OvertakenFrame DEF SameHands
<1>3. ASSUME NEW t \in Threads, MakePersistedSnapshot(t) PROVE FewOvertaken'
  <2>1. PICK r \in Rooms :
          /\ pushed' = pushed /\ Holds(t)' /\ ~Holds(t) /\ Held(t)'.room = r
          /\ Held(t)'.lastSeq = Len(boardAt[r])
          /\ \A u \in Threads : u # t => /\ Holds(u)' <=> Holds(u)
                                         /\ Held(u)' = Held(u)
    BY <1>3, SnapshotHands
  <2>2. PICK N \in Nat : N = Len(boardAt[r]) /\ DOMAIN boardAt[r] = 1 .. N
    BY LenProperties DEF CoreInv, BoardOk
  <2>3. ASSUME NEW i \in DOMAIN pushed PROVE ~Older(Held(t)', pushed[i])
    <3>1. IsTrue(boardAt, pushed[i])
      BY DEF CoreInv
    <3>2. CASE pushed[i].room = r
      <4>1. pushed[i].lastSeq \in 1 .. N
        BY <2>2, <3>1, <3>2 DEF IsTrue
      <4> QED
        BY <2>1, <2>2, <4>1 DEF Older
    <3>3. CASE pushed[i].room # r
      BY <2>1, <3>3 DEF Older
    <3> QED
      BY <3>2, <3>3
  <2> QED
    BY <2>1, <2>3, OvertakenFrame
<1> QED
  BY <1>1, <1>2, <1>3, OvertakenPush, HandsStep

-----------------------------------------------------------------------------
(* The table.                                                              *)

(* More rows can only put the clock in the wrong.                          *)
LEMMA OrderedBefore ==
  ASSUME everSaved \subseteq everSaved', NEW r, TimesInOrder(r)'
  PROVE  TimesInOrder(r)
BY DEF TimesInOrder

(* One INSERT.                                                             *)
LEMMA TableSaved ==
  ASSUME WriterInv, TableInv, WorkerSave
  PROVE  TableInv'
<1>1. /\ nextId \in Nat \ {0} /\ task \in PersistedBoardSnapshot /\ Save(task)
      /\ rows \subseteq everSaved
  BY DEF WriterInv, WriterTypeOK, StoreTypeOK, WorkerSave, WorkerStep
<1>2. PICK row \in Row : /\ row.id = nextId /\ row.snap = task
                         /\ rows' = rows \cup {row} /\ everSaved' = everSaved \cup {row}
                         /\ nextId' = nextId + 1
  BY <1>1, SaveAddsRow
<1>3. IsFiniteSet(everSaved')
  BY <1>2, FS_AddElement DEF TableInv
<1>4. \A x \in everSaved' : x.id \in 1 .. nextId' - 1
  BY <1>1, <1>2 DEF TableInv
<1>5. IdsOnce'
  BY <1>1, <1>2 DEF TableInv, IdsOnce
<1>6. ASSUME NEW x \in everSaved' \ rows', TimesInOrder(x.snap.room)'
      PROVE  Cardinality(SavedLater(everSaved', x)) >= KeepLatest
  <2>1. x \in everSaved \ rows /\ everSaved \subseteq everSaved'
    BY <1>2
  <2>2. /\ SavedLater(everSaved, x) \subseteq SavedLater(everSaved', x)
        /\ SavedLater(everSaved', x) \subseteq everSaved'
    BY <2>1 DEF SavedLater
  <2>3. IsFiniteSet(SavedLater(everSaved', x))
    BY <1>3, <2>2, FS_Subset
  <2>4. /\ IsFiniteSet(SavedLater(everSaved, x))
        /\ Cardinality(SavedLater(everSaved, x)) <= Cardinality(SavedLater(everSaved', x))
    BY <2>2, <2>3, FS_Subset
  <2>5. PICK a \in Nat, b \in Nat : a = Cardinality(SavedLater(everSaved, x))
                                    /\ b = Cardinality(SavedLater(everSaved', x))
    BY <2>3, <2>4, FS_CardinalityType
  <2>6. a >= KeepLatest
    BY <1>6, <2>1, <2>5, OrderedBefore DEF TableInv
  <2> QED
    BY <2>4, <2>5, <2>6, WriterAssumption
<1> QED
  BY <1>3, <1>4, <1>5, <1>6 DEF TableInv

(* One DELETE: what goes was saved before all that stay.                   *)
LEMMA TablePruned ==
  ASSUME WriterInv, TableInv, WorkerPrune
  PROVE  TableInv'
<1>1. PICK T \in Newest(RowsOf(task.room), KeepLatest) :
        rows' = (rows \ RowsOf(task.room)) \cup T
  BY DEF WorkerPrune, PruneKeepLatest
<1>2. everSaved' = everSaved /\ nextId' = nextId
  BY DEF WorkerPrune, PruneKeepLatest
<1>3. /\ T \subseteq RowsOf(task.room)
      /\ Cardinality(T) = IF KeepLatest <= Cardinality(RowsOf(task.room))
                          THEN KeepLatest ELSE Cardinality(RowsOf(task.room))
      /\ \A x \in T, y \in RowsOf(task.room) \ T : Precedes(x, y)
  BY DEF Newest
<1>4. /\ rows \subseteq everSaved /\ IsFiniteSet(everSaved)
      /\ \A x \in everSaved : x.id \in Nat /\ x.savedAt \in Nat
  BY DEF WriterInv, WriterTypeOK, StoreTypeOK, Row, TableInv
<1>5. RowsOf(task.room) \subseteq everSaved
  BY <1>4 DEF RowsOf
<1>6. IsFiniteSet(RowsOf(task.room))
  BY <1>4, <1>5, FS_Subset
<1>7. ASSUME NEW x \in everSaved \ rows', TimesInOrder(x.snap.room)
      PROVE  Cardinality(SavedLater(everSaved, x)) >= KeepLatest
  <2>1. CASE x \notin rows
    BY <1>7, <2>1 DEF TableInv
  <2>2. CASE x \in rows
    <3>1. x \in RowsOf(task.room) \ T
      BY <1>1, <2>2
    <3>2. T # RowsOf(task.room)
      BY <3>1
    <3>3. Cardinality(T) # Cardinality(RowsOf(task.room))
      BY <1>3, <1>6, <3>2, FS_Subset
    <3>4. Cardinality(T) = KeepLatest
      BY <1>3, <3>3
    <3>5. ASSUME NEW y \in T PROVE y \in SavedLater(everSaved, x)
      <4>1. /\ y \in everSaved /\ y.snap.room = x.snap.room /\ Precedes(y, x)
            /\ x \in everSaved /\ y # x
        BY <1>3, <1>5, <3>1, <3>5 DEF RowsOf
      <4>2. (x.id = y.id => x = y) /\ (y.id < x.id => y.savedAt <= x.savedAt)
        BY <1>7, <4>1 DEF TableInv, IdsOnce, TimesInOrder
      <4>3. x.id < y.id
        BY <1>4, <4>1, <4>2 DEF Precedes
      <4> QED
        BY <4>1, <4>3 DEF SavedLater
    <3>6. SavedLater(everSaved, x) \subseteq everSaved
      BY DEF SavedLater
    <3>7. IsFiniteSet(SavedLater(everSaved, x))
      BY <1>4, <3>6, FS_Subset
    <3>8. Cardinality(T) <= Cardinality(SavedLater(everSaved, x))
      BY <3>5, <3>7, FS_Subset
    <3>9. Cardinality(SavedLater(everSaved, x)) \in Nat
      BY <3>7, FS_CardinalityType
    <3> QED
      BY <3>4, <3>8, <3>9, WriterAssumption
  <2> QED
    BY <2>1, <2>2
<1> QED
  BY <1>2, <1>7 DEF TableInv, IdsOnce, TimesInOrder

(* The core touches the table only through the worker.                     *)
LEMMA TableStep ==
  ASSUME [CoreNext]_allVars
  PROVE  \/ WorkerSave /\ UNCHANGED coreVars
         \/ WorkerPrune /\ UNCHANGED coreVars
         \/ UNCHANGED storeVars
<1>1. CASE Crash
  BY <1>1 DEF Crash
<1>2. ASSUME NEW t \in Threads, CoreCall(t) \/ CoreStep(t) PROVE UNCHANGED storeVars
  BY <1>2 DEF CoreCall, CoreStep, JoinRoom, LeaveRoom, HandleEvent, MemberCount,
              MakePersistedSnapshot, EnqueueSnapshot, FetchAdd, writerVars
<1>3. CASE (WriterAction \/ \E t \in Threads : EnqueueStep(t)) /\ UNCHANGED coreVars
  BY <1>3 DEF WriterAction, EnqueueStep, WorkerTake, WorkerSleep, WorkerExit, WorkerCatch,
              FetchSub, NotifyAll, Push, NotifyOne
<1>4. CASE UNCHANGED allVars
  BY <1>4 DEF allVars, writerVars
<1> QED
  BY <1>1, <1>2, <1>3, <1>4 DEF CoreNext

(* Every step keeps the table in order.                                    *)
LEMMA TableNext ==
  ASSUME WriterInv, TableInv, [CoreNext]_allVars
  PROVE  TableInv'
<1>1. CASE WorkerSave
  BY <1>1, TableSaved
<1>2. CASE WorkerPrune
  BY <1>2, TablePruned
<1>3. CASE UNCHANGED storeVars
  BY <1>3 DEF storeVars, TableInv, IdsOnce, TimesInOrder
<1> QED
  BY <1>1, <1>2, <1>3, TableStep

-----------------------------------------------------------------------------
(* The rows of this run are the snapshots pushed, in order.                *)

(* Where the worker is in run_(), as far as Saved can tell.                *)
LEMMA SavedCount ==
  ASSUME WriterInv
  PROVE  /\ Saved \in Nat /\ nextId \in Nat \ {0}
         /\ Len(handled) <= Saved /\ Saved <= Len(pushed) /\ Len(pushed) \in Nat
<1>1. PICK h \in Nat, n \in Nat :
        /\ h = Len(handled) /\ n = Len(pushed) /\ h <= n /\ (Busy => h + 1 <= n)
  BY TaskPushed
<1>2. nextId \in Nat \ {0}
  BY DEF WriterInv, WriterTypeOK, StoreTypeOK
<1>3. CASE worker \in {"prune", "count"}
  BY <1>1, <1>2, <1>3 DEF Saved, Busy
<1>4. CASE worker \notin {"prune", "count"}
  BY <1>1, <1>2, <1>4 DEF Saved
<1> QED
  BY <1>3, <1>4

(* A step that neither saves nor pushes.                                   *)
LEMMA OrderFrame ==
  ASSUME SavedInOrder, failures' = failures, Saved' = Saved, nextId' = nextId,
         pushed' = pushed, everSaved' = everSaved, crashes' = crashes
  PROVE  SavedInOrder'
BY DEF SavedInOrder, LastBefore

(* The worker saves what was pushed, in order.                             *)
LEMMA OrderWriter ==
  ASSUME WriterInv, TableInv, SavedInOrder, UNCHANGED coreVars,
         WriterAction \/ \E t \in Threads : EnqueueStep(t)
  PROVE  SavedInOrder'
<1>0. crashes' = crashes
  BY DEF coreVars
<1>1. PICK k \in Nat, m \in Nat : k = Saved /\ m = nextId
  BY SavedCount
<1>2. CASE WorkerTake \/ WorkerSleep \/ WorkerExit \/ WorkerPrune \/ NotifyAll
  <2>1. /\ worker \in {"prune", "count"} <=> worker' \in {"prune", "count"}
        /\ handled' = handled /\ failures' = failures /\ pushed' = pushed
        /\ nextId' = nextId /\ everSaved' = everSaved
    BY <1>2 DEF WorkerTake, WorkerSleep, WorkerExit, WorkerPrune, NotifyAll, WorkerStep,
                PruneKeepLatest, queueVars, storeVars
  <2>2. Saved' = Saved
    BY <2>1 DEF Saved
  <2> QED
    BY <1>0, <2>1, <2>2, OrderFrame
<1>3. CASE FetchSub
  <2>1. /\ worker = "count" /\ worker' = "notify" /\ handled' = Append(handled, task)
        /\ failures' = failures /\ pushed' = pushed
        /\ nextId' = nextId /\ everSaved' = everSaved
    BY <1>3 DEF FetchSub, WorkerStep, storeVars
  <2>2. handled \in Seq(PersistedBoardSnapshot) /\ task \in PersistedBoardSnapshot
    BY <2>1 DEF WriterInv, WriterTypeOK
  <2>3. PICK h \in Nat : h = Len(handled)
    BY <2>2, LenProperties
  <2>4. Len(handled') = h + 1
    BY <2>1, <2>2, <2>3, AppendProperties
  <2>5. Saved' = Saved
    BY <2>1, <2>3, <2>4 DEF Saved
  <2> QED
    BY <1>0, <2>1, <2>5, OrderFrame
<1>4. CASE WorkerCatch
  BY <1>4 DEF WorkerCatch, SavedInOrder, WriterInv, WriterTypeOK
<1>5. CASE WorkerSave
  <2> SUFFICES ASSUME failures = 0, InOrder(LastBefore, Saved, pushed, everSaved, crashes)
               PROVE  InOrder(LastBefore', Saved', pushed', everSaved', crashes)
    BY <1>0, <1>5 DEF SavedInOrder, WorkerSave
  <2>0. nextId \in Nat /\ task \in PersistedBoardSnapshot /\ Save(task)
    BY <1>5 DEF WorkerSave, WorkerStep, WriterInv, WriterTypeOK, StoreTypeOK
  <2>1. PICK row \in Row : /\ row.id = nextId /\ row.snap = task
                           /\ everSaved' = everSaved \cup {row} /\ nextId' = nextId + 1
    BY <2>0, SaveAddsRow
  <2>2. /\ everSaved' = everSaved \cup {row} /\ nextId' = m + 1
        /\ handled' = handled /\ pushed' = pushed /\ worker = "save" /\ worker' = "prune"
    BY <1>1, <1>5, <2>1 DEF WorkerSave, WorkerStep, queueVars
  <2>3. k = Len(handled) /\ Saved' = k + 1
    <3>1. PICK h \in Nat : h = Len(handled)
      BY TaskPushed
    <3> QED
      BY <1>1, <2>2, <3>1 DEF Saved
  <2>4. task = pushed[k + 1]
    BY <2>2, <2>3, TaskPushed DEF Busy
  <2>5. PICK b \in Nat : b = LastBefore
    BY DEF InOrder
  <2>6. b = m - 1 - k /\ LastBefore' = b
    <3>1. b = m - 1 - k
      BY <1>1, <2>5 DEF LastBefore
    <3>2. LastBefore' = (m + 1) - 1 - (k + 1)
      BY <2>2, <2>3 DEF LastBefore
    <3> QED
      BY <3>1, <3>2
  <2>7. row.id = b + (k + 1) /\ ~(row.id <= b) /\ row.id - b = k + 1 /\ row.snap = task
    BY <1>1, <2>1, <2>6
  <2>8. ASSUME NEW p \in 1 .. k + 1 PROVE \E x \in everSaved' : x.id = b + p
    <3>1. CASE p = k + 1
      BY <2>2, <2>7, <3>1
    <3>2. CASE p \in 1 .. k
      BY <1>1, <2>2, <2>5, <3>2 DEF InOrder
    <3> QED
      BY <3>1, <3>2
  <2>9. \A x \in everSaved' : IF x.id <= b THEN x.snap.strokes.run < crashes
                              ELSE x.snap = pushed[x.id - b]
    BY <2>2, <2>4, <2>5, <2>7 DEF InOrder
  <2> QED
    BY <2>2, <2>3, <2>6, <2>8, <2>9 DEF InOrder
<1>6. ASSUME NEW t \in Threads, NotifyOne(t) PROVE SavedInOrder'
  <2>1. /\ worker \in {"prune", "count"} <=> worker' \in {"prune", "count"}
        /\ handled' = handled /\ failures' = failures /\ pushed' = pushed
        /\ nextId' = nextId /\ everSaved' = everSaved
    BY <1>6 DEF NotifyOne, WakeWorker, queueVars, storeVars
  <2>2. Saved' = Saved
    BY <2>1 DEF Saved
  <2> QED
    BY <1>0, <2>1, <2>2, OrderFrame
<1>7. ASSUME NEW t \in Threads, Push(t) PROVE SavedInOrder'
  <2>1. /\ worker' = worker /\ handled' = handled /\ failures' = failures
        /\ pushed' = Append(pushed, arg[t]) /\ nextId' = nextId /\ everSaved' = everSaved
    BY <1>7 DEF Push, workerVars, storeVars
  <2>2. Saved' = Saved /\ LastBefore' = LastBefore
    BY <2>1 DEF Saved, LastBefore
  <2> SUFFICES ASSUME failures = 0, InOrder(LastBefore, Saved, pushed, everSaved, crashes)
               PROVE  InOrder(LastBefore, Saved, pushed', everSaved, crashes)
    BY <1>0, <2>1, <2>2 DEF SavedInOrder
  <2>3. PICK b \in Nat : b = LastBefore
    BY DEF InOrder
  <2>4. b = m - 1 - k
    BY <1>1, <2>3 DEF LastBefore
  <2>5. PICK n \in Nat : n = Len(pushed) /\ k <= n
    BY <1>1, SavedCount
  <2>6. pushed \in Seq(PersistedBoardSnapshot) /\ arg[t] \in PersistedBoardSnapshot
    BY <1>7 DEF Push, Goto, WriterInv, WriterTypeOK
  <2>7. \A i \in 1 .. n : pushed'[i] = pushed[i]
    BY <2>1, <2>5, <2>6, AppendProperties
  <2>8. ASSUME NEW x \in everSaved, ~(x.id <= b) PROVE pushed'[x.id - b] = pushed[x.id - b]
    <3>1. x.id \in 1 .. m - 1
      BY <1>1 DEF TableInv
    <3>2. x.id - b \in 1 .. n
      BY <2>4, <2>5, <2>8, <3>1
    <3> QED
      BY <2>7, <3>2
  <2> QED
    BY <2>3, <2>8 DEF InOrder
<1> QED
  BY <1>2, <1>3, <1>4, <1>5, <1>6, <1>7 DEF WriterAction, EnqueueStep

(* A crash forgets the queue: its rows belong to the run before.           *)
LEMMA OrderNext ==
  ASSUME WriterInv, CoreInv, TableInv, SavedInOrder, [CoreNext]_allVars
  PROVE  SavedInOrder'
<1>1. CASE Crash
  <2>1. /\ worker' = "awake" /\ handled' = <<>> /\ nextId' = nextId
        /\ everSaved' = everSaved /\ crashes' = crashes + 1
    BY <1>1 DEF Crash, storeVars
  <2>2. PICK m \in Nat \ {0} : m = nextId
    BY SavedCount
  <2>3. Saved' = 0 /\ LastBefore' = m - 1
    BY <2>1, <2>2 DEF Saved, LastBefore
  <2>4. ASSUME NEW x \in everSaved PROVE x.id <= m - 1 /\ x.snap.strokes.run < crashes + 1
    BY <2>2 DEF TableInv, CoreInv
  <2> QED
    BY <2>1, <2>3, <2>4 DEF SavedInOrder, InOrder
<1>2. ASSUME UNCHANGED writerVars, crashes' = crashes PROVE SavedInOrder'
  <2>1. /\ worker' = worker /\ handled' = handled /\ failures' = failures
        /\ pushed' = pushed /\ nextId' = nextId /\ everSaved' = everSaved
    BY <1>2 DEF writerVars, workerVars, queueVars, storeVars
  <2>2. Saved' = Saved
    BY <2>1 DEF Saved
  <2> QED
    BY <1>2, <2>1, <2>2, OrderFrame
<1>3. ASSUME NEW t \in Threads, CoreCall(t) PROVE SavedInOrder'
  BY <1>2, <1>3 DEF CoreCall, JoinRoom, LeaveRoom, HandleEvent
<1>4. ASSUME NEW t \in Threads, CoreStep(t) PROVE SavedInOrder'
  <2>1. CASE MemberCount(t) \/ MakePersistedSnapshot(t)
    BY <1>2, <2>1 DEF MemberCount, MakePersistedSnapshot
  <2>2. CASE EnqueueSnapshot(t)
    <3>1. /\ worker' = worker /\ handled' = handled /\ failures' = failures
          /\ pushed' = pushed /\ nextId' = nextId /\ everSaved' = everSaved
          /\ crashes' = crashes
      BY <2>2 DEF EnqueueSnapshot, FetchAdd, workerVars, storeVars
    <3>2. Saved' = Saved
      BY <3>1 DEF Saved
    <3> QED
      BY <3>1, <3>2, OrderFrame
  <2> QED
    BY <1>4, <2>1, <2>2 DEF CoreStep
<1>5. CASE (WriterAction \/ \E t \in Threads : EnqueueStep(t)) /\ UNCHANGED coreVars
  BY <1>5, OrderWriter
<1>6. CASE UNCHANGED allVars
  BY <1>2, <1>6 DEF allVars, coreVars
<1> QED
  BY <1>1, <1>3, <1>4, <1>5, <1>6 DEF CoreNext

-----------------------------------------------------------------------------
(* The newest snapshot.                                                    *)

KeptInv == FewAtWork /\ FewOvertaken /\ TableInv /\ SavedInOrder /\ LastInv

(* The facts hold at first.                                                *)
LEMMA KeptInit == CoreInit => KeptInv
<1> SUFFICES ASSUME CoreInit PROVE KeptInv
  OBVIOUS
<1>1. /\ pushed = <<>> /\ handled = <<>> /\ worker = "awake"
      /\ rows = {} /\ everSaved = {} /\ nextId = 1
      /\ boardAt = [r \in Rooms |-> <<>>]
      /\ AtWork = {}
  BY DEF CoreInit, WriterInit, StoreInit, AtWork, Free
<1>a. FewAtWork
  BY <1>1, FS_EmptySet, CoreAssumption DEF FewAtWork
<1>2. FewOvertaken /\ LastInv
  BY <1>1 DEF FewOvertaken, LastInv, LastOnItsWay
<1>3. TableInv
  BY <1>1, FS_EmptySet DEF TableInv, IdsOnce
<1>4. SavedInOrder
  <2>0. Saved = 0
    BY <1>1 DEF Saved
  <2>1. Saved = 0 /\ LastBefore = 0
    BY <1>1, <2>0 DEF LastBefore
  <2> QED
    BY <1>1, <2>1 DEF SavedInOrder, InOrder
<1> QED
  BY <1>a, <1>2, <1>3, <1>4 DEF KeptInv

(* The facts on order, retention and the last state hold in every          *)
(* reachable state.                                                        *)
THEOREM KeptInvariant == CoreSpec => []KeptInv
<1>1. CoreInit => KeptInv
  BY KeptInit
<1>2. WriterInv /\ CoreInv /\ KeptInv /\ [CoreNext]_allVars => KeptInv'
  BY AtWorkNext, OvertakenNext, TableNext, OrderNext, LastNext DEF KeptInv
<1> QED
  BY <1>1, <1>2, CoreInvariant, PTL DEF CoreSpec

(* Of the snapshots of a room saved in this run, one has the largest       *)
(* last_seq, and it is the last of those.                                  *)
Newer(p, j) ==
  \/ pushed[j].room # pushed[p].room
  \/ pushed[j].lastSeq < pushed[p].lastSeq
  \/ pushed[j].lastSeq = pushed[p].lastSeq /\ j <= p

(* There is such a one, no older than any given one.                       *)
LEMMA NewestPushed ==
  ASSUME WriterInv, CoreInv, NEW i \in 1 .. Saved
  PROVE  \E p \in 1 .. Saved :
           /\ pushed[p].room = pushed[i].room /\ pushed[p].lastSeq >= pushed[i].lastSeq
           /\ pushed[p].lastSeq \in Nat
           /\ \A j \in 1 .. Saved : Newer(p, j)
<1>1. PICK k \in Nat, n \in Nat : k = Saved /\ k <= n /\ DOMAIN pushed = 1 .. n
  BY SavedCount, TaskPushed
<1>2. \A j \in 1 .. k : IsTrue(boardAt, pushed[j])
  <2>1. \A j \in 1 .. k : j \in 1 .. n
    BY <1>1
  <2> QED
    BY <1>1, <2>1 DEF CoreInv
<1>3. PICK r \in Rooms : r = pushed[i].room
  BY <1>1, <1>2 DEF IsTrue
<1>4. PICK N \in Nat : DOMAIN boardAt[r] = 1 .. N
  BY LenProperties DEF CoreInv, BoardOk
<1> DEFINE P == {j \in 1 .. k : pushed[j].room = r}
           L == {pushed[j].lastSeq : j \in P}
<1>5. i \in P /\ \A j \in P : pushed[j].lastSeq \in 1 .. N
  BY <1>1, <1>2, <1>3, <1>4 DEF IsTrue
<1>6. L \subseteq 0 .. N /\ L # {}
  BY <1>5
<1>7. PICK m \in L : \A l \in L : l <= m
  <2> HIDE DEF L
  <2> QED
    BY <1>6, LargestExists
<1> DEFINE M == {j \in P : pushed[j].lastSeq = m}
<1>8. M \subseteq 0 .. k /\ M # {}
  OBVIOUS
<1>9. PICK p \in M : \A j \in M : j <= p
  <2> HIDE DEF M
  <2> QED
    BY <1>8, LargestExists
<1>10. /\ p \in 1 .. k /\ pushed[p].room = r /\ pushed[p].lastSeq = m /\ m \in 1 .. N
  BY <1>5
<1>11. \A j \in P : pushed[j].lastSeq <= m /\ (pushed[j].lastSeq = m => j <= p)
  BY <1>7, <1>9
<1>12. ASSUME NEW j \in 1 .. k PROVE Newer(p, j)
  <2>1. CASE j \in P
    <3>1. PICK l \in 1 .. N : l = pushed[j].lastSeq
      BY <1>5, <2>1
    <3>2. l <= m /\ (l = m => j <= p)
      BY <1>11, <2>1, <3>1
    <3>3. l < m \/ l = m
      BY <1>10, <3>2
    <3> QED
      BY <1>10, <3>1, <3>2, <3>3 DEF Newer
  <2>2. CASE j \notin P
    BY <1>10, <2>2 DEF Newer
  <2> QED
    BY <2>1, <2>2
<1>13. m >= pushed[i].lastSeq
  BY <1>5, <1>10, <1>11
<1> HIDE DEF P, L, M
<1> QED
  BY <1>1, <1>3, <1>10, <1>12, <1>13

(* What was saved after the newest snapshot was overtaken by it.           *)
LEMMA LaterOvertaken ==
  ASSUME WriterInv, CoreInv, TableInv,
         InOrder(LastBefore, Saved, pushed, everSaved, crashes),
         NEW p \in 1 .. Saved, \A j \in 1 .. Saved : Newer(p, j),
         NEW x \in everSaved, x.id = LastBefore + p
  PROVE  Cardinality(SavedLater(everSaved, x)) <= Cardinality(Overtaken(p))
<1>1. PICK k \in Nat, n \in Nat, m \in Nat, b \in Nat :
        /\ k = Saved /\ k <= n /\ DOMAIN pushed = 1 .. n /\ m = nextId /\ b = LastBefore
  BY SavedCount, TaskPushed DEF InOrder
<1>2. b = m - 1 - k
  BY <1>1 DEF LastBefore
<1>3. p \in 1 .. k /\ x.id = b + p
  BY <1>1
<1> DEFINE S == SavedLater(everSaved, x)
           f == [y \in S |-> y.id - b]
<1>4. x.snap = pushed[p]
  <2>1. ~(x.id <= b) /\ x.id - b = p
    BY <1>3
  <2> QED
    BY <1>1, <2>1 DEF InOrder
<1>5. ASSUME NEW y \in S PROVE y.id - b \in Overtaken(p) /\ y.id \in Nat /\ y \in everSaved
  <2>1. y \in everSaved /\ y.snap.room = x.snap.room /\ x.id < y.id
    BY DEF SavedLater
  <2>2. y.id \in 1 .. m - 1
    BY <1>1, <2>1 DEF TableInv
  <2>3. PICK j \in 1 .. k : j = y.id - b /\ p < j /\ ~(y.id <= b)
    BY <1>2, <1>3, <2>1, <2>2
  <2>4. y.snap = pushed[j]
    BY <1>1, <2>1, <2>3 DEF InOrder
  <2>5. j \in DOMAIN pushed /\ ~(j <= p)
    BY <1>1, <1>3, <2>3
  <2>6. Older(pushed[j], pushed[p])
    BY <1>1, <1>4, <2>1, <2>4, <2>5 DEF Newer, Older
  <2> QED
    BY <2>1, <2>2, <2>3, <2>5, <2>6 DEF Overtaken
<1>6. f \in [S -> Overtaken(p)]
  <2> HIDE DEF S
  <2> QED
    BY <1>5
<1>7. ASSUME NEW y \in S, NEW z \in S, f[y] = f[z] PROVE y = z
  <2>1. PICK yi \in Nat, zi \in Nat : yi = y.id /\ zi = z.id
    BY <1>5
  <2>2. yi - b = zi - b
    BY <1>7, <2>1
  <2>3. y.id = z.id
    BY <2>1, <2>2
  <2> QED
    BY <1>5, <2>3 DEF TableInv, IdsOnce
<1>8. f \in Injection(S, Overtaken(p))
  <2> HIDE DEF S, f
  <2> QED
    BY <1>6, <1>7 DEF Injection, IsInjective
<1>9. IsFiniteSet(Overtaken(p))
  BY OvertakenFinite
<1> HIDE DEF f
<1> QED
  BY <1>8, <1>9, FS_Injection

(* The newest snapshot cannot have been deleted.                           *)
LEMMA NewestIsKept ==
  ASSUME WriterInv, CoreInv, KeptInv
  PROVE  NewestSurvives
<1> SUFFICES ASSUME NEW i \in DOMAIN handled, Orderly(handled[i].room)
             PROVE  \E x \in Current(handled[i].room) : x.snap.lastSeq >= handled[i].lastSeq
  BY DEF NewestSurvives
<1>1. InOrder(LastBefore, Saved, pushed, everSaved, crashes)
  BY DEF KeptInv, SavedInOrder, Orderly
<1>2. PICK k \in Nat, n \in Nat, h \in Nat, b \in Nat :
        /\ k = Saved /\ k <= n /\ DOMAIN pushed = 1 .. n /\ b = LastBefore
        /\ h = Len(handled) /\ h <= k /\ DOMAIN handled = 1 .. h
  BY <1>1, SavedCount, TaskPushed DEF InOrder
<1>3. i \in 1 .. Saved /\ handled[i] = pushed[i]
  <2>1. i \in 1 .. k /\ i \in 1 .. h
    BY <1>2
  <2> QED
    BY <1>2, <2>1, TaskPushed
<1>4. PICK p \in 1 .. Saved :
        /\ pushed[p].room = pushed[i].room /\ pushed[p].lastSeq >= pushed[i].lastSeq
        /\ \A j \in 1 .. Saved : Newer(p, j)
  BY <1>3, NewestPushed
<1>5. PICK x \in everSaved : x.id = LastBefore + p
  BY <1>1 DEF InOrder
<1>6. x.snap = pushed[p]
  <2>1. p \in 1 .. k /\ x.id = b + p
    BY <1>2, <1>5
  <2>2. ~(x.id <= b) /\ x.id - b = p
    BY <2>1
  <2> QED
    BY <1>1, <1>2, <2>2 DEF InOrder
<1>7. x.snap.strokes.run = crashes
  <2>1. p \in DOMAIN pushed
    BY <1>2
  <2>2. IsTrue(boardAt, x.snap)
    BY <1>6, <2>1 DEF CoreInv
  <2> QED
    BY <2>2 DEF CoreInv, BoardOk, IsTrue
<1>8. x \in rows
  <2> SUFFICES ASSUME x \notin rows PROVE FALSE
    OBVIOUS
  <2>1. Cardinality(SavedLater(everSaved, x)) >= KeepLatest
    BY <1>3, <1>4, <1>6 DEF KeptInv, TableInv, Orderly
  <2>2. Cardinality(SavedLater(everSaved, x)) <= Cardinality(Overtaken(p))
    BY <1>1, <1>4, <1>5, LaterOvertaken DEF KeptInv
  <2>3. PICK a \in Nat, c \in Nat, d \in Nat :
          /\ a = Cardinality(Overtaken(p)) /\ c = Cardinality(Overtaking(p))
          /\ d = IoThreads
    BY OvertakenFinite
  <2>4. a + c < d
    <3>1. p \in DOMAIN pushed
      BY <1>2
    <3> QED
      BY <2>3, <3>1 DEF KeptInv, FewOvertaken
  <2>5. PICK e \in Nat : e = Cardinality(SavedLater(everSaved, x))
    <3>1. SavedLater(everSaved, x) \subseteq everSaved /\ IsFiniteSet(everSaved)
      BY DEF SavedLater, KeptInv, TableInv
    <3>2. IsFiniteSet(SavedLater(everSaved, x))
      BY <3>1, FS_Subset
    <3> QED
      BY <3>2, FS_CardinalityType
  <2>6. e >= KeepLatest /\ KeepLatest >= d /\ e <= a
    BY <2>1, <2>2, <2>3, <2>5 DEF Orderly
  <2> QED
    BY <2>4, <2>6, WriterAssumption
<1>9. x \in Current(handled[i].room)
  BY <1>3, <1>4, <1>6, <1>7, <1>8 DEF Current, RowsOf
<1> QED
  BY <1>3, <1>4, <1>6, <1>9

(* Handlers may enqueue the snapshots of a room out of order, and the      *)
(* worker saves them as they come, perhaps in one millisecond; but when    *)
(* the clock was not set back between two of them, as many rows are kept   *)
(* as main.cpp starts threads and no statement has failed, pruning never   *)
(* deletes the newest one, however many clients there are.                 *)
THEOREM NewestSurvivesCorrect == CoreSpec => []NewestSurvives
<1>1. WriterInv /\ CoreInv /\ KeptInv => NewestSurvives
  BY NewestIsKept
<1> QED
  BY <1>1, CoreInvariant, KeptInvariant, PTL

(* When all is quiet, the last state has been handled, and is the newest.  *)
LEMMA LastIsSaved ==
  ASSUME WriterInv, CoreInv, KeptInv
  PROVE  FinalBoardSaved
<1> SUFFICES ASSUME Quiescent, NEW r \in Rooms, Orderly(r), rooms[r].members = {}, boardAt[r] # <<>>
             PROVE  \E x \in Current(r) :
                      x.snap.lastSeq = Len(boardAt[r]) /\ x.snap.strokes = board[r]
  BY DEF FinalBoardSaved
<1>1. \A t \in Threads : ~Holds(t) /\ call[t].at = "none"
  BY DEF Quiescent, Free, NoCall, Holds
<1>2. PICK i \in DOMAIN pushed : pushed[i].room = r /\ pushed[i].lastSeq = Len(boardAt[r])
  BY <1>1 DEF KeptInv, LastInv, LastOnItsWay
<1>3. handled = pushed
  BY TaskPushed DEF Quiescent, Busy
<1>4. PICK x \in Current(r) : x.snap.lastSeq >= Len(boardAt[r])
  BY <1>2, <1>3, NewestIsKept DEF NewestSurvives
<1>5. x \in everSaved /\ x.snap.room = r /\ x.snap.strokes.run = crashes
  BY DEF Current, RowsOf, WriterInv, WriterTypeOK, StoreTypeOK
<1>6. IsTrue(boardAt, x.snap)
  BY <1>5 DEF CoreInv
<1>7. PICK N \in Nat : N = Len(boardAt[r]) /\ DOMAIN boardAt[r] = 1 .. N
  BY LenProperties DEF CoreInv, BoardOk
<1>8. x.snap.lastSeq \in 1 .. N /\ x.snap.lastSeq >= N
  BY <1>4, <1>5, <1>6, <1>7 DEF IsTrue
<1>9. x.snap.lastSeq = N
  BY <1>8
<1>10. board[r] = boardAt[r][N]
  BY <1>7 DEF CoreInv, BoardOk
<1> QED
  BY <1>5, <1>6, <1>7, <1>9, <1>10 DEF IsTrue

(* When everybody has left a room and the queue is drained, the last state *)
(* of its board is in the table: of handlers that leave at the same time,  *)
(* the last one finds memberCount() = 0, and its snapshot is never lost to *)
(* an older one that was enqueued later, under the conditions above.       *)
THEOREM FinalBoardCorrect == CoreSpec => []FinalBoardSaved
<1>1. WriterInv /\ CoreInv /\ KeptInv => FinalBoardSaved
  BY LastIsSaved
<1> QED
  BY <1>1, CoreInvariant, KeptInvariant, PTL

=============================================================================
