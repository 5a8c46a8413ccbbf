-------------------------- MODULE CorePersistence --------------------------
(***************************************************************************)
(* ServerCore with a snapshot sink: the path from a call on a room to the  *)
(* row in the store.                                                       *)
(*                                                                         *)
(* ServerCore::handleEvent and leaveRoom do not hold a lock from the call  *)
(* on the room to the enqueue: apply() or leave(), memberCount(), and      *)
(* makePersistedSnapshot() each take the room's mutex for themselves, and  *)
(* enqueue() is that of SnapshotWriter.  A thread here stands for the      *)
(* handlers of one client, which its strand runs one at a time, on one of  *)
(* the IoThreads threads of main.cpp that run the io_context: at any time  *)
(* at most so many of them are at work.  Of a board, only its version is   *)
(* kept: the sequence number of the last event that changed a stroke, and  *)
(* the run of the server.                                                  *)
(***************************************************************************)
EXTENDS SnapshotWriter, RoomCalls

CONSTANTS
  IoThreads,  \* threadsCount of main.cpp
  Kinds,      \* the kinds of event that clients send
  MaxSeq,     \* bound: sequence numbers of a room
  MaxCrashes  \* bound: crashes of the server

ASSUME CoreAssumption ==
  /\ IoThreads \in Nat \ {0}
  /\ Kinds \subseteq EventKinds /\ MaxSeq \in Nat /\ MaxCrashes \in Nat
  /\ Boards = [run : 0 .. MaxCrashes, seq : 0 .. MaxSeq]

VARIABLES
  rooms,    \* the rooms, as RoomCalls has them
  board,    \* the version of each room's board
  boardAt,  \* history: the version of each board after each event
  call,     \* where a thread is in handleEvent or leaveRoom, and for which
            \* room; in enqueue() itself, pc says where
  crashes   \* number of crashes

coreVars == <<rooms, board, boardAt, call, crashes>>
allVars == <<writerVars, coreVars>>

NoCall == [at |-> "none"]

Version(n) == [run |-> crashes, seq |-> n]

CoreInit ==
  /\ WriterInit
  /\ rooms = [r \in Rooms |-> NewRoom]
  /\ board = [r \in Rooms |-> [run |-> 0, seq |-> 0]]
  /\ boardAt = [r \in Rooms |-> <<>>]
  /\ call = [t \in Threads |-> NoCall]
  /\ crashes = 0

(* The handler of t is in none of the core's methods.                      *)
Free(t) == call[t] = NoCall /\ pc[t] = "idle"

Goes(t, at, r) == call' = [call EXCEPT ![t] = [at |-> at, room |-> r]]

Returns(t) == call' = [call EXCEPT ![t] = NoCall]

ChangesStrokes(kind) == kind \notin {"CursorMove", "MemberLeft"}

(* The call on the room: its outcome, and the version of the board after   *)
(* each event it made.                                                     *)
Update(r, o) ==
  LET after(i) == LET changed == {k \in 1..i : ChangesStrokes(o.events[k].kind)}
                  IN  IF changed = {} THEN board[r]
                      ELSE Version(o.events[CHOOSE k \in changed :
                                              \A j \in changed : j <= k].seq)
      n == Len(o.events)
  IN  /\ o.room.nextSeq <= MaxSeq + 1
      /\ rooms' = [rooms EXCEPT ![r] = o.room]
      /\ board' = [board EXCEPT ![r] = after(n)]
      /\ boardAt' = [boardAt EXCEPT ![r] = @ \o [i \in 1..n |-> after(i)]]

JoinRoom(t, r) ==
  /\ Free(t)
  /\ \A x \in Rooms : t \notin rooms[x].members
  /\ Update(r, JoinCall(rooms[r], t))
  /\ UNCHANGED <<writerVars, call, crashes>>

(* handleEvent: only the end of a stroke and a clear are saved.            *)
ShouldSave(kind) == kind \in {"StrokeEnd", "Clear"}

HandleEvent(t, r, kind) ==
  /\ Free(t)
  /\ t \in rooms[r].members
  /\ \E o \in ApplyCall(rooms[r], t, kind) :
       /\ Update(r, o)
       /\ IF o.err = "none" /\ ShouldSave(kind)
          THEN Goes(t, "snapshot", r) ELSE UNCHANGED call
  /\ UNCHANGED <<writerVars, crashes>>

(* Faulty variant: the members are counted before the client leaves.       *)
LeaveRoomCountsFirst(t, r) ==
  /\ Free(t)
  /\ t \in rooms[r].members
  /\ Update(r, LeaveCall(rooms[r], t))
  /\ IF rooms[r].members = {} THEN Goes(t, "snapshot", r) ELSE UNCHANGED call
  /\ UNCHANGED <<writerVars, crashes>>

(* leaveRoom: leave(), then memberCount(), and a snapshot of an empty room.*)
LeaveRoom(t, r) ==
  /\ Free(t)
  /\ t \in rooms[r].members
  /\ Update(r, LeaveCall(rooms[r], t))
  /\ Goes(t, "count", r)
  /\ UNCHANGED <<writerVars, crashes>>

MemberCount(t) ==
  /\ call[t].at = "count"
  /\ IF rooms[call[t].room].members = {}
     THEN Goes(t, "snapshot", call[t].room) ELSE Returns(t)
  /\ UNCHANGED <<writerVars, rooms, board, boardAt, crashes>>

(* Faulty variant: last_seq is the next number instead of the last one.    *)
SnapshotNextSeq(t) ==
  LET r == call[t].room
  IN  /\ call[t].at = "snapshot"
      /\ call' = [call EXCEPT ![t] =
                    [at |-> "enqueue", room |-> r,
                     snap |-> [room |-> r, lastSeq |-> rooms[r].nextSeq,
                               strokes |-> board[r]]]]
      /\ UNCHANGED <<writerVars, rooms, board, boardAt, crashes>>

MakePersistedSnapshot(t) ==
  LET r == call[t].room
  IN  /\ call[t].at = "snapshot"
      /\ call' = [call EXCEPT ![t] =
                    [at |-> "enqueue", room |-> r,
                     snap |-> [room |-> r, lastSeq |-> rooms[r].nextSeq - 1,
                               strokes |-> board[r]]]]
      /\ UNCHANGED <<writerVars, rooms, board, boardAt, crashes>>

EnqueueSnapshot(t) ==
  /\ call[t].at = "enqueue"
  /\ FetchAdd(t, call[t].snap)
  /\ Returns(t)
  /\ UNCHANGED <<rooms, board, boardAt, crashes>>

(* The process is killed and started again: the table is all that is left, *)
(* and the room ids are handed out from the first one again.               *)
Crash ==
  /\ crashes < MaxCrashes
  /\ crashes' = crashes + 1
  /\ pc' = [t \in Threads |-> "idle"]
  /\ arg' = [t \in Threads |-> NoSnapshot]
  /\ pending' = 0 /\ q' = <<>> /\ stop' = FALSE
  /\ worker' = "awake" /\ task' = NoSnapshot
  /\ pushed' = <<>> /\ handled' = <<>>
  /\ rooms' = [r \in Rooms |-> NewRoom]
  /\ board' = [r \in Rooms |-> [run |-> crashes', seq |-> 0]]
  /\ boardAt' = [r \in Rooms |-> <<>>]
  /\ call' = [t \in Threads |-> NoCall]
  /\ UNCHANGED <<storeVars, failures>>

(* The handlers at work, each on a thread of its own.                      *)
AtWork == {t \in Threads : ~Free(t)}

(* A thread of the io_context is free and takes up the next handler of t.  *)
CoreCall(t) ==
  /\ Cardinality(AtWork) < IoThreads
  /\ \E r \in Rooms :
       \/ JoinRoom(t, r) \/ LeaveRoom(t, r)
       \/ \E kind \in Kinds : HandleEvent(t, r, kind)

CoreStep(t) == MemberCount(t) \/ MakePersistedSnapshot(t) \/ EnqueueSnapshot(t)

CoreNext ==
  \/ Crash
  \/ \E t \in Threads : CoreCall(t) \/ CoreStep(t)
  \/ /\ WriterAction \/ \E t \in Threads : EnqueueStep(t)
     /\ UNCHANGED coreVars

CoreSpec == CoreInit /\ [][CoreNext]_allVars

-----------------------------------------------------------------------------
(* The rows that this run of the server wrote for a room.                  *)
Current(r) == {x \in RowsOf(r) : x.snap.strokes.run = crashes}

(* A snapshot is a state the room was in: the strokes of a row are those   *)
(* of the board right after the event its last_seq names, although no lock *)
(* is held from the event to the snapshot.                                 *)
SnapshotsTrue ==
  \A r \in Rooms : \A x \in Current(r) :
    /\ x.snap.lastSeq \in DOMAIN boardAt[r]
    /\ x.snap.strokes = boardAt[r][x.snap.lastSeq]

(* What the order of the table needs: the clock was not set back from one  *)
(* save of the room to another, the store did not fail, and as many rows   *)
(* are kept as handlers can be at work, for each may be holding a snapshot *)
(* that has become an old one.                                             *)
Orderly(r) == failures = 0 /\ KeepLatest >= IoThreads /\ TimesInOrder(r)

(* Snapshots may be enqueued out of order, and saved in one millisecond;   *)
(* but the newest of a room that was handled is still in the table,        *)
(* beside whatever rows earlier runs of the server left there.             *)
NewestSurvives ==
  \A i \in DOMAIN handled :
    Orderly(handled[i].room) =>
      \E x \in Current(handled[i].room) : x.snap.lastSeq >= handled[i].lastSeq

Quiescent ==
  /\ \A t \in Threads : Free(t)
  /\ q = <<>> /\ worker = "asleep"

(* The board of a room that everybody has left is in the table in its last *)
(* state, once the queue is drained: the check of memberCount() after      *)
(* leave() misses no last member, however leaves and joins interleave.     *)
FinalBoardSaved ==
  Quiescent =>
    \A r \in Rooms :
      Orderly(r) /\ rooms[r].members = {} /\ boardAt[r] # <<>> =>
        \E x \in Current(r) :
          x.snap.lastSeq = Len(boardAt[r]) /\ x.snap.strokes = board[r]

=============================================================================
