# ClearSpace in TLA+

ClearSpace is a shared whiteboard: clients connect over TCP, enter a room, and
send drawing events that the server numbers and forwards to the other members.
This directory models the server: the rooms, the sessions that connect clients
to them, the JSON they speak, the background writer that keeps snapshots of the
boards and the database it keeps them in. The modules are translated from the
C++ sources; `PROJECT.json` maps every definition to the lines it models.

## The system

| Component | State | Operations | Called by |
|---|---|---|---|
| `core::Room` | members, board (strokes, cursors), the next sequence number and stroke id, and three maps: last cursor update, active stroke by client, index of a stroke by id | `join`, `leave`, `apply` (five kinds of event), `makePersistedSnapshot`, `memberCount`; one mutex, held for the whole of each call | `ServerCore` |
| `core::ServerCore`, `RoomManager` | the rooms by id, the next id | `createRoom`, `joinRoom`, `leaveRoom`, `handleEvent` | sessions, on any thread |
| `persistence::SnapshotWriter` | a queue with its mutex and condition variable, the atomic `pending_`, a second pair for `flush` | `enqueue`, `flush`, the worker's loop, the destructor | `ServerCore` as its snapshot sink |
| `persistence::SqliteSnapshotStore` | the table `snapshots`, with a board as a blob; the handle `db_` | `init`, `save`, `pruneKeepLatest`; queries `list`, `loadById`, `loadLatest` | the writer's worker; the queries only by tests |
| `server::ClientSession` | its strand, write queue, current room, `stopped_` | read a line and handle it, `deliver`, write, `stopImpl` | Asio handlers; other sessions through the registry |
| `server::SessionRegistry` | sessions by client id | `add`, `remove`, `find`, `deliver` | sessions, the acceptor |
| `server::TcpServer` | the next client id | `onAccept` | Asio |
| `transport` | none | parse a line, map to and from core types, serialize | sessions |
| `app/main` | none | wiring; the io_context runs on at least two threads | |

A request travels: socket -> read handler on the session's strand -> `ServerCore`
-> `Room` (numbered under the room's mutex) -> back in the handler, for every
recipient `SessionRegistry::deliver` -> post to the recipient's strand -> its
write queue -> socket. The end of a stroke, a clear, and the departure of the
last member also send a snapshot: `Room::makePersistedSnapshot` ->
`SnapshotWriter::enqueue` -> worker -> `save`, `pruneKeepLatest`.

What is hard here:

* a room's mutex orders the events, but they are posted after it is released;
* a session can be stopped by a failed write while a completed read is waiting
  on its strand;
* the snapshot is taken in a second critical section, after the event's;
* whether the room is empty is read after `leave` has returned;
* `pending_` is changed outside every lock, and `flush` waits on a condition
  variable whose notifier does not hold the mutex;
* the store may fail at each of two statements, and retention orders rows by a
  wall clock in milliseconds, which may stand still or be set back;
* numbers change their type several times between a line and the board, and a
  board passes twice through conversions that must be inverse: to JSON, where a
  snapshot and the events are two encodings of one board, and to a blob.

## Modules

| Module | What it is |
|---|---|
| `Room` | class `Room`, one action per call; its variables are the class's members |
| `RoomCalls` | what a call on a room does to membership, drawing and numbering: the room without its board, as operators |
| `RoomProtocol` | the abstract specification of a room, made of the calls of `RoomCalls` |
| `RoomRefinement` | the refinement mapping from `Room` to `RoomProtocol` |
| `RoomClients` | `Room` together with the boards its clients see |
| `Transport` | the codec as operators: the JSON library's conversions, `parseClientMessage`, the mappers, `serializeServerMessage` |
| `RoomWire` | `Room` behind `Transport`: lines in, lines out, and the boards clients piece together from JSON |
| `Sessions` | TcpServer, SessionRegistry, ClientSession and ServerCore, on the rooms of `RoomCalls` |
| `SnapshotStore` | the table and the statements that change it |
| `StoredBoards` | all of the store: `SnapshotStore` with the blob format, the queries, the handle, and blobs damaged on disk |
| `SnapshotWriter` | the writer, its threads and worker, on `SnapshotStore` |
| `SnapshotSink` | the abstract specification of the writer: what `ISnapshotSink` promises the core |
| `SinkRefinement` | the refinement mapping from `SnapshotWriter` to `SnapshotSink` |
| `CorePersistence` | `ServerCore` with its snapshot sink: rooms of `RoomCalls`, the writer and the store together, with crashes |
| `RoomProofs`, `RoomWireProofs`, `SnapshotWriterProofs`, `StoredBoardsProofs`, `SessionsProofs`, `SessionsOrderProofs`, `CorePersistenceProofs` | theorems about the module of that name (`RoomProofs`: about `RoomClients` and `RoomRefinement` too), and their TLAPS proofs |
| `SinkRefinementProofs` | the proof that the writer implements `SnapshotSink` |
| `MC*` | instances for TLC |

A definition commented "Faulty variant" is not part of any specification: it is
a plausible mistake in the definition that follows it, used to check that a
property can tell the difference.

### How state and steps correspond

**Room.** The unordered maps are functions whose domains are their keys. The
vector of strokes is a sequence, so the index is one more than in C++. The map
from a stroke id to its index is kept, although it is redundant: that it stays
exact is the point. `out` and `err` are what the last call returned; a
broadcast is one record with the set of its recipients, since their order is
that of a hash table. A colour and a thickness are one style. Sequence numbers
are unbounded (64 bits in the code).

**Sessions.** Handlers of one strand run one at a time, in order of arrival;
handlers of different sessions run in parallel. A handler that calls the core
is split where another session can come in between: the call on the room, one
step for each message it posts, and its end. Until its end the next handler of
the same strand cannot start. `stopImpl` sets `stopped_` and leaves the room
("stopping"), posts to the others, then closes ("closed"). The network is not
part of the program: a read or write that was started completes or fails;
it can fail only when the connection is broken or the socket closed.
`log` and `since` are history: who caused each event, and what number was next
when a client joined. `RoomsAtStart` gives the runs a room made by an earlier
client, which saves two lines of every trace; `sessions` creates rooms as well.

**Transport and RoomWire.** A JSON value is a record with one field named for
its type; a line is such a value, or `NotJson`. A conversion of the JSON library
is the set of its possible results: empty if it throws, several if C++ leaves
the result undefined (a double out of range of an unsigned type). The parser
keeps an integer as such if it fits 64 bits, signed or unsigned (`JsonInt`), and
such a number wraps when it is converted to a narrower type, as in the library; of a
larger one it makes a double, as of a number with a fraction. The widths are
constants: the runs use 8 values for a byte, 16 for `unsigned int` and 32 for
`std::uint64_t`, so that every boundary is near. Floats hold halves and doubles are given
in quarters, so that some must be rounded, and a float beyond `FloatMax` is
infinite and becomes `null` in JSON. A client knows a board only from the JSON
it was sent. Lines arrive one at a time: what sessions do to their order is the
subject of `Sessions`. TLC compares states by room and boards (`VIEW`): the
last line and its answer decide nothing afterwards, and `RelayedAsSent` is a
property of steps, which TLC checks on every step it takes.

**SnapshotWriter.** One action for each step another thread can interleave
with. In `flush`, testing the predicate ("test" to "park") and going to sleep
("park" to "parked") are two steps, because the worker notifies without
`flushM_`. For `cv_` they are one step, because both sides hold `m_`. The
destructor sets `stop_` and notifies in one step: only the worker is left then.
`pending_` uses relaxed atomics; on a single atomic object they still have one
modification order, and the model reads the latest value.

**SnapshotStore.** `nowMs` may read any time (`NowMs`): the clock is not part of
the program and may run on, stand still or be set back between two saves. Rows
of one millisecond have the order of the index: SQLite answers `ORDER BY
saved_at_ms DESC` from `idx_snapshots_room_saved`, read backwards, and an entry
of the index ends with the rowid, so the row saved last comes first (`Precedes`).
SQL itself leaves that order open. The faulty variant `PrecedesTiesById` is what
SQLite does if the index is declared `DESC` as well. What is said of the order of
rows has the condition `TimesInOrder`: the clock was not set back from one save
of the room to another. Nothing in the code guarantees that. If it is set back,
the prune right after an INSERT may delete the very row that was inserted.

**StoredBoards.** A blob is a sequence of bytes, and a load is a sequence of
`readLE` calls with their cursor `p`, so that a load can be followed byte by
byte; reads that can only fail together are one step. A byte has 4 values, the
two integer types 2 bytes and a float 1; the layout is the code's. `db` is
`db_`: null, open, or set by an `sqlite3_open` that failed. `InitFails` has
every way `init` can throw; since `init` returns at once when `db_` is set, a
store whose first `init` threw before the table existed does not work again
until it is destroyed, and the model shows that as calls without an action.
`Damage` cuts, extends or changes a blob while no server has the file open.

**SnapshotSink.** The backlog is the worker's task followed by the queue;
"tried" is that the worker is past the save; what was saved is all rows ever
inserted, by id; closed is that the worker has ended.

**CorePersistence.** A thread stands for the handlers of one client, which its
strand runs one at a time; there may be any number of clients. At most
`IoThreads` of them are at work at a time, from the call of the core's method to
its return: that many threads of `main.cpp` run the io_context. The content of a
board is its version: the number of the last event that changed a stroke. A crash loses all memory and keeps the table,
and room ids are handed out from 1 again; versions carry the run of the server,
so that boards of different runs with one room id are told apart.

## Runs

| Run | Question | Bounds |
|---|---|---|
| `room` | do the maps of `Room` stay exact, does a call change no more than it may, do clients that replay events see the server's board, are cursor moves passed on at the right rate, does `Room` implement `RoomProtocol`? | 3 clients, 2 points, 5 sequence numbers, 2 ticks, interval 2 |
| `wire` | do only valid values reach the board, is an event relayed as sent, do snapshots and events tell the same board? | 2 clients, 33 lines, some at or beyond the limits of their types, 4 numbers |
| `wire_range` | is a colour out of range refused? (it need not be) | 2 clients, colours up to `WordSize` + 1 |
| `store` | does a load give back what was saved, is damage noticed, do ids stay good, is the latest row the last one? | 2 rooms, 3 boards, 2 saves, keep 0 or 1, 1 damaged blob, 2 readings of the clock |
| `writer` | is anything lost, reordered or counted wrongly, is everything handled, does the writer implement `SnapshotSink`, what does retention keep? | 2 threads, 2 rooms, 3 snapshots, keep 1, 2 failures, 2 readings of the clock |
| `writer_flush` | does `flush` return? (it need not) | 1 thread, 1 snapshot |
| `sessions` | sessions and rooms agree, writes do not overlap, no event is missed | 2 clients, one fragile, 2 rooms, 4 lines |
| `sessions_live` | is everything written, is a broken connection cleaned up? | 2 clients, one fragile, 3 lines |
| `sessions_order` | do events arrive in order of their numbers? (they need not) | 3 clients, 5 lines |
| `sessions_snapshot` | does a snapshot have all that its receiver was sent before? (it need not) | 2 clients, 3 lines |
| `sessions_ghost` | does a client whose connection broke leave its room? (it need not) | 1 client, 2 lines |
| `persistence` | are rows true, and are the newest and the final board kept, across a crash? | 3 clients, 2 threads, 3 numbers, keep 2, 1 crash, all rows in one millisecond |

Why the bounds suffice for the cases that matter: three clients are an author,
a second author and an observer. Five numbers are enough to draw, clear in
mid-stroke, draw again and leave. Interval 2 with 2 ticks has a move that is too
early, one exactly on time and one after rejoining. On the wire two clients and
four numbers suffice, since the room itself is explored by `room`; among the lines
are fields that are missing, of another type, negative, fractional, at the limit
of their type and just beyond it, and one that nobody reads. Two sessions are each an author and the observer of the other, and
four lines let both join and draw. One of them may break: what a broken
connection disturbs is itself and the session that posts to it, and both
clients take both parts towards the room. Three snapshots, one kept, let
retention delete twice. Two failures are one at each statement, in either order.
In `store`, two saves are a row and one after it, in the same room or in
another; the boards have no stroke, one, and two with the second in progress.
Two readings of the clock let rows tie, follow one another, and be stamped
earlier than one saved before. In `persistence` one reading is enough: under
`TimesInOrder` the order of the table is that of the ids, whatever the readings
were, and the properties say nothing otherwise. Three clients on two threads
are more clients than rows kept, so that the condition on the rows is about the
threads.

Deadlock is checked for the rooms, the wire and the store. It is not for the
others, which may stop: a destroyed writer is done, a server with no lines left to read waits, and the
bounds end a run.

Points, clients, threads and rooms are interchangeable, so `room`, `store`,
`sessions_order` and `persistence` use symmetry; runs that check liveness do
not, and neither do runs with a fragile client.

### What the properties say

* *Room.* `IndexExact`, `ActiveIsOpen`, `OpenIsActive`, `BoardOrdered` and
  `CursorsOfMembers` tie the maps to the board: no lookup goes wrong after a
  clear, no stroke stays open when its author is gone. `StrokesOnlyGrow`: what
  is drawn is not changed. `SeqPerBroadcast`: one number for each broadcast.
  `CursorRate`: the rate limit, of what the members are told. They are told of a
  move exactly if they were not told of one by that client within the interval,
  since it joined; so broadcasts are never too close, and a move exactly at the
  interval, or after others were dropped, is not lost.
* *Clients.* `ViewsAgree`: a snapshot and the events after it are enough to
  have the server's board. Clients are modelled from the repository's README.
* *Wire.* `WireViewsAgree`: the same when all a client has is JSON, so that the
  two encodings of a board agree. `RelayedAsSent`: what an author wrote is what
  the others are sent, for numbers their types can hold. It is about the fields
  that `parseClientMessage` reads: a `seq` in a request, say, is ignored, and
  the event has the server's.
* *Sessions.* `RoomsAgree`: `currentRoom_` and `members_` say the same.
  `OneWrite`: one asynchronous write at a time, and one whenever there is
  something to write. `AuthorOrder`: the events of one author arrive in order.
  `NoGap`: a member is sent each event since it joined exactly once.
  `EventuallyWritten`: what is queued is written, or the session closes.
* *Writer.* `PendingCounts`, `QueueExact`, `NoLostWakeup`, `DestructorDrains`,
  `FlushMeansHandled`, `EventuallyHandled`: see the module. `RetentionBound`:
  how many rows a room has. `LastRowsKept`: a row is deleted only for as many
  others of its room as are kept, and all of these were saved after it, unless
  the clock was set back; rows of one millisecond are included.
  `ImplementsSink`: snapshots are saved in the order they were pushed, at most once each, and none is left when the
  destructor returns.
* *Store.* `LoadReturnsSaved`: the blob format loses nothing. `DamageRefused`: a
  blob that lost its end or grew is refused at whatever byte. `ListedIdsStable`:
  an id from `list` never names a later row (the table's AUTOINCREMENT).
  `LatestIsLastSaved`: what `loadLatest` finds after pruning and restarts is the
  row saved last, unless the clock was set back.
* *Persistence.* `SnapshotsTrue`: a row's strokes are those of its `last_seq`.
  `NewestSurvives`: pruning does not remove the newest snapshot although
  snapshots are enqueued out of order. `FinalBoardSaved`: when the last member
  has left, the table has the final board.

`NewestSurvives` and `FinalBoardSaved` hold of a room (`Orderly`) if at least as
many rows are kept as threads run the io_context, the clock was not set back
between two saves of the room and no statement fails. How many clients there are
does not matter, nor whether rows tie. The first condition is tight: with one row
fewer, TLC finds a trace in which that many stale snapshots follow the newest one
and push it out. The program keeps 10 rows and starts one thread per hardware
thread, at least two, so on a machine with more than ten the condition is not
met. A row belongs to this run of the server if its version does; rows of
earlier runs with the same room id count towards those that are kept, and
pruning beside them is covered, but a reader of the table cannot tell the two
boards apart.

### Fairness

`FairWriterSpec`: a thread that can run does run, and statements of the store
end. Nobody has to call anything, and spurious wake-ups need not happen.
`FairSpec` of `Sessions`: the io_context runs queued handlers; an operation on a
broken or closed socket fails eventually; a connected client reads what it is
sent. The last is an assumption about clients; without it a write queue grows
for ever. No client has to send anything.

## Findings

1. **`flush` can sleep for ever** (`writer_flush`). The worker decrements
   `pending_` and notifies without `flushM_`; if it does so between the test and
   the wait in `flush`, the notification is lost and no other follows. Taking
   `flushM_` around the decrement would repair it.
2. **Events can arrive out of order** (`sessions_order`). Two handlers number
   their events 1 and 2, then post to a third session in the order 2, 1. The
   README promises that the order of events is preserved. What does hold is
   `AuthorOrder`; clients can restore the order, for `NoGap` and
   `SeqPerBroadcast` say that every number accounted for arrives.
3. **A ghost member** (`sessions_ghost`). A read has completed with `join_room`;
   before its handler runs, a failed write runs `stopImpl`, with no room to
   leave. Then the line is handled and the client joins. Nothing removes it: it
   stays in `members_`, and the room never becomes empty. `onReadLine` checks
   `stopped_` only after `handleLine`.
4. **A colour out of range is drawn** (`wire_range`). Colour and thickness are
   read as `unsigned int`, which keeps the lower 32 bits of a JSON integer, and
   only then compared with 255: 2^32 + 1 passes as 1. The error that should have
   been sent is in the code: "color or thickness is out of range". Reading them
   as `std::uint64_t` would narrow the gap, not close it, for negative numbers
   wrap too; the range has to be checked on the JSON value.
5. **A snapshot can arrive after an event it lacks** (`sessions_snapshot`).
   `joinRoom` makes the client a member and takes the snapshot under the mutex,
   but the handler posts it after the mutex is released. An event of another
   member, numbered later, can be posted first. A client that shows the snapshot
   as a whole, as the README has it, loses that event. `last_seq` in the
   snapshot lets a client find out; it has to keep earlier events and replay
   those with higher numbers.

## Proofs

`tlapm` checks the eight proof modules to the last leaf. The theorems hold for
every value of the constants that satisfies the `ASSUME`s of the modules, which
TLC evaluates on the runs' instances:

* bounds, intervals and numbers of rows kept are natural numbers, and a byte
  has more than one value (`StoredAssumption`);
* finitely many threads use the writer, and what the code does not pass as a
  snapshot is not one (`WriterAssumption`);
* the rooms a server starts with are within the bound on rooms
  (`SessionsAssumption`);
* a board of `CorePersistence` is a version, that is a run of the server and a
  number, and at least one thread runs the io_context (`CoreAssumption`);
* the members of a stroke fit the types they are written with, and the counts
  of strokes and points fit the `std::uint32_t` they are cast to
  (`DrawnAssumption`); the blobs of such boards are values of the column
  (`BlobAssumption`, which only gives the column its type);
* client ids are natural numbers, and styles and points are the values of their
  C++ types (`WireAssumption`); types are ordered by their width, a byte has at
  least the four colours, and a float can be 1 (`TransportAssumption`);
* a line is JSON or `NotJson`, and none is a `create_room` (`LinesAssumption`).
  What is in a line is open: any fields, of any types, with any numbers.

No theorem has a hypothesis of its own. Conditions on the clock, on failures and
on the rows kept are in the properties, where TLC checks them too.

**RoomProofs.** The inductive invariant is `TypeOK /\ RoomInv`. Its parts need
one another. That `leave` and the end of a stroke finish the right stroke needs
`IndexExact`; `IndexExact` after a begin needs that the new id is not on the
board, which is `BoardOrdered`; `OpenIsActive` after an end needs that only one
stroke has that id, again `IndexExact`. One lemma for each action shows that it
keeps the invariant; `FinishInv` is shared by `leave` and the end of a stroke.
`SeqCorrect` and `GrowCorrect` are action properties, from the same invariant.
So is `RateCorrect`, which needs in addition that the limiter's memory and what
the members were told are the same (`RateInv`): `lastCursorUpdate_` of a client
is when the others were last told of its cursor, and is empty when it left. `ViewsCorrect` is about `RoomClients`: a client finds the
stroke an event is about by its id, so replay and room do the same because ids
differ (`IndexExact`) and the stroke a client is drawing is its own
(`ActiveIsOpen`). `Shows` says what a view holds without choosing an index by
an id; one lemma for each kind of event shows that replay keeps it. A call makes
at most two broadcasts, so no induction is needed for what a client receives.

`RoomImplementsProtocol`: every step of `Room` is, under the mapping of
`RoomRefinement`, a call of `RoomProtocol` or stutters. The code looks for a stroke
in two maps where the abstract room has one set of clients that are drawing; the
mapping is right because of `ActiveIsOpen`.

**RoomWireProofs.** Four parts. First, what a message says of its line
(`Says`), from the checks of `parseClientMessage`, and that an event is applied
with values of the room's types only: `WireTypeCorrect`, for any lines.
Secondly, the lines of events and snapshots, field by field (`BeginLine` to
`SnapshotLine`). Thirdly, `JsonView` is the JSON of a view of `RoomClients`, and
replaying a line on the JSON of a view is the JSON of the event replayed on the
view (`JsonBegin` to `JsonLeft`). So what `RoomProofs` shows of events and views
carries over, and the inductive invariant `WireInv` can say that a member has
heard the JSON of what it should see. That a snapshot says the same
(`SnapshotShows`) needs that ids differ and that the sorted sequence of cursors
exists: `SortedExists`, for finite sets, and members are finitely many because
they come one at a time. `WireViewsCorrect` follows. Fourthly,
`RelayedCorrect`: a number that fits its type does not wrap, a coordinate
has exactly one float, and the fields of the event's line are those of the
message.

**SnapshotWriterProofs.** The inductive invariant is the type invariant,
`PendingCounts`, `QueueExact` and `NoLostWakeup`, with two additions: once
`stop_` is set no thread is inside a call, and the worker is done only when
`stop_` is set and the queue is empty. `PendingCounts` follows the snapshots
through the threads about to push, the queue and the worker's hand; the
cardinality lemmas about `Pushing` are what it needs. `FlushCorrect` follows:
`pending_` = 0 means that all three places are empty. A second invariant,
`RetentionInv`, is about the table: the rows are finitely many, ids are handed
out once and below the next one, an older row outlives a newer one only with a
later reading of the clock (`OutlivedByLater`), and a room that lost a row has
`keepLatest_` left (`EnoughKept`). `RetentionCorrect` and `LastRowsCorrect` follow
from it; the lemmas about the ranks of rows say how many are left by the DELETE.

**SinkRefinementProofs.** `WriterImplementsSink`. The mapping reads the table as
a sequence, so it needs that the ids handed out are 1 to `nextId` - 1, each to
one row, and that only accepted snapshots are pushed (`SinkInv`). An INSERT is
then an append.

**SessionsProofs.** That a session has one write at a time (`OneWrite`) is not
inductive. The right to read, and the right to write, is a token that is in one
of three places: the socket, the strand (the handler of the completion) or the
running handler. The invariant counts the tokens, and ties where a client is to
how far the handler that is running has got: in the middle of `stopImpl` a
client may be out of its room and still registered. `TypeCorrect`,
`RoomsCorrect` and `WritesCorrect` follow.

**SessionsOrderProofs.** `AuthorsCorrect` and `GapsCorrect` follow an event from
the log of its room, through the handler that posts it, to the strand of the
recipient. `OrderInv`: what a handler has still to post is of its own client
(`TodoKnown`), rises (`TodoRising`), and comes after what was posted of this
client before (`PostedFirst`). `GapInv`: an event of a room that a member has
not been sent is still to be posted to it, by the handler of its author. Nothing in the
invariant relates two authors, which is where `sessions_order` finds events out
of order.

**StoredBoardsProofs.** The properties relate queries made at different times.
The invariant has what the table keeps in between: ids are handed out once
(`IdsOnce`), what `list` returned was saved (`ListedSaved`), and an older row
outlives a newer one only with a later reading of the clock
(`OutlivedByLater`). The bounds of
the reader (`StoredTypeOK`) hold for any blob, damaged or not. `ListedIdsCorrect` and
`LatestCorrect` follow.

The other half is about the bytes. `Layout` says where in a blob each stroke and
each point begins and which bytes they have there, and every blob that
`SerializeStrokes` makes has such a layout; reading `size` bytes where a number
was written gives the number back (`Holds`), whatever the width of the types. A
load of a blob that agrees with what was written up to its end has read
exactly what was written before its cursor (`Tracks`); that is the invariant
`ContentInv`, together with what became of each blob on disk. At the end of the
blob the load is therefore the whole board (`LoadReturnsSavedCorrect`), and a
blob that ends earlier or goes on makes some read fail, or the last check
(`DamageRefusedCorrect`).

**CorePersistenceProofs.** `CoreInv` says of the snapshots in the handlers'
hands and in the queue what `SnapshotsTrue` says of rows. For `NewestSurvives`,
four facts: no more handlers are at work than there are threads (`FewAtWork`);
a snapshot that is pushed after a newer one was in a handler's hands when the
newer one was taken, and a handler has one at a time, so fewer than `IoThreads`
are (`FewOvertaken`); rows are saved in the order of the pushes
(`SavedInOrder`); unless the clock was set back, a row is deleted only when as
many rows as are kept were saved after it, in a later millisecond or in the same
one (`TableInv`). `FinalBoardSaved` needs in addition that the last state of an
empty room is in some hands or pushed (`LastInv`). Both are proved for every
number of clients and of threads, and nothing is assumed of the clock beyond
the condition in the properties themselves.

Where a recursive function is followed over its whole argument (the bytes of a
number, the points of a stroke, the strokes of a board, a sorted sequence), the
induction is over a set: the numbers up to a bound for which a statement holds
have no least exception, by `WFMin` and `NatLessThanWellFounded`. The
library's induction theorems, which have an operator as a parameter, are beyond
the provers.

Only model-checked: `EventuallyHandled` and `EventuallyWritten`. Liveness under
fairness is beyond the prover. Every invariant and every other action property
of the passing runs is proved.

## Not modelled

* The text of lines: what nlohmann::json accepts as JSON, and the wording of
  error messages. A JSON value is modelled from the parsed form on.
* `create_room` in `RoomWire`, which has one room; `Sessions` has the request.
* The order of the result of `list`, and damage to the file other than to blobs.
* Exceptions other than those of the store (memory, failures of sockets other
  than the ones reported to the handlers) and a failed accept.
* `ClientSession::stop`, which nothing calls.
* A clock set back: it is in the models, but nothing is claimed of the order of
  the rows of a room after it. What still holds is how many rows are kept.
* `main`, its threads aside: arguments, and the construction of the components.
  The acceptor is always armed, so `io_context::run` does not return and the
  server ends by being killed, which `persistence` models as a crash.

## Status

Modelled and checked: the core (`Room` with its abstraction and its clients),
the codec and the room on the wire, the writer with its abstract sink, the store
with blobs and queries, the sessions, and persistence end to end. Proved: the
safety of all of them, and both refinements.

Two hazards have no property. A write queue has no limit; `Sessions` has it so,
and nothing in the repository promises one. And a board of more than 2^31 bytes
would give SQLite a negative length; `DrawnAssumption` takes boards to be smaller.
