--------------------------- MODULE SnapshotStore ---------------------------
(***************************************************************************)
(* The snapshots table of persistence/src/sqlite_snapshot_store.cpp and    *)
(* the statements run on it.  A statement is one transaction of SQLite, so *)
(* one step.  The module defines actions and queries; it is extended by    *)
(* SnapshotWriter, the component that runs the statements, and by          *)
(* StoredBoards, which adds the queries and what is in a row.              *)
(***************************************************************************)
EXTENDS Integers, FiniteSets

CONSTANTS
  Rooms,    \* room ids
  Boards,   \* contents of a board: a vector of strokes
  MaxClock  \* bound: readings of the clock, in milliseconds

ASSUME StoreAssumption == MaxClock \in Nat

VARIABLES
  rows,       \* the rows of table snapshots
  nextId,     \* the next id AUTOINCREMENT hands out
  everSaved   \* history: every row that was ever inserted

storeVars == <<rows, nextId, everSaved>>

PersistedBoardSnapshot == [room : Rooms, lastSeq : Nat, strokes : Boards]

Row == [id : Nat, savedAt : Nat, snap : PersistedBoardSnapshot]

StoreTypeOK ==
  /\ rows \subseteq everSaved
  /\ everSaved \subseteq Row
  /\ nextId \in Nat \ {0}

StoreInit ==
  /\ rows = {}
  /\ nextId = 1
  /\ everSaved = {}

(* WHERE room_id=?                                                         *)
RowsOf(room) == {x \in rows : x.snap.room = room}

(* Faulty variants: ORDER BY without DESC, and an index that has DESC as   *)
(* well, in which rows of one millisecond come in the order of their ids.  *)
PrecedesAscending(x, y) ==
  \/ x.savedAt < y.savedAt
  \/ x.savedAt = y.savedAt /\ x.id < y.id

PrecedesTiesById(x, y) ==
  \/ x.savedAt > y.savedAt
  \/ x.savedAt = y.savedAt /\ x.id < y.id

(* ORDER BY saved_at_ms DESC: SQLite answers it from the index on room_id  *)
(* and saved_at_ms, read backwards.  An index entry ends with the rowid,   *)
(* so of the rows of one millisecond the one saved last comes first.       *)
Precedes(x, y) ==
  \/ x.savedAt > y.savedAt
  \/ x.savedAt = y.savedAt /\ x.id > y.id

(* ... LIMIT keep.                                                         *)
Newest(S, keep) ==
  {T \in SUBSET S :
     /\ Cardinality(T) = IF keep <= Cardinality(S) THEN keep ELSE Cardinality(S)
     /\ \A x \in T, y \in S \ T : Precedes(x, y)}

(* nowMs() reads system_clock, which may run on, stand still or be set     *)
(* back between two readings.                                              *)
NowMs == 0 .. MaxClock

(* Faulty variant: INTEGER PRIMARY KEY without AUTOINCREMENT, which hands  *)
(* out the id after the largest one that is in the table.                  *)
SaveReusesId(snap) ==
  LET free == {n \in 1 .. nextId : \A x \in rows : x.id < n}
      id == CHOOSE n \in free : \A k \in free : n <= k
  IN  /\ \E now \in NowMs :
           LET row == [id |-> id, savedAt |-> now, snap |-> snap]
           IN  rows' = rows \cup {row} /\ everSaved' = everSaved \cup {row}
      /\ nextId' = nextId + 1

(* save() that succeeds: one INSERT.                                       *)
Save(snap) ==
  /\ \E now \in NowMs :
       LET row == [id |-> nextId, savedAt |-> now, snap |-> snap]
       IN  rows' = rows \cup {row} /\ everSaved' = everSaved \cup {row}
  /\ nextId' = nextId + 1

(* pruneKeepLatest() that succeeds: one DELETE; keep = 0 deletes all.      *)
PruneKeepLatest(room, keep) ==
  /\ \E T \in Newest(RowsOf(room), keep) : rows' = (rows \ RowsOf(room)) \cup T
  /\ UNCHANGED <<nextId, everSaved>>

(* What can be said of the order of the rows of a room needs that the      *)
(* clock was not set back from one save of it to another; it may have      *)
(* stood still.                                                            *)
TimesInOrder(room) ==
  \A x, y \in everSaved :
    x.snap.room = room /\ y.snap.room = room /\ x.id < y.id => x.savedAt <= y.savedAt

=============================================================================
