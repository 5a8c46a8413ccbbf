---------------------------- MODULE StoredBoards ----------------------------
(***************************************************************************)
(* All of persistence/src/sqlite_snapshot_store.cpp: the statements of     *)
(* SnapshotStore.tla, the queries, the blob in which a row keeps a board,  *)
(* the handle to the database, and rows whose blob was damaged on disk,    *)
(* which deserializeStrokes() has to detect.                               *)
(*                                                                         *)
(* A byte has Base values and the integer types have few bytes; a float is *)
(* its bit pattern.  The machine is little-endian.  The steps of a load    *)
(* are the SELECT, which yields the blob, and the readLE() calls on it;    *)
(* reads that can only fail together are one step.  A call on a handle     *)
(* that does not work throws and changes nothing, so it has no action.     *)
(***************************************************************************)
EXTENDS SnapshotStore, SequencesExt

CONSTANTS
  Base,       \* 2^8: values of a byte
  Size32,     \* sizeof(std::uint32_t)
  Size64,     \* sizeof(std::uint64_t)
  SizeFloat,  \* sizeof(float)
  Drawn,      \* the boards that are saved: sequences of strokes
  Keeps,      \* arguments of pruneKeepLatest()
  MaxSaves,   \* bound: calls of save()
  MaxDamages  \* bound: blobs that are damaged

ASSUME StoredAssumption ==
  /\ Base \in Nat \ {0, 1}
  /\ Size32 \in Nat \ {0} /\ Size64 \in Nat \ {0} /\ SizeFloat \in Nat \ {0}
  /\ Keeps \subseteq Nat
  /\ MaxSaves \in Nat /\ MaxDamages \in Nat

VARIABLES
  db,       \* db_: "null", "open", or "failed" if sqlite3_open failed
  table,    \* whether the file has the table
  drawn,    \* history: the board saved under each id
  damage,   \* history: the blobs that are no longer what was saved
  listed,   \* history: the rows list() returned, without their blobs
  load      \* the load in progress, or the last one

boardVars == <<storeVars, db, table, drawn, damage, listed, load>>

-----------------------------------------------------------------------------
(* serializeStrokes()                                                      *)

(* n shifted right by 0 to `size' bytes.                                   *)
Shifted(n, size) ==
  LET rest[i \in 0 .. size] == IF i = 0 THEN n ELSE rest[i - 1] \div Base
  IN  rest

(* The numbers that fit into `size' bytes.                                 *)
Numbers(size) == {n \in Nat : Shifted(n, size)[size] = 0}

(* appendLE: n as `size' bytes; what does not fit is cut off.              *)
AppendLE(buf, n, size) == buf \o [i \in 1 .. size |-> Shifted(n, size)[i - 1] % Base]

AppendPoint(buf, pt) == AppendLE(AppendLE(buf, pt.x, SizeFloat), pt.y, SizeFloat)

AppendPoints(buf, points) ==
  LET upTo[j \in 0 .. Len(points)] ==
        IF j = 0 THEN buf ELSE AppendPoint(upTo[j - 1], points[j])
  IN  upTo[Len(points)]

(* Faulty variant: the author is written before the id.                    *)
AppendAuthorFirst(buf, s) ==
  LET author == AppendLE(buf, s.author, Size64)
      id == AppendLE(author, s.id, Size64)
      style == AppendLE(AppendLE(id, s.color, 1), s.thickness, 1)
      order == AppendLE(style, s.strokeOrder, Size64)
      finished == AppendLE(order, IF s.finished THEN 1 ELSE 0, 1)
  IN  AppendPoints(AppendLE(finished, Len(s.points), Size32), s.points)

AppendStroke(buf, s) ==
  LET id == AppendLE(buf, s.id, Size64)
      author == AppendLE(id, s.author, Size64)
      style == AppendLE(AppendLE(author, s.color, 1), s.thickness, 1)
      order == AppendLE(style, s.strokeOrder, Size64)
      finished == AppendLE(order, IF s.finished THEN 1 ELSE 0, 1)
  IN  AppendPoints(AppendLE(finished, Len(s.points), Size32), s.points)

SerializeStrokes(strokes) ==
  LET upTo[k \in 0 .. Len(strokes)] ==
        IF k = 0 THEN AppendLE(AppendLE(<<>>, 1, Size32), Len(strokes), Size32)
        ELSE AppendStroke(upTo[k - 1], strokes[k])
  IN  upTo[Len(strokes)]

Point == [x : Numbers(SizeFloat), y : Numbers(SizeFloat)]

Stroke == [id : Numbers(Size64), author : Numbers(Size64), color : Numbers(1),
           thickness : Numbers(1), strokeOrder : Numbers(Size64), finished : BOOLEAN,
           points : Seq(Point)]

(* The members of a stroke have the types they are written with.  The      *)
(* counts are cast to std::uint32_t, and the length of the blob to int:    *)
(* boards are smaller than that.                                           *)
ASSUME DrawnAssumption ==
  /\ Drawn \subseteq Seq(Stroke)
  /\ \A strokes \in Drawn :
       /\ Len(strokes) \in Numbers(Size32)
       /\ \A k \in DOMAIN strokes : Len(strokes[k].points) \in Numbers(Size32)

(* A blob is a value of the column.                                        *)
ASSUME BlobAssumption == \A strokes \in Drawn : SerializeStrokes(strokes) \in Boards

-----------------------------------------------------------------------------
NoLoad == [at |-> "none", by |-> "none"]

BoardsInit ==
  /\ StoreInit
  /\ db = "null" /\ table = FALSE
  /\ drawn = <<>>
  /\ damage = <<>>
  /\ listed = {}
  /\ load = NoLoad

(* init(), which every call runs first, succeeds or has nothing to do, and *)
(* the statements can be prepared.                                         *)
Ready ==
  /\ db = "null" \/ (db = "open" /\ table)
  /\ db' = "open"
  /\ table' = TRUE

(* init() throws: the handle is set all the same, and the next init() will *)
(* return at once.                                                         *)
InitFails ==
  /\ db = "null"
  /\ \/ db' = "failed" /\ UNCHANGED table
     \/ db' = "open" /\ table' \in {table, TRUE}
  /\ UNCHANGED <<storeVars, drawn, damage, listed, load>>

(* The store is destroyed and made again, as when the server is restarted. *)
Reopen ==
  /\ db # "null"
  /\ db' = "null"
  /\ load' = NoLoad
  /\ UNCHANGED <<storeVars, table, drawn, damage, listed>>

SaveBoard(room, strokes) ==
  /\ nextId <= MaxSaves
  /\ Ready
  /\ Save([room |-> room, lastSeq |-> nextId, strokes |-> SerializeStrokes(strokes)])
  /\ drawn' = Append(drawn, strokes)
  /\ UNCHANGED <<damage, listed, load>>

Prune(room, keep) ==
  /\ Ready
  /\ PruneKeepLatest(room, keep)
  /\ UNCHANGED <<drawn, damage, listed, load>>

(* list(): the columns of a row but the blob.  The order of the result is  *)
(* left out.                                                               *)
Meta(row) ==
  [id |-> row.id, room |-> row.snap.room, savedAt |-> row.savedAt,
   lastSeq |-> row.snap.lastSeq]

List(room) ==
  /\ Ready
  /\ listed' = listed \cup {Meta(x) : x \in RowsOf(room)}
  /\ UNCHANGED <<storeVars, drawn, damage, load>>

-----------------------------------------------------------------------------
(* loadById(), loadLatest() and deserializeStrokes()                       *)

Blob(row) == IF \E d \in Range(damage) : d.id = row.id
             THEN (CHOOSE d \in Range(damage) : d.id = row.id).blob
             ELSE row.snap.strokes

(* The SELECT returned a row: an empty blob is refused at once.            *)
Found(by, row) ==
  load' = [at |-> IF Blob(row) = <<>> THEN "thrown" ELSE "header", by |-> by,
           row |-> Meta(row), blob |-> Blob(row), p |-> 0,
           strokesLeft |-> 0, pointsLeft |-> 0, strokes |-> <<>>]

Loading == load.at \in {"header", "strokes"}

LoadById(id) ==
  /\ ~Loading /\ Ready
  /\ IF \E x \in rows : x.id = id
     THEN \E x \in rows : x.id = id /\ Found("id", x)
     ELSE load' = NoLoad
  /\ UNCHANGED <<storeVars, drawn, damage, listed>>

LoadLatest(room) ==
  /\ ~Loading /\ Ready
  /\ \/ RowsOf(room) = {} /\ load' = NoLoad
     \/ \E T \in Newest(RowsOf(room), 1) : \E x \in T : Found("room", x)
  /\ UNCHANGED <<storeVars, drawn, damage, listed>>

(* Faulty variant: one byte too many may be read.                          *)
FitsOffByOne(size) == load.p + size <= Len(load.blob) + 1

(* readLE() throws if less than `size' bytes are left.                     *)
Fits(size) == load.p + size <= Len(load.blob)

(* A byte of the blob; behind its end, whatever memory holds.              *)
Byte(i) == IF i <= Len(load.blob) THEN load.blob[i] ELSE 0

(* The number in the `size' bytes at `offset' from p.                      *)
ReadLE(offset, size) ==
  LET number[i \in 0 .. size] ==
        IF i = 0 THEN 0 ELSE number[i - 1] * Base + Byte(load.p + offset + size + 1 - i)
  IN  number[size]

Throw == load' = [load EXCEPT !.at = "thrown"]

ReadHeader ==
  /\ load.at = "header"
  /\ IF Fits(2 * Size32) /\ ReadLE(0, Size32) = 1
     THEN load' = [load EXCEPT !.at = "strokes", !.p = @ + 2 * Size32,
                               !.strokesLeft = ReadLE(Size32, Size32)]
     ELSE Throw

StrokeSize == 3 * Size64 + 3 + Size32

ReadStroke ==
  /\ load.at = "strokes" /\ load.pointsLeft = 0 /\ load.strokesLeft > 0
  /\ IF Fits(StrokeSize)
     THEN load' = [load EXCEPT
            !.p = @ + StrokeSize,
            !.strokesLeft = @ - 1,
            !.pointsLeft = ReadLE(3 * Size64 + 3, Size32),
            !.strokes = Append(@, [id |-> ReadLE(0, Size64),
                                   author |-> ReadLE(Size64, Size64),
                                   color |-> ReadLE(2 * Size64, 1),
                                   thickness |-> ReadLE(2 * Size64 + 1, 1),
                                   strokeOrder |-> ReadLE(2 * Size64 + 2, Size64),
                                   finished |-> ReadLE(3 * Size64 + 2, 1) # 0,
                                   points |-> <<>>])]
     ELSE Throw

ReadPoint ==
  /\ load.at = "strokes" /\ load.pointsLeft > 0
  /\ IF Fits(2 * SizeFloat)
     THEN load' = [load EXCEPT
            !.p = @ + 2 * SizeFloat,
            !.pointsLeft = @ - 1,
            !.strokes[Len(load.strokes)].points =
              Append(@, [x |-> ReadLE(0, SizeFloat), y |-> ReadLE(SizeFloat, SizeFloat)])]
     ELSE Throw

(* Faulty variant: bytes behind the last stroke are ignored.               *)
ReadEndEarly ==
  /\ load.at = "strokes" /\ load.strokesLeft = 0 /\ load.pointsLeft = 0
  /\ load' = [load EXCEPT !.at = "done"]

ReadEnd ==
  /\ load.at = "strokes" /\ load.strokesLeft = 0 /\ load.pointsLeft = 0
  /\ IF load.p = Len(load.blob) THEN load' = [load EXCEPT !.at = "done"] ELSE Throw

Read ==
  /\ ReadHeader \/ ReadStroke \/ ReadPoint \/ ReadEnd
  /\ UNCHANGED <<storeVars, db, table, drawn, damage, listed>>

-----------------------------------------------------------------------------
(* A blob loses its end, grows, or has a byte changed, outside the program *)
(* and while no server has the file open.                                  *)
Damaged(blob) ==
  [kind : {"cut"}, blob : {SubSeq(blob, 1, n) : n \in 0 .. Len(blob) - 1}]
  \cup [kind : {"grown"}, blob : {Append(blob, b) : b \in 0 .. Base - 1}]
  \cup [kind : {"changed"},
        blob : {[blob EXCEPT ![i] = (@ + 1) % Base] : i \in DOMAIN blob}]

Damage(row) ==
  /\ db = "null"
  /\ Len(damage) < MaxDamages
  /\ \A d \in Range(damage) : d.id # row.id
  /\ \E d \in Damaged(row.snap.strokes) :
       damage' = Append(damage, [id |-> row.id, kind |-> d.kind, blob |-> d.blob])
  /\ UNCHANGED <<storeVars, db, table, drawn, listed, load>>

BoardsNext ==
  \/ InitFails \/ Reopen
  \/ \E room \in Rooms :
       \/ \E strokes \in Drawn : SaveBoard(room, strokes)
       \/ \E keep \in Keeps : Prune(room, keep)
       \/ List(room) \/ LoadLatest(room)
  \/ \E id \in 1 .. MaxSaves : LoadById(id)
  \/ Read
  \/ \E row \in rows : Damage(row)

BoardsSpec == BoardsInit /\ [][BoardsNext]_boardVars

-----------------------------------------------------------------------------
(* Types; deserializeStrokes() never moves p behind the end of the blob.   *)
StoredTypeOK ==
  /\ StoreTypeOK
  /\ db \in {"null", "open", "failed"}
  /\ table \in BOOLEAN
  /\ rows # {} => table
  /\ Len(drawn) = nextId - 1
  /\ load.at \in {"none", "header", "strokes", "thrown", "done"}
  /\ load.at # "none" => load.p \in 0 .. Len(load.blob)

(* What is loaded is what was saved: through serializeStrokes(), the row   *)
(* and deserializeStrokes(), and however save, prune and restarts come in  *)
(* between, a load that returns a board returns the one that was saved     *)
(* under that id, unless the blob was changed in place.                    *)
LoadReturnsSaved ==
  load.at = "done" =>
    \/ load.strokes = drawn[load.row.id]
    \/ \E d \in Range(damage) : d.id = load.row.id /\ d.kind = "changed"

(* "corrupted snapshot blob": a blob that lost its end or grew is always   *)
(* detected, at whatever byte, for no board's blob begins another's.       *)
DamageRefused ==
  load.at = "done" =>
    \A d \in Range(damage) : d.kind \in {"cut", "grown"} => d.blob # load.blob

(* An id stays good: whoever got an id from list() finds that row under it *)
(* or none, and never a row that was saved after that one was deleted.     *)
ListedIdsStable ==
  \A x \in rows, m \in listed : x.id = m.id => Meta(x) = m

(* loadLatest() finds the last snapshot saved for its room, whatever was   *)
(* pruned and however many were saved in one millisecond, unless the clock *)
(* was set back between two of them.                                       *)
LatestIsLastSaved ==
  [][LET newer(room) == {x \in everSaved : x.snap.room = room /\ x.id > load'.row.id}
     IN  /\ ~Loading /\ load' # load /\ load'.by = "room"
         /\ TimesInOrder(load'.row.room)
         => newer(load'.row.room) = {}]_boardVars

=============================================================================
