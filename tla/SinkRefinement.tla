--------------------------- MODULE SinkRefinement ---------------------------
(***************************************************************************)
(* SnapshotWriter implements SnapshotSink: the backlog is the worker's     *)
(* task followed by the queue, and what was saved is the table with the    *)
(* deleted rows, by id.                                                    *)
(***************************************************************************)
EXTENDS SnapshotWriter

SavedInOrder ==
  [i \in 1 .. nextId - 1 |-> (CHOOSE row \in everSaved : row.id = i).snap]

Sink == INSTANCE SnapshotSink
          WITH Snapshots <- AnySnapshot,
               backlog <- (IF Busy THEN <<task>> ELSE <<>>) \o q,
               tried <- worker \in {"prune", "count"},
               saved <- SavedInOrder,
               closed <- worker = "done"

(* However enqueue(), the worker and the destructor interleave, and        *)
(* whichever statement of the store throws, the table receives the         *)
(* snapshots in the order of the pushes, none of them twice, and the       *)
(* destructor does not return while one is left.                           *)
ImplementsSink == Sink!SinkSpec

=============================================================================
