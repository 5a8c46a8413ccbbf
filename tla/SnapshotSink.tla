---------------------------- MODULE SnapshotSink ----------------------------
(***************************************************************************)
(* What the core may expect of an ISnapshotSink                            *)
(* (core/include/clearspace/core/snapshot_sink.hpp), without threads, the  *)
(* queue and the table: snapshots are accepted at any time until the sink  *)
(* is closed, and are saved in the order in which they were accepted, each *)
(* at most once; one that could not be saved is given up; the sink closes  *)
(* only when no snapshot is left.                                          *)
(***************************************************************************)
EXTENDS Naturals, Sequences

CONSTANT Snapshots

VARIABLES
  backlog,  \* accepted, and not yet done with
  tried,    \* whether the first of them was saved or given up
  saved,    \* what was saved, in order
  closed    \* whether the sink is gone

sinkVars == <<backlog, tried, saved, closed>>

SinkInit == backlog = <<>> /\ tried = FALSE /\ saved = <<>> /\ closed = FALSE

Accept ==
  /\ ~closed
  /\ \E s \in Snapshots : backlog' = Append(backlog, s)
  /\ UNCHANGED <<tried, saved, closed>>

(* The one attempt to save the first snapshot.                             *)
Try ==
  /\ backlog # <<>> /\ ~tried
  /\ tried' = TRUE
  /\ saved' \in {saved, Append(saved, Head(backlog))}
  /\ UNCHANGED <<backlog, closed>>

Finish ==
  /\ backlog # <<>> /\ tried
  /\ backlog' = Tail(backlog)
  /\ tried' = FALSE
  /\ UNCHANGED <<saved, closed>>

Close ==
  /\ backlog = <<>> /\ ~closed
  /\ closed' = TRUE
  /\ UNCHANGED <<backlog, tried, saved>>

SinkNext == Accept \/ Try \/ Finish \/ Close

SinkSpec == SinkInit /\ [][SinkNext]_sinkVars

=============================================================================
