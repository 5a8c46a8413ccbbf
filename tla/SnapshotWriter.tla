--------------------------- MODULE SnapshotWriter ---------------------------
(***************************************************************************)
(* The background writer of board snapshots,                               *)
(* persistence/src/snapshot_writer.cpp, with the store it writes to.       *)
(*                                                                         *)
(* Threads call enqueue() and flush(); the worker runs run_(); the owner   *)
(* runs the destructor once no thread is inside a call.  One action per    *)
(* step another thread can interleave with: an atomic operation on         *)
(* pending_, a critical section of m_, a notification, and, in flush(),    *)
(* the test of the predicate and the wait that follows it, for the worker  *)
(* changes pending_ and notifies without flushM_.  A wait on cv_ tests and *)
(* sleeps in one step: both parties hold m_.                               *)
(***************************************************************************)
EXTENDS SnapshotStore, Sequences

CONSTANTS
  Threads,     \* threads that call enqueue() and flush()
  NoSnapshot,  \* no snapshot in hand
  KeepLatest,  \* keepLatest_
  MaxPushed,   \* bound: enqueue() calls
  MaxFailures  \* bound: statements of the store that fail

ASSUME WriterAssumption ==
  /\ IsFiniteSet(Threads)
  /\ NoSnapshot \notin PersistedBoardSnapshot
  /\ KeepLatest \in Nat
  /\ MaxPushed \in Nat
  /\ MaxFailures \in Nat

VARIABLES
  pc,        \* where each thread is in enqueue() or flush()
  arg,       \* the snapshot a thread is enqueuing
  pending,   \* pending_
  q,         \* q_
  stop,      \* stop_
  worker,    \* where the worker is in run_()
  task,      \* the worker's task
  pushed,    \* history: what was pushed, in order
  handled,   \* history: what the worker is through with, in order
  failures   \* history: number of exceptions run_() swallowed

queueVars == <<pending, q, stop, pushed>>
workerVars == <<worker, task, handled, failures>>
writerVars == <<pc, arg, queueVars, workerVars, storeVars>>

AnySnapshot == [room : Rooms, lastSeq : {0}, strokes : Boards]

-----------------------------------------------------------------------------
WriterInit ==
  /\ StoreInit
  /\ pc = [t \in Threads |-> "idle"]
  /\ arg = [t \in Threads |-> NoSnapshot]
  /\ pending = 0
  /\ q = <<>>
  /\ stop = FALSE
  /\ worker = "awake"
  /\ task = NoSnapshot
  /\ pushed = <<>>
  /\ handled = <<>>
  /\ failures = 0

Goto(t, from, to) == pc[t] = from /\ pc' = [pc EXCEPT ![t] = to]

(* enqueue(): count, push, notify.                                         *)
FetchAdd(t, snap) ==
  /\ ~stop
  /\ Goto(t, "idle", "push")
  /\ pending' = pending + 1
  /\ arg' = [arg EXCEPT ![t] = snap]
  /\ UNCHANGED <<q, stop, pushed, workerVars, storeVars>>

Push(t) ==
  /\ Goto(t, "push", "notify")
  /\ q' = Append(q, arg[t])
  /\ pushed' = Append(pushed, arg[t])
  /\ arg' = [arg EXCEPT ![t] = NoSnapshot]
  /\ UNCHANGED <<pending, stop, workerVars, storeVars>>

(* cv_ has one waiter at most, the worker.                                 *)
WakeWorker == worker' = IF worker = "asleep" THEN "awake" ELSE worker

(* Faulty variant: nobody is notified.                                     *)
NotifyNobody(t) ==
  /\ Goto(t, "notify", "idle")
  /\ UNCHANGED <<arg, queueVars, workerVars, storeVars>>

NotifyOne(t) ==
  /\ Goto(t, "notify", "idle")
  /\ WakeWorker
  /\ UNCHANGED <<arg, queueVars, task, handled, failures, storeVars>>

(* flush(): test the predicate with flushM_ held, and wait if it fails.    *)
FlushCall(t) ==
  /\ ~stop
  /\ Goto(t, "idle", "test")
  /\ UNCHANGED <<arg, queueVars, workerVars, storeVars>>

FlushMutexFree == \A t \in Threads : pc[t] # "park"

(* Faulty variant: flush() waits for an empty queue only.                  *)
FlushReturnQueueEmpty(t) ==
  /\ FlushMutexFree
  /\ q = <<>>
  /\ Goto(t, "test", "idle")
  /\ UNCHANGED <<arg, queueVars, workerVars, storeVars>>

FlushReturn(t) ==
  /\ FlushMutexFree
  /\ pending = 0
  /\ Goto(t, "test", "idle")
  /\ UNCHANGED <<arg, queueVars, workerVars, storeVars>>

FlushTestFails(t) ==
  /\ FlushMutexFree
  /\ pending # 0
  /\ Goto(t, "test", "park")
  /\ UNCHANGED <<arg, queueVars, workerVars, storeVars>>

FlushPark(t) ==
  /\ Goto(t, "park", "parked")
  /\ UNCHANGED <<arg, queueVars, workerVars, storeVars>>

(* A condition variable may wake a waiter for no reason.                   *)
FlushSpuriousWake(t) ==
  /\ Goto(t, "parked", "test")
  /\ UNCHANGED <<arg, queueVars, workerVars, storeVars>>

-----------------------------------------------------------------------------
(* run_()                                                                  *)

WorkerStep(from, to) == worker = from /\ worker' = to

(* Faulty variant: the front is read but not popped.                       *)
WorkerPeek ==
  /\ q # <<>>
  /\ WorkerStep("awake", "save")
  /\ task' = Head(q)
  /\ UNCHANGED <<pc, arg, queueVars, handled, failures, storeVars>>

WorkerTake ==
  /\ q # <<>>
  /\ WorkerStep("awake", "save")
  /\ task' = Head(q)
  /\ q' = Tail(q)
  /\ UNCHANGED <<pc, arg, pending, stop, pushed, handled, failures, storeVars>>

WorkerSleep ==
  /\ q = <<>> /\ ~stop
  /\ WorkerStep("awake", "asleep")
  /\ UNCHANGED <<pc, arg, queueVars, task, handled, failures, storeVars>>

(* Faulty variant: stop_ alone ends the loop.                              *)
WorkerExitAtOnce ==
  /\ stop
  /\ WorkerStep("awake", "done")
  /\ UNCHANGED <<pc, arg, queueVars, task, handled, failures, storeVars>>

WorkerExit ==
  /\ q = <<>> /\ stop
  /\ WorkerStep("awake", "done")
  /\ UNCHANGED <<pc, arg, queueVars, task, handled, failures, storeVars>>

WorkerSpuriousWake ==
  /\ WorkerStep("asleep", "awake")
  /\ UNCHANGED <<pc, arg, queueVars, task, handled, failures, storeVars>>

WorkerSave ==
  /\ WorkerStep("save", "prune")
  /\ Save(task)
  /\ UNCHANGED <<pc, arg, queueVars, task, handled, failures>>

(* Faulty variant: one row too many is kept.                               *)
PruneKeepsMore ==
  /\ WorkerStep("prune", "count")
  /\ PruneKeepLatest(task.room, KeepLatest + 1)
  /\ UNCHANGED <<pc, arg, queueVars, task, handled, failures>>

(* Faulty variant: one row too few is kept.                                *)
PruneKeepsLess ==
  /\ WorkerStep("prune", "count")
  /\ PruneKeepLatest(task.room, KeepLatest - 1)
  /\ UNCHANGED <<pc, arg, queueVars, task, handled, failures>>

WorkerPrune ==
  /\ WorkerStep("prune", "count")
  /\ PruneKeepLatest(task.room, KeepLatest)
  /\ UNCHANGED <<pc, arg, queueVars, task, handled, failures>>

(* Faulty variants: the failed task is not counted off, or is twice.       *)
CatchUncounted ==
  /\ WorkerStep("save", "awake") \/ WorkerStep("prune", "awake")
  /\ failures < MaxFailures
  /\ failures' = failures + 1
  /\ UNCHANGED <<pc, arg, queueVars, task, handled, storeVars>>

CatchCountsToo ==
  /\ WorkerStep("save", "count") \/ WorkerStep("prune", "count")
  /\ failures < MaxFailures
  /\ failures' = failures + 1
  /\ pending' = pending - 1
  /\ UNCHANGED <<pc, arg, q, stop, pushed, task, handled, storeVars>>

(* Faulty variant: a task that failed half-way is done again.              *)
CatchRetries ==
  /\ WorkerStep("save", "count") \/ WorkerStep("prune", "save")
  /\ failures < MaxFailures
  /\ failures' = failures + 1
  /\ UNCHANGED <<pc, arg, queueVars, task, handled, storeVars>>

(* save() or pruneKeepLatest() throws and the catch swallows it.           *)
WorkerCatch ==
  /\ WorkerStep("save", "count") \/ WorkerStep("prune", "count")
  /\ failures < MaxFailures
  /\ failures' = failures + 1
  /\ UNCHANGED <<pc, arg, queueVars, task, handled, storeVars>>

FetchSub ==
  /\ WorkerStep("count", "notify")
  /\ pending' = pending - 1
  /\ handled' = Append(handled, task)
  /\ task' = NoSnapshot
  /\ UNCHANGED <<pc, arg, q, stop, pushed, failures, storeVars>>

NotifyAll ==
  /\ WorkerStep("notify", "awake")
  /\ pc' = [t \in Threads |-> IF pc[t] = "parked" THEN "test" ELSE pc[t]]
  /\ UNCHANGED <<arg, queueVars, task, handled, failures, storeVars>>

(* Faulty variant: stop_ is set without a notification.                    *)
DestroySilently ==
  /\ ~stop
  /\ \A t \in Threads : pc[t] = "idle"
  /\ stop' = TRUE
  /\ UNCHANGED <<pc, arg, pending, q, pushed, workerVars, storeVars>>

(* The destructor: stop_ is set and cv_ notified; join() then waits for    *)
(* worker = "done".  Nobody is inside enqueue() or flush() any more.       *)
Destroy ==
  /\ ~stop
  /\ \A t \in Threads : pc[t] = "idle"
  /\ stop' = TRUE
  /\ WakeWorker
  /\ UNCHANGED <<pc, arg, pending, q, pushed, task, handled, failures, storeVars>>

-----------------------------------------------------------------------------
WriterAction ==
  \/ WorkerTake \/ WorkerSleep \/ WorkerExit
  \/ WorkerSave \/ WorkerPrune \/ WorkerCatch
  \/ FetchSub \/ NotifyAll

EnqueueStep(t) == Push(t) \/ NotifyOne(t)

FlushStep(t) == FlushReturn(t) \/ FlushTestFails(t) \/ FlushPark(t)

Enqueue(t) ==
  /\ Cardinality({u \in Threads : pc[u] = "push"}) + Len(pushed) < MaxPushed
  /\ \E snap \in AnySnapshot : FetchAdd(t, snap)

WriterNext ==
  \/ WriterAction
  \/ WorkerSpuriousWake
  \/ \E t \in Threads :
       \/ Enqueue(t) \/ EnqueueStep(t)
       \/ FlushCall(t) \/ FlushStep(t) \/ FlushSpuriousWake(t)
  \/ Destroy

(* The operating system runs every thread that can run, and the statements *)
(* of the store terminate.  Nobody has to call enqueue, flush or the       *)
(* destructor, and a spurious wake-up need not happen.                     *)
WriterFairness ==
  /\ WF_writerVars(WriterAction)
  /\ \A t \in Threads : WF_writerVars(EnqueueStep(t)) /\ WF_writerVars(FlushStep(t))

WriterSpec == WriterInit /\ [][WriterNext]_writerVars

FairWriterSpec == WriterSpec /\ WriterFairness

-----------------------------------------------------------------------------
(* Types of the writer's members.                                          *)
WriterTypeOK ==
  /\ StoreTypeOK
  /\ pc \in [Threads -> {"idle", "push", "notify", "test", "park", "parked"}]
  /\ arg \in [Threads -> PersistedBoardSnapshot \cup {NoSnapshot}]
  /\ \A t \in Threads : pc[t] = "push" => arg[t] \in PersistedBoardSnapshot
  /\ pending \in Nat
  /\ q \in Seq(PersistedBoardSnapshot)
  /\ stop \in BOOLEAN
  /\ worker \in {"awake", "asleep", "save", "prune", "count", "notify", "done"}
  /\ worker \in {"save", "prune", "count"} => task \in PersistedBoardSnapshot
  /\ pushed \in Seq(PersistedBoardSnapshot)
  /\ handled \in Seq(PersistedBoardSnapshot)
  /\ failures \in Nat

Busy == worker \in {"save", "prune", "count"}

(* pending_ is the number of snapshots that were announced by enqueue()    *)
(* and that the worker is not through with, wherever they are: it never    *)
(* wraps below zero, although it is changed outside every lock.            *)
PendingCounts ==
  pending = Cardinality({t \in Threads : pc[t] = "push"})
            + Len(q) + (IF Busy THEN 1 ELSE 0)

(* Every snapshot pushed is handled once, in the order of the pushes,      *)
(* whether or not the store threw on an earlier one.                       *)
QueueExact == pushed = handled \o (IF Busy THEN <<task>> ELSE <<>>) \o q

(* The worker never sleeps on work: if it is asleep and the queue is not   *)
(* empty, or the destructor has run, then a notification is on its way.    *)
NoLostWakeup ==
  worker = "asleep" =>
    /\ ~stop
    /\ q # <<>> => \E t \in Threads : pc[t] = "notify"

(* flush() returns only when everything announced before has been handled. *)
FlushMeansHandled ==
  [][\A t \in Threads :
       pc[t] = "test" /\ pc'[t] = "idle" =>
         /\ handled = pushed
         /\ \A u \in Threads : pc[u] # "push"]_writerVars

(* ~SnapshotWriter drains: once join() can return, everything that was     *)
(* ever enqueued has been handled.                                         *)
DestructorDrains == worker = "done" => handled = pushed

(* Retention: as long as the store has not failed, no room has more than   *)
(* keepLatest_ rows, or one more between the INSERT and the DELETE.        *)
RetentionBound ==
  failures = 0 =>
    \A r \in Rooms :
      Cardinality(RowsOf(r)) <=
        KeepLatest + (IF worker = "prune" /\ task.room = r THEN 1 ELSE 0)

(* Retention keeps what was saved last: a row of a room is deleted only    *)
(* for keepLatest_ others that stay, and these were all saved after it,    *)
(* rows of one millisecond included.  Only a clock set back between two    *)
(* saves of the room can make an older row outlive a newer one.            *)
LastRowsKept ==
  \A x \in everSaved \ rows :
    LET r == x.snap.room
    IN  /\ Cardinality(RowsOf(r)) >= KeepLatest
        /\ TimesInOrder(r) => \A y \in RowsOf(r) : x.id < y.id

(* Every snapshot pushed is handled in the end, and the destructor returns.*)
EventuallyHandled ==
  /\ \A n \in 1..MaxPushed : (Len(pushed) >= n) ~> (Len(handled) >= n)
  /\ stop ~> (worker = "done")

(* flush() returns: what SnapshotWriter.EnqueueFlushAndRetention relies    *)
(* on.                                                                     *)
FlushReturns == \A t \in Threads : (pc[t] = "test") ~> (pc[t] = "idle")

=============================================================================
