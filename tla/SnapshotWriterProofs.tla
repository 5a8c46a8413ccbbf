------------------------ MODULE SnapshotWriterProofs ------------------------
(***************************************************************************)
(* The safety of SnapshotWriter, for every set of threads, rooms and       *)
(* boards, every number of rows kept, and every way the store may fail.    *)
(*                                                                         *)
(* pending_ and the queue are changed at different times by different      *)
(* threads, so neither PendingCounts nor QueueExact is inductive without   *)
(* the types of what is in hand (WriterTypeOK); that the destructor leaves *)
(* nothing behind needs, besides, that no thread is inside a call once     *)
(* stop_ is set, and that the worker leaves its loop only then.            *)
(***************************************************************************)
EXTENDS SnapshotWriter, SequenceTheorems, FiniteSetTheorems, TLAPS

(* The threads that have counted a snapshot but not pushed it yet.         *)
Pushing == {t \in Threads : pc[t] = "push"}

InHand == IF Busy THEN <<task>> ELSE <<>>

(* No call is under way when the destructor runs, or later.                *)
StopQuiet == stop => \A t \in Threads : pc[t] = "idle"

DoneStopped == worker = "done" => stop /\ q = <<>>

WriterInv ==
  /\ WriterTypeOK
  /\ PendingCounts
  /\ QueueExact
  /\ NoLostWakeup
  /\ StopQuiet
  /\ DoneStopped

-----------------------------------------------------------------------------
(* Pushing is finite, and grows and shrinks one thread at a time.          *)
LEMMA PushingFinite == IsFiniteSet(Pushing) /\ Cardinality(Pushing) \in Nat
<1>1. Pushing \subseteq Threads
  BY DEF Pushing
<1>2. IsFiniteSet(Pushing)
  BY <1>1, WriterAssumption, FS_Subset
<1> QED
  BY <1>2, FS_CardinalityType

(* Counting a snapshot adds its thread to Pushing.                         *)
LEMMA PushingGrows ==
  ASSUME NEW t \in Threads, WriterTypeOK, Goto(t, "idle", "push")
  PROVE  Cardinality(Pushing') = Cardinality(Pushing) + 1
<1>1. Pushing' = Pushing \cup {t}
  BY DEF Pushing, Goto, WriterTypeOK
<1>2. t \notin Pushing
  BY DEF Pushing, Goto
<1> QED
  BY <1>1, <1>2, PushingFinite, FS_AddElement

(* Pushing a snapshot takes its thread out of it.                          *)
LEMMA PushingShrinks ==
  ASSUME NEW t \in Threads, WriterTypeOK, Goto(t, "push", "notify")
  PROVE  Cardinality(Pushing') = Cardinality(Pushing) - 1
<1>1. Pushing' = Pushing \ {t}
  BY DEF Pushing, Goto, WriterTypeOK
<1>2. t \in Pushing
  BY DEF Pushing, Goto
<1> QED
  BY <1>1, <1>2, PushingFinite, FS_RemoveElement

(* Any other move of a thread leaves Pushing alone.                        *)
LEMMA PushingStays ==
  ASSUME NEW t \in Threads, WriterTypeOK, NEW from, NEW to,
         Goto(t, from, to), from # "push", to # "push"
  PROVE  Pushing' = Pushing
BY DEF Pushing, Goto, WriterTypeOK

(* A step that changes none of what they speak of keeps the two counts.    *)
LEMMA CountsFrame ==
  ASSUME PendingCounts, QueueExact, Pushing' = Pushing, UNCHANGED queueVars,
         Busy' = Busy, task' = task, handled' = handled
  PROVE  PendingCounts' /\ QueueExact'
BY DEF PendingCounts, QueueExact, Pushing, queueVars

-----------------------------------------------------------------------------
(* The two moves of a snapshot by the worker: from the queue into its hand,*)
(* and from there to those handled.                                        *)
LEMMA TakeExact ==
  ASSUME NEW S, NEW x \in Seq(S), NEW y \in Seq(S), y # <<>>
  PROVE  x \o <<>> \o y = x \o <<Head(y)>> \o Tail(y)
<1>1. /\ <<Head(y)>> \in Seq(S)
      /\ Tail(y) \in Seq(S)
  BY HeadTailProperties
<1>2. y = <<Head(y)>> \o Tail(y)
  OBVIOUS
<1>3. x \o <<>> = x
  BY ConcatEmptySeq
<1>4. (x \o <<Head(y)>>) \o Tail(y) = x \o (<<Head(y)>> \o Tail(y))
  BY <1>1, ConcatAssociative
<1> QED
  BY <1>2, <1>3, <1>4

(* Counting a task off moves it from the hand to those handled.            *)
LEMMA HandExact ==
  ASSUME NEW S, NEW x \in Seq(S), NEW y \in Seq(S), NEW e \in S
  PROVE  x \o <<e>> \o y = Append(x, e) \o <<>> \o y
<1>1. Append(x, e) \in Seq(S) /\ Append(x, e) = x \o <<e>>
  BY AppendProperties, AppendIsConcat
<1>2. Append(x, e) \o <<>> = Append(x, e)
  BY <1>1, ConcatEmptySeq
<1> QED
  BY <1>1, <1>2

-----------------------------------------------------------------------------
(* The invariant holds at first.                                           *)
LEMMA WriterInitInv == WriterInit => WriterInv
<1> SUFFICES ASSUME WriterInit PROVE WriterInv
  OBVIOUS
<1>1. WriterTypeOK
  <2>1. stop \in BOOLEAN
    BY DEF WriterInit
  <2>2. StoreTypeOK
    BY DEF WriterInit, StoreInit, StoreTypeOK
  <2>3. <<>> \in Seq(PersistedBoardSnapshot)
    OBVIOUS
  <2> QED
    BY <2>1, <2>2, <2>3 DEF WriterInit, WriterTypeOK
<1>2. Pushing = {}
  BY DEF WriterInit, Pushing
<1>3. PendingCounts
  <2>1. Cardinality({t \in Threads : pc[t] = "push"}) = 0
    BY <1>2, FS_EmptySet DEF Pushing
  <2> QED
    BY <2>1 DEF WriterInit, PendingCounts, Busy
<1>4. QueueExact
  BY DEF WriterInit, QueueExact, Busy
<1>5. NoLostWakeup /\ StopQuiet /\ DoneStopped
  BY DEF WriterInit, NoLostWakeup, StopQuiet, DoneStopped
<1> QED
  BY <1>1, <1>3, <1>4, <1>5 DEF WriterInv

(* enqueue(), first step: the snapshot is counted.                         *)
LEMMA FetchAddInv ==
  ASSUME WriterInv, NEW t \in Threads, NEW snap \in PersistedBoardSnapshot,
         FetchAdd(t, snap)
  PROVE  WriterInv'
<1> USE DEF FetchAdd, workerVars, storeVars
<1>1. WriterTypeOK'
  <2>1. StoreTypeOK'
    BY DEF WriterInv, WriterTypeOK, StoreTypeOK
  <2>2. \A u \in Threads : pc'[u] = "push" => arg'[u] \in PersistedBoardSnapshot
    BY DEF WriterInv, WriterTypeOK, Goto
  <2> QED
    BY <2>1, <2>2 DEF WriterInv, WriterTypeOK, Goto
<1>2. PendingCounts'
  <2>1. Cardinality(Pushing') = Cardinality(Pushing) + 1
    BY PushingGrows DEF WriterInv
  <2>2. pending = Cardinality(Pushing) + Len(q) + (IF Busy THEN 1 ELSE 0)
    BY DEF WriterInv, PendingCounts, Pushing
  <2>3. Len(q) \in Nat /\ Cardinality(Pushing) \in Nat
    BY PushingFinite DEF WriterInv, WriterTypeOK
  <2>4. pending' = Cardinality(Pushing') + Len(q') + (IF Busy' THEN 1 ELSE 0)
    BY <2>1, <2>2, <2>3 DEF Busy
  <2> QED
    BY <2>4 DEF PendingCounts, Pushing
<1>3. QueueExact'
  BY DEF WriterInv, QueueExact, Busy
<1>4. NoLostWakeup' /\ StopQuiet' /\ DoneStopped'
  BY DEF WriterInv, WriterTypeOK, NoLostWakeup, StopQuiet, DoneStopped, Goto
<1> QED
  BY <1>1, <1>2, <1>3, <1>4 DEF WriterInv

(* enqueue(), second step: it is pushed.                                   *)
LEMMA PushInv ==
  ASSUME WriterInv, NEW t \in Threads, Push(t)
  PROVE  WriterInv'
<1> USE DEF Push, workerVars, storeVars
<1>1. arg[t] \in PersistedBoardSnapshot /\ ~stop
  BY DEF WriterInv, WriterTypeOK, StopQuiet, Goto
<1>2. /\ q' \in Seq(PersistedBoardSnapshot)
      /\ pushed' \in Seq(PersistedBoardSnapshot)
      /\ Len(q') = Len(q) + 1
  BY <1>1, AppendProperties DEF WriterInv, WriterTypeOK
<1>3. WriterTypeOK'
  BY <1>2 DEF WriterInv, WriterTypeOK, StoreTypeOK, Goto
<1>4. PendingCounts'
  <2>1. Cardinality(Pushing') = Cardinality(Pushing) - 1
    BY PushingShrinks DEF WriterInv
  <2>2. pending = Cardinality(Pushing) + Len(q) + (IF Busy THEN 1 ELSE 0)
    BY DEF WriterInv, PendingCounts, Pushing
  <2>3. Len(q) \in Nat /\ Cardinality(Pushing) \in Nat
    BY PushingFinite DEF WriterInv, WriterTypeOK
  <2>4. pending' = Cardinality(Pushing') + Len(q') + (IF Busy' THEN 1 ELSE 0)
    BY <1>2, <2>1, <2>2, <2>3 DEF Busy
  <2> QED
    BY <2>4 DEF PendingCounts, Pushing
<1>5. QueueExact'
  <2>1. handled \o InHand \in Seq(PersistedBoardSnapshot)
    BY ConcatProperties DEF InHand, Busy, WriterInv, WriterTypeOK
  <2>2. PICK done \in Seq(PersistedBoardSnapshot) : done = handled \o InHand
    BY <2>1
  <2>3. q \in Seq(PersistedBoardSnapshot)
    BY DEF WriterInv, WriterTypeOK
  <2>4. Append(done \o q, arg[t]) = done \o Append(q, arg[t])
    BY ONLY <1>1, <2>3
  <2>5. pushed = done \o q
    BY <2>2 DEF InHand, WriterInv, QueueExact
  <2>6. pushed' = done \o q'
    BY <2>4, <2>5
  <2>7. done = handled' \o InHand'
    BY <2>2 DEF InHand, Busy
  <2> QED
    BY <2>6, <2>7 DEF QueueExact, InHand
<1>6. NoLostWakeup' /\ StopQuiet' /\ DoneStopped'
  BY <1>1 DEF WriterInv, WriterTypeOK, NoLostWakeup, StopQuiet, DoneStopped, Goto
<1> QED
  BY <1>3, <1>4, <1>5, <1>6 DEF WriterInv

(* enqueue(), last step: the worker is woken.                              *)
LEMMA NotifyOneInv ==
  ASSUME WriterInv, NEW t \in Threads, NotifyOne(t)
  PROVE  WriterInv'
<1> USE DEF NotifyOne, WakeWorker, queueVars, storeVars
<1>1. WriterTypeOK'
  BY DEF WriterInv, WriterTypeOK, StoreTypeOK, Goto
<1>2. Busy' = Busy
  BY DEF Busy
<1>3. Pushing' = Pushing
  BY PushingStays DEF WriterInv
<1>4. PendingCounts' /\ QueueExact'
  BY <1>2, <1>3, CountsFrame DEF WriterInv
<1>5. NoLostWakeup' /\ StopQuiet' /\ DoneStopped'
  BY DEF WriterInv, WriterTypeOK, NoLostWakeup, StopQuiet, DoneStopped, Goto
<1> QED
  BY <1>1, <1>4, <1>5 DEF WriterInv

(* flush() moves its own thread only, and never from or to enqueue().      *)
LEMMA FlushInv ==
  ASSUME WriterInv, NEW t \in Threads,
         \/ FlushCall(t) \/ FlushReturn(t) \/ FlushTestFails(t)
         \/ FlushPark(t) \/ FlushSpuriousWake(t)
  PROVE  WriterInv'
<1>1. /\ UNCHANGED <<arg, queueVars, workerVars, storeVars>>
      /\ \E from, to \in {"idle", "test", "park", "parked"} : Goto(t, from, to)
      /\ ~stop
  BY DEF FlushCall, FlushReturn, FlushTestFails, FlushPark, FlushSpuriousWake,
         WriterInv, WriterTypeOK, StopQuiet, Goto
<1>2. PICK from, to \in {"idle", "test", "park", "parked"} : Goto(t, from, to)
  BY <1>1
<1> USE DEF queueVars, workerVars, storeVars
<1>3. WriterTypeOK'
  BY <1>1, <1>2 DEF WriterInv, WriterTypeOK, StoreTypeOK, Goto
<1>4. Pushing' = Pushing
  BY <1>2, PushingStays DEF WriterInv
<1>5. PendingCounts' /\ QueueExact'
  BY <1>1, <1>4, CountsFrame DEF WriterInv, Busy
<1>6. NoLostWakeup' /\ StopQuiet' /\ DoneStopped'
  BY <1>1, <1>2 DEF WriterInv, WriterTypeOK, NoLostWakeup, StopQuiet, DoneStopped, Goto
<1> QED
  BY <1>3, <1>5, <1>6 DEF WriterInv

(* The worker takes the front of the queue.                                *)
LEMMA WorkerTakeInv ==
  ASSUME WriterInv, WorkerTake
  PROVE  WriterInv'
<1> USE DEF WorkerTake, WorkerStep, storeVars
<1>1. /\ task' \in PersistedBoardSnapshot
      /\ q' \in Seq(PersistedBoardSnapshot)
      /\ Len(q') = Len(q) - 1
  BY HeadTailProperties DEF WriterInv, WriterTypeOK
<1>2. WriterTypeOK'
  BY <1>1 DEF WriterInv, WriterTypeOK, StoreTypeOK
<1>3. ~Busy /\ Busy'
  BY DEF Busy
<1>4. PendingCounts'
  <2>1. pending = Cardinality(Pushing) + Len(q)
    BY <1>3, PushingFinite DEF WriterInv, WriterTypeOK, PendingCounts, Pushing
  <2>2. Len(q) \in Nat /\ Cardinality(Pushing) \in Nat
    BY PushingFinite DEF WriterInv, WriterTypeOK
  <2>3. Pushing' = Pushing
    BY DEF Pushing
  <2>4. pending' = Cardinality(Pushing') + Len(q') + 1
    BY <1>1, <2>1, <2>2, <2>3
  <2> QED
    BY <1>3, <2>4 DEF PendingCounts, Pushing
<1>5. QueueExact'
  <2>1. /\ handled \in Seq(PersistedBoardSnapshot)
        /\ q \in Seq(PersistedBoardSnapshot)
        /\ q # <<>>
    BY DEF WriterInv, WriterTypeOK
  <2>2. handled \o <<>> \o q = handled \o <<Head(q)>> \o Tail(q)
    BY ONLY <2>1, TakeExact, Zenon
  <2>3. pushed = handled \o <<>> \o q
    BY <1>3 DEF WriterInv, QueueExact
  <2>4. pushed' = handled' \o <<task'>> \o q'
    BY <2>2, <2>3
  <2> QED
    BY <1>3, <2>4 DEF QueueExact
<1>6. NoLostWakeup' /\ StopQuiet' /\ DoneStopped'
  BY DEF WriterInv, NoLostWakeup, StopQuiet, DoneStopped
<1> QED
  BY <1>2, <1>4, <1>5, <1>6 DEF WriterInv

(* Steps of the worker without a task.                                     *)
LEMMA WorkerWaitInv ==
  ASSUME WriterInv, WorkerSleep \/ WorkerExit \/ WorkerSpuriousWake
  PROVE  WriterInv'
<1> USE DEF WorkerSleep, WorkerExit, WorkerSpuriousWake, WorkerStep, storeVars
<1>1. WriterTypeOK'
  BY DEF WriterInv, WriterTypeOK, StoreTypeOK, queueVars
<1>2. Busy' = Busy /\ Pushing' = Pushing
  BY DEF Busy, Pushing
<1>3. PendingCounts' /\ QueueExact'
  BY <1>2, CountsFrame DEF WriterInv
<1>4. NoLostWakeup' /\ StopQuiet' /\ DoneStopped'
  BY DEF WriterInv, NoLostWakeup, StopQuiet, DoneStopped, queueVars
<1> QED
  BY <1>1, <1>3, <1>4 DEF WriterInv

(* The row that an INSERT adds, with whatever reading of the clock.        *)
LEMMA SaveAddsRow ==
  ASSUME nextId \in Nat, NEW snap \in PersistedBoardSnapshot, Save(snap)
  PROVE  /\ \E row \in Row : /\ row.id = nextId /\ row.snap = snap
                            /\ rows' = rows \cup {row}
                            /\ everSaved' = everSaved \cup {row}
         /\ nextId' = nextId + 1
<1>1. PICK now \in NowMs :
        LET row == [id |-> nextId, savedAt |-> now, snap |-> snap]
        IN  rows' = rows \cup {row} /\ everSaved' = everSaved \cup {row}
  BY DEF Save
<1>2. PICK row : row = [id |-> nextId, savedAt |-> now, snap |-> snap]
  OBVIOUS
<1>3. row \in Row /\ row.id = nextId /\ row.snap = snap
  BY <1>2, StoreAssumption DEF Row, NowMs
<1> QED
  BY <1>1, <1>2, <1>3 DEF Save

(* What the store does with the task, or fails to do.                      *)
LEMMA StoreInv ==
  ASSUME WriterInv, WorkerSave \/ WorkerPrune \/ WorkerCatch
  PROVE  WriterInv'
<1>1. StoreTypeOK'
  <2>1. CASE WorkerSave
    <3>1. /\ nextId \in Nat \ {0} /\ task \in PersistedBoardSnapshot /\ Save(task)
          /\ rows \subseteq everSaved /\ everSaved \subseteq Row
      BY <2>1 DEF WriterInv, WriterTypeOK, StoreTypeOK, WorkerSave, WorkerStep
    <3>2. /\ \E row \in Row : rows' = rows \cup {row} /\ everSaved' = everSaved \cup {row}
          /\ nextId' = nextId + 1
      BY <3>1, SaveAddsRow
    <3> QED
      BY <3>1, <3>2 DEF StoreTypeOK
  <2>2. CASE WorkerPrune
    <3>1. PICK T \in Newest(RowsOf(task.room), KeepLatest) :
            rows' = (rows \ RowsOf(task.room)) \cup T
      BY <2>2 DEF WorkerPrune, PruneKeepLatest
    <3>2. T \subseteq rows
      BY DEF Newest, RowsOf
    <3> QED
      BY <2>2, <3>1, <3>2
      DEF WriterInv, WriterTypeOK, StoreTypeOK, WorkerPrune, PruneKeepLatest
  <2>3. CASE WorkerCatch
    BY <2>3 DEF WriterInv, WriterTypeOK, StoreTypeOK, WorkerCatch, storeVars
  <2> QED
    BY <2>1, <2>2, <2>3
<1>2. /\ worker \in {"save", "prune"}
      /\ worker' \in {"prune", "count"}
      /\ UNCHANGED <<pc, arg, queueVars, task, handled>>
      /\ failures' \in Nat
  BY DEF WorkerSave, WorkerPrune, WorkerCatch, WorkerStep, WriterInv, WriterTypeOK
<1>3. WriterTypeOK'
  BY <1>1, <1>2 DEF WriterInv, WriterTypeOK, queueVars
<1>4. Busy' = Busy /\ Pushing' = Pushing
  BY <1>2 DEF Busy, Pushing
<1>5. PendingCounts' /\ QueueExact'
  BY <1>2, <1>4, CountsFrame DEF WriterInv
<1>6. NoLostWakeup' /\ StopQuiet' /\ DoneStopped'
  BY <1>2 DEF WriterInv, NoLostWakeup, StopQuiet, DoneStopped, queueVars
<1> QED
  BY <1>3, <1>5, <1>6 DEF WriterInv

(* The worker counts its task off.                                         *)
LEMMA FetchSubInv ==
  ASSUME WriterInv, FetchSub
  PROVE  WriterInv'
<1> USE DEF FetchSub, WorkerStep, storeVars
<1>1. Busy /\ ~Busy' /\ task \in PersistedBoardSnapshot
  BY DEF Busy, WriterInv, WriterTypeOK
<1>2. pending = Cardinality(Pushing) + Len(q) + 1
  BY <1>1 DEF WriterInv, PendingCounts, Pushing
<1>3. Len(q) \in Nat /\ Cardinality(Pushing) \in Nat
  BY PushingFinite DEF WriterInv, WriterTypeOK
<1>4. pending' = Cardinality(Pushing') + Len(q') /\ pending' \in Nat
  BY <1>2, <1>3 DEF Pushing
<1>5. PendingCounts'
  BY <1>1, <1>3, <1>4 DEF PendingCounts, Pushing
<1>6. handled' \in Seq(PersistedBoardSnapshot)
  BY <1>1, AppendProperties DEF WriterInv, WriterTypeOK
<1>7. WriterTypeOK'
  BY <1>4, <1>6 DEF WriterInv, WriterTypeOK, StoreTypeOK
<1>8. QueueExact'
  <2>1. /\ handled \in Seq(PersistedBoardSnapshot)
        /\ q \in Seq(PersistedBoardSnapshot)
    BY DEF WriterInv, WriterTypeOK
  <2>2. handled \o <<task>> \o q = Append(handled, task) \o <<>> \o q
    BY ONLY <1>1, <2>1, HandExact, Zenon
  <2>3. pushed = handled \o <<task>> \o q
    BY <1>1 DEF WriterInv, QueueExact
  <2>4. pushed' = handled' \o <<>> \o q'
    BY <2>2, <2>3
  <2> QED
    BY <1>1, <2>4 DEF QueueExact
<1>9. NoLostWakeup' /\ StopQuiet' /\ DoneStopped'
  BY DEF WriterInv, NoLostWakeup, StopQuiet, DoneStopped
<1> QED
  BY <1>5, <1>7, <1>8, <1>9 DEF WriterInv

(* The worker wakes those waiting in flush().                              *)
LEMMA NotifyAllInv ==
  ASSUME WriterInv, NotifyAll
  PROVE  WriterInv'
<1> USE DEF NotifyAll, WorkerStep, queueVars, storeVars
<1>1. WriterTypeOK'
  BY DEF WriterInv, WriterTypeOK, StoreTypeOK
<1>2. Busy' = Busy /\ Pushing' = Pushing
  BY DEF Busy, Pushing
<1>3. PendingCounts' /\ QueueExact'
  BY <1>2, CountsFrame DEF WriterInv
<1>4. NoLostWakeup' /\ StopQuiet' /\ DoneStopped'
  BY DEF WriterInv, NoLostWakeup, StopQuiet, DoneStopped
<1> QED
  BY <1>1, <1>3, <1>4 DEF WriterInv

(* The destructor, when nobody is inside a call.                           *)
LEMMA DestroyInv ==
  ASSUME WriterInv, Destroy
  PROVE  WriterInv'
<1> USE DEF Destroy, WakeWorker, storeVars
<1>1. WriterTypeOK'
  <2>1. stop' \in BOOLEAN
    OBVIOUS
  <2> QED
    BY <2>1 DEF WriterInv, WriterTypeOK, StoreTypeOK
<1>2. Busy' = Busy /\ Pushing' = Pushing
  BY DEF Busy, Pushing
<1>3. PendingCounts' /\ QueueExact'
  BY <1>2 DEF WriterInv, PendingCounts, QueueExact, Pushing
<1>4. NoLostWakeup' /\ StopQuiet' /\ DoneStopped'
  BY DEF WriterInv, NoLostWakeup, StopQuiet, DoneStopped
<1> QED
  BY <1>1, <1>3, <1>4 DEF WriterInv

(* Every step keeps the invariant.                                         *)
LEMMA WriterNextInv ==
  ASSUME WriterInv, [WriterNext]_writerVars
  PROVE  WriterInv'
<1>1. CASE WriterAction
  BY <1>1, WorkerTakeInv, WorkerWaitInv, StoreInv, FetchSubInv, NotifyAllInv
  DEF WriterAction
<1>2. CASE WorkerSpuriousWake
  BY <1>2, WorkerWaitInv
<1>3. ASSUME NEW t \in Threads, Enqueue(t)
      PROVE  WriterInv'
  <2>1. PICK snap \in AnySnapshot : FetchAdd(t, snap)
    BY <1>3 DEF Enqueue
  <2>2. snap \in PersistedBoardSnapshot
    BY DEF AnySnapshot, PersistedBoardSnapshot
  <2> QED
    BY <2>1, <2>2, FetchAddInv
<1>4. ASSUME NEW t \in Threads, EnqueueStep(t)
      PROVE  WriterInv'
  BY <1>4, PushInv, NotifyOneInv DEF EnqueueStep
<1>5. ASSUME NEW t \in Threads,
             FlushCall(t) \/ FlushStep(t) \/ FlushSpuriousWake(t)
      PROVE  WriterInv'
  BY <1>5, FlushInv DEF FlushStep
<1>6. CASE Destroy
  BY <1>6, DestroyInv
<1>7. CASE UNCHANGED writerVars
  BY <1>7 DEF WriterInv, WriterTypeOK, StoreTypeOK, PendingCounts, QueueExact, Busy,
              NoLostWakeup, StopQuiet, DoneStopped, writerVars, queueVars,
              workerVars, storeVars
<1> QED
  BY <1>1, <1>2, <1>3, <1>4, <1>5, <1>6, <1>7 DEF WriterNext

(* The inductive invariant holds in every reachable state of the writer.   *)
THEOREM WriterInvariant == WriterSpec => []WriterInv
<1>1. WriterInit => WriterInv
  BY WriterInitInv
<1>2. WriterInv /\ [WriterNext]_writerVars => WriterInv'
  BY WriterNextInv
<1> QED
  BY <1>1, <1>2, PTL DEF WriterSpec

-----------------------------------------------------------------------------
(* The members of SnapshotWriter keep their types; in particular pending_, *)
(* an unsigned counter, is never decremented at zero.                      *)
THEOREM WriterTypeCorrect == WriterSpec => []WriterTypeOK
BY WriterInvariant, PTL DEF WriterInv

(* pending_ always counts exactly the snapshots not yet handled.           *)
THEOREM PendingCorrect == WriterSpec => []PendingCounts
BY WriterInvariant, PTL DEF WriterInv

(* The queue neither loses, nor repeats, nor reorders a snapshot, however  *)
(* the store fails.                                                        *)
THEOREM QueueCorrect == WriterSpec => []QueueExact
BY WriterInvariant, PTL DEF WriterInv

(* The worker never sleeps on a queue that nobody will wake it for.        *)
THEOREM WakeupCorrect == WriterSpec => []NoLostWakeup
BY WriterInvariant, PTL DEF WriterInv

(* When the destructor's join() returns, everything has been handled.      *)
THEOREM DestructorCorrect == WriterSpec => []DestructorDrains
<1>1. WriterInv => DestructorDrains
  <2> SUFFICES ASSUME WriterInv, worker = "done" PROVE handled = pushed
    BY DEF DestructorDrains
  <2>1. pushed = handled \o <<>> \o <<>>
    BY DEF WriterInv, QueueExact, DoneStopped, Busy
  <2> QED
    BY <2>1, ConcatEmptySeq DEF WriterInv, WriterTypeOK
<1> QED
  BY <1>1, WriterInvariant, PTL

(* A flush() that returns has seen every snapshot handled that was counted *)
(* before.                                                                 *)
THEOREM FlushCorrect == WriterSpec => FlushMeansHandled
<1> DEFINE Handled ==
      \A t \in Threads :
        pc[t] = "test" /\ pc'[t] = "idle" =>
          /\ handled = pushed
          /\ \A u \in Threads : pc[u] # "push"
<1>1. WriterInv /\ pending = 0 =>
        handled = pushed /\ \A u \in Threads : pc[u] # "push"
  <2> SUFFICES ASSUME WriterInv, pending = 0
               PROVE  handled = pushed /\ \A u \in Threads : pc[u] # "push"
    OBVIOUS
  <2>1. 0 = Cardinality(Pushing) + Len(q) + (IF Busy THEN 1 ELSE 0)
    BY DEF WriterInv, PendingCounts, Pushing
  <2>2. Len(q) \in Nat /\ Cardinality(Pushing) \in Nat
    BY PushingFinite DEF WriterInv, WriterTypeOK
  <2>3. Cardinality(Pushing) = 0 /\ Len(q) = 0 /\ ~Busy
    BY <2>1, <2>2
  <2>4. Pushing = {}
    BY <2>3, PushingFinite, FS_EmptySet
  <2>5. q = <<>>
    BY <2>3 DEF WriterInv, WriterTypeOK
  <2>6. pushed = handled \o <<>> \o <<>>
    BY <2>3, <2>5 DEF WriterInv, QueueExact
  <2> QED
    BY <2>4, <2>6, ConcatEmptySeq DEF Pushing, WriterInv, WriterTypeOK
<1>2. WriterInv /\ [WriterNext]_writerVars => [Handled]_writerVars
  <2> SUFFICES ASSUME WriterInv, [WriterNext]_writerVars, NEW t \in Threads,
                      pc[t] = "test", pc'[t] = "idle"
               PROVE  pending = 0
    BY <1>1
  <2>1. pc \in [Threads -> {"idle", "push", "notify", "test", "park", "parked"}]
    BY DEF WriterInv, WriterTypeOK
  <2>2. ~UNCHANGED pc
    OBVIOUS
  <2>3. ~(\/ WriterAction \/ WorkerSpuriousWake \/ Destroy
          \/ UNCHANGED writerVars)
    BY <2>1, <2>2
    DEF WriterAction, WorkerTake, WorkerSleep, WorkerExit, WorkerSave, WorkerPrune,
        WorkerCatch, FetchSub, NotifyAll, WorkerSpuriousWake, Destroy, writerVars
  <2>4. PICK u \in Threads :
          \/ Enqueue(u) \/ EnqueueStep(u)
          \/ FlushCall(u) \/ FlushStep(u) \/ FlushSpuriousWake(u)
    BY <2>3 DEF WriterNext
  <2> QED
    BY <2>1, <2>4
    DEF Enqueue, FetchAdd, EnqueueStep, Push, NotifyOne, FlushCall, FlushStep,
        FlushReturn, FlushTestFails, FlushPark, FlushSpuriousWake, Goto
<1> QED
  BY <1>2, WriterInvariant, PTL DEF WriterSpec, FlushMeansHandled

-----------------------------------------------------------------------------
(* Retention.  The rows of a room are counted, so that they are finitely   *)
(* many is part of the invariant.  LastRowsKept has a premise about all    *)
(* saves; what every DELETE establishes without one is that an older row   *)
(* outlives a newer one only with a later reading of the clock, and that   *)
(* a room that lost a row has keepLatest_ of them left.                    *)
IdsBelow == \A x \in everSaved : x.id < nextId

IdsOnce == \A x, y \in everSaved : x.id = y.id => x = y

OutlivedByLater ==
  \A x \in everSaved \ rows, y \in rows :
    x.snap.room = y.snap.room /\ y.id < x.id => x.savedAt < y.savedAt

EnoughKept ==
  \A x \in everSaved \ rows : Cardinality(RowsOf(x.snap.room)) >= KeepLatest

RetentionInv ==
  /\ IsFiniteSet(rows)
  /\ RetentionBound
  /\ IdsBelow
  /\ IdsOnce
  /\ OutlivedByLater
  /\ EnoughKept

(* The rows of a room are finitely many.                                   *)
LEMMA RowsOfFinite ==
  ASSUME IsFiniteSet(rows), NEW r
  PROVE  IsFiniteSet(RowsOf(r)) /\ Cardinality(RowsOf(r)) \in Nat
<1>1. RowsOf(r) \subseteq rows
  BY DEF RowsOf
<1>2. IsFiniteSet(RowsOf(r))
  BY <1>1, FS_Subset
<1> QED
  BY <1>2, FS_CardinalityType

(* A step that leaves the table alone keeps the bound, unless it starts a  *)
(* prune or gives one up.                                                  *)
LEMMA RetentionFrame ==
  ASSUME RetentionInv, rows' = rows, nextId' = nextId, everSaved' = everSaved,
         failures' = failures,
         \/ worker' = worker /\ task' = task
         \/ worker # "prune" /\ worker' # "prune"
  PROVE  RetentionInv'
<1>1. RetentionBound'
  BY DEF RetentionInv, RetentionBound, RowsOf
<1> QED
  BY <1>1 DEF RetentionInv, IdsBelow, IdsOnce, OutlivedByLater, EnoughKept, RowsOf

(* One INSERT: a room may have one row too many until the DELETE.          *)
LEMMA SaveRetention ==
  ASSUME WriterInv, RetentionInv, WorkerSave
  PROVE  RetentionInv'
<1>a. /\ task \in PersistedBoardSnapshot /\ nextId \in Nat /\ Save(task)
      /\ worker = "save" /\ worker' = "prune" /\ task' = task /\ failures' = failures
  BY DEF WorkerSave, WorkerStep, WriterInv, WriterTypeOK, StoreTypeOK
<1>b. PICK row \in Row : /\ row.id = nextId /\ row.snap = task
                         /\ rows' = rows \cup {row} /\ everSaved' = everSaved \cup {row}
  BY <1>a, SaveAddsRow
<1>1. /\ rows' = rows \cup {row} /\ everSaved' = everSaved \cup {row}
      /\ nextId' = nextId + 1 /\ row.id = nextId /\ row.snap = task
      /\ worker = "save" /\ worker' = "prune" /\ task' = task /\ failures' = failures
  BY <1>a, <1>b, SaveAddsRow
<1>2. /\ task.room \in Rooms /\ nextId \in Nat
      /\ rows \subseteq everSaved
      /\ \A x \in everSaved : x.id \in Nat /\ x.id < nextId
  BY <1>a DEF WriterInv, WriterTypeOK, StoreTypeOK, Row, PersistedBoardSnapshot,
              RetentionInv, IdsBelow
<1>3. IsFiniteSet(rows')
  BY <1>1, FS_AddElement DEF RetentionInv
<1>4. RetentionBound'
  <2> SUFFICES ASSUME failures = 0, NEW r \in Rooms
               PROVE  Cardinality(RowsOf(r)') <=
                        KeepLatest + (IF task.room = r THEN 1 ELSE 0)
    BY <1>1 DEF RetentionBound
  <2>1. /\ IsFiniteSet(RowsOf(r)) /\ Cardinality(RowsOf(r)) \in Nat
        /\ Cardinality(RowsOf(r)) <= KeepLatest
    BY <1>1, RowsOfFinite, WriterAssumption DEF RetentionInv, RetentionBound
  <2>2. CASE task.room = r
    <3>1. RowsOf(r)' = RowsOf(r) \cup {row}
      BY <1>1, <2>2 DEF RowsOf
    <3>2. Cardinality(RowsOf(r) \cup {row}) =
            IF row \in RowsOf(r) THEN Cardinality(RowsOf(r))
                                 ELSE Cardinality(RowsOf(r)) + 1
      BY <2>1, FS_AddElement, Zenon
    <3> QED
      BY <2>1, <2>2, <3>1, <3>2, WriterAssumption
  <2>3. CASE task.room # r
    <3>1. RowsOf(r)' = RowsOf(r)
      BY <1>1, <2>3 DEF RowsOf
    <3> QED
      BY <2>1, <2>3, <3>1, WriterAssumption
  <2> QED
    BY <2>2, <2>3
<1>5. IdsBelow' /\ IdsOnce'
  BY <1>1, <1>2 DEF RetentionInv, IdsBelow, IdsOnce
<1>6. row \notin everSaved
  BY <1>1, <1>2
<1>7. everSaved' \ rows' = everSaved \ rows
  BY <1>1, <1>6
<1>8. OutlivedByLater'
  BY <1>1, <1>2, <1>7 DEF RetentionInv, OutlivedByLater
<1>9. EnoughKept'
  <2> SUFFICES ASSUME NEW x \in everSaved \ rows
               PROVE  Cardinality(RowsOf(x.snap.room)') >= KeepLatest
    BY <1>7 DEF EnoughKept, RowsOf
  <2>1. RowsOf(x.snap.room) \subseteq RowsOf(x.snap.room)'
    BY <1>1 DEF RowsOf
  <2>2. RowsOf(x.snap.room)' \subseteq rows'
    BY DEF RowsOf
  <2>3. IsFiniteSet(RowsOf(x.snap.room)')
    BY <1>3, <2>2, FS_Subset
  <2>4. /\ Cardinality(RowsOf(x.snap.room)) <= Cardinality(RowsOf(x.snap.room)')
        /\ Cardinality(RowsOf(x.snap.room)) \in Nat
        /\ Cardinality(RowsOf(x.snap.room)') \in Nat
    BY <2>1, <2>3, FS_Subset, FS_CardinalityType
  <2> QED
    BY <2>4, WriterAssumption DEF RetentionInv, EnoughKept
<1> QED
  BY <1>3, <1>4, <1>5, <1>8, <1>9 DEF RetentionInv

(* One DELETE: the newest rows of the task's room stay.                    *)
LEMMA PruneRetention ==
  ASSUME WriterInv, RetentionInv, WorkerPrune
  PROVE  RetentionInv'
<1>1. PICK T \in Newest(RowsOf(task.room), KeepLatest) :
        rows' = (rows \ RowsOf(task.room)) \cup T
  BY DEF WorkerPrune, PruneKeepLatest
<1>2. /\ worker' = "count" /\ task' = task /\ failures' = failures
      /\ everSaved' = everSaved /\ nextId' = nextId
  BY DEF WorkerPrune, WorkerStep, PruneKeepLatest
<1>3. /\ T \subseteq RowsOf(task.room)
      /\ Cardinality(T) = IF KeepLatest <= Cardinality(RowsOf(task.room))
                          THEN KeepLatest ELSE Cardinality(RowsOf(task.room))
      /\ \A x \in T, y \in RowsOf(task.room) \ T : Precedes(x, y)
  BY DEF Newest
<1>4. rows' \subseteq rows
  BY <1>1, <1>3 DEF RowsOf
<1>5. IsFiniteSet(rows')
  BY <1>4, FS_Subset DEF RetentionInv
<1>6. RetentionBound'
  <2> SUFFICES ASSUME failures = 0, NEW r \in Rooms
               PROVE  Cardinality(RowsOf(r)') <= KeepLatest + 0
    BY <1>2 DEF RetentionBound
  <2>1. CASE r = task.room
    <3>1. RowsOf(r)' = T
      BY <1>1, <1>3, <2>1 DEF RowsOf
    <3>2. Cardinality(RowsOf(task.room)) \in Nat
      BY RowsOfFinite DEF RetentionInv
    <3> QED
      BY <1>3, <3>1, <3>2, WriterAssumption
  <2>2. CASE r # task.room
    <3>1. RowsOf(r)' = RowsOf(r)
      BY <1>1, <1>3, <2>2 DEF RowsOf
    <3> QED
      BY <2>2, <3>1 DEF RetentionInv, RetentionBound
  <2> QED
    BY <2>1, <2>2
<1>7. IdsBelow' /\ IdsOnce'
  BY <1>2 DEF RetentionInv, IdsBelow, IdsOnce
<1>8. ASSUME NEW x \in everSaved \ rows', x \in rows
      PROVE  x \in RowsOf(task.room) \ T /\ x.snap.room = task.room
  BY <1>1, <1>8 DEF RowsOf
<1>9. OutlivedByLater'
  <2> SUFFICES ASSUME NEW x \in everSaved \ rows', NEW y \in rows',
                      x.snap.room = y.snap.room, y.id < x.id
               PROVE  x.savedAt < y.savedAt
    BY <1>2 DEF OutlivedByLater
  <2>1. CASE x \notin rows
    BY <1>4, <2>1 DEF RetentionInv, OutlivedByLater
  <2>2. CASE x \in rows
    <3>1. x \in RowsOf(task.room) \ T
      BY <1>8, <2>2
    <3>2. y \in T
      BY <1>1, <1>4, <3>1 DEF RowsOf
    <3>3. /\ x.savedAt \in Nat /\ y.savedAt \in Nat /\ x.id \in Nat /\ y.id \in Nat
      BY <1>4 DEF WriterInv, WriterTypeOK, StoreTypeOK, Row
    <3>4. Precedes(y, x)
      BY <1>3, <3>1, <3>2
    <3> QED
      BY <3>3, <3>4 DEF Precedes
  <2> QED
    BY <2>1, <2>2
<1>10. EnoughKept'
  <2> SUFFICES ASSUME NEW x \in everSaved \ rows'
               PROVE  Cardinality(RowsOf(x.snap.room)') >= KeepLatest
    BY <1>2 DEF EnoughKept, RowsOf
  <2>1. Cardinality(RowsOf(task.room)) \in Nat /\ IsFiniteSet(RowsOf(task.room))
    BY RowsOfFinite DEF RetentionInv
  <2>2. CASE x.snap.room # task.room
    <3>1. RowsOf(x.snap.room)' = RowsOf(x.snap.room)
      BY <1>1, <1>3, <2>2 DEF RowsOf
    <3>2. x \notin rows
      BY <1>8, <2>2
    <3> QED
      BY <3>1, <3>2 DEF RetentionInv, EnoughKept
  <2>3. CASE x.snap.room = task.room
    <3>1. RowsOf(x.snap.room)' = T
      BY <1>1, <1>3, <2>3 DEF RowsOf
    <3>2. Cardinality(RowsOf(task.room)) >= KeepLatest
      <4>1. CASE x \notin rows
        BY <2>3, <4>1 DEF RetentionInv, EnoughKept
      <4>2. CASE x \in rows
        <5>1. T # RowsOf(task.room)
          BY <1>8, <4>2
        <5>2. Cardinality(T) # Cardinality(RowsOf(task.room))
          BY <1>3, <2>1, <5>1, FS_Subset, Zenon
        <5> QED
          BY <1>3, <2>1, <5>2, WriterAssumption
      <4> QED
        BY <4>1, <4>2
    <3> QED
      BY <1>3, <2>1, <3>1, <3>2, WriterAssumption
  <2> QED
    BY <2>2, <2>3
<1> QED
  BY <1>5, <1>6, <1>7, <1>9, <1>10 DEF RetentionInv

(* Retention, for every number of rows kept and every interleaving: as     *)
(* long as no statement has failed no room has more than keepLatest_ rows  *)
(* (one more between INSERT and DELETE), and at all times a deleted row    *)
(* left keepLatest_ others behind, older ones only if their stamps are     *)
(* later.                                                                  *)
THEOREM RetentionInvariant == WriterSpec => []RetentionInv
<1>1. WriterInit => RetentionInv
  <2> SUFFICES ASSUME WriterInit PROVE RetentionInv
    OBVIOUS
  <2>1. rows = {} /\ everSaved = {}
    BY DEF WriterInit, StoreInit
  <2>2. IsFiniteSet(rows) /\ \A r : RowsOf(r) = {}
    BY <2>1, FS_EmptySet DEF RowsOf
  <2>3. RetentionBound
    <3>1. \A r \in Rooms : Cardinality(RowsOf(r)) = 0
      BY <2>2, FS_EmptySet
    <3>2. worker # "prune"
      BY DEF WriterInit
    <3> QED
      BY <3>1, <3>2, WriterAssumption DEF RetentionBound
  <2> QED
    BY <2>1, <2>2, <2>3 DEF RetentionInv, IdsBelow, IdsOnce, OutlivedByLater, EnoughKept
<1>2. ASSUME WriterInv, RetentionInv, [WriterNext]_writerVars PROVE RetentionInv'
  <2>1. CASE WorkerSave
    BY <1>2, <2>1, SaveRetention
  <2>2. CASE WorkerPrune
    BY <1>2, <2>2, PruneRetention
  <2>3. CASE WorkerCatch
    <3>1. failures' # 0 /\ UNCHANGED storeVars
      BY <1>2, <2>3 DEF WorkerCatch, WriterInv, WriterTypeOK
    <3> QED
      BY <1>2, <3>1
      DEF RetentionInv, RetentionBound, IdsBelow, IdsOnce, OutlivedByLater, EnoughKept,
          RowsOf, storeVars
  <2>4. CASE WorkerTake \/ WorkerSleep \/ WorkerExit \/ FetchSub \/ NotifyAll
             \/ WorkerSpuriousWake
    BY <1>2, <2>4, RetentionFrame
    DEF WorkerTake, WorkerSleep, WorkerExit, FetchSub, NotifyAll, WorkerSpuriousWake,
        WorkerStep, storeVars
  <2>5. ASSUME NEW t \in Threads, Enqueue(t) PROVE RetentionInv'
    BY <1>2, <2>5, RetentionFrame DEF Enqueue, FetchAdd, workerVars, storeVars
  <2>6. ASSUME NEW t \in Threads, EnqueueStep(t) PROVE RetentionInv'
    BY <1>2, <2>6, RetentionFrame
    DEF EnqueueStep, Push, NotifyOne, WakeWorker, workerVars, storeVars
  <2>7. ASSUME NEW t \in Threads,
               FlushCall(t) \/ FlushStep(t) \/ FlushSpuriousWake(t)
        PROVE  RetentionInv'
    BY <1>2, <2>7, RetentionFrame
    DEF FlushCall, FlushStep, FlushReturn, FlushTestFails, FlushPark,
        FlushSpuriousWake, workerVars, storeVars
  <2>8. CASE Destroy
    BY <1>2, <2>8, RetentionFrame DEF Destroy, WakeWorker, storeVars
  <2>9. CASE UNCHANGED writerVars
    BY <1>2, <2>9, RetentionFrame DEF writerVars, workerVars, storeVars
  <2> QED
    BY <1>2, <2>1, <2>2, <2>3, <2>4, <2>5, <2>6, <2>7, <2>8, <2>9
    DEF WriterNext, WriterAction
<1> QED
  BY <1>1, <1>2, WriterInvariant, PTL DEF WriterSpec

(* No room keeps more rows than keepLatest_ while the store has not failed.*)
THEOREM RetentionCorrect == WriterSpec => []RetentionBound
BY RetentionInvariant, PTL DEF RetentionInv

(* pruneKeepLatest() keeps the rows that were saved last, ties within a    *)
(* millisecond included, unless the clock was set back between two saves   *)
(* of the room.                                                            *)
THEOREM LastRowsCorrect == WriterSpec => []LastRowsKept
<1>1. WriterInv /\ RetentionInv => LastRowsKept
  <2> SUFFICES ASSUME WriterInv, RetentionInv, NEW x \in everSaved \ rows
               PROVE  /\ Cardinality(RowsOf(x.snap.room)) >= KeepLatest
                      /\ TimesInOrder(x.snap.room) =>
                           \A y \in RowsOf(x.snap.room) : x.id < y.id
    BY DEF LastRowsKept
  <2>1. ASSUME TimesInOrder(x.snap.room), NEW y \in RowsOf(x.snap.room) PROVE x.id < y.id
    <3>1. y \in rows /\ y \in everSaved /\ y.snap.room = x.snap.room
      BY DEF RowsOf, WriterInv, WriterTypeOK, StoreTypeOK
    <3>2. /\ x.savedAt \in Nat /\ y.savedAt \in Nat /\ x.id \in Nat /\ y.id \in Nat
      BY <3>1 DEF WriterInv, WriterTypeOK, StoreTypeOK, Row
    <3>3. x.id # y.id
      BY <3>1 DEF RetentionInv, IdsOnce
    <3>4. ~(y.id < x.id)
      BY <2>1, <3>1, <3>2 DEF RetentionInv, OutlivedByLater, TimesInOrder
    <3> QED
      BY <3>2, <3>3, <3>4
  <2> QED
    BY <2>1 DEF RetentionInv, EnoughKept
<1> QED
  BY <1>1, WriterInvariant, RetentionInvariant, PTL

=============================================================================
