------------------------ MODULE SinkRefinementProofs ------------------------
(***************************************************************************)
(* TLAPS proof that SnapshotWriter implements SnapshotSink under the       *)
(* refinement mapping of SinkRefinement.  The mapping reads the table as a *)
(* sequence, so the invariant it needs is that the ids AUTOINCREMENT has   *)
(* handed out are 1 .. nextId - 1, each to one row; and a push must be of  *)
(* a snapshot that enqueue() was called with.                              *)
(***************************************************************************)
EXTENDS SinkRefinement, SnapshotWriterProofs

ArgAccepted == \A t \in Threads : pc[t] = "push" => arg[t] \in AnySnapshot

IdsDense == \A i \in 1 .. nextId - 1 : \E x \in everSaved : x.id = i

SinkInv ==
  /\ ArgAccepted
  /\ IdsBelow
  /\ IdsOnce
  /\ IdsDense

(* A row is found by its id.                                               *)
LEMMA RowById ==
  ASSUME NEW S, NEW x \in S, \A y, z \in S : y.id = z.id => y = z
  PROVE  (CHOOSE row \in S : row.id = x.id) = x
OBVIOUS

(* An INSERT puts the row at the end of the sequence of those saved.       *)
LEMMA SaveAppends ==
  ASSUME WriterInv, SinkInv, NEW snap \in PersistedBoardSnapshot, Save(snap)
  PROVE  IdsBelow' /\ IdsOnce' /\ IdsDense' /\ SavedInOrder' = Append(SavedInOrder, snap)
<1> DEFINE n == nextId - 1
<1>a. nextId \in Nat
  BY DEF WriterInv, WriterTypeOK, StoreTypeOK
<1>b. PICK row \in Row : /\ row.id = nextId /\ row.snap = snap
                         /\ everSaved' = everSaved \cup {row}
  BY <1>a, SaveAddsRow
<1>1. /\ everSaved' = everSaved \cup {row} /\ nextId' = nextId + 1
      /\ row.id = nextId /\ row.snap = snap
  BY <1>a, <1>b, SaveAddsRow
<1>2. /\ nextId \in Nat \ {0} /\ n \in Nat
      /\ \A x \in everSaved : x.id \in Nat /\ x.id < nextId /\ x.snap \in PersistedBoardSnapshot
  BY DEF WriterInv, WriterTypeOK, StoreTypeOK, Row, SinkInv, IdsBelow
<1>3. IdsBelow'
  BY <1>1, <1>2 DEF IdsBelow
<1>4. IdsOnce'
  BY <1>1, <1>2 DEF SinkInv, IdsOnce
<1>5. IdsDense'
  <2> SUFFICES ASSUME NEW i \in 1 .. nextId' - 1
               PROVE  \E x \in everSaved' : x.id = i
    BY DEF IdsDense
  <2>1. CASE i = nextId
    BY <1>1, <2>1
  <2>2. CASE i # nextId
    <3>1. i \in 1 .. nextId - 1
      BY <1>1, <1>2, <2>2
    <3> QED
      BY <1>1, <3>1 DEF SinkInv, IdsDense
  <2> QED
    BY <2>1, <2>2
<1>6. ASSUME NEW i \in 1 .. n
      PROVE  /\ SavedInOrder[i] \in PersistedBoardSnapshot
             /\ (CHOOSE r \in everSaved' : r.id = i).snap = SavedInOrder[i]
  <2>1. PICK x \in everSaved : x.id = i
    BY DEF SinkInv, IdsDense
  <2>2. (CHOOSE r \in everSaved : r.id = x.id) = x
    BY RowById DEF SinkInv, IdsOnce
  <2>3. (CHOOSE r \in everSaved' : r.id = x.id) = x
    BY <1>1, <1>4, RowById DEF IdsOnce
  <2>4. SavedInOrder[i] = x.snap
    BY <2>1, <2>2 DEF SavedInOrder
  <2> QED
    BY <1>2, <2>1, <2>3, <2>4
<1>7. (CHOOSE r \in everSaved' : r.id = nextId) = row
  BY <1>1, <1>4, RowById DEF IdsOnce
<1>8. SavedInOrder \in [1 .. n -> PersistedBoardSnapshot]
  BY <1>6 DEF SavedInOrder
<1>9. SavedInOrder \in Seq(PersistedBoardSnapshot) /\ Len(SavedInOrder) = n
  BY <1>2, <1>8
<1>10. /\ Append(SavedInOrder, snap) \in Seq(PersistedBoardSnapshot)
       /\ Len(Append(SavedInOrder, snap)) = n + 1
       /\ \A i \in 1 .. n : Append(SavedInOrder, snap)[i] = SavedInOrder[i]
       /\ Append(SavedInOrder, snap)[n + 1] = snap
  BY <1>9, AppendProperties
<1>11. /\ DOMAIN SavedInOrder' = 1 .. n + 1
       /\ SavedInOrder' = [i \in 1 .. n + 1 |-> SavedInOrder'[i]]
       /\ \A i \in 1 .. n : SavedInOrder'[i] = SavedInOrder[i]
       /\ SavedInOrder'[n + 1] = snap
  <2>1. SavedInOrder' = [i \in 1 .. n + 1 |->
                           (CHOOSE r \in everSaved' : r.id = i).snap]
    <3>1. nextId' - 1 = n + 1
      BY <1>1, <1>2
    <3> QED
      BY <3>1 DEF SavedInOrder
  <2>2. n + 1 = nextId
    BY <1>2
  <2> QED
    BY <1>1, <1>2, <1>6, <1>7, <2>1, <2>2
<1>12. SavedInOrder' = Append(SavedInOrder, snap)
  <2>1. \A i \in 1 .. n + 1 : SavedInOrder'[i] = Append(SavedInOrder, snap)[i]
    BY <1>2, <1>10, <1>11
  <2>2. Append(SavedInOrder, snap) =
          [i \in 1 .. n + 1 |-> Append(SavedInOrder, snap)[i]]
    <3>1. Append(SavedInOrder, snap) \in [1 .. n + 1 -> PersistedBoardSnapshot]
      BY <1>10, LenProperties
    <3> QED
      BY <3>1, Zenon
  <2> QED
    BY <1>11, <2>1, <2>2
<1> QED
  BY <1>3, <1>4, <1>5, <1>12 DEF SinkInv

-----------------------------------------------------------------------------
(* The invariant of the mapping is kept.                                   *)
THEOREM SinkInvariant == WriterSpec => []SinkInv
<1>1. WriterInit => SinkInv
  BY DEF WriterInit, StoreInit, SinkInv, ArgAccepted, IdsBelow, IdsOnce, IdsDense
<1>2. ASSUME WriterInv, SinkInv, [WriterNext]_writerVars PROVE SinkInv'
  <2>1. pc \in [Threads -> {"idle", "push", "notify", "test", "park", "parked"}]
    BY <1>2 DEF WriterInv, WriterTypeOK
  <2>2. ASSUME everSaved' = everSaved, nextId' = nextId, ArgAccepted' PROVE SinkInv'
    BY <1>2, <2>2 DEF SinkInv, IdsBelow, IdsOnce, IdsDense
  <2>3. CASE WorkerSave
    <3>1. task \in PersistedBoardSnapshot /\ Save(task) /\ ArgAccepted'
      BY <1>2, <2>3 DEF WriterInv, WriterTypeOK, WorkerSave, WorkerStep, SinkInv, ArgAccepted
    <3> QED
      BY <1>2, <3>1, SaveAppends DEF SinkInv
  <2>4. CASE WorkerTake \/ WorkerSleep \/ WorkerExit \/ WorkerPrune \/ WorkerCatch
             \/ FetchSub \/ WorkerSpuriousWake \/ Destroy
             \/ UNCHANGED writerVars
    BY <1>2, <2>2, <2>4
    DEF SinkInv, ArgAccepted, WorkerTake, WorkerSleep, WorkerExit, WorkerPrune,
        PruneKeepLatest, WorkerCatch, FetchSub, WorkerSpuriousWake, Destroy,
        writerVars, storeVars
  <2>5. CASE NotifyAll
    BY <1>2, <2>1, <2>2, <2>5 DEF SinkInv, ArgAccepted, NotifyAll, storeVars
  <2>6. ASSUME NEW t \in Threads, Enqueue(t) PROVE SinkInv'
    <3>1. PICK snap \in AnySnapshot : FetchAdd(t, snap)
      BY <2>6 DEF Enqueue
    <3>2. arg' = [arg EXCEPT ![t] = snap] /\ arg \in [Threads -> PersistedBoardSnapshot \cup {NoSnapshot}]
      BY <1>2, <3>1 DEF FetchAdd, WriterInv, WriterTypeOK
    <3>3. ArgAccepted'
      BY <1>2, <2>1, <3>1, <3>2 DEF FetchAdd, Goto, SinkInv, ArgAccepted
    <3> QED
      BY <2>2, <3>1, <3>3 DEF FetchAdd, storeVars
  <2>7. ASSUME NEW t \in Threads, EnqueueStep(t) PROVE SinkInv'
    <3>1. ArgAccepted'
      BY <1>2, <2>1, <2>7
      DEF EnqueueStep, Push, NotifyOne, Goto, SinkInv, ArgAccepted, WriterInv, WriterTypeOK
    <3> QED
      BY <2>2, <2>7, <3>1 DEF EnqueueStep, Push, NotifyOne, storeVars
  <2>8. ASSUME NEW t \in Threads,
               FlushCall(t) \/ FlushStep(t) \/ FlushSpuriousWake(t)
        PROVE  SinkInv'
    BY <1>2, <2>1, <2>2, <2>8
    DEF SinkInv, ArgAccepted, FlushCall, FlushStep, FlushReturn, FlushTestFails,
        FlushPark, FlushSpuriousWake, Goto, storeVars
  <2> QED
    BY <1>2, <2>3, <2>4, <2>5, <2>6, <2>7, <2>8 DEF WriterNext, WriterAction
<1> QED
  BY <1>1, <1>2, WriterInvariant, PTL DEF WriterSpec

-----------------------------------------------------------------------------
(* The backlog of the sink is what the worker has in hand and the queue.   *)
Backlog == InHand \o q

(* A step that changes neither the table nor the backlog, nor finishes     *)
(* anything, is a stutter.                                                 *)
LEMMA SinkStutter ==
  ASSUME Backlog' = Backlog, everSaved' = everSaved, nextId' = nextId,
         worker \in {"prune", "count"} <=> worker' \in {"prune", "count"},
         worker = "done" <=> worker' = "done"
  PROVE  UNCHANGED Sink!sinkVars
<1>1. SavedInOrder' = SavedInOrder
  BY DEF SavedInOrder
<1> QED
  BY <1>1 DEF Sink!sinkVars, Backlog, InHand

(* The backlog is a sequence of snapshots.                                 *)
LEMMA BacklogType ==
  ASSUME WriterInv
  PROVE  /\ InHand \in Seq(PersistedBoardSnapshot)
         /\ q \in Seq(PersistedBoardSnapshot)
         /\ Backlog \in Seq(PersistedBoardSnapshot)
         /\ Backlog = <<>> <=> ~Busy /\ q = <<>>
         /\ ~Busy => Backlog = q
         /\ Busy => /\ task \in PersistedBoardSnapshot
                    /\ Head(Backlog) = task /\ Tail(Backlog) = q
<1>1. q \in Seq(PersistedBoardSnapshot) /\ (Busy => task \in PersistedBoardSnapshot)
  BY DEF WriterInv, WriterTypeOK, Busy
<1>2. CASE Busy
  <2>1. Backlog = <<task>> \o q /\ <<task>> \in Seq(PersistedBoardSnapshot)
    BY <1>1, <1>2 DEF Backlog, InHand
  <2>2. /\ Backlog \in Seq(PersistedBoardSnapshot)
        /\ Backlog # <<>> /\ Head(Backlog) = task
    BY <1>1, <1>2, <2>1
  <2>3. Tail(<<task>> \o q) = q
    BY ONLY <1>1, <1>2
  <2> QED
    BY <1>1, <1>2, <2>1, <2>2, <2>3 DEF InHand
<1>3. CASE ~Busy
  <2>1. Backlog = <<>> \o q
    BY <1>3 DEF Backlog, InHand
  <2>2. Backlog = q
    BY <1>1, <2>1, ConcatEmptySeq
  <2> QED
    BY <1>1, <1>3, <2>2 DEF InHand
<1> QED
  BY <1>2, <1>3

(* The table receives the snapshots in the order of the pushes, none of    *)
(* them twice, whatever fails; and the destructor waits for the last.      *)
THEOREM WriterImplementsSink == WriterSpec => ImplementsSink
<1>1. WriterInit => Sink!SinkInit
  <2> SUFFICES ASSUME WriterInit PROVE Sink!SinkInit
    OBVIOUS
  <2>1. Backlog = <<>>
    BY WriterInitInv, BacklogType DEF WriterInit, Busy
  <2>2. SavedInOrder = <<>>
    BY DEF WriterInit, StoreInit, SavedInOrder
  <2> QED
    BY <2>1, <2>2 DEF WriterInit, Sink!SinkInit, Backlog, InHand
<1>2. ASSUME WriterInv, WriterInv', SinkInv, [WriterNext]_writerVars
      PROVE  [Sink!SinkNext]_(Sink!sinkVars)
  <2> DEFINE Step == Sink!SinkNext \/ UNCHANGED Sink!sinkVars
  <2>1. CASE WorkerTake
    <3>1. ~Busy /\ Busy' /\ q # <<>> /\ task' = Head(q) /\ q' = Tail(q)
      BY <2>1 DEF WorkerTake, WorkerStep, Busy
    <3>2. Backlog' = Backlog
      <4>1. Backlog = q /\ q \in Seq(PersistedBoardSnapshot)
        BY <1>2, <3>1, BacklogType
      <4>2. Backlog' = <<Head(q)>> \o Tail(q)
        BY <3>1 DEF Backlog, InHand
      <4>3. q = <<Head(q)>> \o Tail(q)
        BY ONLY <3>1, <4>1
      <4> QED
        BY <4>1, <4>2, <4>3
    <3> QED
      BY <2>1, <3>2, SinkStutter DEF WorkerTake, WorkerStep, storeVars
  <2>2. CASE WorkerSave
    <3>1. /\ Busy /\ task' = task /\ q' = q /\ Busy' /\ Save(task)
          /\ worker = "save" /\ worker' = "prune"
      BY <2>2 DEF WorkerSave, WorkerStep, Busy, queueVars
    <3>2. /\ task \in PersistedBoardSnapshot /\ Head(Backlog) = task
          /\ Backlog # <<>> /\ Backlog' = Backlog
      BY <1>2, <3>1, BacklogType DEF Backlog, InHand
    <3>3. SavedInOrder' = Append(SavedInOrder, Head(Backlog))
      BY <1>2, <3>1, <3>2, SaveAppends
    <3>4. Sink!Try
      BY <3>1, <3>2, <3>3 DEF Sink!Try, Backlog, InHand
    <3> QED
      BY <3>4 DEF Sink!SinkNext
  <2>3. CASE WorkerCatch
    <3>1. /\ Busy /\ task' = task /\ q' = q /\ Busy' /\ worker' = "count"
          /\ everSaved' = everSaved /\ nextId' = nextId /\ worker \in {"save", "prune"}
      BY <2>3 DEF WorkerCatch, WorkerStep, Busy, queueVars, storeVars
    <3>2. Backlog # <<>> /\ Backlog' = Backlog /\ SavedInOrder' = SavedInOrder
      BY <1>2, <3>1, BacklogType DEF Backlog, InHand, SavedInOrder
    <3>3. CASE worker = "save"
      <4>1. Sink!Try
        BY <3>1, <3>2, <3>3 DEF Sink!Try, Backlog, InHand
      <4> QED
        BY <4>1 DEF Sink!SinkNext
    <3>4. CASE worker = "prune"
      BY <3>1, <3>2, <3>4, SinkStutter
    <3> QED
      BY <3>1, <3>3, <3>4
  <2>4. CASE WorkerPrune
    <3>1. /\ Busy /\ task' = task /\ q' = q /\ Busy'
          /\ worker = "prune" /\ worker' = "count"
          /\ everSaved' = everSaved /\ nextId' = nextId
      BY <2>4 DEF WorkerPrune, WorkerStep, PruneKeepLatest, Busy, queueVars
    <3> QED
      BY <3>1, SinkStutter DEF Backlog, InHand
  <2>5. CASE FetchSub
    <3>1. /\ Busy /\ ~Busy' /\ q' = q /\ worker = "count" /\ worker' = "notify"
          /\ everSaved' = everSaved /\ nextId' = nextId
      BY <2>5 DEF FetchSub, WorkerStep, Busy, storeVars
    <3>2. Backlog # <<>> /\ Tail(Backlog) = q
      BY <1>2, <3>1, BacklogType
    <3>3. Backlog' = q'
      BY <1>2, <3>1, ConcatEmptySeq DEF Backlog, InHand, WriterInv, WriterTypeOK
    <3>4. SavedInOrder' = SavedInOrder
      BY <3>1 DEF SavedInOrder
    <3>5. Sink!Finish
      BY <3>1, <3>2, <3>3, <3>4 DEF Sink!Finish, Backlog, InHand
    <3> QED
      BY <3>5 DEF Sink!SinkNext
  <2>6. CASE WorkerExit
    <3>1. /\ ~Busy /\ ~Busy' /\ q = <<>> /\ q' = q
          /\ worker = "awake" /\ worker' = "done"
          /\ everSaved' = everSaved /\ nextId' = nextId
      BY <2>6 DEF WorkerExit, WorkerStep, Busy, queueVars, storeVars
    <3>2. Backlog = <<>> /\ Backlog' = Backlog
      BY <1>2, <3>1, BacklogType DEF Backlog, InHand
    <3>3. SavedInOrder' = SavedInOrder
      BY <3>1 DEF SavedInOrder
    <3>4. Sink!Close
      BY <3>1, <3>2, <3>3 DEF Sink!Close, Backlog, InHand
    <3> QED
      BY <3>4 DEF Sink!SinkNext
  <2>7. CASE WorkerSleep \/ WorkerSpuriousWake \/ NotifyAll \/ Destroy
             \/ UNCHANGED writerVars
    <3>1. /\ q' = q /\ task' = task /\ everSaved' = everSaved /\ nextId' = nextId
          /\ Busy' = Busy
          /\ worker' = "done" <=> worker = "done"
          /\ worker' \in {"prune", "count"} <=> worker \in {"prune", "count"}
      BY <2>7 DEF WorkerSleep, WorkerSpuriousWake, NotifyAll, Destroy, WakeWorker,
                  WorkerStep, Busy, writerVars,
                  queueVars, workerVars, storeVars
    <3> QED
      BY <3>1, SinkStutter DEF Backlog, InHand
  <2>8. ASSUME NEW t \in Threads, Push(t) PROVE Step
    <3>1. /\ q' = Append(q, arg[t]) /\ worker' = worker /\ task' = task /\ Busy' = Busy
          /\ everSaved' = everSaved /\ nextId' = nextId /\ pc[t] = "push"
      BY <2>8 DEF Push, Goto, Busy, workerVars, storeVars
    <3>2. arg[t] \in AnySnapshot /\ arg[t] \in PersistedBoardSnapshot
      BY <1>2, <3>1 DEF SinkInv, ArgAccepted, WriterInv, WriterTypeOK
    <3>3. worker # "done"
      BY <1>2, <3>1 DEF WriterInv, DoneStopped, StopQuiet
    <3>4. Backlog' = Append(Backlog, arg[t])
      <4>1. PICK hand \in Seq(PersistedBoardSnapshot) : hand = InHand
        BY <1>2, BacklogType, Zenon
      <4>2. q \in Seq(PersistedBoardSnapshot)
        BY <1>2, BacklogType
      <4>3. hand \o Append(q, arg[t]) = Append(hand \o q, arg[t])
        BY ONLY <3>2, <4>2
      <4>4. InHand' = InHand
        BY <3>1 DEF InHand
      <4> QED
        BY <3>1, <4>1, <4>3, <4>4 DEF Backlog
    <3>5. SavedInOrder' = SavedInOrder
      BY <3>1 DEF SavedInOrder
    <3>6. Sink!Accept
      BY <3>1, <3>2, <3>3, <3>4, <3>5 DEF Sink!Accept, Backlog, InHand
    <3> QED
      BY <3>6 DEF Sink!SinkNext
  <2>9. ASSUME NEW t \in Threads,
               \/ Enqueue(t) \/ NotifyOne(t)
               \/ FlushCall(t) \/ FlushStep(t) \/ FlushSpuriousWake(t)
        PROVE  Step
    <3>1. /\ q' = q /\ task' = task /\ everSaved' = everSaved /\ nextId' = nextId
          /\ Busy' = Busy
          /\ worker' = "done" <=> worker = "done"
          /\ worker' \in {"prune", "count"} <=> worker \in {"prune", "count"}
      BY <2>9 DEF Enqueue, FetchAdd, NotifyOne, WakeWorker, FlushCall, FlushStep,
                  FlushReturn, FlushTestFails, FlushPark, FlushSpuriousWake,
                  Busy, queueVars, workerVars, storeVars
    <3> QED
      BY <3>1, SinkStutter DEF Backlog, InHand
  <2> QED
    BY <1>2, <2>1, <2>2, <2>3, <2>4, <2>5, <2>6, <2>7, <2>8, <2>9
    DEF WriterNext, WriterAction, EnqueueStep
<1> QED
  BY <1>1, <1>2, WriterInvariant, SinkInvariant, PTL
  DEF WriterSpec, ImplementsSink, Sink!SinkSpec

=============================================================================
