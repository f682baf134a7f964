----------------------------- MODULE PhaseProofs -----------------------------
(***************************************************************************)
(* Proofs about the first two phases of the writers, each on its own.      *)
(*                                                                         *)
(* The Phase-0 pool (runPhase0), for any accounts, workers, batch size and *)
(* channel capacities: a run that ends well lost nothing.                  *)
(*                                                                         *)
(* Phase 1 (runPhase1Pipeline), for any number of entities, workers, batch *)
(* size and channel capacity: a nil error means that all entities are in   *)
(* the spill store.                                                        *)
(***************************************************************************)
EXTENDS Phase0Pool, SpillPipeline, TLAPS

\* A row reached the database or waits in some worker's batch.
Kept(i, n) == <<i, n>> \in committed \/ \E w \in Workers : <<i, n>> \in scratch[w]

\* While drainCtx is live every account is somewhere on its way.
Accounted ==
    cause = "none" => \A i \in Items :
        \/ i \in unfed \cup drainCh \cup preparedCh \cup roots
        \/ \E w \in Workers : stage[w] = "work" /\ building[w] = i

\* The rows an account has written so far are kept: by the worker that is
\* on it, and by anyone once its root is reported.
RowsKept ==
    /\ \A w \in Workers : stage[w] = "work" =>
          /\ building[w] \in Items
          /\ \A n \in 1..written[w] : <<building[w], n>> \in committed \cup scratch[w]
    /\ \A i \in preparedCh \cup roots : \A n \in 1..RowsPerItem : Kept(i, n)

\* Without a cause, workers leave only when the input ran out, and with
\* their batch committed.
CleanExit ==
    cause = "none" =>
        /\ drainClosed => unfed = {}
        /\ \A w \in Workers :
              /\ stage[w] \in {"close", "done"} => drainClosed /\ drainCh = {}
              /\ stage[w] = "done" => scratch[w] = {}

\* preparedCh is closed behind the last worker, and drained before return.
Joined ==
    /\ preparedClosed => \A w \in Workers : stage[w] = "done"
    /\ verdict # "running" => preparedClosed /\ preparedCh = {}
    /\ verdict \in {"ok", "success"} => cause \in {"none", "canceled"}
    /\ verdict = "success" => cause = "none"
    /\ cause = "canceled" => cancelled

PoolInv == PoolTypeOK /\ Accounted /\ RowsKept /\ CleanExit /\ Joined

\* The initial state satisfies the invariant.
LEMMA PoolInitInv == Phase0Init => PoolInv
<1> SUFFICES ASSUME Phase0Init PROVE PoolInv
  OBVIOUS
<1> USE DEF Phase0Init
<1>1. PoolTypeOK
  <2>1. written \in [Workers -> 0..RowsPerItem]
    BY PoolAssumption
  <2>2. scratch \in [Workers -> SUBSET AllRows]
    OBVIOUS
  <2> QED
    BY Zenon, <2>1, <2>2 DEF PoolTypeOK
<1>2. Accounted /\ RowsKept
  BY DEF Accounted, RowsKept
<1>3. CleanExit /\ Joined
  BY DEF CleanExit, Joined
<1> QED
  BY <1>1, <1>2, <1>3 DEF PoolInv

\* The type invariant is inductive, given that a working worker has an account.
LEMMA PoolTypeStep == PoolInv /\ [GethNext]_phase0Vars => PoolTypeOK'
<1> SUFFICES ASSUME PoolInv, [GethNext]_phase0Vars PROVE PoolTypeOK'
  OBVIOUS
<1> USE PoolAssumption DEF PoolInv, PoolTypeOK, RowsKept, AllRows, DrainCtxDone, workerVars
<1>1. ASSUME NEW i \in Items, Feed(i) PROVE PoolTypeOK'
  BY <1>1 DEF Feed
<1>2. CASE CloseDrainCh
  BY <1>2 DEF CloseDrainCh, FeedEnds
<1>3. ASSUME NEW w \in Workers, ReceiveItem(w) PROVE PoolTypeOK'
  BY <1>3 DEF ReceiveItem, WorkerMoves, ErrSeen
<1>4. ASSUME NEW w \in Workers, WriteRow(w) PROVE PoolTypeOK'
  BY <1>4 DEF WriteRow, WorkerMoves, MoreRows, Rotate
<1>5. ASSUME NEW w \in Workers, RootFails(w) PROVE PoolTypeOK'
  BY <1>5 DEF RootFails, WorkerMoves, CancelDrainCtx, MoreRows
<1>6. ASSUME NEW w \in Workers, Report(w) PROVE PoolTypeOK'
  BY <1>6 DEF Report, WorkerMoves
<1>7. ASSUME NEW w \in Workers, CloseBatch(w) PROVE PoolTypeOK'
  BY <1>7 DEF CloseBatch, WorkerMoves, CancelDrainCtx
<1>8. CASE ClosePreparedCh
  BY <1>8 DEF ClosePreparedCh, WgZero
<1>9. CASE Splice
  BY <1>9 DEF Splice
<1>10. CASE Phase0Returns
  BY <1>10 DEF Phase0Returns, CauseIsError
<1>11. CASE Phase2
  BY <1>11 DEF Phase2, Phase2Aborts
<1>12. CASE CancelCtx
  BY <1>12 DEF CancelCtx, CancelDrainCtx
<1>13. CASE Idle \/ UNCHANGED phase0Vars
  BY <1>13 DEF Idle, phase0Vars
<1> QED
  BY <1>1, <1>2, <1>3, <1>4, <1>5, <1>6, <1>7, <1>8, <1>9, <1>10,
     <1>11, <1>12, <1>13
  DEF GethNext, GethRuns, PoolRuns, FeederStep, PoolWorker, CollectRoots

\* No step drops an account without a cause.
LEMMA AccountedStep == PoolInv /\ [GethNext]_phase0Vars => Accounted'
<1> SUFFICES ASSUME PoolInv, [GethNext]_phase0Vars PROVE Accounted'
  OBVIOUS
<1> USE PoolAssumption DEF PoolInv, PoolTypeOK, Accounted, DrainCtxDone, workerVars
<1>1. ASSUME NEW i \in Items, Feed(i) PROVE Accounted'
  BY <1>1 DEF Feed
<1>2. CASE CloseDrainCh
  BY <1>2 DEF CloseDrainCh, FeedEnds
<1>3. ASSUME NEW w \in Workers, ReceiveItem(w) PROVE Accounted'
  BY <1>3 DEF ReceiveItem, WorkerMoves, ErrSeen
<1>4. ASSUME NEW w \in Workers, WriteRow(w) PROVE Accounted'
  BY <1>4 DEF WriteRow, WorkerMoves, MoreRows, Rotate
<1>5. ASSUME NEW w \in Workers, RootFails(w) PROVE Accounted'
  BY <1>5 DEF RootFails, WorkerMoves, CancelDrainCtx, MoreRows
<1>6. ASSUME NEW w \in Workers, Report(w) PROVE Accounted'
  BY <1>6 DEF Report, WorkerMoves
<1>7. ASSUME NEW w \in Workers, CloseBatch(w) PROVE Accounted'
  BY <1>7 DEF CloseBatch, WorkerMoves, CancelDrainCtx
<1>8. CASE ClosePreparedCh
  BY <1>8 DEF ClosePreparedCh, WgZero
<1>9. CASE Splice
  BY <1>9 DEF Splice
<1>10. CASE Phase0Returns
  BY <1>10 DEF Phase0Returns, CauseIsError
<1>11. CASE Phase2
  BY <1>11 DEF Phase2, Phase2Aborts
<1>12. CASE CancelCtx
  BY <1>12 DEF CancelCtx, CancelDrainCtx
<1>13. CASE Idle \/ UNCHANGED phase0Vars
  BY <1>13 DEF Idle, phase0Vars
<1> QED
  BY <1>1, <1>2, <1>3, <1>4, <1>5, <1>6, <1>7, <1>8, <1>9, <1>10,
     <1>11, <1>12, <1>13
  DEF GethNext, GethRuns, PoolRuns, FeederStep, PoolWorker, CollectRoots

\* No step drops a row.
LEMMA RowsStep == PoolInv /\ [GethNext]_phase0Vars => RowsKept'
<1> SUFFICES ASSUME PoolInv, [GethNext]_phase0Vars PROVE RowsKept'
  OBVIOUS
<1> USE PoolAssumption DEF PoolInv, PoolTypeOK, RowsKept, Kept, DrainCtxDone, workerVars
<1>1. ASSUME NEW i \in Items, Feed(i) PROVE RowsKept'
  BY <1>1 DEF Feed
<1>2. CASE CloseDrainCh
  BY <1>2 DEF CloseDrainCh, FeedEnds
<1>3. ASSUME NEW w \in Workers, ReceiveItem(w) PROVE RowsKept'
  BY <1>3 DEF ReceiveItem, WorkerMoves, ErrSeen
<1>4. ASSUME NEW w \in Workers, WriteRow(w) PROVE RowsKept'
  BY <1>4 DEF WriteRow, WorkerMoves, MoreRows, Rotate
<1>5. ASSUME NEW w \in Workers, RootFails(w) PROVE RowsKept'
  BY <1>5 DEF RootFails, WorkerMoves, CancelDrainCtx, MoreRows
<1>6. ASSUME NEW w \in Workers, Report(w) PROVE RowsKept'
  BY <1>6 DEF Report, WorkerMoves
<1>7. ASSUME NEW w \in Workers, CloseBatch(w) PROVE RowsKept'
  BY <1>7 DEF CloseBatch, WorkerMoves, CancelDrainCtx
<1>8. CASE ClosePreparedCh
  BY <1>8 DEF ClosePreparedCh, WgZero
<1>9. CASE Splice
  BY <1>9 DEF Splice
<1>10. CASE Phase0Returns
  BY <1>10 DEF Phase0Returns, CauseIsError
<1>11. CASE Phase2
  BY <1>11 DEF Phase2, Phase2Aborts
<1>12. CASE CancelCtx
  BY <1>12 DEF CancelCtx, CancelDrainCtx
<1>13. CASE Idle \/ UNCHANGED phase0Vars
  BY <1>13 DEF Idle, phase0Vars
<1> QED
  BY Zenon, <1>1, <1>2, <1>3, <1>4, <1>5, <1>6, <1>7, <1>8, <1>9, <1>10,
     <1>11, <1>12, <1>13
  DEF GethNext, GethRuns, PoolRuns, FeederStep, PoolWorker, CollectRoots

\* Workers leave cleanly or with a cause.
LEMMA ExitStep == PoolInv /\ [GethNext]_phase0Vars => CleanExit'
<1> SUFFICES ASSUME PoolInv, [GethNext]_phase0Vars PROVE CleanExit'
  OBVIOUS
<1> USE PoolAssumption DEF PoolInv, PoolTypeOK, CleanExit, Joined, DrainCtxDone, workerVars
<1>1. ASSUME NEW i \in Items, Feed(i) PROVE CleanExit'
  BY <1>1 DEF Feed
<1>2. CASE CloseDrainCh
  BY <1>2 DEF CloseDrainCh, FeedEnds
<1>3. ASSUME NEW w \in Workers, ReceiveItem(w) PROVE CleanExit'
  BY <1>3 DEF ReceiveItem, WorkerMoves, ErrSeen
<1>4. ASSUME NEW w \in Workers, WriteRow(w) PROVE CleanExit'
  BY <1>4 DEF WriteRow, WorkerMoves, MoreRows, Rotate
<1>5. ASSUME NEW w \in Workers, RootFails(w) PROVE CleanExit'
  BY <1>5 DEF RootFails, WorkerMoves, CancelDrainCtx, MoreRows
<1>6. ASSUME NEW w \in Workers, Report(w) PROVE CleanExit'
  BY <1>6 DEF Report, WorkerMoves
<1>7. ASSUME NEW w \in Workers, CloseBatch(w) PROVE CleanExit'
  BY <1>7 DEF CloseBatch, WorkerMoves, CancelDrainCtx
<1>8. CASE ClosePreparedCh
  BY <1>8 DEF ClosePreparedCh, WgZero
<1>9. CASE Splice
  BY <1>9 DEF Splice
<1>10. CASE Phase0Returns
  BY <1>10 DEF Phase0Returns, CauseIsError
<1>11. CASE Phase2
  BY <1>11 DEF Phase2, Phase2Aborts
<1>12. CASE CancelCtx
  BY <1>12 DEF CancelCtx, CancelDrainCtx
<1>13. CASE Idle \/ UNCHANGED phase0Vars
  BY <1>13 DEF Idle, phase0Vars
<1> QED
  BY <1>1, <1>2, <1>3, <1>4, <1>5, <1>6, <1>7, <1>8, <1>9, <1>10,
     <1>11, <1>12, <1>13
  DEF GethNext, GethRuns, PoolRuns, FeederStep, PoolWorker, CollectRoots

\* The pool is joined before it returns.
LEMMA JoinStep == PoolInv /\ [GethNext]_phase0Vars => Joined'
<1> SUFFICES ASSUME PoolInv, [GethNext]_phase0Vars PROVE Joined'
  OBVIOUS
<1> USE PoolAssumption DEF PoolInv, PoolTypeOK, Joined, DrainCtxDone, workerVars
<1>1. ASSUME NEW i \in Items, Feed(i) PROVE Joined'
  BY <1>1 DEF Feed
<1>2. CASE CloseDrainCh
  BY <1>2 DEF CloseDrainCh, FeedEnds
<1>3. ASSUME NEW w \in Workers, ReceiveItem(w) PROVE Joined'
  BY <1>3 DEF ReceiveItem, WorkerMoves, ErrSeen
<1>4. ASSUME NEW w \in Workers, WriteRow(w) PROVE Joined'
  BY <1>4 DEF WriteRow, WorkerMoves, MoreRows, Rotate
<1>5. ASSUME NEW w \in Workers, RootFails(w) PROVE Joined'
  BY <1>5 DEF RootFails, WorkerMoves, CancelDrainCtx, MoreRows
<1>6. ASSUME NEW w \in Workers, Report(w) PROVE Joined'
  BY <1>6 DEF Report, WorkerMoves
<1>7. ASSUME NEW w \in Workers, CloseBatch(w) PROVE Joined'
  BY <1>7 DEF CloseBatch, WorkerMoves, CancelDrainCtx
<1>8. CASE ClosePreparedCh
  BY <1>8 DEF ClosePreparedCh, WgZero
<1>9. CASE Splice
  BY <1>9 DEF Splice
<1>10. CASE Phase0Returns
  BY <1>10 DEF Phase0Returns, CauseIsError
<1>11. CASE Phase2
  BY <1>11 DEF Phase2, Phase2Aborts
<1>12. CASE CancelCtx
  BY <1>12 DEF CancelCtx, CancelDrainCtx
<1>13. CASE Idle \/ UNCHANGED phase0Vars
  BY <1>13 DEF Idle, phase0Vars
<1> QED
  BY <1>1, <1>2, <1>3, <1>4, <1>5, <1>6, <1>7, <1>8, <1>9, <1>10,
     <1>11, <1>12, <1>13
  DEF GethNext, GethRuns, PoolRuns, FeederStep, PoolWorker, CollectRoots

\* The invariant is inductive.
LEMMA PoolIndStep == PoolInv /\ [GethNext]_phase0Vars => PoolInv'
BY PoolTypeStep, AccountedStep, RowsStep, ExitStep, JoinStep DEF PoolInv

\* The pool's variables keep their types (state of runPhase0).
THEOREM PoolTypes == GethSpec => []PoolTypeOK
<1>1. PoolInv => PoolTypeOK
  BY DEF PoolInv
<1> QED
  BY <1>1, PoolInitInv, PoolIndStep, PTL DEF GethSpec

\* An account whose root runPhase0 spliced has all its rows.
LEMMA InvRows == PoolInv => RootHasRows
BY DEF PoolInv, RowsKept, Kept, RootHasRows, RowsOfItem, PoolTypeOK, AllRows

\* A verdict without a cause is a complete one.
LEMMA Complete ==
    ASSUME PoolInv, verdict # "running", cause = "none"
    PROVE  roots = Items /\ committed = AllRows
<1> USE DEF PoolInv
<1>1. \A w \in Workers : stage[w] = "done" /\ scratch[w] = {}
  BY Zenon DEF Joined, CleanExit
<1>2. unfed = {} /\ drainCh = {} /\ preparedCh = {}
  BY <1>1, PoolAssumption DEF Joined, CleanExit
<1>3. roots = Items
  BY <1>1, <1>2 DEF Accounted, PoolTypeOK
<1>4. AllRows \subseteq committed
  BY <1>1, <1>3 DEF RowsKept, Kept, AllRows
<1> QED
  BY Zenon, <1>3, <1>4 DEF PoolTypeOK

\* A run that completes Phase 2 has every root and every row, whatever
\* failed, was cancelled or raced in runPhase0.
THEOREM PoolComplete == GethSpec => []SuccessIsComplete
<1>1. PoolInv => SuccessIsComplete
  BY Complete DEF PoolInv, Joined, SuccessIsComplete
<1> QED
  BY <1>1, PoolInitInv, PoolIndStep, PTL DEF GethSpec

\* runPhase0 returns nil only for a complete or a cancelled phase.
THEOREM PoolOk == GethSpec => []OkIsCompleteOrCancelled
<1>1. PoolInv => OkIsCompleteOrCancelled
  BY Complete DEF PoolInv, Joined, OkIsCompleteOrCancelled
<1> QED
  BY <1>1, PoolInitInv, PoolIndStep, PTL DEF GethSpec

\* A spliced root's rows are committed or held in a batch, in every state.
THEOREM PoolRows == GethSpec => []RootHasRows
<1> QED
  BY InvRows, PoolInitInv, PoolIndStep, PTL DEF GethSpec

\* No worker of runPhase0 starts an account once drainCtx is done.
THEOREM PoolStops == GethSpec => NoWorkAfterDone
<1>1. PoolInv /\ [GethNext]_phase0Vars => 
       [DrainCtxDone => \A w \in Workers : stage[w] = "recv" => stage'[w] # "work"]_phase0Vars
  <2> SUFFICES ASSUME PoolInv, GethNext, DrainCtxDone, NEW w \in Workers, stage[w] = "recv"
               PROVE  stage'[w] # "work"
    OBVIOUS
  <2> USE DEF PoolInv, PoolTypeOK, workerVars
  <2>1. ASSUME NEW v \in Workers, PoolWorker(v) PROVE stage'[w] # "work"
    BY <2>1 DEF PoolWorker, ReceiveItem, WriteRow, RootFails, Report,
      CloseBatch, WorkerMoves, ErrSeen
  <2>2. CASE FeederStep \/ ClosePreparedCh \/ CollectRoots \/ Phase2 \/ CancelCtx \/ Idle
    BY <2>2 DEF FeederStep, Feed, CloseDrainCh, ClosePreparedCh, CollectRoots,
       Splice, Phase0Returns, Phase2, CancelCtx, Idle, phase0Vars
  <2> QED
    BY <2>1, <2>2 DEF GethNext, GethRuns, PoolRuns
<1> QED
  BY <1>1, PoolInitInv, PoolIndStep, PTL DEF GethSpec, NoWorkAfterDone

-----------------------------------------------------------------------------
(* Phase 1 *)

SpillTypeOK ==
    /\ drawn \in 0 .. Count /\ batch \subseteq Draws
    /\ drawer \in {"draw", "send", "join", "back"}
    /\ drawCh \subseteq SUBSET Draws /\ drawClosed \in BOOLEAN
    /\ enc \in [Workers -> SUBSET Draws] /\ encDone \subseteq Workers
    /\ blobCh \subseteq SUBSET Draws /\ blobClosed \in BOOLEAN
    /\ puts \subseteq Draws /\ putDone \in BOOLEAN /\ sorter \subseteq Draws
    /\ firstErr \in BOOLEAN /\ ctxDone \in BOOLEAN
    /\ result \in {"none", "ok", "err"}

\* Where an entity may be: in a batch, a channel, a worker's or the Put
\* goroutine's hand, or the store.
InPipeline(i) ==
    \/ i \in batch \/ i \in puts \/ i \in sorter
    \/ \E b \in drawCh : i \in b
    \/ \E b \in blobCh : i \in b
    \/ \E w \in Workers : i \in enc[w]

\* While p1Ctx is live no entity drawn is lost.
NoEntityLost == ~Done => \A i \in Draws : i < drawn => InPipeline(i)

\* The goroutines end one after the other, each behind an empty channel.
SpillEnded ==
    /\ drawer \in {"join", "back"} <=> drawClosed
    /\ drawClosed => batch = {} \/ Done
    /\ drawClosed => drawn = Count \/ Done
    /\ \A w \in encDone : drawClosed /\ drawCh = {} /\ enc[w] = {}
    /\ blobClosed => encDone = Workers
    /\ putDone => blobClosed /\ blobCh = {} /\ puts = {}

SpillInv == SpillTypeOK /\ NoEntityLost /\ SpillEnded

\* The initial state satisfies the invariant.
LEMMA SpillInitInv == ASSUME Count \in Nat PROVE Init => SpillInv
<1> SUFFICES ASSUME Init PROVE SpillInv
  OBVIOUS
<1>1. SpillTypeOK
  <2>1. enc \in [Workers -> SUBSET Draws]
    BY DEF Init
  <2>2. drawn \in 0 .. Count
    BY DEF Init
  <2> QED
    BY Zenon, <2>1, <2>2 DEF Init, SpillTypeOK
<1>2. NoEntityLost
  BY DEF Init, NoEntityLost, Draws
<1>3. SpillEnded
  BY DEF Init, SpillEnded
<1> QED
  BY <1>1, <1>2, <1>3 DEF SpillInv

\* The types hold.
LEMMA SpillTypeStep == ASSUME Count \in Nat PROVE SpillInv /\ [Next]_vars => SpillTypeOK'
<1> SUFFICES ASSUME SpillInv, [Next]_vars PROVE SpillTypeOK'
  OBVIOUS
<1> USE DEF SpillInv, SpillTypeOK, Draws, drawVars, encVars, putVars
<1>1. CASE Draw
  BY <1>1 DEF Draw, BatchFull, Done
<1>2. CASE SendBatch
  BY Zenon, <1>2 DEF SendBatch, Done
<1>3. CASE DrawEnds
  BY Zenon, <1>3 DEF DrawEnds, TailPending, ClosesDraw, Done
<1>4. ASSUME NEW w \in Workers, TakeBatch(w) PROVE SpillTypeOK'
  BY <1>4 DEF TakeBatch, Done
<1>5. ASSUME NEW w \in Workers, Encode(w) PROVE SpillTypeOK'
  BY Zenon, <1>5 DEF Encode, Done
<1>6. ASSUME NEW w \in Workers, EncodeEnds(w) PROVE SpillTypeOK'
  BY <1>6 DEF EncodeEnds
<1>7. CASE CloseBlobs
  BY <1>7 DEF CloseBlobs, WorkersDone
<1>8. CASE TakeBlobs
  BY Zenon, <1>8 DEF TakeBlobs, Done
<1>9. CASE Put
  BY Zenon, <1>9 DEF Put
<1>10. CASE PutEnds
  BY <1>10 DEF PutEnds
<1>11. CASE Return
  BY <1>11 DEF Return, FinalError
<1>12. CASE Cancel
  BY <1>12 DEF Cancel
<1>13. CASE UNCHANGED vars
  BY <1>13 DEF vars
<1> QED
  BY <1>1, <1>2, <1>3, <1>4, <1>5, <1>6, <1>7, <1>8, <1>9, <1>10, <1>11, <1>12, <1>13
  DEF Next, Runs

\* No step drops an entity while p1Ctx is live.
LEMMA SpillLostStep == ASSUME Count \in Nat PROVE SpillInv /\ [Next]_vars => NoEntityLost'
<1> SUFFICES ASSUME SpillInv, [Next]_vars PROVE NoEntityLost'
  OBVIOUS
<1> USE DEF SpillInv, SpillTypeOK, NoEntityLost, SpillEnded, InPipeline, Done, drawVars, encVars, putVars
<1>1. CASE Draw
  <2>1. \A i \in Draws : i < drawn' => i < drawn \/ i = drawn
    BY <1>1 DEF Draw, Draws
  <2>2. drawn \in batch' /\ batch \subseteq batch'
    BY <1>1 DEF Draw
  <2> QED
    BY <1>1, <2>1, <2>2 DEF Draw
<1>2. CASE SendBatch
  BY <1>2 DEF SendBatch, Done
<1>3. CASE DrawEnds
  BY <1>3 DEF DrawEnds, TailPending, ClosesDraw, Done
<1>4. ASSUME NEW w \in Workers, TakeBatch(w) PROVE NoEntityLost'
  BY <1>4 DEF TakeBatch, Done
<1>5. ASSUME NEW w \in Workers, Encode(w) PROVE NoEntityLost'
  BY <1>5 DEF Encode, Done
<1>6. ASSUME NEW w \in Workers, EncodeEnds(w) PROVE NoEntityLost'
  BY <1>6 DEF EncodeEnds
<1>7. CASE CloseBlobs
  BY <1>7 DEF CloseBlobs, WorkersDone
<1>8. CASE TakeBlobs
  BY <1>8 DEF TakeBlobs, Done
<1>9. CASE Put
  BY <1>9 DEF Put
<1>10. CASE PutEnds
  BY <1>10 DEF PutEnds
<1>11. CASE Return
  BY <1>11 DEF Return, FinalError
<1>12. CASE Cancel
  BY <1>12 DEF Cancel
<1>13. CASE UNCHANGED vars
  BY SMTT(30), <1>13 DEF vars
<1> QED
  BY <1>1, <1>2, <1>3, <1>4, <1>5, <1>6, <1>7, <1>8, <1>9, <1>10, <1>11, <1>12, <1>13
  DEF Next, Runs

\* No goroutine ends before the one that feeds it.
LEMMA SpillEndStep == ASSUME Count \in Nat PROVE SpillInv /\ [Next]_vars => SpillEnded'
<1> SUFFICES ASSUME SpillInv, [Next]_vars PROVE SpillEnded'
  OBVIOUS
<1> USE DEF SpillInv, SpillTypeOK, SpillEnded, Done, drawVars, encVars, putVars
<1>1. CASE Draw
  BY <1>1 DEF Draw, BatchFull, Done
<1>2. CASE SendBatch
  BY <1>2 DEF SendBatch, Done
<1>3. CASE DrawEnds
  BY <1>3 DEF DrawEnds, TailPending, ClosesDraw, Done
<1>4. ASSUME NEW w \in Workers, TakeBatch(w) PROVE SpillEnded'
  BY <1>4 DEF TakeBatch, Done
<1>5. ASSUME NEW w \in Workers, Encode(w) PROVE SpillEnded'
  BY <1>5 DEF Encode, Done
<1>6. ASSUME NEW w \in Workers, EncodeEnds(w) PROVE SpillEnded'
  BY <1>6 DEF EncodeEnds
<1>7. CASE CloseBlobs
  BY <1>7 DEF CloseBlobs, WorkersDone
<1>8. CASE TakeBlobs
  BY <1>8 DEF TakeBlobs, Done
<1>9. CASE Put
  BY <1>9 DEF Put
<1>10. CASE PutEnds
  BY <1>10 DEF PutEnds
<1>11. CASE Return
  BY <1>11 DEF Return, FinalError
<1>12. CASE Cancel
  BY <1>12 DEF Cancel
<1>13. CASE UNCHANGED vars
  BY <1>13 DEF vars
<1> QED
  BY Zenon, <1>1, <1>2, <1>3, <1>4, <1>5, <1>6, <1>7, <1>8, <1>9, <1>10, <1>11, <1>12, <1>13
  DEF Next, Runs

\* The invariant is inductive.
LEMMA SpillIndStep == ASSUME Count \in Nat PROVE SpillInv /\ [Next]_vars => SpillInv'
BY SpillTypeStep, SpillLostStep, SpillEndStep DEF SpillInv

\* runPhase1Pipeline returns nil only when every entity is in the spill store,
\* for any number of entities, workers, batch size and channel capacity.
THEOREM SpillComplete == ASSUME Count \in Nat PROVE Spec => []NilMeansAllSpilled
<1>1. Init => NilMeansAllSpilled
  BY DEF Init, NilMeansAllSpilled
<1>2. SpillInv /\ NilMeansAllSpilled /\ [Next]_vars => NilMeansAllSpilled'
  <2> SUFFICES ASSUME SpillInv, NilMeansAllSpilled, [Next]_vars, result' = "ok"
               PROVE  sorter' = Draws
    BY DEF NilMeansAllSpilled
  <2>1. SpillInv'
    BY SpillIndStep
  <2>2. CASE result = "ok"
    <3>1. sorter \subseteq sorter'
      BY DEF Next, Runs, Draw, SendBatch, DrawEnds, TakeBatch, Encode, EncodeEnds, CloseBlobs,
        TakeBlobs, Put, PutEnds, Return, Cancel, vars, putVars
    <3> QED
      BY Zenon, <2>1, <2>2, <3>1 DEF NilMeansAllSpilled, SpillInv, SpillTypeOK
  <2>3. CASE result # "ok"
    <3>1. Return /\ ~FinalError
      BY <2>3 DEF Next, Runs, Draw, SendBatch, DrawEnds, TakeBatch, Encode, EncodeEnds, CloseBlobs,
        TakeBlobs, Put, PutEnds, Return, Cancel, vars, putVars
    <3>2. ~Done /\ drawn = Count /\ batch = {} /\ puts = {} /\ drawCh = {} /\ blobCh = {}
          /\ \A w \in Workers : enc[w] = {}
      BY <3>1, PoolAssumption DEF Return, FinalError, Done, SpillInv, SpillEnded
    <3>3. \A i \in Draws : i \in sorter
      BY <3>2 DEF SpillInv, NoEntityLost, InPipeline, Draws
    <3> QED
      BY Zenon, <3>1, <3>3 DEF Return, putVars, SpillInv, SpillTypeOK
  <2> QED
    BY <2>2, <2>3
<1> QED
  BY <1>1, <1>2, SpillInitInv, SpillIndStep, PTL DEF Spec
=============================================================================
