----------------------------- MODULE Phase0Pool -----------------------------
(***************************************************************************)
(* runPhase0 (client/geth/state_writer.go): the storage tries of the       *)
(* streamed accounts are built by a pool of workers.  A feeder sends the   *)
(* accounts through drainCh; a worker writes one account's rows into its   *)
(* own batch, which it commits whenever it fills up and once more when it  *)
(* exits, and reports the storage root through preparedCh; the main        *)
(* goroutine splices the roots.  The first failure, or the caller's        *)
(* cancellation, cancels drainCtx with a cause.  besu, nethermind, nimbus  *)
(* and ethrex run the same pool over their own sinks.                      *)
(*                                                                         *)
(* Accounts are distinct and independent, so a channel is the set of the   *)
(* accounts in it: any order of delivery is allowed.                       *)
(***************************************************************************)
EXTENDS Pool, FiniteSets

NoItem == "no item"
RowsOfItem(i) == {i} \X (1..RowsPerItem)
AllRows == Items \X (1..RowsPerItem)

VARIABLES
    unfed, drainCh, drainClosed,       \* feeder and its channel
    stage, building, written, scratch, \* per worker: step, account, rows written, batch
    preparedCh, preparedClosed,
    cause, cancelled,                  \* context.Cause(drainCtx); ctx itself
    committed,                         \* committed rows
    roots,                             \* accounts whose root was spliced
    verdict                            \* running | error | ok (runPhase0) | success | aborted

workerVars == <<stage, building, written, scratch>>
phase0Vars == <<unfed, drainCh, drainClosed, stage, building, written, scratch,
                preparedCh, preparedClosed, cause, cancelled, committed, roots, verdict>>

Phase0Init ==
    /\ unfed = Items /\ drainCh = {} /\ drainClosed = FALSE
    /\ stage = [w \in Workers |-> "recv"]
    /\ building = [w \in Workers |-> NoItem]
    /\ written = [w \in Workers |-> 0]
    /\ scratch = [w \in Workers |-> {}]
    /\ preparedCh = {} /\ preparedClosed = FALSE
    /\ cause = "none" /\ cancelled = FALSE
    /\ committed = {} /\ roots = {}
    /\ verdict = "running"

DrainCtxDone == cause # "none"                     \* drainCtx.Done() is closed
CancelDrainCtx(c) == cause' = IF DrainCtxDone THEN cause ELSE c

-----------------------------------------------------------------------------
Feed(i) ==
    /\ ~drainClosed /\ i \in unfed
    /\ Cardinality(drainCh) < DrainCap
    /\ unfed' = unfed \ {i} /\ drainCh' = drainCh \cup {i}
    /\ UNCHANGED <<drainClosed, workerVars, preparedCh, preparedClosed, cause,
                   cancelled, committed, roots, verdict>>

FeedEnds == unfed = {} \/ DrainCtxDone

CloseDrainCh ==
    /\ ~drainClosed
    /\ FeedEnds
    /\ drainClosed' = TRUE
    /\ UNCHANGED <<unfed, drainCh, workerVars, preparedCh, preparedClosed,
                   cause, cancelled, committed, roots, verdict>>

-----------------------------------------------------------------------------
WorkerMoves(w, from, to) == stage[w] = from /\ stage' = [stage EXCEPT ![w] = to]

\* for i := range drainCh { if drainCtx.Err() != nil { return } ...
ErrSeen == DrainCtxDone

ReceiveItem(w) ==
    /\ \/ \E i \in drainCh :
             /\ drainCh' = drainCh \ {i}
             /\ IF ErrSeen
                THEN WorkerMoves(w, "recv", "close") /\ UNCHANGED <<building, written>>
                ELSE /\ WorkerMoves(w, "recv", "work")
                     /\ building' = [building EXCEPT ![w] = i]
                     /\ written' = [written EXCEPT ![w] = 0]
       \/ /\ drainCh = {} /\ drainClosed
          /\ WorkerMoves(w, "recv", "close")
          /\ UNCHANGED <<drainCh, building, written>>
    /\ UNCHANGED <<unfed, drainClosed, scratch, preparedCh, preparedClosed,
                   cause, cancelled, committed, roots, verdict>>

\* The rows of an account, in order; Root follows the last one.
MoreRows(w) == written[w] < RowsPerItem

\* A full batch is committed and replaced.
RotateEarly(w, filled) ==
    /\ committed' = committed \cup scratch[w]
    /\ scratch' = [scratch EXCEPT ![w] = {}]
Rotate(w, filled) ==
    /\ committed' = committed \cup filled
    /\ scratch' = [scratch EXCEPT ![w] = {}]

\* One row of it.root(hb, sink): scratchBatchWriter.Set, which commits and
\* rotates a full batch in the middle of an account.
WriteRow(w) ==
    LET filled == scratch[w] \cup {<<building[w], written[w] + 1>>} IN
    /\ MoreRows(w)
    /\ WorkerMoves(w, "work", "work")
    /\ written' = [written EXCEPT ![w] = written[w] + 1]
    /\ IF Cardinality(filled) >= FlushRows
       THEN Rotate(w, filled)
       ELSE UNCHANGED committed /\ scratch' = [scratch EXCEPT ![w] = filled]
    /\ UNCHANGED <<unfed, drainCh, drainClosed, building, preparedCh,
                   preparedClosed, cause, cancelled, roots, verdict>>

\* it.root fails: the drain, the trie, or the commit of a full batch, whose
\* rows then stay in the batch.
RootFails(w) ==
    /\ CanFail
    /\ WorkerMoves(w, "work", "close")
    /\ CancelDrainCtx("worker")
    /\ \/ UNCHANGED scratch
       \/ /\ MoreRows(w)
          /\ Cardinality(scratch[w]) + 1 >= FlushRows
          /\ scratch' = [scratch EXCEPT ![w] = @ \cup {<<building[w], written[w] + 1>>}]
    /\ UNCHANGED <<unfed, drainCh, drainClosed, building, written, preparedCh,
                   preparedClosed, cancelled, committed, roots, verdict>>

Report(w) ==
    /\ written[w] = RowsPerItem
    /\ \/ /\ Cardinality(preparedCh) < PreparedCap
          /\ preparedCh' = preparedCh \cup {building[w]}
          /\ WorkerMoves(w, "work", "recv")
       \/ DrainCtxDone /\ WorkerMoves(w, "work", "close") /\ UNCHANGED preparedCh
    /\ UNCHANGED <<unfed, drainCh, drainClosed, building, written, scratch,
                   preparedClosed, cause, cancelled, committed, roots, verdict>>

\* The deferred sbw.Close: a failure is reported through the cause.
CloseBatch(w) ==
    /\ WorkerMoves(w, "close", "done")
    /\ \/ /\ committed' = committed \cup scratch[w]
          /\ scratch' = [scratch EXCEPT ![w] = {}]
          /\ UNCHANGED cause
       \/ /\ CanFail /\ scratch[w] # {}
          /\ CancelDrainCtx("flush")
          /\ UNCHANGED <<committed, scratch>>
    /\ UNCHANGED <<unfed, drainCh, drainClosed, building, written, preparedCh,
                   preparedClosed, cancelled, roots, verdict>>

-----------------------------------------------------------------------------
\* wg.Done is deferred before sbw.Close and therefore runs after it.
WgDoneFirst == \A w \in Workers : stage[w] \in {"close", "done"}
WgZero == \A w \in Workers : stage[w] = "done"

ClosePreparedCh ==
    /\ ~preparedClosed
    /\ WgZero
    /\ preparedClosed' = TRUE
    /\ UNCHANGED <<unfed, drainCh, drainClosed, workerVars, preparedCh, cause,
                   cancelled, committed, roots, verdict>>

Splice ==
    /\ verdict = "running"
    /\ \E i \in preparedCh :
          preparedCh' = preparedCh \ {i} /\ roots' = roots \cup {i}
    /\ UNCHANGED <<unfed, drainCh, drainClosed, workerVars, preparedClosed,
                   cause, cancelled, committed, verdict>>

\* cause != nil && cause != context.Canceled
CauseIsError == cause \notin {"none", "canceled"}

Phase0Returns ==
    /\ verdict = "running"
    /\ preparedCh = {} /\ preparedClosed
    /\ verdict' = IF CauseIsError THEN "error" ELSE "ok"
    /\ UNCHANGED <<unfed, drainCh, drainClosed, workerVars, preparedCh,
                   preparedClosed, cause, cancelled, committed, roots>>

\* writeStateAndCollectRoot goes on; Phase 2 tests ctx for every account.
Phase2Unchecked == FALSE
Phase2Aborts == cancelled

Phase2 ==
    /\ verdict = "ok"
    /\ verdict' = IF Phase2Aborts THEN "aborted" ELSE "success"
    /\ UNCHANGED <<unfed, drainCh, drainClosed, workerVars, preparedCh,
                   preparedClosed, cause, cancelled, committed, roots>>

CancelCtx ==
    /\ CanCancel /\ ~cancelled
    /\ verdict \in {"running", "ok"}
    /\ cancelled' = TRUE
    /\ CancelDrainCtx("canceled")
    /\ UNCHANGED <<unfed, drainCh, drainClosed, workerVars, preparedCh,
                   preparedClosed, committed, roots, verdict>>

Finished == verdict \in {"error", "aborted", "success"}
Idle == Finished /\ UNCHANGED phase0Vars

PoolWorker(w) ==
    ReceiveItem(w) \/ WriteRow(w) \/ RootFails(w) \/ Report(w) \/ CloseBatch(w)
FeederStep == CloseDrainCh \/ \E i \in Items : Feed(i)
CollectRoots == Splice \/ Phase0Returns
PoolRuns ==
    \/ FeederStep \/ ClosePreparedCh \/ CollectRoots
    \/ \E w \in Workers : PoolWorker(w)
GethRuns == PoolRuns \/ Phase2
GethNext == GethRuns \/ CancelCtx \/ Idle

\* While a goroutine can run, one runs; the caller need not cancel.
GethSpec == Phase0Init /\ [][GethNext]_phase0Vars /\ WF_phase0Vars(GethRuns)

-----------------------------------------------------------------------------
\* Channels, batches and verdicts hold what they may hold.
PoolTypeOK ==
    /\ unfed \in SUBSET Items /\ drainCh \in SUBSET Items
    /\ preparedCh \in SUBSET Items /\ roots \in SUBSET Items
    /\ drainClosed \in BOOLEAN /\ preparedClosed \in BOOLEAN
    /\ stage \in [Workers -> {"recv", "work", "close", "done"}]
    /\ building \in [Workers -> Items \cup {NoItem}]
    /\ written \in [Workers -> 0..RowsPerItem]
    /\ scratch \in [Workers -> SUBSET AllRows]
    /\ committed \in SUBSET AllRows
    /\ cause \in {"none", "worker", "flush", "canceled"}
    /\ cancelled \in BOOLEAN
    /\ verdict \in {"running", "ok", "error", "aborted", "success"}

\* A run that goes on to build the account trie has every streamed account's
\* root and, committed, every row of its storage: no failure of a worker, of
\* a mid-account commit or of a final flush is lost, however it races with
\* the other workers, the end of the input and the caller's cancellation.
SuccessIsComplete == verdict = "success" => roots = Items /\ committed = AllRows

\* The same of runPhase0 itself, which returns nil when the caller cancelled.
OkIsCompleteOrCancelled ==
    verdict = "ok" => cancelled \/ (roots = Items /\ committed = AllRows)

\* A root is only spliced when the account's rows are committed or held in
\* a worker's batch; none was dropped by a batch rotation.
RootHasRows ==
    \A i \in roots : RowsOfItem(i) \subseteq committed \cup UNION {scratch[w] : w \in Workers}

\* Once the context is done no worker starts another account.
NoWorkAfterDone ==
    [][DrainCtxDone => \A w \in Workers : stage[w] = "recv" => stage'[w] # "work"]_phase0Vars

\* runPhase0 returns and leaves no goroutine behind, whatever fails: feeder,
\* workers and main never wait for each other in a circle.
PoolStopped == Finished /\ drainClosed /\ WgZero
=============================================================================
